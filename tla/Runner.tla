-------------------------------- MODULE Runner --------------------------------
(***************************************************************************)
(* The registry of one replica's jobs (services/job.go NewRunner, Ensure,  *)
(* Close; services/live_job.go SetLive, Touch, sinceSeen, forgetSeen), for *)
(* several keys of both kinds at once.                                     *)
(*                                                                         *)
(* Ensure registers a key and spawns a goroutine; the goroutine waits for  *)
(* a slot of its kind's pool, works, and undoes its deferred calls one by  *)
(* one: the slot, the registry entry with its idle mark, the wait group.   *)
(* Polls touch the marks of live keys, and Close races all of it.          *)
(*                                                                         *)
(* What a job does at work is FileJob's and LiveJob's, which source a live *)
(* job follows LiveHandler's.                                              *)
(* A definition that nothing uses, placed before the one it is a faulty    *)
(* form of, is what PROJECT.json substitutes to see a property fail.       *)
(***************************************************************************)
EXTENDS Integers, FiniteSets

CONSTANTS
  FileKeys, LiveKeys,   \* artifact keys, by the kind of source they have
  MaxJobs, LiveMaxJobs, \* --max-jobs, --live-max-jobs
  Goroutines,           \* bound: job goroutines alive at once
  NoJob,                \* no goroutine: the key is not registered
  NoKey                 \* no key: the goroutine is not in use

Keys == FileKeys \cup LiveKeys

ASSUME RunnerAssumption ==
  /\ FileKeys \cap LiveKeys = {}
  /\ MaxJobs \in Nat \ {0} /\ LiveMaxJobs \in Nat \ {0}
  /\ IsFiniteSet(Goroutines)
  /\ NoJob \notin Goroutines /\ NoKey \notin Keys

VARIABLES
  running,   \* the goroutine registered for each key
  lastSeen,  \* the idle marks: none, fresh, or older than --live-idle
  over,      \* whether the run of a live key's source ended (RunEnded)
  slots,     \* the tokens in the two semaphore channels
  at,        \* where each goroutine is
  keyOf,     \* the key it was started for
  closing    \* how far Close is

registry == <<running, lastSeen>>
runnerVars == <<registry, over, slots, at, keyOf, closing>>

-----------------------------------------------------------------------------
OnePool(k) == "file"

\* Live jobs take their slots from a pool of their own.
PoolOf(k) == IF k \in LiveKeys THEN "live" ELSE "file"

Capacity(pool) == IF pool = "live" THEN LiveMaxJobs ELSE MaxJobs

Closed == closing # "open"

Cancelled == closing \in {"cancelled", "returned"}

RunnerInit == /\ running = [k \in Keys |-> NoJob]
              /\ lastSeen = [k \in Keys |-> "none"]
              /\ over = [k \in Keys |-> FALSE]
              /\ slots = [pool \in {"file", "live"} |-> 0]
              /\ at = [g \in Goroutines |-> "free"]
              /\ keyOf = [g \in Goroutines |-> NoKey]
              /\ closing = "open"

Goto(g, step) == at' = [at EXCEPT ![g] = step]

-----------------------------------------------------------------------------
(* Ensure, a critical section under Runner.mu.                             *)

AcceptsTwice(k) == ~Closed /\ ~over[k]

AcceptsWhenClosed(k) == running[k] = NoJob /\ ~over[k]

\* Early returns: closed, already running, nothing left of this live run.
Accepts(k) == ~Closed /\ running[k] = NoJob /\ ~over[k]

\* The mark is seeded with the entry that owns it.
Seeded(k) == [lastSeen EXCEPT ![k] = "fresh"]

Ensure(k, g) == /\ at[g] = "free"
                /\ Accepts(k)
                /\ running' = [running EXCEPT ![k] = g]
                /\ lastSeen' = Seeded(k)
                /\ keyOf' = [keyOf EXCEPT ![g] = k]
                /\ Goto(g, "queued")
                /\ UNCHANGED <<over, slots, closing>>

-----------------------------------------------------------------------------
(* The goroutine.                                                          *)

TakeSlot(g) == LET pool == PoolOf(keyOf[g]) IN
  /\ at[g] = "queued"
  /\ slots[pool] < Capacity(pool)
  /\ slots' = [slots EXCEPT ![pool] = @ + 1]
  /\ Goto(g, "working")
  /\ UNCHANGED <<registry, over, keyOf, closing>>

\* The runner's context is cancelled while the job waits for its slot, whose
\* release is not deferred yet.
QueueCancelled(g) == /\ at[g] = "queued" /\ Cancelled
                     /\ Goto(g, "unregister")
                     /\ UNCHANGED <<registry, over, slots, keyOf, closing>>

SlotLeaks == {"release", "unregister"}

\* What comes after run, whether it returned or panicked.
AfterWork == {"release"}

\* The work ends; a live job that ran to the end of its run marks it so.
EndWork(g) == /\ at[g] = "working"
              /\ \E step \in AfterWork : Goto(g, step)
              /\ \/ UNCHANGED over
                 \/ keyOf[g] \in LiveKeys /\ over' = [over EXCEPT ![keyOf[g]] = TRUE]
              /\ UNCHANGED <<registry, slots, keyOf, closing>>

ReleaseSlot(g) == /\ at[g] = "release"
                  /\ slots' = [slots EXCEPT ![PoolOf(keyOf[g])] = @ - 1]
                  /\ Goto(g, "unregister")
                  /\ UNCHANGED <<registry, over, keyOf, closing>>

ForgetsAfter == "exit"

\* The step that drops the mark: the critical section that drops the entry.
ForgetsAt == "unregister"

Forget(g) ==
  lastSeen' = IF at[g] = ForgetsAt THEN [lastSeen EXCEPT ![keyOf[g]] = "none"] ELSE lastSeen

Unregister(g) == /\ at[g] = "unregister"
                 /\ running' = [running EXCEPT ![keyOf[g]] = NoJob]
                 /\ Forget(g)
                 /\ Goto(g, "exit")
                 /\ UNCHANGED <<over, slots, keyOf, closing>>

\* close(done) and wg.Done.
Exit(g) == /\ at[g] = "exit"
           /\ Forget(g)
           /\ Goto(g, "free")
           /\ keyOf' = [keyOf EXCEPT ![g] = NoKey]
           /\ UNCHANGED <<running, over, slots, closing>>

-----------------------------------------------------------------------------
(* The polls, the clock and the sources.                                    *)

\* A GET or HEAD of a live key, until the web server has drained.
Touch(k) == /\ closing # "returned"
            /\ lastSeen' = [lastSeen EXCEPT ![k] = "fresh"]
            /\ UNCHANGED <<running, over, slots, at, keyOf, closing>>

\* --live-idle passes without another poll.
Ages(k) == /\ lastSeen[k] = "fresh"
           /\ lastSeen' = [lastSeen EXCEPT ![k] = "stale"]
           /\ UNCHANGED <<running, over, slots, at, keyOf, closing>>

\* A read adds cues, or the key gets another source.
NewRun(k) == /\ over[k]
             /\ over' = [over EXCEPT ![k] = FALSE]
             /\ UNCHANGED <<registry, slots, at, keyOf, closing>>

-----------------------------------------------------------------------------
(* Close: no new job, cancel, wait for the wait group.                      *)

CloseBegins == /\ closing = "open"
               /\ closing' = "closed"
               /\ UNCHANGED <<registry, over, slots, at, keyOf>>

Drained == \A g \in Goroutines : at[g] = "free"

CancelDrained == closing = "closed" /\ Drained

CancelAllowed == closing = "closed"

Cancel == /\ CancelAllowed
          /\ closing' = "cancelled"
          /\ UNCHANGED <<registry, over, slots, at, keyOf>>

CloseReturns == /\ closing = "cancelled" /\ Drained
                /\ closing' = "returned"
                /\ UNCHANGED <<registry, over, slots, at, keyOf>>

-----------------------------------------------------------------------------
JobStep(g) == \/ TakeSlot(g) \/ QueueCancelled(g) \/ EndWork(g)
              \/ ReleaseSlot(g) \/ Unregister(g) \/ Exit(g)

RunnerNext == \/ \E k \in Keys, g \in Goroutines : Ensure(k, g)
              \/ \E g \in Goroutines : JobStep(g)
              \/ \E k \in LiveKeys : Touch(k) \/ NewRun(k)
              \/ \E k \in Keys : Ages(k)
              \/ CloseBegins \/ Cancel \/ CloseReturns

RunnerSpec == RunnerInit /\ [][RunnerNext]_runnerVars

\* A file job comes to an end by its document and its deadlines, any job when
\* its context is cancelled, and a live one when its tick finds the mark old.
MustEnd(g) == /\ at[g] = "working"
              /\ keyOf[g] \in FileKeys \/ Cancelled \/ lastSeen[keyOf[g]] = "stale"

(* Time passes, deferred calls run, a batch or a store call returns, and a   *)
(* channel serves the goroutines that wait to send in the order they came.   *)
RunnerFairness ==
  /\ \A g \in Goroutines : /\ SF_runnerVars(TakeSlot(g))
                           /\ WF_runnerVars(QueueCancelled(g))
                           /\ WF_runnerVars(MustEnd(g) /\ EndWork(g))
                           /\ WF_runnerVars(ReleaseSlot(g) \/ Unregister(g) \/ Exit(g))
  /\ \A k \in Keys : WF_runnerVars(Ages(k))
  /\ WF_runnerVars(Cancel) /\ WF_runnerVars(CloseReturns)

RunnerFairSpec == RunnerSpec /\ RunnerFairness

-----------------------------------------------------------------------------
\* Registered: between Ensure and the critical section that undoes it.
Registered == {"queued", "working", "release", "unregister"}

HoldsSlot == {"working", "release"}

Holders(pool) == {g \in Goroutines : at[g] \in HoldsSlot /\ PoolOf(keyOf[g]) = pool}

\* The type invariant.
RunnerTypeOK ==
  /\ running \in [Keys -> Goroutines \cup {NoJob}]
  /\ lastSeen \in [Keys -> {"none", "fresh", "stale"}]
  /\ over \in [Keys -> BOOLEAN]
  /\ slots \in [{"file", "live"} -> Nat]
  /\ at \in [Goroutines -> Registered \cup {"free", "exit"}]
  /\ keyOf \in [Goroutines -> Keys \cup {NoKey}]
  /\ \A g \in Goroutines : at[g] # "free" => keyOf[g] \in Keys
  /\ closing \in {"open", "closed", "cancelled", "returned"}

\* One goroutine per key, and an entry exactly as long as its goroutine is at
\* it: a key is never worked on twice in a process, and a job's end, by a
\* return, a panic or a cancelled queue, never leaves an entry behind that
\* would keep the key from ever being started again (the comment on Ensure).
RegistryMatches ==
  /\ \A k \in Keys : running[k] # NoJob =>
       keyOf[running[k]] = k /\ at[running[k]] \in Registered
  /\ \A g \in Goroutines : at[g] \in Registered => running[keyOf[g]] = g

\* The channels hold one token for each goroutine that works, whichever way the
\* others left: no slot is lost or given back twice, and neither pool is
\* overrun (Runner.sem: "bounds how many jobs translate at once").
SlotsBalance ==
  \A pool \in {"file", "live"} :
    slots[pool] = Cardinality(Holders(pool)) /\ slots[pool] <= Capacity(pool)

\* A registered job always has a mark (sinceSeen: "so a running job always has
\* one"); without one it would read "just now" for ever.
RegisteredIsMarked == \A k \in Keys : running[k] # NoJob => lastSeen[k] # "none"

\* Once Close has returned no job runs and none starts, also for a request that
\* was on its way to Ensure when Close began.
ClosedIsQuiet == closing = "returned" => Drained /\ \A k \in Keys : running[k] = NoJob

\* Close drains: queued jobs, working ones and those on their way out.
CloseDrains == closing = "closed" ~> closing = "returned"

Queued(k) == running[k] # NoJob /\ at[running[k]] = "queued"

\* Live jobs hold their slots for the length of a film; no file job waits
\* behind them (Runner.liveSem: "one film must not queue every later track").
FileJobsGetASlot ==
  \A k \in FileKeys : Queued(k) ~> ~Queued(k)

Works(k) == running[k] # NoJob /\ at[running[k]] = "working"

\* A live job at work on a key that nobody asks for ends.
AbandonedJobEnds ==
  \A k \in LiveKeys : []<>(~Works(k) \/ lastSeen[k] = "fresh")

=============================================================================
