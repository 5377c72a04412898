------------------------------ MODULE FileJob ------------------------------
(***************************************************************************)
(* The translation job of one file track (services/job.go), run by several *)
(* replicas over the shared store (services/redis_store.go, store.go).     *)
(*                                                                         *)
(* One artifact key.  Every replica runs at most one job for it (the       *)
(* running map of Ensure); a job checks for a final artifact, takes the    *)
(* lock, loads the progress record, registers it, translates batch by      *)
(* batch under a deadline of one lock TTL, and retires the record for the  *)
(* final artifact.  Each store or upstream call is one step, so jobs of    *)
(* different replicas interleave between any two calls; every call can     *)
(* fail, a write can be applied although its caller saw an error, a        *)
(* replica can crash or be shut down, and time passes in ticks that run    *)
(* down the lease and the batch deadlines.                                 *)
(*                                                                         *)
(* A translated line is only told apart from an untranslated one: "lines"  *)
(* is the set of cues whose entry in Progress.Lines is not empty.          *)
(*                                                                         *)
(* A definition that Next does not use, placed before the one it is a      *)
(* faulty form of (ResumedAnySize before Resumed), is what PROJECT.json    *)
(* substitutes to see a property fail.                                     *)
(***************************************************************************)
EXTENDS Integers, FiniteSets

CONSTANTS
  Replicas,    \* the processes that serve the key
  Docs,        \* the documents a job for the key may have been given
  CueCount,    \* [Docs -> Nat]: len(doc.Cues)
  Text,        \* [Docs -> sets of cues]: the cues with text after Normalize
  BatchSize,   \* --batch-size
  LockTTL,     \* --lock-ttl, in ticks
  Positions,   \* the playheads a poll may report, on the cues' scale; 0 = none
  MaxFaults,   \* bound: failures, crashes, timeouts and slow store calls
  SlowStore,   \* whether time passes in the calls made between two batches
  Nobody,      \* the owner of a free lock
  Orphan,      \* the owner of a lock whose token no running job holds
  NoRecord,    \* no progress record
  NoFinal,     \* no final artifact
  NoDoc        \* no document: the replica runs no job

ASSUME FileJobAssumption ==
  /\ CueCount \in [Docs -> Nat]
  /\ Text \in [Docs -> SUBSET Nat]
  /\ \A d \in Docs : Text[d] \subseteq 1..CueCount[d]
  /\ BatchSize \in Nat \ {0}
  /\ LockTTL \in Nat \ {0}
  /\ Positions \subseteq Nat /\ 0 \in Positions
  /\ MaxFaults \in Nat
  /\ SlowStore \in BOOLEAN
  /\ NoRecord \notin [total : Nat, lines : SUBSET Nat]
  /\ NoFinal \notin [doc : Docs, lines : SUBSET Nat]
  /\ Nobody \notin Replicas /\ Orphan \notin Replicas /\ Nobody # Orphan

VARIABLES
  final,     \* the artifact: the document it renders and its translated cues
  progress,  \* the progress record: its cue count and its non-empty lines
  lock,      \* whose token the lock key carries
  lease,     \* ticks until the lock key expires
  pc,        \* the call each replica's job is at, "idle" without one
  doc,       \* the document each job was given
  mem,       \* the record each job works on
  at,        \* the playhead each job's current batch was ordered by
  deadline,  \* ticks until each job's batch context expires
  closed,    \* whether each replica's runner was closed
  faults     \* how many faults may still happen

storeVars == <<final, progress, lock, lease>>
jobVars == <<pc, doc, mem, at, deadline>>
vars == <<storeVars, jobVars, closed, faults>>

-----------------------------------------------------------------------------
(* A record, and what is pending in it.                                    *)

FinalRec(d, lines) == [doc |-> d, lines |-> lines]

Fresh(d) == [total |-> CueCount[d], lines |-> {}]

\* A cue outside the record is not pending: pendingSplit skips it.
Pending(d, rec) == {c \in Text[d] : c <= rec.total /\ c \notin rec.lines}

\* The first k members of a set of cues, in document order.
FirstOf(S, k) == {c \in S : Cardinality({e \in S : e < c}) < k}

\* The first k pending cues of pendingByTime: those that end at or after the
\* playhead first, the ones behind it after them, both in document order.
Take(pend, from, k) ==
  LET ahead == FirstOf({c \in pend : c >= from}, k)
  IN  ahead \cup FirstOf({c \in pend : c < from}, k - Cardinality(ahead))

Batch(r) == Take(Pending(doc[r], mem[r]), at[r], BatchSize)

\* The record a job resumes from: none, or one sized for another document,
\* starts it over.
ResumedAnySize(d, rec) == IF rec = NoRecord THEN Fresh(d) ELSE rec

Resumed(d, rec) ==
  IF rec = NoRecord \/ rec.total # CueCount[d] THEN Fresh(d) ELSE rec

Filled(rec, S) == [rec EXCEPT !.lines = @ \cup S]

-----------------------------------------------------------------------------
(* Where a job can be.                                                     *)

\* Between TryLock and the deferred Unlock: the job has a token.
BetweenBatches == {"load", "register", "select"}
InBatch == {"translate", "store", "refresh"}
Holding == BetweenBatches \cup InBatch \cup {"keep", "final", "drop", "unlock"}
Steps == {"idle", "queued", "check", "lock"} \cup Holding

Goto(r, step) == pc' = [pc EXCEPT ![r] = step]

At(r, step) == pc[r] = step

\* A fault is counted against MaxFaults unless something else accounts for it.
Fault(excused) == IF excused THEN UNCHANGED faults
                             ELSE faults > 0 /\ faults' = faults - 1

\* The goroutine is gone, and with it the record it worked on.
Leave(r) == /\ Goto(r, "idle")
            /\ doc' = [doc EXCEPT ![r] = NoDoc]
            /\ mem' = [mem EXCEPT ![r] = NoRecord]
            /\ at' = [at EXCEPT ![r] = 0]
            /\ deadline' = [deadline EXCEPT ![r] = 0]

\* Whatever happens to the job's own variables, only its step changes.
StepOnly(r, step) == Goto(r, step) /\ UNCHANGED <<doc, mem, at, deadline>>

\* The batch is over: its context is cancelled, and its playhead forgotten.
EndBatch(r, step) == /\ Goto(r, step)
                     /\ at' = [at EXCEPT ![r] = 0]
                     /\ deadline' = [deadline EXCEPT ![r] = 0]

-----------------------------------------------------------------------------
Init == /\ final = NoFinal
        /\ progress = NoRecord
        /\ lock = Nobody
        /\ lease = 0
        /\ pc = [r \in Replicas |-> "idle"]
        /\ doc = [r \in Replicas |-> NoDoc]
        /\ mem = [r \in Replicas |-> NoRecord]
        /\ at = [r \in Replicas |-> 0]
        /\ deadline = [r \in Replicas |-> 0]
        /\ closed = [r \in Replicas |-> FALSE]
        /\ faults = MaxFaults

\* Not closed, and no job in the running map.
AcceptsWhenClosed(r) == At(r, "idle")

Accepts(r) == ~closed[r] /\ At(r, "idle")

(* Ensure: a poll starts the job once per key per process.  The handler    *)
(* read the final artifact in an earlier call, so its absence is no guard. *)
Ensure(r) == /\ Accepts(r)
             /\ \E d \in Docs : doc' = [doc EXCEPT ![r] = d]
             /\ Goto(r, "queued")
             /\ UNCHANGED <<storeVars, mem, at, deadline, closed, faults>>

\* A slot of --max-jobs comes free.
TakeSlot(r) == /\ At(r, "queued")
               /\ StepOnly(r, "check")
               /\ UNCHANGED <<storeVars, closed, faults>>

\* The runner is closed before the job got a slot.
QueueCancelled(r) == /\ At(r, "queued")
                     /\ closed[r]
                     /\ Leave(r)
                     /\ UNCHANGED <<storeVars, closed, faults>>

CheckFinal(r) == /\ At(r, "check")
                 /\ IF final # NoFinal THEN Leave(r) ELSE StepOnly(r, "lock")
                 /\ UNCHANGED <<storeVars, closed, faults>>

CheckFinalFails(r) == /\ At(r, "check")
                      /\ Fault(closed[r])
                      /\ Leave(r)
                      /\ UNCHANGED <<storeVars, closed>>

TryLock(r) == /\ At(r, "lock")
              /\ IF lock = Nobody
                   THEN /\ lock' = r
                        /\ lease' = LockTTL
                        /\ StepOnly(r, "load")
                   ELSE /\ Leave(r)
                        /\ UNCHANGED <<lock, lease>>
              /\ UNCHANGED <<final, progress, closed, faults>>

\* The job returns before it installs the deferred Unlock, and nobody is told
\* the token of a lock the store did take.
TryLockFails(r) == /\ At(r, "lock")
                   /\ Fault(closed[r])
                   /\ Leave(r)
                   /\ \/ UNCHANGED <<lock, lease>>
                      \/ lock = Nobody /\ lock' = Orphan /\ lease' = LockTTL
                   /\ UNCHANGED <<final, progress, closed>>

Load(r) == /\ At(r, "load")
           /\ mem' = [mem EXCEPT ![r] = Resumed(doc[r], progress)]
           /\ Goto(r, "register")
           /\ UNCHANGED <<storeVars, doc, at, deadline, closed, faults>>

LoadFailsLocked(r) == /\ At(r, "load")
                      /\ Fault(closed[r])
                      /\ Leave(r)
                      /\ UNCHANGED <<storeVars, closed>>

LoadFails(r) == /\ At(r, "load")
                /\ Fault(closed[r])
                /\ StepOnly(r, "unlock")
                /\ UNCHANGED <<storeVars, closed>>

RegisterNothing(r) == /\ At(r, "register")
                      /\ StepOnly(r, "select")
                      /\ UNCHANGED <<storeVars, closed, faults>>

\* PutProgress before the first batch publishes the cue count.
Register(r) == /\ At(r, "register")
               /\ progress' = mem[r]
               /\ StepOnly(r, "select")
               /\ UNCHANGED <<final, lock, lease, closed, faults>>

\* A failed write may still have been applied: the error is the caller's.
MaybeWritten(r) == progress' \in {progress, mem[r]}

RegisterFails(r) == /\ At(r, "register")
                    /\ Fault(closed[r])
                    /\ MaybeWritten(r)
                    /\ StepOnly(r, "unlock")
                    /\ UNCHANGED <<final, lock, lease, closed>>

\* GetPos: whatever playhead a poll has left (PutPos) and the store still has;
\* a failed read counts as none.
ReadPos(r) == \E p \in Positions : at' = [at EXCEPT ![r] = p]

\* The batch is ordered by the position just read, and its deadline is one
\* lock TTL from now, whatever is left of the lease.
StartBatch(r) == /\ At(r, "select")
                 /\ Pending(doc[r], mem[r]) # {}
                 /\ ReadPos(r)
                 /\ deadline' = [deadline EXCEPT ![r] = LockTTL]
                 /\ Goto(r, "translate")
                 /\ UNCHANGED <<storeVars, doc, mem, closed, faults>>

\* Nothing pending, whatever the position: render.
Finish(r) == /\ At(r, "select")
             /\ Pending(doc[r], mem[r]) = {}
             /\ StepOnly(r, "final")
             /\ UNCHANGED <<storeVars, closed, faults>>

(* translateChunk: every reply that does not stop the job (a translation, a *)
(* refusal, a mismatch or a truncated cue, whose source text is kept, or a   *)
(* truncated batch that its halves complete) fills the whole batch.          *)
Translate(r) == /\ At(r, "translate")
                /\ deadline[r] > 0
                /\ mem' = [mem EXCEPT ![r] = Filled(@, Batch(r))]
                /\ at' = [at EXCEPT ![r] = 0]
                /\ Goto(r, "store")
                /\ UNCHANGED <<storeVars, doc, deadline, closed, faults>>

\* Any other error stops the job; the halves of a split batch that were
\* answered before it stay in the record: a proper prefix of the batch.
TranslateFails(r) ==
  /\ At(r, "translate")
  /\ Fault(closed[r] \/ deadline[r] = 0)
  /\ \E k \in 0..(Cardinality(Batch(r)) - 1) :
       mem' = [mem EXCEPT ![r] = Filled(@, Take(Pending(doc[r], @), at[r], k))]
  /\ EndBatch(r, "keep")
  /\ UNCHANGED <<storeVars, doc, closed>>

\* A panic in the translator unwinds through the deferred Unlock.
TranslatePanics(r) == /\ At(r, "translate")
                      /\ Fault(FALSE)
                      /\ EndBatch(r, "unlock")
                      /\ UNCHANGED <<storeVars, doc, mem, closed>>

\* PutProgress of a failed batch, on a context of its own; errors are ignored.
KeepPartial(r) == /\ At(r, "keep")
                  /\ \/ progress' = mem[r] /\ UNCHANGED faults
                     \/ MaybeWritten(r) /\ Fault(FALSE)
                  /\ StepOnly(r, "unlock")
                  /\ UNCHANGED <<final, lock, lease, closed>>

StoreBatch(r) == /\ At(r, "store")
                 /\ deadline[r] > 0
                 /\ progress' = mem[r]
                 /\ StepOnly(r, "refresh")
                 /\ UNCHANGED <<final, lock, lease, closed, faults>>

StoreBatchFails(r) == /\ At(r, "store")
                      /\ Fault(closed[r] \/ deadline[r] = 0)
                      /\ MaybeWritten(r)
                      /\ EndBatch(r, "unlock")
                      /\ UNCHANGED <<final, lock, lease, doc, mem, closed>>

ExtendByTTL(r) == lease' = IF lock = r THEN lease + LockTTL ELSE lease

ExtendNothing(r) == lease' = lease

\* RefreshLock acts only for the holder of the token.
ExtendIfMine(r) == lease' = IF lock = r THEN LockTTL ELSE lease

RefreshLock(r) == /\ At(r, "refresh")
                  /\ deadline[r] > 0
                  /\ ExtendIfMine(r)
                  /\ EndBatch(r, IF lock = r THEN "select" ELSE "unlock")
                  /\ UNCHANGED <<final, progress, lock, doc, mem, closed, faults>>

RefreshLockFails(r) == /\ At(r, "refresh")
                       /\ Fault(closed[r] \/ deadline[r] = 0)
                       /\ UNCHANGED lease \/ ExtendIfMine(r)
                       /\ EndBatch(r, "unlock")
                       /\ UNCHANGED <<final, progress, lock, doc, mem, closed>>

-----------------------------------------------------------------------------
(* writeFinal, and the way out.                                            *)

PutFinal(r) == /\ At(r, "final")
               /\ final' = FinalRec(doc[r], mem[r].lines)
               /\ StepOnly(r, "drop")
               /\ UNCHANGED <<progress, lock, lease, closed, faults>>

\* Rendering or storing the artifact fails.
PutFinalFails(r) == /\ At(r, "final")
                    /\ Fault(closed[r])
                    /\ final' \in {final, FinalRec(doc[r], mem[r].lines)}
                    /\ StepOnly(r, "unlock")
                    /\ UNCHANGED <<progress, lock, lease, closed>>

\* DropProgress; its error is ignored.
DropProgress(r) == /\ At(r, "drop")
                   /\ \/ progress' = NoRecord /\ UNCHANGED faults
                      \/ progress' \in {progress, NoRecord} /\ Fault(closed[r])
                   /\ StepOnly(r, "unlock")
                   /\ UNCHANGED <<final, lock, lease, closed>>

ReleaseAnyone(r) == lock' = Nobody /\ lease' = 0

\* Unlock acts only for the holder of the token.
ReleaseIfMine(r) == IF lock = r THEN lock' = Nobody /\ lease' = 0
                                ELSE UNCHANGED <<lock, lease>>

\* The job's token is gone for good: a lock that still carries it expires.
ForgetToken(r) == /\ lock' = IF lock = r THEN Orphan ELSE lock
                  /\ UNCHANGED lease

Unlock(r) == /\ At(r, "unlock")
             /\ ReleaseIfMine(r)
             /\ Leave(r)
             /\ UNCHANGED <<final, progress, closed, faults>>

UnlockFails(r) == /\ At(r, "unlock")
                  /\ Fault(FALSE)
                  /\ ForgetToken(r) \/ ReleaseIfMine(r)
                  /\ Leave(r)
                  /\ UNCHANGED <<final, progress, closed>>

-----------------------------------------------------------------------------
(* The environment.                                                        *)

\* Close: no new job is accepted and the running one's context is cancelled.
Close(r) == /\ ~closed[r]
            /\ closed' = [closed EXCEPT ![r] = TRUE]
            /\ UNCHANGED <<storeVars, jobVars, faults>>

\* The process dies, and a new one takes its place with nothing in memory.
Crash(r) == /\ ~At(r, "idle")
            /\ Fault(FALSE)
            /\ Leave(r)
            /\ ForgetToken(r)
            /\ UNCHANGED <<final, progress, closed>>

\* The record's 24 hours pass without a write, so with no job running.
RecordExpires == /\ progress # NoRecord
                 /\ \A r \in Replicas : At(r, "idle")
                 /\ Fault(FALSE)
                 /\ progress' = NoRecord
                 /\ UNCHANGED <<final, lock, lease, jobVars, closed>>

\* The lock key when a tick ends: gone once its lease is used up.
KeyKept == lock

KeyAfterTick == IF lease > 1 THEN lock ELSE Nobody

(* Time passes.  A tick that exhausts a batch's deadline is a fault of the   *)
(* upstream, one between two batches a slow store.                           *)
Tick ==
  LET slow == \E r \in Replicas : pc[r] \in BetweenBatches
      late == \E r \in Replicas : deadline[r] = 1
  IN  /\ lease > 0 \/ \E r \in Replicas : deadline[r] > 0
      /\ slow => SlowStore
      /\ Fault(~slow /\ ~late)
      /\ lease' = IF lease > 0 THEN lease - 1 ELSE 0
      /\ lock' = KeyAfterTick
      /\ deadline' = [r \in Replicas |-> IF deadline[r] > 0 THEN deadline[r] - 1 ELSE 0]
      /\ UNCHANGED <<final, progress, pc, doc, mem, at, closed>>

-----------------------------------------------------------------------------
JobStep(r) == \/ TakeSlot(r) \/ QueueCancelled(r)
              \/ CheckFinal(r) \/ TryLock(r) \/ Load(r) \/ Register(r)
              \/ StartBatch(r) \/ Finish(r)
              \/ Translate(r) \/ KeepPartial(r) \/ StoreBatch(r) \/ RefreshLock(r)
              \/ PutFinal(r) \/ DropProgress(r) \/ Unlock(r)

Failure(r) == \/ CheckFinalFails(r) \/ TryLockFails(r) \/ LoadFails(r) \/ RegisterFails(r)
              \/ TranslateFails(r) \/ TranslatePanics(r)
              \/ StoreBatchFails(r) \/ RefreshLockFails(r)
              \/ PutFinalFails(r) \/ UnlockFails(r) \/ Crash(r)

Next == \/ \E r \in Replicas : Ensure(r) \/ JobStep(r) \/ Failure(r) \/ Close(r)
        \/ RecordExpires
        \/ Tick

Spec == Init /\ [][Next]_vars

\* A call on the batch's context returns once that has expired.
DeadlineExceeded(r) ==
  /\ deadline[r] = 0
  /\ TranslateFails(r) \/ StoreBatchFails(r) \/ RefreshLockFails(r)

(* Pollers keep asking until the track is complete (README: "Callers poll    *)
(* the same URL"), every call of a job returns, a slot is given back by a    *)
(* job that always ends, and the clock runs.  No fault is fair.              *)
Fairness == /\ \A r \in Replicas : /\ WF_vars(Ensure(r))
                                  /\ WF_vars(JobStep(r) \/ DeadlineExceeded(r))
            /\ WF_vars(Tick)

FairSpec == Spec /\ Fairness

-----------------------------------------------------------------------------
Record == [total : Nat, lines : SUBSET Nat]

Final == [doc : Docs, lines : SUBSET Nat]

\* The type invariant: every variable of the jobs and of the store has the
\* shape its type in job.go and store.go gives it.
TypeOK == /\ final \in Final \cup {NoFinal}
          /\ progress \in Record \cup {NoRecord}
          /\ lock \in Replicas \cup {Nobody, Orphan}
          /\ lease \in 0..LockTTL
          /\ pc \in [Replicas -> Steps]
          /\ doc \in [Replicas -> Docs \cup {NoDoc}]
          /\ mem \in [Replicas -> Record \cup {NoRecord}]
          /\ at \in [Replicas -> Positions]
          /\ deadline \in [Replicas -> 0..LockTTL]
          /\ closed \in [Replicas -> BOOLEAN]
          /\ faults \in 0..MaxFaults

\* A final artifact is complete: every cue with text of the document it was
\* rendered from has a line.  It is served for good as 100/100, so a hole in
\* it (a record of another document resumed, a batch cut short, a stale
\* record) could never be filled: job.go run, writeFinal.
FinalComplete == final # NoFinal => Text[final.doc] \subseteq final.lines

\* The lock never outlives the job that took it, except by expiring: whoever
\* owns it is between TryLock and its deferred Unlock, on every return path.
OwnerHolds == \A r \in Replicas : lock = r => pc[r] \in Holding

\* While a batch is translated the key has a record with its cue count or is
\* already final: HEAD never falls back to 0/0 once the first batch started,
\* even when a worker that lost the lock retires the record meanwhile
\* (job.go:335-337, writeFinal's PutFinal before DropProgress).
Published == \A r \in Replicas :
               At(r, "translate") => progress # NoRecord \/ final # NoFinal

\* One worker at a time: two jobs are never both inside a batch whose deadline
\* still runs (the comment on runBatch, job.go:397-400).
OneBatchAtATime ==
  \A r, s \in Replicas : deadline[r] > 0 /\ deadline[s] > 0 => r = s

\* The lock keeps the store's promise (Store.TryLock, store.go:45-47) under
\* everything the jobs do with it: only time or the owner ends a lease, and
\* only the owner extends it.
Lock == INSTANCE Lease WITH owner <- lock, left <- lease, TTL <- LockTTL
LeaseKept == Lock!LeaseSpec

\* Whatever fails on the way, a track somebody keeps polling ends with a final
\* artifact, unless every replica is shut down: no failure, crash or leaked
\* lock leaves the key stuck (README: progress reports done == total).
EventuallyFinal == <>(final # NoFinal \/ \A r \in Replicas : closed[r])

\* Close drains: after it the replica's job exits and none starts again
\* (Runner.Close waits for exactly this).
CloseDrains == \A r \in Replicas : closed[r] ~> [](pc[r] = "idle")

=============================================================================
