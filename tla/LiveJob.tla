------------------------------- MODULE LiveJob -------------------------------
(***************************************************************************)
(* The live job of one artifact key (services/live_job.go, runBatch and    *)
(* writeFinal of job.go), over the source of LiveSource.                   *)
(*                                                                         *)
(* The job's loop waits for its ticker or for the source's token, reads    *)
(* the playlist, takes one snapshot of the document and lines its record   *)
(* up with it, orders what is pending, and translates a batch while a      *)
(* watcher goroutine listens for a new run.  Meanwhile the viewers' polls  *)
(* read the same source.                                                   *)
(*                                                                         *)
(* The lock is FileJob's: one job runs, and a lease lost to another        *)
(* replica is a fault that ends it.  A translation is told apart by the    *)
(* cue its text was taken from.  Cue c of the film spans [c - 1, c] in     *)
(* movie time, so offset o and position o are where cue o + 1 begins.      *)
(*                                                                         *)
(* A definition that nothing uses, placed before the one it is a faulty    *)
(* form of, is what PROJECT.json substitutes to see a property fail.       *)
(***************************************************************************)
EXTENDS LiveSource

CONSTANTS
  BatchSize,    \* --batch-size
  LeadIn,       \* how far behind the viewer "ahead" begins
  ServesWithin, \* liveBatchServesWithin
  NoRecord,     \* no progress record
  NoFinal       \* no final artifact


Record == [cues : Seq(Film), tr : [Film -> 0..Cues], live : BOOLEAN,
           status : {"", "done", "stopped"}]

Artifacts == UNION {[S -> 0..Cues] : S \in SUBSET Film}

ASSUME LiveJobAssumption ==
  /\ Readers = {"job", "handler"}
  /\ BatchSize \in Nat \ {0}
  /\ LeadIn \in Nat /\ ServesWithin \in Nat
  /\ NoRecord \notin Record /\ NoFinal \notin Artifacts

VARIABLES
  final,     \* the artifact: the text each rendered cue carries
  record,    \* the progress record in the store
  pc,        \* the call the job is at, "idle" without one
  mem,       \* the record the job works on
  lastOffset,\* the run of its last successful read, -1 before one
  published, \* the cue count the store has heard about
  batch,     \* the document indexes chosen for this tick
  order,     \* the run they were ordered for
  watch      \* the watcher: run at its start, token taken, batch retargeted

storeVars == <<final, record>>
jobVars == <<pc, mem, lastOffset, published, batch, order, watch>>
vars == <<sourceVars, storeVars, jobVars>>

-----------------------------------------------------------------------------
(* The record: the document cues it is lined up with, and for every cue the *)
(* cue whose text its translation was made from, 0 without one.             *)

NoLines == [c \in Film |-> 0]

FreshRecord == [cues |-> <<>>, tr |-> NoLines, live |-> TRUE, status |-> ""]

StartedOver(rec) == FreshRecord

KeptStatus(rec) == [rec EXCEPT !.live = TRUE]

\* runLive takes a record up as live, without the status it ended with.
Rearmed(rec) == [rec EXCEPT !.live = TRUE, !.status = ""]

Stopped(status) == [mem EXCEPT !.live = FALSE, !.status = status]

\* Positions in the record of the cues that still need a translation.
PendingIn(rec) == {i \in DOMAIN rec.cues : rec.tr[rec.cues[i]] = 0}

EarliestFromZero(S, k) ==
  {i - 1 : i \in {i \in S : Cardinality({j \in S : mem.cues[j] < mem.cues[i]}) < k}}

\* The first k of a set of indexes, in movie-time order.
Earliest(S, k) ==
  {i \in S : Cardinality({j \in S : mem.cues[j] < mem.cues[i]}) < k}

ChosenAhead(pos) ==
  Earliest({i \in PendingIn(mem) : mem.cues[i] >= pos - LeadIn}, BatchSize)

\* pendingSplit and the cap: what the viewer at pos can still meet, alone,
\* and the cues they have passed only when there is none.
Chosen(pos) ==
  LET pend == PendingIn(mem)
      ahead == {i \in pend : mem.cues[i] >= pos - LeadIn}
  IN  Earliest(IF ahead # {} THEN ahead ELSE pend, BatchSize)

\* textsFor and batchServes index the snapshot, whose cues LiveDoc.Snapshot put
\* in movie-time order, with the append-order indexes of the batch.
TextAt(i) ==
  LET cues == {mem.cues[j] : j \in DOMAIN mem.cues}
  IN  CHOOSE c \in cues : Cardinality({d \in cues : d < c}) = i - 1

\* A cue that the viewer of a run starting at o is about to meet.
Meets(c, o) == c >= o - LeadIn /\ c - 1 <= o + ServesWithin

BatchServes(o) == \E i \in batch : Meets(TextAt(i), o)

\* A batch index is translated: the text at i is filed under the cue at i.
Filled(S) == [mem EXCEPT !.tr = [c \in Film |->
                IF \E i \in S : mem.cues[i] = c
                  THEN TextAt(CHOOSE i \in S : mem.cues[i] = c) ELSE @[c]]]

NoWatch == [off |-> 0, taken |-> FALSE, retargeted |-> FALSE]

-----------------------------------------------------------------------------
Init == /\ SourceInit
        /\ final = NoFinal /\ record = NoRecord
        /\ pc = "idle" /\ mem = NoRecord /\ lastOffset = -1 /\ published = -1
        /\ batch = {} /\ order = 0 /\ watch = NoWatch

At(step) == pc = step

Goto(step) == pc' = step /\ UNCHANGED <<mem, lastOffset, published, batch, order, watch>>

\* The goroutine ends; the lock comes off and the record in memory is gone.
Leave == /\ pc' = "idle" /\ mem' = NoRecord /\ lastOffset' = -1 /\ published' = -1
         /\ batch' = {} /\ order' = 0 /\ watch' = NoWatch

Unpolled == <<worldVars, reading, segVars, flagVars, runVars>>

\* A job step that leaves the source and the store alone.
Quiet == UNCHANGED <<sourceVars, storeVars>>

\* One that may fail or writes the store.
Calls == UNCHANGED <<Unpolled, runStarted, ref>>

-----------------------------------------------------------------------------
(* Ensure, and run up to runLive.                                          *)

\* A GET starts the job unless the source's run is over.
Ensure == At("idle") /\ ~runEnded /\ Goto("check") /\ Quiet

CheckFinal == /\ At("check")
              /\ IF final # NoFinal THEN Leave ELSE Goto("lock")
              /\ Quiet

TryLock == At("lock") /\ Goto("load") /\ Quiet

Load == /\ At("load")
        /\ mem' = IF record = NoRecord THEN FreshRecord ELSE Rearmed(record)
        /\ pc' = "wait"
        /\ UNCHANGED <<lastOffset, published, batch, order, watch>>
        /\ Quiet

\* The final check, the lock or the load fails, or another replica has the lock.
StartFails == pc \in {"check", "lock", "load"} /\ Fault /\ Leave /\ Calls /\ UNCHANGED storeVars

-----------------------------------------------------------------------------
(* One iteration of the loop: wait, read, look at the result.              *)

\* The ticker or a token; whatever token is queued before the read is
\* answered by it.
Wake == /\ At("wait")
        /\ runStarted' = FALSE
        /\ ref' = NoRef
        /\ Goto("poll")
        /\ UNCHANGED <<Unpolled, faults, storeVars>>

\* pollLive: the job waits for refreshMu, and for the read's result.
Poll == /\ At("poll") /\ ref = NoRef
        /\ BeginRead("job") \/ ReadRetired("job") \/ ReadGone("job") \/ ReadFails("job")
        /\ UNCHANGED <<storeVars, jobVars>>

ReadEnded == At("poll") /\ ref # NoRef

LookOk == /\ ReadEnded /\ ref.err = "none"
          /\ lastOffset' = offset
          /\ pc' = "snapshot"
          /\ UNCHANGED <<mem, published, batch, order, watch>>
          /\ Quiet

\* The source is gone or outgrew its caps: the job's last write.
LookStopped == /\ ReadEnded /\ ref.err \in {"gone", "toolarge"}
               /\ mem' = Stopped("stopped")
               /\ pc' = "stop"
               /\ UNCHANGED <<lastOffset, published, batch, order, watch>>
               /\ Quiet

\* A transient failure: a fresh run is asked for again soon.
LookTransient == /\ ReadEnded /\ ref.err = "transient"
                 /\ runStarted' = (runStarted \/ fresh)
                 /\ Goto("keepalive")
                 /\ UNCHANGED <<Unpolled, faults, ref, storeVars>>

\* The snapshot and syncLive.
Sync == /\ At("snapshot")
        /\ mem' = [mem EXCEPT !.cues = doc]
        /\ pc' = "select"
        /\ UNCHANGED <<lastOffset, published, batch, order, watch>>
        /\ Quiet

\* liveCurrentFrom: a position some poll reported in the current run, or the
\* start of that run.
Select == /\ At("select")
          /\ \E pos \in offset..Cues : batch' = Chosen(pos)
          /\ order' = offset
          /\ pc' = "choose"
          /\ UNCHANGED <<mem, lastOffset, published, watch>>
          /\ Quiet

\* A fresh run has an untranslated cue the viewer can still meet.
FreshRunBlocked == fresh /\ \E i \in PendingIn(mem) : mem.cues[i] >= offset

\* A partial batch of a playlist that goes on may wait for company.
MayWait == Cardinality(batch) < BatchSize /\ ~ref.ended /\ ~FreshRunBlocked

StartBatch == /\ At("choose")
              /\ batch # {}
              /\ watch' = [off |-> offset, taken |-> FALSE, retargeted |-> FALSE]
              /\ pc' = "translate"
              /\ UNCHANGED <<mem, lastOffset, published, batch, order>>
              /\ Quiet

NoBatch == /\ At("choose")
           /\ batch = {} \/ MayWait
           /\ Goto(IF published # Len(mem.cues) THEN "publish" ELSE "settle")
           /\ Quiet

-----------------------------------------------------------------------------
(* The batch: translate, store and refresh under a context that the lock's  *)
(* TTL and the watcher can cancel.                                          *)

InBatch == {"translate", "store", "refresh"}

\* A token reaches the watcher: a new run that the batch does not serve
\* cancels it, any other token lets the wait go on.
Retarget == /\ pc \in InBatch /\ ~watch.retargeted
            /\ runStarted
            /\ runStarted' = FALSE
            /\ watch' = [watch EXCEPT !.taken = TRUE,
                          !.retargeted = offset # watch.off /\ ~BatchServes(offset)]
            /\ UNCHANGED <<pc, mem, lastOffset, published, batch, order>>
            /\ UNCHANGED <<Unpolled, faults, ref, storeVars>>

KeepToken == UNCHANGED runStarted

\* The watcher has returned: a token it took goes back to the channel.
PutBack == runStarted' = (runStarted \/ watch.taken)

\* A call of the batch fails because of the watcher, or for a fault.
BatchFault == IF watch.retargeted THEN UNCHANGED faults ELSE Fault

\* A batch the watcher took back is no failure; any other failure ends the job.
BatchFailed == /\ PutBack
               /\ IF watch.retargeted
                    THEN /\ pc' = "wait" /\ watch' = NoWatch
                         /\ batch' = {} /\ order' = 0
                         /\ UNCHANGED <<mem, lastOffset, published>>
                    ELSE Leave

Translate == /\ At("translate")
             /\ mem' = Filled(batch)
             /\ pc' = "store"
             /\ UNCHANGED <<lastOffset, published, batch, order, watch>>
             /\ Quiet

\* The halves of a split batch that were answered stay in the record.
TranslateFails == /\ At("translate")
                  /\ BatchFault
                  /\ \E k \in 0..(Cardinality(batch) - 1) : mem' = Filled(Earliest(batch, k))
                  /\ pc' = "keep"
                  /\ UNCHANGED <<lastOffset, published, batch, order, watch>>
                  /\ Calls /\ UNCHANGED storeVars

\* PutProgress of what a failed batch left, on a context of its own.
KeepPartial == /\ At("keep")
               /\ \/ record' = mem /\ UNCHANGED faults
                  \/ record' \in {record, mem} /\ Fault
               /\ BatchFailed
               /\ UNCHANGED <<Unpolled, ref, final>>

StoreBatch == /\ At("store")
              /\ record' = mem
              /\ Goto("refresh")
              /\ UNCHANGED <<sourceVars, final>>

StoreBatchFails == /\ At("store")
                   /\ BatchFault
                   /\ record' \in {record, mem}
                   /\ BatchFailed
                   /\ UNCHANGED <<Unpolled, ref, final>>

RefreshLock == /\ At("refresh")
               /\ published' = Len(mem.cues)
               /\ pc' = "settle"
               /\ watch' = NoWatch
               /\ PutBack
               /\ UNCHANGED <<mem, lastOffset, batch, order>>
               /\ UNCHANGED <<Unpolled, faults, ref, storeVars>>

\* The call fails, or the lock is another job's by now.
RefreshLockFails == /\ At("refresh")
                    /\ BatchFault
                    /\ BatchFailed
                    /\ UNCHANGED <<Unpolled, ref, storeVars>>

-----------------------------------------------------------------------------
(* The end of a tick, and of the job.                                       *)

\* New cues reach the store even when nothing was translated.
Publish == /\ At("publish")
           /\ record' = mem
           /\ published' = Len(mem.cues)
           /\ pc' = "settle"
           /\ UNCHANGED <<mem, lastOffset, batch, order, watch>>
           /\ UNCHANGED <<sourceVars, final>>

PublishFails == /\ At("publish")
                /\ Fault
                /\ record' \in {record, mem}
                /\ Leave
                /\ Calls /\ UNCHANGED final

FinishedEarly == ref.ended

\* The playlist ended and nothing was pending in this tick's snapshot.
Finished == ref.ended /\ batch = {}

GoOn == /\ At("settle") /\ ~Finished
        /\ pc' = "keepalive" /\ batch' = {} /\ order' = 0
        /\ UNCHANGED <<mem, lastOffset, published, watch>>
        /\ Quiet

\* finishLive: only a source that saw the whole film gets an artifact, any
\* other run is marked over.
Finish == /\ At("settle") /\ Finished
          /\ UNCHANGED <<lastOffset, published, batch, order, watch>>
          /\ IF contiguous
               THEN pc' = "final" /\ UNCHANGED <<mem, runEnded>>
               ELSE /\ pc' = "stop"
                    /\ mem' = Stopped("done")
                    /\ runEnded' = TRUE
          /\ UNCHANGED <<worldVars, faults, reading, segVars, ended, contiguous, gone,
                         retired, runVars, runStarted, ref, storeVars>>

\* RenderByIndex: the cues of the document, each with the text on its line.
Rendered == [c \in {mem.cues[i] : i \in DOMAIN mem.cues} |-> mem.tr[c]]

\* What cannot be rendered is stopped as done, but its run is not marked over.
RenderFails == /\ At("final")
               /\ Fault
               /\ mem' = Stopped("done")
               /\ pc' = "stop"
               /\ UNCHANGED <<lastOffset, published, batch, order, watch>>
               /\ Calls /\ UNCHANGED storeVars

PutFinal == /\ At("final")
            /\ final' = Rendered
            /\ Goto("drop")
            /\ UNCHANGED <<sourceVars, record>>

PutFinalFails == /\ At("final")
                 /\ Fault
                 /\ final' \in {final, Rendered}
                 /\ Leave
                 /\ Calls /\ UNCHANGED record

\* Its error is ignored.
DropProgress == /\ At("drop")
                /\ \/ record' = NoRecord /\ UNCHANGED faults
                   \/ record' \in {record, NoRecord} /\ Fault
                /\ Leave
                /\ Calls /\ UNCHANGED final

\* stopLive's write; its error is logged.
PutStopped == /\ At("stop")
              /\ \/ record' = mem /\ UNCHANGED faults
                 \/ record' \in {record, mem} /\ Fault
              /\ Leave
              /\ Calls /\ UNCHANGED final

\* keepAlive: the lease is held and somebody has asked for the key lately.
KeepAlive == At("keepalive") /\ Goto("wait") /\ Quiet

LeaseLost == At("keepalive") /\ Fault /\ Leave /\ Calls /\ UNCHANGED storeVars

\* Nobody has asked for --live-idle: the record stays live, the job ends.
ViewerGone == /\ At("keepalive")
              /\ Fault
              /\ record' \in {record, mem}
              /\ Leave
              /\ Calls /\ UNCHANGED final

-----------------------------------------------------------------------------
(* The viewers' polls and the process.                                      *)

HandlerReads == /\ \/ BeginRead("handler") \/ ReadRetired("handler")
                   \/ ReadGone("handler") \/ ReadFails("handler")
                /\ UNCHANGED <<storeVars, jobVars>>

\* Whoever reads, a read goes on by itself.
ReadGoesOn == /\ (\E c \in Film : Segment(c)) \/ EndRead
              /\ UNCHANGED <<storeVars, jobVars>>

Outside == (World \/ Ages \/ Retire) /\ UNCHANGED <<storeVars, jobVars>>

\* Another session of the transcoder and a source of its own: after a retired
\* or reaped one, or because the process died with the source and the job.
NewSession == /\ \/ At("idle") /\ (retired \/ ~alive) /\ UNCHANGED faults
                 \/ Fault
              /\ NewSource
              /\ Leave
              /\ UNCHANGED storeVars

JobStep == \/ CheckFinal \/ TryLock \/ Load
           \/ Wake \/ LookOk \/ LookStopped \/ LookTransient \/ Sync \/ Select
           \/ NoBatch \/ Translate \/ KeepPartial \/ StoreBatch \/ RefreshLock
           \/ Publish \/ GoOn \/ Finish \/ PutFinal \/ DropProgress \/ PutStopped
           \/ KeepAlive

\* What a cancelled batch comes to is no failure of the store or the upstream.
Failure == \/ StartFails \/ TranslateFails \/ StoreBatchFails \/ RefreshLockFails
           \/ PublishFails \/ RenderFails \/ PutFinalFails \/ LeaseLost \/ ViewerGone

Next == \/ Ensure \/ JobStep \/ Poll \/ StartBatch \/ Retarget \/ Failure
        \/ HandlerReads \/ ReadGoesOn \/ Outside \/ NewSession

Spec == Init /\ [][Next]_vars

(* Polls keep coming, every call returns, and --batch-wait runs out: among    *)
(* the ticks that find cues waiting there is always one that takes them.      *)
Fairness == /\ WF_vars(Ensure) /\ WF_vars(JobStep) /\ SF_vars(StartBatch)
            /\ SF_vars(Poll) /\ WF_vars(ReadGoesOn)
            /\ WF_vars((Write \/ EndList) /\ Outside)

FairSpec == Spec /\ Fairness

-----------------------------------------------------------------------------
Steps == {"idle", "check", "lock", "load", "wait", "poll", "snapshot", "select", "choose",
          "translate", "store", "refresh", "keep", "publish", "settle", "final", "drop",
          "stop", "keepalive"}

\* The type invariant of the job and the store; LiveSource has the source's.
TypeOK == /\ final \in Artifacts \cup {NoFinal}
          /\ record \in Record \cup {NoRecord}
          /\ pc \in Steps
          /\ mem \in Record \cup {NoRecord}
          /\ lastOffset \in Offsets \cup {-1}
          /\ published \in -1..Cues
          /\ batch \subseteq Film
          /\ order \in Offsets
          /\ watch \in [off : Offsets, taken : BOOLEAN, retargeted : BOOLEAN]

\* A live artifact, served for good and without a source, carries every cue of
\* the film with a text (finishLive: "only a run that saw the whole movie may
\* write one"), whatever seeks, reads of viewers and failures came before it.
FinalHoldsFilm == final # NoFinal => DOMAIN final = Film /\ \A c \in Film : final[c] # 0

\* A record says why it is not live and nothing else: it has a status exactly
\* if it is not live, and "done" only with every cue it counts translated
\* (store.go, Progress.Status; stopLive; runLive's reset).
StatusTellsEnd == record # NoRecord =>
                    /\ record.live = (record.status = "")
                    /\ record.status = "done" => PendingIn(record) = {}

\* The watcher and the loop share one token, and no wake-up is lost between
\* them: while the job waits in a fresh run, a run its last read did not
\* see has its token in the channel (live_source.go RunStarted, live_job.go
\* "one extra read, never a lost wake-up").
WakeUpNotLost == At("wait") /\ fresh /\ lastOffset \notin {-1, offset} => runStarted

\* What a key carries for its readers: the artifact's lines, or the record's.
TextNow == IF final # NoFinal THEN final ELSE IF record = NoRecord THEN NoLines ELSE record.tr

\* What is translated stays and what is served stays served: in any order of
\* runs, sessions, retargeted batches and failures no write of a job takes a
\* stored translation away or changes it (the comment on syncLive), the artifact
\* takes every line of the record over before this is dropped, carries a text on
\* every cue of the film, and is never replaced (finishLive).
Promise == INSTANCE Artifact WITH Lines <- Film, Texts <- Film, NoText <- 0,
                                  text <- TextNow, served <- (final # NoFinal)
ArtifactKept == Promise!ArtifactSpec

\* Claimed of a source marked over: everything it carried was translated, so
\* that no poll need start a job for it (live_source.go, runEnded).
RunEndedMeansNoWork ==
  runEnded /\ reading = NoRead /\ At("idle") /\ record # NoRecord
    => \A c \in InDoc : record.tr[c] # 0

\* Claimed of textsFor: a batch carries the source text of exactly its cues, so
\* no cue is filed with the translation of another one (live_job.go:416).
RightText == mem # NoRecord => \A c \in Film : mem.tr[c] \in {0, c}

\* Claimed of a batch in flight: one that was ordered for another run than the
\* viewer's and does not serve theirs is dropped, or is about to be
\* (live_job.go:678).
StaleBatchDropped ==
  At("translate") /\ order # offset /\ ~BatchServes(offset)
    => runStarted \/ watch.retargeted

\* A film played from its start, with nobody seeking and nothing skipped, ends
\* as an artifact, unless its session goes away.
EventuallyFinal == <>(final # NoFinal \/ ~contiguous \/ ~alive \/ retired)

\* No cue starves: without another seek, every cue that was read is translated,
\* also one the viewer has passed and one at the end of a playlist that stops
\* short of a full batch, unless the session goes away.
EveryCueTranslated ==
  \A c \in Film :
    c \in InDoc ~> \/ ~alive \/ retired
                   \/ final # NoFinal /\ c \in DOMAIN final /\ final[c] # 0
                   \/ record # NoRecord /\ record.tr[c] # 0

=============================================================================
