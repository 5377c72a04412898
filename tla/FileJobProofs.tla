--------------------------- MODULE FileJobProofs ---------------------------
(***************************************************************************)
(* What FileJob keeps for any number of replicas, documents, batch sizes,  *)
(* lock TTLs and faults.                                                   *)
(***************************************************************************)
EXTENDS FileJob, TLAPS

\* Where the job works on a record of its own document.
Loaded == {"register", "select"} \cup InBatch \cup {"keep", "final"}

\* What a job knows of its record at each step: it is sized for the job's own
\* document, and it is full when the job goes to write the artifact.
JobInv == \A r \in Replicas :
            /\ pc[r] # "idle" => doc[r] \in Docs
            /\ pc[r] \in Loaded => /\ mem[r] \in Record
                                   /\ mem[r].total = CueCount[doc[r]]
            /\ pc[r] = "final" => Text[doc[r]] \subseteq mem[r].lines

\* A batch holds only cues that are pending in the record.
LEMMA TakePending ==
  ASSUME NEW pend, NEW from, NEW k
  PROVE  Take(pend, from, k) \subseteq pend
BY DEF Take, FirstOf

\* The cues of a batch are cues, whatever the order they were taken in.
LEMMA TakeCues ==
  ASSUME NEW d \in Docs, NEW rec, NEW from, NEW k
  PROVE  Take(Pending(d, rec), from, k) \in SUBSET Nat
<1>1. Pending(d, rec) \subseteq Text[d]
  BY DEF Pending
<1>2. Text[d] \in SUBSET Nat
  BY FileJobAssumption
<1> QED
  BY <1>1, <1>2, TakePending

\* Filling lines of a record keeps it a record of the same cue count.
LEMMA FilledRecord ==
  ASSUME NEW rec \in Record, NEW S \in SUBSET Nat
  PROVE  /\ Filled(rec, S) \in Record
         /\ Filled(rec, S).total = rec.total
BY DEF Filled, Record

\* A record sized for the document with nothing pending in it has a line for
\* every cue with text.
LEMMA NothingPending ==
  ASSUME NEW d \in Docs, NEW rec \in Record,
         rec.total = CueCount[d], Pending(d, rec) = {}
  PROVE  Text[d] \subseteq rec.lines
<1>1. Text[d] \subseteq 1..CueCount[d]
  BY FileJobAssumption
<1>2. CueCount[d] \in Nat
  BY FileJobAssumption
<1> QED
  BY <1>1, <1>2 DEF Pending

\* The initial states are typed.
LEMMA TypeInit == Init => TypeOK
BY FileJobAssumption DEF Init, TypeOK, Steps

\* Every step of a typed state leaves it typed.
LEMMA TypeStep == TypeOK /\ JobInv /\ [Next]_vars => TypeOK'
<1> SUFFICES ASSUME TypeOK, JobInv, [Next]_vars PROVE TypeOK'
  OBVIOUS
<1> USE FileJobAssumption DEF TypeOK, Final, Steps, Holding, BetweenBatches, InBatch, storeVars, jobVars
<1>1. ASSUME NEW r \in Replicas, Ensure(r) PROVE TypeOK'
  BY <1>1 DEF Ensure, Accepts, Goto, At
<1>2. ASSUME NEW r \in Replicas, TakeSlot(r) PROVE TypeOK'
  BY <1>2 DEF TakeSlot, StepOnly, Goto, At
<1>3. ASSUME NEW r \in Replicas, QueueCancelled(r) PROVE TypeOK'
  BY <1>3 DEF QueueCancelled, Leave, Goto, At
<1>4. ASSUME NEW r \in Replicas, CheckFinal(r) PROVE TypeOK'
  BY <1>4 DEF CheckFinal, Leave, StepOnly, Goto, At
<1>5. ASSUME NEW r \in Replicas, CheckFinalFails(r) PROVE TypeOK'
  BY <1>5 DEF CheckFinalFails, Leave, Goto, At, Fault
<1>6. ASSUME NEW r \in Replicas, TryLock(r) PROVE TypeOK'
  BY <1>6 DEF TryLock, Leave, StepOnly, Goto, At
<1>7. ASSUME NEW r \in Replicas, TryLockFails(r) PROVE TypeOK'
  BY <1>7 DEF TryLockFails, Leave, Goto, At, Fault
<1>8. ASSUME NEW r \in Replicas, Load(r) PROVE TypeOK'
  <2>1. doc[r] \in Docs
    BY <1>8 DEF Load, At, JobInv
  <2>2. Resumed(doc[r], progress) \in Record
    BY <2>1 DEF Resumed, Fresh, Record
  <2> QED
    BY <1>8, <2>2 DEF Load, Goto, At
<1>9. ASSUME NEW r \in Replicas, LoadFails(r) PROVE TypeOK'
  BY <1>9 DEF LoadFails, StepOnly, Goto, At, Fault
<1>10. ASSUME NEW r \in Replicas, Register(r) PROVE TypeOK'
  BY <1>10 DEF Register, StepOnly, Goto, At
<1>11. ASSUME NEW r \in Replicas, RegisterFails(r) PROVE TypeOK'
  BY <1>11 DEF RegisterFails, MaybeWritten, StepOnly, Goto, At, Fault
<1>12. ASSUME NEW r \in Replicas, StartBatch(r) PROVE TypeOK'
  BY <1>12 DEF StartBatch, ReadPos, Goto, At
<1>13. ASSUME NEW r \in Replicas, Finish(r) PROVE TypeOK'
  BY <1>13 DEF Finish, StepOnly, Goto, At
<1>14. ASSUME NEW r \in Replicas, Translate(r) PROVE TypeOK'
  <2>1. doc[r] \in Docs /\ mem[r] \in Record
    BY <1>14 DEF Translate, At, JobInv, Loaded
  <2>2. Filled(mem[r], Batch(r)) \in Record
    BY <2>1, TakeCues, FilledRecord DEF Batch
  <2> QED
    BY <1>14, <2>2 DEF Translate, Goto, At
<1>15. ASSUME NEW r \in Replicas, TranslateFails(r) PROVE TypeOK'
  <2>1. doc[r] \in Docs /\ mem[r] \in Record
    BY <1>15 DEF TranslateFails, At, JobInv, Loaded
  <2>2. PICK k : mem' = [mem EXCEPT ![r] = Filled(@, Take(Pending(doc[r], @), at[r], k))]
    BY <1>15 DEF TranslateFails
  <2>3. Filled(mem[r], Take(Pending(doc[r], mem[r]), at[r], k)) \in Record
    BY <2>1, TakeCues, FilledRecord
  <2>4. mem' \in [Replicas -> Record \cup {NoRecord}]
    BY <2>2, <2>3
  <2> QED
    BY <1>15, <2>4 DEF TranslateFails, EndBatch, Goto, At, Fault
<1>16. ASSUME NEW r \in Replicas, TranslatePanics(r) PROVE TypeOK'
  BY <1>16 DEF TranslatePanics, EndBatch, Goto, At, Fault
<1>17. ASSUME NEW r \in Replicas, KeepPartial(r) PROVE TypeOK'
  BY <1>17 DEF KeepPartial, MaybeWritten, StepOnly, Goto, At, Fault
<1>18. ASSUME NEW r \in Replicas, StoreBatch(r) PROVE TypeOK'
  BY <1>18 DEF StoreBatch, StepOnly, Goto, At
<1>19. ASSUME NEW r \in Replicas, StoreBatchFails(r) PROVE TypeOK'
  BY <1>19 DEF StoreBatchFails, MaybeWritten, EndBatch, Goto, At, Fault
<1>20. ASSUME NEW r \in Replicas, RefreshLock(r) PROVE TypeOK'
  BY <1>20 DEF RefreshLock, ExtendIfMine, EndBatch, Goto, At
<1>21. ASSUME NEW r \in Replicas, RefreshLockFails(r) PROVE TypeOK'
  BY <1>21 DEF RefreshLockFails, ExtendIfMine, EndBatch, Goto, At, Fault
<1>22. ASSUME NEW r \in Replicas, PutFinal(r) PROVE TypeOK'
  <2>1. doc[r] \in Docs /\ mem[r] \in Record
    BY <1>22 DEF PutFinal, At, JobInv, Loaded
  <2>2. FinalRec(doc[r], mem[r].lines) \in Final
    BY <2>1 DEF FinalRec, Record
  <2> QED
    BY <1>22, <2>2 DEF PutFinal, StepOnly, Goto, At
<1>23. ASSUME NEW r \in Replicas, PutFinalFails(r) PROVE TypeOK'
  <2>1. doc[r] \in Docs /\ mem[r] \in Record
    BY <1>23 DEF PutFinalFails, At, JobInv, Loaded
  <2>2. FinalRec(doc[r], mem[r].lines) \in Final
    BY <2>1 DEF FinalRec, Record
  <2> QED
    BY <1>23, <2>2 DEF PutFinalFails, StepOnly, Goto, At, Fault
<1>24. ASSUME NEW r \in Replicas, DropProgress(r) PROVE TypeOK'
  BY <1>24 DEF DropProgress, StepOnly, Goto, At, Fault
<1>25. ASSUME NEW r \in Replicas, Unlock(r) PROVE TypeOK'
  BY <1>25 DEF Unlock, ReleaseIfMine, Leave, Goto, At
<1>26. ASSUME NEW r \in Replicas, UnlockFails(r) PROVE TypeOK'
  BY <1>26 DEF UnlockFails, ForgetToken, ReleaseIfMine, Leave, Goto, At, Fault
<1>27. ASSUME NEW r \in Replicas, Crash(r) PROVE TypeOK'
  BY <1>27 DEF Crash, ForgetToken, Leave, Goto, At, Fault
<1>28. ASSUME NEW r \in Replicas, Close(r) PROVE TypeOK'
  BY <1>28 DEF Close
<1>29. CASE RecordExpires
  BY <1>29 DEF RecordExpires, Fault
<1>30. CASE Tick
  BY <1>30 DEF Tick, KeyAfterTick, Fault
<1>31. CASE UNCHANGED vars
  BY <1>31 DEF vars
<1> QED
  BY <1>1, <1>2, <1>3, <1>4, <1>5, <1>6, <1>7, <1>8, <1>9, <1>10, <1>11, <1>12, <1>13, <1>14, <1>15, <1>16, <1>17, <1>18, <1>19, <1>20, <1>21, <1>22, <1>23, <1>24, <1>25, <1>26, <1>27, <1>28, <1>29, <1>30, <1>31 DEF Next, JobStep, Failure

\* Every step keeps what each job knows of its record.
LEMMA JobStepKeeps == TypeOK /\ JobInv /\ [Next]_vars => JobInv'
<1> SUFFICES ASSUME TypeOK, JobInv, [Next]_vars PROVE JobInv'
  OBVIOUS
<1> USE FileJobAssumption DEF JobInv, TypeOK, Loaded, InBatch
<1>1. ASSUME NEW r \in Replicas, Ensure(r) PROVE JobInv'
  BY <1>1 DEF Ensure, Accepts, Goto, At
<1>2. ASSUME NEW r \in Replicas, TakeSlot(r) PROVE JobInv'
  BY <1>2 DEF TakeSlot, StepOnly, Goto, At
<1>3. ASSUME NEW r \in Replicas, QueueCancelled(r) PROVE JobInv'
  BY <1>3 DEF QueueCancelled, Leave, Goto, At
<1>4. ASSUME NEW r \in Replicas, CheckFinal(r) PROVE JobInv'
  BY <1>4 DEF CheckFinal, Leave, StepOnly, Goto, At
<1>5. ASSUME NEW r \in Replicas, CheckFinalFails(r) PROVE JobInv'
  BY <1>5 DEF CheckFinalFails, Leave, Goto, At
<1>6. ASSUME NEW r \in Replicas, TryLock(r) PROVE JobInv'
  BY <1>6 DEF TryLock, Leave, StepOnly, Goto, At
<1>7. ASSUME NEW r \in Replicas, TryLockFails(r) PROVE JobInv'
  BY <1>7 DEF TryLockFails, Leave, Goto, At
<1>8. ASSUME NEW r \in Replicas, Load(r) PROVE JobInv'
  <2>1. doc[r] \in Docs
    BY <1>8 DEF Load, At
  <2>2. /\ Resumed(doc[r], progress) \in Record
        /\ Resumed(doc[r], progress).total = CueCount[doc[r]]
    BY <2>1 DEF Resumed, Fresh, Record
  <2>3. mem'[r] \in Record /\ mem'[r].total = CueCount[doc[r]]
    BY <1>8, <2>2 DEF Load
  <2> QED
    BY <1>8, <2>1, <2>3 DEF Load, Goto, At
<1>9. ASSUME NEW r \in Replicas, LoadFails(r) PROVE JobInv'
  BY <1>9 DEF LoadFails, StepOnly, Goto, At
<1>10. ASSUME NEW r \in Replicas, Register(r) PROVE JobInv'
  BY <1>10 DEF Register, StepOnly, Goto, At
<1>11. ASSUME NEW r \in Replicas, RegisterFails(r) PROVE JobInv'
  BY <1>11 DEF RegisterFails, StepOnly, Goto, At
<1>12. ASSUME NEW r \in Replicas, StartBatch(r) PROVE JobInv'
  BY <1>12 DEF StartBatch, Goto, At
<1>13. ASSUME NEW r \in Replicas, Finish(r) PROVE JobInv'
  <2>1. /\ doc[r] \in Docs /\ mem[r] \in Record
        /\ mem[r].total = CueCount[doc[r]] /\ Pending(doc[r], mem[r]) = {}
    BY <1>13 DEF Finish, At
  <2>2. Text[doc[r]] \subseteq mem[r].lines
    BY <2>1, NothingPending
  <2> QED
    BY <1>13, <2>1, <2>2 DEF Finish, StepOnly, Goto, At
<1>14. ASSUME NEW r \in Replicas, Translate(r) PROVE JobInv'
  <2>1. /\ doc[r] \in Docs /\ mem[r] \in Record
        /\ mem[r].total = CueCount[doc[r]]
    BY <1>14 DEF Translate, At
  <2>2. mem'[r] \in Record /\ mem'[r].total = CueCount[doc[r]]
    <3>1. mem'[r] = Filled(mem[r], Batch(r))
      BY <1>14 DEF Translate
    <3> QED
      BY <2>1, <3>1, TakeCues, FilledRecord DEF Batch
  <2> QED
    BY <1>14, <2>1, <2>2 DEF Translate, Goto, At
<1>15. ASSUME NEW r \in Replicas, TranslateFails(r) PROVE JobInv'
  <2>1. /\ doc[r] \in Docs /\ mem[r] \in Record
        /\ mem[r].total = CueCount[doc[r]]
    BY <1>15 DEF TranslateFails, At
  <2>2. PICK k : mem' = [mem EXCEPT ![r] = Filled(@, Take(Pending(doc[r], @), at[r], k))]
    BY <1>15 DEF TranslateFails
  <2>3. mem'[r] \in Record /\ mem'[r].total = CueCount[doc[r]]
    BY <2>1, <2>2, TakeCues, FilledRecord
  <2> QED
    BY <1>15, <2>1, <2>2, <2>3 DEF TranslateFails, EndBatch, Goto, At
<1>16. ASSUME NEW r \in Replicas, TranslatePanics(r) PROVE JobInv'
  BY <1>16 DEF TranslatePanics, EndBatch, Goto, At
<1>17. ASSUME NEW r \in Replicas, KeepPartial(r) PROVE JobInv'
  BY <1>17 DEF KeepPartial, StepOnly, Goto, At
<1>18. ASSUME NEW r \in Replicas, StoreBatch(r) PROVE JobInv'
  BY <1>18 DEF StoreBatch, StepOnly, Goto, At
<1>19. ASSUME NEW r \in Replicas, StoreBatchFails(r) PROVE JobInv'
  BY <1>19 DEF StoreBatchFails, EndBatch, Goto, At
<1>20. ASSUME NEW r \in Replicas, RefreshLock(r) PROVE JobInv'
  BY <1>20 DEF RefreshLock, EndBatch, Goto, At
<1>21. ASSUME NEW r \in Replicas, RefreshLockFails(r) PROVE JobInv'
  BY <1>21 DEF RefreshLockFails, EndBatch, Goto, At
<1>22. ASSUME NEW r \in Replicas, PutFinal(r) PROVE JobInv'
  BY <1>22 DEF PutFinal, StepOnly, Goto, At
<1>23. ASSUME NEW r \in Replicas, PutFinalFails(r) PROVE JobInv'
  BY <1>23 DEF PutFinalFails, StepOnly, Goto, At
<1>24. ASSUME NEW r \in Replicas, DropProgress(r) PROVE JobInv'
  BY <1>24 DEF DropProgress, StepOnly, Goto, At
<1>25. ASSUME NEW r \in Replicas, Unlock(r) PROVE JobInv'
  BY <1>25 DEF Unlock, Leave, Goto, At
<1>26. ASSUME NEW r \in Replicas, UnlockFails(r) PROVE JobInv'
  BY <1>26 DEF UnlockFails, Leave, Goto, At
<1>27. ASSUME NEW r \in Replicas, Crash(r) PROVE JobInv'
  BY <1>27 DEF Crash, Leave, Goto, At
<1>28. ASSUME NEW r \in Replicas, Close(r) PROVE JobInv'
  BY <1>28 DEF Close, jobVars
<1>29. CASE RecordExpires
  BY <1>29 DEF RecordExpires, jobVars
<1>30. CASE Tick
  BY <1>30 DEF Tick, KeyAfterTick
<1>31. CASE UNCHANGED vars
  BY <1>31 DEF vars, jobVars
<1> QED
  BY <1>1, <1>2, <1>3, <1>4, <1>5, <1>6, <1>7, <1>8, <1>9, <1>10, <1>11, <1>12, <1>13, <1>14, <1>15, <1>16, <1>17, <1>18, <1>19, <1>20, <1>21, <1>22, <1>23, <1>24, <1>25, <1>26, <1>27, <1>28, <1>29, <1>30, <1>31 DEF Next, JobStep, Failure

-----------------------------------------------------------------------------
(* The type invariant and the completeness of the artifact.                *)

\* The inductive strengthening of FinalComplete.
IInv == TypeOK /\ JobInv /\ FinalComplete

\* At the start there is no job and no artifact.
LEMMA FinalInit == Init => IInv
BY TypeInit DEF Init, IInv, JobInv, Loaded, InBatch, FinalComplete

\* Only the two ends of PutFinal write the artifact, and the job that reaches
\* them has a full record.
LEMMA FinalStep == IInv /\ [Next]_vars => FinalComplete'
<1> SUFFICES ASSUME IInv, [Next]_vars PROVE FinalComplete'
  OBVIOUS
<1>1. ASSUME NEW r \in Replicas, At(r, "final")
      PROVE  LET rec == FinalRec(doc[r], mem[r].lines)
             IN  Text[rec.doc] \subseteq rec.lines
  BY <1>1 DEF IInv, JobInv, At, FinalRec
<1>2. ASSUME NEW r \in Replicas, PutFinal(r) PROVE FinalComplete'
  BY <1>1, <1>2 DEF PutFinal, FinalComplete
<1>3. ASSUME NEW r \in Replicas, PutFinalFails(r) PROVE FinalComplete'
  BY <1>1, <1>3 DEF PutFinalFails, IInv, FinalComplete
<1>4. CASE UNCHANGED final
  BY <1>4 DEF IInv, FinalComplete
<1>5. ASSUME NEW r \in Replicas, JobStep(r), ~PutFinal(r) PROVE UNCHANGED final
  BY <1>5 DEF JobStep, storeVars, TakeSlot, QueueCancelled, CheckFinal, TryLock, Load,
     Register, StartBatch, Finish, Translate, KeepPartial, StoreBatch, RefreshLock,
     DropProgress, Unlock
<1>6. ASSUME NEW r \in Replicas, Failure(r), ~PutFinalFails(r) PROVE UNCHANGED final
  BY <1>6 DEF Failure, storeVars, CheckFinalFails, TryLockFails, LoadFails, RegisterFails,
     TranslateFails, TranslatePanics, StoreBatchFails, RefreshLockFails, UnlockFails, Crash
<1>7. ASSUME NEW r \in Replicas, Ensure(r) \/ Close(r) PROVE UNCHANGED final
  BY <1>7 DEF Ensure, Accepts, Close, storeVars
<1>8. RecordExpires \/ Tick \/ UNCHANGED vars
      => UNCHANGED final
  BY DEF RecordExpires, Tick, vars, storeVars
<1> QED
  BY <1>2, <1>3, <1>4, <1>5, <1>6, <1>7, <1>8 DEF Next

\* The strengthening of FinalComplete is inductive.
LEMMA FinalInductive == Spec => []IInv
<1>1. IInv /\ [Next]_vars => IInv'
  BY TypeStep, JobStepKeeps, FinalStep DEF IInv
<1> QED
  BY <1>1, FinalInit, PTL DEF Spec

\* Every variable keeps its type, with any number of replicas.
THEOREM Typed == Spec => []TypeOK
<1>1. IInv => TypeOK
  BY DEF IInv
<1> QED
  BY <1>1, FinalInductive, PTL

\* No interleaving of workers, failures and crashes publishes an artifact with
\* an untranslated cue in it (job.go: run, runBatch, writeFinal).
THEOREM FinalIsComplete == Spec => []FinalComplete
<1>1. IInv => FinalComplete
  BY DEF IInv
<1> QED
  BY <1>1, FinalInductive, PTL

-----------------------------------------------------------------------------
(* The lock.                                                               *)

\* The lock key exists exactly while the lease has time left, and its owner
\* is a job that can still release it.
LockInv == /\ lock = Nobody <=> lease = 0
           /\ OwnerHolds

\* Every step keeps the lock key and its lease together, and every way out of
\* a job that owns the lock gives it back or orphans it.
LEMMA LockStep == TypeOK /\ LockInv /\ [Next]_vars => LockInv'
<1> SUFFICES ASSUME TypeOK, LockInv, [Next]_vars PROVE LockInv'
  OBVIOUS
<1> USE FileJobAssumption DEF LockInv, OwnerHolds, TypeOK, Steps, Holding, BetweenBatches, InBatch
<1>1. ASSUME NEW r \in Replicas, Ensure(r) PROVE LockInv'
  BY <1>1 DEF Ensure, Accepts, Goto, At, storeVars
<1>2. ASSUME NEW r \in Replicas, TakeSlot(r) PROVE LockInv'
  BY <1>2 DEF TakeSlot, StepOnly, Goto, At, storeVars
<1>3. ASSUME NEW r \in Replicas, QueueCancelled(r) PROVE LockInv'
  BY <1>3 DEF QueueCancelled, Leave, Goto, At, storeVars
<1>4. ASSUME NEW r \in Replicas, CheckFinal(r) PROVE LockInv'
  BY <1>4 DEF CheckFinal, Leave, StepOnly, Goto, At, storeVars
<1>5. ASSUME NEW r \in Replicas, CheckFinalFails(r) PROVE LockInv'
  BY <1>5 DEF CheckFinalFails, Leave, Goto, At, storeVars
<1>6. ASSUME NEW r \in Replicas, TryLock(r) PROVE LockInv'
  BY <1>6 DEF TryLock, Leave, StepOnly, Goto, At
<1>7. ASSUME NEW r \in Replicas, TryLockFails(r) PROVE LockInv'
  BY <1>7 DEF TryLockFails, Leave, Goto, At
<1>8. ASSUME NEW r \in Replicas, Load(r) PROVE LockInv'
  BY <1>8 DEF Load, Goto, At, Fresh, Record, storeVars
<1>9. ASSUME NEW r \in Replicas, LoadFails(r) PROVE LockInv'
  BY <1>9 DEF LoadFails, StepOnly, Goto, At, storeVars
<1>10. ASSUME NEW r \in Replicas, Register(r) PROVE LockInv'
  BY <1>10 DEF Register, StepOnly, Goto, At
<1>11. ASSUME NEW r \in Replicas, RegisterFails(r) PROVE LockInv'
  BY <1>11 DEF RegisterFails, StepOnly, Goto, At
<1>12. ASSUME NEW r \in Replicas, StartBatch(r) PROVE LockInv'
  BY <1>12 DEF StartBatch, Goto, At, storeVars
<1>13. ASSUME NEW r \in Replicas, Finish(r) PROVE LockInv'
  BY <1>13 DEF Finish, StepOnly, Goto, At, storeVars
<1>14. ASSUME NEW r \in Replicas, Translate(r) PROVE LockInv'
  BY <1>14 DEF Translate, Goto, At, storeVars
<1>15. ASSUME NEW r \in Replicas, TranslateFails(r) PROVE LockInv'
  BY <1>15 DEF TranslateFails, EndBatch, Goto, At, storeVars
<1>16. ASSUME NEW r \in Replicas, TranslatePanics(r) PROVE LockInv'
  BY <1>16 DEF TranslatePanics, EndBatch, Goto, At, storeVars
<1>17. ASSUME NEW r \in Replicas, KeepPartial(r) PROVE LockInv'
  BY <1>17 DEF KeepPartial, StepOnly, Goto, At
<1>18. ASSUME NEW r \in Replicas, StoreBatch(r) PROVE LockInv'
  BY <1>18 DEF StoreBatch, StepOnly, Goto, At
<1>19. ASSUME NEW r \in Replicas, StoreBatchFails(r) PROVE LockInv'
  BY <1>19 DEF StoreBatchFails, EndBatch, Goto, At
<1>20. ASSUME NEW r \in Replicas, RefreshLock(r) PROVE LockInv'
  BY <1>20 DEF RefreshLock, EndBatch, Goto, At, ExtendIfMine
<1>21. ASSUME NEW r \in Replicas, RefreshLockFails(r) PROVE LockInv'
  BY <1>21 DEF RefreshLockFails, EndBatch, Goto, At, ExtendIfMine
<1>22. ASSUME NEW r \in Replicas, PutFinal(r) PROVE LockInv'
  BY <1>22 DEF PutFinal, StepOnly, Goto, At
<1>23. ASSUME NEW r \in Replicas, PutFinalFails(r) PROVE LockInv'
  BY <1>23 DEF PutFinalFails, StepOnly, Goto, At
<1>24. ASSUME NEW r \in Replicas, DropProgress(r) PROVE LockInv'
  BY <1>24 DEF DropProgress, StepOnly, Goto, At
<1>25. ASSUME NEW r \in Replicas, Unlock(r) PROVE LockInv'
  BY <1>25 DEF Unlock, Leave, Goto, At, ReleaseIfMine
<1>26. ASSUME NEW r \in Replicas, UnlockFails(r) PROVE LockInv'
  BY <1>26 DEF UnlockFails, Leave, Goto, At, ReleaseIfMine, ForgetToken
<1>27. ASSUME NEW r \in Replicas, Crash(r) PROVE LockInv'
  BY <1>27 DEF Crash, Leave, Goto, At, ForgetToken
<1>28. ASSUME NEW r \in Replicas, Close(r) PROVE LockInv'
  BY <1>28 DEF Close, jobVars, storeVars
<1>29. CASE RecordExpires
  BY <1>29 DEF RecordExpires, jobVars
<1>30. CASE Tick
  BY <1>30 DEF Tick, KeyAfterTick
<1>31. CASE UNCHANGED vars
  BY <1>31 DEF vars, jobVars, storeVars
<1> QED
  BY <1>1, <1>2, <1>3, <1>4, <1>5, <1>6, <1>7, <1>8, <1>9, <1>10, <1>11, <1>12, <1>13, <1>14, <1>15, <1>16, <1>17, <1>18, <1>19, <1>20, <1>21, <1>22, <1>23, <1>24, <1>25, <1>26, <1>27, <1>28, <1>29, <1>30, <1>31 DEF Next, JobStep, Failure

\* What LockInv says holds in every behaviour.
LEMMA LockInductive == Spec => []LockInv
<1>1. Init => LockInv
  BY FileJobAssumption DEF Init, LockInv, OwnerHolds
<1> QED
  BY <1>1, LockStep, Typed, PTL DEF Spec

\* A job never exits with the lock in its name: every way out of run goes
\* through the deferred Unlock, or leaves the key to expire.
THEOREM OwnerAlwaysHolds == Spec => []OwnerHolds
<1>1. LockInv => OwnerHolds
  BY DEF LockInv
<1> QED
  BY <1>1, LockInductive, PTL

\* Every step of the jobs is a step of the abstract lease, or none.
LEMMA LeaseStep ==
  TypeOK /\ LockInv /\ [Next]_vars => [Lock!LeaseNext]_<<lock, lease>>
<1> SUFFICES ASSUME TypeOK, LockInv, [Next]_vars
             PROVE  Lock!LeaseNext \/ UNCHANGED <<lock, lease>>
  BY DEF Lock!leaseVars
<1> USE FileJobAssumption DEF TypeOK
<1>1. ASSUME NEW r \in Replicas, TryLock(r) PROVE Lock!LeaseNext \/ UNCHANGED <<lock, lease>>
  BY <1>1 DEF TryLock, Leave, StepOnly, Goto, At, Lock!LeaseNext, Lock!Acquire
<1>2. ASSUME NEW r \in Replicas, TryLockFails(r) PROVE Lock!LeaseNext \/ UNCHANGED <<lock, lease>>
  BY <1>2 DEF TryLockFails, Leave, Goto, At, Lock!LeaseNext, Lock!AcquireUnknown
<1>3. ASSUME NEW r \in Replicas, RefreshLock(r) PROVE Lock!LeaseNext \/ UNCHANGED <<lock, lease>>
  BY <1>3 DEF RefreshLock, EndBatch, Goto, At, ExtendIfMine, Lock!LeaseNext, Lock!Extend
<1>4. ASSUME NEW r \in Replicas, RefreshLockFails(r) PROVE Lock!LeaseNext \/ UNCHANGED <<lock, lease>>
  BY <1>4 DEF RefreshLockFails, EndBatch, Goto, At, ExtendIfMine, Lock!LeaseNext, Lock!Extend
<1>5. ASSUME NEW r \in Replicas, Unlock(r) PROVE Lock!LeaseNext \/ UNCHANGED <<lock, lease>>
  BY <1>5 DEF Unlock, Leave, Goto, At, ReleaseIfMine, Lock!LeaseNext, Lock!Release
<1>6. ASSUME NEW r \in Replicas, UnlockFails(r) PROVE Lock!LeaseNext \/ UNCHANGED <<lock, lease>>
  BY <1>6 DEF UnlockFails, Leave, Goto, At, ReleaseIfMine, ForgetToken, Lock!LeaseNext, Lock!Release, Lock!Abandon
<1>7. ASSUME NEW r \in Replicas, Crash(r) PROVE Lock!LeaseNext \/ UNCHANGED <<lock, lease>>
  BY <1>7 DEF Crash, Leave, Goto, At, ForgetToken, Lock!LeaseNext, Lock!Abandon
<1>8. CASE Tick
  BY <1>8 DEF Tick, KeyAfterTick, LockInv, Lock!LeaseNext, Lock!Elapse
<1>9. ASSUME NEW r \in Replicas, JobStep(r), ~TryLock(r), ~RefreshLock(r), ~Unlock(r)
      PROVE  UNCHANGED <<lock, lease>>
  BY <1>9 DEF JobStep, storeVars, TakeSlot, QueueCancelled, CheckFinal, Load, Register, StartBatch, Finish, Translate, KeepPartial, StoreBatch, PutFinal, DropProgress
<1>10. ASSUME NEW r \in Replicas, Failure(r),
             ~TryLockFails(r), ~RefreshLockFails(r), ~UnlockFails(r), ~Crash(r)
      PROVE  UNCHANGED <<lock, lease>>
  BY <1>10 DEF Failure, storeVars, CheckFinalFails, LoadFails, RegisterFails, TranslateFails, TranslatePanics, StoreBatchFails, PutFinalFails
<1>11. ASSUME NEW r \in Replicas, Ensure(r) \/ Close(r) PROVE UNCHANGED <<lock, lease>>
  BY <1>11 DEF Ensure, Accepts, Close, storeVars
<1>12. RecordExpires \/ UNCHANGED vars
      => UNCHANGED <<lock, lease>>
  BY DEF RecordExpires, vars, storeVars
<1> QED
  BY <1>1, <1>2, <1>3, <1>4, <1>5, <1>6, <1>7, <1>8, <1>9, <1>10, <1>11, <1>12 DEF Next, JobStep, Failure

\* The jobs implement the abstract lease: a job whose lock expired under it
\* cannot extend or release the one its successor took (store.go:45-47).
THEOREM LeaseImplemented == Spec => LeaseKept
<1>1. Init => Lock!LeaseInit
  BY DEF Init, Lock!LeaseInit
<1>2. [Lock!LeaseNext]_<<lock, lease>> => [Lock!LeaseNext]_Lock!leaseVars
  BY DEF Lock!leaseVars
<1> QED
  BY <1>1, <1>2, LeaseStep, Typed, LockInductive, PTL DEF Spec, LeaseKept, Lock!LeaseSpec

-----------------------------------------------------------------------------
(* One worker at a time, when no time passes between two batches.          *)

\* The lease is whole when a batch is about to start, and from then on the
\* batch's deadline never has more time left than the lease.
CoverInv == \A r \in Replicas :
              /\ pc[r] \in BetweenBatches => lock = r /\ lease = LockTTL
              /\ deadline[r] > 0 => lock = r /\ lease >= deadline[r]

\* While no time passes between two batches, every step leaves the lease at
\* least as long as the deadline of the batch it covers.
LEMMA CoverStep ==
  ASSUME SlowStore = FALSE
  PROVE  TypeOK /\ LockInv /\ CoverInv /\ [Next]_vars => CoverInv'
<1> SUFFICES ASSUME TypeOK, LockInv, CoverInv, [Next]_vars PROVE CoverInv'
  OBVIOUS
<1> USE FileJobAssumption DEF CoverInv, TypeOK, Steps, Holding, BetweenBatches, InBatch
<1>1. ASSUME NEW r \in Replicas, Ensure(r) PROVE CoverInv'
  BY <1>1 DEF Ensure, Accepts, Goto, At, storeVars
<1>2. ASSUME NEW r \in Replicas, TakeSlot(r) PROVE CoverInv'
  BY <1>2 DEF TakeSlot, StepOnly, Goto, At, storeVars
<1>3. ASSUME NEW r \in Replicas, QueueCancelled(r) PROVE CoverInv'
  BY <1>3 DEF QueueCancelled, Leave, Goto, At, storeVars
<1>4. ASSUME NEW r \in Replicas, CheckFinal(r) PROVE CoverInv'
  BY <1>4 DEF CheckFinal, Leave, StepOnly, Goto, At, storeVars
<1>5. ASSUME NEW r \in Replicas, CheckFinalFails(r) PROVE CoverInv'
  BY <1>5 DEF CheckFinalFails, Leave, Goto, At, storeVars
<1>6. ASSUME NEW r \in Replicas, TryLock(r) PROVE CoverInv'
  BY <1>6 DEF TryLock, Leave, StepOnly, Goto, At
<1>7. ASSUME NEW r \in Replicas, TryLockFails(r) PROVE CoverInv'
  BY <1>7 DEF TryLockFails, Leave, Goto, At
<1>8. ASSUME NEW r \in Replicas, Load(r) PROVE CoverInv'
  BY <1>8 DEF Load, Goto, At, Fresh, Record, storeVars
<1>9. ASSUME NEW r \in Replicas, LoadFails(r) PROVE CoverInv'
  BY <1>9 DEF LoadFails, StepOnly, Goto, At, storeVars
<1>10. ASSUME NEW r \in Replicas, Register(r) PROVE CoverInv'
  BY <1>10 DEF Register, StepOnly, Goto, At
<1>11. ASSUME NEW r \in Replicas, RegisterFails(r) PROVE CoverInv'
  BY <1>11 DEF RegisterFails, StepOnly, Goto, At
<1>12. ASSUME NEW r \in Replicas, StartBatch(r) PROVE CoverInv'
  BY <1>12 DEF StartBatch, Goto, At, storeVars
<1>13. ASSUME NEW r \in Replicas, Finish(r) PROVE CoverInv'
  BY <1>13 DEF Finish, StepOnly, Goto, At, storeVars
<1>14. ASSUME NEW r \in Replicas, Translate(r) PROVE CoverInv'
  BY <1>14 DEF Translate, Goto, At, storeVars
<1>15. ASSUME NEW r \in Replicas, TranslateFails(r) PROVE CoverInv'
  BY <1>15 DEF TranslateFails, EndBatch, Goto, At, storeVars
<1>16. ASSUME NEW r \in Replicas, TranslatePanics(r) PROVE CoverInv'
  BY <1>16 DEF TranslatePanics, EndBatch, Goto, At, storeVars
<1>17. ASSUME NEW r \in Replicas, KeepPartial(r) PROVE CoverInv'
  BY <1>17 DEF KeepPartial, StepOnly, Goto, At
<1>18. ASSUME NEW r \in Replicas, StoreBatch(r) PROVE CoverInv'
  BY <1>18 DEF StoreBatch, StepOnly, Goto, At
<1>19. ASSUME NEW r \in Replicas, StoreBatchFails(r) PROVE CoverInv'
  BY <1>19 DEF StoreBatchFails, EndBatch, Goto, At
<1>20. ASSUME NEW r \in Replicas, RefreshLock(r) PROVE CoverInv'
  BY <1>20 DEF RefreshLock, EndBatch, Goto, At, ExtendIfMine
<1>21. ASSUME NEW r \in Replicas, RefreshLockFails(r) PROVE CoverInv'
  BY <1>21 DEF RefreshLockFails, EndBatch, Goto, At, ExtendIfMine
<1>22. ASSUME NEW r \in Replicas, PutFinal(r) PROVE CoverInv'
  BY <1>22 DEF PutFinal, StepOnly, Goto, At
<1>23. ASSUME NEW r \in Replicas, PutFinalFails(r) PROVE CoverInv'
  BY <1>23 DEF PutFinalFails, StepOnly, Goto, At
<1>24. ASSUME NEW r \in Replicas, DropProgress(r) PROVE CoverInv'
  BY <1>24 DEF DropProgress, StepOnly, Goto, At
<1>25. ASSUME NEW r \in Replicas, Unlock(r) PROVE CoverInv'
  BY <1>25 DEF Unlock, Leave, Goto, At, ReleaseIfMine
<1>26. ASSUME NEW r \in Replicas, UnlockFails(r) PROVE CoverInv'
  BY <1>26 DEF UnlockFails, Leave, Goto, At, ReleaseIfMine, ForgetToken
<1>27. ASSUME NEW r \in Replicas, Crash(r) PROVE CoverInv'
  BY <1>27 DEF Crash, Leave, Goto, At, ForgetToken
<1>28. ASSUME NEW r \in Replicas, Close(r) PROVE CoverInv'
  BY <1>28 DEF Close, jobVars, storeVars
<1>29. CASE RecordExpires
  BY <1>29 DEF RecordExpires, jobVars
<1>30. CASE Tick
  BY <1>30 DEF Tick, KeyAfterTick
<1>31. CASE UNCHANGED vars
  BY <1>31 DEF vars, jobVars, storeVars
<1> QED
  BY <1>1, <1>2, <1>3, <1>4, <1>5, <1>6, <1>7, <1>8, <1>9, <1>10, <1>11, <1>12, <1>13, <1>14, <1>15, <1>16, <1>17, <1>18, <1>19, <1>20, <1>21, <1>22, <1>23, <1>24, <1>25, <1>26, <1>27, <1>28, <1>29, <1>30, <1>31 DEF Next, JobStep, Failure

\* With a store fast enough that no time passes between taking or refreshing
\* the lock and starting the batch, the deadline of runBatch does what its
\* comment says: no two workers are ever inside a batch that still runs.
THEOREM OneWorkerWithPromptStore ==
  ASSUME SlowStore = FALSE
  PROVE  Spec => []OneBatchAtATime
<1>1. Init => CoverInv
  BY FileJobAssumption DEF Init, CoverInv, BetweenBatches
<1>2. CoverInv => OneBatchAtATime
  BY DEF CoverInv, OneBatchAtATime
<1> QED
  BY <1>1, <1>2, CoverStep, Typed, LockInductive, PTL DEF Spec

-----------------------------------------------------------------------------
(* A key at work is published.                                             *)

Known == progress # NoRecord \/ final # NoFinal

\* Registered, up to the end of the batch.
Announced == {"select"} \cup InBatch

KnownInv == \A r \in Replicas :
              /\ pc[r] \in Announced => Known
              /\ pc[r] = "drop" => final # NoFinal

\* What PutFinal writes is an artifact.
LEMMA ArtifactExists ==
  ASSUME NEW d \in Docs, NEW rec \in Record
  PROVE  FinalRec(d, rec.lines) # NoFinal
<1>1. FinalRec(d, rec.lines) \in [doc : Docs, lines : SUBSET Nat]
  BY DEF FinalRec, Record
<1> QED
  BY <1>1, FileJobAssumption

\* An artifact is never taken back.
LEMMA FinalStays ==
  ASSUME JobInv, [Next]_vars, final # NoFinal
  PROVE  final' # NoFinal
<1>1. ASSUME NEW r \in Replicas, PutFinal(r) \/ PutFinalFails(r) PROVE final' # NoFinal
  <2>1. doc[r] \in Docs /\ mem[r] \in Record
    BY <1>1 DEF PutFinal, PutFinalFails, At, JobInv, Loaded
  <2> QED
    BY <1>1, <2>1, ArtifactExists DEF PutFinal, PutFinalFails
<1>2. ASSUME NEW r \in Replicas, JobStep(r), ~PutFinal(r) PROVE UNCHANGED final
  BY <1>2 DEF JobStep, storeVars, TakeSlot, QueueCancelled, CheckFinal, TryLock, Load,
     Register, StartBatch, Finish, Translate, KeepPartial, StoreBatch, RefreshLock,
     DropProgress, Unlock
<1>3. ASSUME NEW r \in Replicas, Failure(r), ~PutFinalFails(r) PROVE UNCHANGED final
  BY <1>3 DEF Failure, storeVars, CheckFinalFails, TryLockFails, LoadFails, RegisterFails,
     TranslateFails, TranslatePanics, StoreBatchFails, RefreshLockFails, UnlockFails, Crash
<1>4. ASSUME NEW r \in Replicas, Ensure(r) \/ Close(r) PROVE UNCHANGED final
  BY <1>4 DEF Ensure, Accepts, Close, storeVars
<1>5. RecordExpires \/ Tick \/ UNCHANGED vars => UNCHANGED final
  BY DEF RecordExpires, Tick, vars, storeVars
<1> QED
  BY <1>1, <1>2, <1>3, <1>4, <1>5 DEF Next

\* A record is only dropped behind its artifact, or when it expires.
LEMMA KnownStays ==
  ASSUME TypeOK, JobInv, KnownInv, [Next]_vars, ~RecordExpires, Known
  PROVE  Known'
<1>1. CASE final # NoFinal
  BY <1>1, FinalStays DEF Known
<1> SUFFICES ASSUME final = NoFinal, progress # NoRecord PROVE Known'
  BY <1>1 DEF Known
<1>2. ASSUME NEW r \in Replicas, pc[r] \in Loaded PROVE mem[r] # NoRecord
  BY <1>2, FileJobAssumption DEF JobInv, Record
<1>3. ASSUME NEW r \in Replicas, Register(r) \/ KeepPartial(r) \/ StoreBatch(r)
      PROVE  Known'
  BY <1>2, <1>3 DEF Register, KeepPartial, StoreBatch, MaybeWritten, At, Loaded, InBatch, Known
<1>4. ASSUME NEW r \in Replicas, RegisterFails(r) \/ StoreBatchFails(r) PROVE Known'
  BY <1>2, <1>4 DEF RegisterFails, StoreBatchFails, MaybeWritten, At, Loaded, InBatch, Known
<1>5. ASSUME NEW r \in Replicas, DropProgress(r) PROVE Known'
  BY <1>5 DEF DropProgress, At, KnownInv
<1>6. ASSUME NEW r \in Replicas, JobStep(r), ~Register(r), ~KeepPartial(r), ~StoreBatch(r),
             ~DropProgress(r)
      PROVE  UNCHANGED progress
  BY <1>6 DEF JobStep, storeVars, TakeSlot, QueueCancelled, CheckFinal, TryLock, Load,
     StartBatch, Finish, Translate, RefreshLock, PutFinal, Unlock
<1>7. ASSUME NEW r \in Replicas, Failure(r), ~RegisterFails(r), ~StoreBatchFails(r)
      PROVE  UNCHANGED progress
  BY <1>7 DEF Failure, storeVars, CheckFinalFails, TryLockFails, LoadFails,
     TranslateFails, TranslatePanics, RefreshLockFails, PutFinalFails, UnlockFails, Crash
<1>8. ASSUME NEW r \in Replicas, Ensure(r) \/ Close(r) PROVE UNCHANGED progress
  BY <1>8 DEF Ensure, Accepts, Close, storeVars
<1>9. Tick \/ UNCHANGED vars => UNCHANGED progress
  BY DEF Tick, vars, storeVars
<1> QED
  BY <1>3, <1>4, <1>5, <1>6, <1>7, <1>8, <1>9 DEF Next, Known

\* A job is announced by Register alone, and drops the record after PutFinal.
LEMMA AnnouncedBy ==
  ASSUME TypeOK, [Next]_vars, NEW r \in Replicas
  PROVE  /\ pc'[r] \in Announced => pc[r] \in Announced \/ Register(r)
         /\ pc'[r] = "drop" => pc[r] = "drop" \/ PutFinal(r)
<1> DEFINE Goal == /\ pc'[r] \in Announced => pc[r] \in Announced \/ Register(r)
                   /\ pc'[r] = "drop" => pc[r] = "drop" \/ PutFinal(r)
<1> USE DEF TypeOK, Announced, InBatch
<1>1. ASSUME NEW s \in Replicas, Ensure(s) PROVE Goal
  BY <1>1 DEF Ensure, Accepts, Goto, At
<1>2. ASSUME NEW s \in Replicas, TakeSlot(s) \/ QueueCancelled(s) \/ CheckFinal(s) \/ TryLock(s)
      PROVE  Goal
  BY <1>2 DEF TakeSlot, QueueCancelled, CheckFinal, TryLock, Leave, StepOnly, Goto, At
<1>3. ASSUME NEW s \in Replicas, Load(s) \/ Register(s) \/ StartBatch(s) \/ Finish(s)
      PROVE  Goal
  BY <1>3 DEF Load, Register, StartBatch, Finish, StepOnly, Goto, At
<1>4. ASSUME NEW s \in Replicas, Translate(s) \/ KeepPartial(s) \/ StoreBatch(s) \/ RefreshLock(s)
      PROVE  Goal
  BY <1>4 DEF Translate, KeepPartial, StoreBatch, RefreshLock, EndBatch, StepOnly, Goto, At
<1>5. ASSUME NEW s \in Replicas, PutFinal(s) \/ DropProgress(s) \/ Unlock(s) PROVE Goal
  BY <1>5 DEF PutFinal, DropProgress, Unlock, Leave, StepOnly, Goto, At
<1>6. ASSUME NEW s \in Replicas,
             CheckFinalFails(s) \/ TryLockFails(s) \/ UnlockFails(s) \/ Crash(s)
      PROVE  Goal
  BY <1>6 DEF CheckFinalFails, TryLockFails, UnlockFails, Crash, Leave, Goto, At
<1>7. ASSUME NEW s \in Replicas, LoadFails(s) \/ RegisterFails(s) \/ PutFinalFails(s)
      PROVE  Goal
  BY <1>7 DEF LoadFails, RegisterFails, PutFinalFails, StepOnly, Goto, At
<1>8. ASSUME NEW s \in Replicas, \/ TranslateFails(s) \/ TranslatePanics(s)
                                \/ StoreBatchFails(s) \/ RefreshLockFails(s)
      PROVE  Goal
  BY <1>8 DEF TranslateFails, TranslatePanics, StoreBatchFails, RefreshLockFails, EndBatch,
     Goto, At
<1>9. ASSUME NEW s \in Replicas, Close(s) PROVE Goal
  BY <1>9 DEF Close, jobVars
<1>10. RecordExpires \/ Tick \/ UNCHANGED vars => Goal
  BY DEF RecordExpires, Tick, vars, jobVars
<1> QED
  BY <1>1, <1>2, <1>3, <1>4, <1>5, <1>6, <1>7, <1>8, <1>9, <1>10 DEF Next, JobStep, Failure

\* The induction step.
LEMMA KnownStep == TypeOK /\ JobInv /\ KnownInv /\ [Next]_vars => KnownInv'
<1> SUFFICES ASSUME TypeOK, JobInv, KnownInv, [Next]_vars, NEW r \in Replicas
             PROVE  /\ pc'[r] \in Announced => Known'
                    /\ pc'[r] = "drop" => final' # NoFinal
  BY DEF KnownInv
<1>1. CASE RecordExpires
  BY <1>1 DEF RecordExpires, jobVars, At, Announced, InBatch
<1>2. ASSUME ~RecordExpires, pc'[r] \in Announced PROVE Known'
  <2>1. CASE pc[r] \in Announced
    BY <1>2, <2>1, KnownStays DEF KnownInv, Known
  <2>2. CASE Register(r)
    <3>1. mem[r] \in Record
      BY <2>2 DEF Register, At, JobInv, Loaded
    <3> QED
      BY <2>2, <3>1, FileJobAssumption DEF Register, Record, Known
  <2> QED
    BY <1>2, <2>1, <2>2, AnnouncedBy
<1>3. ASSUME pc'[r] = "drop" PROVE final' # NoFinal
  <2>1. CASE pc[r] = "drop"
    BY <2>1, FinalStays DEF KnownInv, Known
  <2>2. CASE PutFinal(r)
    <3>1. doc[r] \in Docs /\ mem[r] \in Record
      BY <2>2 DEF PutFinal, At, JobInv, Loaded
    <3> QED
      BY <2>2, <3>1, ArtifactExists DEF PutFinal
  <2> QED
    BY <1>3, <2>1, <2>2, AnnouncedBy
<1> QED
  BY <1>1, <1>2, <1>3

\* HEAD always has a count to report once the first batch has begun, for any
\* number of replicas and whatever the store's pace.
THEOREM WorkIsPublished == Spec => []Published
<1>1. Init => KnownInv
  BY DEF Init, KnownInv, Announced, InBatch
<1>2. KnownInv => Published
  <2> SUFFICES ASSUME KnownInv, NEW r \in Replicas, At(r, "translate") PROVE Known
    BY DEF Published, Known
  <2> QED
    BY DEF KnownInv, Known, Announced, InBatch, At
<1>3. IInv => TypeOK /\ JobInv
  BY DEF IInv
<1> QED
  BY <1>1, <1>2, <1>3, KnownStep, FinalInductive, PTL DEF Spec

-----------------------------------------------------------------------------
(* What the users of the key are promised (Artifact), with one document and  *)
(* one writer at a time.  A worker that outlived its lease may write an      *)
(* older record back over its successor's (KeepPartial, and StoreBatchFails  *)
(* on an expired deadline), a fetch of another length starts the record      *)
(* over (Resumed), and a record nobody works on expires: the hypotheses of   *)
(* TrackImplemented rule out these three and nothing else.                   *)

\* Every job was given the same document.
OneDocument == \A d, e \in Docs : d = e

\* At most one job works on a record.
OneWriter == \A r, s \in Replicas : pc[r] \in Loaded /\ pc[s] \in Loaded => r = s

\* The cues with text, and those of them whose line a reader is given: from the
\* artifact, and without one from the record.
Track == UNION {Text[d] : d \in Docs}

LinesHeld == IF final # NoFinal THEN final.lines
             ELSE IF progress # NoRecord THEN progress.lines ELSE {}

TextHeld == [c \in Track |-> IF c \in LinesHeld THEN 1 ELSE 0]

Promise == INSTANCE Artifact WITH Lines <- Track, Texts <- {1}, NoText <- 0,
                                  text <- TextHeld, served <- final # NoFinal

\* The record in the store is sized for the document, and until there is an
\* artifact no job that may write it back has fewer lines than it.
GrowInv == progress # NoRecord =>
             /\ \A d \in Docs : progress.total = CueCount[d]
             /\ final = NoFinal =>
                  \A r \in Replicas : pc[r] \in Loaded => progress.lines \subseteq mem[r].lines

\* A job that works on a record adds lines to it; it gets one only from Load.
LEMMA RecordGrows ==
  ASSUME TypeOK, JobInv, [Next]_vars, NEW r \in Replicas, pc'[r] \in Loaded, ~Load(r)
  PROVE  pc[r] \in Loaded /\ mem[r].lines \subseteq mem'[r].lines
<1> DEFINE Goal == pc[r] \in Loaded /\ mem[r].lines \subseteq mem'[r].lines
<1> USE DEF TypeOK, Loaded, InBatch
<1>1. ASSUME NEW s \in Replicas, \/ Ensure(s) \/ TakeSlot(s) \/ QueueCancelled(s)
                                \/ CheckFinal(s) \/ TryLock(s)
      PROVE  Goal
  BY <1>1 DEF Ensure, Accepts, TakeSlot, QueueCancelled, CheckFinal, TryLock, Leave,
     StepOnly, Goto, At
<1>2. ASSUME NEW s \in Replicas, Load(s) PROVE Goal
  BY <1>2 DEF Load, Goto, At
<1>3. ASSUME NEW s \in Replicas, \/ Register(s) \/ StartBatch(s) \/ Finish(s)
                                \/ KeepPartial(s) \/ StoreBatch(s) \/ RefreshLock(s)
      PROVE  Goal
  BY <1>3 DEF Register, StartBatch, Finish, KeepPartial, StoreBatch, RefreshLock,
     EndBatch, StepOnly, Goto, At
<1>4. ASSUME NEW s \in Replicas, Translate(s) PROVE Goal
  <2>1. mem[s] \in Record
    BY <1>4 DEF Translate, At, JobInv
  <2>2. mem' = [mem EXCEPT ![s] = Filled(mem[s], Batch(s))]
    BY <1>4 DEF Translate
  <2>3. mem[s].lines \subseteq Filled(mem[s], Batch(s)).lines
    BY <2>1 DEF Filled, Record
  <2>4. mem[r].lines \subseteq mem'[r].lines
    BY <2>2, <2>3
  <2> QED
    BY <1>4, <2>4 DEF Translate, Goto, At
<1>5. ASSUME NEW s \in Replicas, TranslateFails(s) PROVE Goal
  <2>1. mem[s] \in Record
    BY <1>5 DEF TranslateFails, At, JobInv
  <2>2. PICK k : mem' = [mem EXCEPT ![s] = Filled(@, Take(Pending(doc[s], @), at[s], k))]
    BY <1>5 DEF TranslateFails
  <2>3. mem[s].lines \subseteq Filled(mem[s], Take(Pending(doc[s], mem[s]), at[s], k)).lines
    BY <2>1 DEF Filled, Record
  <2>4. mem[r].lines \subseteq mem'[r].lines
    BY <2>2, <2>3
  <2> QED
    BY <1>5, <2>4 DEF TranslateFails, EndBatch, Goto, At
<1>6. ASSUME NEW s \in Replicas, \/ PutFinal(s) \/ DropProgress(s) \/ Unlock(s)
                                \/ CheckFinalFails(s) \/ TryLockFails(s) \/ UnlockFails(s)
                                \/ Crash(s)
      PROVE  Goal
  BY <1>6 DEF PutFinal, DropProgress, Unlock, CheckFinalFails, TryLockFails, UnlockFails,
     Crash, Leave, StepOnly, Goto, At
<1>7. ASSUME NEW s \in Replicas, LoadFails(s) \/ RegisterFails(s) \/ PutFinalFails(s)
      PROVE  Goal
  BY <1>7 DEF LoadFails, RegisterFails, PutFinalFails, StepOnly, Goto, At
<1>8. ASSUME NEW s \in Replicas,
             TranslatePanics(s) \/ StoreBatchFails(s) \/ RefreshLockFails(s)
      PROVE  Goal
  BY <1>8 DEF TranslatePanics, StoreBatchFails, RefreshLockFails, EndBatch, Goto, At
<1>9. ASSUME NEW s \in Replicas, Close(s) PROVE Goal
  BY <1>9 DEF Close, jobVars
<1>10. RecordExpires \/ Tick \/ UNCHANGED vars => Goal
  BY DEF RecordExpires, Tick, vars, jobVars
<1> QED
  BY <1>1, <1>2, <1>3, <1>4, <1>5, <1>6, <1>7, <1>8, <1>9, <1>10 DEF Next, JobStep, Failure

\* What a job writes is the record it works on; a record is otherwise dropped
\* behind the artifact, or expires.
RecordWritten(s) == /\ pc[s] \in Loaded
                    /\ progress' = mem[s]
                    /\ UNCHANGED <<final, mem>>
                    /\ \A r \in Replicas : pc'[r] \in Loaded => pc[r] \in Loaded

LEMMA RecordWrites ==
  ASSUME TypeOK, JobInv, [Next]_vars, ~RecordExpires
  PROVE  \/ UNCHANGED progress
         \/ \E s \in Replicas : RecordWritten(s)
         \/ \E s \in Replicas : pc[s] = "drop" /\ progress' = NoRecord
<1> DEFINE Goal == \/ UNCHANGED progress
                   \/ \E s \in Replicas : RecordWritten(s)
                   \/ \E s \in Replicas : pc[s] = "drop" /\ progress' = NoRecord
<1>1. ASSUME NEW s \in Replicas, Register(s) \/ KeepPartial(s) \/ StoreBatch(s)
      PROVE  Goal
  <2>1. \A r \in Replicas : pc'[r] \in Loaded => pc[r] \in Loaded
    BY <1>1 DEF Register, KeepPartial, StoreBatch, StepOnly, Goto, At, Loaded, InBatch, TypeOK
  <2> QED
    BY <1>1, <2>1 DEF Register, KeepPartial, StoreBatch, MaybeWritten, StepOnly, At, Loaded,
       InBatch, RecordWritten
<1>2. ASSUME NEW s \in Replicas, RegisterFails(s) \/ StoreBatchFails(s) PROVE Goal
  <2>1. \A r \in Replicas : pc'[r] \in Loaded => pc[r] \in Loaded
    BY <1>2 DEF RegisterFails, StoreBatchFails, StepOnly, EndBatch, Goto, At, Loaded, InBatch,
       TypeOK
  <2> QED
    BY <1>2, <2>1 DEF RegisterFails, StoreBatchFails, MaybeWritten, StepOnly, At, Loaded,
       InBatch, RecordWritten
<1>3. ASSUME NEW s \in Replicas, DropProgress(s) PROVE Goal
  BY <1>3 DEF DropProgress, At
<1>4. ASSUME NEW s \in Replicas, JobStep(s), ~Register(s), ~KeepPartial(s), ~StoreBatch(s),
             ~DropProgress(s)
      PROVE  UNCHANGED progress
  BY <1>4 DEF JobStep, storeVars, TakeSlot, QueueCancelled, CheckFinal, TryLock, Load,
     StartBatch, Finish, Translate, RefreshLock, PutFinal, Unlock
<1>5. ASSUME NEW s \in Replicas, Failure(s), ~RegisterFails(s), ~StoreBatchFails(s)
      PROVE  UNCHANGED progress
  BY <1>5 DEF Failure, storeVars, CheckFinalFails, TryLockFails, LoadFails,
     TranslateFails, TranslatePanics, RefreshLockFails, PutFinalFails, UnlockFails, Crash
<1>6. ASSUME NEW s \in Replicas, Ensure(s) \/ Close(s) PROVE UNCHANGED progress
  BY <1>6 DEF Ensure, Accepts, Close, storeVars
<1>7. Tick \/ UNCHANGED vars => UNCHANGED progress
  BY DEF Tick, vars, storeVars
<1> QED
  BY <1>1, <1>2, <1>3, <1>4, <1>5, <1>6, <1>7 DEF Next

\* A record sized for the document is resumed as it is.
LEMMA LoadResumes ==
  ASSUME JobInv, GrowInv, progress # NoRecord, NEW r \in Replicas, Load(r), TypeOK
  PROVE  mem'[r] = progress
<1>1. doc[r] \in Docs
  BY DEF Load, At, JobInv
<1> QED
  BY <1>1 DEF Load, GrowInv, Resumed, TypeOK

\* The induction step.
LEMMA GrowStep ==
  ASSUME OneDocument
  PROVE  /\ TypeOK /\ JobInv /\ KnownInv /\ GrowInv /\ OneWriter
         /\ [Next]_vars /\ ~RecordExpires
         => GrowInv'
<1> SUFFICES ASSUME TypeOK, JobInv, KnownInv, GrowInv, OneWriter, [Next]_vars, ~RecordExpires,
                    progress' # NoRecord
             PROVE  /\ \A d \in Docs : progress'.total = CueCount[d]
                    /\ final' = NoFinal =>
                         \A r \in Replicas :
                           pc'[r] \in Loaded => progress'.lines \subseteq mem'[r].lines
  BY DEF GrowInv
<1>1. CASE UNCHANGED progress
  <2>1. \A d \in Docs : progress'.total = CueCount[d]
    BY <1>1 DEF GrowInv
  <2>2. ASSUME final' = NoFinal, NEW r \in Replicas, pc'[r] \in Loaded
        PROVE  progress'.lines \subseteq mem'[r].lines
    <3>1. final = NoFinal
      BY <2>2, FinalStays
    <3>2. CASE Load(r)
      BY <1>1, <3>2, LoadResumes
    <3>3. CASE ~Load(r)
      BY <1>1, <2>2, <3>1, <3>3, RecordGrows DEF GrowInv
    <3> QED
      BY <3>2, <3>3
  <2> QED
    BY <2>1, <2>2
<1>2. ASSUME NEW s \in Replicas, RecordWritten(s)
      PROVE  /\ \A d \in Docs : progress'.total = CueCount[d]
             /\ \A r \in Replicas : pc'[r] \in Loaded => progress'.lines \subseteq mem'[r].lines
  <2>1. doc[s] \in Docs /\ mem[s].total = CueCount[doc[s]]
    BY <1>2 DEF RecordWritten, JobInv, Loaded, InBatch
  <2>2. \A r \in Replicas : pc'[r] \in Loaded => r = s
    BY <1>2 DEF RecordWritten, OneWriter
  <2> QED
    BY <1>2, <2>1, <2>2 DEF RecordWritten, OneDocument
<1> QED
  BY <1>1, <1>2, RecordWrites

\* Without an artifact the lines a reader is given are only added to.
LEMMA LinesGrow ==
  ASSUME TypeOK, JobInv, KnownInv, GrowInv, [Next]_vars, ~RecordExpires,
         final = NoFinal, final' = NoFinal
  PROVE  LinesHeld \subseteq LinesHeld'
<1>1. CASE progress = NoRecord
  BY <1>1 DEF LinesHeld
<1> SUFFICES ASSUME progress # NoRecord
             PROVE  progress' # NoRecord /\ progress.lines \subseteq progress'.lines
  BY <1>1 DEF LinesHeld
<1>2. CASE UNCHANGED progress
  BY <1>2
<1>3. ASSUME NEW s \in Replicas, RecordWritten(s)
      PROVE  progress' # NoRecord /\ progress.lines \subseteq progress'.lines
  <2>1. mem[s] \in Record
    BY <1>3 DEF RecordWritten, JobInv
  <2> QED
    BY <1>3, <2>1, FileJobAssumption DEF RecordWritten, GrowInv, Record
<1>4. ~\E s \in Replicas : pc[s] = "drop"
  BY DEF KnownInv
<1> QED
  BY <1>2, <1>3, <1>4, RecordWrites

\* An artifact gives the reader a line for every cue with text.
LEMMA ArtifactHoldsTrack ==
  ASSUME OneDocument, TypeOK, FinalComplete, final # NoFinal
  PROVE  TextHeld = [c \in Track |-> 1]
<1>1. final.doc \in Docs
  BY DEF TypeOK, Final
<1>2. Track \subseteq Text[final.doc]
  BY <1>1 DEF Track, OneDocument
<1> QED
  BY <1>2 DEF FinalComplete, TextHeld, LinesHeld

\* Every step of the jobs is a step of the promise, or none.
LEMMA TrackStep ==
  ASSUME OneDocument
  PROVE  /\ IInv /\ IInv' /\ KnownInv /\ GrowInv
         /\ [Next]_vars /\ ~RecordExpires
         => [Promise!ArtifactNext]_Promise!artifactVars
<1> SUFFICES ASSUME IInv, IInv', KnownInv, GrowInv, [Next]_vars, ~RecordExpires
             PROVE  Promise!ArtifactNext \/ UNCHANGED <<TextHeld, final # NoFinal>>
  BY DEF Promise!artifactVars
<1>1. TypeOK /\ JobInv /\ FinalComplete /\ TypeOK' /\ FinalComplete'
  BY DEF IInv
<1>2. TextHeld' \in [Track -> {1} \cup {0}]
  BY DEF TextHeld
<1>3. CASE final # NoFinal
  <2>1. final' # NoFinal
    BY <1>1, <1>3, FinalStays
  <2>2. TextHeld' = [c \in Track |-> 1]
    <3>1. final'.doc \in Docs /\ Text[final'.doc] \subseteq final'.lines
      BY <1>1, <2>1 DEF TypeOK, Final, FinalComplete
    <3>2. Track \subseteq Text[final'.doc]
      BY <3>1 DEF Track, OneDocument
    <3> QED
      BY <2>1, <3>1, <3>2 DEF TextHeld, LinesHeld
  <2>3. TextHeld = [c \in Track |-> 1]
    BY <1>1, <1>3, ArtifactHoldsTrack
  <2> QED
    BY <1>3, <2>1, <2>2, <2>3
<1>4. CASE final = NoFinal /\ final' # NoFinal
  <2>1. final'.doc \in Docs /\ Text[final'.doc] \subseteq final'.lines
    BY <1>1, <1>4 DEF TypeOK, Final, FinalComplete
  <2>2. Track \subseteq Text[final'.doc]
    BY <2>1 DEF Track, OneDocument
  <2>3. TextHeld' = [c \in Track |-> 1]
    BY <1>4, <2>1, <2>2 DEF TextHeld, LinesHeld
  <2>4. \A c \in Track : TextHeld[c] # 0 => TextHeld'[c] = TextHeld[c]
    BY <2>3 DEF TextHeld
  <2> QED
    BY <1>4, <2>3, <2>4 DEF Promise!ArtifactNext, Promise!Completed, Promise!KeepsText
<1>5. CASE final = NoFinal /\ final' = NoFinal
  <2>1. LinesHeld \subseteq LinesHeld'
    BY <1>1, <1>5, LinesGrow
  <2>2. \A c \in Track : TextHeld[c] # 0 => TextHeld'[c] = TextHeld[c]
    BY <2>1 DEF TextHeld
  <2> QED
    BY <1>2, <1>5, <2>2 DEF Promise!ArtifactNext, Promise!Translated, Promise!KeepsText
<1> QED
  BY <1>3, <1>4, <1>5

\* The jobs of a file keep the promise made to its users: whatever fails or
\* crashes and however many replicas take turns, a line that was given to a
\* poller stays, and the artifact that ends the story has them all.  It takes
\* one document and one writer at a time, and nothing more of the lock.
THEOREM TrackImplemented ==
  ASSUME OneDocument
  PROVE  Spec /\ []OneWriter /\ [][~RecordExpires]_vars => Promise!ArtifactSpec
<1>1. Init => KnownInv /\ GrowInv
  BY DEF Init, KnownInv, Announced, InBatch, GrowInv
<1>2. Init => Promise!ArtifactInit
  BY DEF Init, Promise!ArtifactInit, TextHeld, LinesHeld
<1>3. IInv => TypeOK /\ JobInv
  BY DEF IInv
<1>4. TypeOK /\ JobInv /\ KnownInv /\ GrowInv /\ UNCHANGED vars => GrowInv'
  BY DEF vars, storeVars, jobVars, GrowInv
<1>5. IInv /\ IInv' /\ UNCHANGED vars => [Promise!ArtifactNext]_Promise!artifactVars
  BY DEF vars, storeVars, Promise!artifactVars, TextHeld, LinesHeld
<1> QED
  BY <1>1, <1>2, <1>3, <1>4, <1>5, KnownStep, GrowStep, TrackStep, FinalInductive, PTL
     DEF Spec, Promise!ArtifactSpec

=============================================================================
