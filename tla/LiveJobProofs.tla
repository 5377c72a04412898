---------------------------- MODULE LiveJobProofs ----------------------------
(***************************************************************************)
(* Theorems about LiveJob, for every film, set of offsets, batch size,     *)
(* strike limit and number of seeks and faults: the job and the store keep *)
(* their types, an artifact carries the whole film, they implement what    *)
(* Artifact promises to the readers of the key, a status says what the     *)
(* record is, no wake-up is lost, a batch the viewer left is dropped,      *)
(* without seeks every cue gets the translation of its own text, and a     *)
(* source that the job alone reads is marked over only when no work is     *)
(* left.                                                                   *)
(***************************************************************************)
EXTENDS LiveJob, LiveSourceProofs, FiniteSetTheorems

USE DEF Film, Segments

-----------------------------------------------------------------------------
(* Ordering cues in movie time.                                             *)

\* In a finite set of numbers every place is taken: the number of smaller
\* elements is one-to-one from the set to as many places as it has elements.
LEMMA EveryPlaceTaken ==
  ASSUME NEW S \in SUBSET Int, IsFiniteSet(S), NEW n \in 0..(Cardinality(S) - 1)
  PROVE  \E c \in S : Cardinality({d \in S : d < c}) = n
<1> DEFINE Below(c) == {d \in S : d < c}
           Places == 0..(Cardinality(S) - 1)
           place == [c \in S |-> Cardinality(Below(c))]
<1>1. Cardinality(S) \in Nat
  BY FS_CardinalityType
<1>2. ASSUME NEW c \in S
      PROVE  /\ IsFiniteSet(Below(c)) /\ Cardinality(Below(c)) \in Nat
             /\ Cardinality(Below(c)) < Cardinality(S)
  <2>1. Below(c) \in SUBSET S /\ c \notin Below(c)
    OBVIOUS
  <2>2. IsFiniteSet(Below(c)) /\ Cardinality(Below(c)) <= Cardinality(S)
        /\ Cardinality(Below(c)) # Cardinality(S)
    BY <2>1, FS_Subset
  <2>3. Cardinality(Below(c)) \in Nat
    BY <2>2, FS_CardinalityType
  <2>4. QED
    BY <1>1, <2>2, <2>3
<1>3. ASSUME NEW c \in S, NEW d \in S, c < d
      PROVE  Cardinality(Below(c)) < Cardinality(Below(d))
  <2>1. Below(c) \in SUBSET Below(d) /\ Below(c) # Below(d)
    <3>1. c \in Below(d) /\ c \notin Below(c)
      BY <1>3
    <3>2. \A e \in Below(c) : e \in Below(d)
      BY <1>3
    <3>3. QED
      BY <3>1, <3>2
  <2>2. Cardinality(Below(c)) <= Cardinality(Below(d))
        /\ Cardinality(Below(c)) # Cardinality(Below(d))
    BY <1>2, <2>1, FS_Subset
  <2>3. QED
    BY <1>2, <2>2
<1>4. place \in [S -> Places]
  <2>1. \A c \in S : Cardinality(Below(c)) \in Places
    BY <1>1, <1>2
  <2>2. QED
    BY <2>1
<1>5. place \in Injection(S, Places)
  <2>1. ASSUME NEW c \in S, NEW d \in S, place[c] = place[d]
        PROVE  c = d
    <3>1. Cardinality(Below(c)) = Cardinality(Below(d))
      BY <2>1
    <3>2. ~(c < d) /\ ~(d < c)
      BY <1>2, <1>3, <3>1
    <3>3. QED
      BY <3>2
  <2>2. QED
    BY <1>4, <2>1 DEF Injection, IsInjective
<1>6. IsFiniteSet(Places) /\ Cardinality(Places) = Cardinality(S)
  BY <1>1, FS_Interval
<1>7. place \in Surjection(S, Places)
  BY <1>5, <1>6, FS_Injection
<1>8. PICK c \in S : place[c] = n
  BY <1>7 DEF Surjection
<1>9. QED
  BY <1>8

\* A sequence that names no cue twice.
NoTwice(s) == \A i, j \in DOMAIN s : s[i] = s[j] => i = j

\* The records that are lined up with a document.
Lined == {rec \in Record : NoTwice(rec.cues)}

\* A sequence of different cues is no longer than the film, and has as many
\* cues as places.
LEMMA CuesOfSequence ==
  ASSUME NEW s \in Seq(Film), NoTwice(s)
  PROVE  LET cues == {s[j] : j \in DOMAIN s}
         IN  /\ cues \in SUBSET Film /\ IsFiniteSet(cues)
             /\ Cardinality(cues) = Len(s) /\ Len(s) \in 0..Cues
             /\ DOMAIN s = 1..Len(s)
<1> DEFINE cues == {s[j] : j \in DOMAIN s}
<1> USE LiveSourceAssumption DEF LiveSourceAssumption
<1>1. Len(s) \in Nat /\ DOMAIN s = 1..Len(s)
  OBVIOUS
<1>2. \A i \in 1..Len(s) : s[i] \in Film
  <2>1. ASSUME NEW i \in 1..Len(s) PROVE s[i] \in Film
    BY ONLY s \in Seq(Film), <2>1, ElementOfSeq, Zenon
  <2>2. QED
    BY <2>1
<1>3. cues \in SUBSET Film
  BY <1>1, <1>2
<1>4. IsFiniteSet(1..Cues) /\ Cardinality(1..Cues) = Cues
  BY FS_Interval
<1>5. IsFiniteSet(cues) /\ Cardinality(cues) <= Cues
  BY <1>3, <1>4, FS_Subset
<1>6. IsFiniteSet(DOMAIN s) /\ Cardinality(DOMAIN s) = Len(s)
  <2>1. \A n \in Nat : IsFiniteSet(1..n) /\ Cardinality(1..n) = n
    BY ONLY FS_Interval
  <2>2. QED
    BY <1>1, <2>1
<1>7. ExistsBijection(DOMAIN s, cues)
  <2> DEFINE at == [j \in DOMAIN s |-> s[j]]
  <2>1. at \in [DOMAIN s -> cues]
    OBVIOUS
  <2>2. \A i, j \in DOMAIN s : at[i] = at[j] => i = j
    BY DEF NoTwice
  <2>3. \A c \in cues : \E j \in DOMAIN s : at[j] = c
    OBVIOUS
  <2>4. at \in Bijection(DOMAIN s, cues)
    BY <2>1, <2>2, <2>3 DEF Bijection, Injection, IsInjective, Surjection
  <2>5. QED
    BY <2>4 DEF ExistsBijection
<1>8. Cardinality(cues) = Len(s)
  BY <1>6, <1>7, FS_Bijection
<1>9. Len(s) \in 0..Cues
  <2>1. Len(s) <= Cues
    BY <1>5, <1>8, Zenon
  <2>2. QED
    BY <1>1, <2>1
<1>10. QED
  BY <1>1, <1>3, <1>5, <1>8, <1>9, Zenon

\* Each place of the snapshot holds a cue of the film.
LEMMA TextIsACue ==
  ASSUME mem \in Lined, NEW i \in DOMAIN mem.cues
  PROVE  TextAt(i) \in Film
<1> DEFINE cues == {mem.cues[j] : j \in DOMAIN mem.cues}
<1> USE LiveSourceAssumption DEF LiveSourceAssumption
<1>1. mem.cues \in Seq(Film) /\ NoTwice(mem.cues)
  BY DEF Lined, Record
<1>2. /\ cues \in SUBSET Film /\ IsFiniteSet(cues)
      /\ Cardinality(cues) = Len(mem.cues) /\ Len(mem.cues) \in Nat
      /\ DOMAIN mem.cues = 1..Len(mem.cues)
  <2>1. Len(mem.cues) \in Nat /\ DOMAIN mem.cues = 1..Len(mem.cues)
    BY <1>1
  <2> QED
    BY <1>1, <2>1, CuesOfSequence, Zenon
<1>3. cues \in SUBSET Int /\ i - 1 \in 0..(Cardinality(cues) - 1)
  BY <1>2
<1>4. \E c \in cues : Cardinality({d \in cues : d < c}) = i - 1
  BY <1>2, <1>3, EveryPlaceTaken
<1>5. TextAt(i) \in cues
  BY <1>4 DEF TextAt
<1>6. QED
  BY <1>2, <1>5

\* The first k of a set of indexes are some of them, and there is a first one.
LEMMA EarliestTakes ==
  ASSUME mem \in Lined, NEW S \in SUBSET DOMAIN mem.cues, NEW k \in Int
  PROVE  /\ Earliest(S, k) \in SUBSET S
         /\ k > 0 /\ S # {} => Earliest(S, k) # {}
<1> USE LiveSourceAssumption DEF LiveSourceAssumption
<1>1. Earliest(S, k) \in SUBSET S
  BY DEF Earliest
<1>2. ASSUME k > 0, S # {} PROVE Earliest(S, k) # {}
  <2> DEFINE cues == {mem.cues[j] : j \in S}
             all == {mem.cues[j] : j \in DOMAIN mem.cues}
  <2>1. mem.cues \in Seq(Film) /\ NoTwice(mem.cues)
    BY DEF Lined, Record
  <2>2. all \in SUBSET Film /\ IsFiniteSet(all)
    BY <2>1, CuesOfSequence
  <2>3. cues \in SUBSET Int /\ IsFiniteSet(cues) /\ cues # {}
    BY <1>2, <2>2, FS_Subset
  <2>4. Cardinality(cues) \in Nat /\ Cardinality(cues) # 0
    BY <2>3, FS_CardinalityType, FS_EmptySet
  <2>5. 0 \in 0..(Cardinality(cues) - 1)
    BY <2>4
  <2>6. PICK c \in cues : Cardinality({d \in cues : d < c}) = 0
    BY <2>3, <2>5, EveryPlaceTaken
  <2>7. {d \in cues : d < c} = {}
    <3>1. IsFiniteSet({d \in cues : d < c})
      BY <2>3, FS_Subset
    <3>2. QED
      BY <2>6, <3>1, FS_EmptySet
  <2>8. PICK i \in S : mem.cues[i] = c
    OBVIOUS
  <2>9. {j \in S : mem.cues[j] < mem.cues[i]} = {}
    BY <2>7, <2>8
  <2>10. Cardinality({j \in S : mem.cues[j] < mem.cues[i]}) = 0
    BY <2>9, FS_EmptySet
  <2>11. i \in Earliest(S, k)
    BY <1>2, <2>10 DEF Earliest
  <2>12. QED
    BY <2>11
<1>3. QED
  BY <1>1, <1>2

\* A tick chooses pending cues, and none only when there is none.
LEMMA ChosenIsPending ==
  ASSUME mem \in Lined, NEW pos
  PROVE  /\ Chosen(pos) \in SUBSET PendingIn(mem)
         /\ Chosen(pos) = {} => PendingIn(mem) = {}
<1> DEFINE ahead == {i \in PendingIn(mem) : mem.cues[i] >= pos - LeadIn}
           pool == IF ahead # {} THEN ahead ELSE PendingIn(mem)
<1>1. pool \in SUBSET PendingIn(mem) /\ (pool = {} => PendingIn(mem) = {})
  OBVIOUS
<1>2. PendingIn(mem) \in SUBSET DOMAIN mem.cues
  BY DEF PendingIn
<1>3. BatchSize \in Int /\ BatchSize > 0
  BY LiveJobAssumption
<1>4. Chosen(pos) = Earliest(pool, BatchSize)
  BY DEF Chosen
<1>5. /\ Earliest(pool, BatchSize) \in SUBSET pool
      /\ pool # {} => Earliest(pool, BatchSize) # {}
  BY <1>1, <1>2, <1>3, EarliestTakes
<1>6. QED
  BY <1>1, <1>4, <1>5

\* Filing some pending texts changes nothing but their lines.
LEMMA FilledKeeps ==
  ASSUME mem \in Lined, NEW S \in SUBSET PendingIn(mem)
  PROVE  /\ Filled(S) \in Lined
         /\ Filled(S).cues = mem.cues /\ Filled(S).live = mem.live
         /\ Filled(S).status = mem.status
         /\ \A c \in Film : mem.tr[c] # 0 => Filled(S).tr[c] = mem.tr[c]
<1> DEFINE lines == [c \in Film |->
                       IF \E i \in S : mem.cues[i] = c
                         THEN TextAt(CHOOSE i \in S : mem.cues[i] = c) ELSE mem.tr[c]]
<1> USE LiveSourceAssumption DEF LiveSourceAssumption
<1>1. mem \in Record
  BY DEF Lined
<1>2. Filled(S) = [mem EXCEPT !.tr = lines]
  BY DEF Filled
<1>3. S \in SUBSET DOMAIN mem.cues
  BY DEF PendingIn
<1>4. \A c \in Film : lines[c] \in 0..Cues
  <2>1. ASSUME NEW c \in Film, \E i \in S : mem.cues[i] = c
        PROVE  lines[c] \in 0..Cues
    <3>1. (CHOOSE i \in S : mem.cues[i] = c) \in DOMAIN mem.cues
      BY <1>3, <2>1
    <3>2. QED
      BY <2>1, <3>1, TextIsACue
  <2>2. ASSUME NEW c \in Film, ~ \E i \in S : mem.cues[i] = c
        PROVE  lines[c] \in 0..Cues
    BY <1>1, <2>2 DEF Record
  <2>3. QED
    BY <2>1, <2>2
<1>5. lines \in [Film -> 0..Cues]
  BY <1>4
<1>6. Filled(S) \in Record /\ Filled(S).tr = lines
      /\ Filled(S).cues = mem.cues /\ Filled(S).live = mem.live
      /\ Filled(S).status = mem.status
  BY <1>1, <1>2, <1>5 DEF Record
<1>7. \A c \in Film : mem.tr[c] # 0 => lines[c] = mem.tr[c]
  BY DEF PendingIn
<1>8. QED
  BY <1>6, <1>7 DEF Lined

\* What is rendered is an artifact.
LEMMA RenderedIsArtifact ==
  ASSUME mem \in Lined
  PROVE  Rendered \in Artifacts
<1> DEFINE cues == {mem.cues[i] : i \in DOMAIN mem.cues}
<1>1. mem \in Record /\ mem.cues \in Seq(Film) /\ NoTwice(mem.cues)
  BY DEF Lined, Record
<1>2. cues \in SUBSET Film
  BY <1>1, CuesOfSequence
<1>3. Rendered \in [cues -> 0..Cues]
  BY <1>1, <1>2 DEF Rendered, Record
<1>4. QED
  BY <1>2, <1>3 DEF Artifacts

-----------------------------------------------------------------------------
(* The source under the job: a step of LiveJob reads it, or touches what no *)
(* read depends on, or replaces it.                                         *)

Touches == /\ UNCHANGED <<worldVars, reading, segVars, ended, contiguous, gone, retired, runVars>>
           /\ faults' \in 0..MaxFaults
           /\ runEnded' \in BOOLEAN /\ runStarted' \in BOOLEAN
           /\ ref' \in {ref, NoRef}

Replaces == NewSource /\ faults' \in 0..MaxFaults

\* Seen from the source, a step of the composition is one of its own, takes a wake-up,
\* or puts a new session in its place.
LEMMA SourceSide ==
  ASSUME SourceTypeOK, watch.taken \in BOOLEAN, [Next]_vars
  PROVE  [SourceNext]_sourceVars \/ Touches \/ Replaces
<1> USE LiveJobAssumption, LiveSourceAssumption
    DEF LiveSourceAssumption, Quiet, Calls, Unpolled, Fault, PutBack, BatchFault, BatchFailed
<1>1. faults \in 0..MaxFaults /\ (faults > 0 => faults - 1 \in 0..MaxFaults)
      /\ runStarted \in BOOLEAN /\ fresh \in BOOLEAN /\ runEnded \in BOOLEAN
  BY DEF SourceTypeOK
<1>2. CASE Ensure \/ StartBatch \/ UNCHANGED vars
  BY <1>2 DEF Ensure, StartBatch, vars
<1>3. CASE CheckFinal \/ TryLock \/ Load \/ LookOk \/ LookStopped \/ Sync \/ Select \/ NoBatch
           \/ Translate \/ StoreBatch \/ Publish \/ GoOn \/ PutFinal \/ KeepAlive
  BY <1>3 DEF CheckFinal, TryLock, Load, LookOk, LookStopped, Sync, Select, NoBatch, Translate,
              StoreBatch, Publish, GoOn, PutFinal, KeepAlive
<1>4. CASE Wake \/ LookTransient \/ RefreshLock \/ Retarget
  BY <1>1, <1>4 DEF Wake, LookTransient, RefreshLock, Retarget, Touches, flagVars
<1>5. CASE KeepPartial \/ DropProgress \/ PutStopped
  BY <1>1, <1>5 DEF KeepPartial, DropProgress, PutStopped, Touches, flagVars
<1>6. CASE Finish
  BY <1>1, <1>6 DEF Finish, Touches
<1>7. CASE Failure
  BY <1>1, <1>7 DEF Failure, StartFails, TranslateFails, StoreBatchFails, RefreshLockFails,
                    PublishFails, RenderFails, PutFinalFails, LeaseLost, ViewerGone, Touches, flagVars
<1>8. CASE Poll \/ HandlerReads
  BY <1>8, "job" \in Readers, "handler" \in Readers DEF Poll, HandlerReads, SourceNext, Read, LiveJobAssumption
<1>9. CASE ReadGoesOn \/ Outside
  BY <1>9 DEF ReadGoesOn, Outside, SourceNext, Read
<1>10. CASE NewSession
  BY <1>1, <1>10 DEF NewSession, Replaces
<1>11. QED
  BY <1>2, <1>3, <1>4, <1>5, <1>6, <1>7, <1>8, <1>9, <1>10 DEF Next, JobStep

\* The types of the source.
LEMMA SourceTypesKept ==
  ASSUME SourceTypeOK, [SourceNext]_sourceVars \/ Touches \/ Replaces
  PROVE  SourceTypeOK'
<1>1. CASE [SourceNext]_sourceVars
  BY <1>1, SourceTypeStep
<1>2. CASE Touches
  BY <1>2 DEF Touches, SourceTypeOK, worldVars, segVars, runVars
<1>3. CASE Replaces
  <2> USE LiveSourceAssumption DEF LiveSourceAssumption
  <2>1. PICK o \in Offsets : run' = StartAt(o)
    BY <1>3 DEF Replaces, NewSource
  <2>2. run' \in [off : Offsets, out : 0..Cues, fin : BOOLEAN]
    BY <2>1 DEF StartAt
  <2>3. fails' \in [Segments -> 0..(MaxStrikes - 1)] /\ doc' \in Seq(Film) /\ seeks' \in 0..MaxSeeks
    BY <1>3 DEF Replaces, NewSource, SourceTypeOK
  <2>4. QED
    BY <1>3, <2>2, <2>3 DEF Replaces, NewSource, SourceTypeOK
<1>4. QED
  BY <1>1, <1>2, <1>3

\* What makes a contiguous and ended source whole.
LEMMA SourceStaysWhole ==
  ASSUME SourceTypeOK, WholeInv, [SourceNext]_sourceVars \/ Touches \/ Replaces
  PROVE  WholeInv'
<1>1. CASE [SourceNext]_sourceVars
  BY <1>1, ListStep, SeenStep, StartStep DEF WholeInv
<1>2. CASE Touches
  BY <1>2 DEF Touches, WholeInv, SeenIsRead, ListIsWhole, StartWasRead, InDoc, worldVars, segVars
<1>3. CASE Replaces
  BY <1>3 DEF Replaces, NewSource, StartAt, WholeInv, SeenIsRead, ListIsWhole, StartWasRead
<1>4. QED
  BY <1>1, <1>2, <1>3

\* The document names no cue twice.
LEMMA DocumentStaysLined ==
  ASSUME SourceTypeOK, NoTwice(doc), [SourceNext]_sourceVars \/ Touches \/ Replaces
  PROVE  NoTwice(doc')
<1>1. CASE UNCHANGED doc
  BY <1>1
<1>2. ASSUME NEW c \in Film, FetchSegment(c)
      PROVE  NoTwice(doc')
  <2>1. CASE c \in InDoc
    BY <1>1, <1>2, <2>1 DEF FetchSegment, Appended
  <2>2. CASE c \notin InDoc
    <3>1. doc \in Seq(Film) /\ doc' = Append(doc, c)
      BY <1>2, <2>2 DEF FetchSegment, Appended, SourceTypeOK
    <3>2. /\ DOMAIN doc = 1..Len(doc) /\ Len(doc) \in Nat
          /\ DOMAIN doc' = 1..(Len(doc) + 1)
          /\ \A i \in 1..Len(doc) : doc'[i] = doc[i]
          /\ doc'[Len(doc) + 1] = c
      BY <3>1
    <3>3. \A i \in 1..Len(doc) : doc[i] # c
      BY <2>2, <3>2 DEF InDoc
    <3>4. QED
      BY <3>2, <3>3 DEF NoTwice
  <2>3. QED
    BY <2>1, <2>2
<1>3. CASE Replaces
  BY <1>3 DEF Replaces, NewSource, NoTwice
<1>4. CASE Touches
  BY <1>1, <1>4 DEF Touches, segVars
<1>5. CASE [SourceNext]_sourceVars
  BY <1>1, <1>2, <1>5 DEF SourceNext, World, Ages, Retire, Read, BeginRead, ReadRetired, ReadGone,
       ReadFails, Segment, SegmentFails, SkipSegment, EndRead, sourceVars, segVars
<1>6. QED
  BY <1>3, <1>4, <1>5

-----------------------------------------------------------------------------
(* What the job and the store keep: in the job's hands is a record that     *)
(* agrees with the stored one on every line this has, the batch is pending  *)
(* in it, and its status fits where the job is.                             *)

Loaded == Steps \ {"idle", "check", "lock", "load"}

Records == /\ record \in Lined \cup {NoRecord}
           /\ pc \in Loaded => mem \in Lined

BatchFits == /\ pc \in {"choose", "translate"} => batch \in SUBSET PendingIn(mem)
             /\ pc \in {"translate", "store", "refresh"} => batch # {}
             /\ pc \in {"choose", "publish", "settle"} /\ batch = {} => PendingIn(mem) = {}
             /\ pc = "final" => PendingIn(mem) = {}

StatusFits ==
  /\ StatusTellsEnd
  /\ pc \in Loaded \ {"stop"} => mem.live /\ mem.status = ""
  /\ pc = "stop" => /\ ~mem.live /\ mem.status # ""
                    /\ mem.status = "done" => PendingIn(mem) = {}

LinesAgree ==
  /\ pc \in Loaded /\ record # NoRecord =>
       \A c \in Film : record.tr[c] # 0 => mem.tr[c] = record.tr[c]
  /\ pc = "drop" => final # NoFinal

JobInv == TypeOK /\ Records /\ BatchFits /\ StatusFits /\ LinesAgree

\* The record changes nothing but its status, or the document it counts.
LEMMA StatusKeepsLines ==
  ASSUME NEW rec \in Lined, NEW l \in BOOLEAN, NEW st \in {"", "done", "stopped"}
  PROVE  LET new == [rec EXCEPT !.live = l, !.status = st]
         IN  /\ new \in Lined /\ new.cues = rec.cues /\ new.tr = rec.tr
             /\ new.live = l /\ new.status = st
             /\ PendingIn(new) = PendingIn(rec)
<1> DEFINE new == [rec EXCEPT !.live = l, !.status = st]
<1>1. new \in Record /\ new.cues = rec.cues /\ new.tr = rec.tr /\ new.live = l /\ new.status = st
  BY DEF Lined, Record
<1>2. QED
  BY <1>1 DEF Lined, PendingIn

\* Sync changes the cues of a record, and the line of no cue.
LEMMA SyncKeepsLines ==
  ASSUME NEW rec \in Lined, NEW s \in Seq(Film), NoTwice(s)
  PROVE  LET new == [rec EXCEPT !.cues = s]
         IN  /\ new \in Lined /\ new.cues = s /\ new.tr = rec.tr
             /\ new.live = rec.live /\ new.status = rec.status
  BY DEF Lined, Record

\* The record of a job that found none is lined up.
LEMMA FreshIsLined ==
  /\ FreshRecord \in Lined /\ FreshRecord.live /\ FreshRecord.status = ""
<1>1. NoLines \in [Film -> 0..Cues]
  BY LiveSourceAssumption DEF NoLines, LiveSourceAssumption
<1>2. <<>> \in Seq(Film) /\ NoTwice(<<>>)
  BY DEF NoTwice
<1>3. QED
  BY <1>1, <1>2 DEF FreshRecord, Lined, Record

\* At the start there is no job and no record.
LEMMA JobInit == Init => JobInv
  BY LiveSourceAssumption
     DEF Init, JobInv, TypeOK, Records, BatchFits, StatusFits, StatusTellsEnd, LinesAgree,
         Loaded, Steps, NoWatch, LiveSourceAssumption

(* The steps by what they do to the records. *)

Waits == \/ Ensure \/ CheckFinal \/ TryLock \/ StartFails \/ RefreshLockFails \/ LeaseLost \/ NewSession

Moves == \/ Wake \/ Poll \/ LookOk \/ LookTransient \/ StartBatch \/ NoBatch \/ Retarget \/ RefreshLock
         \/ GoOn \/ KeepAlive \/ HandlerReads \/ ReadGoesOn \/ Outside

Writes == \/ KeepPartial \/ StoreBatch \/ StoreBatchFails \/ Publish \/ PublishFails \/ PutStopped
          \/ ViewerGone \/ DropProgress

Works == \/ Load \/ LookStopped \/ Sync \/ Select \/ Translate \/ TranslateFails \/ Finish \/ RenderFails

\* Every step of the composition belongs to one of these groups.
LEMMA JobSteps ==
  [Next]_vars => \/ Waits \/ Moves \/ Writes \/ Works \/ PutFinal \/ PutFinalFails \/ UNCHANGED vars
  BY DEF Next, JobStep, Failure, Waits, Moves, Writes, Works

\* A step of work leaves a record in hand that is lined up, and keeps its lines.
LEMMA WorkKeepsLines ==
  ASSUME SourceTypeOK, NoTwice(doc), JobInv, Works
  PROVE  /\ pc' \in Loaded \ {"drop"} /\ mem' \in Lined
         /\ pc # "load" => pc \in Loaded /\ \A c \in Film : mem.tr[c] # 0 => mem'.tr[c] = mem.tr[c]
         /\ pc = "load" /\ record # NoRecord => mem'.tr = record.tr
         /\ pc' # "stop" => mem'.live /\ mem'.status = ""
         /\ pc' = "stop" => /\ ~mem'.live /\ mem'.status # ""
                            /\ mem'.status = "done" => PendingIn(mem') = {}
         /\ UNCHANGED storeVars
<1> USE DEF JobInv, Records, StatusFits, Loaded, Steps, At, Goto, Quiet, Calls, storeVars
<1>1. CASE Load
  <2>1. CASE record = NoRecord
    BY <1>1, <2>1, FreshIsLined DEF Load
  <2>2. CASE record # NoRecord
    <3>1. record \in Lined /\ mem' = [record EXCEPT !.live = TRUE, !.status = ""]
      BY <1>1, <2>2 DEF Load, Rearmed
    <3>2. mem' \in Lined /\ mem'.live /\ mem'.status = "" /\ mem'.tr = record.tr
      BY <3>1, StatusKeepsLines
    <3>3. QED
      BY <1>1, <2>2, <3>2 DEF Load
  <2>3. QED
    BY <2>1, <2>2
<1>2. CASE LookStopped
  <2>1. mem \in Lined /\ mem' = [mem EXCEPT !.live = FALSE, !.status = "stopped"]
    BY <1>2 DEF LookStopped, ReadEnded, Stopped
  <2>2. mem' \in Lined /\ ~mem'.live /\ mem'.status = "stopped" /\ mem'.tr = mem.tr
    BY <2>1, StatusKeepsLines
  <2>3. QED
    BY <1>2, <2>2 DEF LookStopped, ReadEnded
<1>3. CASE Sync
  <2>1. mem \in Lined /\ mem' = [mem EXCEPT !.cues = doc] /\ doc \in Seq(Film)
    BY <1>3 DEF Sync, SourceTypeOK
  <2>2. mem' \in Lined /\ mem'.tr = mem.tr /\ mem'.live = mem.live /\ mem'.status = mem.status
    BY <2>1, SyncKeepsLines
  <2>3. QED
    BY <1>3, <2>2 DEF Sync
<1>4. CASE Select
  BY <1>4 DEF Select
<1>5. ASSUME NEW S \in SUBSET PendingIn(mem), mem \in Lined, mem' = Filled(S),
             pc = "translate", pc' \in {"store", "keep"}, UNCHANGED storeVars
      PROVE  /\ mem' \in Lined /\ mem'.live /\ mem'.status = ""
             /\ \A c \in Film : mem.tr[c] # 0 => mem'.tr[c] = mem.tr[c]
  <2>1. /\ Filled(S) \in Lined /\ Filled(S).live = mem.live /\ Filled(S).status = mem.status
        /\ \A c \in Film : mem.tr[c] # 0 => Filled(S).tr[c] = mem.tr[c]
    BY <1>5, FilledKeeps
  <2>2. QED
    BY <1>5, <2>1
<1>6. CASE Translate
  <2>1. mem \in Lined /\ batch \in SUBSET PendingIn(mem) /\ mem' = Filled(batch)
    BY <1>6 DEF Translate, BatchFits
  <2>2. QED
    BY <1>5, <1>6, <2>1 DEF Translate
<1>7. CASE TranslateFails
  <2>1. PICK k \in 0..(Cardinality(batch) - 1) : mem' = Filled(Earliest(batch, k))
    BY <1>7 DEF TranslateFails
  <2>2. mem \in Lined /\ batch \in SUBSET PendingIn(mem)
    BY <1>7 DEF TranslateFails, BatchFits
  <2>3. Earliest(batch, k) \in SUBSET PendingIn(mem)
    BY <2>2 DEF Earliest
  <2>4. QED
    BY <1>5, <1>7, <2>1, <2>2, <2>3 DEF TranslateFails
<1>8. CASE Finish
  <2>1. CASE contiguous
    BY <1>8, <2>1 DEF Finish
  <2>2. CASE ~contiguous
    <3>1. mem \in Lined /\ mem' = [mem EXCEPT !.live = FALSE, !.status = "done"]
          /\ PendingIn(mem) = {}
      BY <1>8, <2>2 DEF Finish, Finished, Stopped, BatchFits
    <3>2. mem' \in Lined /\ ~mem'.live /\ mem'.status = "done" /\ mem'.tr = mem.tr
          /\ PendingIn(mem') = {}
      BY <3>1, StatusKeepsLines
    <3>3. QED
      BY <1>8, <2>2, <3>2 DEF Finish
  <2>3. QED
    BY <2>1, <2>2
<1>9. CASE RenderFails
  <2>1. mem \in Lined /\ mem' = [mem EXCEPT !.live = FALSE, !.status = "done"]
        /\ PendingIn(mem) = {}
    BY <1>9 DEF RenderFails, Stopped, BatchFits
  <2>2. mem' \in Lined /\ ~mem'.live /\ mem'.status = "done" /\ mem'.tr = mem.tr
        /\ PendingIn(mem') = {}
    BY <2>1, StatusKeepsLines
  <2>3. QED
    BY <1>9, <2>2 DEF RenderFails
<1>10. QED
  BY <1>1, <1>2, <1>3, <1>4, <1>6, <1>7, <1>8, <1>9 DEF Works

\* The job stays at work with the record it has, or it is at none.
GoesOn == \/ pc' = pc /\ mem' = mem
          \/ /\ pc \in Loaded \ {"stop", "drop"} /\ pc' \in Loaded \ {"stop", "drop"}
             /\ mem' = mem

\* Most steps leave the records alone and go on, or are made without one.
LEMMA MovesKeepRecords ==
  ASSUME Waits \/ Moves
  PROVE  UNCHANGED storeVars /\ (pc' \notin Loaded \/ GoesOn)
<1> USE DEF Loaded, Steps, GoesOn, At, Goto, Quiet, storeVars, jobVars
<1>1. CASE Ensure \/ CheckFinal \/ TryLock \/ StartFails \/ LeaseLost \/ NewSession
  BY <1>1 DEF Ensure, CheckFinal, TryLock, StartFails, LeaseLost, NewSession, Leave
<1>2. CASE RefreshLockFails
  BY <1>2 DEF RefreshLockFails, BatchFailed, Leave
<1>3. CASE Wake \/ LookOk \/ LookTransient \/ StartBatch \/ NoBatch \/ RefreshLock \/ GoOn \/ KeepAlive
  BY <1>3 DEF Wake, LookOk, LookTransient, ReadEnded, StartBatch, NoBatch, RefreshLock, GoOn, KeepAlive
<1>4. CASE Poll \/ HandlerReads \/ ReadGoesOn \/ Outside \/ Retarget
  BY <1>4 DEF Poll, HandlerReads, ReadGoesOn, Outside, Retarget
<1>5. QED
  BY <1>1, <1>2, <1>3, <1>4 DEF Waits, Moves

\* A write may be applied or not, and drops a record only behind an artifact.
LEMMA WritesAreApplied ==
  ASSUME Writes
  PROVE  /\ pc \in Loaded /\ final' = final
         /\ record' \in {record, mem} \/ (pc = "drop" /\ record' = NoRecord)
         /\ pc' \notin Loaded \/ GoesOn
<1> USE DEF Loaded, Steps, GoesOn, At, Goto
<1>1. CASE KeepPartial \/ StoreBatchFails
  BY <1>1 DEF KeepPartial, StoreBatchFails, BatchFailed, Leave
<1>2. CASE StoreBatch \/ Publish
  BY <1>2 DEF StoreBatch, Publish
<1>3. CASE PublishFails \/ PutStopped \/ ViewerGone \/ DropProgress
  BY <1>3 DEF PublishFails, PutStopped, ViewerGone, DropProgress, Leave
<1>4. QED
  BY <1>1, <1>2, <1>3 DEF Writes

\* Writing the artifact.
LEMMA FinalWrites ==
  ASSUME PutFinal \/ PutFinalFails
  PROVE  /\ pc = "final" /\ record' = record
         /\ \/ pc' = "drop" /\ mem' = mem /\ final' = Rendered
            \/ pc' = "idle" /\ final' \in {final, Rendered}
  BY DEF PutFinal, PutFinalFails, Leave, At, Goto

\* The records stay lined up.
LEMMA RecordsKept ==
  ASSUME SourceTypeOK, NoTwice(doc), JobInv, [Next]_vars
  PROVE  Records'
<1>1. Works => mem' \in Lined /\ UNCHANGED storeVars
  BY WorkKeepsLines
<1> USE DEF JobInv, Records, Loaded, Steps, GoesOn, storeVars
<1>2. CASE Waits \/ Moves
  BY <1>2, MovesKeepRecords
<1>3. CASE Writes
  BY <1>3, WritesAreApplied
<1>4. CASE Works
  BY <1>1, <1>4
<1>5. CASE PutFinal \/ PutFinalFails
  BY <1>5, FinalWrites
<1>6. CASE UNCHANGED vars
  BY <1>6 DEF vars, jobVars
<1>7. QED
  BY <1>2, <1>3, <1>4, <1>5, <1>6, JobSteps

\* A status fits its record, and where the job is.
LEMMA StatusKept ==
  ASSUME SourceTypeOK, NoTwice(doc), JobInv, [Next]_vars
  PROVE  StatusFits'
<1>1. Works => /\ UNCHANGED storeVars
               /\ pc' # "stop" => mem'.live /\ mem'.status = ""
               /\ pc' = "stop" => /\ ~mem'.live /\ mem'.status # ""
                                  /\ mem'.status = "done" => PendingIn(mem') = {}
  BY WorkKeepsLines
<1>live. pc \in Loaded => mem.live \in BOOLEAN
  BY DEF JobInv, Records, Lined, Record
<1> USE DEF JobInv, StatusFits, StatusTellsEnd, Loaded, Steps, GoesOn, storeVars
<1>2. CASE Waits \/ Moves
  BY <1>2, MovesKeepRecords
<1>3. CASE Writes
  BY <1>3, <1>live, WritesAreApplied
<1>4. CASE Works
  BY <1>1, <1>4
<1>5. CASE PutFinal \/ PutFinalFails
  BY <1>5, FinalWrites
<1>6. CASE UNCHANGED vars
  BY <1>6 DEF vars, jobVars
<1>7. QED
  BY <1>2, <1>3, <1>4, <1>5, <1>6, JobSteps

\* The record in hand has the lines of the stored one.
LEMMA LinesKept ==
  ASSUME SourceTypeOK, NoTwice(doc), JobInv, [Next]_vars
  PROVE  LinesAgree'
<1>1. Works => /\ pc' \in Loaded \ {"drop"} /\ UNCHANGED storeVars
               /\ pc # "load" => pc \in Loaded /\ \A c \in Film : mem.tr[c] # 0 => mem'.tr[c] = mem.tr[c]
               /\ pc = "load" /\ record # NoRecord => mem'.tr = record.tr
  BY WorkKeepsLines
<1>text. pc = "final" => Rendered # NoFinal
  BY RenderedIsArtifact, LiveJobAssumption DEF LiveJobAssumption, JobInv, Records, Loaded, Steps
<1> USE DEF JobInv, LinesAgree, Loaded, Steps, GoesOn, storeVars
<1>2. CASE Waits \/ Moves
  BY <1>2, MovesKeepRecords
<1>3. CASE Writes
  BY <1>3, WritesAreApplied
<1>4. CASE Works
  BY <1>1, <1>4
<1>5. CASE PutFinal \/ PutFinalFails
  BY <1>5, <1>text, FinalWrites
<1>6. CASE UNCHANGED vars
  BY <1>6 DEF vars, jobVars
<1>7. QED
  BY <1>2, <1>3, <1>4, <1>5, <1>6, JobSteps

\* The batch stays pending until it is translated, and a tick without one has
\* nothing pending.
LEMMA BatchKept ==
  ASSUME SourceTypeOK, NoTwice(doc), JobInv, [Next]_vars
  PROVE  BatchFits'
<1>1. Select => batch' \in SUBSET PendingIn(mem) /\ (batch' = {} => PendingIn(mem) = {})
  BY ChosenIsPending DEF Select, At, JobInv, Records, Loaded, Steps
<1> USE DEF JobInv, BatchFits, Loaded, Steps, At, Goto
<1>2. CASE Waits
  BY <1>2, MovesKeepRecords
     DEF Waits, Ensure, CheckFinal, TryLock, StartFails, RefreshLockFails, LeaseLost, NewSession,
         BatchFailed, Leave
<1>3. CASE Wake \/ LookOk \/ LookTransient \/ GoOn \/ KeepAlive
  BY <1>3 DEF Wake, LookOk, LookTransient, GoOn, KeepAlive
<1>4. CASE StartBatch \/ NoBatch \/ RefreshLock
  BY <1>4 DEF StartBatch, NoBatch, RefreshLock
<1>5. CASE Poll \/ Retarget \/ HandlerReads \/ ReadGoesOn \/ Outside \/ UNCHANGED vars
  BY <1>5 DEF Poll, Retarget, HandlerReads, ReadGoesOn, Outside, vars, jobVars
<1>6. CASE KeepPartial \/ StoreBatchFails
  BY <1>6 DEF KeepPartial, StoreBatchFails, BatchFailed, Leave
<1>7. CASE StoreBatch \/ Publish \/ PublishFails \/ PutStopped \/ ViewerGone \/ DropProgress
  BY <1>7 DEF StoreBatch, Publish, PublishFails, PutStopped, ViewerGone, DropProgress, Leave
<1>8. CASE Select
  BY <1>1, <1>8 DEF Select
<1>9. CASE Load \/ LookStopped \/ Sync \/ Translate \/ TranslateFails \/ RenderFails
  BY <1>9 DEF Load, LookStopped, Sync, Translate, TranslateFails, RenderFails
<1>10. CASE Finish
  BY <1>10 DEF Finish, Finished
<1>11. CASE PutFinal \/ PutFinalFails
  BY <1>11, FinalWrites
<1>12. QED
  BY <1>2, <1>3, <1>4, <1>5, <1>6, <1>7, <1>8, <1>9, <1>10, <1>11, JobSteps DEF Moves, Writes, Works

\* The types of the job and the store.
LEMMA TypesKept ==
  ASSUME SourceTypeOK, NoTwice(doc), JobInv, [Next]_vars
  PROVE  TypeOK'
<1>1. record' \in Record \cup {NoRecord} /\ (pc' \in Loaded => mem' \in Record)
  BY RecordsKept DEF Records, Lined
<1>2. final' \in Artifacts \cup {NoFinal}
  <2>1. pc = "final" => Rendered \in Artifacts
    BY RenderedIsArtifact DEF JobInv, Records, Loaded, Steps
  <2>2. UNCHANGED final \/ (pc = "final" /\ final' \in {final, Rendered})
    <3>1. Waits \/ Moves => UNCHANGED final
      BY MovesKeepRecords DEF storeVars
    <3>2. Writes => UNCHANGED final
      BY WritesAreApplied
    <3>3. Works => UNCHANGED final
      BY WorkKeepsLines DEF storeVars
    <3>4. QED
      BY <3>1, <3>2, <3>3, FinalWrites, JobSteps DEF vars, storeVars
  <2>3. QED
    BY <2>1, <2>2 DEF JobInv, TypeOK
<1>3. /\ offset \in Offsets /\ 0 \in Offsets
      /\ pc \in Loaded => Len(mem.cues) \in -1..Cues
  <2>1. ASSUME pc \in Loaded PROVE Len(mem.cues) \in 0..Cues
    <3>1. mem.cues \in Seq(Film) /\ NoTwice(mem.cues)
      BY <2>1 DEF JobInv, Records, Lined, Record
    <3>2. QED
      BY <3>1, CuesOfSequence
  <2>2. QED
    BY <2>1, LiveSourceAssumption DEF LiveSourceAssumption, SourceTypeOK
<1>4. Select => batch' \subseteq Film
  <2> SUFFICES ASSUME Select PROVE batch' \subseteq Film
    OBVIOUS
  <2>1. mem \in Lined /\ mem.cues \in Seq(Film) /\ NoTwice(mem.cues)
    BY DEF Select, At, JobInv, Records, Loaded, Steps, Lined, Record
  <2>2. batch' \in SUBSET PendingIn(mem)
    BY <2>1, ChosenIsPending DEF Select
  <2>3. Len(mem.cues) \in 0..Cues /\ DOMAIN mem.cues = 1..Len(mem.cues)
    BY <2>1, CuesOfSequence
  <2>4. QED
    BY <2>2, <2>3, LiveSourceAssumption DEF PendingIn, LiveSourceAssumption
<1> DEFINE Locals == /\ pc' \in Steps
                     /\ pc' \in Loaded \/ mem' \in Record \cup {NoRecord}
                     /\ lastOffset' \in Offsets \cup {-1}
                     /\ published' \in -1..Cues
                     /\ batch' \subseteq Film
                     /\ order' \in Offsets
                     /\ watch' \in [off : Offsets, taken : BOOLEAN, retargeted : BOOLEAN]
<1>5. Locals
  <2> USE LiveSourceAssumption DEF LiveSourceAssumption, JobInv, TypeOK, Loaded, Steps, At, Goto
  <2>1. NoWatch \in [off : Offsets, taken : BOOLEAN, retargeted : BOOLEAN]
    BY <1>3 DEF NoWatch
  <2>2. Leave => Locals
    BY <1>3, <2>1 DEF Leave
  <2>3. CASE CheckFinal \/ StartFails \/ LeaseLost \/ NewSession \/ PublishFails \/ PutStopped
             \/ ViewerGone \/ DropProgress \/ PutFinalFails
    BY <2>2, <2>3 DEF CheckFinal, StartFails, LeaseLost, NewSession, PublishFails, PutStopped,
                      ViewerGone, DropProgress, PutFinalFails
  <2>4. CASE KeepPartial \/ StoreBatchFails \/ RefreshLockFails
    BY <1>3, <2>1, <2>2, <2>4 DEF KeepPartial, StoreBatchFails, RefreshLockFails, BatchFailed
  <2>5. CASE Ensure \/ TryLock \/ Wake \/ LookTransient \/ NoBatch \/ StoreBatch \/ PutFinal \/ KeepAlive
    BY <2>5 DEF Ensure, TryLock, Wake, LookTransient, NoBatch, StoreBatch, PutFinal, KeepAlive
  <2>6. CASE Load \/ LookOk \/ LookStopped \/ Sync \/ Translate \/ TranslateFails \/ Finish \/ RenderFails
    BY <1>3, <2>6 DEF Load, LookOk, LookStopped, Sync, Translate, TranslateFails, Finish, RenderFails
  <2>7. CASE Select
    BY <1>3, <1>4, <2>7 DEF Select
  <2>8. CASE Publish \/ RefreshLock
    BY <1>3, <2>1, <2>8 DEF Publish, RefreshLock
  <2>9. CASE GoOn
    BY <1>3, <2>9 DEF GoOn
  <2>10. CASE StartBatch
    BY <1>3, <2>10 DEF StartBatch
  <2>11. CASE Retarget
    BY <1>3, <2>11 DEF Retarget
  <2>12. CASE Poll \/ HandlerReads \/ ReadGoesOn \/ Outside \/ UNCHANGED vars
    BY <2>12 DEF Poll, HandlerReads, ReadGoesOn, Outside, vars, jobVars
  <2>13. QED
    BY <2>3, <2>4, <2>5, <2>6, <2>7, <2>8, <2>9, <2>10, <2>11, <2>12 DEF Next, JobStep, Failure
<1>6. QED
  BY <1>1, <1>2, <1>5 DEF TypeOK

\* What the job and the store keep is inductive, given the source's part.
LEMMA JobStepKeeps ==
  ASSUME SourceTypeOK, NoTwice(doc), JobInv, [Next]_vars
  PROVE  JobInv'
  BY RecordsKept, StatusKept, LinesKept, BatchKept, TypesKept DEF JobInv

-----------------------------------------------------------------------------
(* The artifact.  The job's read says whether the playlist ended; while the *)
(* source stays contiguous, the document holds the film from that read on,  *)
(* so does the record once the job has lined it up, and with no cue pending *)
(* it is what Finish hands to PutFinal.                                     *)

Snapped == {"select", "choose", "translate", "store", "refresh", "publish", "settle"}

HoldsFilm(s) == \A c \in Film : \E i \in DOMAIN s : s[i] = c

JobReads == reading # NoRead /\ reading.by = "job" => pc = "poll" /\ ref = NoRef

ReadWhole == ref # NoRef /\ ref.ended /\ contiguous => HoldsFilm(doc)

SnapWhole == pc \in Snapped => ref # NoRef /\ (ref.ended /\ contiguous => HoldsFilm(mem.cues))

FinalWhole == /\ pc = "snapshot" => ref # NoRef
              /\ pc = "final" => HoldsFilm(mem.cues) /\ PendingIn(mem) = {}

FilmInv == JobReads /\ ReadWhole /\ SnapWhole /\ FinalWhole /\ FinalHoldsFilm

\* The source's half: all that a step does to the document and to the job's
\* result of a read.
LEMMA SourceStepKeepsFilm ==
  ASSUME SourceTypeOK, SourceTypeOK', WholeInv', ReadWhole, [SourceNext]_sourceVars \/ Touches \/ Replaces
  PROVE  ReadWhole'
<1>1. HoldsFilm(doc) <=> Film \subseteq InDoc
  BY DEF HoldsFilm, InDoc
<1>2. CASE Touches
  BY <1>2 DEF Touches, ReadWhole, segVars
<1>3. CASE Replaces
  BY <1>3 DEF Replaces, NewSource, ReadWhole
<1>4. ASSUME NEW c \in Film, Segment(c)
      PROVE  ReadWhole'
  <2>1. ref' = ref \/ ~ref'.ended
    BY <1>4 DEF Segment, FetchSegment, SegmentFails, SkipSegment, Abort, Return, Failed
  <2>2. contiguous' => contiguous
    BY <1>4 DEF Segment, FetchSegment, SegmentFails, SkipSegment, flagVars
  <2>3. HoldsFilm(doc) => HoldsFilm(doc')
    <3>1. doc' = doc \/ doc' = Append(doc, c)
      BY <1>4 DEF Segment, FetchSegment, SegmentFails, SkipSegment, Appended
    <3>2. doc \in Seq(Film)
      BY DEF SourceTypeOK
    <3>3. /\ DOMAIN doc = 1..Len(doc) /\ Len(doc) \in Nat
          /\ DOMAIN Append(doc, c) = 1..(Len(doc) + 1)
          /\ \A i \in 1..Len(doc) : Append(doc, c)[i] = doc[i]
      BY <3>2
    <3>4. QED
      BY <3>1, <3>3 DEF HoldsFilm
  <2>4. QED
    BY <2>1, <2>2, <2>3 DEF ReadWhole
<1>5. CASE EndRead
  <2>1. UNCHANGED doc /\ (contiguous' => contiguous)
    BY <1>5 DEF EndRead, ContiguousAfter, segVars
  <2>2. ref' = ref \/ ref' = [err |-> "none", ended |-> ended']
    BY <1>5 DEF EndRead, Return
  <2>3. ASSUME contiguous', ended' PROVE HoldsFilm(doc')
    BY <2>3, LiveSourceAssumption
       DEF LiveSourceAssumption, WholeInv, StartWasRead, SeenIsRead, HoldsFilm, InDoc
  <2>4. QED
    BY <2>1, <2>2, <2>3 DEF ReadWhole
<1>6. CASE World \/ Ages \/ Retire \/ UNCHANGED sourceVars
  BY <1>6 DEF World, Ages, Retire, sourceVars, segVars, flagVars, ReadWhole
<1>7. ASSUME NEW who \in Readers,
             BeginRead(who) \/ ReadRetired(who) \/ ReadGone(who) \/ ReadFails(who)
      PROVE  ReadWhole'
  <2>1. UNCHANGED <<doc, contiguous>>
    BY <1>7 DEF BeginRead, ReadRetired, ReadGone, ReadFails, segVars, flagVars
  <2>2. ref' = ref \/ ~ref'.ended
    BY <1>7 DEF BeginRead, ReadRetired, ReadGone, ReadFails, Return, Failed
  <2>3. QED
    BY <2>1, <2>2 DEF ReadWhole
<1>8. QED
  BY <1>2, <1>3, <1>4, <1>5, <1>6, <1>7 DEF SourceNext, Read


\* What goes on in the source beside the job's steps: nothing makes a source
\* contiguous, and only a read of the job's own gives it a result.
LEMMA SourceBesideJob ==
  ASSUME SourceTypeOK, JobReads, Poll \/ HandlerReads \/ ReadGoesOn \/ Outside
  PROVE  /\ UNCHANGED <<storeVars, jobVars>>
         /\ contiguous' => contiguous
         /\ pc # "poll" => ref' = ref
         /\ JobReads'
<1> USE DEF JobReads, At
<1>1. CASE Poll
  BY <1>1 DEF Poll, BeginRead, ReadRetired, ReadGone, ReadFails, flagVars, storeVars, jobVars
<1>2. CASE HandlerReads
  BY <1>2 DEF HandlerReads, BeginRead, ReadRetired, ReadGone, ReadFails, Return, flagVars,
              storeVars, jobVars
<1>3. CASE Outside
  BY <1>3 DEF Outside, World, Ages, Retire, flagVars, storeVars, jobVars
<1>4. CASE EndRead /\ UNCHANGED <<storeVars, jobVars>>
  BY <1>4 DEF EndRead, ContiguousAfter, Return, storeVars, jobVars
<1>5. ASSUME NEW c \in Film, Segment(c), UNCHANGED <<storeVars, jobVars>>
      PROVE  /\ contiguous' => contiguous
             /\ pc # "poll" => ref' = ref
             /\ JobReads'
  <2>1. reading # NoRead /\ reading \in Playlist
    BY <1>5 DEF Segment, FetchSegment, SegmentFails, SkipSegment, AtSegment, SourceTypeOK
  <2>2. contiguous' => contiguous
    BY <1>5 DEF Segment, FetchSegment, SegmentFails, SkipSegment, flagVars
  <2>3. CASE \E err : Abort(err)
    BY <1>5, <2>1, <2>2, <2>3 DEF Abort, Return, jobVars
  <2>4. CASE ~ \E err : Abort(err)
    <3>1. UNCHANGED ref /\ reading'.by = reading.by
      BY <1>5, <2>1, <2>4 DEF Segment, FetchSegment, SegmentFails, SkipSegment, Playlist
    <3>2. QED
      BY <1>5, <2>1, <2>2, <3>1 DEF jobVars
  <2>5. QED
    BY <2>2, <2>3, <2>4
<1>6. QED
  BY <1>1, <1>2, <1>3, <1>4, <1>5 DEF ReadGoesOn

\* What the job's own steps leave of the source.
Aside == UNCHANGED <<reading, doc, contiguous>>

\* No other step of the job touches the read in flight, the document or its marks.
LEMMA JobLeavesSource ==
  ASSUME [Next]_vars, ~Poll, ~HandlerReads, ~ReadGoesOn, ~Outside, ~NewSession
  PROVE  Aside /\ (Wake \/ UNCHANGED ref)
<1> USE DEF Aside, Quiet, Calls, Unpolled, sourceVars, segVars, flagVars
<1>1. CASE Ensure \/ StartBatch \/ UNCHANGED vars
  BY <1>1 DEF Ensure, StartBatch, vars
<1>2. CASE CheckFinal \/ TryLock \/ Load \/ LookOk \/ LookStopped \/ Sync \/ Select \/ NoBatch
           \/ Translate \/ StoreBatch \/ Publish \/ GoOn \/ PutFinal \/ KeepAlive
  BY <1>2 DEF CheckFinal, TryLock, Load, LookOk, LookStopped, Sync, Select, NoBatch, Translate,
              StoreBatch, Publish, GoOn, PutFinal, KeepAlive
<1>3. CASE Wake \/ LookTransient \/ RefreshLock \/ Retarget \/ KeepPartial \/ DropProgress \/ PutStopped
  BY <1>3 DEF Wake, LookTransient, RefreshLock, Retarget, KeepPartial, DropProgress, PutStopped
<1>4. CASE Finish
  BY <1>4 DEF Finish
<1>5. CASE Failure
  BY <1>5 DEF Failure, StartFails, TranslateFails, StoreBatchFails, RefreshLockFails,
              PublishFails, RenderFails, PutFinalFails, LeaseLost, ViewerGone
<1>6. QED
  BY <1>1, <1>2, <1>3, <1>4, <1>5 DEF Next, JobStep

Reads == Poll \/ HandlerReads \/ ReadGoesOn \/ Outside

\* A read of the job's is in flight only where the job waits for it.
LEMMA JobReadsKept ==
  ASSUME SourceTypeOK, JobReads, [Next]_vars
  PROVE  JobReads'
<1>1. CASE Reads
  BY <1>1, SourceBesideJob DEF Reads
<1>2. CASE NewSession
  BY <1>2 DEF NewSession, NewSource, JobReads
<1>3. CASE ~Reads /\ ~NewSession
  <2>1. UNCHANGED reading /\ (Wake \/ UNCHANGED ref)
    BY <1>3, JobLeavesSource DEF Reads, Aside
  <2>2. CASE pc # "poll"
    BY <2>1, <2>2 DEF JobReads
  <2>3. CASE pc = "poll"
    <3>1. (pc' = "poll" /\ UNCHANGED ref) \/ ref # NoRef
      BY <1>3, <2>3 DEF Reads, Next, JobStep, Failure, At, Goto, ReadEnded, Ensure, CheckFinal, TryLock, Load,
         StartFails, Wake, LookOk, LookStopped, LookTransient, Sync, Select, StartBatch, NoBatch, Retarget,
         InBatch, Translate, TranslateFails, KeepPartial, StoreBatch, StoreBatchFails, RefreshLock,
         RefreshLockFails, Publish, PublishFails, GoOn, Finish, RenderFails, PutFinal, PutFinalFails,
         DropProgress, PutStopped, KeepAlive, LeaseLost, ViewerGone, vars, sourceVars, jobVars
    <3>2. QED
      BY <2>1, <3>1 DEF JobReads
  <2>4. QED
    BY <2>2, <2>3
<1>4. QED
  BY <1>1, <1>2, <1>3

\* An artifact rendered from a full record without gaps is the film.
LEMMA RenderedHoldsFilm ==
  ASSUME mem \in Lined, HoldsFilm(mem.cues), PendingIn(mem) = {}
  PROVE  DOMAIN Rendered = Film /\ \A c \in Film : Rendered[c] # 0
<1> DEFINE cues == {mem.cues[i] : i \in DOMAIN mem.cues}
<1>1. mem.cues \in Seq(Film) /\ NoTwice(mem.cues)
  BY DEF Lined, Record
<1>2. cues = Film
  BY <1>1, CuesOfSequence DEF HoldsFilm
<1>3. \A c \in Film : mem.tr[c] # 0
  BY DEF HoldsFilm, PendingIn
<1>4. DOMAIN Rendered = cues /\ \A c \in cues : Rendered[c] = mem.tr[c]
  BY DEF Rendered
<1>5. QED
  BY <1>2, <1>3, <1>4

\* What a step at work leaves of the record's cues.
LEMMA CuesKept ==
  ASSUME JobInv, [Next]_vars, pc \in Snapped, pc' \in Snapped \cup {"final"}
  PROVE  mem'.cues = mem.cues
<1> USE DEF Snapped, At, Goto, JobInv, Records, BatchFits, Loaded, Steps
<1>1. CASE Translate
  BY <1>1, FilledKeeps DEF Translate
<1>2. CASE Waits \/ Moves
  BY <1>2, MovesKeepRecords DEF GoesOn
<1>3. CASE Writes
  BY <1>3, WritesAreApplied DEF GoesOn
<1>4. CASE Load \/ LookStopped \/ Sync \/ Select \/ TranslateFails \/ Finish \/ RenderFails
  BY <1>4 DEF Load, LookStopped, ReadEnded, Sync, Select, TranslateFails, Finish, RenderFails
<1>5. CASE PutFinal \/ PutFinalFails
  BY <1>5, FinalWrites
<1>6. CASE UNCHANGED vars
  BY <1>6 DEF vars, jobVars
<1>7. QED
  BY <1>1, <1>2, <1>3, <1>4, <1>5, <1>6, JobSteps DEF Works

\* How a job gets to where it has a snapshot, a result of its read, or the
\* artifact to write.
LEMMA ComesFrom ==
  ASSUME [Next]_vars, ~Reads
  PROVE  /\ pc' \in Snapped => pc \in Snapped \/ Sync
         /\ pc' = "snapshot" => pc = "snapshot" \/ LookOk
         /\ pc' = "final" => (pc = "final" /\ UNCHANGED mem) \/ Finish
<1> USE DEF Snapped, Steps, At, Goto, Leave, BatchFailed, vars, jobVars
<1>1. CASE Ensure \/ CheckFinal \/ TryLock \/ StartFails \/ LeaseLost \/ NewSession \/ RefreshLockFails
  BY <1>1 DEF Ensure, CheckFinal, TryLock, StartFails, LeaseLost, NewSession, RefreshLockFails
<1>2. CASE Load \/ Wake \/ LookOk \/ LookStopped \/ LookTransient \/ Sync \/ KeepAlive
  BY <1>2 DEF Load, Wake, LookOk, LookStopped, LookTransient, Sync, KeepAlive
<1>3. CASE Select \/ StartBatch \/ NoBatch \/ Retarget \/ RefreshLock \/ GoOn \/ Finish \/ RenderFails
  BY <1>3 DEF Select, StartBatch, NoBatch, Retarget, InBatch, RefreshLock, GoOn, Finish, RenderFails
<1>4. CASE Translate \/ TranslateFails \/ KeepPartial \/ StoreBatch \/ StoreBatchFails
  BY <1>4 DEF Translate, TranslateFails, KeepPartial, StoreBatch, StoreBatchFails
<1>5. CASE Publish \/ PublishFails \/ PutFinal \/ PutFinalFails \/ DropProgress \/ PutStopped \/ ViewerGone
  BY <1>5 DEF Publish, PublishFails, PutFinal, PutFinalFails, DropProgress, PutStopped, ViewerGone
<1>6. CASE UNCHANGED vars
  BY <1>6
<1>7. QED
  BY <1>1, <1>2, <1>3, <1>4, <1>5, <1>6 DEF Next, JobStep, Failure, Reads

\* The film's half of the invariant is inductive.
LEMMA FilmKept ==
  ASSUME SourceTypeOK, SourceTypeOK', WholeInv', NoTwice(doc), JobInv, FilmInv, [Next]_vars,
         [SourceNext]_sourceVars \/ Touches \/ Replaces
  PROVE  FilmInv'
<1>1. JobReads' /\ ReadWhole'
  BY JobReadsKept, SourceStepKeepsFilm DEF FilmInv
<1>2. CASE Reads
  <2>1. /\ UNCHANGED <<storeVars, jobVars>> /\ (contiguous' => contiguous)
        /\ pc # "poll" => ref' = ref
    BY <1>2, SourceBesideJob DEF FilmInv, Reads
  <2>2. QED
    BY <1>1, <2>1 DEF FilmInv, SnapWhole, FinalWhole, FinalHoldsFilm, Snapped, storeVars, jobVars
<1>3. CASE NewSession
  BY <1>1, <1>3 DEF NewSession, Leave, FilmInv, SnapWhole, FinalWhole, FinalHoldsFilm, Snapped, storeVars
<1>4. CASE ~Reads /\ ~NewSession
  <2>1. Aside /\ (Wake \/ UNCHANGED ref)
    BY <1>4, JobLeavesSource DEF Reads
  <2>2. Wake => pc' = "poll"
    BY DEF Wake, Goto
  <2>3. SnapWhole'
    <3>1. CASE Sync
      <4>1. pc = "snapshot" /\ mem \in Lined /\ mem' = [mem EXCEPT !.cues = doc] /\ doc \in Seq(Film)
        BY <3>1 DEF Sync, At, JobInv, Records, Loaded, Steps, SourceTypeOK
      <4>2. mem'.cues = doc
        BY <4>1, SyncKeepsLines
      <4>3. UNCHANGED ref /\ UNCHANGED contiguous /\ ref # NoRef
        BY <2>1, <3>1, <4>1 DEF Aside, FilmInv, FinalWhole, Wake, At
      <4>4. QED
        BY <4>2, <4>3 DEF FilmInv, ReadWhole, SnapWhole
    <3>2. ASSUME pc \in Snapped, pc' \in Snapped
          PROVE  SnapWhole'
      <4>1. mem'.cues = mem.cues
        BY <3>2, CuesKept
      <4>2. UNCHANGED ref /\ UNCHANGED contiguous
        BY <2>1, <2>2, <3>2 DEF Aside, Snapped
      <4>3. QED
        BY <3>2, <4>1, <4>2 DEF FilmInv, SnapWhole
    <3>3. QED
      BY <1>4, <3>1, <3>2, ComesFrom DEF SnapWhole
  <2>4. FinalWhole'
    <3>1. ASSUME pc' = "snapshot" PROVE ref' # NoRef
      <4>1. pc = "snapshot" \/ LookOk
        BY <1>4, <3>1, ComesFrom
      <4>2. UNCHANGED ref
        BY <2>1, <2>2, <3>1
      <4>3. QED
        BY <4>1, <4>2 DEF LookOk, ReadEnded, FilmInv, FinalWhole
    <3>2. ASSUME pc' = "final" PROVE HoldsFilm(mem'.cues) /\ PendingIn(mem') = {}
      <4>1. CASE pc = "final" /\ UNCHANGED mem
        BY <4>1 DEF FilmInv, FinalWhole
      <4>2. CASE Finish
        <5>1. pc = "settle" /\ ref.ended /\ batch = {}
          BY <4>2 DEF Finish, Finished, At
        <5>2. contiguous /\ UNCHANGED mem
          BY <3>2, <4>2 DEF Finish
        <5>3. HoldsFilm(mem.cues) /\ PendingIn(mem) = {}
          BY <5>1, <5>2 DEF FilmInv, SnapWhole, Snapped, JobInv, BatchFits
        <5>4. QED
          BY <5>2, <5>3
      <4>3. QED
        BY <1>4, <3>2, <4>1, <4>2, ComesFrom
    <3>3. QED
      BY <3>1, <3>2 DEF FinalWhole
  <2>5. FinalHoldsFilm'
    <3>1. CASE UNCHANGED final
      BY <3>1 DEF FilmInv, FinalHoldsFilm
    <3>2. CASE pc = "final" /\ final' = Rendered
      <4>1. mem \in Lined /\ HoldsFilm(mem.cues) /\ PendingIn(mem) = {}
        BY <3>2 DEF JobInv, Records, Loaded, Steps, FilmInv, FinalWhole
      <4>2. QED
        BY <3>2, <4>1, RenderedHoldsFilm DEF FinalHoldsFilm
    <3>3. UNCHANGED final \/ (pc = "final" /\ final' = Rendered)
      <4>1. Waits \/ Moves => UNCHANGED final
        BY MovesKeepRecords DEF storeVars
      <4>2. Works => UNCHANGED final
        BY WorkKeepsLines DEF storeVars
      <4>3. QED
        BY <4>1, <4>2, WritesAreApplied, FinalWrites, JobSteps DEF vars, storeVars
    <3>4. QED
      BY <3>1, <3>2, <3>3
  <2>6. QED
    BY <1>1, <2>3, <2>4, <2>5 DEF FilmInv
<1>5. QED
  BY <1>2, <1>3, <1>4

-----------------------------------------------------------------------------
LiveInv == SourceTypeOK /\ WholeInv /\ NoTwice(doc) /\ JobInv /\ FilmInv

\* The inductive invariant: the source's, and what the job makes of it.
LEMMA LiveInductive == Spec => []LiveInv
<1>1. Init => LiveInv
  <2>1. Init => SourceTypeOK /\ WholeInv
    BY SourceTypeInit, WholeInit DEF Init
  <2>2. Init => NoTwice(doc) /\ FilmInv
    BY DEF Init, SourceInit, NoTwice, FilmInv, JobReads, ReadWhole, SnapWhole, FinalWhole,
           FinalHoldsFilm, Snapped
  <2>3. QED
    BY <2>1, <2>2, JobInit DEF LiveInv
<1>2. ASSUME LiveInv, [Next]_vars PROVE LiveInv'
  <2>1. watch.taken \in BOOLEAN
    BY <1>2 DEF LiveInv, JobInv, TypeOK
  <2>2. [SourceNext]_sourceVars \/ Touches \/ Replaces
    BY <1>2, <2>1, SourceSide DEF LiveInv
  <2>3. SourceTypeOK' /\ WholeInv' /\ NoTwice(doc')
    BY <1>2, <2>2, SourceTypesKept, SourceStaysWhole, DocumentStaysLined DEF LiveInv
  <2>4. JobInv'
    BY <1>2, JobStepKeeps DEF LiveInv
  <2>5. FilmInv'
    BY <1>2, <2>2, <2>3, FilmKept DEF LiveInv
  <2>6. QED
    BY <2>3, <2>4, <2>5 DEF LiveInv
<1>3. QED
  BY <1>1, <1>2, PTL DEF Spec

\* The type invariant of the job and the store (TypeOK).
THEOREM JobTyped == Spec => []TypeOK
<1>1. LiveInv => TypeOK
  BY DEF LiveInv, JobInv
<1>2. QED
  BY <1>1, LiveInductive, PTL

\* A live artifact carries every cue of the film with a text (FinalHoldsFilm),
\* whatever seeks, sessions, viewers' reads, retargeted batches and failures
\* came before it.
THEOREM ArtifactIsTheFilm == Spec => []FinalHoldsFilm
<1>1. LiveInv => FinalHoldsFilm
  BY DEF LiveInv, FilmInv
<1>2. QED
  BY <1>1, LiveInductive, PTL

\* A stored record has a status exactly if it is not live, and "done" only with
\* every cue it counts translated (StatusTellsEnd).
THEOREM StatusIsAVerdict == Spec => []StatusTellsEnd
<1>1. LiveInv => StatusTellsEnd
  BY DEF LiveInv, JobInv, StatusFits
<1>2. QED
  BY <1>1, LiveInductive, PTL

-----------------------------------------------------------------------------
(* What the readers of the key are promised (Artifact).  An artifact stops   *)
(* every job that follows; until there is one, whatever is written has the   *)
(* lines that are stored already.                                            *)

\* Where a job may be once there is an artifact.
Retiring == {"idle", "check", "drop"}

FinalRests == final # NoFinal => pc \in Retiring

\* A job that finds an artifact stops, so that none is written twice.
LEMMA FinalRestsKept ==
  ASSUME JobInv, FinalRests, [Next]_vars
  PROVE  FinalRests'
<1> USE DEF FinalRests, Retiring, At, Goto, Leave, Quiet, Calls, storeVars
<1>1. CASE PutFinal \/ PutFinalFails
  BY <1>1 DEF PutFinal, PutFinalFails
<1>2. CASE Ensure \/ CheckFinal \/ TryLock \/ StartFails \/ LeaseLost \/ NewSession
  BY <1>2 DEF Ensure, CheckFinal, TryLock, StartFails, LeaseLost, NewSession
<1>3. CASE Load \/ Wake \/ LookOk \/ LookStopped \/ LookTransient \/ Sync \/ Select \/ KeepAlive
  BY <1>3 DEF Load, Wake, LookOk, LookStopped, LookTransient, ReadEnded, Sync, Select, KeepAlive
<1>4. CASE StartBatch \/ NoBatch \/ Translate \/ TranslateFails \/ StoreBatch \/ GoOn \/ Finish \/ RenderFails
  BY <1>4 DEF StartBatch, NoBatch, Translate, TranslateFails, StoreBatch, GoOn, Finish, RenderFails
<1>5. CASE Retarget \/ RefreshLock \/ KeepPartial \/ StoreBatchFails \/ RefreshLockFails
  BY <1>5 DEF Retarget, InBatch, RefreshLock, KeepPartial, StoreBatchFails, RefreshLockFails, BatchFailed
<1>6. CASE Publish \/ PublishFails \/ DropProgress \/ PutStopped \/ ViewerGone
  BY <1>6 DEF Publish, PublishFails, DropProgress, PutStopped, ViewerGone
<1>7. CASE Poll \/ HandlerReads \/ ReadGoesOn \/ Outside \/ UNCHANGED vars
  BY <1>7 DEF Poll, HandlerReads, ReadGoesOn, Outside, vars, jobVars
<1> QED BY <1>1, <1>2, <1>3, <1>4, <1>5, <1>6, <1>7 DEF Next, JobStep, Failure

LEMMA FinalAtRest == Spec => []FinalRests
<1>1. Init => FinalRests
  BY DEF Init, FinalRests
<1>2. LiveInv /\ FinalRests /\ [Next]_vars => FinalRests'
  BY FinalRestsKept DEF LiveInv
<1> QED BY <1>1, <1>2, LiveInductive, PTL DEF Spec

\* A write of the record is applied with every line that is stored, or drops the
\* record of a key that has its artifact.
LEMMA RecordWriteIsPromised ==
  ASSUME JobInv, FinalRests, Writes
  PROVE  Promise!ArtifactNext \/ UNCHANGED <<TextNow, final>>
<1>1. /\ pc \in Loaded /\ final' = final
      /\ record' \in {record, mem} \/ (pc = "drop" /\ record' = NoRecord)
  BY WritesAreApplied
<1>2. mem \in Record /\ mem # NoRecord
  BY <1>1, LiveJobAssumption DEF LiveJobAssumption, JobInv, Records, Lined
<1>3. CASE final # NoFinal
  BY <1>1, <1>3 DEF TextNow
<1>4. CASE final = NoFinal
  <2>1. record' \in {record, mem}
    BY <1>1, <1>4 DEF JobInv, LinesAgree
  <2>2. CASE record' = record
    BY <1>1, <2>2 DEF TextNow
  <2>3. CASE record' = mem
    <3>1. TextNow' = mem.tr /\ TextNow = (IF record = NoRecord THEN NoLines ELSE record.tr)
      BY <1>1, <1>2, <1>4, <2>3 DEF TextNow
    <3>2. \A c \in Film : TextNow[c] # 0 => TextNow'[c] = TextNow[c]
      BY <1>1, <3>1 DEF JobInv, LinesAgree, NoLines
    <3>3. TextNow' \in [Film -> Film \cup {0}]
      <4>1. 0..Cues = Film \cup {0}
        BY LiveSourceAssumption DEF LiveSourceAssumption
      <4> QED BY <1>2, <3>1, <4>1 DEF Record
    <3> QED
      BY <1>1, <1>4, <3>2, <3>3 DEF Promise!ArtifactNext, Promise!Translated, Promise!KeepsText
  <2> QED BY <2>1, <2>2, <2>3
<1> QED BY <1>3, <1>4

\* The artifact that is written has a text on every cue, and every stored line.
LEMMA ArtifactIsPromised ==
  ASSUME JobInv, FilmInv, FinalRests, PutFinal \/ PutFinalFails
  PROVE  Promise!ArtifactNext \/ UNCHANGED <<TextNow, final>>
<1>1. pc = "final" /\ record' = record /\ final' \in {final, Rendered} /\ final = NoFinal
  BY FinalWrites DEF FinalRests, Retiring
<1>2. CASE final' = final
  BY <1>1, <1>2 DEF TextNow
<1>3. CASE final' = Rendered /\ Rendered # NoFinal
  <2>1. mem \in Lined /\ HoldsFilm(mem.cues) /\ PendingIn(mem) = {}
    BY <1>1 DEF JobInv, Records, Loaded, Steps, FilmInv, FinalWhole
  <2>2. DOMAIN Rendered = Film /\ \A c \in Film : Rendered[c] # 0 /\ Rendered[c] = mem.tr[c]
    BY <2>1, RenderedHoldsFilm DEF Rendered
  <2>3. TextNow' = Rendered /\ TextNow = (IF record = NoRecord THEN NoLines ELSE record.tr)
    BY <1>1, <1>3 DEF TextNow
  <2>4. Rendered \in [Film -> Film]
    <3>1. \A c \in Film : mem.tr[c] \in 0..Cues
      BY <2>1 DEF Lined, Record
    <3>2. \A c \in Film : Rendered[c] \in Film
      BY <2>2, <3>1, LiveSourceAssumption DEF LiveSourceAssumption
    <3>3. Rendered = [c \in Film |-> Rendered[c]]
      BY <2>2 DEF Rendered
    <3> HIDE DEF Film
    <3> QED BY <3>2, <3>3
  <2>5. \A c \in Film : TextNow[c] # 0 => TextNow'[c] = TextNow[c]
    BY <1>1, <2>2, <2>3 DEF JobInv, LinesAgree, NoLines, Loaded, Steps
  <2> QED
    BY <1>1, <1>3, <2>3, <2>4, <2>5 DEF Promise!ArtifactNext, Promise!Completed, Promise!KeepsText
<1>4. Rendered # NoFinal
  BY <1>1, RenderedIsArtifact, LiveJobAssumption
     DEF LiveJobAssumption, JobInv, Records, Loaded, Steps
<1> QED BY <1>1, <1>2, <1>3, <1>4

\* The job and the store implement the promise to the readers of the key
\* (ArtifactKept): lines are only added, and the artifact that follows them has
\* them all, a text on every cue, and is never replaced.
THEOREM ArtifactImplemented == Spec => ArtifactKept
<1>1. Init => Promise!ArtifactInit
  BY DEF Init, Promise!ArtifactInit, TextNow, NoLines
<1>2. LiveInv /\ FinalRests /\ [Next]_vars => [Promise!ArtifactNext]_Promise!artifactVars
  <2> SUFFICES ASSUME LiveInv, FinalRests, [Next]_vars
               PROVE  Promise!ArtifactNext \/ UNCHANGED <<TextNow, final>>
    BY DEF Promise!artifactVars
  <2>1. Waits \/ Moves => UNCHANGED storeVars
    BY MovesKeepRecords
  <2>2. Works => UNCHANGED storeVars
    BY WorkKeepsLines DEF LiveInv
  <2>3. UNCHANGED storeVars => UNCHANGED <<TextNow, final>>
    BY DEF storeVars, TextNow
  <2> QED
    BY <2>1, <2>2, <2>3, RecordWriteIsPromised, ArtifactIsPromised, JobSteps DEF LiveInv, vars
<1> QED
  BY <1>1, <1>2, LiveInductive, FinalAtRest, PTL DEF Spec, ArtifactKept, Promise!ArtifactSpec

-----------------------------------------------------------------------------
(* The wake-up.  Between two reads the token of a run is in the channel or  *)
(* with the watcher; the job's own read answers it, and so does its end.    *)

\* Where a watcher may hold a token.
Watched == InBatch \cup {"keep"}

\* Where a run is answered: the read is under way, or was the job's last.
Answered == {"poll", "stop"}

WakeInv == /\ pc \notin Watched => ~watch.taken
           /\ pc \notin Answered /\ fresh /\ lastOffset \notin {-1, offset}
                => runStarted \/ watch.taken

\* A read leaves a token for the run it finds; every other step of the source
\* leaves the runs it has seen alone.
LEMMA ReadsLeaveToken ==
  ASSUME SourceTypeOK, WakeInv, Reads
  PROVE  WakeInv'
<1> USE DEF WakeInv, Reads
<1>1. UNCHANGED jobVars
  BY DEF Poll, HandlerReads, ReadGoesOn, Outside
<1>2. UNCHANGED <<offset, fresh, runStarted>> \/ runStarted' = TRUE \/ fresh' = FALSE
  <2>1. ASSUME NEW who, BeginRead(who)
        PROVE  runStarted' = TRUE \/ UNCHANGED <<offset, fresh, runStarted>>
    <3>1. CASE ~offsetSeen \/ run.off # offset
      BY <2>1, <3>1 DEF BeginRead
    <3>2. CASE ~(~offsetSeen \/ run.off # offset)
      BY <2>1, <3>2 DEF BeginRead, SourceTypeOK
    <3> QED BY <3>1, <3>2
  <2>2. ASSUME NEW who, ReadRetired(who) \/ ReadGone(who) \/ ReadFails(who)
        PROVE  UNCHANGED <<offset, fresh, runStarted>>
    BY <2>2 DEF ReadRetired, ReadGone, ReadFails, runVars
  <2>3. (\E c \in Film : Segment(c)) \/ EndRead => UNCHANGED <<offset, fresh, runStarted>>
    BY DEF Segment, FetchSegment, SegmentFails, SkipSegment, EndRead, runVars
  <2>4. Outside => UNCHANGED <<offset, fresh, runStarted>> \/ fresh' = FALSE
    BY DEF Outside, World, Ages, Retire, runVars
  <2> QED BY <2>1, <2>2, <2>3, <2>4 DEF Poll, HandlerReads, ReadGoesOn
<1> QED BY <1>1, <1>2 DEF jobVars

\* The loop takes the token only to read, and the watcher puts its own back.
LEMMA JobKeepsToken ==
  ASSUME SourceTypeOK, TypeOK, WakeInv, [Next]_vars, ~Reads
  PROVE  WakeInv'
<1> USE DEF WakeInv, Watched, InBatch, Answered, At, Goto, Quiet, Calls, Unpolled, runVars, sourceVars
<1>1. /\ watch \in [off : Offsets, taken : BOOLEAN, retargeted : BOOLEAN]
      /\ fresh \in BOOLEAN /\ runStarted \in BOOLEAN
      /\ NoWatch.taken = FALSE
  BY DEF TypeOK, SourceTypeOK, NoWatch
<1>2. ASSUME Leave PROVE WakeInv'
  BY <1>1, <1>2 DEF Leave
<1>3. CASE Ensure \/ CheckFinal \/ TryLock \/ StartFails \/ LeaseLost \/ NewSession
  BY <1>2, <1>3 DEF Ensure, CheckFinal, TryLock, StartFails, LeaseLost, NewSession
<1>4. CASE Load \/ Wake \/ LookOk \/ LookStopped \/ Sync \/ KeepAlive
  BY <1>4 DEF Load, Wake, LookOk, LookStopped, ReadEnded, Sync, KeepAlive
<1>5. CASE LookTransient
  BY <1>1, <1>5 DEF LookTransient, ReadEnded
<1>6. CASE Select \/ StartBatch \/ NoBatch \/ GoOn \/ Finish \/ RenderFails
  BY <1>1, <1>6 DEF Select, StartBatch, NoBatch, GoOn, Finish, RenderFails
<1>7. CASE Retarget
  <2>1. watch'.taken = TRUE /\ pc' = pc /\ pc \in InBatch
    BY <1>1, <1>7 DEF Retarget
  <2> QED BY <2>1
<1>8. CASE Translate \/ TranslateFails \/ StoreBatch
  BY <1>8 DEF Translate, TranslateFails, StoreBatch
<1>9. CASE KeepPartial \/ StoreBatchFails \/ RefreshLockFails
  <2>1. BatchFailed /\ UNCHANGED <<offset, fresh>> /\ pc \in Watched
    BY <1>9 DEF KeepPartial, StoreBatchFails, RefreshLockFails
  <2>2. CASE watch.retargeted
    <3>1. /\ pc' = "wait" /\ watch' = NoWatch /\ UNCHANGED lastOffset
          /\ runStarted' = (runStarted \/ watch.taken)
      BY <2>1, <2>2 DEF BatchFailed, PutBack
    <3> QED BY <1>1, <2>1, <3>1
  <2>3. CASE ~watch.retargeted
    BY <1>2, <2>1, <2>3 DEF BatchFailed
  <2> QED BY <2>2, <2>3
<1>10. CASE RefreshLock
  <2>1. /\ pc = "refresh" /\ pc' = "settle" /\ watch' = NoWatch /\ UNCHANGED <<lastOffset, offset, fresh>>
        /\ runStarted' = (runStarted \/ watch.taken)
    BY <1>10 DEF RefreshLock, PutBack
  <2> QED BY <1>1, <2>1
<1>11. CASE Publish \/ PutFinal
  BY <1>11 DEF Publish, PutFinal
<1>12. CASE PublishFails \/ PutFinalFails \/ DropProgress \/ PutStopped \/ ViewerGone
  BY <1>2, <1>12 DEF PublishFails, PutFinalFails, DropProgress, PutStopped, ViewerGone
<1>13. CASE UNCHANGED vars
  BY <1>13 DEF vars, jobVars
<1> QED BY <1>3, <1>4, <1>5, <1>6, <1>7, <1>8, <1>9, <1>10, <1>11, <1>12, <1>13
        DEF Next, JobStep, Failure, Reads

\* While the job waits in a fresh run that its last read did not see, the token of
\* the run is in the channel, whatever the watcher of an earlier batch took
\* (WakeUpNotLost).
THEOREM NoWakeUpIsLost == Spec => []WakeUpNotLost
<1>1. Init => WakeInv
  BY DEF Init, SourceInit, WakeInv, NoWatch
<1>2. LiveInv /\ WakeInv /\ [Next]_vars => WakeInv'
  BY ReadsLeaveToken, JobKeepsToken DEF LiveInv, JobInv
<1>3. WakeInv => WakeUpNotLost
  BY DEF WakeInv, WakeUpNotLost, At, Watched, InBatch, Answered
<1> QED BY <1>1, <1>2, <1>3, LiveInductive, PTL DEF Spec

-----------------------------------------------------------------------------
(* The batch in flight.  StaleBatchDropped fails for a batch that was        *)
(* ordered for one run and started in the next: TLC's run shows it.  From    *)
(* the moment the watcher listens, nothing gets past it.                     *)

\* A run other than the watcher's has its token in the channel, or has taken the
\* batch back, or is served by it.
DropInv == pc \in InBatch /\ watch.off # offset /\ ~BatchServes(offset)
             => runStarted \/ watch.retargeted

\* A step of the source leaves a token for a run that is not the last one's.
LEMMA ReadsKeepBatch ==
  ASSUME SourceTypeOK, DropInv, Reads
  PROVE  DropInv'
<1>1. UNCHANGED jobVars
  BY DEF Reads, Poll, HandlerReads, ReadGoesOn, Outside
<1>2. UNCHANGED <<offset, runStarted>> \/ runStarted' = TRUE
  <2>1. ASSUME NEW who, BeginRead(who)
        PROVE  UNCHANGED <<offset, runStarted>> \/ runStarted' = TRUE
    <3>1. CASE ~offsetSeen \/ run.off # offset
      BY <2>1, <3>1 DEF BeginRead
    <3>2. CASE ~(~offsetSeen \/ run.off # offset)
      BY <2>1, <3>2 DEF BeginRead, SourceTypeOK
    <3> QED BY <3>1, <3>2
  <2>2. ASSUME NEW who, ReadRetired(who) \/ ReadGone(who) \/ ReadFails(who)
        PROVE  UNCHANGED <<offset, runStarted>>
    BY <2>2 DEF ReadRetired, ReadGone, ReadFails, runVars
  <2>3. (\E c \in Film : Segment(c)) \/ EndRead => UNCHANGED <<offset, runStarted>>
    BY DEF Segment, FetchSegment, SegmentFails, SkipSegment, EndRead, runVars
  <2>4. Outside => UNCHANGED <<offset, runStarted>>
    BY DEF Outside, World, Ages, Retire, runVars
  <2> QED BY <2>1, <2>2, <2>3, <2>4 DEF Reads, Poll, HandlerReads, ReadGoesOn
<1>3. CASE runStarted' = TRUE
  <2> HIDE DEF BatchServes
  <2> QED BY <1>3 DEF DropInv
<1>4. CASE UNCHANGED <<offset, runStarted>>
  <2>1. BatchServes(offset)' <=> BatchServes(offset)
    BY <1>1, <1>4 DEF jobVars, BatchServes, TextAt, Meets
  <2> QED BY <1>1, <1>4, <2>1 DEF DropInv, jobVars
<1> QED BY <1>2, <1>3, <1>4

\* The job's own steps that stay in a batch leave it, the run and the token as
\* they are, but for the watcher, who takes the token and decides.
LEMMA BatchGoesOn ==
  ASSUME JobInv, [Next]_vars, ~Reads, pc' \in InBatch
  PROVE  \/ StartBatch
         \/ Retarget
         \/ pc \in InBatch /\ mem'.cues = mem.cues /\ UNCHANGED <<batch, watch, offset, runStarted>>
<1> USE DEF InBatch, At, Goto, Leave, Quiet, sourceVars, runVars
<1>1. CASE Translate
  <2>1. mem \in Lined /\ batch \in SUBSET PendingIn(mem) /\ mem' = Filled(batch)
    BY <1>1 DEF Translate, JobInv, Records, BatchFits, Loaded, Steps
  <2> QED BY <1>1, <2>1, FilledKeeps DEF Translate
<1>2. CASE StoreBatch \/ UNCHANGED vars
  BY <1>2 DEF StoreBatch, vars, jobVars
<1>3. CASE Ensure \/ CheckFinal \/ TryLock \/ StartFails \/ LeaseLost \/ NewSession
  BY <1>3 DEF Ensure, CheckFinal, TryLock, StartFails, LeaseLost, NewSession
<1>4. CASE Load \/ Wake \/ LookOk \/ LookStopped \/ LookTransient \/ Sync \/ Select \/ KeepAlive
  BY <1>4 DEF Load, Wake, LookOk, LookStopped, LookTransient, Sync, Select, KeepAlive
<1>5. CASE NoBatch \/ TranslateFails \/ RefreshLock \/ GoOn \/ Finish \/ RenderFails
  BY <1>5 DEF NoBatch, TranslateFails, RefreshLock, GoOn, Finish, RenderFails
<1>6. CASE KeepPartial \/ StoreBatchFails \/ RefreshLockFails
  BY <1>6 DEF KeepPartial, StoreBatchFails, RefreshLockFails, BatchFailed
<1>7. CASE Publish \/ PublishFails \/ PutFinal \/ PutFinalFails \/ DropProgress \/ PutStopped \/ ViewerGone
  BY <1>7 DEF Publish, PublishFails, PutFinal, PutFinalFails, DropProgress, PutStopped, ViewerGone
<1> QED
  BY <1>1, <1>2, <1>3, <1>4, <1>5, <1>6, <1>7 DEF Next, JobStep, Failure, Reads

\* The watcher lets a run go by only if it is the batch's own, or served by it.
LEMMA JobKeepsBatch ==
  ASSUME SourceTypeOK, JobInv, DropInv, [Next]_vars, ~Reads
  PROVE  DropInv'
<1> SUFFICES ASSUME pc' \in InBatch PROVE DropInv'
  BY DEF DropInv
<1>1. CASE StartBatch
  BY <1>1 DEF StartBatch, Quiet, sourceVars, runVars, DropInv
<1>2. CASE Retarget
  <2>1. UNCHANGED <<mem, batch, offset>> /\ watch'.off = watch.off
        /\ watch'.retargeted = (offset # watch.off /\ ~BatchServes(offset))
    BY <1>2 DEF Retarget, Unpolled, runVars, JobInv, TypeOK
  <2>2. BatchServes(offset)' <=> BatchServes(offset)
    BY <2>1 DEF BatchServes, TextAt, Meets
  <2> QED BY <2>1, <2>2 DEF DropInv
<1>3. CASE pc \in InBatch /\ mem'.cues = mem.cues /\ UNCHANGED <<batch, watch, offset, runStarted>>
  <2>1. BatchServes(offset)' <=> BatchServes(offset)
    BY <1>3 DEF BatchServes, TextAt, Meets
  <2> QED BY <1>3, <2>1 DEF DropInv
<1> QED BY <1>1, <1>2, <1>3, BatchGoesOn

\* A batch the viewer has left is dropped (StaleBatchDropped), if it was ordered
\* for the run its watcher started in: a run that begins while it is translated
\* and that it does not serve has taken it back, or its token is waiting for the
\* watcher, whoever read the playlist (live_job.go:678).
THEOREM WatchedBatchIsDropped == Spec => [](order = watch.off => StaleBatchDropped)
<1>1. Init => DropInv
  BY DEF Init, DropInv, InBatch
<1>2. LiveInv /\ DropInv /\ [Next]_vars => DropInv'
  BY ReadsKeepBatch, JobKeepsBatch DEF LiveInv
<1>3. DropInv => (order = watch.off => StaleBatchDropped)
  BY DEF DropInv, StaleBatchDropped, At, InBatch
<1> QED BY <1>1, <1>2, <1>3, LiveInductive, PTL DEF Spec

-----------------------------------------------------------------------------
(* Whose text a cue gets.  RightText fails after a seek back: the document  *)
(* is no longer in movie-time order, and the snapshot is (TLC's run shows   *)
(* it).  As long as the document grows in movie-time order every cue gets   *)
(* its own text, and without a seek or another session it does.             *)

InOrder(s) == \A i, j \in DOMAIN s : i < j => s[i] < s[j]

\* Each cue of a sequence in order has as many cues before it as places.
LEMMA PlaceInOrder ==
  ASSUME NEW s \in Seq(Film), InOrder(s), NEW k \in 1..Len(s)
  PROVE  Cardinality({d \in {s[j] : j \in DOMAIN s} : d < s[k]}) = k - 1
<1> DEFINE before == {d \in {s[j] : j \in DOMAIN s} : d < s[k]}
           at == [j \in 1..(k - 1) |-> s[j]]
<1> USE LiveSourceAssumption DEF LiveSourceAssumption
<1>1. Len(s) \in Nat /\ DOMAIN s = 1..Len(s) /\ k \in Nat /\ k - 1 \in Nat
  OBVIOUS
<1>2. \A i \in 1..Len(s) : s[i] \in Int
  OBVIOUS
<1>3. \A j \in 1..Len(s) : s[j] < s[k] <=> j < k
  <2> TAKE j \in 1..Len(s)
  <2>1. j < k \/ j = k \/ k < j
    BY <1>1
  <2>2. j < k => s[j] < s[k]
    BY <1>1 DEF InOrder
  <2>3. k < j => s[k] < s[j]
    BY <1>1 DEF InOrder
  <2> QED BY <1>1, <1>2, <2>1, <2>2, <2>3
<1>4. before = {s[j] : j \in 1..(k - 1)}
  <2>1. \A j \in 1..Len(s) : j < k <=> j \in 1..(k - 1)
    BY <1>1
  <2>2. \A j \in 1..(k - 1) : j \in 1..Len(s)
    BY <1>1
  <2> QED BY <1>1, <1>3, <2>1, <2>2
<1>5. ExistsBijection(1..(k - 1), before)
  <2>1. at \in [1..(k - 1) -> before]
    BY <1>4
  <2>2. \A i, j \in 1..(k - 1) : at[i] = at[j] => i = j
    <3> TAKE i \in 1..(k - 1), j \in 1..(k - 1)
    <3> HAVE at[i] = at[j]
    <3>1. s[i] = s[j] /\ i \in 1..Len(s) /\ j \in 1..Len(s)
      BY <1>1
    <3>2. i < j \/ i = j \/ j < i
      OBVIOUS
    <3>3. s[i] \in Int /\ s[j] \in Int /\ (i < j => s[i] < s[j]) /\ (j < i => s[j] < s[i])
      BY <1>1, <1>2, <3>1 DEF InOrder
    <3> HIDE DEF at
    <3> QED BY <3>1, <3>2, <3>3
  <2>3. \A c \in before : \E j \in 1..(k - 1) : at[j] = c
    BY <1>4
  <2>4. at \in Bijection(1..(k - 1), before)
    BY <2>1, <2>2, <2>3 DEF Bijection, Injection, IsInjective, Surjection
  <2> QED BY <2>4 DEF ExistsBijection
<1>6. IsFiniteSet(1..(k - 1)) /\ Cardinality(1..(k - 1)) = k - 1
  <2>1. \A n \in Nat : IsFiniteSet(1..n) /\ Cardinality(1..n) = n
    BY ONLY FS_Interval
  <2> QED BY <1>1, <2>1
<1> QED BY <1>5, <1>6, FS_Bijection

\* In a record in order the text at an index is that of the cue at the index.
LEMMA TextInOrder ==
  ASSUME mem \in Lined, InOrder(mem.cues), NEW i \in DOMAIN mem.cues
  PROVE  TextAt(i) = mem.cues[i]
<1> DEFINE cues == {mem.cues[j] : j \in DOMAIN mem.cues}
           Below(c) == Cardinality({d \in cues : d < c})
<1>1. mem.cues \in Seq(Film) /\ DOMAIN mem.cues = 1..Len(mem.cues)
  <2>1. mem.cues \in Seq(Film)
    BY DEF Lined, Record
  <2> QED BY <2>1
<1>2. \A k \in 1..Len(mem.cues) : Below(mem.cues[k]) = k - 1
  BY <1>1, PlaceInOrder
<1>3. \A c \in cues : Below(c) = i - 1 => c = mem.cues[i]
  <2> TAKE c \in cues
  <2> HAVE Below(c) = i - 1
  <2>1. PICK k \in 1..Len(mem.cues) : c = mem.cues[k]
    BY <1>1
  <2>2. k - 1 = i - 1 /\ i \in 1..Len(mem.cues)
    BY <1>1, <1>2, <2>1
  <2>3. k = i
    BY <2>2
  <2> QED BY <2>1, <2>3
<1>4. mem.cues[i] \in cues /\ Below(mem.cues[i]) = i - 1
  BY <1>1, <1>2
<1>5. TextAt(i) = CHOOSE c \in cues : Below(c) = i - 1
  BY DEF TextAt
<1> HIDE DEF Below
<1> QED BY <1>3, <1>4, <1>5

\* A record in order, with every line its cue's own.
OwnLines(rec) == InOrder(rec.cues) /\ \A c \in Film : rec.tr[c] \in {0, c}

\* Filing pending texts in it files each under its cue.
LEMMA FilledOwnLines ==
  ASSUME mem \in Lined, OwnLines(mem), NEW S \in SUBSET PendingIn(mem)
  PROVE  OwnLines(Filled(S))
<1>1. Filled(S).cues = mem.cues
  BY FilledKeeps
<1>2. \A c \in Film : Filled(S).tr[c] =
        IF \E i \in S : mem.cues[i] = c THEN TextAt(CHOOSE i \in S : mem.cues[i] = c) ELSE mem.tr[c]
  BY DEF Filled, Lined, Record
<1>3. ASSUME NEW c \in Film, \E i \in S : mem.cues[i] = c
      PROVE  TextAt(CHOOSE i \in S : mem.cues[i] = c) = c
  <2> DEFINE i == CHOOSE i \in S : mem.cues[i] = c
  <2>1. i \in DOMAIN mem.cues /\ mem.cues[i] = c
    BY <1>3 DEF PendingIn
  <2> HIDE DEF i
  <2>2. TextAt(i) = c
    BY <2>1, TextInOrder DEF OwnLines
  <2> QED BY <2>2 DEF i
<1> QED BY <1>1, <1>2, <1>3 DEF OwnLines

TextInv == /\ record # NoRecord => OwnLines(record)
           /\ mem # NoRecord => OwnLines(mem)

\* Every step keeps the lines in the store and in the job's hands their cues' own.
LEMMA LinesStayOwn ==
  ASSUME SourceTypeOK, NoTwice(doc), JobInv, InOrder(doc), TextInv, [Next]_vars
  PROVE  TextInv'
<1> USE DEF JobInv, Records, Loaded, Steps, At, Goto, Quiet, Calls, storeVars
<1>1. CASE Load
  <2>1. OwnLines(FreshRecord)
    BY DEF OwnLines, InOrder, FreshRecord, NoLines
  <2>2. ASSUME record # NoRecord PROVE OwnLines(Rearmed(record))
    <3>1. Rearmed(record).cues = record.cues /\ Rearmed(record).tr = record.tr
      BY <2>2, StatusKeepsLines DEF Rearmed
    <3> QED BY <2>2, <3>1 DEF TextInv, OwnLines
  <2> QED BY <1>1, <2>1, <2>2 DEF Load, TextInv
<1>2. ASSUME pc \in Loaded, NEW st \in {"done", "stopped"} PROVE OwnLines(Stopped(st))
  <2>1. mem \in Lined /\ mem # NoRecord
    BY <1>2, LiveJobAssumption DEF LiveJobAssumption, Lined
  <2>2. Stopped(st).cues = mem.cues /\ Stopped(st).tr = mem.tr
    <3>1. st \in {"", "done", "stopped"} /\ FALSE \in BOOLEAN
      BY <1>2
    <3> QED BY <2>1, <3>1, StatusKeepsLines DEF Stopped
  <2> QED BY <2>1, <2>2 DEF TextInv, OwnLines
<1>3. CASE LookStopped \/ Finish \/ RenderFails
  BY <1>2, <1>3 DEF LookStopped, ReadEnded, Finish, RenderFails, TextInv
<1>4. CASE Sync
  <2>1. mem \in Lined /\ mem # NoRecord /\ doc \in Seq(Film)
    BY <1>4, LiveJobAssumption DEF LiveJobAssumption, Sync, Lined, SourceTypeOK
  <2>2. mem'.cues = doc /\ mem'.tr = mem.tr
    BY <1>4, <2>1, SyncKeepsLines DEF Sync
  <2> QED BY <1>4, <2>1, <2>2 DEF Sync, TextInv, OwnLines
<1>5. CASE Select
  BY <1>5 DEF Select, TextInv
<1>6. CASE Translate \/ TranslateFails
  <2>1. mem \in Lined /\ mem # NoRecord /\ batch \in SUBSET PendingIn(mem)
    BY <1>6, LiveJobAssumption DEF LiveJobAssumption, Translate, TranslateFails, Lined, BatchFits
  <2>2. \A k : Earliest(batch, k) \in SUBSET PendingIn(mem)
    BY <2>1 DEF Earliest
  <2>3. PICK S \in SUBSET PendingIn(mem) : mem' = Filled(S)
    BY <1>6, <2>1, <2>2 DEF Translate, TranslateFails
  <2>4. OwnLines(Filled(S))
    BY <2>1, FilledOwnLines DEF TextInv
  <2> QED BY <1>6, <2>3, <2>4 DEF Translate, TranslateFails, TextInv
<1>7. CASE Waits \/ Moves
  <2>1. UNCHANGED record /\ mem' \in {mem, NoRecord}
    <3>1. UNCHANGED record
      BY <1>7, MovesKeepRecords
    <3>2. mem' \in {mem, NoRecord}
      BY <1>7 DEF Waits, Moves, Ensure, CheckFinal, TryLock, StartFails, RefreshLockFails,
           BatchFailed, LeaseLost, NewSession, Leave, Wake, Poll, LookOk, LookTransient, StartBatch,
           NoBatch, Retarget, RefreshLock, GoOn, KeepAlive, HandlerReads, ReadGoesOn, Outside, jobVars
    <3> QED BY <3>1, <3>2
  <2> QED BY <2>1 DEF TextInv
<1>8. CASE Writes
  <2>1. record' \in {record, mem, NoRecord}
    BY <1>8, WritesAreApplied
  <2>2. mem' \in {mem, NoRecord}
    BY <1>8 DEF Writes, KeepPartial, StoreBatch, StoreBatchFails, BatchFailed, Publish,
         PublishFails, PutStopped, ViewerGone, DropProgress, Leave
  <2> QED BY <2>1, <2>2 DEF TextInv
<1>9. CASE PutFinal \/ PutFinalFails
  BY <1>9 DEF PutFinal, PutFinalFails, Leave, TextInv
<1>10. CASE UNCHANGED vars
  BY <1>10 DEF vars, jobVars, TextInv
<1> QED
  BY <1>1, <1>3, <1>4, <1>5, <1>6, <1>7, <1>8, <1>9, <1>10, JobSteps DEF Works

\* As long as the document grows in movie-time order, every cue is filed with the
\* translation of its own text (RightText), through any batches, failures and
\* restarts of the job (textsFor and batchServes index one document with the
\* indexes of another).
THEOREM TextsAreOwnInOrder == Spec /\ []InOrder(doc) => []RightText
<1>1. Init => TextInv
  BY DEF Init, TextInv
<1>2. LiveInv /\ InOrder(doc) /\ TextInv /\ [Next]_vars => TextInv'
  BY LinesStayOwn DEF LiveInv
<1>3. TextInv => RightText
  BY DEF TextInv, OwnLines, RightText
<1> QED BY <1>1, <1>2, <1>3, LiveInductive, PTL DEF Spec

\* One run of one session: every read is of it, and what lies between its start
\* and a cue of the document was read before that cue.
PrefixRead == \A d \in InDoc : \A e \in (run.off + 1)..(d - 1) : <<run.off, e>> \in seen

OneRun == /\ seeks = 0
          /\ reading # NoRead => reading.off = run.off
          /\ PrefixRead
          /\ InOrder(doc)

\* The segment a read is at is the first one that is missing, so its cue comes
\* after every cue of the document.
LEMMA FetchKeepsOrder ==
  ASSUME SourceTypeOK, OneRun, NEW c \in Film, FetchSegment(c)
  PROVE  PrefixRead' /\ InOrder(doc')
<1> USE LiveSourceAssumption DEF LiveSourceAssumption
<1>1. /\ reading # NoRead /\ reading.off = run.off /\ run.off \in Int /\ reading.upto \in Int
      /\ doc \in Seq(Film) /\ c \in Int
      /\ run' = run /\ seen \subseteq seen' /\ doc' = Appended(c)
  <2>1. reading # NoRead /\ reading \in Playlist /\ run.off \in Offsets
    BY DEF FetchSegment, AtSegment, SourceTypeOK
  <2>2. reading.off = run.off /\ run.off \in Int /\ reading.upto \in Int
    <3>1. reading.off = run.off
      BY <2>1 DEF OneRun
    <3>2. reading.upto \in 0..Cues
      BY <2>1 DEF Playlist
    <3>3. run.off \in 0..(Cues - 1)
      BY <2>1
    <3> QED BY <3>1, <3>2, <3>3
  <2>3. run' = run /\ seen \subseteq seen' /\ doc' = Appended(c)
    BY DEF FetchSegment, worldVars
  <2> QED BY <2>1, <2>2, <2>3 DEF SourceTypeOK
<1>2. /\ c > run.off /\ c <= reading.upto /\ <<run.off, c>> \notin seen
      /\ \A e \in (run.off + 1)..(c - 1) : <<run.off, e>> \in seen
  <2>1. c \in Left /\ \A e \in Left : c <= e
    BY DEF FetchSegment, AtSegment
  <2>2. c \in (run.off + 1)..reading.upto /\ <<run.off, c>> \notin seen
    BY <1>1, <2>1 DEF Left
  <2>3. c > run.off /\ c <= reading.upto
    BY <1>1, <2>2
  <2>4. ASSUME NEW e \in (run.off + 1)..(c - 1) PROVE <<run.off, e>> \in seen
    <3>1. e \in (run.off + 1)..reading.upto /\ ~(c <= e)
      BY <1>1, <2>3
    <3> QED BY <1>1, <2>1, <3>1 DEF Left
  <2> QED BY <2>2, <2>3, <2>4
<1>3. CASE c \in InDoc
  <2>1. doc' = doc /\ InDoc' = InDoc
    BY <1>1, <1>3 DEF Appended, InDoc
  <2> QED BY <1>1, <2>1 DEF OneRun, PrefixRead
<1>4. CASE c \notin InDoc
  <2>1. doc' = Append(doc, c)
    BY <1>1, <1>4 DEF Appended
  <2>2. /\ DOMAIN doc = 1..Len(doc) /\ Len(doc) \in Nat
        /\ DOMAIN doc' = 1..(Len(doc) + 1)
        /\ \A i \in 1..Len(doc) : doc'[i] = doc[i] /\ doc[i] \in Int
        /\ doc'[Len(doc) + 1] = c
    BY <1>1, <2>1
  <2>3. InDoc' = InDoc \cup {c}
    BY <2>2 DEF InDoc
  <2>4. PrefixRead'
    BY <1>1, <1>2, <2>3 DEF OneRun, PrefixRead
  <2>5. \A i \in 1..Len(doc) : doc[i] < c
    <3> TAKE i \in 1..Len(doc)
    <3>1. doc[i] \in InDoc /\ doc[i] # c
      BY <1>4, <2>2 DEF InDoc
    <3>2. ~(c < doc[i])
      <4> SUFFICES ASSUME c < doc[i] PROVE FALSE
        OBVIOUS
      <4>1. c \in (run.off + 1)..(doc[i] - 1)
        BY <1>1, <1>2, <2>2
      <4> QED BY <1>2, <3>1, <4>1 DEF OneRun, PrefixRead
    <3> QED BY <1>1, <2>2, <3>1, <3>2
  <2>6. InOrder(doc')
    <3> SUFFICES ASSUME NEW i \in 1..(Len(doc) + 1), NEW j \in 1..(Len(doc) + 1), i < j
                 PROVE  doc'[i] < doc'[j]
      BY <2>2 DEF InOrder
    <3>1. i \in 1..Len(doc) /\ (j \in 1..Len(doc) \/ j = Len(doc) + 1)
      BY <2>2
    <3> QED BY <2>2, <2>5, <3>1 DEF OneRun, InOrder
  <2> QED BY <2>4, <2>6
<1> QED BY <1>3, <1>4

\* No other step adds a cue, and without a seek none starts a run.
LEMMA OneRunStays ==
  ASSUME SourceTypeOK, OneRun, [SourceNext]_sourceVars \/ Touches \/ Replaces
  PROVE  OneRun'
<1>1. ASSUME UNCHANGED <<seeks, doc>>, run'.off = run.off, seen \subseteq seen',
             reading' # NoRead => reading'.off = run.off
      PROVE  OneRun'
  BY <1>1 DEF OneRun, PrefixRead, InDoc, InOrder
<1>2. CASE Touches \/ UNCHANGED sourceVars
  BY <1>1, <1>2 DEF Touches, OneRun, sourceVars, worldVars, segVars
<1>3. ~Replaces
  BY DEF Replaces, NewSource, OneRun
<1>4. ASSUME NEW c \in Film, Segment(c) PROVE OneRun'
  <2>1. /\ UNCHANGED <<run, seeks>> /\ reading # NoRead /\ reading \in Playlist /\ run.off = reading.off
    BY <1>4 DEF Segment, FetchSegment, SegmentFails, SkipSegment, AtSegment, worldVars, SourceTypeOK, OneRun
  <2>2. reading' # NoRead => reading'.off = run.off
    BY <1>4, <2>1 DEF Segment, FetchSegment, SegmentFails, SkipSegment, Abort, Playlist
  <2>3. CASE FetchSegment(c)
    BY <2>1, <2>2, <2>3, FetchKeepsOrder DEF OneRun
  <2>4. CASE SegmentFails(c) \/ SkipSegment(c)
    BY <1>1, <2>1, <2>2, <2>4 DEF SegmentFails, SkipSegment
  <2> QED BY <1>4, <2>3, <2>4 DEF Segment
<1>5. CASE World
  <2>1. UNCHANGED <<seeks, doc, seen, reading>> /\ run'.off = run.off
    BY <1>5 DEF World, Write, EndList, Seek, Reap, OneRun, segVars, SourceTypeOK
  <2> QED BY <1>1, <2>1 DEF OneRun
<1>6. CASE Ages \/ Retire \/ EndRead
  BY <1>1, <1>6 DEF Ages, Retire, EndRead, OneRun, worldVars, segVars
<1>7. ASSUME NEW who \in Readers,
             BeginRead(who) \/ ReadRetired(who) \/ ReadGone(who) \/ ReadFails(who)
      PROVE  OneRun'
  BY <1>1, <1>7 DEF BeginRead, ReadRetired, ReadGone, ReadFails, OneRun, worldVars, segVars
<1> QED BY <1>2, <1>3, <1>4, <1>5, <1>6, <1>7 DEF SourceNext, Read

\* Without a seek and without another session every cue is filed with the
\* translation of its own text (RightText), wherever the run started, whatever
\* segments were given up on and however often the job was started.
THEOREM TextsAreOwnWithoutSeeks ==
  ASSUME MaxSeeks = 0
  PROVE  Spec => []RightText
<1>1. Init => OneRun
  BY DEF Init, SourceInit, OneRun, PrefixRead, InDoc, InOrder
<1>2. LiveInv /\ OneRun /\ [Next]_vars => OneRun'
  <2> SUFFICES ASSUME LiveInv, OneRun, [Next]_vars PROVE OneRun'
    OBVIOUS
  <2>1. watch.taken \in BOOLEAN /\ SourceTypeOK
    BY DEF LiveInv, JobInv, TypeOK
  <2> QED BY <2>1, SourceSide, OneRunStays
<1>3. OneRun => InOrder(doc)
  BY DEF OneRun
<1> QED BY <1>1, <1>2, <1>3, LiveInductive, TextsAreOwnInOrder, PTL DEF Spec

-----------------------------------------------------------------------------
(* What a source marked over says.  RunEndedMeansNoWork fails when a viewer's *)
(* read adds a cue behind the job's last look (TLC's run shows it).  That is  *)
(* the only way it can: while the job alone reads the playlist, a source is   *)
(* marked over with everything it carries translated and stored, for any      *)
(* number of seeks, sessions and failures of the store and the upstream.      *)

StoredLines == IF record = NoRecord THEN NoLines ELSE record.tr

\* Where the job and the store agree on every line: everywhere but between
\* translating a batch and storing it.
Stored == {"wait", "poll", "snapshot", "select", "choose", "translate", "refresh", "publish",
           "settle", "final", "keepalive", "stop"}

AloneReads == reading # NoRead => reading.by = "job"

\* The job's snapshot is the document: it grows in the job's own reads alone.
AloneSnap == pc \in Snapped => mem.cues = doc

\* No batch is taken back: a new run is only seen by the read that asks for it.
AloneBatch == /\ ~watch.retargeted
              /\ pc \in Watched => watch.off = offset

AloneLines == pc \in Stored => mem.tr = StoredLines

AloneMark == runEnded => /\ pc \in {"stop", "idle"}
                         /\ \A c \in InDoc : StoredLines[c] # 0

AloneInv == AloneReads /\ AloneSnap /\ AloneBatch /\ AloneLines /\ AloneMark

\* A read in flight is the job's, and the job is waiting for it.
LEMMA AloneWaits ==
  ASSUME FilmInv, AloneReads, reading # NoRead
  PROVE  pc = "poll" /\ ref = NoRef
BY DEF FilmInv, JobReads, AloneReads

\* While the job does something else the source stands still.
LEMMA AloneStill ==
  ASSUME FilmInv, AloneReads, [Next]_vars, ~HandlerReads, ~NewSession, pc # "poll"
  PROVE  UNCHANGED <<reading, doc, offset>>
<1> USE DEF Quiet, Calls, Unpolled, sourceVars, segVars, runVars
<1>1. ~Poll /\ ~ReadGoesOn
  BY AloneWaits DEF Poll, At, ReadGoesOn, Segment, FetchSegment, SegmentFails, SkipSegment,
     AtSegment, EndRead
<1>2. CASE Outside
  BY <1>2 DEF Outside, World, Ages, Retire
<1>3. CASE Ensure \/ StartBatch \/ UNCHANGED vars
  BY <1>3 DEF Ensure, StartBatch, vars
<1>4. CASE CheckFinal \/ TryLock \/ Load \/ LookOk \/ LookStopped \/ Sync \/ Select \/ NoBatch
           \/ Translate \/ StoreBatch \/ Publish \/ GoOn \/ PutFinal \/ KeepAlive
  BY <1>4 DEF CheckFinal, TryLock, Load, LookOk, LookStopped, Sync, Select, NoBatch, Translate,
              StoreBatch, Publish, GoOn, PutFinal, KeepAlive
<1>5. CASE Wake \/ LookTransient \/ RefreshLock \/ Retarget \/ KeepPartial \/ DropProgress
           \/ PutStopped \/ Finish
  BY <1>5 DEF Wake, LookTransient, RefreshLock, Retarget, KeepPartial, DropProgress, PutStopped,
              Finish
<1>6. CASE Failure
  BY <1>6 DEF Failure, StartFails, TranslateFails, StoreBatchFails, RefreshLockFails,
              PublishFails, RenderFails, PutFinalFails, LeaseLost, ViewerGone
<1> QED BY <1>1, <1>2, <1>3, <1>4, <1>5, <1>6 DEF Next, JobStep

LEMMA AloneReadsKept ==
  ASSUME SourceTypeOK, AloneReads, [Next]_vars, ~HandlerReads
  PROVE  AloneReads'
<1> USE DEF AloneReads
<1>1. CASE Poll
  BY <1>1 DEF Poll, BeginRead, ReadRetired, ReadGone, ReadFails
<1>2. CASE EndRead \/ Outside \/ NewSession
  BY <1>2 DEF EndRead, Outside, World, Ages, Retire, NewSession, NewSource
<1>3. ASSUME NEW c \in Film, Segment(c)
      PROVE  AloneReads'
  <2>1. reading # NoRead /\ reading \in Playlist
    BY <1>3 DEF Segment, FetchSegment, SegmentFails, SkipSegment, AtSegment, SourceTypeOK
  <2>2. reading' = NoRead \/ reading'.by = reading.by
    BY <1>3, <2>1 DEF Segment, FetchSegment, SegmentFails, SkipSegment, Abort, Playlist
  <2> QED BY <2>1, <2>2
<1>4. CASE ~Poll /\ ~ReadGoesOn /\ ~Outside /\ ~NewSession
  BY <1>4, JobLeavesSource DEF Aside
<1> QED BY <1>1, <1>2, <1>3, <1>4 DEF ReadGoesOn

\* The snapshot is taken by Sync, and kept to the end of the tick.
LEMMA SnappedBy ==
  ASSUME JobInv, [Next]_vars, pc' \in Snapped
  PROVE  Sync \/ (pc \in Snapped /\ mem'.cues = mem.cues)
<1> USE DEF Snapped, At, Goto, Leave
<1>1. CASE Translate
  <2>1. mem \in Lined /\ batch \in SUBSET PendingIn(mem) /\ mem' = Filled(batch)
    BY <1>1 DEF Translate, JobInv, Records, BatchFits, Loaded, Steps
  <2> QED BY <1>1, <2>1, FilledKeeps DEF Translate
<1>2. CASE Select \/ StartBatch \/ NoBatch \/ StoreBatch \/ Retarget \/ RefreshLock \/ Publish
  BY <1>2 DEF Select, StartBatch, NoBatch, StoreBatch, Retarget, InBatch, RefreshLock, Publish
<1>3. CASE Ensure \/ CheckFinal \/ TryLock \/ StartFails \/ LeaseLost \/ NewSession
  BY <1>3 DEF Ensure, CheckFinal, TryLock, StartFails, LeaseLost, NewSession
<1>4. CASE Load \/ Wake \/ LookOk \/ LookStopped \/ LookTransient \/ KeepAlive
  BY <1>4 DEF Load, Wake, LookOk, LookStopped, LookTransient, KeepAlive
<1>5. CASE TranslateFails \/ GoOn \/ Finish \/ RenderFails \/ PutFinal \/ PutFinalFails
  BY <1>5 DEF TranslateFails, GoOn, Finish, RenderFails, PutFinal, PutFinalFails
<1>6. CASE KeepPartial \/ StoreBatchFails \/ RefreshLockFails
  BY <1>6 DEF KeepPartial, StoreBatchFails, RefreshLockFails, BatchFailed
<1>7. CASE PublishFails \/ DropProgress \/ PutStopped \/ ViewerGone
  BY <1>7 DEF PublishFails, DropProgress, PutStopped, ViewerGone
<1>8. CASE Reads \/ UNCHANGED vars
  BY <1>8 DEF Reads, Poll, HandlerReads, ReadGoesOn, Outside, vars, jobVars
<1> QED BY <1>1, <1>2, <1>3, <1>4, <1>5, <1>6, <1>7, <1>8 DEF Next, JobStep, Failure, Reads

LEMMA AloneSnapKept ==
  ASSUME JobInv, FilmInv, AloneReads, AloneSnap, [Next]_vars, ~HandlerReads
  PROVE  AloneSnap'
<1> SUFFICES ASSUME pc' \in Snapped PROVE mem'.cues = doc'
  BY DEF AloneSnap
<1>1. ~NewSession
  BY DEF NewSession, Leave, Snapped
<1>2. CASE Sync
  <2>1. mem \in Lined /\ doc' = doc /\ mem' = [mem EXCEPT !.cues = doc]
    BY <1>2 DEF Sync, At, JobInv, Records, Loaded, Steps, Quiet, sourceVars, segVars
  <2> QED BY <2>1 DEF Lined, Record
<1>3. CASE pc \in Snapped /\ mem'.cues = mem.cues
  BY <1>1, <1>3, AloneStill DEF AloneSnap, Snapped
<1> QED BY <1>2, <1>3, SnappedBy

\* The watcher of a batch: it starts with the batch, and without a new run it
\* changes nothing but the token it holds.
LEMMA AloneBatchKept ==
  ASSUME TypeOK, FilmInv, AloneReads, AloneBatch, [Next]_vars, ~HandlerReads
  PROVE  AloneBatch'
<1> USE DEF AloneBatch, Watched, InBatch, At, Goto, Leave, Quiet, Calls, NoWatch
<1>1. CASE NewSession
  BY <1>1 DEF NewSession
<1> SUFFICES ASSUME ~NewSession PROVE AloneBatch'
  BY <1>1
<1>2. CASE StartBatch
  BY <1>2 DEF StartBatch, sourceVars, runVars
<1>3. CASE Retarget
  BY <1>3, AloneStill DEF Retarget, TypeOK
<1>4. CASE Translate \/ TranslateFails \/ StoreBatch
  BY <1>4, AloneStill DEF Translate, TranslateFails, StoreBatch
<1>5. CASE RefreshLock \/ KeepPartial \/ StoreBatchFails \/ RefreshLockFails
  BY <1>5 DEF RefreshLock, KeepPartial, StoreBatchFails, RefreshLockFails, BatchFailed
<1>6. CASE Ensure \/ CheckFinal \/ TryLock \/ StartFails \/ LeaseLost
  BY <1>6 DEF Ensure, CheckFinal, TryLock, StartFails, LeaseLost
<1>7. CASE Load \/ Wake \/ LookOk \/ LookStopped \/ LookTransient \/ Sync \/ Select \/ KeepAlive
  BY <1>7 DEF Load, Wake, LookOk, LookStopped, LookTransient, Sync, Select, KeepAlive
<1>8. CASE NoBatch \/ GoOn \/ Finish \/ RenderFails \/ PutFinal \/ PutFinalFails
  BY <1>8 DEF NoBatch, GoOn, Finish, RenderFails, PutFinal, PutFinalFails
<1>9. CASE Publish \/ PublishFails \/ DropProgress \/ PutStopped \/ ViewerGone
  BY <1>9 DEF Publish, PublishFails, DropProgress, PutStopped, ViewerGone
<1>10. CASE Reads \/ UNCHANGED vars
  <2>1. UNCHANGED jobVars
    BY <1>10 DEF Reads, Poll, HandlerReads, ReadGoesOn, Outside, vars
  <2>2. CASE pc = "poll"
    BY <2>1, <2>2 DEF jobVars
  <2>3. CASE pc # "poll"
    BY <2>1, <2>3, AloneStill DEF jobVars
  <2> QED BY <2>2, <2>3
<1> QED BY <1>2, <1>3, <1>4, <1>5, <1>6, <1>7, <1>8, <1>9, <1>10 DEF Next, JobStep, Failure, Reads

\* What a job translates is in the store before it does anything else, or the
\* job is over.
LEMMA AloneLinesKept ==
  ASSUME JobInv, AloneBatch, AloneLines, [Next]_vars
  PROVE  AloneLines'
<1> USE DEF AloneLines, Stored, StoredLines, At, Goto, Leave, storeVars
<1>1. pc \in Loaded => mem \in Record /\ mem # NoRecord
  BY LiveJobAssumption DEF LiveJobAssumption, JobInv, Records, Lined
<1>2. CASE Load
  <2>1. CASE record = NoRecord
    BY <1>2, <2>1 DEF Load, FreshRecord, Quiet
  <2>2. CASE record # NoRecord
    BY <1>2, <2>2 DEF Load, Rearmed, Quiet, JobInv, TypeOK, Record
  <2> QED BY <2>1, <2>2
<1>3. CASE LookStopped \/ Sync \/ Finish \/ RenderFails
  BY <1>1, <1>3 DEF LookStopped, Sync, Finish, RenderFails, ReadEnded, Stopped, Quiet, Loaded, Steps, Record
<1>4. CASE StoreBatch \/ Publish
  BY <1>1, <1>4 DEF StoreBatch, Publish, Loaded, Steps
<1>5. CASE KeepPartial \/ StoreBatchFails \/ RefreshLockFails
  BY <1>5 DEF KeepPartial, StoreBatchFails, RefreshLockFails, BatchFailed, AloneBatch
<1>6. CASE Translate \/ TranslateFails \/ PutFinal \/ PutFinalFails
  BY <1>6 DEF Translate, TranslateFails, PutFinal, PutFinalFails
<1>7. CASE Wake \/ LookOk \/ LookTransient \/ Select \/ StartBatch \/ NoBatch \/ KeepAlive \/ GoOn
  BY <1>7 DEF Wake, LookOk, LookTransient, ReadEnded, Select, StartBatch, NoBatch, KeepAlive,
     GoOn, Quiet
<1>8. CASE Retarget \/ RefreshLock
  BY <1>8 DEF Retarget, InBatch, RefreshLock
<1>9. CASE Ensure \/ CheckFinal \/ TryLock \/ StartFails \/ LeaseLost \/ NewSession
  BY <1>9 DEF Ensure, CheckFinal, TryLock, StartFails, LeaseLost, NewSession
<1>10. CASE PublishFails \/ DropProgress \/ PutStopped \/ ViewerGone
  BY <1>10 DEF PublishFails, DropProgress, PutStopped, ViewerGone
<1>11. CASE Reads \/ UNCHANGED vars
  BY <1>11 DEF Reads, Poll, HandlerReads, ReadGoesOn, Outside, vars, jobVars
<1> QED BY <1>2, <1>3, <1>4, <1>5, <1>6, <1>7, <1>8, <1>9, <1>10, <1>11
           DEF Next, JobStep, Failure, Reads

\* A source marked over is left alone: no job starts for it, and what the last
\* one stored stays.
LEMMA EndedRunRests ==
  ASSUME JobInv, FilmInv, AloneInv, [Next]_vars, ~HandlerReads, ~NewSession, runEnded
  PROVE  /\ pc' \in {"stop", "idle"}
         /\ \A c \in InDoc' : StoredLines'[c] # 0
<1>1. pc \in {"stop", "idle"} /\ (\A c \in InDoc : StoredLines[c] # 0) /\ doc' = doc
  BY AloneStill DEF AloneInv, AloneMark
<1>2. InDoc' = InDoc
  BY <1>1 DEF InDoc
<1>3. CASE PutStopped
  <2>1. mem \in Record /\ mem # NoRecord /\ mem.tr = StoredLines
    BY <1>3, LiveJobAssumption
       DEF PutStopped, At, LiveJobAssumption, JobInv, Records, Loaded, Steps, Lined, AloneInv,
           AloneLines, Stored
  <2>2. record' \in {record, mem} /\ pc' = "idle"
    BY <1>3 DEF PutStopped, Leave
  <2>3. StoredLines' = StoredLines
    BY <2>1, <2>2 DEF StoredLines
  <2> QED BY <1>1, <1>2, <2>2, <2>3
<1>4. CASE ~PutStopped
  <2>1. Reads \/ UNCHANGED vars
    BY <1>1, <1>4 DEF Next, JobStep, Failure, Reads, At, ReadEnded, Ensure, CheckFinal, TryLock, Load,
       StartFails, Wake, LookOk, LookStopped, LookTransient, Sync, Select, StartBatch, NoBatch,
       Retarget, InBatch, Translate, TranslateFails, KeepPartial, StoreBatch, StoreBatchFails,
       RefreshLock, RefreshLockFails, Publish, PublishFails, GoOn, Finish, RenderFails, PutFinal,
       PutFinalFails, DropProgress, KeepAlive, LeaseLost, ViewerGone
  <2>2. UNCHANGED <<pc, record>>
    BY <2>1 DEF Reads, Poll, HandlerReads, ReadGoesOn, Outside, vars, jobVars, storeVars
  <2> QED BY <1>1, <1>2, <2>2 DEF StoredLines
<1> QED BY <1>3, <1>4

LEMMA AloneMarkKept ==
  ASSUME SourceTypeOK, JobInv, FilmInv, AloneInv, [Next]_vars, ~HandlerReads
  PROVE  AloneMark'
<1>1. CASE NewSession
  BY <1>1 DEF NewSession, NewSource, AloneMark
<1>2. CASE ~NewSession /\ runEnded
  BY <1>2, EndedRunRests DEF AloneMark
<1>3. CASE Finish /\ ~contiguous
  <2>1. /\ pc = "settle" /\ pc' = "stop" /\ PendingIn(mem) = {} /\ mem.cues = doc
        /\ mem.tr = StoredLines /\ mem \in Record
    BY <1>3 DEF Finish, Finished, At, JobInv, BatchFits, Records, Loaded, Steps, Lined, AloneInv,
       AloneSnap, Snapped, AloneLines, Stored
  <2>2. UNCHANGED <<doc, record>>
    BY <1>3 DEF Finish, segVars, storeVars
  <2>3. \A i \in DOMAIN doc : mem.tr[doc[i]] # 0
    BY <2>1 DEF PendingIn
  <2>4. \A c \in InDoc : StoredLines[c] # 0
    BY <2>1, <2>3 DEF InDoc
  <2>5. InDoc' = InDoc /\ StoredLines' = StoredLines
    BY <2>2 DEF InDoc, StoredLines
  <2> QED BY <2>1, <2>4, <2>5 DEF AloneMark
<1>4. CASE ~NewSession /\ ~runEnded /\ ~(Finish /\ ~contiguous)
  <2>1. CASE Reads
    <3>1. ~runEnded'
      BY <1>4, <2>1 DEF Reads, Poll, HandlerReads, ReadGoesOn, Outside, World, Ages, Retire, BeginRead,
         ReadRetired, ReadGone, ReadFails, Segment, FetchSegment, SegmentFails, SkipSegment,
         EndRead, flagVars
    <3> QED BY <3>1 DEF AloneMark
  <2>2. CASE ~Reads
    <3> USE DEF Quiet, Calls, Unpolled, sourceVars, flagVars
    <3>1. CASE Finish
      BY <1>4, <3>1 DEF Finish, AloneMark
    <3>2. CASE Ensure \/ StartBatch \/ Retarget \/ Failure \/ UNCHANGED vars
      BY <1>4, <3>2 DEF Ensure, StartBatch, Retarget, vars, Failure, StartFails, TranslateFails,
         StoreBatchFails, RefreshLockFails, PublishFails, RenderFails, PutFinalFails,
         LeaseLost, ViewerGone, AloneMark
    <3>3. CASE JobStep /\ ~Finish
      BY <1>4, <3>3 DEF JobStep, CheckFinal, TryLock, Load, Wake, LookOk, LookStopped, LookTransient,
         Sync, Select, NoBatch, Translate, KeepPartial, StoreBatch, RefreshLock, Publish, GoOn,
         PutFinal, DropProgress, PutStopped, KeepAlive, AloneMark
    <3> QED BY <1>4, <2>2, <3>1, <3>2, <3>3 DEF Next, Reads
  <2> QED BY <2>1, <2>2
<1> QED BY <1>2, <1>3, <1>4, <1>1

\* A source marked over has nothing left to translate (RunEndedMeansNoWork), as
\* long as nobody but the job reads its playlist: no failed batch, write or read
\* and no restart of the job leaves the mark on a cue without a stored line, so
\* the viewers' reads are all that the mark has to fear (live_job.go:886).
THEOREM RunEndsWithoutWork == Spec /\ [][~HandlerReads]_vars => []RunEndedMeansNoWork
<1>1. Init => AloneInv
  BY DEF Init, SourceInit, AloneInv, AloneReads, AloneSnap, Snapped, AloneBatch, NoWatch, Watched,
     InBatch, AloneLines, Stored, AloneMark
<1>2. LiveInv /\ AloneInv /\ [Next]_vars /\ [~HandlerReads]_vars => AloneInv'
  <2> SUFFICES ASSUME LiveInv, AloneInv, [Next]_vars, [~HandlerReads]_vars PROVE AloneInv'
    OBVIOUS
  <2>1. CASE UNCHANGED vars
    BY <2>1 DEF vars, sourceVars, flagVars, runVars, segVars, storeVars, jobVars, AloneInv,
       AloneReads, AloneSnap, AloneBatch, AloneLines, StoredLines, AloneMark, InDoc
  <2>2. CASE ~HandlerReads
    BY <2>2, AloneReadsKept, AloneSnapKept, AloneBatchKept, AloneLinesKept, AloneMarkKept
       DEF AloneInv, LiveInv, JobInv
  <2> QED BY <2>1, <2>2
<1>3. AloneInv => RunEndedMeansNoWork
  BY DEF AloneInv, AloneMark, StoredLines, RunEndedMeansNoWork
<1> QED BY <1>1, <1>2, <1>3, LiveInductive, PTL DEF Spec

=============================================================================
