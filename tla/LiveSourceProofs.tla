-------------------------- MODULE LiveSourceProofs --------------------------
(***************************************************************************)
(* Theorems about LiveSource, for every film, set of offsets, strike limit *)
(* and cap: the source keeps its types, and a source that is contiguous    *)
(* and ended holds the whole film.                                         *)
(***************************************************************************)
EXTENDS LiveSource, SequenceTheorems, TLAPS

USE DEF Film, Segments

\* The source starts in its types.
LEMMA SourceTypeInit == SourceInit => SourceTypeOK
<1> SUFFICES ASSUME SourceInit PROVE SourceTypeOK
  OBVIOUS
<1> USE LiveSourceAssumption DEF LiveSourceAssumption
<1>1. run \in [off : Offsets, out : 0..Cues, fin : BOOLEAN]
  BY DEF SourceInit, StartAt
<1>2. fails \in [Segments -> 0..(MaxStrikes - 1)]
  BY DEF SourceInit
<1>3. seeks \in 0..MaxSeeks /\ faults \in 0..MaxFaults /\ seen \subseteq Segments
      /\ doc \in Seq(Film)
  BY DEF SourceInit
<1>4. QED
  BY <1>1, <1>2, <1>3 DEF SourceInit, SourceTypeOK

\* The transcoder and the viewer keep the types.
LEMMA WorldTypes == SourceTypeOK /\ World => SourceTypeOK'
<1> SUFFICES ASSUME SourceTypeOK, World PROVE SourceTypeOK'
  OBVIOUS
<1> USE LiveSourceAssumption DEF LiveSourceAssumption
<1>1. UNCHANGED <<faults, reading, segVars, flagVars, runVars, runStarted, ref>>
  BY DEF World
<1>2. run' \in [off : Offsets, out : 0..Cues, fin : BOOLEAN] /\ alive' \in BOOLEAN
      /\ seeks' \in 0..MaxSeeks
  <2>1. CASE Write
    <3>1. run.out \in 0..Cues /\ run.out + 1 \in 0..Cues
      BY <2>1 DEF Write, SourceTypeOK
    <3>2. QED
      BY <2>1, <3>1 DEF Write, SourceTypeOK
  <2>2. CASE EndList
    BY <2>2 DEF EndList, SourceTypeOK
  <2>3. CASE Seek
    <3>1. PICK o \in Offsets : run' = StartAt(o)
      BY <2>3 DEF Seek
    <3>2. o \in 0..Cues
      OBVIOUS
    <3>3. QED
      BY <2>3, <3>1, <3>2 DEF Seek, StartAt, SourceTypeOK
  <2>4. CASE Reap
    BY <2>4 DEF Reap, SourceTypeOK
  <2>5. QED
    BY <2>1, <2>2, <2>3, <2>4 DEF World
<1>3. QED
  BY <1>1, <1>2 DEF SourceTypeOK, segVars, flagVars, runVars

\* The steps of a read before and after its segments keep the types.
LEMMA EdgeTypes ==
  ASSUME SourceTypeOK, NEW who \in Readers,
         BeginRead(who) \/ ReadRetired(who) \/ ReadGone(who) \/ ReadFails(who) \/ EndRead
  PROVE  SourceTypeOK'
<1> USE LiveSourceAssumption DEF LiveSourceAssumption
<1>1. CASE BeginRead(who)
  <2>1. reading' \in Playlist
    BY <1>1 DEF BeginRead, SourceTypeOK, Playlist
  <2>2. offset' \in Offsets /\ offsetSeen' \in BOOLEAN /\ runRead' \in BOOLEAN
        /\ fresh' \in BOOLEAN /\ runStarted' \in BOOLEAN
    BY <1>1 DEF BeginRead, SourceTypeOK
  <2>3. QED
    BY <1>1, <2>1, <2>2 DEF BeginRead, SourceTypeOK, worldVars, segVars, flagVars
<1>2. CASE ReadRetired(who)
  BY <1>2 DEF ReadRetired, Return, Failed, Result, SourceTypeOK, worldVars, segVars, flagVars, runVars
<1>3. CASE ReadGone(who)
  BY <1>3 DEF ReadGone, Return, Failed, Result, SourceTypeOK, worldVars, segVars, runVars
<1>4. CASE ReadFails(who)
  BY <1>4 DEF ReadFails, Fault, Return, Failed, Result, SourceTypeOK, worldVars, segVars, flagVars, runVars
<1>5. CASE EndRead
  BY <1>5 DEF EndRead, ContiguousAfter, EndedAfter, Return, Result, Playlist, SourceTypeOK,
              worldVars, segVars, runVars
<1>6. QED
  BY <1>1, <1>2, <1>3, <1>4, <1>5

\* Dealing with a segment keeps the types: a segment is struck fewer than
\* MaxStrikes times, or it is seen.
LEMMA SegmentTypes ==
  ASSUME SourceTypeOK, NEW c \in Film, Segment(c)
  PROVE  SourceTypeOK'
<1> USE LiveSourceAssumption DEF LiveSourceAssumption
<1>1. reading \in Playlist /\ <<reading.off, c>> \in Segments
  BY DEF Segment, FetchSegment, SegmentFails, SkipSegment, AtSegment, SourceTypeOK, Playlist
<1>2. CASE FetchSegment(c)
  <2>1. doc' \in Seq(Film) /\ Len(doc') - Len(doc) \in {0, 1}
    <3>1. doc \in Seq(Film) /\ doc' = (IF c \in InDoc THEN doc ELSE Append(doc, c))
      BY <1>2 DEF FetchSegment, Appended, SourceTypeOK
    <3>2. Append(doc, c) \in Seq(Film) /\ Len(Append(doc, c)) = Len(doc) + 1 /\ Len(doc) \in Nat
      BY <3>1
    <3>3. CASE c \in InDoc
      BY <3>1, <3>2, <3>3
    <3>4. CASE c \notin InDoc
      <4>1. doc' = Append(doc, c)
        BY <3>1, <3>4
      <4>2. QED
        BY <3>2, <4>1
    <3>5. QED
      BY <3>3, <3>4
  <2>2. CASE Outgrown(Len(doc'))
    <3>1. Abort("toolarge") /\ UNCHANGED <<seen, fails, runRead>>
      BY <1>2, <2>2 DEF FetchSegment
    <3>2. reading' = NoRead /\ ref' \in Result \cup {NoRef}
      BY <3>1 DEF Abort, Return, Failed, Result, SourceTypeOK
    <3>3. UNCHANGED <<worldVars, faults, flagVars, offset, offsetSeen, fresh, runStarted>>
      BY <1>2 DEF FetchSegment
    <3>4. QED
      BY <2>1, <3>1, <3>2, <3>3 DEF SourceTypeOK, worldVars, flagVars
  <2>3. CASE ~Outgrown(Len(doc'))
    <3>1. reading' \in Playlist
      <4>1. reading' = [reading EXCEPT !.added = @ + Len(doc') - Len(doc)]
        BY <1>2, <2>3 DEF FetchSegment
      <4>2. reading.added + Len(doc') - Len(doc) \in Nat
        <5>1. reading.added \in Nat
          BY <1>1 DEF Playlist
        <5> QED
          BY <2>1, <5>1 DEF SourceTypeOK
      <4>3. QED
        BY <1>1, <4>1, <4>2 DEF Playlist
    <3>2. seen' \subseteq Segments /\ fails' \in [Segments -> 0..(MaxStrikes - 1)]
      <4>1. /\ seen' = seen \cup {<<reading.off, c>>}
            /\ fails' = [fails EXCEPT ![<<reading.off, c>>] = 0]
        BY <1>2, <2>3 DEF FetchSegment
      <4>2. QED
        BY <1>1, <4>1 DEF SourceTypeOK
    <3>3. QED
      <4>1. runRead' \in BOOLEAN /\ UNCHANGED ref
        BY <1>2, <2>3 DEF FetchSegment
      <4>2. UNCHANGED <<worldVars, faults, flagVars, offset, offsetSeen, fresh, runStarted>>
        BY <1>2 DEF FetchSegment
      <4>3. QED
        BY <2>1, <3>1, <3>2, <4>1, <4>2 DEF SourceTypeOK, worldVars, flagVars
  <2>4. QED
    BY <2>2, <2>3
<1>3. CASE SegmentFails(c)
  <2>1. fails' \in [Segments -> 0..(MaxStrikes - 1)]
    BY <1>1, <1>3 DEF SegmentFails, Struck, LastStrike, SourceTypeOK
  <2>2. faults' \in 0..MaxFaults
    BY <1>3 DEF SegmentFails, FetchFault, Fault, SourceTypeOK
  <2>3. QED
    BY <1>1, <1>3, <2>1, <2>2 DEF SegmentFails, Abort, Return, Failed, Result, SourceTypeOK,
       worldVars, flagVars, runVars
<1>4. CASE SkipSegment(c)
  <2>1. fails' \in [Segments -> 0..(MaxStrikes - 1)] /\ seen' \subseteq Segments
    BY <1>1, <1>4 DEF SkipSegment, SourceTypeOK
  <2>2. faults' \in 0..MaxFaults
    BY <1>4 DEF SkipSegment, FetchFault, Fault, SourceTypeOK
  <2>3. QED
    <3>1. /\ contiguous' = FALSE
          /\ UNCHANGED <<worldVars, reading, doc, ended, runEnded, gone, retired, runVars,
                         runStarted, ref>>
      BY <1>4 DEF SkipSegment
    <3>2. /\ UNCHANGED <<run, alive, seeks, reading, doc, ended, runEnded, gone, retired, offset,
                         offsetSeen, runRead, fresh, runStarted, ref>>
          /\ contiguous' \in BOOLEAN
      BY <3>1 DEF worldVars, runVars
    <3>3. QED
      BY <2>1, <2>2, <3>2 DEF SourceTypeOK
<1>5. QED
  BY <1>2, <1>3, <1>4 DEF Segment

\* Every step of the source keeps its types.
LEMMA SourceTypeStep == SourceTypeOK /\ [SourceNext]_sourceVars => SourceTypeOK'
<1> SUFFICES ASSUME SourceTypeOK, [SourceNext]_sourceVars PROVE SourceTypeOK'
  OBVIOUS
<1>1. CASE World
  BY <1>1, WorldTypes
<1>2. CASE Ages \/ Retire
  <2>1. CASE Ages
    <3>1. /\ fresh' \in BOOLEAN
          /\ UNCHANGED <<run, alive, seeks, faults, reading, doc, seen, fails, ended, contiguous,
                         runEnded, gone, retired, offset, offsetSeen, runRead, runStarted, ref>>
      BY <2>1 DEF Ages, worldVars, segVars, flagVars
    <3> QED
      BY <3>1 DEF SourceTypeOK
  <2>2. CASE Retire
    <3>1. /\ retired' \in BOOLEAN
          /\ UNCHANGED <<run, alive, seeks, faults, reading, doc, seen, fails, ended, contiguous,
                         runEnded, gone, offset, offsetSeen, runRead, fresh, runStarted, ref>>
      BY <2>2 DEF Retire, worldVars, segVars, runVars
    <3> QED
      BY <3>1 DEF SourceTypeOK
  <2> QED
    BY <1>2, <2>1, <2>2
<1>3. CASE \E who \in Readers :
             BeginRead(who) \/ ReadRetired(who) \/ ReadGone(who) \/ ReadFails(who)
  BY <1>3, EdgeTypes
<1>4. CASE EndRead
  <2>1. reading.by \in Readers
    BY <1>4 DEF EndRead, SourceTypeOK, Playlist
  <2>2. QED
    BY <1>4, <2>1, EdgeTypes
<1>5. CASE \E c \in Film : Segment(c)
  BY <1>5, SegmentTypes
<1>6. CASE UNCHANGED sourceVars
  BY <1>6 DEF SourceTypeOK, sourceVars, worldVars, segVars, flagVars, runVars
<1>7. QED
  BY <1>1, <1>2, <1>3, <1>4, <1>5, <1>6 DEF SourceNext, Read

\* The type invariant of the source (SourceTypeOK).
THEOREM SourceTyped == SourceSpec => []SourceTypeOK
  BY SourceTypeInit, SourceTypeStep, PTL DEF SourceSpec

-----------------------------------------------------------------------------
(* A contiguous and ended source is whole.  Inductively: while no segment   *)
(* was given up on, every segment seen has its cue in the document; a       *)
(* playlist with ENDLIST lists up to the last cue; and only a run from the  *)
(* start of the film can have set the mark and left the other one.          *)

SeenIsRead == contiguous => \A o \in Offsets, c \in Film : <<o, c>> \in seen => c \in InDoc

ListIsWhole == /\ run.fin => run.out = Cues
               /\ reading # NoRead /\ reading.fin => reading.upto = Cues

StartWasRead == contiguous /\ ended => \A c \in Film : <<0, c>> \in seen

WholeInv == SeenIsRead /\ ListIsWhole /\ StartWasRead

\* The document only grows.
LEMMA AppendKeeps ==
  ASSUME SourceTypeOK, NEW c \in Film, doc' = Appended(c)
  PROVE  InDoc' = InDoc \cup {c}
<1>1. doc \in Seq(Film)
  BY DEF SourceTypeOK
<1>2. CASE c \in InDoc
  BY <1>2 DEF Appended, InDoc
<1>3. CASE c \notin InDoc
  <2>1. doc' = Append(doc, c)
    BY <1>3 DEF Appended
  <2>2. /\ DOMAIN doc' = DOMAIN doc \cup {Len(doc) + 1}
        /\ \A i \in DOMAIN doc : doc'[i] = doc[i]
        /\ doc'[Len(doc) + 1] = c
    BY <1>1, <2>1
  <2>3. QED
    BY <2>2 DEF InDoc
<1>4. QED
  BY <1>2, <1>3

\* At the start nothing is seen and nothing has ended.
LEMMA WholeInit == SourceInit => WholeInv
<1> SUFFICES ASSUME SourceInit PROVE WholeInv
  OBVIOUS
<1>1. SeenIsRead /\ StartWasRead
  BY DEF SourceInit, SeenIsRead, StartWasRead
<1>2. ListIsWhole
  BY DEF SourceInit, ListIsWhole, StartAt
<1>3. QED
  BY <1>1, <1>2 DEF WholeInv

\* The transcoder lists the whole run before ENDLIST, and the read takes over
\* what is listed.
LEMMA ListStep == SourceTypeOK /\ WholeInv /\ [SourceNext]_sourceVars => ListIsWhole'
<1> SUFFICES ASSUME SourceTypeOK, ListIsWhole, [SourceNext]_sourceVars PROVE ListIsWhole'
  BY DEF WholeInv
<1>1. CASE World
  <2>1. run'.fin => run'.out = Cues
    BY <1>1 DEF World, Write, EndList, Seek, Reap, StartAt, SourceTypeOK, ListIsWhole
  <2>2. UNCHANGED reading
    BY <1>1 DEF World
  <2>3. QED
    BY <2>1, <2>2 DEF ListIsWhole
<1>2. CASE Ages \/ Retire \/ UNCHANGED sourceVars
  BY <1>2 DEF Ages, Retire, ListIsWhole, sourceVars, worldVars
<1>3. ASSUME NEW who \in Readers,
             BeginRead(who) \/ ReadRetired(who) \/ ReadGone(who) \/ ReadFails(who)
      PROVE  ListIsWhole'
  BY <1>3 DEF BeginRead, ReadRetired, ReadGone, ReadFails, ListIsWhole, worldVars
<1>4. ASSUME NEW c \in Film, Segment(c)
      PROVE  ListIsWhole'
  <2>1. UNCHANGED run
    BY <1>4 DEF Segment, FetchSegment, SegmentFails, SkipSegment, worldVars
  <2>2. \/ reading' \in {reading, NoRead}
        \/ reading' = [reading EXCEPT !.added = @ + Len(doc') - Len(doc)]
    BY <1>4 DEF Segment, FetchSegment, SegmentFails, SkipSegment, Abort
  <2>3. reading \in Playlist
    BY <1>4 DEF Segment, FetchSegment, SegmentFails, SkipSegment, AtSegment, SourceTypeOK
  <2>4. reading' # NoRead => reading'.fin = reading.fin /\ reading'.upto = reading.upto
    BY <2>2, <2>3 DEF Playlist
  <2>5. reading # NoRead
    BY <1>4 DEF Segment, FetchSegment, SegmentFails, SkipSegment, AtSegment
  <2>6. QED
    BY <2>1, <2>4, <2>5 DEF ListIsWhole
<1>5. CASE EndRead
  BY <1>5 DEF EndRead, ListIsWhole, worldVars
<1>6. QED
  BY <1>1, <1>2, <1>3, <1>4, <1>5 DEF SourceNext, Read

\* What is marked seen was appended, or was given up on and the mark is gone.
LEMMA SeenStep == SourceTypeOK /\ WholeInv /\ [SourceNext]_sourceVars => SeenIsRead'
<1> SUFFICES ASSUME SourceTypeOK, SeenIsRead, [SourceNext]_sourceVars PROVE SeenIsRead'
  BY DEF WholeInv
<1>1. CASE UNCHANGED <<doc, seen>> /\ (contiguous' => contiguous)
  BY <1>1 DEF SeenIsRead, InDoc
<1>2. ASSUME NEW c \in Film, FetchSegment(c)
      PROVE  SeenIsRead'
  <2>1. InDoc' = InDoc \cup {c}
    BY <1>2, AppendKeeps DEF FetchSegment
  <2>2. seen' \in {seen, seen \cup {<<reading.off, c>>}} /\ UNCHANGED contiguous
    BY <1>2 DEF FetchSegment, flagVars
  <2>3. QED
    BY <2>1, <2>2 DEF SeenIsRead
<1>3. ASSUME NEW c \in Film, SkipSegment(c)
      PROVE  SeenIsRead'
  BY <1>3 DEF SkipSegment, SeenIsRead
<1>4. ASSUME NEW c \in Film, SegmentFails(c)
      PROVE  SeenIsRead'
  BY <1>1, <1>4 DEF SegmentFails, flagVars
<1>5. CASE EndRead
  BY <1>1, <1>5 DEF EndRead, ContiguousAfter, segVars
<1>6. CASE World \/ Ages \/ Retire \/ UNCHANGED sourceVars
  BY <1>1, <1>6 DEF World, Ages, Retire, sourceVars, segVars, flagVars
<1>7. ASSUME NEW who \in Readers,
             BeginRead(who) \/ ReadRetired(who) \/ ReadGone(who) \/ ReadFails(who)
      PROVE  SeenIsRead'
  BY <1>1, <1>7 DEF BeginRead, ReadRetired, ReadGone, ReadFails, segVars, flagVars
<1>8. QED
  BY <1>2, <1>3, <1>4, <1>5, <1>6, <1>7 DEF SourceNext, Read, Segment

\* Only the end of a read that dealt with every segment behind offset 0 can
\* set one mark and leave the other.
LEMMA StartStep == SourceTypeOK /\ WholeInv /\ [SourceNext]_sourceVars => StartWasRead'
<1> SUFFICES ASSUME SourceTypeOK, ListIsWhole, StartWasRead, [SourceNext]_sourceVars
             PROVE  StartWasRead'
  BY DEF WholeInv
<1> USE LiveSourceAssumption DEF LiveSourceAssumption
<1>1. CASE seen \subseteq seen' /\ (contiguous' => contiguous) /\ (ended' => ended)
  BY <1>1 DEF StartWasRead
<1>2. ASSUME NEW c \in Film, Segment(c)
      PROVE  StartWasRead'
  BY <1>1, <1>2 DEF Segment, FetchSegment, SegmentFails, SkipSegment, flagVars
<1>3. CASE EndRead
  <2>1. SUFFICES ASSUME contiguous', ended'
                 PROVE  \A c \in Film : <<0, c>> \in seen'
    BY DEF StartWasRead
  <2>2. contiguous /\ reading.off = 0 /\ UNCHANGED seen
    BY <1>3, <2>1 DEF EndRead, ContiguousAfter, segVars
  <2>3. CASE ended
    BY <2>2, <2>3 DEF StartWasRead
  <2>4. CASE ~ended
    <3>1. reading # NoRead /\ reading.fin /\ Left = {}
      BY <1>3, <2>1, <2>4 DEF EndRead, EndedAfter
    <3>2. reading.upto = Cues
      BY <3>1 DEF ListIsWhole
    <3>3. Left = {c \in 1..Cues : <<0, c>> \notin seen}
      BY <2>2, <3>2 DEF Left
    <3>4. QED
      BY <2>2, <3>1, <3>3
  <2>5. QED
    BY <2>3, <2>4
<1>4. CASE World \/ Ages \/ Retire \/ UNCHANGED sourceVars
  BY <1>1, <1>4 DEF World, Ages, Retire, sourceVars, segVars, flagVars
<1>5. ASSUME NEW who \in Readers,
             BeginRead(who) \/ ReadRetired(who) \/ ReadGone(who) \/ ReadFails(who)
      PROVE  StartWasRead'
  BY <1>1, <1>5 DEF BeginRead, ReadRetired, ReadGone, ReadFails, segVars, flagVars
<1>6. QED
  BY <1>2, <1>3, <1>4, <1>5 DEF SourceNext, Read

\* The strengthening is inductive.
LEMMA WholeInductive == SourceSpec => []WholeInv
<1>1. SourceTypeOK /\ WholeInv /\ [SourceNext]_sourceVars => WholeInv'
  BY ListStep, SeenStep, StartStep DEF WholeInv
<1>2. QED
  BY <1>1, WholeInit, SourceTyped, PTL DEF SourceSpec

\* A source that is contiguous and ended holds the whole film
\* (ContiguousIsWhole): what finishLive relies on for an artifact that is
\* served for good.
THEOREM ContiguousSourceIsWhole == SourceSpec => []ContiguousIsWhole
<1>1. SourceTypeOK /\ WholeInv => ContiguousIsWhole
  <2> SUFFICES ASSUME SourceTypeOK, WholeInv, contiguous, ended PROVE InDoc = Film
    BY DEF ContiguousIsWhole
  <2>1. InDoc \subseteq Film
    <3>1. \A i \in DOMAIN doc : doc[i] \in Film
      <4>1. doc \in Seq(Film)
        BY DEF SourceTypeOK
      <4>2. DOMAIN doc = 1..Len(doc)
        BY <4>1
      <4>3. ASSUME NEW i \in 1..Len(doc) PROVE doc[i] \in Film
        BY ONLY <4>1, <4>3, ElementOfSeq, Zenon
      <4>4. QED
        BY <4>2, <4>3
    <3>2. QED
      BY <3>1 DEF InDoc
  <2>2. ASSUME NEW c \in Film PROVE c \in InDoc
    BY LiveSourceAssumption DEF LiveSourceAssumption, WholeInv, StartWasRead, SeenIsRead
  <2>3. QED
    BY <2>1, <2>2
<1>2. QED
  BY <1>1, WholeInductive, SourceTyped, PTL

\* A source is only ended once some run was dealt with to its end
\* (EndedWasRead): segments stay seen, and only the end of a read that lists
\* up to the last cue sets the mark.
THEOREM EndedSourceWasRead == SourceSpec => []EndedWasRead
<1>1. SourceInit => EndedWasRead
  BY DEF SourceInit, EndedWasRead
<1>2. ASSUME SourceTypeOK, WholeInv, EndedWasRead, [SourceNext]_sourceVars
      PROVE  EndedWasRead'
  <2> USE LiveSourceAssumption DEF LiveSourceAssumption
  <2>1. CASE seen \subseteq seen' /\ (ended' => ended)
    BY <1>2, <2>1 DEF EndedWasRead
  <2>2. ASSUME NEW c \in Film, Segment(c)
        PROVE  EndedWasRead'
    BY <2>1, <2>2 DEF Segment, FetchSegment, SegmentFails, SkipSegment, flagVars
  <2>3. CASE EndRead
    <3>1. CASE ~reading.fin
      BY <2>1, <2>3, <3>1 DEF EndRead, EndedAfter, segVars
    <3>2. CASE reading.fin
      <4>1. reading \in Playlist /\ reading.upto = Cues /\ Left = {} /\ seen' = seen
        BY <1>2, <2>3, <3>2 DEF EndRead, SourceTypeOK, WholeInv, ListIsWhole, segVars
      <4>2. reading.off \in Offsets
        BY <4>1 DEF Playlist
      <4>3. \A c \in (reading.off + 1)..Cues : <<reading.off, c>> \in seen
        BY <4>1 DEF Left
      <4>4. QED
        BY <4>1, <4>2, <4>3 DEF EndedWasRead
    <3>3. QED
      BY <3>1, <3>2
  <2>4. CASE World \/ Ages \/ Retire \/ UNCHANGED sourceVars
    BY <2>1, <2>4 DEF World, Ages, Retire, sourceVars, segVars, flagVars
  <2>5. ASSUME NEW who \in Readers,
               BeginRead(who) \/ ReadRetired(who) \/ ReadGone(who) \/ ReadFails(who)
        PROVE  EndedWasRead'
    BY <2>1, <2>5 DEF BeginRead, ReadRetired, ReadGone, ReadFails, segVars, flagVars
  <2>6. QED
    BY <1>2, <2>2, <2>3, <2>4, <2>5 DEF SourceNext, Read
<1>3. QED
  BY <1>1, <1>2, SourceTyped, WholeInductive, PTL DEF SourceSpec

=============================================================================
