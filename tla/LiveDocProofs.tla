------------------------------ MODULE LiveDocProofs ------------------------------
(***************************************************************************)
(* What the document of a live session holds, and what the record keeps    *)
(* that is lined up with it, for any film, any runs and any shifts within  *)
(* the tolerance.                                                          *)
(*                                                                         *)
(* The document comes first (DocInv), then the record (RecordInv), then    *)
(* what was paid for (PaidInv), then what both are when cues are counted   *)
(* by their places in the film, as LiveSource and LiveJob count them.  The *)
(* loop that builds the record's tail is reasoned about by the least place *)
(* at which a claim would fail.                                            *)
(***************************************************************************)
EXTENDS LiveDoc, TLAPS, WellFoundedInduction

Entry == [start : Int, end : Int, text : STRING, run : Offsets, film : FilmCues]

\* What is stored is what its run said of its cue.
EntriesTrue == \A i \in 1..Len(doc) : KeyOf(doc[i]) = InRun(doc[i].film, doc[i].run)

\* What is stored was read into this document.
EntriesRead == \A i \in 1..Len(doc) : <<doc[i].film, doc[i].run>> \in read

DocInv == /\ doc \in Seq(Entry) /\ run \in Offsets
          /\ EntriesTrue /\ EntriesRead
          /\ StoredOnce

-----------------------------------------------------------------------------
\* A cue keeps its text in every run, and its end moves by no more than the
\* tolerance between two of them.
LEMMA InRunFacts ==
  ASSUME NEW f \in FilmCues, NEW o \in Offsets
  PROVE  /\ InRun(f, o).start \in Int /\ InRun(f, o).end \in Int
         /\ InRun(f, o).text = Film[f].text /\ Film[f].text \in STRING
         /\ \A p \in Offsets : Gap(InRun(f, p).end, InRun(f, o).end) <= Tolerance
<1>1. /\ Film[f] \in [start : Nat, end : Nat, text : STRING]
      /\ Film[f].start \in Nat /\ Film[f].end \in Nat /\ Film[f].text \in STRING
  <2> DEFINE Cue == [start : Nat, end : Nat, text : STRING]
  <2>1. Film \in Seq(Cue) /\ f \in 1..Len(Film)
    BY LiveDocAssumption DEF FilmCues
  <2> HIDE DEF Cue
  <2>2. Film[f] \in Cue
    BY <2>1
  <2> QED BY <2>2 DEF Cue
<1>2. \A p \in Offsets : Shift[p] \in Int /\ p \in Int
  BY LiveDocAssumption
<1>3. \A p \in Offsets : InRun(f, p).end = Film[f].end + Shift[p]
  BY DEF InRun
<1>4. ASSUME NEW p \in Offsets PROVE Gap(InRun(f, p).end, InRun(f, o).end) <= Tolerance
  <2>1. Gap(Shift[p], Shift[o]) <= Tolerance
    BY LiveDocAssumption
  <2>2. \A e, s, t \in Int : Gap(e + s, e + t) = Gap(s, t)
    BY DEF Gap
  <2> QED BY <1>1, <1>2, <1>3, <2>1, <2>2
<1>5. InRun(f, o).start \in Int
  BY <1>1, <1>2 DEF InRun, Later
<1>6. InRun(f, o).text = Film[f].text
  BY DEF InRun
<1> QED BY <1>1, <1>2, <1>3, <1>4, <1>5, <1>6

\* A line that is stored already, in whichever run, is recognised: by its key in
\* the same run, by its end in another one.
LEMMA Recognised ==
  ASSUME DocInv, next \in FilmCues, NEW i \in 1..Len(doc), doc[i].film = next,
         Film[next].text # NoText
  PROVE  Held(InRun(next, run)) \/ DupWithin(InRun(next, run), run)
<1>1. doc[i] \in Entry /\ KeyOf(doc[i]) = InRun(next, doc[i].run)
  BY DEF DocInv, EntriesTrue
<1>2. doc[i].run \in Offsets /\ run \in Offsets
  BY <1>1 DEF Entry, DocInv
<1>3. CASE doc[i].run = run
  BY <1>1, <1>3 DEF Held
<1>4. CASE doc[i].run # run
  <2>1. /\ doc[i].text = InRun(next, doc[i].run).text /\ doc[i].end = InRun(next, doc[i].run).end
    BY <1>1 DEF KeyOf
  <2>2. doc[i].text = InRun(next, run).text /\ InRun(next, run).text # NoText
    BY <1>2, <2>1, InRunFacts
  <2>3. SameCue(doc[i], InRun(next, run))
    BY <1>2, <2>1, InRunFacts DEF SameCue
  <2> QED BY <1>4, <2>2, <2>3 DEF DupWithin, OtherRun
<1> QED BY <1>3, <1>4

\* What AddCue appends.
Taken == [start |-> InRun(next, run).start, end |-> InRun(next, run).end,
          text |-> InRun(next, run).text, run |-> run, film |-> next]

\* AddCue keeps the document true, and each line in it once.
LEMMA AddKeeps ==
  ASSUME DocInv, AddCue
  PROVE  DocInv'
<1>1. /\ next \in FilmCues /\ run \in Offsets /\ run' = run
      /\ read' = read \cup {<<next, run>>}
  BY DEF AddCue, DocInv
<1>2. Taken \in Entry /\ KeyOf(Taken) = InRun(next, run)
  <2>1. Taken \in Entry
    BY <1>1, InRunFacts DEF Taken, Entry
  <2>2. KeyOf(Taken) = InRun(next, run)
    BY DEF Taken, KeyOf, InRun
  <2> QED BY <2>1, <2>2
<1>3. CASE doc' = doc
  BY <1>1, <1>3 DEF DocInv, EntriesTrue, EntriesRead, StoredOnce, KeyOf, InRun, Later
<1>4. CASE doc' # doc
  <2>1. doc' = Append(doc, Taken) /\ ~Held(InRun(next, run)) /\ ~DupWithin(InRun(next, run), run)
    BY <1>4 DEF AddCue, Taken
  <2>2. /\ doc' \in Seq(Entry) /\ Len(doc') = Len(doc) + 1 /\ Len(doc) \in Nat
        /\ \A i \in 1..Len(doc) : doc'[i] = doc[i]
        /\ doc'[Len(doc) + 1] = Taken
    BY <1>2, <2>1 DEF DocInv
  <2>3. Taken.film = next /\ Taken.run = run /\ Taken.text = Film[next].text
    BY <1>1, InRunFacts DEF Taken
  <2>4. EntriesTrue'
    BY <1>2, <2>2, <2>3 DEF DocInv, EntriesTrue
  <2>5. EntriesRead'
    BY <1>1, <2>2, <2>3 DEF DocInv, EntriesRead
  <2>6. StoredOnce'
    <3>1. ASSUME NEW i \in 1..Len(doc), doc[i].film = next, Film[next].text # NoText
          PROVE  FALSE
      BY <1>1, <2>1, <3>1, Recognised
    <3>2. ASSUME NEW i \in 1..Len(doc) PROVE doc[i].text = Film[doc[i].film].text
      <4>1. doc[i] \in Entry /\ KeyOf(doc[i]) = InRun(doc[i].film, doc[i].run)
        BY DEF DocInv, EntriesTrue
      <4>2. doc[i].text = InRun(doc[i].film, doc[i].run).text
        BY <4>1 DEF KeyOf
      <4> QED BY <4>1, <4>2, InRunFacts DEF Entry
    <3> SUFFICES ASSUME NEW i \in 1..Len(doc'), NEW j \in 1..Len(doc'),
                        doc'[i].film = doc'[j].film, doc'[i].text # NoText
                 PROVE  i = j
      BY DEF StoredOnce
    <3>3. CASE i \in 1..Len(doc) /\ j \in 1..Len(doc)
      BY <2>2, <3>3 DEF DocInv, StoredOnce
    <3>4. CASE i = Len(doc) + 1 /\ j \in 1..Len(doc)
      BY <2>2, <2>3, <3>1, <3>4
    <3>5. CASE j = Len(doc) + 1 /\ i \in 1..Len(doc)
      BY <2>2, <2>3, <3>1, <3>2, <3>5
    <3> QED BY <2>2, <3>3, <3>4, <3>5
  <2> QED BY <1>1, <2>2, <2>4, <2>5, <2>6 DEF DocInv
<1> QED BY <1>3, <1>4

\* The invariant of the document is inductive.
LEMMA DocInductive == LiveDocSpec => []DocInv
<1>1. LiveDocInit => DocInv
  BY DEF LiveDocInit, DocInv, EntriesTrue, EntriesRead, StoredOnce
<1>2. DocInv /\ [LiveDocNext]_docVars => DocInv'
  <2> SUFFICES ASSUME DocInv, [LiveDocNext]_docVars PROVE DocInv'
    OBVIOUS
  <2>1. CASE AddCue
    BY <2>1, AddKeeps
  <2>2. ASSUME UNCHANGED <<doc, read>>, run' \in Offsets PROVE DocInv'
    BY <2>2 DEF DocInv, EntriesTrue, EntriesRead, StoredOnce, KeyOf, InRun, Later
  <2>3. ASSUME NEW o \in Offsets, Seek(o) \/ NewDoc(o) PROVE DocInv'
    <3>1. CASE Seek(o)
      BY <3>1, <2>2 DEF Seek
    <3>2. CASE NewDoc(o)
      BY <3>2 DEF NewDoc, DocInv, EntriesTrue, EntriesRead, StoredOnce
    <3> QED BY <2>3, <3>1, <3>2
  <2>4. CASE Sync \/ UNCHANGED docVars \/ \E i \in 1..Len(doc) : Translate(i)
    BY <2>2, <2>4 DEF Sync, Translate, docVars, DocInv
  <2> QED BY <2>1, <2>3, <2>4 DEF LiveDocNext
<1> QED BY <1>1, <1>2, PTL DEF LiveDocSpec

-----------------------------------------------------------------------------
\* A line of the film is in the document once, whatever runs it was read in and
\* however they are shifted within the tolerance (AddSegment, dupWithin).
THEOREM LinesAreStoredOnce == LiveDocSpec => []StoredOnce
<1>1. DocInv => StoredOnce
  BY DEF DocInv
<1> QED BY <1>1, DocInductive, PTL

-----------------------------------------------------------------------------
\* Inside a run, no two cues of the film are given the same times and text.
DistinctInRuns == \A o \in Offsets : \A f, g \in FilmCues : InRun(f, o) = InRun(g, o) => f = g

\* Reading on in the one run there has been stores the cue that was read.
LEMMA AddIsWhole ==
  ASSUME DistinctInRuns, DocInv, DocInv', OneRunIsWhole, AddCue
  PROVE  OneRunIsWhole'
<1> SUFFICES ASSUME NEW o \in Offsets, read' \subseteq FilmCues \X {o}, NEW r \in read'
             PROVE  \E i \in 1..Len(doc') : doc'[i].film = r[1]
  BY DEF OneRunIsWhole
<1>1. /\ next \in FilmCues /\ run = o
      /\ read' = read \cup {<<next, run>>} /\ read \subseteq FilmCues \X {o}
  BY DEF AddCue
<1>2. doc' = doc \/ doc' = Append(doc, Taken)
  BY DEF AddCue, Taken
<1>3. /\ Len(doc) \in Nat /\ 1..Len(doc) \subseteq 1..Len(doc')
      /\ \A i \in 1..Len(doc) : doc'[i] = doc[i]
  BY <1>2 DEF DocInv
<1>4. CASE r \in read
  BY <1>1, <1>3, <1>4 DEF OneRunIsWhole
<1>5. CASE r = <<next, run>>
  <2>1. \A i \in 1..Len(doc) : doc[i].run = o /\ doc[i].film \in FilmCues
    BY <1>1 DEF DocInv, EntriesRead
  <2>2. ~DupWithin(InRun(next, run), run)
    BY <1>1, <2>1 DEF DupWithin, OtherRun
  <2>3. CASE Held(InRun(next, run))
    <3>1. PICK i \in 1..Len(doc) : KeyOf(doc[i]) = InRun(next, run)
      BY <2>3 DEF Held
    <3>2. InRun(doc[i].film, o) = InRun(next, o)
      BY <1>1, <2>1, <3>1 DEF DocInv, EntriesTrue
    <3>3. doc[i].film = next
      BY <1>1, <2>1, <3>2 DEF DistinctInRuns
    <3> QED BY <1>3, <1>5, <3>3
  <2>4. CASE ~Held(InRun(next, run))
    <3>1. doc' = Append(doc, Taken)
      BY <2>2, <2>4 DEF AddCue, Taken
    <3>2. Len(doc') = Len(doc) + 1 /\ doc'[Len(doc) + 1].film = next
      BY <3>1 DEF DocInv, Taken
    <3> QED BY <1>3, <1>5, <3>2
  <2> QED BY <2>3, <2>4
<1> QED BY <1>1, <1>4, <1>5

\* As long as all was read in one run, every cue that was read is in the
\* document, a line repeated at once included: the tolerance never drops a cue of
\* its own run (dupWithin).
THEOREM OneRunLosesNothing ==
  ASSUME DistinctInRuns
  PROVE  LiveDocSpec => []OneRunIsWhole
<1>1. LiveDocInit => OneRunIsWhole
  BY DEF LiveDocInit, OneRunIsWhole
<1>2. DocInv /\ DocInv' /\ OneRunIsWhole /\ [LiveDocNext]_docVars => OneRunIsWhole'
  <2> SUFFICES ASSUME DocInv, DocInv', OneRunIsWhole, [LiveDocNext]_docVars
               PROVE  OneRunIsWhole'
    OBVIOUS
  <2>1. CASE AddCue
    BY <2>1, AddIsWhole, DistinctInRuns
  <2>2. ASSUME UNCHANGED <<doc, read>> PROVE OneRunIsWhole'
    BY <2>2 DEF OneRunIsWhole
  <2>3. ASSUME NEW o \in Offsets, NewDoc(o) PROVE OneRunIsWhole'
    BY <2>3 DEF NewDoc, OneRunIsWhole
  <2> QED BY <2>1, <2>2, <2>3 DEF LiveDocNext, Seek, Sync, Translate, docVars
<1> QED BY <1>1, <1>2, DocInductive, PTL DEF LiveDocSpec

-----------------------------------------------------------------------------
(* The least of some numbers, and what the loops and searches of the record *)
(* come to.                                                                 *)

\* Some natural numbers have a least one.
LEMMA LeastNat ==
  ASSUME NEW S \in SUBSET Nat, S # {}
  PROVE  \E n \in S : \A m \in S : n <= m
<1> DEFINE R == OpToRel(<, Nat)
<1>1. \A m, n \in Nat : m < n => <<m, n>> \in R
  BY DEF OpToRel
<1>2. IsWellFoundedOn(R, Nat)
  BY NatLessThanWellFounded
<1> HIDE DEF R
<1>3. PICK n \in S : \A m \in S : ~ (<<m, n>> \in R)
  BY <1>2, WFMin
<1>4. \A m \in S : n <= m
  <2> TAKE m \in S
  <2>1. m \in Nat /\ n \in Nat
    OBVIOUS
  <2>2. ~ (m < n)
    BY <1>1, <1>3, <2>1
  <2> QED BY <2>1, <2>2
<1> QED BY <1>4

\* A run's playlist has a first cue, or the film is over.
LEMMA FirstOfTyped ==
  ASSUME NEW o \in Offsets
  PROVE  FirstOf(o) \in 1..(Len(Film) + 1)
<1> DEFINE S == {f \in 1..(Len(Film) + 1) : f \in FilmCues => InRun(f, o).end > o}
<1>1. Len(Film) \in Nat
  BY LiveDocAssumption
<1>2. S \in SUBSET Nat /\ Len(Film) + 1 \in S
  BY <1>1 DEF FilmCues
<1>3. PICK f \in S : \A g \in S : f <= g
  <2> HIDE DEF S
  <2> QED BY <1>2, LeastNat
<1>4. ASSUME NEW g \in 1..(f - 1) PROVE InRun(g, o).end <= o
  <2>1. g \in FilmCues /\ g \notin S
    BY <1>1, <1>3 DEF FilmCues
  <2>2. ~ (InRun(g, o).end > o)
    BY <1>1, <2>1 DEF FilmCues
  <2>3. InRun(g, o).end \in Int /\ o \in Int
    BY <2>1, InRunFacts, LiveDocAssumption
  <2> QED BY <2>2, <2>3
<1>5. /\ f \in 1..(Len(Film) + 1)
      /\ f \in FilmCues => InRun(f, o).end > o
      /\ \A g \in 1..(f - 1) : InRun(g, o).end <= o
  BY <1>3, <1>4
<1> QED BY <1>5 DEF FirstOf

\* A place of the record: a cue's key, and which line of the film is filed there.
Filed == [key : KeySet, line : FilmCues \cup {0}]

\* The first of some places has a line that is filed at one of them.
LEMMA FirstLineFacts ==
  ASSUME NEW places \in SUBSET (1..Len(record)), Len(record) \in Nat, places # {}
  PROVE  \E i \in places : FirstLine(places) = record[i].line
<1>1. places \in SUBSET Nat
  OBVIOUS
<1>2. \E i \in places : \A j \in places : i <= j
  BY <1>1, LeastNat
<1> QED BY <1>2 DEF FirstLine

\* What is known of a cue was filed under its text, under its key if anything
\* is, and something is known if anything is filed near it.
LEMMA KnownFacts ==
  ASSUME record \in Seq(Filed), NEW cue
  PROVE  /\ Known(cue) # 0 =>
              \E i \in 1..Len(record) : /\ record[i].line = Known(cue) /\ record[i].line # 0
                                        /\ \/ record[i].key = cue
                                           \/ /\ record[i].key.text = cue.text
                                              /\ SameCue(record[i].key, cue)
         /\ Exact(cue) # {} => \E i \in Exact(cue) : record[i].line = Known(cue)
         /\ Exact(cue) \cup Near(cue) # {} => Known(cue) # 0
<1>1. Len(record) \in Nat
  OBVIOUS
<1>2. CASE Exact(cue) # {}
  <2>1. Known(cue) = FirstLine(Exact(cue)) /\ Exact(cue) \in SUBSET (1..Len(record))
    BY <1>2 DEF Known, Exact
  <2>2. PICK i \in Exact(cue) : Known(cue) = record[i].line
    BY <1>1, <1>2, <2>1, FirstLineFacts
  <2>3. i \in 1..Len(record) /\ record[i].line # 0 /\ record[i].key = cue
    BY DEF Exact
  <2> QED BY <2>2, <2>3
<1>3. CASE Exact(cue) = {} /\ Near(cue) # {}
  <2>1. Known(cue) = FirstLine(Near(cue)) /\ Near(cue) \in SUBSET (1..Len(record))
    BY <1>3 DEF Known, Near
  <2>2. PICK i \in Near(cue) : Known(cue) = record[i].line
    BY <1>1, <1>3, <2>1, FirstLineFacts
  <2>3. /\ i \in 1..Len(record) /\ record[i].line # 0
        /\ record[i].key.text = cue.text /\ SameCue(record[i].key, cue)
    BY DEF Near
  <2> QED BY <1>3, <2>2, <2>3
<1>4. CASE Exact(cue) = {} /\ Near(cue) = {}
  BY <1>4 DEF Known, FirstLine
<1> QED BY <1>2, <1>3, <1>4

\* One round of the loop over the old record, given the rounds before it.
ParkedRound(f, n) == IF n = 0 THEN <<>>
                     ELSE IF Parked(record[n]) THEN Append(f[n - 1], record[n])
                     ELSE f[n - 1]

\* The loop runs through for every length.
LEMMA ParkedLoop ==
  ASSUME NEW L \in Nat
  PROVE  \E f : f = [n \in 0..L |-> ParkedRound(f, n)]
<1> DEFINE Runs(m) == \E f : f = [n \in 0..m |-> ParkedRound(f, n)]
           Stuck == {m \in Nat : ~Runs(m)}
<1> SUFFICES ASSUME Stuck # {} PROVE FALSE
  OBVIOUS
<1>1. PICK m \in Stuck : \A k \in Stuck : m <= k
  <2>1. Stuck \in SUBSET Nat
    OBVIOUS
  <2> HIDE DEF Stuck
  <2> QED BY <2>1, LeastNat
<1>2. CASE m = 0
  <2> DEFINE f == [n \in 0..0 |-> <<>>]
  <2>1. f = [n \in 0..0 |-> ParkedRound(f, n)]
    BY DEF ParkedRound
  <2> QED BY <1>1, <1>2, <2>1
<1>3. CASE m # 0
  <2>1. m - 1 \in Nat /\ Runs(m - 1)
    BY <1>1, <1>3
  <2>2. PICK f : f = [n \in 0..(m - 1) |-> ParkedRound(f, n)]
    BY <2>1
  <2> DEFINE g == [n \in 0..m |-> IF n = m THEN ParkedRound(f, m) ELSE f[n]]
  <2>3. \A n \in 0..m : g[n] = ParkedRound(g, n)
    <3> TAKE n \in 0..m
    <3>1. n # 0 => n - 1 \in 0..(m - 1) /\ g[n - 1] = f[n - 1]
      BY <1>3, <2>1
    <3>2. ParkedRound(g, n) = ParkedRound(f, n)
      BY <3>1 DEF ParkedRound
    <3> HIDE DEF g
    <3> QED BY <1>3, <2>1, <2>2, <3>2 DEF g
  <2>4. g = [n \in 0..m |-> ParkedRound(g, n)]
    <3>1. g = [n \in 0..m |-> g[n]]
      OBVIOUS
    <3> HIDE DEF g
    <3> QED BY <2>3, <3>1
  <2> QED BY <1>1, <2>4
<1> QED BY <1>2, <1>3

\* So that its rounds are those the code makes.
LEMMA ParkedRounds ==
  ASSUME record \in Seq(Filed)
  PROVE  \A n \in 0..Len(record) : ParkedOf[n] = ParkedRound(ParkedOf, n)
<1> DEFINE F == CHOOSE f : f = [n \in 0..Len(record) |-> ParkedRound(f, n)]
<1>1. Len(record) \in Nat
  OBVIOUS
<1>2. F = [n \in 0..Len(record) |-> ParkedRound(F, n)]
  BY <1>1, ParkedLoop
<1>3. ParkedOf = F
  BY DEF ParkedOf, ParkedRound
<1> QED BY <1>2, <1>3

\* A tail holds what the first n places of the record park, each under its key
\* once.
ParksFirst(tail, n) ==
  /\ tail \in Seq(Filed)
  /\ \A k \in 1..Len(tail) : \E i \in 1..n : Parked(record[i]) /\ tail[k] = record[i]
  /\ \A i \in 1..n : Parked(record[i]) => \E k \in 1..Len(tail) : tail[k] = record[i]
  /\ \A j, k \in 1..Len(tail) : tail[j].key = tail[k].key => j = k

\* A round of the loop parks one place more.
LEMMA ParkedOneMore ==
  ASSUME record \in Seq(Filed), EachKeyOnce,
         NEW n \in 1..Len(record), NEW tail, ParksFirst(tail, n - 1)
  PROVE  ParksFirst(IF Parked(record[n]) THEN Append(tail, record[n]) ELSE tail, n)
<1>1. /\ Len(record) \in Nat /\ n \in Nat /\ record[n] \in Filed
      /\ 1..n = (1..(n - 1)) \cup {n}
  OBVIOUS
<1>2. CASE ~Parked(record[n])
  BY <1>1, <1>2 DEF ParksFirst
<1>3. CASE Parked(record[n])
  <2> DEFINE more == Append(tail, record[n])
  <2>1. /\ tail \in Seq(Filed) /\ Len(tail) \in Nat
        /\ more \in Seq(Filed) /\ Len(more) = Len(tail) + 1
        /\ \A k \in 1..Len(tail) : more[k] = tail[k]
        /\ more[Len(tail) + 1] = record[n]
    BY <1>1 DEF ParksFirst
  <2> HIDE DEF more
  <2>2. 1..Len(more) = (1..Len(tail)) \cup {Len(tail) + 1}
    BY <2>1
  <2>3. \A k \in 1..Len(more) : \E i \in 1..n : Parked(record[i]) /\ more[k] = record[i]
    <3> TAKE k \in 1..Len(more)
    <3>1. CASE k \in 1..Len(tail)
      <4>1. PICK i \in 1..(n - 1) : Parked(record[i]) /\ tail[k] = record[i]
        BY <3>1 DEF ParksFirst
      <4> QED BY <1>1, <2>1, <3>1, <4>1
    <3>2. CASE k = Len(tail) + 1
      BY <1>1, <1>3, <2>1, <3>2
    <3> QED BY <2>2, <3>1, <3>2
  <2>4. \A i \in 1..n : Parked(record[i]) => \E k \in 1..Len(more) : more[k] = record[i]
    <3> SUFFICES ASSUME NEW i \in 1..n, Parked(record[i])
                 PROVE  \E k \in 1..Len(more) : more[k] = record[i]
      OBVIOUS
    <3>1. CASE i \in 1..(n - 1)
      <4>1. PICK k \in 1..Len(tail) : tail[k] = record[i]
        BY <3>1 DEF ParksFirst
      <4> QED BY <2>1, <2>2, <4>1
    <3>2. CASE i = n
      BY <2>1, <2>2, <3>2
    <3> QED BY <1>1, <3>1, <3>2
  <2>5. \A k \in 1..Len(tail) : tail[k].key # record[n].key
    <3> TAKE k \in 1..Len(tail)
    <3>1. PICK i \in 1..(n - 1) : tail[k] = record[i]
      BY DEF ParksFirst
    <3> QED BY <1>1, <3>1 DEF EachKeyOnce
  <2>6. \A j, k \in 1..Len(more) : more[j].key = more[k].key => j = k
    BY <2>1, <2>2, <2>5 DEF ParksFirst
  <2>7. ParksFirst(more, n)
    BY <2>1, <2>3, <2>4, <2>6 DEF ParksFirst
  <2> QED BY <1>3, <2>7 DEF more
<1> QED BY <1>2, <1>3

\* What the loop has parked after each of its rounds.
LEMMA ParkedFacts ==
  ASSUME record \in Seq(Filed), EachKeyOnce
  PROVE  \A n \in 0..Len(record) : ParksFirst(ParkedOf[n], n)
<1> DEFINE Wrong == {n \in 0..Len(record) : ~ParksFirst(ParkedOf[n], n)}
<1> SUFFICES ASSUME Wrong # {} PROVE FALSE
  OBVIOUS
<1>1. Len(record) \in Nat
  OBVIOUS
<1>2. PICK n \in Wrong : \A m \in Wrong : n <= m
  <2>1. Wrong \in SUBSET Nat
    BY <1>1
  <2> HIDE DEF Wrong
  <2> QED BY <2>1, LeastNat
<1>3. ParkedOf[n] = ParkedRound(ParkedOf, n)
  BY ParkedRounds
<1>4. CASE n = 0
  <2>1. ParkedOf[n] = <<>>
    BY <1>3, <1>4 DEF ParkedRound
  <2>2. ParksFirst(<<>>, 0)
    BY DEF ParksFirst
  <2>3. ~ParksFirst(ParkedOf[n], n)
    BY <1>2
  <2> QED BY <1>4, <2>1, <2>2, <2>3
<1>5. CASE n # 0
  <2>1. n \in 1..Len(record) /\ n - 1 \in 0..Len(record) /\ ~ (n <= n - 1)
    BY <1>1, <1>5
  <2>2. ParksFirst(ParkedOf[n - 1], n - 1)
    BY <1>2, <2>1
  <2>3. ParksFirst(IF Parked(record[n]) THEN Append(ParkedOf[n - 1], record[n])
                   ELSE ParkedOf[n - 1], n)
    BY <2>1, <2>2, ParkedOneMore
  <2>4. ParkedOf[n] = IF Parked(record[n]) THEN Append(ParkedOf[n - 1], record[n])
                      ELSE ParkedOf[n - 1]
    BY <1>3, <1>5 DEF ParkedRound
  <2> QED BY <1>2, <2>3, <2>4
<1> QED BY <1>4, <1>5

-----------------------------------------------------------------------------
(* The record.                                                              *)

\* No two cues of the document have one key.
DocKeysOnce == \A i, j \in 1..Len(doc) : KeyOf(doc[i]) = KeyOf(doc[j]) => i = j

\* The record is a map from keys to lines, the document's keys first, and a line
\* is filed under its own text.
RecordInv == /\ record \in Seq(Filed)
             /\ EachKeyOnce
             /\ synced \in 0..Len(doc) /\ synced <= Len(record)
             /\ \A i \in 1..synced : record[i].key = KeyOf(doc[i])
             /\ RightLine

AllInv == DocInv /\ DocKeysOnce /\ RecordInv

\* A cue of the document has a key, the text of its line of the film.
LEMMA CueFacts ==
  ASSUME DocInv, NEW i \in 1..Len(doc)
  PROVE  /\ doc[i].film \in FilmCues /\ doc[i].run \in Offsets
         /\ KeyOf(doc[i]) = InRun(doc[i].film, doc[i].run)
         /\ KeyOf(doc[i]) \in KeySet
         /\ KeyOf(doc[i]).text = doc[i].text /\ doc[i].text = Film[doc[i].film].text
<1>1. /\ doc[i] \in Entry /\ KeyOf(doc[i]) = InRun(doc[i].film, doc[i].run)
  BY DEF DocInv, EntriesTrue
<1>2. doc[i].film \in FilmCues /\ doc[i].run \in Offsets
  BY <1>1 DEF Entry
<1>3. KeyOf(doc[i]).text = doc[i].text
  BY DEF KeyOf
<1>4. /\ InRun(doc[i].film, doc[i].run).start \in Int
      /\ InRun(doc[i].film, doc[i].run).end \in Int
      /\ InRun(doc[i].film, doc[i].run).text = Film[doc[i].film].text
  BY <1>2, InRunFacts
<1>5. InRun(doc[i].film, doc[i].run) \in KeySet
  BY <1>2, <1>4 DEF KeySet, InRun
<1> QED BY <1>1, <1>2, <1>3, <1>4, <1>5

\* What a cue of the document is filed with.
LEMMA AlignedFacts ==
  ASSUME AllInv, NEW i \in 1..Len(doc)
  PROVE  /\ Aligned(i) \in Filed /\ Aligned(i).key = KeyOf(doc[i])
         /\ Aligned(i).line = Known(KeyOf(doc[i]))
         /\ Aligned(i).line # 0 => Film[Aligned(i).line].text = doc[i].text
<1> DEFINE cue == KeyOf(doc[i])
<1>1. cue \in KeySet /\ cue.text = doc[i].text
  BY CueFacts DEF AllInv
<1>2. record \in Seq(Filed) /\ \A j \in 1..Len(record) : record[j] \in Filed
  BY DEF AllInv, RecordInv
<1>3. Aligned(i).key = cue /\ Aligned(i).line = Known(cue)
  BY DEF Aligned
<1> HIDE DEF cue
<1>4. CASE Known(cue) # 0
  <2>1. PICK j \in 1..Len(record) : /\ record[j].line = Known(cue) /\ record[j].line # 0
                                    /\ record[j].key = cue \/ record[j].key.text = cue.text
    BY <1>2, <1>4, KnownFacts
  <2>2. Film[record[j].line].text = record[j].key.text /\ record[j].line \in FilmCues
    BY <1>2, <2>1 DEF AllInv, RecordInv, RightLine, Filed
  <2>3. record[j].key.text = cue.text
    BY <2>1
  <2>4. Known(cue) \in FilmCues /\ Film[Known(cue)].text = doc[i].text
    BY <1>1, <2>1, <2>2, <2>3
  <2> QED BY <1>1, <1>3, <2>4 DEF Aligned, Filed, cue
<1>5. CASE Known(cue) = 0
  BY <1>1, <1>3, <1>5 DEF Aligned, Filed, cue
<1> QED BY <1>3, <1>4, <1>5 DEF cue

\* The record that is lined up: the document's cues, then what is parked.
LEMMA LinedUpFacts ==
  ASSUME AllInv
  PROVE  /\ LinedUp \in Seq(Filed) /\ Len(doc) \in Nat /\ Len(doc) <= Len(LinedUp)
         /\ \A i \in 1..Len(doc) : LinedUp[i] = Aligned(i)
         /\ \A i \in 1..Len(LinedUp) :
               i > Len(doc) => \E j \in 1..Len(record) : Parked(record[j]) /\ LinedUp[i] = record[j]
         /\ \A j \in 1..Len(record) :
               Parked(record[j]) => \E i \in 1..Len(LinedUp) : LinedUp[i] = record[j]
         /\ \A i, j \in 1..Len(LinedUp) :
               i > Len(doc) /\ j > Len(doc) /\ LinedUp[i].key = LinedUp[j].key => i = j
<1> DEFINE head == [i \in 1..Len(doc) |-> Aligned(i)]
           tail == ParkedOf[Len(record)]
<1>1. Len(doc) \in Nat /\ Len(record) \in Nat /\ record \in Seq(Filed)
  BY DEF AllInv, DocInv, RecordInv
<1>2. \A i \in 1..Len(doc) : Aligned(i) \in Filed
  BY AlignedFacts
<1>3. ParksFirst(tail, Len(record))
  BY <1>1, ParkedFacts DEF AllInv, RecordInv
<1>4. head \in Seq(Filed) /\ Len(head) = Len(doc) /\ \A i \in 1..Len(doc) : head[i] = Aligned(i)
  <2>1. head \in [1..Len(doc) -> Filed]
    BY <1>2
  <2> QED BY <1>1, <2>1
<1>5. LinedUp = head \o tail
  BY DEF LinedUp
<1> HIDE DEF head, tail
<1>6. tail \in Seq(Filed) /\ Len(tail) \in Nat
  BY <1>3 DEF ParksFirst
<1>7. /\ LinedUp \in Seq(Filed) /\ Len(LinedUp) = Len(doc) + Len(tail)
      /\ \A i \in 1..Len(doc) : LinedUp[i] = Aligned(i)
      /\ \A k \in 1..Len(tail) : LinedUp[Len(doc) + k] = tail[k]
  <2>1. \A a, b \in Seq(Filed) :
           /\ a \o b \in Seq(Filed) /\ Len(a \o b) = Len(a) + Len(b)
           /\ \A i \in 1..Len(a) : (a \o b)[i] = a[i]
           /\ \A k \in 1..Len(b) : (a \o b)[Len(a) + k] = b[k]
    OBVIOUS
  <2>2. /\ LinedUp \in Seq(Filed) /\ Len(LinedUp) = Len(head) + Len(tail)
        /\ \A i \in 1..Len(head) : LinedUp[i] = head[i]
        /\ \A k \in 1..Len(tail) : LinedUp[Len(head) + k] = tail[k]
    BY <1>4, <1>5, <1>6, <2>1
  <2> QED BY <1>4, <2>2
<1>8. ASSUME NEW i \in 1..Len(LinedUp), i > Len(doc)
      PROVE  i - Len(doc) \in 1..Len(tail) /\ LinedUp[i] = tail[i - Len(doc)]
  <2>1. i - Len(doc) \in 1..Len(tail) /\ i = Len(doc) + (i - Len(doc))
    BY <1>1, <1>6, <1>7, <1>8
  <2> QED BY <1>7, <2>1
<1>9. ASSUME NEW i \in 1..Len(LinedUp), i > Len(doc)
      PROVE  \E j \in 1..Len(record) : Parked(record[j]) /\ LinedUp[i] = record[j]
  <2>1. i - Len(doc) \in 1..Len(tail) /\ LinedUp[i] = tail[i - Len(doc)]
    BY <1>8, <1>9
  <2>2. \E j \in 1..Len(record) : Parked(record[j]) /\ tail[i - Len(doc)] = record[j]
    BY <1>3, <2>1 DEF ParksFirst
  <2> QED BY <2>1, <2>2
<1>10. ASSUME NEW j \in 1..Len(record), Parked(record[j])
       PROVE  \E i \in 1..Len(LinedUp) : LinedUp[i] = record[j]
  <2>1. PICK k \in 1..Len(tail) : tail[k] = record[j]
    BY <1>3, <1>10 DEF ParksFirst
  <2>2. Len(doc) + k \in 1..Len(LinedUp)
    BY <1>1, <1>6, <1>7
  <2> QED BY <1>7, <2>1, <2>2
<1>11. ASSUME NEW i \in 1..Len(LinedUp), NEW j \in 1..Len(LinedUp),
              i > Len(doc), j > Len(doc), LinedUp[i].key = LinedUp[j].key
       PROVE  i = j
  <2>1. /\ i - Len(doc) \in 1..Len(tail) /\ LinedUp[i] = tail[i - Len(doc)]
        /\ j - Len(doc) \in 1..Len(tail) /\ LinedUp[j] = tail[j - Len(doc)]
    BY <1>8, <1>11
  <2>2. i - Len(doc) = j - Len(doc)
    BY <1>3, <1>11, <2>1 DEF ParksFirst
  <2> QED BY <1>1, <1>7, <2>2
<1> QED BY <1>1, <1>6, <1>7, <1>9, <1>10, <1>11

\* A held line stays where its key is: in the document's part, where the exact
\* key wins, or behind it.
LEMMA HeldStays ==
  ASSUME AllInv, NEW j \in 1..Len(record), record[j].line # 0
  PROVE  \E i \in 1..Len(LinedUp) : LinedUp[i] = record[j]
<1>1. record \in Seq(Filed) /\ record[j] \in Filed
  BY DEF AllInv, RecordInv
<1>2. CASE Parked(record[j])
  BY <1>2, LinedUpFacts
<1>3. CASE ~Parked(record[j])
  <2>1. PICK i \in 1..Len(doc) : KeyOf(doc[i]) = record[j].key
    BY <1>3 DEF Parked, Held
  <2>2. j \in Exact(KeyOf(doc[i]))
    BY <2>1 DEF Exact
  <2>3. PICK k \in Exact(KeyOf(doc[i])) : record[k].line = Known(KeyOf(doc[i]))
    BY <1>1, <2>2, KnownFacts
  <2>4. k = j
    BY <2>1, <2>3 DEF Exact, AllInv, RecordInv, EachKeyOnce
  <2>5. Aligned(i).line = record[j].line /\ Aligned(i).key = record[j].key /\ Aligned(i) \in Filed
    BY <2>1, <2>3, <2>4, AlignedFacts
  <2>6. Aligned(i) = record[j]
    BY <1>1, <2>5 DEF Filed
  <2>7. i \in 1..Len(LinedUp) /\ LinedUp[i] = Aligned(i)
    BY LinedUpFacts
  <2> QED BY <2>6, <2>7
<1> QED BY <1>2, <1>3

\* Lining the record up keeps it a map, and every line under its own text.
LEMMA SyncKeeps ==
  ASSUME AllInv, Sync
  PROVE  AllInv'
<1>1. record' = LinedUp /\ synced' = Len(doc) /\ UNCHANGED <<doc, run, next, read>>
  BY DEF Sync
<1>2. DocInv' /\ DocKeysOnce'
  BY <1>1 DEF AllInv, DocInv, EntriesTrue, EntriesRead, StoredOnce, DocKeysOnce, KeyOf, InRun, Later
<1>3. /\ record' \in Seq(Filed) /\ synced' \in 0..Len(doc') /\ synced' <= Len(record')
      /\ \A i \in 1..Len(doc) : record'[i] = Aligned(i)
  BY <1>1, LinedUpFacts
<1>4. \A i \in 1..synced' : record'[i].key = KeyOf(doc'[i])
  BY <1>1, <1>3, AlignedFacts DEF KeyOf
<1>5. EachKeyOnce'
  <2> SUFFICES ASSUME NEW i \in 1..Len(record'), NEW j \in 1..Len(record'),
                      record'[i].key = record'[j].key
               PROVE  i = j
    BY DEF EachKeyOnce
  <2>1. ASSUME NEW k \in 1..Len(doc), NEW m \in 1..Len(record'), m > Len(doc)
        PROVE  record'[k].key # record'[m].key
    <3>1. PICK n \in 1..Len(record) : Parked(record[n]) /\ record'[m] = record[n]
      BY <1>1, <2>1, LinedUpFacts
    <3>2. KeyOf(doc[k]) # record[n].key
      BY <3>1 DEF Parked, Held
    <3> QED BY <1>3, <3>1, <3>2, AlignedFacts
  <2>2. Len(doc) \in Nat /\ Len(record') \in Nat
    BY <1>3, LinedUpFacts
  <2>3. CASE i > Len(doc) /\ j > Len(doc)
    BY <1>1, <2>3, LinedUpFacts
  <2>4. CASE i \in 1..Len(doc) /\ j \in 1..Len(doc)
    BY <1>3, <2>4, AlignedFacts DEF AllInv, DocKeysOnce
  <2>5. CASE i \in 1..Len(doc) /\ j > Len(doc)
    BY <2>1, <2>5
  <2>6. CASE i > Len(doc) /\ j \in 1..Len(doc)
    BY <2>1, <2>6
  <2> QED BY <2>2, <2>3, <2>4, <2>5, <2>6
<1>6. RightLine'
  <2> SUFFICES ASSUME NEW i \in 1..Len(record'), record'[i].line # 0
               PROVE  Film[record'[i].line].text = record'[i].key.text
    BY DEF RightLine
  <2>1. CASE i \in 1..Len(doc)
    BY <1>3, <2>1, AlignedFacts, CueFacts DEF AllInv
  <2>2. CASE i > Len(doc)
    <3>1. PICK n \in 1..Len(record) : Parked(record[n]) /\ record'[i] = record[n]
      BY <1>1, <2>2, LinedUpFacts
    <3> QED BY <2>2, <3>1 DEF AllInv, RecordInv, RightLine
  <2>3. Len(doc) \in Nat /\ Len(record') \in Nat
    BY <1>3, LinedUpFacts
  <2> QED BY <2>1, <2>2, <2>3
<1> QED BY <1>2, <1>3, <1>4, <1>5, <1>6 DEF AllInv, RecordInv

\* What a translated cue does to the record.
LEMMA TranslateFacts ==
  ASSUME AllInv, NEW i \in 1..Len(doc), Translate(i)
  PROVE  /\ i \in 1..Len(record) /\ i <= synced
         /\ record' \in Seq(Filed) /\ Len(record') = Len(record)
         /\ \A j \in 1..Len(record) : j # i => record'[j] = record[j]
         /\ record[i].line = 0 /\ record'[i].line = doc[i].film
         /\ \A j \in 1..Len(record) : record'[j].key = record[j].key
         /\ record[i].key = KeyOf(doc[i])
<1>1. /\ i <= synced /\ record[i].line = 0
      /\ record' = [record EXCEPT ![i].line = doc[i].film]
  BY DEF Translate
<1>2. /\ record \in Seq(Filed) /\ Len(record) \in Nat /\ synced \in 0..Len(doc) /\ Len(doc) \in Nat
      /\ synced <= Len(record)
  BY DEF AllInv, RecordInv, DocInv
<1>3. i \in 1..Len(record) /\ i \in 1..synced
  BY <1>1, <1>2
<1>4. doc[i].film \in FilmCues
  BY CueFacts DEF AllInv
<1>5. record[i] \in Filed
  BY <1>2, <1>3
<1>6. /\ [record[i] EXCEPT !.line = doc[i].film] \in Filed
      /\ [record[i] EXCEPT !.line = doc[i].film].line = doc[i].film
      /\ [record[i] EXCEPT !.line = doc[i].film].key = record[i].key
  BY <1>4, <1>5 DEF Filed
<1>7. record' = [record EXCEPT ![i] = [record[i] EXCEPT !.line = doc[i].film]]
  BY <1>1, <1>2, <1>3
<1>8. /\ record' \in Seq(Filed) /\ Len(record') = Len(record)
      /\ \A j \in 1..Len(record) : j # i => record'[j] = record[j]
      /\ record'[i] = [record[i] EXCEPT !.line = doc[i].film]
  BY <1>2, <1>3, <1>6, <1>7
<1>9. record[i].key = KeyOf(doc[i])
  BY <1>3 DEF AllInv, RecordInv
<1> QED BY <1>1, <1>3, <1>6, <1>8, <1>9

\* A translated cue is filed under its own text.
LEMMA TranslateKeeps ==
  ASSUME AllInv, NEW i \in 1..Len(doc), Translate(i)
  PROVE  AllInv'
<1>1. UNCHANGED <<doc, run, next, synced, read>>
  BY DEF Translate
<1>2. DocInv' /\ DocKeysOnce'
  BY <1>1 DEF AllInv, DocInv, EntriesTrue, EntriesRead, StoredOnce, DocKeysOnce, KeyOf, InRun, Later
<1>3. EachKeyOnce'
  BY TranslateFacts DEF AllInv, RecordInv, EachKeyOnce
<1>4. \A j \in 1..synced' : record'[j].key = KeyOf(doc'[j])
  <2> TAKE j \in 1..synced'
  <2>1. j \in 1..synced /\ j \in 1..Len(record)
    BY <1>1 DEF AllInv, RecordInv
  <2> QED BY <1>1, <2>1, TranslateFacts DEF AllInv, RecordInv, KeyOf
<1>5. RightLine'
  <2> SUFFICES ASSUME NEW j \in 1..Len(record'), record'[j].line # 0
               PROVE  Film[record'[j].line].text = record'[j].key.text
    BY DEF RightLine
  <2>1. j \in 1..Len(record)
    BY TranslateFacts
  <2>2. CASE j # i
    BY <2>1, <2>2, TranslateFacts DEF AllInv, RecordInv, RightLine
  <2>3. CASE j = i
    BY <2>1, <2>3, TranslateFacts, CueFacts DEF AllInv
  <2> QED BY <2>2, <2>3
<1> QED BY <1>1, <1>2, <1>3, <1>4, <1>5, TranslateFacts DEF AllInv, RecordInv

\* Reading on, a seek and another document leave the record as it was; a
\* document that begins anew is not lined up with it.
LEMMA ReadKeeps ==
  ASSUME AllInv, DocInv', UNCHANGED record,
         \/ AddCue \/ UNCHANGED <<doc, synced>>
         \/ \E o \in Offsets : NewDoc(o)
  PROVE  AllInv'
<1>1. /\ record \in Seq(Filed) /\ doc \in Seq(Entry) /\ Len(doc) \in Nat
      /\ synced \in 0..Len(doc)
  BY DEF AllInv, RecordInv, DocInv
<1>2. CASE AddCue
  <2>1. synced' = synced
    BY <1>2 DEF AddCue
  <2>2. CASE doc' = doc
    BY <2>1, <2>2 DEF AllInv, RecordInv, EachKeyOnce, RightLine, DocKeysOnce, KeyOf
  <2>3. CASE doc' # doc
    <3>1. doc' = Append(doc, Taken) /\ ~Held(InRun(next, run))
      BY <1>2, <2>3 DEF AddCue, Taken
    <3>2. KeyOf(Taken) = InRun(next, run)
      BY DEF Taken, KeyOf, InRun
    <3>3. /\ Len(doc') = Len(doc) + 1
          /\ \A i \in 1..Len(doc) : doc'[i] = doc[i]
          /\ doc'[Len(doc) + 1] = Taken
      BY <1>1, <3>1
    <3>4. \A i \in 1..Len(doc) : KeyOf(doc[i]) # KeyOf(Taken)
      BY <3>1, <3>2 DEF Held
    <3>5. DocKeysOnce'
      <4>1. \A i, j \in 1..Len(doc') : KeyOf(doc'[i]) = KeyOf(doc'[j]) => i = j
        BY <1>1, <3>3, <3>4 DEF AllInv, DocKeysOnce
      <4> QED BY <4>1 DEF DocKeysOnce, KeyOf
    <3>6. /\ synced' \in 0..Len(doc')
          /\ \A i \in 1..synced' : i \in 1..Len(doc) /\ doc'[i] = doc[i]
      BY <1>1, <2>1, <3>3
    <3> QED BY <2>1, <3>5, <3>6 DEF AllInv, RecordInv, EachKeyOnce, RightLine, KeyOf
  <2> QED BY <2>2, <2>3
<1>3. CASE UNCHANGED <<doc, synced>>
  BY <1>3 DEF AllInv, RecordInv, EachKeyOnce, RightLine, DocKeysOnce, KeyOf
<1>4. CASE \E o \in Offsets : NewDoc(o)
  <2>1. doc' = <<>> /\ synced' = 0 /\ Len(record) \in Nat
    BY <1>1, <1>4 DEF NewDoc
  <2>2. DocKeysOnce' /\ EachKeyOnce' /\ RightLine'
    BY <2>1 DEF AllInv, RecordInv, DocKeysOnce, EachKeyOnce, RightLine
  <2> QED BY <2>1, <2>2 DEF AllInv, RecordInv
<1> QED BY <1>2, <1>3, <1>4

\* The invariant of document and record is inductive.
LEMMA AllInductive == LiveDocSpec => []AllInv
<1>1. LiveDocInit => AllInv
  <2> SUFFICES ASSUME LiveDocInit PROVE AllInv
    OBVIOUS
  <2>1. DocInv
    BY DEF LiveDocInit, DocInv, EntriesTrue, EntriesRead, StoredOnce
  <2> QED BY <2>1 DEF LiveDocInit, AllInv, DocKeysOnce, RecordInv, EachKeyOnce, RightLine
<1>2. AllInv /\ DocInv' /\ [LiveDocNext]_docVars => AllInv'
  <2> SUFFICES ASSUME AllInv, DocInv', [LiveDocNext]_docVars PROVE AllInv'
    OBVIOUS
  <2>1. CASE AddCue
    BY <2>1, ReadKeeps DEF AddCue
  <2>2. CASE \E o \in Offsets : Seek(o)
    BY <2>2, ReadKeeps DEF Seek
  <2>3. CASE \E o \in Offsets : NewDoc(o)
    <3>1. UNCHANGED record
      BY <2>3 DEF NewDoc
    <3> QED BY <2>3, <3>1, ReadKeeps
  <2>4. CASE Sync
    BY <2>4, SyncKeeps
  <2>5. CASE \E i \in 1..Len(doc) : Translate(i)
    BY <2>5, TranslateKeeps
  <2>6. CASE UNCHANGED docVars
    BY <2>6, ReadKeeps DEF docVars
  <2> QED BY <2>1, <2>2, <2>3, <2>4, <2>5, <2>6 DEF LiveDocNext
<1> QED BY <1>1, <1>2, DocInductive, PTL DEF LiveDocSpec

\* A line is filed under a cue with the text it is a translation of, also when a
\* seek or another document has renumbered the cues (alignLines: "showing one
\* cue's text under another").
THEOREM LinesAreFiledRight == LiveDocSpec => []RightLine
<1>1. AllInv => RightLine
  BY DEF AllInv, RecordInv
<1> QED BY <1>1, AllInductive, PTL

\* The record keeps every translation it ever held, under its key, whatever order
\* the documents arrive in (the comment on syncLive).
THEOREM RecordIsKept == LiveDocSpec => RecordKeepsAll
<1>1. AllInv /\ [LiveDocNext]_docVars => HeldLines \subseteq HeldLines'
  <2> SUFFICES ASSUME AllInv, [LiveDocNext]_docVars,
                      NEW j \in 1..Len(record), record[j].line # 0
               PROVE  \E i \in 1..Len(record') : record'[i].line # 0 /\ record'[i] = record[j]
    BY DEF HeldLines
  <2>1. CASE UNCHANGED record
    BY <2>1
  <2>2. CASE Sync
    BY <2>2, HeldStays DEF Sync
  <2>3. ASSUME NEW i \in 1..Len(doc), Translate(i)
        PROVE  \E k \in 1..Len(record') : record'[k].line # 0 /\ record'[k] = record[j]
    BY <2>3, TranslateFacts
  <2> QED BY <2>1, <2>2, <2>3 DEF LiveDocNext, AddCue, Seek, NewDoc, docVars
<1>2. AllInv /\ [LiveDocNext]_docVars => [HeldLines \subseteq HeldLines']_docVars
  BY <1>1
<1> QED BY <1>2, AllInductive, PTL DEF LiveDocSpec, RecordKeepsAll

-----------------------------------------------------------------------------
(* What was paid for.                                                       *)

\* A line that was bought is filed under a key its cue has in some run.
BoughtIsHeld ==
  \A f \in FilmCues : bought[f] # 0 =>
    \E j \in 1..Len(record), o \in Offsets : record[j].line # 0 /\ record[j].key = InRun(f, o)

\* A cue that is lined up and has no line was not bought, under any key.
BlankIsNew ==
  \A i \in 1..synced : record[i].line = 0 /\ doc[i].text # NoText => bought[doc[i].film] = 0

PaidInv == /\ bought \in [FilmCues -> Nat]
           /\ PaidOnce /\ BoughtIsHeld /\ BlankIsNew

\* A bought line is found again: its cue's end moves by no more than the
\* tolerance.
LEMMA BoughtIsKnown ==
  ASSUME AllInv, BoughtIsHeld, NEW i \in 1..Len(doc), doc[i].text # NoText,
         bought[doc[i].film] # 0
  PROVE  Known(KeyOf(doc[i])) # 0
<1> DEFINE f == doc[i].film
           cue == KeyOf(doc[i])
<1>1. /\ f \in FilmCues /\ doc[i].run \in Offsets /\ cue = InRun(f, doc[i].run)
      /\ cue.text # NoText
  BY CueFacts DEF AllInv
<1>2. record \in Seq(Filed)
  BY DEF AllInv, RecordInv
<1>3. PICK j \in 1..Len(record), o \in Offsets : record[j].line # 0 /\ record[j].key = InRun(f, o)
  BY <1>1 DEF BoughtIsHeld
<1>4. record[j].key.text = cue.text /\ SameCue(record[j].key, cue)
  BY <1>1, <1>3, InRunFacts DEF SameCue
<1>5. j \in Near(cue)
  BY <1>1, <1>3, <1>4 DEF Near
<1> QED BY <1>2, <1>5, KnownFacts

\* Lining the record up loses no bought line, and gives every cue that has one
\* its line.
LEMMA SyncPays ==
  ASSUME AllInv, PaidInv, Sync
  PROVE  PaidInv'
<1>1. UNCHANGED <<doc, bought>> /\ record' = LinedUp /\ synced' = Len(doc)
  BY DEF Sync
<1>2. BoughtIsHeld'
  <2> SUFFICES ASSUME NEW f \in FilmCues, bought[f] # 0
               PROVE  \E i \in 1..Len(record'), o \in Offsets :
                         record'[i].line # 0 /\ record'[i].key = InRun(f, o)
    BY <1>1 DEF BoughtIsHeld, InRun, Later
  <2>1. PICK j \in 1..Len(record), o \in Offsets : record[j].line # 0 /\ record[j].key = InRun(f, o)
    BY DEF PaidInv, BoughtIsHeld
  <2>2. PICK i \in 1..Len(record') : record'[i] = record[j]
    BY <1>1, <2>1, HeldStays
  <2> QED BY <2>1, <2>2
<1>3. BlankIsNew'
  <2> SUFFICES ASSUME NEW i \in 1..Len(doc), record'[i].line = 0, doc[i].text # NoText
               PROVE  bought[doc[i].film] = 0
    BY <1>1 DEF BlankIsNew
  <2>1. Known(KeyOf(doc[i])) = 0
    BY <1>1, LinedUpFacts, AlignedFacts
  <2> QED BY <2>1, BoughtIsKnown DEF PaidInv
<1> QED BY <1>1, <1>2, <1>3 DEF PaidInv, PaidOnce

\* A line that is bought was not bought before, and is filed.
LEMMA TranslatePays ==
  ASSUME AllInv, PaidInv, NEW i \in 1..Len(doc), Translate(i)
  PROVE  PaidInv'
<1> DEFINE f == doc[i].film
<1>1. /\ bought' = [bought EXCEPT ![f] = @ + 1] /\ UNCHANGED <<doc, synced>>
      /\ doc[i].text # NoText /\ i \in 1..synced
  BY TranslateFacts DEF Translate, AllInv, RecordInv
<1>2. /\ f \in FilmCues /\ doc[i].run \in Offsets /\ KeyOf(doc[i]) = InRun(f, doc[i].run)
      /\ f # 0
  BY CueFacts DEF AllInv, FilmCues
<1>3. bought[f] = 0
  BY <1>1, TranslateFacts DEF PaidInv, BlankIsNew
<1> HIDE DEF f
<1>4. /\ bought' \in [FilmCues -> Nat] /\ bought'[f] = 1
      /\ \A g \in FilmCues : g # f => bought'[g] = bought[g]
  BY <1>1, <1>2, <1>3 DEF PaidInv
<1>5. PaidOnce'
  BY <1>4 DEF PaidInv, PaidOnce
<1>6. BoughtIsHeld'
  <2> SUFFICES ASSUME NEW g \in FilmCues, bought'[g] # 0
               PROVE  \E j \in 1..Len(record'), o \in Offsets :
                         record'[j].line # 0 /\ record'[j].key = InRun(g, o)
    BY DEF BoughtIsHeld, InRun, Later
  <2>1. CASE g = f
    BY <1>2, <2>1, TranslateFacts DEF f
  <2>2. CASE g # f
    <3>1. PICK j \in 1..Len(record), o \in Offsets :
             record[j].line # 0 /\ record[j].key = InRun(g, o)
      BY <1>4, <2>2 DEF PaidInv, BoughtIsHeld
    <3> QED BY <3>1, TranslateFacts
  <2> QED BY <2>1, <2>2
<1>7. BlankIsNew'
  <2> SUFFICES ASSUME NEW k \in 1..synced, record'[k].line = 0, doc[k].text # NoText
               PROVE  bought'[doc[k].film] = 0
    BY <1>1 DEF BlankIsNew
  <2>1. k \in 1..Len(doc) /\ k \in 1..Len(record) /\ k # i
    BY <1>2, TranslateFacts DEF AllInv, RecordInv, f
  <2>2. record[k].line = 0
    BY <2>1, TranslateFacts
  <2>3. doc[k].film # f /\ doc[k].film \in FilmCues
    BY <2>1, CueFacts DEF AllInv, DocInv, StoredOnce, f
  <2> QED BY <1>4, <2>2, <2>3 DEF PaidInv, BlankIsNew
<1> QED BY <1>4, <1>5, <1>6, <1>7 DEF PaidInv

\* What was paid for stays filed.
LEMMA PaidInductive == LiveDocSpec => []PaidInv
<1>1. LiveDocInit => PaidInv
  BY DEF LiveDocInit, PaidInv, PaidOnce, BoughtIsHeld, BlankIsNew
<1>2. AllInv /\ PaidInv /\ [LiveDocNext]_docVars => PaidInv'
  <2> SUFFICES ASSUME AllInv, PaidInv, [LiveDocNext]_docVars PROVE PaidInv'
    OBVIOUS
  <2>1. ASSUME UNCHANGED <<record, bought, synced>>,
               \A i \in 1..synced : doc'[i] = doc[i]
        PROVE  PaidInv'
    BY <2>1 DEF PaidInv, PaidOnce, BoughtIsHeld, BlankIsNew, InRun, Later
  <2>2. CASE AddCue
    <3>1. UNCHANGED <<record, bought, synced>> /\ (doc' = doc \/ doc' = Append(doc, Taken))
      BY <2>2 DEF AddCue, Taken
    <3>2. doc \in Seq(Entry) /\ synced \in 0..Len(doc)
      BY DEF AllInv, DocInv, RecordInv
    <3> QED BY <2>1, <3>1, <3>2
  <2>3. CASE UNCHANGED docVars \/ \E o \in Offsets : Seek(o)
    BY <2>1, <2>3 DEF docVars, Seek
  <2>4. CASE \E o \in Offsets : NewDoc(o)
    <3>1. UNCHANGED <<record, bought>> /\ synced' = 0
      BY <2>4 DEF NewDoc
    <3> QED BY <3>1 DEF PaidInv, PaidOnce, BoughtIsHeld, BlankIsNew, InRun, Later
  <2>5. CASE Sync
    BY <2>5, SyncPays
  <2>6. CASE \E i \in 1..Len(doc) : Translate(i)
    BY <2>6, TranslatePays
  <2> QED BY <2>2, <2>3, <2>4, <2>5, <2>6 DEF LiveDocNext
<1> QED BY <1>1, <1>2, AllInductive, PTL DEF LiveDocSpec

\* A line of the film is paid for once, whatever runs, sessions and documents it
\* is read in (the comments on lookup and syncLive: "bought again").
THEOREM LinesArePaidOnce == LiveDocSpec => []PaidOnce
<1>1. PaidInv => PaidOnce
  BY DEF PaidInv
<1> QED BY <1>1, PaidInductive, PTL

-----------------------------------------------------------------------------
\* The counters and the reading positions.
ReadInv == /\ next \in 1..(Len(Film) + 1)
           /\ read \subseteq FilmCues \X Offsets
           /\ bought \in [FilmCues -> Nat]

\* The type invariant: the record is a map from keys to lines, the document's
\* keys first, whatever the runs and documents (the comment on syncLive, "each key
\* appears once").
THEOREM LiveDocIsTyped == LiveDocSpec => []LiveDocTypeOK
<1>1. LiveDocInit => ReadInv
  BY FirstOfTyped DEF LiveDocInit, ReadInv
<1>2. AllInv /\ ReadInv /\ [LiveDocNext]_docVars => ReadInv'
  <2> SUFFICES ASSUME AllInv, ReadInv, [LiveDocNext]_docVars PROVE ReadInv'
    OBVIOUS
  <2>1. Len(Film) \in Nat /\ run \in Offsets
    BY LiveDocAssumption DEF AllInv, DocInv
  <2>2. CASE AddCue
    BY <2>1, <2>2 DEF AddCue, ReadInv, FilmCues
  <2>3. ASSUME NEW o \in Offsets, Seek(o) \/ NewDoc(o) PROVE ReadInv'
    BY <2>3, FirstOfTyped DEF Seek, NewDoc, ReadInv
  <2>4. ASSUME NEW i \in 1..Len(doc), Translate(i) PROVE ReadInv'
    <3>1. doc[i].film \in FilmCues
      BY CueFacts DEF AllInv
    <3> QED BY <2>4, <3>1 DEF Translate, ReadInv
  <2> QED BY <2>2, <2>3, <2>4 DEF LiveDocNext, Sync, docVars, ReadInv
<1>3. AllInv /\ ReadInv => LiveDocTypeOK
  <2> SUFFICES ASSUME AllInv, ReadInv PROVE LiveDocTypeOK
    OBVIOUS
  <2>1. \A i \in 1..Len(doc) : /\ KeyOf(doc[i]) \in KeySet
                               /\ doc[i].run \in Offsets /\ doc[i].film \in FilmCues
    BY CueFacts DEF AllInv
  <2>2. \A i \in 1..Len(record) : record[i].key \in KeySet /\ record[i].line \in FilmCues \cup {0}
    <3>1. record \in Seq(Filed)
      BY DEF AllInv, RecordInv
    <3>2. \A i \in 1..Len(record) : record[i] \in Filed
      BY <3>1
    <3> QED BY <3>2 DEF Filed
  <2> QED BY <2>1, <2>2 DEF LiveDocTypeOK, AllInv, DocInv, RecordInv, ReadInv
<1> QED BY <1>1, <1>2, <1>3, AllInductive, PTL DEF LiveDocSpec

-----------------------------------------------------------------------------
(* The film's cues as LiveSource and LiveJob count them.  Those two modules   *)
(* know a cue by its place in the film and a line by its cue: the document is  *)
(* what was read with each place once, the record a map from places to lines.  *)
(* That is what the code's matching by time and text comes to as long as the   *)
(* film repeats no line within the tolerance.                                  *)

\* Two cues of the film with one text are apart by more than the tolerance, in
\* all runs that play them ("well below the gap at which a line repeated in
\* dialogue is a different cue", the comment on cueMatchTolerance).
Apart == \A o, p \in Offsets : \A f, g \in FilmCues :
           /\ FirstOf(o) <= f /\ FirstOf(p) <= g
           /\ f # g /\ Film[f].text = Film[g].text /\ Film[f].text # NoText
           => ~SameCue(InRun(f, o), InRun(g, p))

\* What is in the document was played by its run.
Played == /\ next \in Nat /\ FirstOf(run) <= next
          /\ \A i \in 1..Len(doc) : FirstOf(doc[i].run) <= doc[i].film

\* What is bought has a text; a line is filed under a key its own cue has in a run
\* that plays it, and was bought.
OwnLines == /\ \A f \in FilmCues : bought[f] # 0 => Film[f].text # NoText
            /\ \A j \in 1..Len(record) : record[j].line # 0 =>
                  /\ bought[record[j].line] # 0
                  /\ \E o \in Offsets : /\ FirstOf(o) <= record[j].line
                                        /\ record[j].key = InRun(record[j].line, o)

\* The document as places in the film, and what reading the next cue makes of it.
Places == [i \in 1..Len(doc) |-> doc[i].film]

PlacesRead == IF \E i \in 1..Len(doc) : doc[i].film = next THEN Places
              ELSE Append(Places, next)

\* The lines of the record, once it is lined up, are those that were bought for
\* the document's places.
RecordByPlace == \A i \in 1..synced :
                   record[i].line = IF bought[doc[i].film] # 0 THEN doc[i].film ELSE 0

-----------------------------------------------------------------------------
\* A playlist goes on from its run's first cue, and only what it lists is stored.
LEMMA PlayedStays ==
  ASSUME DocInv, DocInv', Played, [LiveDocNext]_docVars
  PROVE  Played'
<1>1. \A o \in Offsets : FirstOf(o) \in Nat
  BY FirstOfTyped
<1>2. CASE AddCue
  <2>1. /\ run' = run /\ next' = next + 1 /\ run \in Offsets
        /\ doc' = doc \/ doc' = Append(doc, Taken)
    BY <1>2 DEF AddCue, Taken, DocInv
  <2>2. doc \in Seq(Entry) /\ Len(doc) \in Nat
    BY DEF DocInv
  <2>3. \A i \in 1..Len(doc') : FirstOf(doc'[i].run) <= doc'[i].film
    <3>1. CASE doc' = doc
      BY <3>1 DEF Played
    <3>2. CASE doc' = Append(doc, Taken)
      <4>1. /\ Len(doc') = Len(doc) + 1 /\ \A i \in 1..Len(doc) : doc'[i] = doc[i]
            /\ doc'[Len(doc) + 1] = Taken
        BY <2>2, <3>2
      <4>2. Taken.run = run /\ Taken.film = next
        BY DEF Taken
      <4>3. ASSUME NEW i \in 1..Len(doc') PROVE FirstOf(doc'[i].run) <= doc'[i].film
        <5>1. i \in 1..Len(doc) \/ i = Len(doc) + 1
          BY <2>2, <4>1
        <5> QED BY <4>1, <4>2, <5>1 DEF Played
      <4> QED BY <4>3
    <3> QED BY <2>1, <3>1, <3>2
  <2>4. next' \in Nat /\ FirstOf(run') <= next'
    BY <1>1, <2>1 DEF Played
  <2> QED BY <2>3, <2>4 DEF Played, FirstOf, FilmCues, InRun, Later
<1>3. ASSUME NEW o \in Offsets, Seek(o) \/ NewDoc(o) PROVE Played'
  <2>1. run' = o /\ next' = FirstOf(o) /\ (doc' = doc \/ doc' = <<>>)
    BY <1>3 DEF Seek, NewDoc
  <2>2. \A i \in 1..Len(doc') : FirstOf(doc'[i].run) <= doc'[i].film
    BY <2>1 DEF Played
  <2>3. next' \in Nat /\ FirstOf(run') <= next'
    BY <1>1, <2>1
  <2> QED BY <2>2, <2>3 DEF Played, FirstOf, FilmCues, InRun, Later
<1>4. CASE UNCHANGED <<doc, run, next>>
  BY <1>4 DEF Played, FirstOf, FilmCues, InRun, Later
<1> QED BY <1>2, <1>3, <1>4 DEF LiveDocNext, Sync, Translate, docVars

\* What is recognised as the next cue is the next cue.
LEMMA RecognisedRight ==
  ASSUME Apart, DocInv, Played, next \in FilmCues, Film[next].text # NoText,
         Held(InRun(next, run)) \/ DupWithin(InRun(next, run), run)
  PROVE  \E i \in 1..Len(doc) : doc[i].film = next
<1>1. PICK i \in 1..Len(doc) : /\ doc[i].text = Film[next].text
                               /\ SameCue(doc[i], InRun(next, run))
  <2>1. InRun(next, run).text = Film[next].text
    BY DEF InRun
  <2>2. CASE Held(InRun(next, run))
    <3>1. PICK i \in 1..Len(doc) : KeyOf(doc[i]) = InRun(next, run)
      BY <2>2 DEF Held
    <3>2. /\ doc[i].start = InRun(next, run).start /\ doc[i].end = InRun(next, run).end
          /\ doc[i].text = InRun(next, run).text
      BY <3>1 DEF KeyOf
    <3>3. InRun(next, run).start \in Int /\ Tolerance \in Nat
      BY InRunFacts, LiveDocAssumption DEF DocInv
    <3>4. SameCue(doc[i], InRun(next, run))
      BY <3>2, <3>3 DEF SameCue, Gap
    <3> QED BY <2>1, <3>2, <3>4
  <2>3. CASE DupWithin(InRun(next, run), run)
    BY <2>1, <2>3 DEF DupWithin
  <2> QED BY <2>2, <2>3
<1>2. /\ doc[i].film \in FilmCues /\ doc[i].run \in Offsets /\ run \in Offsets
      /\ KeyOf(doc[i]) = InRun(doc[i].film, doc[i].run)
      /\ doc[i].text = Film[doc[i].film].text
  BY CueFacts DEF DocInv
<1>3. SameCue(InRun(doc[i].film, doc[i].run), InRun(next, run))
  <2>1. /\ InRun(doc[i].film, doc[i].run).start = doc[i].start
        /\ InRun(doc[i].film, doc[i].run).end = doc[i].end
    BY <1>2 DEF KeyOf
  <2> QED BY <1>1, <2>1 DEF SameCue
<1>4. FirstOf(doc[i].run) <= doc[i].film /\ FirstOf(run) <= next
  BY DEF Played
<1> QED BY <1>1, <1>2, <1>3, <1>4 DEF Apart

\* Reading a cue takes its place in the film, unless the document has it.
LEMMA PlaceIsRead ==
  ASSUME Apart, DocInv, Played, AddCue, Film[next].text # NoText
  PROVE  Places' = PlacesRead
<1>1. next \in FilmCues /\ doc \in Seq(Entry) /\ Len(doc) \in Nat
  BY DEF AddCue, DocInv
<1>2. CASE \E i \in 1..Len(doc) : doc[i].film = next
  <2>1. Held(InRun(next, run)) \/ DupWithin(InRun(next, run), run)
    BY <1>1, <1>2, Recognised
  <2>2. doc' = doc
    BY <2>1 DEF AddCue
  <2> QED BY <1>2, <2>2 DEF Places, PlacesRead
<1>3. CASE ~ \E i \in 1..Len(doc) : doc[i].film = next
  <2>1. doc' = Append(doc, Taken)
    BY <1>1, <1>3, RecognisedRight DEF AddCue, Taken
  <2>2. /\ Len(doc') = Len(doc) + 1 /\ \A i \in 1..Len(doc) : doc'[i] = doc[i]
        /\ doc'[Len(doc) + 1].film = next
    BY <1>1, <2>1 DEF Taken
  <2>3. PlacesRead = Append(Places, next)
    BY <1>3 DEF PlacesRead
  <2>4. Places \in Seq(FilmCues) /\ Len(Places) = Len(doc)
        /\ \A i \in 1..Len(doc) : Places[i] = doc[i].film
    BY <1>1, CueFacts DEF Places
  <2>5. /\ Append(Places, next) \in [1..(Len(doc) + 1) -> FilmCues]
        /\ \A i \in 1..Len(doc) : Append(Places, next)[i] = doc[i].film
        /\ Append(Places, next)[Len(doc) + 1] = next
    <3>1. ASSUME NEW s \in Seq(FilmCues), NEW x \in FilmCues
          PROVE  /\ Append(s, x) \in Seq(FilmCues) /\ Len(Append(s, x)) = Len(s) + 1
                 /\ Append(s, x)[Len(s) + 1] = x
                 /\ \A i \in 1..Len(s) : Append(s, x)[i] = s[i]
      OBVIOUS
    <3>2. \A t \in Seq(FilmCues) : t \in [1..Len(t) -> FilmCues]
      OBVIOUS
    <3>3. /\ Append(Places, next) \in Seq(FilmCues) /\ Len(Append(Places, next)) = Len(doc) + 1
          /\ Append(Places, next)[Len(doc) + 1] = next
          /\ \A i \in 1..Len(doc) : Append(Places, next)[i] = Places[i]
      <4> HIDE DEF Places
      <4>1. Places \in Seq(FilmCues) /\ next \in FilmCues /\ Len(Places) = Len(doc)
        BY <1>1, <2>4
      <4> QED BY <4>1, <3>1
    <3>4. Append(Places, next) \in [1..(Len(doc) + 1) -> FilmCues]
      BY <3>2, <3>3
    <3> QED BY <2>4, <3>3, <3>4
  <2>6. Places' = [i \in 1..(Len(doc) + 1) |-> doc'[i].film]
    BY <2>2 DEF Places
  <2>7. \A i \in 1..(Len(doc) + 1) : doc'[i].film = Append(Places, next)[i]
    <3> TAKE i \in 1..(Len(doc) + 1)
    <3>1. i \in 1..Len(doc) \/ i = Len(doc) + 1
      BY <1>1
    <3> QED BY <2>2, <2>5, <3>1
  <2>8. Places' = Append(Places, next)
    BY <2>5, <2>6, <2>7
  <2> QED BY <2>3, <2>8
<1> QED BY <1>2, <1>3

\* Reading a cue with a text takes its place in the film or finds it taken, whatever
\* runs and shifts the document was read in (AddSegment; LiveSource reads its
\* document so, whose cues all have a text).
THEOREM DocumentIsByPlace ==
  ASSUME Apart
  PROVE  LiveDocSpec => [][AddCue /\ Film[next].text # NoText => Places' = PlacesRead]_docVars
<1>1. LiveDocInit => Played
  <2> SUFFICES ASSUME LiveDocInit PROVE Played
    OBVIOUS
  <2>1. FirstOf(run) \in Nat /\ next = FirstOf(run) /\ doc = <<>>
    BY FirstOfTyped DEF LiveDocInit
  <2> QED BY <2>1 DEF Played
<1>2. DocInv /\ DocInv' /\ Played /\ [LiveDocNext]_docVars => Played'
  BY PlayedStays
<1>3. DocInv /\ Played /\ [LiveDocNext]_docVars
      => [AddCue /\ Film[next].text # NoText => Places' = PlacesRead]_docVars
  BY PlaceIsRead, Apart
<1> QED BY <1>1, <1>2, <1>3, DocInductive, PTL DEF LiveDocSpec

-----------------------------------------------------------------------------
\* What is known of a cue of the document is its own line.
LEMMA KnownIsOwn ==
  ASSUME Apart, AllInv, Played, OwnLines, NEW i \in 1..Len(doc), Known(KeyOf(doc[i])) # 0
  PROVE  /\ Known(KeyOf(doc[i])) = doc[i].film
         /\ bought[doc[i].film] # 0
<1> DEFINE cue == KeyOf(doc[i])
<1>1. /\ doc[i].film \in FilmCues /\ doc[i].run \in Offsets
      /\ cue = InRun(doc[i].film, doc[i].run) /\ cue.text = Film[doc[i].film].text
      /\ FirstOf(doc[i].run) <= doc[i].film
  BY CueFacts DEF AllInv, Played
<1>2. record \in Seq(Filed) /\ Known(cue) # 0
  BY DEF AllInv, RecordInv
<1> HIDE DEF cue
<1>3. PICK j \in 1..Len(record) :
         /\ record[j].line = Known(cue) /\ record[j].line # 0
         /\ \/ record[j].key = cue
            \/ record[j].key.text = cue.text /\ SameCue(record[j].key, cue)
  BY <1>2, KnownFacts
<1>4. record[j].line \in FilmCues
  <2>1. record[j] \in Filed
    BY <1>2
  <2> QED BY <1>3, <2>1 DEF Filed
<1> DEFINE g == record[j].line
<1>5. PICK o \in Offsets : FirstOf(o) <= g /\ record[j].key = InRun(g, o)
  BY <1>3 DEF OwnLines
<1>6. SameCue(cue, cue)
  BY <1>1, InRunFacts, LiveDocAssumption DEF SameCue, Gap
<1>7. SameCue(InRun(g, o), cue) /\ Film[g].text = cue.text /\ Film[g].text # NoText
  BY <1>3, <1>4, <1>5, <1>6, InRunFacts DEF OwnLines
<1>8. g = doc[i].film
  BY <1>1, <1>4, <1>5, <1>7 DEF Apart
<1> QED BY <1>3, <1>8 DEF OwnLines, cue

\* A line that is bought or lined up is filed under a key of its own cue.
LEMMA OwnStays ==
  ASSUME Apart, AllInv, Played, OwnLines, PaidInv, [LiveDocNext]_docVars
  PROVE  OwnLines'
<1>0. \A f \in FilmCues : bought'[f] # 0 => Film[f].text # NoText
  <2>1. CASE UNCHANGED bought
    BY <2>1 DEF OwnLines
  <2>2. ASSUME NEW i \in 1..Len(doc), Translate(i)
        PROVE  \A f \in FilmCues : bought'[f] # 0 => Film[f].text # NoText
    <3>1. /\ bought' = [bought EXCEPT ![doc[i].film] = @ + 1] /\ bought \in [FilmCues -> Nat]
          /\ doc[i].text # NoText
      BY <2>2 DEF Translate, PaidInv
    <3>2. doc[i].film \in FilmCues /\ doc[i].text = Film[doc[i].film].text
      BY CueFacts DEF AllInv
    <3> QED BY <3>1, <3>2 DEF OwnLines
  <2> QED BY <2>1, <2>2 DEF LiveDocNext, AddCue, Seek, NewDoc, Sync, docVars
<1> SUFFICES ASSUME NEW j \in 1..Len(record'), record'[j].line # 0
             PROVE  /\ bought'[record'[j].line] # 0
                    /\ \E o \in Offsets : /\ FirstOf(o) <= record'[j].line
                                          /\ record'[j].key = InRun(record'[j].line, o)
  BY <1>0 DEF OwnLines, FirstOf, FilmCues, InRun, Later
<1>1. CASE UNCHANGED <<record, bought>>
  BY <1>1 DEF OwnLines
<1>2. CASE Sync
  <2>1. UNCHANGED bought /\ record' = LinedUp /\ Len(doc) \in Nat
    BY <1>2, LinedUpFacts DEF Sync
  <2>2. CASE j \in 1..Len(doc)
    <3>1. /\ record'[j].line = Known(KeyOf(doc[j])) /\ record'[j].key = KeyOf(doc[j])
      BY <2>1, <2>2, LinedUpFacts, AlignedFacts
    <3>2. record'[j].line = doc[j].film /\ bought[doc[j].film] # 0
      BY <2>2, <3>1, KnownIsOwn
    <3>3. /\ doc[j].run \in Offsets /\ KeyOf(doc[j]) = InRun(doc[j].film, doc[j].run)
          /\ FirstOf(doc[j].run) <= doc[j].film
      BY <2>2, CueFacts DEF AllInv, Played
    <3> QED BY <2>1, <3>1, <3>2, <3>3
  <2>3. CASE j > Len(doc)
    <3>1. PICK n \in 1..Len(record) : record'[j] = record[n]
      BY <2>1, <2>3, LinedUpFacts
    <3> QED BY <2>1, <3>1 DEF OwnLines
  <2> QED BY <2>1, <2>2, <2>3, LinedUpFacts
<1>3. ASSUME NEW i \in 1..Len(doc), Translate(i)
      PROVE  /\ bought'[record'[j].line] # 0
             /\ \E o \in Offsets : /\ FirstOf(o) <= record'[j].line
                                   /\ record'[j].key = InRun(record'[j].line, o)
  <2>1. /\ bought' = [bought EXCEPT ![doc[i].film] = @ + 1] /\ bought \in [FilmCues -> Nat]
    BY <1>3 DEF Translate, PaidInv
  <2>2. /\ doc[i].film \in FilmCues /\ doc[i].run \in Offsets
        /\ KeyOf(doc[i]) = InRun(doc[i].film, doc[i].run)
        /\ FirstOf(doc[i].run) <= doc[i].film
    BY CueFacts DEF AllInv, Played
  <2>3. \A f \in FilmCues : bought[f] # 0 \/ f = doc[i].film => bought'[f] # 0
    BY <2>1, <2>2
  <2>4. j \in 1..Len(record)
    BY <1>3, TranslateFacts
  <2>5. CASE j = i
    <3>1. record'[j].line = doc[i].film /\ record'[j].key = KeyOf(doc[i])
      BY <1>3, <2>4, <2>5, TranslateFacts
    <3> QED BY <2>2, <2>3, <3>1
  <2>6. CASE j # i
    <3>1. record'[j] = record[j]
      BY <1>3, <2>4, <2>6, TranslateFacts
    <3>2. record[j].line \in FilmCues
      <4>1. record \in Seq(Filed)
        BY DEF AllInv, RecordInv
      <4>2. record[j] \in Filed
        BY <2>4, <4>1
      <4> QED BY <3>1, <4>2 DEF Filed
    <3> QED BY <2>3, <2>4, <3>1, <3>2 DEF OwnLines
  <2> QED BY <2>5, <2>6
<1> QED BY <1>1, <1>2, <1>3 DEF LiveDocNext, AddCue, Seek, NewDoc, docVars

\* A lined-up place has its line if it was bought, and no other place's.
LEMMA LinedByPlace ==
  ASSUME Apart, AllInv, Played, OwnLines, PaidInv
  PROVE  RecordByPlace
<1> SUFFICES ASSUME NEW i \in 1..synced
             PROVE  record[i].line = IF bought[doc[i].film] # 0 THEN doc[i].film ELSE 0
  BY DEF RecordByPlace
<1>1. /\ record \in Seq(Filed) /\ i \in 1..Len(doc) /\ i \in 1..Len(record)
      /\ record[i].key = KeyOf(doc[i])
  BY DEF AllInv, RecordInv, DocInv
<1>2. /\ doc[i].film \in FilmCues /\ doc[i].text = Film[doc[i].film].text
  BY <1>1, CueFacts DEF AllInv
<1>3. CASE record[i].line = 0
  BY <1>2, <1>3 DEF PaidInv, BlankIsNew, OwnLines
<1>4. CASE record[i].line # 0
  <2>1. i \in Exact(KeyOf(doc[i]))
    BY <1>1, <1>4 DEF Exact
  <2>2. PICK k \in Exact(KeyOf(doc[i])) : record[k].line = Known(KeyOf(doc[i]))
    BY <1>1, <2>1, KnownFacts
  <2>3. k = i
    BY <1>1, <2>2 DEF Exact, AllInv, RecordInv, EachKeyOnce
  <2>4. record[i].line = doc[i].film /\ bought[doc[i].film] # 0
    BY <1>1, <1>4, <2>2, <2>3, KnownIsOwn
  <2> QED BY <2>4
<1> QED BY <1>3, <1>4

\* Once it is lined up, the record gives each place of the document the line that
\* was bought for it, under whatever times it was bought, and no other line: a map
\* from places to lines (collectKnown, lookup, alignLines, syncLive; LiveJob's tr).
THEOREM RecordIsByPlace ==
  ASSUME Apart
  PROVE  LiveDocSpec => []RecordByPlace
<1>1. LiveDocInit => Played /\ OwnLines
  <2> SUFFICES ASSUME LiveDocInit PROVE Played /\ OwnLines
    OBVIOUS
  <2>1. FirstOf(run) \in Nat /\ next = FirstOf(run) /\ doc = <<>> /\ record = <<>>
    BY FirstOfTyped DEF LiveDocInit
  <2>2. \A f \in FilmCues : bought[f] = 0
    BY DEF LiveDocInit
  <2> QED BY <2>1, <2>2 DEF Played, OwnLines
<1>2. /\ AllInv /\ AllInv' /\ Played /\ OwnLines /\ PaidInv /\ [LiveDocNext]_docVars
      => Played' /\ OwnLines'
  BY PlayedStays, OwnStays, Apart DEF AllInv
<1>3. AllInv /\ Played /\ OwnLines /\ PaidInv => RecordByPlace
  BY LinedByPlace, Apart
<1> QED BY <1>1, <1>2, <1>3, AllInductive, PaidInductive, PTL DEF LiveDocSpec

=============================================================================
