----------------------------- MODULE FilePollProofs -----------------------------
(***************************************************************************)
(* What the polls of a file track are told, for any documents and any      *)
(* number of polls: PollInv is inductive, and implies the invariants of    *)
(* FilePoll that its run checks.                                           *)
(*                                                                         *)
(* A poll holds on to what it has read (floor, known) while the job goes   *)
(* on.  The argument is that the record only grows until the artifact has  *)
(* taken its place or a job for another document has started it over       *)
(* (StoreGrows), so that what was read earlier stays a part of what is     *)
(* there (FloorKept, KnownKept) for the polls that were not overtaken by   *)
(* the latter, which renewed remembers.                                    *)
(***************************************************************************)
EXTENDS FilePoll, FiniteSetTheorems, TLAPS

\* The calls at which a poll without a GET's rights holds a record it has read.
HoldsKnown == {"document", "fetching", "waiting", "count"}

\* The calls of a poll that has its document.
HasDocument == {"count", "ensure", "snapshot", "record"}

\* The record s is still there in r: of the same size, with all its lines.
Extends(r, s) ==
  s # NoProgress => r # NoProgress /\ r.total = s.total /\ Filled(s) \subseteq Filled(r)

\* A job, and a record, are what a GET has left behind; a job that drops the
\* record has put the artifact, and one that fills it has registered it for its
\* own document.
JobFits == /\ job # "none" => gets
           /\ stored # NoProgress => gets
           /\ job = "dropping" => artifact
           /\ job \in {"queued", "filling"} => jobDoc \in Sizes
           /\ job = "filling" => stored # NoProgress /\ stored.total = jobDoc

DocumentFits == /\ docCache = "parsed" => parsed \in Sizes
                /\ \A p \in Polls : call[p] \in HasDocument => given[p] \in Sizes

FloorKept == \A p \in Polls :
  call[p] # "idle" => artifact \/ p \in renewed \/ Extends(stored, floor[p])

KnownKept == \A p \in Polls :
  /\ call[p] = "count" => method[p] # "GET"
  /\ call[p] \in HoldsKnown /\ method[p] # "GET" =>
       /\ gets /\ known[p] # NoProgress
       /\ \/ artifact \/ p \in renewed
          \/ Extends(stored, known[p]) /\ Extends(known[p], floor[p])

PollInv == /\ FilePollTypeOK
           /\ JobFits
           /\ DocumentFits
           /\ FloorKept
           /\ KnownKept
           /\ LessMeansFinal
           /\ CompleteMeansComplete
           /\ ErrorsAreReal

-----------------------------------------------------------------------------
(* Records, and counting them.                                              *)

\* What a record is: of a document's size, with lines for some of its cues with text.
LEMMA RecordFacts ==
  ASSUME NEW r
  PROVE  r \in Records <=>
           \/ r = NoProgress
           \/ \E n \in Sizes : \E S \in SUBSET TextCues[n] : r = [total |-> n, lines |-> S]
<1>1. ASSUME NEW n \in Sizes
      PROVE  r \in [total : {n}, lines : SUBSET TextCues[n]] <=>
               \E S \in SUBSET TextCues[n] : r = [total |-> n, lines |-> S]
  OBVIOUS
<1>2. r \in UNION {[total : {n}, lines : SUBSET TextCues[n]] : n \in Sizes} <=>
        \E n \in Sizes : r \in [total : {n}, lines : SUBSET TextCues[n]]
  OBVIOUS
<1> QED BY <1>1, <1>2 DEF Records

\* The lines of a record are for cues with text of its document; there are none
\* without a record, and none is filed under cue 0.
LEMMA FilledFacts ==
  ASSUME NEW r \in Records
  PROVE  /\ r.total \in Sizes \cup {0} /\ r.total \in Nat
         /\ Filled(r) \subseteq 1..r.total
         /\ r = NoProgress => Filled(r) = {} /\ r.total = 0
         /\ r # NoProgress => /\ r.total \in Sizes /\ Filled(r) = r.lines
                              /\ r.lines \subseteq TextCues[r.total]
                              /\ r = [total |-> r.total, lines |-> r.lines]
<1>1. CASE r = NoProgress
  BY <1>1 DEF NoProgress, Filled
<1>2. ASSUME NEW n \in Sizes, NEW S \in SUBSET TextCues[n], r = [total |-> n, lines |-> S]
      PROVE  /\ r.total \in Sizes /\ r.total \in Nat /\ Filled(r) = r.lines
             /\ r.lines \subseteq TextCues[r.total] /\ Filled(r) \subseteq 1..r.total
             /\ r = [total |-> r.total, lines |-> r.lines] /\ r # NoProgress
  <2>1. S \subseteq 1..n /\ 0 \notin S /\ n \in Nat
    BY FilePollAssumption
  <2>2. r.total = n /\ r.lines = S
    BY <1>2
  <2> QED BY <1>2, <2>1, <2>2 DEF Filled, NoProgress
<1> QED BY <1>1, <1>2, RecordFacts

\* A record that starts with no line, and one that gets another, are records.
LEMMA RecordsGrow ==
  ASSUME NEW n \in Sizes
  PROVE  /\ Fresh(n) \in Records /\ Fresh(n) # NoProgress /\ Fresh(n).total = n
         /\ \A r \in Records, c \in TextCues[n] :
              r # NoProgress /\ r.total = n =>
                LET s == [r EXCEPT !.lines = @ \cup {c}]
                IN  s \in Records /\ s # NoProgress /\ s.total = n /\ Extends(s, r)
<1>1. Fresh(n) \in Records /\ Fresh(n) # NoProgress /\ Fresh(n).total = n
  BY RecordFacts DEF Fresh, NoProgress
<1>2. ASSUME NEW r \in Records, NEW c \in TextCues[n], r # NoProgress, r.total = n
      PROVE  LET s == [r EXCEPT !.lines = @ \cup {c}]
             IN  s \in Records /\ s # NoProgress /\ s.total = n /\ Extends(s, r)
  <2> DEFINE s == [r EXCEPT !.lines = @ \cup {c}]
             T == r.lines \cup {c}
  <2>1. r = [total |-> n, lines |-> r.lines] /\ T \in SUBSET TextCues[n]
    BY <1>2, FilledFacts
  <2>2. s = [total |-> n, lines |-> T]
    BY <2>1
  <2>3. s \in Records
    BY <2>1, <2>2, RecordFacts
  <2>4. s.total = n /\ s.lines = T /\ 0 \notin T
    BY <2>1, <2>2, FilePollAssumption
  <2> HIDE DEF s
  <2>5. s # NoProgress
    BY <2>4, <1>2 DEF NoProgress
  <2>6. Filled(s) = s.lines /\ Filled(r) = r.lines
    BY <2>3, <2>5, <1>2, FilledFacts
  <2>7. Extends(s, r)
    BY <2>4, <2>5, <2>6, <1>2 DEF Extends
  <2> QED BY <2>3, <2>4, <2>5, <2>7 DEF s
<1> QED BY <1>1, <1>2

\* What extends what extends a record extends it.
LEMMA ExtendsTransitive ==
  ASSUME NEW r, NEW s, NEW t, Extends(r, s), Extends(s, t)
  PROVE  Extends(r, t)
BY DEF Extends

\* Sets of cues are counted as one expects.
LEMMA CountFacts ==
  ASSUME NEW n \in Nat, NEW S \in SUBSET (1..n)
  PROVE  /\ Cardinality(S) \in 0..n
         /\ Cardinality(S) = n => S = 1..n
         /\ \A T \in SUBSET S : Cardinality(T) \in Nat /\ Cardinality(T) <= Cardinality(S)
<1>1. IsFiniteSet(1..n) /\ Cardinality(1..n) = n
  BY FS_Interval
<1>2. /\ IsFiniteSet(S) /\ Cardinality(S) <= n
      /\ Cardinality(S) = n => S = 1..n
  BY <1>1, FS_Subset
<1>3. \A T \in SUBSET S : Cardinality(T) \in Nat /\ Cardinality(T) <= Cardinality(S)
  BY <1>2, FS_Subset, FS_CardinalityType
<1> QED BY <1>2, <1>3, FS_CardinalityType

\* Of a document of its own size, a count says at least as much as the record
\* holds; of any document, "all" only when every cue with text has a line in it.
Counts(a, r) == /\ a.kind = "partial" /\ a.done \in 0..a.total /\ a.total \in Sizes \cup {0}
                /\ a.total = r.total => a.done >= Cardinality(Filled(r))
                /\ a.total > 0 /\ a.done = a.total =>
                     a.total \in Sizes /\ TextCues[a.total] \subseteq Filled(r)

\* Both ways of counting a record are such counts.
LEMMA AnswerFacts ==
  ASSUME NEW r \in Records
  PROVE  /\ Counts(ByRecord(r), r)
         /\ \A n \in Sizes : Counts(ByDocument(n, r), r)
<1>1. Counts(ByRecord(r), r)
  <2> DEFINE S == Filled(r)
             k == Cardinality(S)
  <2>1. r.total \in Nat /\ S \in SUBSET (1..r.total) /\ r.total \in Sizes \cup {0}
    BY FilledFacts
  <2>2. k \in 0..r.total /\ (k = r.total => S = 1..r.total)
    BY <2>1, CountFacts
  <2>3. ByRecord(r) = [kind |-> "partial", done |-> k, total |-> r.total]
    BY DEF ByRecord, Partial
  <2>4. ASSUME r.total > 0 PROVE r.total \in Sizes /\ TextCues[r.total] \subseteq 1..r.total
    BY <2>1, <2>4, FilePollAssumption
  <2> HIDE DEF k
  <2> QED BY <2>1, <2>2, <2>3, <2>4 DEF Counts, k
<1>2. ASSUME NEW n \in Sizes PROVE Counts(ByDocument(n, r), r)
  <2> DEFINE S == {c \in 1..n : c \in TextCues[n] => c \in Filled(r)}
             k == Cardinality(S)
  <2>1. n \in Nat /\ S \in SUBSET (1..n) /\ TextCues[n] \subseteq 1..n
    BY FilePollAssumption
  <2>2. /\ k \in 0..n /\ (k = n => S = 1..n)
        /\ \A T \in SUBSET S : Cardinality(T) <= k
    BY <2>1, CountFacts
  <2>3. ByDocument(n, r) = [kind |-> "partial", done |-> k, total |-> n]
    BY DEF ByDocument, Partial
  <2>4. S = 1..n => TextCues[n] \subseteq Filled(r)
    BY <2>1
  <2>5. n = r.total => Filled(r) \in SUBSET S
    BY FilledFacts
  <2>6. n = r.total => Cardinality(Filled(r)) <= k
    BY <2>2, <2>5
  <2>7. Cardinality(Filled(r)) \in Nat
    BY FilledFacts, CountFacts
  <2> HIDE DEF k
  <2> QED BY <2>1, <2>2, <2>3, <2>4, <2>6, <2>7 DEF Counts
<1> QED BY <1>1, <1>2

-----------------------------------------------------------------------------
(* What a step does to the store, and what that means for the polls.        *)

\* The record grows until the artifact takes its place, which stays, or until it is
\* started over, and then every poll that is served is marked.
StoreGrows == /\ artifact => artifact'
              /\ gets => gets'
              /\ \/ artifact' \/ Extends(stored', stored)
                 \/ \A p \in Polls : call'[p] # "idle" => p \in renewed'

\* What a step may do to the locals of a poll: nothing, end it, begin it, take
\* what it holds along, or read the record.
LocalsMove(p) ==
  \/ call'[p] = "idle"
  \/ /\ call'[p] \in {"document", "known"} /\ (call'[p] = "document" => method'[p] = "GET")
     /\ floor'[p] \in {NoProgress, stored}
     /\ UNCHANGED stored
  \/ /\ call[p] # "idle"
     /\ floor'[p] = floor[p] /\ method'[p] = method[p] /\ known'[p] = known[p]
     /\ p \in renewed => p \in renewed'
     /\ call'[p] = "count" => method[p] # "GET"
     /\ call'[p] \in HoldsKnown /\ method[p] # "GET" => call[p] \in HoldsKnown
  \/ /\ call[p] = "known" /\ call'[p] = "document"
     /\ known'[p] = stored /\ stored # NoProgress
     /\ floor'[p] = floor[p] /\ (p \in renewed => p \in renewed')
     /\ UNCHANGED stored

\* However the polls move, what they hold is part of what is there.
LEMMA HeldKept ==
  ASSUME JobFits, FloorKept, KnownKept, StoreGrows, \A p \in Polls : LocalsMove(p)
  PROVE  FloorKept' /\ KnownKept'
<1>1. FloorKept'
  <2> SUFFICES ASSUME NEW p \in Polls, call'[p] # "idle", ~artifact', p \notin renewed'
               PROVE  Extends(stored', floor'[p])
    BY DEF FloorKept
  <2>1. ~artifact /\ Extends(stored', stored)
    BY DEF StoreGrows
  <2>2. Extends(stored, floor'[p])
    BY <2>1 DEF LocalsMove, FloorKept, Extends
  <2> QED BY <2>1, <2>2, ExtendsTransitive
<1>2. KnownKept'
  <2> SUFFICES ASSUME NEW p \in Polls
               PROVE  /\ call'[p] = "count" => method'[p] # "GET"
                      /\ call'[p] \in HoldsKnown /\ method'[p] # "GET" =>
                           /\ gets' /\ known'[p] # NoProgress
                           /\ \/ artifact' \/ p \in renewed'
                              \/ Extends(stored', known'[p]) /\ Extends(known'[p], floor'[p])
    BY DEF KnownKept
  <2>1. CASE \/ call'[p] = "idle"
             \/ /\ call'[p] \in {"document", "known"} /\ (call'[p] = "document" => method'[p] = "GET")
                /\ floor'[p] \in {NoProgress, stored}
                /\ UNCHANGED stored
    BY <2>1 DEF HoldsKnown
  <2>2. CASE /\ call[p] # "idle"
             /\ floor'[p] = floor[p] /\ method'[p] = method[p] /\ known'[p] = known[p]
             /\ p \in renewed => p \in renewed'
             /\ call'[p] = "count" => method[p] # "GET"
             /\ call'[p] \in HoldsKnown /\ method[p] # "GET" => call[p] \in HoldsKnown
    <3> SUFFICES ASSUME call'[p] \in HoldsKnown, method[p] # "GET"
                 PROVE  /\ gets' /\ known[p] # NoProgress
                        /\ \/ artifact' \/ p \in renewed'
                           \/ Extends(stored', known[p]) /\ Extends(known[p], floor[p])
      BY <2>2
    <3>1. /\ gets' /\ known[p] # NoProgress
          /\ \/ artifact' \/ p \in renewed'
             \/ Extends(stored, known[p]) /\ Extends(known[p], floor[p])
      BY <2>2 DEF KnownKept, StoreGrows
    <3>2. artifact' \/ p \in renewed' \/ Extends(stored', stored)
      BY DEF StoreGrows, HoldsKnown
    <3> QED BY <3>1, <3>2, ExtendsTransitive
  <2>3. CASE /\ call[p] = "known" /\ call'[p] = "document"
             /\ known'[p] = stored /\ stored # NoProgress
             /\ floor'[p] = floor[p] /\ (p \in renewed => p \in renewed')
             /\ UNCHANGED stored
    <3>1. artifact' \/ p \in renewed' \/ Extends(stored, floor[p])
      BY <2>3 DEF FloorKept, StoreGrows
    <3>2. gets'
      BY <2>3 DEF JobFits, StoreGrows
    <3>3. Extends(stored', stored)
      BY <2>3 DEF Extends
    <3> QED BY <2>3, <3>1, <3>2, <3>3
  <2> QED BY <2>1, <2>2, <2>3 DEF LocalsMove
<1> QED BY <1>1, <1>2

ToldFits == LessMeansFinal /\ CompleteMeansComplete /\ ErrorsAreReal

\* What an answer has to be, so that the poll p may be told it.
Honest(p, a) == \/ a = FinalAnswer
                \/ a = ErrorAnswer /\ refused'
                \/ \E r \in Records : /\ Counts(a, r)
                                      /\ a.total > 0 => \/ artifact' \/ p \in renewed
                                                        \/ /\ Extends(stored', r)
                                                           /\ Extends(r, floor[p])

ToldTypes == \A t \in told : /\ t.answer.kind \in {"partial", "final", "error"}
                             /\ t.answer.done \in 0..t.answer.total
                             /\ t.answer.kind = "partial" => t.answer.total \in Sizes \cup {0}
                             /\ t.less \in BOOLEAN /\ t.renewed \in BOOLEAN

\* An honest count keeps what the polls are promised.
LEMMA CountIsFit ==
  ASSUME FilePollTypeOK, stored' \in Records, NEW p \in Polls, NEW a, NEW r \in Records, Counts(a, r),
         a.total > 0 => \/ artifact' \/ p \in renewed
                        \/ Extends(stored', r) /\ Extends(r, floor[p])
  PROVE  /\ a.kind = "partial" /\ a.done \in 0..a.total /\ a.total \in Sizes \cup {0}
         /\ SaysLess(p, a) => artifact' \/ p \in renewed
         /\ a.total > 0 /\ a.done = a.total =>
              artifact' \/ p \in renewed \/ TextCues[a.total] \subseteq Filled(stored)'
<1> DEFINE f == floor[p]
           k == Cardinality(Filled(f))
<1>1. a.kind = "partial" /\ a.done \in 0..a.total /\ a.total \in Sizes \cup {0}
  BY DEF Counts
<1>2. a.total \in Nat /\ a.done \in Nat /\ a.done <= a.total
  <2>1. a.total \in Nat
    <3>1. Sizes \subseteq Nat /\ 0 \in Nat
      BY FilePollAssumption
    <3> QED BY <1>1, <3>1
  <2>2. a.done \in 0..a.total
    BY <1>1
  <2> HIDE DEF f, k
  <2> QED BY <2>1, <2>2
<1>3. /\ f \in Records /\ f.total \in Nat /\ Filled(f) \subseteq 1..f.total
      /\ f = NoProgress => Filled(f) = {}
  BY FilledFacts DEF FilePollTypeOK
<1>4. k \in 0..f.total
  BY <1>3, CountFacts
<1>5. ASSUME SaysLess(p, a) PROVE artifact' \/ p \in renewed
  <2>1. a.total = f.total /\ a.done < k
    BY <1>5 DEF SaysLess
  <2>2. a.total > 0
    BY <1>2, <1>4, <2>1
  <2>3. SUFFICES ASSUME Extends(r, f) PROVE FALSE
    BY <2>2
  <2>4. f # NoProgress
    <3>1. CASE f = NoProgress
      <4>1. k = 0
        BY <1>3, <3>1, FS_EmptySet
      <4> QED BY <4>1, <1>2, <2>1
    <3> QED BY <3>1
  <2>5. r.total = f.total /\ Filled(f) \subseteq Filled(r) /\ Filled(r) \subseteq 1..r.total /\ r.total \in Nat
    BY <2>3, <2>4, FilledFacts DEF Extends
  <2>6. k <= Cardinality(Filled(r)) /\ Cardinality(Filled(r)) \in Nat
    BY <2>5, CountFacts
  <2>7. a.done >= Cardinality(Filled(r))
    BY <2>1, <2>5 DEF Counts
  <2> QED BY <2>1, <2>6, <2>7, <1>2, <1>4
<1>6. ASSUME a.total > 0, a.done = a.total, ~artifact', p \notin renewed
      PROVE  TextCues[a.total] \subseteq Filled(stored)'
  <2>1. TextCues[a.total] \subseteq Filled(r) /\ Extends(stored', r)
    BY <1>6 DEF Counts
  <2>2. CASE r = NoProgress
    BY <2>1, <2>2, FilledFacts
  <2>3. CASE r # NoProgress
    BY <2>1, <2>3 DEF Extends, Filled
  <2> QED BY <2>2, <2>3
<1> QED BY <1>1, <1>5, <1>6

\* An honest answer is well typed and keeps what the polls are promised.
LEMMA HonestIsFit ==
  ASSUME FilePollTypeOK, stored' \in Records,
         \A t \in told' : \E p \in Polls : \E a : Honest(p, a) /\ t = Told(p, a)
  PROVE  ToldTypes' /\ ToldFits'
<1> SUFFICES ASSUME NEW t \in told'
             PROVE  /\ t.answer.kind \in {"partial", "final", "error"}
                    /\ t.answer.done \in 0..t.answer.total
                    /\ t.answer.kind = "partial" => t.answer.total \in Sizes \cup {0}
                    /\ t.less \in BOOLEAN /\ t.renewed \in BOOLEAN
                    /\ t.answer.kind = "partial" /\ t.less => artifact' \/ t.renewed
                    /\ t.answer.kind = "partial" /\ t.answer.total > 0
                         /\ t.answer.done = t.answer.total =>
                           artifact' \/ t.renewed \/ TextCues[t.answer.total] \subseteq Filled(stored)'
                    /\ t.answer.kind = "error" => refused'
  BY DEF ToldTypes, ToldFits, LessMeansFinal, CompleteMeansComplete, ErrorsAreReal
<1>0. PICK p \in Polls : \E a : Honest(p, a) /\ t = Told(p, a)
  OBVIOUS
<1>1. PICK a : Honest(p, a) /\ t = Told(p, a)
  BY <1>0
<1>2. t.answer = a /\ t.less = SaysLess(p, a) /\ t.renewed = (p \in renewed)
  BY <1>1 DEF Told
<1>3. t.less \in BOOLEAN /\ t.renewed \in BOOLEAN
  BY <1>2 DEF SaysLess
<1>4. CASE a = FinalAnswer
  BY <1>2, <1>3, <1>4 DEF FinalAnswer
<1>5. CASE a = ErrorAnswer /\ refused'
  BY <1>2, <1>3, <1>5 DEF ErrorAnswer
<1>6. ASSUME NEW r \in Records, Counts(a, r),
             a.total > 0 => \/ artifact' \/ p \in renewed
                            \/ Extends(stored', r) /\ Extends(r, floor[p])
      PROVE  /\ a.kind = "partial" /\ a.done \in 0..a.total /\ a.total \in Sizes \cup {0}
             /\ SaysLess(p, a) => artifact' \/ p \in renewed
             /\ a.total > 0 /\ a.done = a.total =>
                  artifact' \/ p \in renewed \/ TextCues[a.total] \subseteq Filled(stored)'
  BY <1>6, CountIsFit
<1> QED BY <1>1, <1>2, <1>3, <1>4, <1>5, <1>6 DEF Honest


-----------------------------------------------------------------------------
(* The steps.                                                               *)

JobOrCache == \/ Register \/ FindsFinal \/ Fill \/ PutFinal \/ PutFinalFails
              \/ Drop \/ DropFails \/ JobStops \/ Expire

\* What a step of the job does to the polls: at most mark those that are served.
Marks == /\ told' = {} /\ refused' = FALSE /\ UNCHANGED localsOf
         /\ renewed' \in {renewed, {p \in Polls : call[p] # "idle"}}

\* The job fills the record, starts it over, or replaces it by the artifact; it
\* answers nobody.
LEMMA JobSide ==
  ASSUME PollInv, JobOrCache
  PROVE  FilePollTypeOK' /\ JobFits' /\ DocumentFits' /\ StoreGrows /\ Marks
<1> USE DEF PollInv, JobFits, DocumentFits, StoreGrows, Quiet, Marks, JobMoves, Ready,
            storeOf, jobOf, cacheOf, localsOf
<1>0. Extends(stored, stored) /\ NoProgress \in Records
  BY DEF Extends, Records
<1>1. CASE Register
  <2>1. jobDoc \in Sizes /\ ~artifact /\ gets /\ job' = "filling" /\ jobDoc' = jobDoc
    BY <1>1 DEF Register
  <2>2. /\ stored' \in Records /\ stored' # NoProgress /\ stored'.total = jobDoc
        /\ Extends(stored', stored) \/ StartsOver
    BY <1>0, <1>1, <2>1, RecordsGrow DEF Register, StartsOver, FilePollTypeOK, Extends
  <2>3. Marks /\ UNCHANGED <<artifact, cacheOf, gets>>
    BY <1>1 DEF Register
  <2>4. renewed' \in SUBSET Polls /\ (StartsOver => \A p \in Polls : call'[p] # "idle" => p \in renewed')
    BY <1>1, <2>3 DEF Register, FilePollTypeOK
  <2>5. FilePollTypeOK'
    BY <2>1, <2>2, <2>3, <2>4 DEF FilePollTypeOK
  <2> QED BY <2>1, <2>2, <2>3, <2>4, <2>5
<1>2. CASE Fill
  <2>1. stored # NoProgress /\ gets /\ jobDoc \in Sizes /\ stored.total = jobDoc /\ stored \in Records
    BY <1>2 DEF Fill, FilePollTypeOK
  <2>2. PICK c \in TextCues[jobDoc] : stored' = [stored EXCEPT !.lines = @ \cup {c}]
    BY <1>2 DEF Fill
  <2>3. /\ stored' \in Records /\ stored' # NoProgress /\ stored'.total = jobDoc
        /\ Extends(stored', stored)
    BY <2>1, <2>2, RecordsGrow
  <2> QED BY <1>2, <2>1, <2>3 DEF Fill, FilePollTypeOK
<1>3. CASE FindsFinal \/ Expire
  BY <1>0, <1>3 DEF FindsFinal, Expire, FilePollTypeOK
<1>4. CASE PutFinal \/ PutFinalFails
  BY <1>0, <1>4 DEF PutFinal, PutFinalFails, KeepsRecord, FilePollTypeOK
<1>5. CASE Drop \/ DropFails
  BY <1>0, <1>5 DEF Drop, DropFails, FilePollTypeOK
<1>6. CASE JobStops
  BY <1>0, <1>6 DEF JobStops, FilePollTypeOK
<1> QED BY <1>1, <1>2, <1>3, <1>4, <1>5, <1>6 DEF JobOrCache

\* What the steps of the polls leave of the store and the job.
StoreKept == /\ UNCHANGED <<artifact, stored>> /\ (gets => gets')
             /\ \/ UNCHANGED <<job, jobDoc>>
                \/ job' = "queued" /\ jobDoc' \in Sizes /\ gets'

LocalsTyped == /\ call \in [Polls -> {"idle", "known", "document", "fetching", "waiting", "count",
                                      "ensure", "snapshot", "record"}]
               /\ method \in [Polls -> {"GET", "HEAD", "HEADpos"}]
               /\ given \in [Polls -> Sizes \cup {0}]
               /\ known \in [Polls -> Records]
               /\ floor \in [Polls -> Records]
               /\ renewed \in SUBSET Polls

RestTyped == /\ docCache \in {"none", "fetching", "parsed"} /\ parsed \in Sizes \cup {0}
             /\ gets \in BOOLEAN /\ refused \in BOOLEAN

\* A step of the polls keeps the invariant if it moves their locals as it may and
\* answers honestly.
LEMMA PollsKeep ==
  ASSUME PollInv, StoreKept, LocalsTyped', RestTyped', DocumentFits',
         \A p \in Polls : LocalsMove(p),
         \A t \in told' : \E p \in Polls : \E a : Honest(p, a) /\ t = Told(p, a)
  PROVE  PollInv'
<1>1. stored' \in Records /\ stored \in Records
  BY DEF PollInv, FilePollTypeOK, StoreKept
<1>2. ToldTypes' /\ ToldFits'
  BY <1>1, HonestIsFit DEF PollInv
<1>3. FilePollTypeOK'
  BY <1>2 DEF PollInv, FilePollTypeOK, StoreKept, LocalsTyped, RestTyped, ToldTypes
<1>4. JobFits' /\ StoreGrows
  BY DEF PollInv, JobFits, StoreKept, StoreGrows, Extends
<1>5. FloorKept' /\ KnownKept'
  BY <1>4, HeldKept DEF PollInv
<1> QED BY <1>2, <1>3, <1>4, <1>5 DEF PollInv, ToldFits

\* Ending some polls moves the locals of none that goes on.
LEMMA EndMoves ==
  ASSUME FilePollTypeOK, DocumentFits, KnownKept, NEW polls, End(polls),
         docCache' = "parsed" => parsed' \in Sizes
  PROVE  LocalsTyped' /\ DocumentFits' /\ \A p \in Polls : LocalsMove(p)
<1> USE DEF FilePollTypeOK, LocalsTyped, End
<1>1. LocalsTyped'
  BY DEF Records
<1>2. ASSUME NEW p \in Polls PROVE LocalsMove(p) /\ (call'[p] \in HasDocument => given'[p] \in Sizes)
  <2>1. CASE p \in polls
    BY <2>1 DEF LocalsMove, HasDocument
  <2>2. CASE p \notin polls
    BY <2>2 DEF LocalsMove, KnownKept, DocumentFits
  <2> QED BY <2>1, <2>2
<1> QED BY <1>1, <1>2 DEF DocumentFits

\* So does going on to the next call, if a HEAD keeps off what it has not read and
\* the poll has its document where it needs one.
LEMMA ProceedMoves ==
  ASSUME FilePollTypeOK, DocumentFits, KnownKept, NEW p \in Polls, NEW s, Proceed(p, s),
         call[p] # "idle",
         s \in {"document", "fetching", "waiting", "known", "snapshot", "record"},
         s \in HoldsKnown /\ method[p] # "GET" => call[p] \in HoldsKnown,
         s \in HasDocument => call[p] \in HasDocument,
         docCache' = "parsed" => parsed' \in Sizes
  PROVE  LocalsTyped' /\ DocumentFits' /\ told' = {} /\ \A q \in Polls : LocalsMove(q)
<1> USE DEF FilePollTypeOK, LocalsTyped, Proceed
<1>1. LocalsTyped'
  OBVIOUS
<1>2. ASSUME NEW q \in Polls PROVE LocalsMove(q) /\ (call'[q] \in HasDocument => given'[q] \in Sizes)
  <2>1. CASE q = p
    BY <2>1 DEF LocalsMove, DocumentFits
  <2>2. CASE q # p
    BY <2>2 DEF LocalsMove, KnownKept, DocumentFits
  <2> QED BY <2>1, <2>2
<1> QED BY <1>1, <1>2 DEF DocumentFits

\* A poll that is answered.
LEMMA AnswerKeeps ==
  ASSUME PollInv, StoreKept, RestTyped', UNCHANGED cacheOf,
         NEW p \in Polls, NEW a, Answer(p, a), Honest(p, a)
  PROVE  PollInv'
<1>1. LocalsTyped' /\ DocumentFits' /\ \A q \in Polls : LocalsMove(q)
  BY EndMoves DEF PollInv, Answer, cacheOf, DocumentFits
<1>2. \A t \in told' : \E q \in Polls : \E b : Honest(q, b) /\ t = Told(q, b)
  BY DEF Answer
<1> QED BY <1>1, <1>2, PollsKeep

\* A poll that goes on to its next call.
LEMMA ProceedKeeps ==
  ASSUME PollInv, StoreKept, RestTyped', NEW p \in Polls, NEW s, Proceed(p, s), call[p] # "idle",
         s \in {"document", "fetching", "waiting", "known", "snapshot", "record"},
         s \in HoldsKnown /\ method[p] # "GET" => call[p] \in HoldsKnown,
         s \in HasDocument => call[p] \in HasDocument,
         docCache' = "parsed" => parsed' \in Sizes
  PROVE  PollInv'
<1>1. LocalsTyped' /\ DocumentFits' /\ told' = {} /\ \A q \in Polls : LocalsMove(q)
  BY ProceedMoves DEF PollInv
<1> QED BY <1>1, PollsKeep

\* Counting what the store holds now is honest, and so is counting what a HEAD has
\* read before.
LEMMA CountsAreHonest ==
  ASSUME PollInv, StoreKept, NEW p \in Polls, call[p] # "idle"
  PROVE  /\ Honest(p, ByRecord(stored)) /\ Honest(p, ByRecord(NoProgress))
         /\ \A n \in Sizes : Honest(p, ByDocument(n, stored))
         /\ call[p] \in HoldsKnown /\ method[p] # "GET" =>
              /\ Honest(p, ByRecord(known[p]))
              /\ \A n \in Sizes : Honest(p, ByDocument(n, known[p]))
<1>1. /\ stored \in Records /\ known[p] \in Records /\ NoProgress \in Records
  BY DEF PollInv, FilePollTypeOK, Records
<1>2. ByRecord(NoProgress).total = 0
  BY DEF ByRecord, Partial, NoProgress
<1>3. Honest(p, ByRecord(NoProgress))
  BY <1>1, <1>2, AnswerFacts DEF Honest
<1>4. artifact' \/ p \in renewed \/ Extends(stored, floor[p])
  BY DEF PollInv, FloorKept, StoreKept
<1>5. Extends(stored', stored)
  BY DEF StoreKept, Extends
<1>6. ASSUME NEW a, Counts(a, stored) PROVE Honest(p, a)
  BY <1>1, <1>4, <1>5, <1>6 DEF Honest
<1>7. ASSUME call[p] \in HoldsKnown, method[p] # "GET", NEW a, Counts(a, known[p])
      PROVE  Honest(p, a)
  <2>1. \/ artifact' \/ p \in renewed
        \/ Extends(stored', known[p]) /\ Extends(known[p], floor[p])
    BY <1>7 DEF PollInv, KnownKept, StoreKept
  <2> QED BY <1>1, <1>7, <2>1 DEF Honest
<1> QED BY <1>1, <1>3, <1>6, <1>7, AnswerFacts


-----------------------------------------------------------------------------
\* The first calls of a poll.
LEMMA ReadsKeep ==
  ASSUME PollInv, NEW p \in Polls, BeginFinal(p) \/ StoreFails(p) \/ ReadKnown(p) \/ KnownFails(p)
  PROVE  PollInv'
<1> USE DEF storeOf, jobOf, StoreKept, CallSucceeds, CallFails
<1>1. RestTyped
  BY DEF PollInv, FilePollTypeOK, RestTyped
<1>2. CASE BeginFinal(p)
  <2>1. RestTyped' /\ StoreKept
    BY <1>1, <1>2 DEF BeginFinal, RestTyped, cacheOf
  <2> QED BY <1>2, <2>1, AnswerKeeps DEF BeginFinal, Honest
<1>3. CASE StoreFails(p)
  <2>1. RestTyped' /\ StoreKept /\ refused'
    BY <1>1, <1>3 DEF StoreFails, RestTyped, cacheOf
  <2> QED BY <1>3, <2>1, AnswerKeeps DEF StoreFails, Honest
<1>4. CASE ReadKnown(p)
  <2>1. RestTyped' /\ StoreKept /\ call[p] = "known" /\ UNCHANGED cacheOf
    BY <1>1, <1>4 DEF ReadKnown, RestTyped, cacheOf
  <2>2. CASE WantsDocument(p)
    <3>1. LocalsTyped' /\ told' = {}
      BY <1>4, <2>2 DEF ReadKnown, PollInv, FilePollTypeOK, LocalsTyped
    <3>2. ASSUME NEW q \in Polls
          PROVE  LocalsMove(q) /\ (call'[q] \in HasDocument => given'[q] \in Sizes)
      BY <1>4, <2>1, <2>2
         DEF ReadKnown, WantsDocument, PollInv, FilePollTypeOK, KnownKept, DocumentFits,
             LocalsMove, HasDocument
    <3>3. DocumentFits'
      BY <2>1, <3>2 DEF PollInv, DocumentFits, cacheOf
    <3> QED BY <2>1, <3>1, <3>2, <3>3, PollsKeep
  <2>3. CASE ~WantsDocument(p)
    <3>1. Answer(p, ByRecord(stored))
      BY <1>4, <2>3 DEF ReadKnown
    <3> QED BY <2>1, <3>1, CountsAreHonest, AnswerKeeps
  <2> QED BY <2>2, <2>3
<1>5. CASE KnownFails(p)
  <2>1. RestTyped' /\ StoreKept /\ call[p] = "known" /\ UNCHANGED cacheOf
    BY <1>1, <1>5 DEF KnownFails, RestTyped, cacheOf
  <2> QED BY <1>5, <2>1, CountsAreHonest, AnswerKeeps DEF KnownFails
<1> QED BY <1>2, <1>3, <1>4, <1>5

\* The document: a hit, a fetch begun or one that is joined, and counting with it.
LEMMA DocumentKeeps ==
  ASSUME PollInv, NEW p \in Polls,
         HitDocument(p) \/ BeginFetch(p) \/ JoinFetch(p) \/ CountKnown(p)
  PROVE  PollInv'
<1> USE DEF storeOf, jobOf, StoreKept, CallSucceeds
<1>1. RestTyped
  BY DEF PollInv, FilePollTypeOK, RestTyped
<1>2. CASE HitDocument(p)
  <2>1. RestTyped' /\ StoreKept /\ told' = {} /\ parsed \in Sizes /\ UNCHANGED cacheOf
    BY <1>1, <1>2 DEF HitDocument, RestTyped, cacheOf, PollInv, DocumentFits
  <2>2. LocalsTyped'
    BY <1>2, <2>1 DEF HitDocument, WithDocument, PollInv, FilePollTypeOK, LocalsTyped
  <2>3. ASSUME NEW q \in Polls
        PROVE  LocalsMove(q) /\ (call'[q] \in HasDocument => given'[q] \in Sizes)
    <3>1. CASE q = p
      BY <1>2, <2>1, <3>1
         DEF HitDocument, WithDocument, PollInv, FilePollTypeOK, LocalsMove, HoldsKnown
    <3>2. CASE q # p
      BY <1>2, <3>2 DEF HitDocument, PollInv, FilePollTypeOK, KnownKept, DocumentFits, LocalsMove
    <3> QED BY <3>1, <3>2
  <2>4. DocumentFits'
    BY <2>1, <2>3 DEF PollInv, DocumentFits, cacheOf
  <2> QED BY <2>1, <2>2, <2>3, <2>4, PollsKeep
<1>3. CASE BeginFetch(p) \/ JoinFetch(p)
  <2>1. /\ RestTyped' /\ StoreKept /\ call[p] = "document"
        /\ docCache' = "parsed" => parsed' \in Sizes
    BY <1>1, <1>3 DEF BeginFetch, JoinFetch, RestTyped, cacheOf
  <2>2. Proceed(p, "waiting") \/ Proceed(p, "fetching")
    BY <1>3 DEF BeginFetch, JoinFetch
  <2> QED BY <2>1, <2>2, ProceedKeeps DEF HoldsKnown, HasDocument
<1>4. CASE CountKnown(p)
  <2>1. /\ RestTyped' /\ StoreKept /\ call[p] = "count" /\ method[p] # "GET"
        /\ given[p] \in Sizes /\ UNCHANGED cacheOf
    BY <1>1, <1>4 DEF CountKnown, RestTyped, cacheOf, PollInv, KnownKept, DocumentFits, HasDocument
  <2>2. Honest(p, ByDocument(given[p], known[p]))
    BY <2>1, CountsAreHonest DEF HoldsKnown
  <2> QED BY <1>4, <2>1, <2>2, AnswerKeeps DEF CountKnown
<1> QED BY <1>2, <1>3, <1>4

\* The end of the shared fetch, for everyone who waits for it.
LEMMA FetchKeeps ==
  ASSUME PollInv, FetchOk \/ FetchFails
  PROVE  PollInv'
<1> USE DEF storeOf, jobOf, StoreKept, CallSucceeds, CallFails
<1>1. RestTyped
  BY DEF PollInv, FilePollTypeOK, RestTyped
<1>2. CASE FetchOk
  <2>1. RestTyped' /\ StoreKept /\ told' = {} /\ parsed' \in Sizes
    BY <1>1, <1>2 DEF FetchOk, RestTyped
  <2>2. LocalsTyped'
    BY <1>2, <2>1 DEF FetchOk, WithDocument, PollInv, FilePollTypeOK, LocalsTyped
  <2>3. ASSUME NEW p \in Polls
        PROVE  LocalsMove(p) /\ (call'[p] \in HasDocument => given'[p] \in Sizes)
    <3>1. CASE p \in Waiting
      BY <1>2, <2>1, <3>1
         DEF FetchOk, WithDocument, Waiting, HoldsKnown, PollInv, FilePollTypeOK, LocalsMove
    <3>2. CASE p \notin Waiting
      BY <1>2, <3>2 DEF FetchOk, PollInv, FilePollTypeOK, KnownKept, DocumentFits, LocalsMove
    <3> QED BY <3>1, <3>2
  <2>4. DocumentFits'
    BY <2>1, <2>3 DEF DocumentFits
  <2> QED BY <2>1, <2>2, <2>3, <2>4, PollsKeep
<1>3. CASE FetchFails
  <2>1. RestTyped' /\ StoreKept /\ refused' /\ End(Waiting) /\ docCache' = "none"
    BY <1>1, <1>3 DEF FetchFails, EndFetch, RestTyped
  <2>2. LocalsTyped' /\ DocumentFits' /\ \A p \in Polls : LocalsMove(p)
    BY <2>1, EndMoves DEF PollInv
  <2>3. ASSUME NEW t \in told' PROVE \E p \in Polls : \E a : Honest(p, a) /\ t = Told(p, a)
    <3>1. PICK p \in Waiting :
            t = Told(p, IF method[p] = "GET" THEN ErrorAnswer ELSE ByRecord(known[p]))
      BY <1>3 DEF FetchFails, EndFetch
    <3>2. p \in Polls /\ call[p] \in {"fetching", "waiting"}
      BY DEF Waiting
    <3>3. CASE method[p] = "GET"
      BY <2>1, <3>1, <3>2, <3>3 DEF Honest
    <3>4. CASE method[p] # "GET"
      BY <2>1, <3>1, <3>2, <3>4, CountsAreHonest DEF HoldsKnown
    <3> QED BY <3>3, <3>4
  <2> QED BY <2>1, <2>2, <2>3, PollsKeep
<1> QED BY <1>2, <1>3

\* Ensure and the two calls of Snapshot.
LEMMA SnapshotKeeps ==
  ASSUME PollInv, NEW p \in Polls, PollEnsure(p) \/ SnapshotFinal(p) \/ SnapshotRecord(p)
  PROVE  PollInv'
<1> USE DEF storeOf, jobOf, StoreKept, CallSucceeds
<1>1. RestTyped /\ (docCache = "parsed" => parsed \in Sizes)
  BY DEF PollInv, FilePollTypeOK, RestTyped, DocumentFits
<1>2. CASE PollEnsure(p)
  <2>1. /\ RestTyped' /\ call[p] = "ensure" /\ Proceed(p, "snapshot")
        /\ docCache' = "parsed" => parsed' \in Sizes
    BY <1>1, <1>2 DEF PollEnsure, RestTyped, cacheOf
  <2>2. given[p] \in Sizes
    BY <2>1 DEF PollInv, DocumentFits, HasDocument
  <2>3. StoreKept
    BY <1>2, <2>2 DEF PollEnsure
  <2> QED BY <2>1, <2>3, ProceedKeeps DEF HoldsKnown, HasDocument
<1>3. CASE SnapshotFinal(p)
  <2>1. RestTyped' /\ StoreKept /\ call[p] = "snapshot" /\ UNCHANGED cacheOf
    BY <1>1, <1>3 DEF SnapshotFinal, RestTyped, cacheOf
  <2>2. CASE artifact
    BY <1>3, <2>1, <2>2, AnswerKeeps DEF SnapshotFinal, Honest
  <2>3. CASE ~artifact
    BY <1>1, <1>3, <2>1, <2>3, ProceedKeeps DEF SnapshotFinal, HoldsKnown, HasDocument, cacheOf
  <2> QED BY <2>2, <2>3
<1>4. CASE SnapshotRecord(p)
  <2>1. /\ RestTyped' /\ StoreKept /\ call[p] = "record" /\ UNCHANGED cacheOf
        /\ given[p] \in Sizes
    BY <1>1, <1>4 DEF SnapshotRecord, RestTyped, cacheOf, PollInv, DocumentFits, HasDocument
  <2> QED BY <1>4, <2>1, CountsAreHonest, AnswerKeeps DEF SnapshotRecord
<1> QED BY <1>2, <1>3, <1>4

\* A poll begins, or its client goes away.
LEMMA ComeAndGo ==
  ASSUME PollInv, NEW p \in Polls, HangUp(p) \/ \E m \in Methods[p] : Begin(p, m)
  PROVE  PollInv'
<1> USE DEF storeOf, jobOf, StoreKept, CallSucceeds
<1>1. RestTyped
  BY DEF PollInv, FilePollTypeOK, RestTyped
<1>2. CASE HangUp(p)
  <2>1. RestTyped' /\ StoreKept /\ told' = {} /\ End({p}) /\ UNCHANGED cacheOf
    BY <1>1, <1>2 DEF HangUp, TakesFetchAlong, RestTyped, cacheOf
  <2>2. docCache' = "parsed" => parsed' \in Sizes
    BY <2>1 DEF PollInv, DocumentFits, cacheOf
  <2>3. LocalsTyped' /\ DocumentFits' /\ \A q \in Polls : LocalsMove(q)
    BY <2>1, <2>2, EndMoves DEF PollInv
  <2> QED BY <2>1, <2>3, PollsKeep
<1>3. ASSUME NEW m \in Methods[p], Begin(p, m) PROVE PollInv'
  <2>1. RestTyped' /\ StoreKept /\ told' = {} /\ UNCHANGED cacheOf
    BY <1>1, <1>3 DEF Begin, RestTyped, cacheOf
  <2>2. m \in {"GET", "HEAD", "HEADpos"}
    BY FilePollAssumption
  <2>3. LocalsTyped'
    BY <1>3, <2>2 DEF Begin, PollInv, FilePollTypeOK, LocalsTyped, Records
  <2>4. ASSUME NEW q \in Polls
        PROVE  LocalsMove(q) /\ (call'[q] \in HasDocument => given'[q] \in Sizes)
    <3>1. CASE q = p
      BY <1>3, <3>1 DEF Begin, PollInv, FilePollTypeOK, LocalsMove, HasDocument
    <3>2. CASE q # p
      BY <1>3, <3>2 DEF Begin, PollInv, FilePollTypeOK, KnownKept, DocumentFits, LocalsMove
    <3> QED BY <3>1, <3>2
  <2>5. DocumentFits'
    BY <2>1, <2>4 DEF PollInv, DocumentFits, cacheOf
  <2> QED BY <2>1, <2>3, <2>4, <2>5, PollsKeep
<1> QED BY <1>2, <1>3

\* The job's steps answer nobody, and the polls keep what they hold.
LEMMA JobKeeps ==
  ASSUME PollInv, JobOrCache
  PROVE  PollInv'
<1>1. FilePollTypeOK' /\ JobFits' /\ DocumentFits' /\ StoreGrows /\ Marks
  BY JobSide
<1>2. ASSUME NEW p \in Polls PROVE LocalsMove(p)
  BY <1>1 DEF Marks, localsOf, LocalsMove, PollInv, KnownKept
<1>3. FloorKept' /\ KnownKept'
  BY <1>1, <1>2, HeldKept DEF PollInv
<1> QED BY <1>1, <1>3 DEF PollInv, Marks, LessMeansFinal, CompleteMeansComplete, ErrorsAreReal

-----------------------------------------------------------------------------
\* At first nothing is there and nobody asks.
LEMMA PollInitInv == FilePollInit => PollInv
<1> SUFFICES ASSUME FilePollInit PROVE PollInv
  OBVIOUS
<1>1. FilePollTypeOK
  <2>1. LocalsTyped
    BY DEF FilePollInit, LocalsTyped, Records
  <2>2. RestTyped
    BY DEF FilePollInit, RestTyped
  <2>3. /\ artifact = FALSE /\ stored \in Records /\ job = "none" /\ jobDoc = 0 /\ told = {}
    BY DEF FilePollInit, Records
  <2> QED BY <2>1, <2>2, <2>3 DEF FilePollTypeOK, LocalsTyped, RestTyped
<1>2. JobFits /\ DocumentFits /\ FloorKept /\ KnownKept
  BY DEF FilePollInit, JobFits, DocumentFits, FloorKept, KnownKept, HoldsKnown, HasDocument
<1> QED BY <1>1, <1>2 DEF FilePollInit, PollInv, LessMeansFinal, CompleteMeansComplete, ErrorsAreReal

\* A step that changes nothing tells nobody anything new.
LEMMA PollStutter == PollInv /\ UNCHANGED pollVars => PollInv'
BY DEF pollVars, storeOf, jobOf, cacheOf, localsOf, PollInv, FilePollTypeOK, JobFits, DocumentFits,
   FloorKept, KnownKept, LessMeansFinal, CompleteMeansComplete, ErrorsAreReal, Filled, Extends

\* PollInv is inductive.
LEMMA PollNextInv == PollInv /\ [FilePollNext]_pollVars => PollInv'
<1> SUFFICES ASSUME PollInv, [FilePollNext]_pollVars PROVE PollInv'
  OBVIOUS
<1>1. CASE JobOrCache \/ FetchOk \/ FetchFails
  BY <1>1, JobKeeps, FetchKeeps
<1>2. ASSUME NEW p \in Polls,
             \/ HangUp(p) \/ \E m \in Methods[p] : Begin(p, m)
             \/ BeginFinal(p) \/ StoreFails(p) \/ ReadKnown(p) \/ KnownFails(p)
             \/ HitDocument(p) \/ BeginFetch(p) \/ JoinFetch(p) \/ CountKnown(p)
             \/ PollEnsure(p) \/ SnapshotFinal(p) \/ SnapshotRecord(p)
      PROVE  PollInv'
  BY <1>2, ComeAndGo, ReadsKeep, DocumentKeeps, SnapshotKeeps
<1>3. CASE UNCHANGED pollVars
  BY <1>3, PollStutter
<1> QED BY <1>1, <1>2, <1>3 DEF FilePollNext, JobOrCache

\* Every reachable state has it.
LEMMA PollInductive == FilePollSpec => []PollInv
<1> QED BY PollInitInv, PollNextInv, PTL DEF FilePollSpec

-----------------------------------------------------------------------------
\* Every reachable state of the polls is well typed, and no count exceeds its
\* total.
THEOREM PollTyped == FilePollSpec => []FilePollTypeOK
<1>1. PollInv => FilePollTypeOK
  BY DEF PollInv
<1> QED BY <1>1, PollInductive, PTL

\* A poll that is told less than was there when it began is told so only once the
\* artifact is there for the next one (Snapshot's two reads against writeFinal).
THEOREM LessOnlyBeforeFinal == FilePollSpec => []LessMeansFinal
<1>1. PollInv => LessMeansFinal
  BY DEF PollInv
<1> QED BY <1>1, PollInductive, PTL

\* done = total is said only when every cue with text has its line, on every path
\* of the handler (sizedLines, countDoneByIndex and HEAD's own count).
THEOREM DoneIsDone == FilePollSpec => []CompleteMeansComplete
<1>1. PollInv => CompleteMeansComplete
  BY DEF PollInv
<1> QED BY <1>1, PollInductive, PTL

\* No poll is told of an error because another one's client went away (docFor).
THEOREM NobodyElsesError == FilePollSpec => []ErrorsAreReal
<1>1. PollInv => ErrorsAreReal
  BY DEF PollInv
<1> QED BY <1>1, PollInductive, PTL

\* A HEAD fetches the source only for a key that a GET has paid for (ServeHTTP).
THEOREM HeadsFetchNothingNew == FilePollSpec => NoUnpaidFetch
<1>1. PollInv /\ [FilePollNext]_pollVars =>
        [\A p \in Polls : method[p] # "GET" /\ BeginFetch(p) => gets]_pollVars
  BY DEF PollInv, KnownKept, BeginFetch, HoldsKnown
<1> QED BY <1>1, PollInductive, PTL DEF FilePollSpec, NoUnpaidFetch

=============================================================================
