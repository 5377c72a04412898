------------------------------ MODULE ChunkProofs ------------------------------
(***************************************************************************)
(* What FileJob and LiveJob rely on about one batch, for a batch of any    *)
(* size: the chunks still to be asked for tile the end of the batch, and   *)
(* what lies before them is filled, each cue from its own text.            *)
(***************************************************************************)
EXTENDS Chunk, SequenceTheorems, TLAPS

Chunks == [lo : Cues, hi : Cues, text : Cues]

\* The chunks follow each other without a gap, up to the last cue.
Tiling == /\ \A i \in 1..Len(todo) : todo[i].lo <= todo[i].hi /\ todo[i].text = todo[i].lo
          /\ \A i \in 2..Len(todo) : todo[i].lo = todo[i - 1].hi + 1
          /\ todo # <<>> => todo[Len(todo)].hi = N

\* Each chunk has a cue of its own.
Spread == \A i, j \in 1..Len(todo) : j <= i => todo[i].lo - todo[j].lo >= i - j

\* How many cues were answered.
Answers == IF todo = <<>> THEN N ELSE todo[1].lo - 1

Filling == \A c \in Cues : IF c <= Answers THEN lines[c].of = c ELSE lines[c] = Empty

\* Calls are paid for by answered cues (four each) and by splits (two each).
Paid == /\ todo = <<>> => calls <= 4 * N - 2
        /\ Running => calls <= 4 * Answers + 2 * Len(todo) + attempt - 3
        /\ todo # <<>> /\ failed => calls <= 4 * Answers + 2 * Len(todo) + attempt - 2

ChunkInv == /\ ChunkTypeOK
            /\ Tiling
            /\ Spread
            /\ Filling
            /\ Paid

-----------------------------------------------------------------------------
\* The chunks lie within the batch.
LEMMA ChunkFacts ==
  ASSUME ChunkInv
  PROVE  /\ todo \in Seq(Chunks) /\ Len(todo) \in Nat /\ N \in Nat /\ N >= 1
         /\ \A i \in 1..Len(todo) :
              /\ todo[i] \in Chunks
              /\ todo[i].lo \in Int /\ todo[i].lo >= 1 /\ todo[i].lo <= N
              /\ todo[i].hi \in Int /\ todo[i].hi >= 1 /\ todo[i].hi <= N
<1>1. todo \in Seq(Chunks) /\ N \in Nat /\ N >= 1
  BY ChunkAssumption DEF ChunkInv, ChunkTypeOK, Chunks
<1>2. \A x \in Chunks : /\ x.lo \in Int /\ x.lo >= 1 /\ x.lo <= N
                       /\ x.hi \in Int /\ x.hi >= 1 /\ x.hi <= N
  BY <1>1 DEF Chunks, Cues
<1>3. Len(todo) \in Nat /\ \A i \in 1..Len(todo) : todo[i] \in Chunks
  BY <1>1
<1> QED BY <1>1, <1>2, <1>3

\* The asked chunk, and what the sequence is without it.
LEMMA HeadFacts ==
  ASSUME ChunkInv, todo # <<>>
  PROVE  /\ Len(todo) \in Nat /\ Len(todo) >= 1
         /\ Asked = todo[1] /\ Asked \in Chunks
         /\ Asked.lo \in Int /\ Asked.lo >= 1 /\ Asked.hi \in Int /\ Asked.hi <= N
         /\ Asked.lo <= Asked.hi /\ Asked.text = Asked.lo
         /\ Answers = Asked.lo - 1
         /\ Tail(todo) \in Seq(Chunks)
         /\ Len(Tail(todo)) = Len(todo) - 1
         /\ \A i \in 1..Len(Tail(todo)) : Tail(todo)[i] = todo[i + 1]
<1>1. todo \in Seq(Chunks)
  BY ChunkFacts
<1>2. Len(todo) \in Nat /\ Len(todo) >= 1 /\ Asked = todo[1] /\ 1 \in 1..Len(todo)
  BY <1>1 DEF Asked
<1>3. /\ Tail(todo) \in Seq(Chunks) /\ Len(Tail(todo)) = Len(todo) - 1
      /\ \A i \in 1..Len(Tail(todo)) : Tail(todo)[i] = todo[i + 1]
  BY <1>1
<1>4. Asked.lo <= Asked.hi /\ Asked.text = Asked.lo
  BY <1>2 DEF ChunkInv, Tiling
<1>5. /\ Asked \in Chunks /\ Asked.lo \in Int /\ Asked.lo >= 1
      /\ Asked.hi \in Int /\ Asked.hi <= N
  BY <1>2, ChunkFacts
<1> QED BY <1>2, <1>3, <1>4, <1>5 DEF Answers

\* No chunk is left without a cue: the answered cues and the chunks fit N.
LEMMA RoomForChunks ==
  ASSUME ChunkInv, todo # <<>>
  PROVE  Answers + Len(todo) <= N
<1>1. /\ Len(todo) \in Nat /\ Len(todo) >= 1
      /\ 1 \in 1..Len(todo) /\ Len(todo) \in 1..Len(todo)
  BY HeadFacts
<1>2. todo[Len(todo)].lo - todo[1].lo >= Len(todo) - 1
  BY <1>1 DEF ChunkInv, Spread
<1>3. todo[Len(todo)].lo <= N /\ todo[Len(todo)].lo \in Int /\ N \in Nat
  BY <1>1, ChunkFacts
<1> QED BY <1>1, <1>2, <1>3, HeadFacts

-----------------------------------------------------------------------------
\* The whole batch is one chunk, and nothing is filled.
LEMMA ChunkInitInv == ChunkInit => ChunkInv
<1> SUFFICES ASSUME ChunkInit PROVE ChunkInv
  OBVIOUS
<1>1. /\ ChunkOf(1, N, 1) \in Chunks
      /\ todo \in Seq(Chunks) /\ Len(todo) = 1 /\ todo # <<>>
      /\ todo[1] = ChunkOf(1, N, 1)
  BY ChunkAssumption DEF ChunkInit, ChunkOf, Chunks, Cues
<1>2. ChunkTypeOK
  <2>1. Empty \in [of : 0..N, kept : BOOLEAN]
    BY ChunkAssumption DEF Empty
  <2>2. lines \in [Cues -> [of : 0..N, kept : BOOLEAN]]
    BY <2>1 DEF ChunkInit
  <2> QED BY <1>1, <2>2 DEF ChunkInit, ChunkTypeOK, Chunks
<1>3. Tiling /\ Spread /\ Answers = 0
  BY <1>1, ChunkAssumption DEF Tiling, Spread, Answers, ChunkOf
<1>4. Filling
  BY <1>3 DEF ChunkInit, Filling, Cues
<1>5. Paid
  BY <1>1, <1>3 DEF ChunkInit, Paid, Running
<1> QED BY <1>2, <1>3, <1>4, <1>5 DEF ChunkInv

\* An answer fills the asked chunk and goes on with the next one.
LEMMA AnsweredInv ==
  ASSUME ChunkInv, Call, NEW keeps, Answered(keeps), attempt' = 1, UNCHANGED failed
  PROVE  ChunkInv'
<1> DEFINE rest == Tail(todo)
<1>0. todo # <<>> /\ ~failed /\ calls' = calls + 1 /\ calls \in Nat /\ attempt \in {1, 2}
  BY DEF Call, Running, ChunkInv, ChunkTypeOK
<1>1. /\ todo' = rest /\ rest \in Seq(Chunks) /\ Len(rest) = Len(todo) - 1
      /\ \A i \in 1..Len(rest) : rest[i] = todo[i + 1]
      /\ Len(todo) \in Nat
  BY <1>0, HeadFacts DEF Answered
<1>2. ChunkTypeOK'
  <2>1. \A c \in Asked.lo..Asked.hi :
          [of |-> Asked.text + (c - Asked.lo), kept |-> c \in keeps] \in [of : 0..N, kept : BOOLEAN]
    BY <1>0, HeadFacts, ChunkAssumption
  <2>2. lines' \in [Cues -> [of : 0..N, kept : BOOLEAN]]
    BY <2>1 DEF Answered, ChunkInv, ChunkTypeOK
  <2> QED BY <2>2, <1>0, <1>1 DEF ChunkTypeOK, Chunks, ChunkInv
<1>3. Tiling'
  <2>1. \A i \in 1..Len(rest) : rest[i].lo <= rest[i].hi /\ rest[i].text = rest[i].lo
    BY <1>1 DEF ChunkInv, Tiling
  <2>2. \A i \in 2..Len(rest) : rest[i].lo = rest[i - 1].hi + 1
    BY <1>1 DEF ChunkInv, Tiling
  <2>3. rest # <<>> => rest[Len(rest)].hi = N
    <3> SUFFICES ASSUME rest # <<>> PROVE rest[Len(rest)].hi = N
      OBVIOUS
    <3>1. Len(rest) \in 1..Len(rest)
      BY <1>1
    <3> QED BY <3>1, <1>0, <1>1 DEF ChunkInv, Tiling
  <2> QED BY <2>1, <2>2, <2>3, <1>1 DEF Tiling
<1>4. Spread'
  BY <1>1 DEF ChunkInv, Spread
<1>5. Answers' = Asked.hi
  <2>1. CASE rest = <<>>
    <3>1. Len(todo) = 1
      BY <2>1, <1>1
    <3> QED BY <3>1, <2>1, <1>0, <1>1, HeadFacts DEF Answers, ChunkInv, Tiling
  <2>2. CASE rest # <<>>
    <3>1. Len(rest) >= 1 /\ 2 \in 2..Len(todo)
      BY <2>2, <1>1
    <3>2. rest[1].lo = todo[1].hi + 1
      BY <3>1, <1>1 DEF ChunkInv, Tiling
    <3> QED BY <3>1, <3>2, <2>2, <1>0, <1>1, HeadFacts DEF Answers
  <2> QED BY <2>1, <2>2
<1>6. Filling'
  <2> SUFFICES ASSUME NEW c \in Cues
               PROVE  IF c <= Asked.hi THEN lines'[c].of = c ELSE lines'[c] = Empty
    BY <1>5 DEF Filling
  <2> QED BY <1>0, HeadFacts, ChunkAssumption DEF Answered, ChunkInv, Filling, Cues
<1>7. Paid'
  <2>1. calls' <= 4 * Asked.lo + 2 * Len(todo) - 4
    BY <1>0, HeadFacts DEF ChunkInv, Paid, Running
  <2>2. CASE rest = <<>>
    <3>0. Len(todo) = 1
      BY <2>2, <1>1
    <3>1. Len(todo) = 1 /\ Asked.lo <= N /\ N \in Nat
      BY <3>0, <1>0, HeadFacts, ChunkFacts
    <3>2. calls' <= 4 * N - 2
      BY <2>1, <3>1, <1>0, HeadFacts
    <3> QED BY <3>2, <2>2, <1>0, <1>1 DEF Paid, Running
  <2>3. CASE rest # <<>>
    <3>1. calls' <= 4 * Asked.hi + 2 * (Len(todo) - 1) + 1 - 3
      BY <2>1, <1>0, HeadFacts
    <3> QED BY <3>1, <2>3, <1>0, <1>1, <1>5 DEF Paid, Running
  <2> QED BY <2>2, <2>3
<1> QED BY <1>2, <1>3, <1>4, <1>6, <1>7 DEF ChunkInv

\* The reminder costs a call, once for every chunk.
LEMMA RetriedInv ==
  ASSUME ChunkInv, MismatchRetried
  PROVE  ChunkInv'
<1>0. /\ todo # <<>> /\ ~failed /\ calls' = calls + 1 /\ calls \in Nat
      /\ attempt = 1 /\ attempt' = 2 /\ UNCHANGED <<todo, lines, failed>>
  BY DEF MismatchRetried, AttemptsLeft, Call, Running, ChunkInv, ChunkTypeOK
<1>1. ChunkTypeOK' /\ Tiling' /\ Spread'
  <2>1. ChunkTypeOK'
    BY <1>0 DEF ChunkInv, ChunkTypeOK
  <2>2. Tiling' /\ Spread'
    BY <1>0 DEF ChunkInv, Tiling, Spread
  <2> QED BY <2>1, <2>2
<1>2. Answers' = Answers /\ Answers \in Int /\ Len(todo) \in Nat
  BY <1>0, HeadFacts DEF Answers
<1>3. Filling'
  BY <1>0, <1>2 DEF ChunkInv, Filling
<1>4. Paid'
  BY <1>0, <1>2 DEF ChunkInv, Paid, Running
<1> QED BY <1>1, <1>3, <1>4 DEF ChunkInv

\* Where the chunks begin, before and after the first one is cut at mid.
LEMMA SplitKeepsSpread ==
  ASSUME NEW len \in Nat, len >= 1, NEW old, NEW new, NEW mid \in Int, NEW last \in Int,
         \A i \in 1..len : old[i] \in Int,
         \A i, j \in 1..len : j <= i => old[i] - old[j] >= i - j,
         len >= 2 => old[2] = last + 1,
         old[1] < mid, mid <= last, new[1] = old[1], new[2] = mid,
         \A i \in 3..len + 1 : new[i] = old[i - 1]
  PROVE  \A i, j \in 1..len + 1 : j <= i => new[i] - new[j] >= i - j
<1> SUFFICES ASSUME NEW i \in 1..len + 1, NEW j \in 1..len + 1, j <= i
             PROVE  new[i] - new[j] >= i - j
  OBVIOUS
<1>1. old[1] \in Int
  OBVIOUS
<1>2. CASE i = 1
  BY <1>1, <1>2
<1>3. CASE i = 2
  BY <1>1, <1>3
<1>4. CASE i >= 3 /\ j >= 3
  BY <1>4
<1>5. CASE i >= 3 /\ j <= 2
  <2>1. old[i - 1] \in Int /\ old[2] = last + 1 /\ old[i - 1] - old[2] >= (i - 1) - 2
    BY <1>5
  <2>2. j = 1 \/ j = 2
    BY <1>5
  <2> QED BY <2>1, <2>2, <1>1, <1>5
<1> QED BY <1>2, <1>3, <1>4, <1>5

\* Two halves take the place of a chunk of two cues or more.
LEMMA SplitInv ==
  ASSUME ChunkInv, Call, Size # 1, todo' = Halves \o Tail(todo), UNCHANGED <<lines, failed>>,
         attempt' = 1
  PROVE  ChunkInv'
<1> DEFINE rest == Tail(todo)
           mid == Asked.lo + Half
<1>0. todo # <<>> /\ ~failed /\ calls' = calls + 1 /\ calls \in Nat /\ attempt \in {1, 2}
  BY DEF Call, Running, ChunkInv, ChunkTypeOK
<1>1. /\ mid \in Int /\ Asked.lo < mid /\ mid <= Asked.hi
      /\ FirstHalf = ChunkOf(Asked.lo, mid - 1, Asked.lo)
      /\ SecondHalf = ChunkOf(mid, Asked.hi, mid)
  <2>1. Size \in Int /\ Size >= 2 /\ Size = Asked.hi - Asked.lo + 1
    BY <1>0, HeadFacts DEF Size
  <2>2. Half \in Int /\ 1 <= Half /\ Half < Size
    BY <2>1 DEF Half
  <2>3. Asked.lo \in Int /\ Asked.hi \in Int
    BY <1>0, HeadFacts
  <2>4. mid \in Int /\ Asked.lo < mid /\ mid <= Asked.hi
    BY <2>1, <2>2, <2>3
  <2>5. Asked.text = Asked.lo
    BY <1>0, HeadFacts
  <2>6. /\ FirstHalf = ChunkOf(Asked.lo, mid - 1, Asked.lo)
        /\ SecondHalf = ChunkOf(mid, Asked.hi, mid)
    BY <2>2, <2>3, <2>5 DEF FirstHalf, SecondHalf
  <2> QED BY <2>4, <2>6
<1>2. FirstHalf \in Chunks /\ SecondHalf \in Chunks
  BY <1>0, <1>1, HeadFacts, ChunkAssumption DEF Chunks, Cues, ChunkOf
<1>3. /\ todo' \in Seq(Chunks) /\ Len(todo') = Len(todo) + 1 /\ todo' # <<>>
      /\ todo'[1] = FirstHalf /\ todo'[2] = SecondHalf
      /\ \A i \in 3..Len(todo') : todo'[i] = todo[i - 1]
      /\ Len(todo) \in Nat /\ Len(todo) >= 1
  <2>1. /\ rest \in Seq(Chunks) /\ Len(rest) = Len(todo) - 1
        /\ \A i \in 1..Len(rest) : rest[i] = todo[i + 1]
        /\ Len(todo) \in Nat /\ Len(todo) >= 1
    BY <1>0, HeadFacts
  <2>2. /\ Halves \in Seq(Chunks) /\ Len(Halves) = 2
        /\ Halves[1] = FirstHalf /\ Halves[2] = SecondHalf
    BY <1>2 DEF Halves
  <2>3. /\ todo' \in Seq(Chunks) /\ Len(todo') = Len(todo) + 1
        /\ \A i \in 1..Len(todo') : todo'[i] = IF i <= 2 THEN Halves[i] ELSE rest[i - 2]
    <3>1. /\ Halves \o rest \in Seq(Chunks)
          /\ Len(Halves \o rest) = Len(Halves) + Len(rest)
          /\ \A i \in 1..(Len(Halves) + Len(rest)) : (Halves \o rest)[i] =
               IF i <= Len(Halves) THEN Halves[i] ELSE rest[i - Len(Halves)]
      BY <2>1, <2>2, ConcatProperties, Zenon
    <3>2. Len(Halves) + Len(rest) = Len(todo) + 1 /\ todo' = Halves \o rest
      BY <2>1, <2>2
    <3> HIDE DEF rest
    <3> QED BY <3>1, <3>2, <2>2
  <2>4. todo'[1] = FirstHalf /\ todo'[2] = SecondHalf
    BY <2>1, <2>2, <2>3
  <2>5. \A i \in 3..Len(todo') : todo'[i] = todo[i - 1]
    <3> SUFFICES ASSUME NEW i \in 3..Len(todo') PROVE todo'[i] = todo[i - 1]
      OBVIOUS
    <3>1. todo'[i] = rest[i - 2] /\ i - 2 \in 1..Len(rest)
      BY <2>1, <2>3
    <3> QED BY <3>1, <2>1
  <2>6. todo' # <<>>
    BY <2>1, <2>3
  <2> QED BY <2>1, <2>3, <2>4, <2>5, <2>6
<1>4. ChunkTypeOK'
  BY <1>0, <1>3 DEF ChunkInv, ChunkTypeOK, Chunks
<1>5. \A i \in 1..Len(todo) : todo[i] \in Chunks
  BY ChunkFacts
<1>6. Tiling'
  <2>1. ASSUME NEW i \in 1..Len(todo')
        PROVE  todo'[i].lo <= todo'[i].hi /\ todo'[i].text = todo'[i].lo
    <3>1. CASE i \in {1, 2}
      <4>1. FirstHalf.lo <= FirstHalf.hi /\ FirstHalf.text = FirstHalf.lo
        BY <1>0, <1>1, HeadFacts DEF ChunkOf
      <4>2. SecondHalf.lo <= SecondHalf.hi /\ SecondHalf.text = SecondHalf.lo
        BY <1>0, <1>1, HeadFacts DEF ChunkOf
      <4> QED
        BY <3>1, <4>1, <4>2, <1>3
    <3>2. CASE i >= 3
      <4>1. todo'[i] = todo[i - 1] /\ i - 1 \in 1..Len(todo)
        BY <3>2, <1>3
      <4> QED BY <4>1 DEF ChunkInv, Tiling
    <3> QED BY <3>1, <3>2, <1>3
  <2>2. ASSUME NEW i \in 2..Len(todo')
        PROVE  todo'[i].lo = todo'[i - 1].hi + 1
    <3>1. CASE i = 2
      BY <3>1, <1>1, <1>3 DEF ChunkOf
    <3>2. CASE i = 3
      <4>1. todo'[3] = todo[2] /\ 2 \in 2..Len(todo)
        BY <3>2, <1>3
      <4>2. todo[2].lo = Asked.hi + 1
        BY <4>1, <1>0, HeadFacts DEF ChunkInv, Tiling
      <4> QED BY <3>2, <4>1, <4>2, <1>1, <1>3 DEF ChunkOf
    <3>3. CASE i >= 4
      <4>1. /\ todo'[i] = todo[i - 1] /\ todo'[i - 1] = todo[i - 2]
            /\ i - 1 \in 2..Len(todo) /\ (i - 1) - 1 = i - 2
        BY <3>3, <1>3
      <4>2. todo[i - 1].lo = todo[(i - 1) - 1].hi + 1
        BY <4>1 DEF ChunkInv, Tiling
      <4> QED BY <4>1, <4>2
    <3> QED BY <3>1, <3>2, <3>3, <1>3
  <2>3. todo'[Len(todo')].hi = N
    <3>1. CASE Len(todo) = 1
      <4>1. Len(todo') = 2 /\ todo'[Len(todo')].hi = Asked.hi
        BY <3>1, <1>1, <1>3 DEF ChunkOf
      <4>2. Asked.hi = N
        BY <3>1, <1>0, HeadFacts DEF ChunkInv, Tiling
      <4> QED BY <4>1, <4>2
    <3>2. CASE Len(todo) >= 2
      <4>0. Len(todo') \in 3..Len(todo') /\ Len(todo') - 1 = Len(todo)
        BY <3>2, <1>3
      <4>1. todo'[Len(todo')] = todo[Len(todo)]
        BY <4>0, <1>3
      <4>2. todo[Len(todo)].hi = N
        BY <1>0 DEF ChunkInv, Tiling
      <4> QED BY <4>1, <4>2
    <3>3. Len(todo) = 1 \/ Len(todo) >= 2
      BY <1>0, HeadFacts
    <3> QED BY <3>1, <3>2, <3>3
  <2> QED BY <2>1, <2>2, <2>3 DEF Tiling
<1>7. Spread'
  <2> DEFINE old == [i \in 1..Len(todo) |-> todo[i].lo]
             new == [i \in 1..Len(todo') |-> todo'[i].lo]
  <2>1. /\ \A i \in 1..Len(todo) : old[i] \in Int /\ old[i] = todo[i].lo
        /\ old[1] = Asked.lo
    BY <1>0, <1>3, ChunkFacts, HeadFacts
  <2>2. \A i, j \in 1..Len(todo) : j <= i => old[i] - old[j] >= i - j
    BY <2>1 DEF ChunkInv, Spread
  <2>3. Len(todo) >= 2 => old[2] = Asked.hi + 1
    BY <1>0, <1>3, <2>1, HeadFacts DEF ChunkInv, Tiling
  <2>4. new[1] = old[1] /\ new[2] = mid
    <3>1. FirstHalf.lo = Asked.lo /\ SecondHalf.lo = mid
      BY <1>1 DEF ChunkOf
    <3> QED BY <1>3, <2>1, <3>1
  <2>5. \A i \in 3..Len(todo) + 1 : new[i] = old[i - 1]
    BY <1>3, <2>1
  <2>6. \A i, j \in 1..Len(todo) + 1 : j <= i => new[i] - new[j] >= i - j
    <3> HIDE DEF old, new
    <3> QED BY SplitKeepsSpread, <2>1, <2>2, <2>3, <2>4, <2>5, <1>1, <1>3, HeadFacts, <1>0
  <2> QED BY <2>6, <1>3 DEF Spread
<1>8. Answers' = Answers /\ Answers \in Int
  BY <1>0, <1>1, <1>3, HeadFacts DEF Answers, ChunkOf
<1>9. Filling'
  BY <1>8 DEF ChunkInv, Filling
<1>10. Paid'
  BY <1>0, <1>3, <1>8 DEF ChunkInv, Paid, Running
<1> QED BY <1>4, <1>6, <1>7, <1>9, <1>10 DEF ChunkInv

\* An error ends the batch where it is.
LEMMA FailsInv ==
  ASSUME ChunkInv, Fails
  PROVE  ChunkInv'
<1>0. /\ todo # <<>> /\ ~failed /\ calls' = calls + 1 /\ calls \in Nat /\ failed'
      /\ attempt \in {1, 2} /\ UNCHANGED <<todo, attempt, lines>> /\ failed' \in BOOLEAN
  BY DEF Fails, Call, Running, ChunkInv, ChunkTypeOK
<1>1. ChunkTypeOK' /\ Tiling' /\ Spread'
  <2>1. ChunkTypeOK'
    BY <1>0 DEF ChunkInv, ChunkTypeOK
  <2>2. Tiling' /\ Spread'
    BY <1>0 DEF ChunkInv, Tiling, Spread
  <2> QED BY <2>1, <2>2
<1>2. Answers' = Answers /\ Answers \in Int /\ Len(todo) \in Nat
  BY <1>0, HeadFacts DEF Answers
<1>3. Filling'
  BY <1>0, <1>2 DEF ChunkInv, Filling
<1>4. Paid'
  BY <1>0, <1>2 DEF ChunkInv, Paid, Running
<1> QED BY <1>1, <1>3, <1>4 DEF ChunkInv

-----------------------------------------------------------------------------
\* The four parts are inductive together.
LEMMA ChunkNextInv == ChunkInv /\ [ChunkNext]_chunkVars => ChunkInv'
<1> SUFFICES ASSUME ChunkInv, [ChunkNext]_chunkVars PROVE ChunkInv'
  OBVIOUS
<1>1. CASE Translated
  BY <1>1, AnsweredInv DEF Translated
<1>2. CASE MismatchRetried
  BY <1>2, RetriedInv
<1>3. CASE MismatchKept \/ Refused
  BY <1>3, AnsweredInv DEF MismatchKept, Refused, KeepSource
<1>4. CASE Truncated
  BY <1>4, AnsweredInv, SplitInv DEF Truncated, KeepSource
<1>5. CASE Fails
  BY <1>5, FailsInv
<1>6. CASE UNCHANGED chunkVars
  <2>1. UNCHANGED <<todo, attempt, lines, calls, failed>>
    BY <1>6 DEF chunkVars
  <2> QED BY <2>1 DEF ChunkInv, ChunkTypeOK, Tiling, Spread, Filling, Answers, Paid, Running
<1> QED BY <1>1, <1>2, <1>3, <1>4, <1>5, <1>6 DEF ChunkNext

\* The chunks tile what is left of the batch in every reachable state.
THEOREM ChunkSafe == ChunkSpec => []ChunkInv
<1> QED BY ChunkInitInv, ChunkNextInv, PTL DEF ChunkSpec

\* Every reachable state of a batch is well typed.
THEOREM ChunkTyped == ChunkSpec => []ChunkTypeOK
<1>1. ChunkInv => ChunkTypeOK
  BY DEF ChunkInv
<1> QED BY <1>1, ChunkSafe, PTL

\* A cue's line is made from its own text, however the batch was cut up.
THEOREM LinesAreTheirOwn == ChunkSpec => []OwnText
<1>1. ChunkInv => OwnText
  BY DEF ChunkInv, Filling, OwnText, FilledCues
<1> QED BY <1>1, ChunkSafe, PTL

\* A batch reported done has no empty line.
LEMMA DoneIsFilled ==
  ASSUME ChunkInv, todo = <<>>
  PROVE  FilledCues = Cues
<1>1. \A c \in Cues : lines[c].of = c
  BY DEF ChunkInv, Filling, Answers, Cues
<1>2. \A c \in Cues : lines[c] # Empty
  BY <1>1 DEF Empty, Cues
<1> QED BY <1>2 DEF FilledCues

\* A batch is filled from its first cue on, and all of it when it is done.
THEOREM FilledIsPrefix == ChunkSpec => []PrefixKept
<1>1. ChunkInv => PrefixKept
  <2> SUFFICES ASSUME ChunkInv, todo # <<>> PROVE FilledCues = 1..(Asked.lo - 1)
    BY DoneIsFilled DEF PrefixKept
  <2>1. Answers = Asked.lo - 1 /\ Asked.lo \in Int /\ Asked.lo >= 1 /\ Asked.lo <= N
    BY HeadFacts, ChunkAssumption
  <2>2. \A c \in Cues : lines[c] # Empty <=> c <= Asked.lo - 1
    BY <2>1 DEF ChunkInv, Filling, Empty, Cues
  <2> QED BY <2>1, <2>2, ChunkAssumption DEF FilledCues, Cues
<1> QED BY <1>1, ChunkSafe, PTL

\* A batch of N cues costs at most 4N - 2 upstream calls.
THEOREM CallsAreBounded == ChunkSpec => []CallsBounded
<1>1. ChunkInv => CallsBounded
  <2> SUFFICES ASSUME ChunkInv PROVE calls <= 2 * (2 * N - 1)
    BY DEF CallsBounded
  <2>0. calls \in Nat /\ attempt \in {1, 2} /\ failed \in BOOLEAN
    BY DEF ChunkInv, ChunkTypeOK
  <2>1. CASE todo = <<>>
    BY <2>0, <2>1, ChunkAssumption DEF ChunkInv, Paid
  <2>2. CASE todo # <<>>
    <3>1. /\ Answers + Len(todo) <= N /\ Len(todo) \in Nat /\ Len(todo) >= 1
          /\ Answers \in Int
      BY <2>2, RoomForChunks, HeadFacts
    <3>2. calls <= 4 * Answers + 2 * Len(todo) + attempt - 2
      BY <2>0, <2>2, <3>1 DEF ChunkInv, Paid, Running
    <3> QED BY <2>0, <3>1, <3>2, ChunkAssumption
  <2> QED BY <2>1, <2>2
<1> QED BY <1>1, ChunkSafe, PTL

=============================================================================
