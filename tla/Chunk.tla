-------------------------------- MODULE Chunk --------------------------------
(***************************************************************************)
(* One batch on its way through the translator: translateChunk             *)
(* (services/job.go) and translateBatch (services/translator.go) over the  *)
(* verdicts the providers give on a reply (anthropic.go, openai.go).       *)
(*                                                                         *)
(* Every step is one upstream call and what is done with its verdict.  The *)
(* recursion of translateChunk is the sequence of chunks still to be       *)
(* asked for, first half first.  A cue is its place in the batch; a line   *)
(* is told apart by the text it was made from, and by being a translation  *)
(* or that text itself.                                                    *)
(*                                                                         *)
(* FileJob and LiveJob take the whole batch for one step: it fills all of  *)
(* its cues, or fails and has filled a proper prefix of them.  PrefixKept  *)
(* is what they rely on.                                                   *)
(* A definition that nothing uses, placed before the one it is a faulty    *)
(* form of, is what PROJECT.json substitutes to see a property fail.       *)
(***************************************************************************)
EXTENDS Integers, Sequences

CONSTANT N   \* the cues of the batch

ASSUME ChunkAssumption == N \in Nat \ {0}

VARIABLES
  todo,     \* the chunks nobody answered yet, in the order they are asked for
  attempt,  \* which attempt of translateBatch the next call is
  lines,    \* the batch's lines in the progress record
  calls,    \* how many upstream calls were made
  failed    \* translateChunk returned an error

chunkVars == <<todo, attempt, lines, calls, failed>>

Cues == 1..N

Empty == [of |-> 0, kept |-> FALSE]

\* The cues lo..hi of the batch, to be sent with the texts from text on.
ChunkOf(lo, hi, text) == [lo |-> lo, hi |-> hi, text |-> text]

ChunkInit == /\ todo = << ChunkOf(1, N, 1) >>
             /\ attempt = 1
             /\ lines = [c \in Cues |-> Empty]
             /\ calls = 0
             /\ failed = FALSE

Asked == Head(todo)

Size == Asked.hi - Asked.lo + 1

Running == todo # <<>> /\ ~failed

\* A call is made; its verdict is up to the model.
Call == Running /\ calls' = calls + 1

-----------------------------------------------------------------------------
\* The asked chunk is answered; the cues of keeps get their source text.
Answered(keeps) ==
  /\ lines' = [c \in Cues |->
       IF c \in Asked.lo..Asked.hi
         THEN [of |-> Asked.text + (c - Asked.lo), kept |-> c \in keeps]
         ELSE lines[c]]
  /\ todo' = Tail(todo)

KeepSource == Answered(Asked.lo..Asked.hi)

\* As many lines as were asked for; a blank one keeps its cue's source text.
Translated == /\ Call
              /\ \E blank \in SUBSET (Asked.lo..Asked.hi) : Answered(blank)
              /\ attempt' = 1
              /\ UNCHANGED failed

NoLimit == TRUE

AttemptsLeft == attempt < 2

\* ErrLineMismatch of a complete reply: the same lines with a reminder.
MismatchRetried == /\ Call
                   /\ AttemptsLeft
                   /\ attempt' = attempt + 1
                   /\ UNCHANGED <<todo, lines, failed>>

\* ErrLineMismatch of an incomplete reply, or of the second one.
MismatchKept == /\ Call
                /\ KeepSource
                /\ attempt' = 1
                /\ UNCHANGED failed

Refused == /\ Call
           /\ KeepSource
           /\ attempt' = 1
           /\ UNCHANGED failed

\* Half of what is asked for, rounded down.
Half == Size \div 2

FirstHalf == ChunkOf(Asked.lo, Asked.lo + Half - 1, Asked.text)

SecondHalfSameTexts == ChunkOf(Asked.lo + Half, Asked.hi, Asked.text)

SecondHalf == ChunkOf(Asked.lo + Half, Asked.hi, Asked.text + Half)

SecondHalfFirst == << SecondHalf, FirstHalf >>

Halves == << FirstHalf, SecondHalf >>

\* The identical prompt would be cut off again.
Truncated == /\ Call
             /\ IF Size = 1 THEN KeepSource
                            ELSE todo' = Halves \o Tail(todo) /\ UNCHANGED lines
             /\ attempt' = 1
             /\ UNCHANGED failed

\* Any other error, a deadline or a cancelled context among them: it passes
\* through every level of the recursion, and no later half is asked for.
Fails == /\ Call
         /\ failed' = TRUE
         /\ UNCHANGED <<todo, attempt, lines>>

ChunkNext == \/ Translated \/ MismatchRetried \/ MismatchKept
             \/ Refused \/ Truncated \/ Fails

ChunkSpec == ChunkInit /\ [][ChunkNext]_chunkVars

-----------------------------------------------------------------------------
FilledCues == {c \in Cues : lines[c] # Empty}

\* The type invariant.
ChunkTypeOK == /\ todo \in Seq([lo : Cues, hi : Cues, text : Cues])
               /\ attempt \in {1, 2}
               /\ lines \in [Cues -> [of : 0..N, kept : BOOLEAN]]
               /\ calls \in Nat
               /\ failed \in BOOLEAN

\* Whichever way a batch was cut up, a cue's line is made from its own text:
\* idx and texts are halved side by side (translateChunk).
OwnText == \A c \in FilledCues : lines[c].of = c

\* A batch that is reported done leaves no cue empty: an empty line would be
\* pending for ever and be sent again with every later batch (the comment in
\* translateChunk).  What is filled when the batch fails is a proper prefix of
\* it: the jobs keep it and resume behind it.
PrefixKept == FilledCues = IF todo = <<>> THEN Cues ELSE 1..(Asked.lo - 1)

\* Retries and splits are bounded together: at most two calls for each of the
\* 2N - 1 chunks a batch of N can be cut into.
CallsBounded == calls <= 2 * (2 * N - 1)

=============================================================================
