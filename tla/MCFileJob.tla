----------------------------- MODULE MCFileJob -----------------------------
(* Instances of FileJob for TLC.                                           *)
EXTENDS FileJob, TLC

CONSTANTS short, long

\* Two fetches of one source that disagree on its length; the longer one has
\* a cue that Normalize emptied.
MCCueCount == (short :> 1) @@ (long :> 3)
MCText == (short :> {1}) @@ (long :> {1, 3})

\* One document of three cues.
OneCueCount == (long :> 3)
OneText == (long :> {1, 2, 3})

MCSymmetry == Permutations(Replicas)

=============================================================================
