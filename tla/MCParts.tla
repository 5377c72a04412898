------------------------------- MODULE MCParts -------------------------------
(***************************************************************************)
(* Runner, Chunk, LiveDoc and FilePoll side by side, for one run of TLC:   *)
(* four questions that do not touch each other.  In every behaviour one of *)
(* the four moves and the others stay in their initial states, so that the *)
(* states are those of the four added up.                                  *)
(***************************************************************************)
EXTENDS Runner, Chunk, LiveDoc, FilePoll

\* A line, another one that the film repeats at once, and a cue without text;
\* the runs that begin in mid-film cut through a cue each, and drift by a second
\* either way.
MCFilm == << [start |-> 1, end |-> 8, text |-> "a"], [start |-> 9, end |-> 10, text |-> "b"],
             [start |-> 10, end |-> 11, text |-> "b"], [start |-> 11, end |-> 12, text |-> ""] >>

MCShift == [o \in Offsets |-> IF o = 0 THEN 0 ELSE IF o = 6 THEN -1 ELSE 1]

\* Of each document, one cue has text: the first of two, and the last of three.
MCTextCues == [n \in Sizes |-> IF n = 2 THEN {1} ELSE {3}]

\* A player that loads its track, and one that asks how far it is.
MCMethods == [p \in Polls |-> IF p = 1 THEN {"GET"} ELSE {"HEAD", "HEADpos"}]

-----------------------------------------------------------------------------
VARIABLE part   \* the one that moves

PartsInit == /\ part \in {"runner", "chunk", "document", "polls"}
             /\ RunnerInit /\ ChunkInit /\ LiveDocInit /\ FilePollInit
             /\ part # "document" => run = 0

PartsNext == /\ \/ /\ part = "runner" /\ RunnerNext
                   /\ UNCHANGED <<chunkVars, docVars, pollVars>>
                \/ /\ part = "chunk" /\ ChunkNext
                   /\ UNCHANGED <<runnerVars, docVars, pollVars>>
                \/ /\ part = "document" /\ LiveDocNext
                   /\ UNCHANGED <<runnerVars, chunkVars, pollVars>>
                \/ /\ part = "polls" /\ FilePollNext
                   /\ UNCHANGED <<runnerVars, chunkVars, docVars>>
             /\ UNCHANGED part

partsVars == <<part, runnerVars, chunkVars, docVars, pollVars>>

\* The type invariants of the four.
PartsTypeOK == RunnerTypeOK /\ ChunkTypeOK /\ LiveDocTypeOK /\ FilePollTypeOK

\* In the other three parts no action of Runner that is to be fair is enabled.
PartsSpec == PartsInit /\ [][PartsNext]_partsVars /\ RunnerFairness

=============================================================================
