------------------------------ MODULE Artifact ------------------------------
(***************************************************************************)
(* What the users of one artifact key are promised, whoever works on it    *)
(* and whatever fails: while it is translated its lines are only added,    *)
(* each for good (live_job.go, syncLive: "The record therefore keeps every *)
(* translation it ever held"), and once there is an artifact it has a text *)
(* on every line and is "served forever" (finishLive).  It is the abstract *)
(* specification that LiveJob is shown to implement, and that FileJob      *)
(* implements as long as one job at a time has the record in hand and all  *)
(* fetches give one document; nothing here is about runs, batches, records *)
(* or the two places a text is kept in.  The store is taken to keep a      *)
(* record for as long as anybody asks for it (progressTTL).                *)
(***************************************************************************)

CONSTANTS Lines,   \* the lines of the track
          Texts,   \* what a line may be translated to
          NoText   \* a line that is not translated

VARIABLES text,    \* what each line carries
          served   \* whether there is an artifact

artifactVars == <<text, served>>

ArtifactInit == text = [c \in Lines |-> NoText] /\ served = FALSE

\* A line that has a text has it for good.
KeepsText == \A c \in Lines : text[c] # NoText => text'[c] = text[c]

Translated == /\ ~served /\ UNCHANGED served
              /\ text' \in [Lines -> Texts \cup {NoText}]
              /\ KeepsText

\* The artifact may have lines that no reader of the progress record saw.
Completed == /\ ~served /\ served' = TRUE
             /\ text' \in [Lines -> Texts]
             /\ KeepsText

ArtifactNext == Translated \/ Completed

ArtifactSpec == ArtifactInit /\ [][ArtifactNext]_artifactVars
=============================================================================
