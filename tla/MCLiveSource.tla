---------------------------- MODULE MCLiveSource ----------------------------
(* An instance of LiveSource for TLC.                                      *)
EXTENDS LiveSource

\* The first segment of the run that starts behind the first cue has gone
\* missing.
MCBroken == {<<1, 2>>}

=============================================================================
