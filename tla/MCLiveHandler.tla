---------------------------- MODULE MCLiveHandler ----------------------------
(* Instances of LiveHandler for TLC: the sessions and the polls are         *)
(* interchangeable, which only the runs without liveness use.               *)
EXTENDS LiveHandler, TLC

MCSymmetry == Permutations(Sessions) \cup Permutations(Requests)

=============================================================================
