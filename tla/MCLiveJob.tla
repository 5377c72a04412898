------------------------------ MODULE MCLiveJob ------------------------------
(* Instances of LiveJob for TLC.                                           *)
EXTENDS LiveJob

=============================================================================
