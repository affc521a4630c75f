-------------------------- MODULE MCTh2Acquisition --------------------------
(* Instances of Th2Acquisition for TLC; the .cfg files give the constants. *)
EXTENDS Th2Acquisition
=============================================================================
