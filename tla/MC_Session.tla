---------------------------- MODULE MC_Session ----------------------------
(***************************************************************************)
(* Instances of the session protocol for TLC.  The receivers are           *)
(* interchangeable, which the safety runs use.                             *)
(***************************************************************************)
EXTENDS SessionProperties, TLC

ReceiverSymmetry == Permutations(Receivers)
============================================================================
