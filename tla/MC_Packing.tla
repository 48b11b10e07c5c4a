----------------------------- MODULE MC_Packing -----------------------------
(***************************************************************************)
(* Instances of the packing for TLC: inN that divide m and inN that do not.*)
(***************************************************************************)
EXTENDS Packing

MCShapes == {<<8, 2>>, <<8, 3>>, <<8, 4>>, <<8, 8>>, <<6, 3>>, <<7, 3>>, <<12, 4>>}
\* The shape of docs/PARAMETERS.md: N = 96 with m = 2048.
MCShape96 == {<<2048, 96>>}
============================================================================
