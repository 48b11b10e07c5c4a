----------------------------- MODULE MC_Padding -----------------------------
(***************************************************************************)
(* Instances of the padding for TLC: a field of seven elements, of which a *)
(* blinded subsample is never 0 (reduceAesOutput).                         *)
(***************************************************************************)
EXTENDS Padding

MCBlinded == 1 .. FIELD_MODULUS - 1
\* As the parameter loader leaves it where plain_modulus is the FIELD_MODULUS of
\* params.cc (it subtracts one from the one of before), and as the callers with a
\* maximum do.
MCMaxSubs == {2, 3, FIELD_MODULUS - 1}
MCLoaderOnly == {FIELD_MODULUS - 1}
============================================================================
