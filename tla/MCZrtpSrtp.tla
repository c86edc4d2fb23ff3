----------------------------- MODULE MCZrtpSrtp -----------------------------
(***************************************************************************)
(* Instances of ZrtpSrtp for TLC.                                          *)
(***************************************************************************)
EXTENDS ZrtpSrtp, TLC

StreamSymmetry == Permutations(Streams)

=============================================================================
