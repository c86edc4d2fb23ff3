--------------------------- MODULE MCZrtpSecrets ---------------------------
(***************************************************************************)
(* Instances of ZrtpSecrets for TLC.                                       *)
(***************************************************************************)
EXTENDS ZrtpSecrets, TLC

EndpointSymmetry == Permutations(Endpoints)

=============================================================================
