-------------------------- MODULE MCZrtpHandshake --------------------------
(***************************************************************************)
(* Instances of ZrtpHandshake for TLC.                                     *)
(***************************************************************************)
EXTENDS ZrtpHandshake

=============================================================================
