---------------------------- MODULE MCZrtpStreams ----------------------------
(***************************************************************************)
(* Instances of ZrtpStreams for TLC.                                       *)
(***************************************************************************)
EXTENDS ZrtpStreams

=============================================================================
