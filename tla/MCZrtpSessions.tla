---------------------------- MODULE MCZrtpSessions ----------------------------
(***************************************************************************)
(* Instances of ZrtpSessions for TLC.                                      *)
(***************************************************************************)
EXTENDS ZrtpSessions, TLC

CONSTANTS A, B

\* Two sessions of one stream each.
SingleStreams == {<<A, 1>>, <<B, 1>>}

MediaSymmetry == Permutations(Media)

=============================================================================
