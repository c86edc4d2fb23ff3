-------------------------- MODULE MCZrtpCacheFile --------------------------
(***************************************************************************)
(* Instances of ZrtpCacheFile for TLC.                                     *)
(***************************************************************************)
EXTENDS ZrtpCacheFile, TLC

PeerSymmetry == Permutations(Peers)

=============================================================================
