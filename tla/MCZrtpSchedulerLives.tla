----------------------- MODULE MCZrtpSchedulerLives -----------------------
(***************************************************************************)
(* An instance of ZrtpSchedulerLives for TLC.                              *)
(***************************************************************************)
EXTENDS ZrtpSchedulerLives, TLC

LoopSymmetry == Permutations(Loops)

=============================================================================
