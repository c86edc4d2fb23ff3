------------------------- MODULE MCZrtpScheduler -------------------------
(***************************************************************************)
(* Instances of ZrtpScheduler for TLC.                                     *)
(***************************************************************************)
EXTENDS ZrtpScheduler, TLC

StreamSymmetry == Permutations(Streams)

(* Every stream starts every task. *)
StartAll == Streams \X Tasks

(* One stream has a dh task that waits, the others resend Commits. *)
DhAndCommits ==
    LET first == CHOOSE s \in Streams : TRUE
    IN  {<<first, "dh">>} \cup ((Streams \ {first}) \X {"commit"})

=============================================================================
