--------------------------- MODULE ZrtpAgreement ---------------------------
(***************************************************************************)
(* What the handshake of two ZRTP endpoints promises: an endpoint goes     *)
(* secure only with a key that both have confirmed.  It has not used the   *)
(* key before, unless its stream was started again, and while both are     *)
(* secure they use the same key, unless a stream was: messages of an       *)
(* earlier start may then bring back a key that was never hashed.          *)
(***************************************************************************)
CONSTANTS
    Endpoints,
    Keys,
    NoKey       \* not one of Keys

VARIABLES
    confirmed,   \* the keys an endpoint has sent a Confirm under
    used,        \* the keys an endpoint has been secure with
    secureWith,  \* the key an endpoint protects media with, or NoKey
    restarted    \* the endpoints whose stream was started more than once

vars == <<confirmed, used, secureWith, restarted>>

Init ==
    /\ confirmed = [e \in Endpoints |-> {}]
    /\ used = [e \in Endpoints |-> {}]
    /\ secureWith = [e \in Endpoints |-> NoKey]
    /\ restarted = {}

Confirm(e, k) ==
    /\ confirmed' = [confirmed EXCEPT ![e] = @ \cup {k}]
    /\ UNCHANGED <<used, secureWith, restarted>>

Secure(e, k) ==
    /\ secureWith[e] = NoKey
    /\ k \notin used[e] \/ e \in restarted
    /\ \A o \in Endpoints : k \in confirmed[o]
    /\ restarted = {} => \A o \in Endpoints : secureWith[o] \in {NoKey, k}
    /\ secureWith' = [secureWith EXCEPT ![e] = k]
    /\ used' = [used EXCEPT ![e] = @ \cup {k}]
    /\ UNCHANGED <<confirmed, restarted>>

Leave(e) ==
    /\ secureWith[e] # NoKey
    /\ secureWith' = [secureWith EXCEPT ![e] = NoKey]
    /\ UNCHANGED <<confirmed, used, restarted>>

Restart(e) ==
    /\ restarted' = restarted \cup {e}
    /\ UNCHANGED <<confirmed, used, secureWith>>

Next ==
    \E e \in Endpoints :
        \/ \E k \in Keys : Confirm(e, k) \/ Secure(e, k)
        \/ Leave(e) \/ Restart(e)

Spec == Init /\ [][Next]_vars

=============================================================================
