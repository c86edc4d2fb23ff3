--------------------------- MODULE ZrtpHandshake ---------------------------
(***************************************************************************)
(* The ZRTP state machine (zrtp_engine.c, zrtp_initiator.c,                *)
(* zrtp_responder.c) of two endpoints with one stream each: discovery,     *)
(* DH and Multistream key agreement, GoClear and errors, with the resend   *)
(* timers of both sides.                                                   *)
(*                                                                         *)
(* The network keeps every message ever sent, so a message may be lost,    *)
(* delayed, reordered or duplicated, and a resend adds nothing to it.  A   *)
(* handler runs as one step, under the stream's mutex.  A timer is called  *)
(* in two steps, Pop and Callback: between them a handler may have         *)
(* cancelled it (see ZrtpScheduler).                                       *)
(*                                                                         *)
(* A key is named by what enters its derivation and can differ: who was    *)
(* the initiator, the nonce of the Commit and the ZRTP session key (for    *)
(* Multistream), whose versions are named by the initiator of the DH       *)
(* exchange and how often it has been hashed since.                        *)
(***************************************************************************)
EXTENDS Integers, FiniteSets

CONSTANTS
    Endpoints,     \* the two endpoints
    Winner,        \* the endpoint whose DH Commit has the greater hvi
    Autosecure,    \* endpoints with profile.autosecure
    AllowClear,    \* endpoints with profile.allowclear
    Optimized,     \* endpoints with profile.discovery_optimization
    HelloMax,      \* ZRTP_T1_MAX_COUNT
    HelloMaxExt,   \* ZRTP_T1_MAX_COUNT_EXT
    T2Max,         \* ZRTP_T2_MAX_COUNT
    ErrorMax,      \* ZRTP_ETI_MAX_COUNT
    ErrorAckMax,   \* ZRTP_ETR_MAX_COUNT
    MaxStarts,     \* bound: calls of zrtp_stream_start by an endpoint
    MaxNonces,     \* bound: Multistream Commits
    NONE           \* no key, session key, timer or protocol

Timers == {"hello", "commit", "dhpart", "confirm", "goclear", "error", "errorack"}

ASSUME HandshakeAssumption ==
    /\ IsFiniteSet(Endpoints) /\ Cardinality(Endpoints) = 2
    /\ Winner \in Endpoints
    /\ Autosecure \subseteq Endpoints
    /\ AllowClear \subseteq Endpoints
    /\ Optimized \subseteq Endpoints
    /\ {HelloMax, HelloMaxExt, T2Max, ErrorMax, ErrorAckMax} \subseteq Nat \ {0}
    /\ {MaxStarts, MaxNonces} \subseteq Nat
    /\ NONE \notin Timers \cup {"initiator", "responder", "dh", "mult"}
    /\ NONE \notin [by : Endpoints, hashed : Nat]
    /\ NONE \notin [by : Endpoints, nonce : Nat, sess : [by : Endpoints, hashed : Nat] \cup {NONE}]

Peer(e) == CHOOSE o \in Endpoints : o # e

States == {"ACTIVE", "START", "WAIT_HELLOACK", "WAIT_HELLO", "CLEAR",
           "INITIATINGSECURE", "WAIT_CONFIRM1", "WAIT_CONFIRMACK",
           "PENDINGSECURE", "WAIT_CONFIRM2", "SECURE", "INITIATINGCLEAR",
           "PENDINGCLEAR", "INITIATINGERROR", "PENDINGERROR", "ERROR", "NO_ZRTP"}

ErrorStates == {"INITIATINGERROR", "PENDINGERROR", "ERROR"}

(* A session key is hashed once per time in SECURE. *)
Sessions == [by : Endpoints, hashed : 0 .. MaxNonces + 1]

(* The key of a DH exchange has no nonce: its hvi is a hash of constants. *)
Keys == [by : Endpoints, nonce : 0 .. MaxNonces, sess : Sessions \cup {NONE}]

VARIABLES
    ep,    \* the stream and the session of each endpoint
    net,   \* every message sent so far
    used   \* history: the keys each endpoint has been in SECURE with

vars == <<ep, net, used>>

-----------------------------------------------------------------------------
(* Messages; HelloAck, Conf2Ack, GoClearAck, Error and ErrorAck carry      *)
(* nothing that identifies the exchange they belong to.                    *)

Plain(e, type)       == [to |-> Peer(e), type |-> type]
Keyed(e, type, k)    == [to |-> Peer(e), type |-> type, key |-> k]
Commit(e, scheme, n) == [to |-> Peer(e), type |-> "COMMIT", scheme |-> scheme, nonce |-> n]

Send(messages) == net' = net \cup messages

Received(e, type) == {m \in net : m.to = e /\ m.type = type}
Arrives(e, type)  == Received(e, type) # {}

-----------------------------------------------------------------------------
(* Operations on the record p of an endpoint.                              *)

StartTimer(p, t) ==
    [p EXCEPT !.timer[t] = [enabled |-> TRUE, retrys |-> 1, queued |-> @.queued + 1]]

Cancel(p, t) ==
    [p EXCEPT !.timer[t] = [@ EXCEPT !.enabled = FALSE, !.queued = 0]]

(* Cancelling "all" leaves the flag of the errorack timer. *)
CancelAll(p) ==
    [p EXCEPT !.timer = [t \in Timers |->
        [p.timer[t] EXCEPT !.enabled = @ /\ t = "errorack", !.queued = 0]]]

(* _clear_stream_crypto: destroying a protocol cancels all timers. *)
ClearStreamCrypto(p) ==
    [(IF p.protocol = NONE THEN p ELSE CancelAll(p))
        EXCEPT !.protocol = NONE, !.key = NONE]

ProtocolInit(p, role) ==
    [(IF p.protocol = NONE THEN p ELSE CancelAll(p)) EXCEPT !.protocol = role]

EnterClear(p) == [ClearStreamCrypto(CancelAll(p)) EXCEPT !.state = "CLEAR"]

EnterNoZrtp(p) == [ClearStreamCrypto(CancelAll(p)) EXCEPT !.state = "NO_ZRTP"]

SwitchToError(p) == [ClearStreamCrypto(CancelAll(p)) EXCEPT !.state = "ERROR"]

EnterPendingError(p) ==
    StartTimer([CancelAll(p) EXCEPT !.state = "PENDINGERROR"], "errorack")

(* Variant: the session key is kept when a stream is cleared. *)
KeepSession(p) == p

HashSession(p) == [p EXCEPT !.zrtpsess.hashed = @ + 1]

(* _zrtp_set_public_value: a DH exchange sets the ZRTP session key once. *)
Derive(p, k) ==
    [p EXCEPT !.key = k,
              !.zrtpsess = IF k.sess = NONE /\ @ = NONE
                           THEN [by |-> k.by, hashed |-> 0] ELSE @]

DhKey(initiator) == [by |-> initiator, nonce |-> 0, sess |-> NONE]

MultKey(initiator, n, p) == [by |-> initiator, nonce |-> n, sess |-> p.zrtpsess]

-----------------------------------------------------------------------------
Update(e, p) == ep' = [ep EXCEPT ![e] = p]

(* _zrtp_machine_enter_initiatingerror, with and without notification. *)
InitiatingError(e, p) ==
    IF p.state \in ErrorStates THEN Update(e, p) /\ UNCHANGED net
    ELSE /\ Update(e, StartTimer([CancelAll(p) EXCEPT !.state = "INITIATINGERROR"], "error"))
         /\ Send({Plain(e, "ERROR")})

SilentError(p) == IF p.state \in ErrorStates THEN p ELSE SwitchToError(p)

EnterSecure(e, p) ==
    /\ Update(e, [CancelAll(p) EXCEPT !.state = "SECURE"])
    /\ used' = [used EXCEPT ![e] = @ \cup {p.key}]

FreshNonces ==
    (1 .. MaxNonces) \ {m.nonce : m \in {c \in net : c.type = "COMMIT"}}

(* _zrtp_machine_start_initiating_secure; with a single stream             *)
(* _initiating_secure goes on to INITIATINGSECURE at once.                 *)
StartInitiatingSecure(e, p, replies) ==
    LET scheme == IF p.zrtpsess = NONE THEN "dh" ELSE "mult"
    IN  \E n \in IF scheme = "dh" THEN {0} ELSE FreshNonces :
            /\ Update(e, StartTimer([ProtocolInit(p, "initiator") EXCEPT
                   !.state = "INITIATINGSECURE", !.pubkeyscheme = scheme,
                   !.hv = n], "commit"))
            /\ Send(replies \cup {Commit(e, scheme, n)})

(* Both sides are ready: autosecure starts the key agreement. *)
EndDiscovery(e, p, replies) ==
    IF e \in Autosecure
    THEN StartInitiatingSecure(e, p, IF e \in Optimized THEN {} ELSE replies)
    ELSE Update(e, EnterClear(p)) /\ Send(replies)

(* Variant: an endpoint always yields to a DH Commit. *)
YieldToDh(e, p, c) ==
    IF p.pubkeyscheme = c.scheme
    THEN c.scheme # "dh" /\ p.hv > c.nonce
    ELSE p.pubkeyscheme = "dh"

(* _zrtp_machine_preparse_commit: the role a Commit c gives to endpoint e. *)
Outbids(e, p, c) ==
    IF p.pubkeyscheme = c.scheme
    THEN IF c.scheme = "dh" THEN e = Winner ELSE p.hv > c.nonce
    ELSE p.pubkeyscheme = "dh"

RoleFor(e, p, c) ==
    IF \/ p.state = "INITIATINGSECURE" /\ Outbids(e, p, c)
       \/ c.scheme = "mult" /\ p.zrtpsess = NONE
    THEN "initiator"
    ELSE IF c.scheme = "dh" /\ p.zrtpsess # NONE THEN NONE ELSE "responder"

(* Variant: the responder keeps the protocol it has. *)
EnterPendingSecureAsIs(e, p, c) ==
    LET q == [p EXCEPT !.pubkeyscheme = c.scheme]
        k == MultKey(Peer(e), c.nonce, q)
    IN  IF c.scheme = "dh"
        THEN /\ Update(e, [q EXCEPT !.state = "PENDINGSECURE"])
             /\ Send({Plain(e, "DHPART1")})
        ELSE /\ Update(e, [Derive(q, k) EXCEPT !.state = "WAIT_CONFIRM2"])
             /\ Send({Keyed(e, "CONFIRM1", k)})

(* _zrtp_machine_enter_pendingsecure *)
EnterPendingSecure(e, p, c) ==
    LET q == [ProtocolInit(p, "responder") EXCEPT !.pubkeyscheme = c.scheme]
        k == MultKey(Peer(e), c.nonce, q)
    IN  IF c.scheme = "dh"
        THEN /\ Update(e, [q EXCEPT !.state = "PENDINGSECURE"])
             /\ Send({Plain(e, "DHPART1")})
        ELSE /\ Update(e, [Derive(q, k) EXCEPT !.state = "WAIT_CONFIRM2"])
             /\ Send({Keyed(e, "CONFIRM1", k)})

-----------------------------------------------------------------------------
InitialTimer == [enabled |-> FALSE, retrys |-> 0, queued |-> 0]

Init ==
    /\ ep = [e \in Endpoints |->
               [state |-> "ACTIVE", pubkeyscheme |-> NONE, is_hello_received |-> FALSE,
                protocol |-> NONE, hv |-> 0, key |-> NONE, zrtpsess |-> NONE,
                timer |-> [t \in Timers |-> InitialTimer], running |-> NONE,
                starts |-> 0]]
    /\ net = {}
    /\ used = [e \in Endpoints |-> {}]

In(e, states) == ep[e].state \in states

-----------------------------------------------------------------------------
(* The user.                                                               *)

StreamStart(e) ==
    /\ In(e, {"ACTIVE", "ERROR", "NO_ZRTP"})
    /\ ep[e].starts < MaxStarts
    /\ Update(e, StartTimer([ep[e] EXCEPT !.state = "START", !.starts = @ + 1], "hello"))
    /\ Send({Plain(e, "HELLO")})
    /\ UNCHANGED used

StreamSecure(e) ==
    /\ In(e, {"CLEAR"})
    /\ StartInitiatingSecure(e, ep[e], {})
    /\ UNCHANGED used

StreamClear(e) ==
    /\ \/ /\ In(e, {"SECURE"})
          /\ e \in AllowClear
          /\ Update(e, StartTimer(HashSession(
                 [CancelAll(ep[e]) EXCEPT !.state = "INITIATINGCLEAR"]), "goclear"))
          /\ Send({Keyed(e, "GOCLEAR", ep[e].key)})
       \/ /\ In(e, {"PENDINGCLEAR"})
          /\ Update(e, EnterClear(ep[e]))
          /\ UNCHANGED net
    /\ UNCHANGED used

-----------------------------------------------------------------------------
(* Message handlers.                                                       *)

HelloReceived(p) == [p EXCEPT !.is_hello_received = TRUE, !.pubkeyscheme = "dh"]

ReceiveHello(e) ==
    /\ Arrives(e, "HELLO")
    /\ \/ /\ In(e, {"START"})
          /\ Update(e, [HelloReceived(ep[e]) EXCEPT !.state = "WAIT_HELLOACK"])
          /\ Send({Plain(e, "HELLOACK")})
       \/ /\ In(e, {"WAIT_HELLO"})
          /\ EndDiscovery(e, HelloReceived(ep[e]), {Plain(e, "HELLOACK")})
       \/ /\ In(e, {"WAIT_HELLOACK", "CLEAR"})
          /\ Send({Plain(e, "HELLOACK")})
          /\ UNCHANGED ep
       \/ /\ In(e, {"NO_ZRTP"})
          /\ Update(e, StartTimer(
                 [HelloReceived(ep[e]) EXCEPT !.state = "START"], "hello"))
          /\ Send({Plain(e, "HELLO")})
    /\ UNCHANGED used

ReceiveHelloAck(e) ==
    /\ Arrives(e, "HELLOACK")
    /\ \/ /\ In(e, {"START"})
          /\ Update(e, [Cancel(ep[e], "hello") EXCEPT !.state = "WAIT_HELLO"])
          /\ UNCHANGED net
       \/ /\ In(e, {"WAIT_HELLOACK"})
          /\ EndDiscovery(e, Cancel(ep[e], "hello"), {})
    /\ UNCHANGED used

(* Variant: the timers run on. *)
NoCommitTimer(p) == p

CommitTimer(p) ==
    CASE p.state = "WAIT_HELLOACK"    -> Cancel(p, "hello")
      [] p.state = "INITIATINGSECURE" -> Cancel(p, "commit")
      [] OTHER                        -> p

(* A Commit of a peer whose Hello is not known fails the hash check. *)
ReceiveCommit(e) ==
    /\ ep[e].is_hello_received
    /\ \E c \in Received(e, "COMMIT") :
        \/ /\ In(e, {"WAIT_HELLOACK", "CLEAR", "PENDINGCLEAR", "NO_ZRTP", "INITIATINGSECURE"})
           /\ RoleFor(e, ep[e], c) = "responder"
           /\ EnterPendingSecure(e, CommitTimer(ep[e]), c)
        \/ /\ In(e, {"WAIT_HELLOACK", "CLEAR", "PENDINGCLEAR", "NO_ZRTP"})
           /\ RoleFor(e, ep[e], c) = "initiator"
           /\ StartInitiatingSecure(e, CommitTimer(ep[e]), {})
        \/ /\ In(e, {"PENDINGSECURE"})
           /\ Send({Plain(e, "DHPART1")})
           /\ UNCHANGED ep
        \/ /\ In(e, {"WAIT_CONFIRM2"})
           /\ ep[e].pubkeyscheme = "mult"
           /\ Send({Keyed(e, "CONFIRM1", ep[e].key)})
           /\ UNCHANGED ep
        \/ /\ In(e, {"INITIATINGCLEAR"})
           /\ Update(e, EnterClear(ep[e]))
           /\ UNCHANGED net
    /\ UNCHANGED used

(* The length of a DHPart fits no scheme but "dh", whatever the state. *)
ReceiveMisfitDHPart(e) ==
    /\ Arrives(e, "DHPART1") \/ Arrives(e, "DHPART2")
    /\ ep[e].pubkeyscheme = "mult"
    /\ InitiatingError(e, ep[e])
    /\ UNCHANGED used

ReceiveDHPart1(e) ==
    /\ Arrives(e, "DHPART1")
    /\ In(e, {"INITIATINGSECURE"})
    /\ ep[e].pubkeyscheme = "dh"
    /\ Update(e, StartTimer(
           [Derive(Cancel(ep[e], "commit"), DhKey(e)) EXCEPT !.state = "WAIT_CONFIRM1"], "dhpart"))
    /\ Send({Plain(e, "DHPART2")})
    /\ UNCHANGED used

ReceiveDHPart2(e) ==
    /\ Arrives(e, "DHPART2")
    /\ ep[e].pubkeyscheme = "dh"
    /\ \/ /\ In(e, {"PENDINGSECURE"})
          /\ Update(e, [Derive(ep[e], DhKey(Peer(e))) EXCEPT !.state = "WAIT_CONFIRM2"])
          /\ Send({Keyed(e, "CONFIRM1", DhKey(Peer(e)))})
       \/ /\ In(e, {"WAIT_CONFIRM2"})
          /\ Send({Keyed(e, "CONFIRM1", ep[e].key)})
          /\ UNCHANGED ep
    /\ UNCHANGED used

(* process_confirm: the HMAC of a Confirm m matches the key of p. *)
Genuine(m, p) == m.key = p.key

(* In WAIT_CONFIRM1, or at once in Multistream mode, where the key is      *)
(* derived first.                                                          *)
ReceiveConfirm1(e) ==
    LET fast == ep[e].state = "INITIATINGSECURE"
        p == IF fast THEN Derive(ep[e], MultKey(e, ep[e].hv, ep[e])) ELSE ep[e]
        q == Cancel(p, IF fast THEN "commit" ELSE "dhpart")
    IN  /\ \/ In(e, {"WAIT_CONFIRM1"})
           \/ fast /\ ep[e].pubkeyscheme = "mult"
        /\ \E m \in Received(e, "CONFIRM1") :
               IF Genuine(m, p)
               THEN /\ Update(e, StartTimer(
                          [q EXCEPT !.state = "WAIT_CONFIRMACK"], "confirm"))
                    /\ Send({Keyed(e, "CONFIRM2", p.key)})
               ELSE InitiatingError(e, p)
        /\ UNCHANGED used

(* Variant: a Confirm2 is taken without a look at its key. *)
ReceiveAnyConfirm2(e) ==
    /\ Arrives(e, "CONFIRM2")
    /\ In(e, {"WAIT_CONFIRM2"})
    /\ EnterSecure(e, ep[e])
    /\ Send({Plain(e, "CONF2ACK")})

ReceiveConfirm2(e) ==
    \E m \in Received(e, "CONFIRM2") :
        \/ /\ In(e, {"WAIT_CONFIRM2"})
           /\ Genuine(m, ep[e])
           /\ EnterSecure(e, ep[e])
           /\ Send({Plain(e, "CONF2ACK")})
        \/ /\ In(e, {"WAIT_CONFIRM2"})
           /\ ~Genuine(m, ep[e])
           /\ InitiatingError(e, ep[e])
           /\ UNCHANGED used
        \/ /\ In(e, {"SECURE"})
           /\ Send({Plain(e, "CONF2ACK")})
           /\ UNCHANGED <<ep, used>>

(* A Conf2Ack, or media that the peer has encrypted with the same key. *)
ReceiveConf2Ack(e) ==
    /\ In(e, {"WAIT_CONFIRMACK"})
    /\ Arrives(e, "CONF2ACK") \/ ep[e].key \in used[Peer(e)]
    /\ EnterSecure(e, Cancel(ep[e], "confirm"))
    /\ UNCHANGED net

(* stream->allowclear: clearing takes the consent of both Confirms. *)
ClearAgreed == AllowClear = Endpoints

(* Variant: a duplicate GoClear hashes the session key again. *)
ReceiveEveryGoClear(e) ==
    /\ \E m \in Received(e, "GOCLEAR") :
        /\ In(e, {"SECURE", "CLEAR", "PENDINGCLEAR"})
        /\ In(e, {"SECURE"}) => Genuine(m, ep[e])
        /\ ClearAgreed
        /\ Update(e, HashSession([CancelAll(ep[e]) EXCEPT !.state = "PENDINGCLEAR"]))
        /\ Send({Plain(e, "GOCLEARACK")})
    /\ UNCHANGED used

(* process_goclear *)
ReceiveGoClear(e) ==
    /\ \E m \in Received(e, "GOCLEAR") :
        \/ /\ In(e, {"SECURE"})
           /\ ~ClearAgreed
           /\ InitiatingError(e, ep[e])
        \/ /\ In(e, {"SECURE"})
           /\ ClearAgreed
           /\ Genuine(m, ep[e])
           /\ Update(e, HashSession([CancelAll(ep[e]) EXCEPT !.state = "PENDINGCLEAR"]))
           /\ Send({Plain(e, "GOCLEARACK")})
        \/ /\ In(e, {"CLEAR", "PENDINGCLEAR"})
           /\ Send({Plain(e, "GOCLEARACK")})
           /\ UNCHANGED ep
    /\ UNCHANGED used

ReceiveGoClearAck(e) ==
    /\ Arrives(e, "GOCLEARACK")
    /\ In(e, {"INITIATINGCLEAR"})
    /\ Update(e, EnterClear(ep[e]))
    /\ UNCHANGED <<net, used>>

ReceiveError(e) ==
    /\ Arrives(e, "ERROR")
    /\ ~In(e, {"ACTIVE", "START", "SECURE", "PENDINGERROR", "NO_ZRTP"})
    /\ Update(e, EnterPendingError(ep[e]))
    /\ Send({Plain(e, "ERRORACK")})
    /\ UNCHANGED used

ReceiveErrorAck(e) ==
    /\ Arrives(e, "ERRORACK")
    /\ In(e, {"INITIATINGERROR"})
    /\ Update(e, SwitchToError(ep[e]))
    /\ UNCHANGED <<net, used>>

Receive(e) ==
    \/ ReceiveHello(e) \/ ReceiveHelloAck(e) \/ ReceiveCommit(e)
    \/ ReceiveMisfitDHPart(e) \/ ReceiveDHPart1(e) \/ ReceiveDHPart2(e)
    \/ ReceiveConfirm1(e) \/ ReceiveConfirm2(e) \/ ReceiveConf2Ack(e)
    \/ ReceiveGoClear(e) \/ ReceiveGoClearAck(e)
    \/ ReceiveError(e) \/ ReceiveErrorAck(e)

-----------------------------------------------------------------------------
(* Timers.                                                                 *)

(* The scheduler takes a call from its list ... *)
Pop(e, t) ==
    /\ ep[e].running = NONE
    /\ ep[e].timer[t].queued > 0
    /\ Update(e, [ep[e] EXCEPT !.running = t, !.timer[t].queued = @ - 1])
    /\ UNCHANGED <<net, used>>

Limit(p, t) ==
    CASE t = "hello"    -> IF p.state = "WAIT_HELLOACK" THEN HelloMaxExt ELSE HelloMax
      [] t = "goclear"  -> T2Max + 1
      [] t = "error"    -> ErrorMax
      [] t = "errorack" -> ErrorAckMax
      [] OTHER          -> T2Max

(* The goclear callback looks at the flag first, the others at the count. *)
Exhausted(p, t) ==
    /\ p.timer[t].retrys >= Limit(p, t)
    /\ t = "goclear" => p.timer[t].enabled

GiveUp(p, t) ==
    CASE t = "hello"                -> EnterNoZrtp(p)
      [] t = "goclear"              -> EnterClear(p)
      [] t \in {"error", "errorack"} -> SwitchToError(p)
      [] OTHER                      -> SilentError(p)

(* Variant: resends are not counted. *)
ResendUncounted(p, t) ==
    [p EXCEPT !.timer[t] = [@ EXCEPT !.queued = @ + 1]]

Resend(p, t) ==
    [p EXCEPT !.timer[t] = [p.timer[t] EXCEPT !.retrys = @ + 1, !.queued = @ + 1]]

(* ... and runs its callback: give up, resend, or skip a cancelled timer.  *)
AfterCallback(p, t) ==
    IF Exhausted(p, t) THEN GiveUp(p, t)
    ELSE IF p.timer[t].enabled THEN Resend(p, t) ELSE p

Callback(e) ==
    /\ ep[e].running # NONE
    /\ Update(e, AfterCallback([ep[e] EXCEPT !.running = NONE], ep[e].running))
    /\ UNCHANGED <<net, used>>

Scheduler(e) == Callback(e) \/ \E t \in Timers : Pop(e, t)

Endpoint(e) ==
    \/ StreamStart(e) \/ StreamSecure(e) \/ StreamClear(e)
    \/ Receive(e)
    \/ Scheduler(e)

Next == \E e \in Endpoints : Endpoint(e)

Spec == Init /\ [][Next]_vars

(* The scheduling in which a call taken from the list runs at once, and no *)
(* handler comes between.                                                  *)
PopAndCallback(e, t) ==
    /\ ep[e].timer[t].queued > 0
    /\ Update(e, AfterCallback([ep[e] EXCEPT !.timer[t].queued = @ - 1], t))
    /\ UNCHANGED <<net, used>>

PromptEndpoint(e) ==
    \/ StreamStart(e) \/ StreamSecure(e) \/ StreamClear(e)
    \/ Receive(e)
    \/ \E t \in Timers : PopAndCallback(e, t)

PromptNext == \E e \in Endpoints : PromptEndpoint(e)

PromptSpec == Init /\ [][PromptNext]_vars

-----------------------------------------------------------------------------
(* Properties.                                                             *)

Messages ==
    [to : Endpoints, type : {"HELLO", "HELLOACK", "DHPART1", "DHPART2", "CONF2ACK",
                             "GOCLEARACK", "ERROR", "ERRORACK"}]
    \cup [to : Endpoints, type : {"CONFIRM1", "CONFIRM2", "GOCLEAR"}, key : Keys]
    \cup [to : Endpoints, type : {"COMMIT"}, scheme : {"dh", "mult"}, nonce : 0 .. MaxNonces]

EndpointRecords ==
    [state : States, pubkeyscheme : {"dh", "mult", NONE}, is_hello_received : BOOLEAN,
     protocol : {"initiator", "responder", NONE}, hv : 0 .. MaxNonces,
     key : Keys \cup {NONE}, zrtpsess : Sessions \cup {NONE},
     timer : [Timers -> [enabled : BOOLEAN, retrys : Nat, queued : Nat]],
     running : Timers \cup {NONE}, starts : 0 .. MaxStarts]

TypeOK ==
    /\ ep \in [Endpoints -> EndpointRecords]
    /\ net \subseteq Messages
    /\ \A e \in Endpoints : used[e] \subseteq Keys

(* The states in which a message is resent until it is answered. *)
TimerStates(t) ==
    CASE t = "hello"    -> {"START", "WAIT_HELLOACK"}
      [] t = "commit"   -> {"INITIATINGSECURE"}
      [] t = "dhpart"   -> {"WAIT_CONFIRM1"}
      [] t = "confirm"  -> {"WAIT_CONFIRMACK"}
      [] t = "goclear"  -> {"INITIATINGCLEAR"}
      [] t = "error"    -> {"INITIATINGERROR"}
      [] t = "errorack" -> {"PENDINGERROR"}

(* A resend timer is enabled exactly in the states that wait for the       *)
(* answer (the flag of errorack is never cleared), and in those states it  *)
(* is in the scheduler's list or its callback is running: a handshake      *)
(* neither resends a message of a phase that is over nor waits for an      *)
(* answer that nothing asks for again.                                     *)
TimersMatchState ==
    \A e \in Endpoints, t \in Timers :
        LET on == ep[e].state \in TimerStates(t)
            timer == ep[e].timer[t]
        IN  /\ t # "errorack" => timer.enabled = on
            /\ on => timer.queued > 0 \/ ep[e].running = t
            /\ timer.queued > 0 => on

InitiatorStates == {"INITIATINGSECURE", "WAIT_CONFIRM1", "WAIT_CONFIRMACK"}
ResponderStates == {"PENDINGSECURE", "WAIT_CONFIRM2"}

(* The states in which zrtp_process_srtp insists on a protocol have one,   *)
(* of the role the state belongs to, although timers and errors destroy it *)
(* from any state.                                                         *)
RoleMatchesState ==
    \A e \in Endpoints :
        /\ In(e, InitiatorStates) => ep[e].protocol = "initiator"
        /\ In(e, ResponderStates) => ep[e].protocol = "responder"
        /\ In(e, {"SECURE", "PENDINGCLEAR", "INITIATINGCLEAR"}) => ep[e].protocol # NONE

NeverCleared(e) == ep[e].zrtpsess # NONE => ep[e].zrtpsess.hashed = 0

(* The tie of two simultaneous Commits is broken one way: the endpoints    *)
(* never both wait as responders (neither would resend anything), nor both *)
(* get beyond their Commit as initiators. Not so after a restart or once   *)
(* a stream was cleared, when a Commit of an earlier exchange may still    *)
(* arrive.                                                                 *)
TieBroken ==
    (\A e \in Endpoints : ep[e].starts <= 1 /\ NeverCleared(e)) =>
        /\ \E e \in Endpoints : ~In(e, ResponderStates)
        /\ \E e \in Endpoints : ~In(e, InitiatorStates \ {"INITIATINGSECURE"})

(* What an endpoint has confirmed: the key of a Confirm it has sent. *)
ConfirmedBy(e) ==
    {m.key : m \in {c \in net : c.to = Peer(e) /\ c.type \in {"CONFIRM1", "CONFIRM2"}}}

(* An endpoint in SECURE has a key that both sides have confirmed, and,    *)
(* unless a stream was started again, the peer, if in SECURE too, has the  *)
(* same: whatever stale messages of other exchanges came in between, and   *)
(* whatever timers fired. After restarts a Commit and a Confirm2 of an     *)
(* exchange that failed can come back and be taken for the current one,    *)
(* for the session key has not been hashed in between.                     *)
KeysAgree ==
    \A e \in Endpoints : In(e, {"SECURE"}) =>
        /\ \A o \in Endpoints : ep[e].key \in ConfirmedBy(o)
        /\ (\A o \in Endpoints : ep[o].starts <= 1) /\ In(Peer(e), {"SECURE"})
               => ep[Peer(e)].key = ep[e].key

Agreement == INSTANCE ZrtpAgreement WITH
    NoKey      <- NONE,
    confirmed  <- [e \in Endpoints |-> ConfirmedBy(e)],
    secureWith <- [e \in Endpoints |-> IF In(e, {"SECURE"}) THEN ep[e].key ELSE NONE],
    restarted  <- {e \in Endpoints : ep[e].starts > 1}

(* The handshake implements ZrtpAgreement: an endpoint goes to SECURE only *)
(* with a key both have confirmed and, unless a stream was started again,  *)
(* the same the peer is secure with and never one of an earlier time in    *)
(* SECURE, for which the ZRTP session key is hashed when a stream is       *)
(* cleared (src/zrtp_engine.c:998).                                        *)
AgreementSpec == Agreement!Spec

(* Only the scheduler threads are fair: messages may all be lost. *)
FairSpec == Spec /\ \A e \in Endpoints : WF_vars(Scheduler(e))

(* No state that waits for the answer to a resent message lasts for ever:  *)
(* the answer comes or the retries run out, although the count starts      *)
(* again with every timer started and a Callback may find its timer        *)
(* cancelled.                                                              *)
WaitsEnd ==
    \A e \in Endpoints :
        \A s \in UNION {TimerStates(t) : t \in Timers} :
            In(e, {s}) ~> ~In(e, {s})

(* "Callback handlers skip passive tasks" (include/zrtp_iface.h:75): the   *)
(* callback of a timer that was cancelled leaves the stream alone. Does    *)
(* not hold when its retries have run out (MCZrtpHandshake_passive.cfg).   *)
PassiveTasksSkipped ==
    [][\A e \in Endpoints :
          LET t == ep[e].running
          IN  t # NONE /\ ep'[e].running = NONE /\ ~ep[e].timer[t].enabled
              => ep'[e] = [ep[e] EXCEPT !.running = NONE]]_vars

(* The Commit of an endpoint without ZRTP session key, which asks for DH,  *)
(* "should win competition in any case" (src/zrtp_responder.c:419). Does   *)
(* not hold (MCZrtpHandshake_dhwins.cfg).                                  *)
DhCommitWins ==
    \A e \in Endpoints : \A c \in Received(e, "COMMIT") :
        In(e, {"INITIATINGSECURE"}) /\ ep[e].pubkeyscheme = "mult" /\ c.scheme = "dh"
        /\ In(Peer(e), {"INITIATINGSECURE"}) /\ ep[Peer(e)].pubkeyscheme = "dh"
            => RoleFor(e, ep[e], c) = "responder"

=============================================================================
