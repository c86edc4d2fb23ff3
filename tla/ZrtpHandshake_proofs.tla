----------------------- MODULE ZrtpHandshake_proofs -----------------------
(***************************************************************************)
(* Theorems about the ZRTP state machine, for any retry counts, any number *)
(* of starts and any number of Multistream Commits.                        *)
(***************************************************************************)
EXTENDS ZrtpHandshake, FiniteSetTheorems, TLAPS

-----------------------------------------------------------------------------
(* Types.  How often a session key is hashed is left open here: the bound  *)
(* of TypeOK takes an argument of its own.                                 *)

SomeSessions == [by : Endpoints, hashed : Nat]

SomeKeys == [by : Endpoints, nonce : 0 .. MaxNonces, sess : SomeSessions \cup {NONE}]

TimerRecords == [enabled : BOOLEAN, retrys : Nat, queued : Nat]

Records ==
    [state : States, pubkeyscheme : {"dh", "mult", NONE}, is_hello_received : BOOLEAN,
     protocol : {"initiator", "responder", NONE}, hv : 0 .. MaxNonces,
     key : SomeKeys \cup {NONE}, zrtpsess : SomeSessions \cup {NONE},
     timer : [Timers -> TimerRecords],
     running : Timers \cup {NONE}, starts : 0 .. MaxStarts]

SomeMessages ==
    [to : Endpoints, type : {"HELLO", "HELLOACK", "DHPART1", "DHPART2", "CONF2ACK",
                             "GOCLEARACK", "ERROR", "ERRORACK"}]
    \cup [to : Endpoints, type : {"CONFIRM1", "CONFIRM2", "GOCLEAR"}, key : SomeKeys]
    \cup [to : Endpoints, type : {"COMMIT"}, scheme : {"dh", "mult"}, nonce : 0 .. MaxNonces]

LEMMA TwoEndpoints ==
    \E a, b \in Endpoints : a # b /\ Endpoints = {a, b}
<1>1. IsFiniteSet(Endpoints) /\ Cardinality(Endpoints) = 2
  BY HandshakeAssumption
<1>2. PICK a \in Endpoints : TRUE
  BY <1>1, FS_EmptySet
<1>3. IsFiniteSet(Endpoints \ {a}) /\ Cardinality(Endpoints \ {a}) = 1
  BY <1>1, <1>2, FS_RemoveElement
<1>4. PICK b : Endpoints \ {a} = {b}
  BY <1>3, FS_Singleton
<1>5. QED
  BY <1>2, <1>4

LEMMA PeerIsTheOther ==
    ASSUME NEW e \in Endpoints
    PROVE  /\ Peer(e) \in Endpoints /\ Peer(e) # e
           /\ \A o \in Endpoints : o = e \/ o = Peer(e)
           /\ Peer(Peer(e)) = e
<1>1. PICK a, b \in Endpoints : a # b /\ Endpoints = {a, b}
  BY TwoEndpoints
<1>2. \A x \in Endpoints : \E o \in Endpoints : o # x
  BY <1>1
<1>3. \A x \in Endpoints : Peer(x) \in Endpoints /\ Peer(x) # x
  BY <1>2 DEF Peer
<1>4. QED
  BY <1>1, <1>3

-----------------------------------------------------------------------------
(* The operations on the record of an endpoint.                            *)

LEMMA StartTimerFields ==
    ASSUME NEW p \in Records, NEW t \in Timers
    PROVE  LET q == StartTimer(p, t)
           IN  /\ q \in Records
               /\ q = [p EXCEPT !.timer = q.timer]
               /\ q.timer[t].enabled /\ q.timer[t].queued > 0 /\ q.timer[t].retrys = 1
               /\ \A u \in Timers \ {t} : q.timer[u] = p.timer[u]
<1>1. p.timer \in [Timers -> TimerRecords] /\ p.timer[t].queued \in Nat
  BY DEF Records, TimerRecords
<1> DEFINE r == [enabled |-> TRUE, retrys |-> 1, queued |-> p.timer[t].queued + 1]
           tm == [p.timer EXCEPT ![t] = r]
<1>2. r \in TimerRecords /\ r.enabled /\ r.queued > 0 /\ r.retrys = 1
  BY <1>1 DEF TimerRecords
<1>3. tm \in [Timers -> TimerRecords] /\ tm[t] = r /\ \A u \in Timers \ {t} : tm[u] = p.timer[u]
  BY <1>1, <1>2
<1>4. StartTimer(p, t) = [p EXCEPT !.timer = tm]
  BY <1>1 DEF StartTimer, Records
<1> HIDE DEF r, tm
<1>5. QED
  BY <1>2, <1>3, <1>4 DEF Records

LEMMA CancelFields ==
    ASSUME NEW p \in Records, NEW t \in Timers
    PROVE  LET q == Cancel(p, t)
           IN  /\ q \in Records
               /\ q = [p EXCEPT !.timer = q.timer]
               /\ ~q.timer[t].enabled /\ q.timer[t].queued = 0
               /\ \A u \in Timers \ {t} : q.timer[u] = p.timer[u]
<1>1. p.timer \in [Timers -> TimerRecords] /\ p.timer[t] \in TimerRecords
  BY DEF Records
<1> DEFINE r == [p.timer[t] EXCEPT !.enabled = FALSE, !.queued = 0]
           tm == [p.timer EXCEPT ![t] = r]
<1>2. r \in TimerRecords /\ ~r.enabled /\ r.queued = 0
  BY <1>1 DEF TimerRecords
<1>3. tm \in [Timers -> TimerRecords] /\ tm[t] = r /\ \A u \in Timers \ {t} : tm[u] = p.timer[u]
  BY <1>1, <1>2
<1>4. Cancel(p, t) = [p EXCEPT !.timer = tm]
  BY <1>1 DEF Cancel, Records
<1> HIDE DEF r, tm
<1>5. QED
  BY <1>2, <1>3, <1>4 DEF Records

(* No timer is armed, but for the flag of errorack. *)
Quiet(p) ==
    \A t \in Timers : /\ p.timer[t].queued = 0
                      /\ t # "errorack" => ~p.timer[t].enabled

LEMMA CancelAllFields ==
    ASSUME NEW p \in Records
    PROVE  LET q == CancelAll(p)
           IN  /\ q \in Records
               /\ q = [p EXCEPT !.timer = q.timer]
               /\ Quiet(q)
<1> DEFINE r(t) == [p.timer[t] EXCEPT !.enabled = @ /\ t = "errorack", !.queued = 0]
           tm == [t \in Timers |-> r(t)]
<1>1. p.timer \in [Timers -> TimerRecords]
  BY DEF Records
<1>2. \A t \in Timers : /\ r(t) \in TimerRecords /\ r(t).queued = 0
                        /\ t # "errorack" => ~r(t).enabled
  BY <1>1 DEF TimerRecords
<1>3. CancelAll(p) = [p EXCEPT !.timer = tm]
  BY <1>1 DEF CancelAll, Records
<1>4. tm \in [Timers -> TimerRecords] /\ \A t \in Timers : tm[t] = r(t)
  <2> HIDE DEF r
  <2> QED
    BY <1>2
<1> HIDE DEF r, tm
<1>5. QED
  BY <1>2, <1>3, <1>4 DEF Records, Quiet

LEMMA ClearStreamCryptoFields ==
    ASSUME NEW p \in Records
    PROVE  LET q == ClearStreamCrypto(p)
           IN  /\ q \in Records
               /\ q = [p EXCEPT !.timer = q.timer, !.protocol = NONE, !.key = NONE]
               /\ Quiet(p) => Quiet(q)
<1> DEFINE r == IF p.protocol = NONE THEN p ELSE CancelAll(p)
<1>1. r \in Records /\ r = [p EXCEPT !.timer = r.timer] /\ (Quiet(p) => Quiet(r))
  BY CancelAllFields DEF Records
<1>2. ClearStreamCrypto(p) = [r EXCEPT !.protocol = NONE, !.key = NONE]
  BY DEF ClearStreamCrypto
<1> HIDE DEF r
<1>3. QED
  BY <1>1, <1>2 DEF Records, Quiet

LEMMA ProtocolInitFields ==
    ASSUME NEW p \in Records, NEW role \in {"initiator", "responder"}
    PROVE  LET q == ProtocolInit(p, role)
           IN  /\ q \in Records
               /\ q = [p EXCEPT !.timer = q.timer, !.protocol = role]
               /\ Quiet(p) => Quiet(q)
<1> DEFINE r == IF p.protocol = NONE THEN p ELSE CancelAll(p)
<1>1. r \in Records /\ r = [p EXCEPT !.timer = r.timer] /\ (Quiet(p) => Quiet(r))
  BY CancelAllFields DEF Records
<1>2. ProtocolInit(p, role) = [r EXCEPT !.protocol = role]
  BY DEF ProtocolInit
<1> HIDE DEF r
<1>3. QED
  BY <1>1, <1>2 DEF Records, Quiet

-----------------------------------------------------------------------------
(* What holds of the record of one endpoint at any time.                   *)

TimedStates ==
    {"START", "WAIT_HELLOACK", "INITIATINGSECURE", "WAIT_CONFIRM1",
     "WAIT_CONFIRMACK", "INITIATINGCLEAR", "INITIATINGERROR", "PENDINGERROR"}

LEMMA TimerOfState ==
    ASSUME NEW t \in Timers
    PROVE  /\ TimerStates(t) \subseteq TimedStates
           /\ \A u \in Timers : u # t => TimerStates(u) \cap TimerStates(t) = {}
           /\ t = "errorack" => TimerStates(t) = {"PENDINGERROR"}
           /\ t = "goclear" => TimerStates(t) = {"INITIATINGCLEAR"}
           /\ t = "hello" => TimerStates(t) = {"START", "WAIT_HELLOACK"}
           /\ t = "commit" => TimerStates(t) = {"INITIATINGSECURE"}
           /\ t = "dhpart" => TimerStates(t) = {"WAIT_CONFIRM1"}
           /\ t = "confirm" => TimerStates(t) = {"WAIT_CONFIRMACK"}
           /\ t = "error" => TimerStates(t) = {"INITIATINGERROR"}
  BY DEF Timers, TimerStates, TimedStates

(* TimersMatchState of one endpoint, and: the callback of errorack, whose  *)
(* flag would make it resend, runs in PENDINGERROR only.                   *)
TimersFit(p) ==
    /\ \A t \in Timers :
          /\ t # "errorack" => (p.timer[t].enabled <=> p.state \in TimerStates(t))
          /\ p.state \in TimerStates(t) =>
                 p.timer[t].enabled /\ (p.timer[t].queued > 0 \/ p.running = t)
          /\ p.timer[t].queued > 0 => p.state \in TimerStates(t)
    /\ p.running = "errorack" => p.state = "PENDINGERROR"

(* RoleMatchesState of one endpoint. *)
RoleFits(p) ==
    /\ p.state \in InitiatorStates => p.protocol = "initiator"
    /\ p.state \in ResponderStates => p.protocol = "responder"
    /\ p.state \in {"SECURE", "PENDINGCLEAR", "INITIATINGCLEAR"} => p.protocol # NONE

(* How often the session key was hashed that a key is derived from; the    *)
(* key of a DH exchange is derived from none.                              *)
Level(k) == IF k.sess = NONE THEN 0 ELSE k.sess.hashed

KeyedStates == {"WAIT_CONFIRM1", "WAIT_CONFIRM2", "WAIT_CONFIRMACK", "SECURE"}

(* The scheme goes with the session key, and in the states that have a key *)
(* that was derived from the session key as it is.                         *)
SessionFits(p) ==
    /\ p.state = "ACTIVE" <=> p.starts = 0
    /\ p.state = "ACTIVE" =>
           p.pubkeyscheme = NONE /\ p.zrtpsess = NONE /\ p.running = NONE
    /\ p.state = "INITIATINGSECURE" =>
           p.pubkeyscheme = IF p.zrtpsess = NONE THEN "dh" ELSE "mult"
    /\ p.state = "PENDINGSECURE" => p.pubkeyscheme = "dh" /\ p.zrtpsess = NONE
    /\ p.state \in KeyedStates =>
           /\ p.key \in SomeKeys
           /\ p.zrtpsess \in SomeSessions
           /\ Level(p.key) = p.zrtpsess.hashed

Fits(p) == p \in Records /\ TimersFit(p) /\ RoleFits(p) /\ SessionFits(p)

HandshakeInv ==
    /\ ep \in [Endpoints -> Records]
    /\ \A e \in Endpoints : Fits(ep[e])
    /\ net \subseteq SomeMessages
    /\ used \in [Endpoints -> SUBSET SomeKeys]

LEMMA FitsQuiet ==
    ASSUME NEW p \in Records, TimersFit(p), p.state \notin TimedStates
    PROVE  Quiet(p)
<1>1. \A t \in Timers : p.timer[t].queued \in Nat
  BY DEF Records, TimerRecords
<1>2. QED
  BY <1>1, TimerOfState DEF TimersFit, Quiet

LEMMA CancelQuiet ==
    ASSUME NEW p \in Records, TimersFit(p), NEW t \in Timers, p.state \in TimerStates(t)
    PROVE  Quiet(Cancel(p, t))
<1>1. \A u \in Timers : p.timer[u].queued \in Nat
  BY DEF Records, TimerRecords
<1>2. \A u \in Timers \ {t} : p.state \notin TimerStates(u)
  BY TimerOfState
<1>3. QED
  BY <1>1, <1>2, CancelFields DEF TimersFit, Quiet

LEMMA QuietFits ==
    ASSUME NEW p \in Records, Quiet(p), p.state \notin TimedStates, p.running # "errorack"
    PROVE  TimersFit(p)
  BY TimerOfState DEF TimersFit, Quiet

LEMMA StartTimerFits ==
    ASSUME NEW p \in Records, Quiet(p), NEW t \in Timers, p.state \in TimerStates(t),
           p.running # "errorack"
    PROVE  TimersFit(StartTimer(p, t))
<1> DEFINE q == StartTimer(p, t)
<1>1. /\ q = [p EXCEPT !.timer = q.timer]
      /\ q.timer[t].enabled /\ q.timer[t].queued > 0
      /\ \A u \in Timers \ {t} : q.timer[u] = p.timer[u]
  BY StartTimerFields
<1>2. q.state = p.state /\ q.running = p.running
  BY <1>1 DEF Records
<1>3. \A u \in Timers \ {t} : p.state \notin TimerStates(u)
  BY TimerOfState
<1> HIDE DEF q
<1>4. TimersFit(q)
  BY <1>1, <1>2, <1>3 DEF TimersFit, Quiet
<1>5. QED
  BY <1>4 DEF q

-----------------------------------------------------------------------------
(* What a step of an endpoint does to the key agreement, timers and        *)
(* unnumbered messages left aside.                                         *)

Tracked == {"COMMIT", "DHPART1", "CONFIRM1", "CONFIRM2"}

(* Of the messages that matter here, only those of X are sent. *)
Adds(X) ==
    /\ net \cup X \subseteq net'
    /\ \A m \in net' : m \in net \/ m \in X \/ m.type \notin Tracked

KeepsSession(e) ==
    ep'[e].zrtpsess = ep[e].zrtpsess /\ ep'[e].starts = ep[e].starts

(* States before a key agreement. *)
IdleStates == {"ACTIVE", "START", "WAIT_HELLOACK", "WAIT_HELLO", "CLEAR", "NO_ZRTP"}

ClearingStates == {"INITIATINGCLEAR", "PENDINGCLEAR"}

(* Nothing, or a Commit or DHPart2 is answered again. *)
Stays(e) ==
    /\ KeepsSession(e) /\ UNCHANGED used
    /\ ep'[e].state = ep[e].state /\ ep'[e].key = ep[e].key /\ ep'[e].hv = ep[e].hv
    /\ ep'[e].pubkeyscheme = ep[e].pubkeyscheme
    /\ \/ Adds({})
       \/ ep[e].state = "PENDINGSECURE" /\ Adds({Plain(e, "DHPART1")})
       \/ ep[e].state = "WAIT_CONFIRM2" /\ Adds({Keyed(e, "CONFIRM1", ep[e].key)})

Starts(e) ==
    /\ ep[e].state \in {"ACTIVE", "ERROR", "NO_ZRTP"} /\ ep'[e].state = "START"
    /\ ep'[e].starts = ep[e].starts + 1 /\ ep'[e].zrtpsess = ep[e].zrtpsess
    /\ ep'[e].key = ep[e].key
    /\ Adds({}) /\ UNCHANGED used

(* Discovery, and the end of a clear. *)
Discovers(e) ==
    /\ ep[e].state \in (IdleStates \ {"ACTIVE"}) \cup ClearingStates
    /\ ep'[e].state \in IdleStates \ {"ACTIVE"}
    /\ KeepsSession(e) /\ UNCHANGED used /\ Adds({})
    /\ ep'[e].key \in {ep[e].key, NONE}

Initiates(e) ==
    /\ ep[e].state \in {"WAIT_HELLO", "WAIT_HELLOACK", "CLEAR", "PENDINGCLEAR", "NO_ZRTP"}
    /\ ep'[e].state = "INITIATINGSECURE"
    /\ KeepsSession(e) /\ UNCHANGED used
    /\ ep'[e].key = ep[e].key
    /\ ep'[e].pubkeyscheme = IF ep[e].zrtpsess = NONE THEN "dh" ELSE "mult"
    /\ ep'[e].hv \in IF ep[e].zrtpsess = NONE THEN {0} ELSE FreshNonces
    /\ Adds({Commit(e, ep'[e].pubkeyscheme, ep'[e].hv)})

(* An endpoint becomes responder on a Commit of its peer. *)
Responds(e) ==
    \E c \in Received(e, "COMMIT") :
        /\ ep[e].state \in {"WAIT_HELLOACK", "CLEAR", "PENDINGCLEAR", "NO_ZRTP",
                            "INITIATINGSECURE"}
        /\ ep[e].state = "INITIATINGSECURE" => ~Outbids(e, ep[e], c)
        /\ KeepsSession(e) /\ UNCHANGED used
        /\ \/ /\ c.scheme = "dh" /\ ep[e].zrtpsess = NONE
              /\ ep'[e].state = "PENDINGSECURE"
              /\ ep'[e].key = ep[e].key
              /\ Adds({Plain(e, "DHPART1")})
           \/ /\ c.scheme = "mult" /\ ep[e].zrtpsess # NONE
              /\ ep'[e].state = "WAIT_CONFIRM2"
              /\ ep'[e].key = MultKey(Peer(e), c.nonce, ep[e])
              /\ Adds({Keyed(e, "CONFIRM1", ep'[e].key)})

(* A DH exchange yields a key, and the ZRTP session key. *)
Derives(e) ==
    /\ ep[e].zrtpsess = NONE /\ ep'[e].zrtpsess \in SomeSessions
    /\ ep'[e].zrtpsess.hashed = 0
    /\ ep'[e].starts = ep[e].starts /\ UNCHANGED used
    /\ \/ /\ ep[e].state = "INITIATINGSECURE" /\ Arrives(e, "DHPART1")
          /\ ep'[e].state = "WAIT_CONFIRM1" /\ ep'[e].key = DhKey(e)
          /\ Adds({})
       \/ /\ ep[e].state = "PENDINGSECURE"
          /\ ep'[e].state = "WAIT_CONFIRM2" /\ ep'[e].key = DhKey(Peer(e))
          /\ Adds({Keyed(e, "CONFIRM1", ep'[e].key)})

Confirms(e) ==
    /\ KeepsSession(e) /\ UNCHANGED used
    /\ \/ ep[e].state = "WAIT_CONFIRM1" /\ ep'[e].key = ep[e].key
       \/ /\ ep[e].state = "INITIATINGSECURE" /\ ep[e].pubkeyscheme = "mult"
          /\ ep'[e].key = MultKey(e, ep[e].hv, ep[e])
    /\ ep'[e].state = "WAIT_CONFIRMACK"
    /\ \E m \in Received(e, "CONFIRM1") : m.key = ep'[e].key
    /\ Adds({Keyed(e, "CONFIRM2", ep'[e].key)})

Secures(e) ==
    /\ \/ ep[e].state = "WAIT_CONFIRMACK"
       \/ /\ ep[e].state = "WAIT_CONFIRM2"
          /\ \E m \in Received(e, "CONFIRM2") : m.key = ep[e].key
    /\ ep'[e].state = "SECURE"
    /\ KeepsSession(e) /\ ep'[e].key = ep[e].key
    /\ used' = [used EXCEPT ![e] = @ \cup {ep[e].key}]
    /\ Adds({})

Clears(e) ==
    /\ ep[e].state = "SECURE" /\ ep'[e].state \in ClearingStates
    /\ ep'[e].zrtpsess = [ep[e].zrtpsess EXCEPT !.hashed = @ + 1]
    /\ ep'[e].starts = ep[e].starts /\ ep'[e].key = ep[e].key
    /\ Adds({}) /\ UNCHANGED used

(* An error; a Multistream key that no Confirm fits is left in place. *)
Fails(e) ==
    /\ ep[e].state # "ACTIVE" /\ ep'[e].state \in ErrorStates
    /\ KeepsSession(e) /\ UNCHANGED used /\ Adds({})
    /\ \/ ep'[e].key \in {ep[e].key, NONE}
       \/ ep'[e].key \in SomeKeys /\ ep'[e].key.sess = ep[e].zrtpsess

(* The callback of a hello timer that was cancelled gives up in any state. *)
GivesUpLate(e) ==
    /\ ep[e].running = "hello" /\ ep'[e].state = "NO_ZRTP"
    /\ KeepsSession(e) /\ UNCHANGED used /\ Adds({})
    /\ ep'[e].key = NONE

(* All keys sent or used are of the endpoint that sends or uses them. *)
OwnKeys(e) ==
    /\ \A m \in net' \ net : m.type \in {"CONFIRM1", "CONFIRM2", "GOCLEAR"} =>
           m.key \in {ep[e].key, ep'[e].key}

Step(e) ==
    /\ ep' = [ep EXCEPT ![e] = ep'[e]]
    /\ Fits(ep'[e])
    /\ net' \subseteq SomeMessages
    /\ used' \in [Endpoints -> SUBSET SomeKeys]
    /\ OwnKeys(e)
    /\ \/ Stays(e) \/ Starts(e) \/ Discovers(e) \/ Initiates(e) \/ Responds(e)
       \/ Derives(e) \/ Confirms(e) \/ Secures(e) \/ Clears(e) \/ Fails(e)
       \/ GivesUpLate(e)

(* A step of the user or of a message handler leaves a running callback.   *)
HandlerStep(e) == Step(e) /\ ep'[e].running = ep[e].running

-----------------------------------------------------------------------------
(* Operations that lead to a fitting record.                               *)

Same(p, q) ==
    /\ q.pubkeyscheme = p.pubkeyscheme /\ q.zrtpsess = p.zrtpsess
    /\ q.starts = p.starts /\ q.running = p.running /\ q.hv = p.hv

LEMMA Armed ==
    ASSUME NEW p \in Records, Quiet(p), RoleFits(p), SessionFits(p),
           NEW t \in Timers, p.state \in TimerStates(t), p.running # "errorack"
    PROVE  LET q == StartTimer(p, t)
           IN  Fits(q) /\ q.state = p.state /\ q.key = p.key /\ Same(p, q)
<1> DEFINE q == StartTimer(p, t)
<1>1. q \in Records /\ q = [p EXCEPT !.timer = q.timer]
  BY StartTimerFields
<1>2. TimersFit(q)
  BY StartTimerFits
<1> HIDE DEF q
<1>3. /\ q.state = p.state /\ q.key = p.key /\ Same(p, q) /\ q.protocol = p.protocol
  BY <1>1 DEF Records, Same
<1>4. RoleFits(q) /\ SessionFits(q)
  BY <1>3 DEF RoleFits, SessionFits, Same
<1>5. QED
  BY <1>1, <1>2, <1>3, <1>4 DEF Fits, q

LEMMA Settled ==
    ASSUME NEW p \in Records, Quiet(p), RoleFits(p), SessionFits(p),
           p.state \notin TimedStates, p.running # "errorack"
    PROVE  Fits(p)
  BY QuietFits DEF Fits

LEMMA StateFields ==
    ASSUME NEW p \in Records, NEW s \in States
    PROVE  LET q == [p EXCEPT !.state = s]
           IN  /\ q \in Records /\ q.state = s /\ q.timer = p.timer /\ q.key = p.key
               /\ q.protocol = p.protocol /\ Same(p, q)
<1> DEFINE q == [p EXCEPT !.state = s]
<1>1. q \in Records
  BY DEF Records
<1>2. q.state = s /\ q.timer = p.timer /\ q.key = p.key /\ q.protocol = p.protocol
  BY DEF Records
<1>3. Same(p, q)
  BY DEF Records, Same
<1>4. QED
  BY <1>1, <1>2, <1>3

LEMMA CancelAllThen ==
    ASSUME NEW p \in Records, NEW s \in States
    PROVE  LET q == [CancelAll(p) EXCEPT !.state = s]
           IN  /\ q \in Records /\ Quiet(q) /\ q.state = s /\ q.key = p.key
               /\ q.protocol = p.protocol /\ Same(p, q)
<1> DEFINE r == CancelAll(p)
<1>1. r \in Records /\ r = [p EXCEPT !.timer = r.timer] /\ Quiet(r)
  BY CancelAllFields
<1> HIDE DEF r
<1> DEFINE q == [r EXCEPT !.state = s]
<1>2. /\ q \in Records /\ q.state = s /\ q.timer = r.timer /\ q.key = r.key
      /\ q.protocol = r.protocol /\ Same(r, q)
  BY <1>1, StateFields
<1>3. r.key = p.key /\ r.protocol = p.protocol /\ Same(p, r)
  BY <1>1 DEF Records, Same
<1>4. Same(p, q)
  BY <1>2, <1>3 DEF Same
<1>5. Quiet(q)
  BY <1>1, <1>2 DEF Quiet
<1>6. QED
  BY <1>2, <1>3, <1>4, <1>5 DEF r

LEMMA ClearThen ==
    ASSUME NEW p \in Records, NEW s \in States
    PROVE  LET q == [ClearStreamCrypto(CancelAll(p)) EXCEPT !.state = s]
           IN  q \in Records /\ Quiet(q) /\ q.state = s /\ q.key = NONE /\ Same(p, q)
<1> DEFINE r == CancelAll(p)
           c == ClearStreamCrypto(r)
<1>1. r \in Records /\ r = [p EXCEPT !.timer = r.timer] /\ Quiet(r)
  BY CancelAllFields
<1> HIDE DEF r
<1>2. /\ c \in Records /\ c = [r EXCEPT !.timer = c.timer, !.protocol = NONE, !.key = NONE]
      /\ Quiet(c)
  BY <1>1, ClearStreamCryptoFields
<1> HIDE DEF c
<1> DEFINE q == [c EXCEPT !.state = s]
<1>3. Same(p, c) /\ c.key = NONE
  <2>1. Same(p, r)
    BY <1>1 DEF Records, Same
  <2>2. Same(r, c) /\ c.key = NONE
    BY <1>1, <1>2 DEF Records, Same
  <2>3. QED
    BY <2>1, <2>2 DEF Same
<1>4. /\ q \in Records /\ q.state = s /\ q.timer = c.timer /\ q.key = c.key
      /\ Same(c, q)
  BY <1>2, StateFields
<1>5. Same(p, q) /\ q.key = NONE
  BY <1>3, <1>4 DEF Same
<1>6. Quiet(q)
  BY <1>2, <1>4 DEF Quiet
<1>7. QED
  BY <1>4, <1>5, <1>6 DEF r, c

(* EnterClear, EnterNoZrtp and SwitchToError. *)
LEMMA ClearThenFits ==
    ASSUME NEW p \in Records, SessionFits(p), p.state # "ACTIVE",
           p.running # "errorack", NEW s \in {"CLEAR", "NO_ZRTP", "ERROR"}
    PROVE  LET q == [ClearStreamCrypto(CancelAll(p)) EXCEPT !.state = s]
           IN  Fits(q) /\ q.state = s /\ q.key = NONE /\ Same(p, q)
<1> DEFINE q == [ClearStreamCrypto(CancelAll(p)) EXCEPT !.state = s]
<1>1. s \in States
  BY DEF States
<1>2. q \in Records /\ Quiet(q) /\ q.state = s /\ q.key = NONE /\ Same(p, q)
  BY <1>1, ClearThen
<1> HIDE DEF q
<1>3. RoleFits(q)
  BY <1>2 DEF RoleFits, InitiatorStates, ResponderStates
<1>4. SessionFits(q)
  BY <1>2 DEF SessionFits, KeyedStates, Same
<1>5. q.state \notin TimedStates /\ q.running # "errorack"
  BY <1>2 DEF TimedStates, Same
<1>6. Fits(q)
  BY <1>2, <1>3, <1>4, <1>5, Settled
<1>7. QED
  BY <1>2, <1>6 DEF q

LEMMA ErrorThenFits ==
    ASSUME NEW p, Fits(p), p.state # "ACTIVE", p.state # "PENDINGERROR",
           NEW s \in States, NEW t \in Timers,
           \/ s = "INITIATINGERROR" /\ t = "error"
           \/ s = "PENDINGERROR" /\ t = "errorack"
    PROVE  LET q == StartTimer([CancelAll(p) EXCEPT !.state = s], t)
           IN  Fits(q) /\ q.state = s /\ q.key = p.key /\ Same(p, q)
<1> DEFINE r == [CancelAll(p) EXCEPT !.state = s]
<1>1. p \in Records /\ p.running # "errorack"
  BY DEF Fits, TimersFit
<1>2. /\ r \in Records /\ Quiet(r) /\ r.state = s /\ r.key = p.key
      /\ Same(p, r)
  BY <1>1, CancelAllThen
<1> HIDE DEF r
<1>3. RoleFits(r) /\ SessionFits(r) /\ r.running # "errorack"
  BY <1>1, <1>2 DEF RoleFits, SessionFits, InitiatorStates, ResponderStates, KeyedStates, Fits, Same
<1>4. r.state \in TimerStates(t)
  BY <1>2, TimerOfState
<1>5. QED
  BY <1>2, <1>3, <1>4, Armed DEF r, Same

LEMMA DeriveFields ==
    ASSUME NEW p \in Records, NEW k \in SomeKeys, k.sess \in {NONE, p.zrtpsess}
    PROVE  LET q == Derive(p, k)
           IN  /\ q \in Records
               /\ q.key = k /\ q.zrtpsess \in SomeSessions
               /\ p.zrtpsess # NONE => q.zrtpsess = p.zrtpsess
               /\ p.zrtpsess = NONE => q.zrtpsess.hashed = 0
               /\ q = [p EXCEPT !.key = k, !.zrtpsess = q.zrtpsess]
<1> DEFINE s == IF k.sess = NONE /\ p.zrtpsess = NONE
                THEN [by |-> k.by, hashed |-> 0] ELSE p.zrtpsess
<1>1. /\ s \in SomeSessions
      /\ p.zrtpsess # NONE => s = p.zrtpsess
      /\ p.zrtpsess = NONE => s.hashed = 0
  BY DEF SomeSessions, SomeKeys, Records
<1>2. Derive(p, k) = [p EXCEPT !.key = k, !.zrtpsess = s]
  BY DEF Derive, Records
<1> HIDE DEF s
<1>3. QED
  BY <1>1, <1>2 DEF Records

LEMMA KeyTypes ==
    ASSUME NEW e \in Endpoints
    PROVE  /\ DhKey(e) \in SomeKeys /\ DhKey(e).sess = NONE /\ Level(DhKey(e)) = 0
           /\ \A p \in Records, n \in 0 .. MaxNonces :
                 /\ MultKey(e, n, p) \in SomeKeys
                 /\ MultKey(e, n, p).sess = p.zrtpsess /\ MultKey(e, n, p).nonce = n
                 /\ p.zrtpsess # NONE => Level(MultKey(e, n, p)) = p.zrtpsess.hashed
<1>1. MaxNonces \in Nat
  BY HandshakeAssumption
<1>2. DhKey(e) \in SomeKeys /\ DhKey(e).sess = NONE
  BY <1>1 DEF DhKey, SomeKeys
<1>3. ASSUME NEW p \in Records, NEW n \in 0 .. MaxNonces
      PROVE  /\ MultKey(e, n, p) \in SomeKeys
             /\ MultKey(e, n, p).sess = p.zrtpsess /\ MultKey(e, n, p).nonce = n
  BY DEF MultKey, SomeKeys, Records
<1>4. QED
  BY <1>2, <1>3 DEF Level

-----------------------------------------------------------------------------
(* Messages.                                                               *)

LEMMA MessageTypes ==
    ASSUME NEW e \in Endpoints
    PROVE  /\ \A type \in {"HELLO", "HELLOACK", "DHPART1", "DHPART2", "CONF2ACK",
                           "GOCLEARACK", "ERROR", "ERRORACK"} :
                 Plain(e, type) \in SomeMessages /\ Plain(e, type).type = type
           /\ \A type \in {"CONFIRM1", "CONFIRM2", "GOCLEAR"}, k \in SomeKeys :
                 /\ Keyed(e, type, k) \in SomeMessages
                 /\ Keyed(e, type, k).type = type /\ Keyed(e, type, k).key = k
           /\ \A scheme \in {"dh", "mult"}, n \in 0 .. MaxNonces :
                 Commit(e, scheme, n) \in SomeMessages /\ Commit(e, scheme, n).type = "COMMIT"
<1>1. Peer(e) \in Endpoints
  BY PeerIsTheOther
<1>2. QED
  BY <1>1 DEF Plain, Keyed, Commit, SomeMessages

(* Sending an answer that carries nothing, and keeping silent. *)
LEMMA SendPlain ==
    ASSUME HandshakeInv, NEW e \in Endpoints,
           NEW M, \A m \in M : \E type \in {"HELLO", "HELLOACK", "DHPART2", "CONF2ACK",
                                            "GOCLEARACK", "ERROR", "ERRORACK"} :
                                    m = Plain(e, type),
           Send(M)
    PROVE  Adds({}) /\ net' \subseteq SomeMessages /\ OwnKeys(e)
<1>1. \A m \in M : /\ m \in SomeMessages
                   /\ m.type \notin Tracked \cup {"GOCLEAR"}
  BY MessageTypes DEF Tracked
<1>2. QED
  BY <1>1 DEF Send, HandshakeInv, Adds, OwnKeys, Tracked

LEMMA SendNothing ==
    ASSUME HandshakeInv, NEW e \in Endpoints, UNCHANGED net
    PROVE  Adds({}) /\ net' \subseteq SomeMessages /\ OwnKeys(e)
  BY DEF HandshakeInv, Adds, OwnKeys

LEMMA SendKeyed ==
    ASSUME HandshakeInv, NEW e \in Endpoints, NEW k \in SomeKeys,
           k \in {ep[e].key, ep'[e].key},
           NEW type \in {"CONFIRM1", "CONFIRM2", "GOCLEAR"}, Send({Keyed(e, type, k)})
    PROVE  /\ type # "GOCLEAR" => Adds({Keyed(e, type, k)})
           /\ type = "GOCLEAR" => Adds({})
           /\ net' \subseteq SomeMessages /\ OwnKeys(e)
<1>1. Keyed(e, type, k) \in SomeMessages /\ Keyed(e, type, k).type = type
      /\ Keyed(e, type, k).key = k
  BY MessageTypes
<1>2. QED
  BY <1>1 DEF Send, HandshakeInv, Adds, OwnKeys, Tracked

(* A step of one endpoint. *)
LEMMA UpdateStep ==
    ASSUME HandshakeInv, NEW e \in Endpoints, NEW q, Update(e, q)
    PROVE  ep'[e] = q /\ ep' = [ep EXCEPT ![e] = ep'[e]]
  BY DEF Update, HandshakeInv

-----------------------------------------------------------------------------
(* Every action of an endpoint is a Step.                                  *)

LEMMA EndpointFits ==
    ASSUME HandshakeInv, NEW e \in Endpoints
    PROVE  /\ Fits(ep[e]) /\ ep[e] \in Records
           /\ ep[e].state # "PENDINGERROR" => ep[e].running # "errorack"
           /\ UNCHANGED used => used' \in [Endpoints -> SUBSET SomeKeys]
  BY DEF HandshakeInv, Fits, TimersFit

LEMMA StreamStartStep ==
    ASSUME HandshakeInv, NEW e \in Endpoints, StreamStart(e)
    PROVE  HandlerStep(e)
<1> DEFINE p == ep[e]
           r == [p EXCEPT !.state = "START", !.starts = @ + 1]
           q == StartTimer(r, "hello")
<1>1. /\ p.state \in {"ACTIVE", "ERROR", "NO_ZRTP"} /\ p.starts < MaxStarts
      /\ Update(e, q) /\ Send({Plain(e, "HELLO")}) /\ UNCHANGED used
  BY DEF StreamStart, In
<1>2. Fits(p) /\ p \in Records /\ p.running # "errorack"
  BY <1>1, EndpointFits
<1>3. p.starts \in 0 .. MaxStarts /\ MaxStarts \in Nat /\ p.starts + 1 \in 0 .. MaxStarts
  BY <1>1, <1>2, HandshakeAssumption DEF Records
<1>4. /\ r \in Records /\ r.state = "START" /\ r.starts = p.starts + 1
      /\ r.timer = p.timer /\ r.zrtpsess = p.zrtpsess /\ r.key = p.key
      /\ r.running = p.running
  BY <1>1, <1>2, <1>3 DEF Records, States
<1>5. Quiet(p)
  BY <1>1, <1>2, FitsQuiet DEF TimedStates, Fits
<1>6. Quiet(r)
  BY <1>4, <1>5 DEF Quiet
<1>7. RoleFits(r) /\ SessionFits(r)
  BY <1>3, <1>4 DEF RoleFits, SessionFits, InitiatorStates, ResponderStates, KeyedStates
<1>8. "hello" \in Timers /\ r.state \in TimerStates("hello")
  BY <1>4, TimerOfState DEF Timers
<1> HIDE DEF r
<1>9. Fits(q) /\ q.state = "START" /\ q.key = p.key /\ Same(r, q)
  BY <1>2, <1>4, <1>6, <1>7, <1>8, Armed
<1> HIDE DEF p, q
<1>10. ep'[e] = q /\ ep' = [ep EXCEPT ![e] = ep'[e]]
  BY <1>1, UpdateStep
<1>11. Adds({}) /\ net' \subseteq SomeMessages /\ OwnKeys(e)
  BY <1>1, SendPlain
<1>12. Starts(e)
  BY <1>1, <1>4, <1>9, <1>10, <1>11 DEF Starts, Same, p
<1>13. QED
  BY <1>4, <1>1, <1>9, <1>10, <1>11, <1>12, EndpointFits DEF Step, HandlerStep, Same, p

(* _zrtp_machine_start_initiating_secure, once the timers are quiet. *)
LEMMA InitiateStep ==
    ASSUME HandshakeInv, NEW e \in Endpoints, NEW p \in Records, Quiet(p),
           p.zrtpsess = ep[e].zrtpsess, p.starts = ep[e].starts, p.key = ep[e].key,
           p.starts # 0, p.running # "errorack", p.running = ep[e].running,
           ep[e].state \in {"WAIT_HELLO", "WAIT_HELLOACK", "CLEAR", "PENDINGCLEAR", "NO_ZRTP"},
           NEW M, M \subseteq {Plain(e, "HELLOACK")},
           StartInitiatingSecure(e, p, M), UNCHANGED used
    PROVE  HandlerStep(e)
<1> DEFINE scheme == IF p.zrtpsess = NONE THEN "dh" ELSE "mult"
<1>1. PICK n \in IF scheme = "dh" THEN {0} ELSE FreshNonces :
        /\ Update(e, StartTimer([ProtocolInit(p, "initiator") EXCEPT
                   !.state = "INITIATINGSECURE", !.pubkeyscheme = scheme,
                   !.hv = n], "commit"))
        /\ Send(M \cup {Commit(e, scheme, n)})
  BY DEF StartInitiatingSecure
<1>2. n \in 0 .. MaxNonces
  BY HandshakeAssumption DEF FreshNonces
<1> DEFINE i == ProtocolInit(p, "initiator")
           r == [i EXCEPT !.state = "INITIATINGSECURE", !.pubkeyscheme = scheme, !.hv = n]
           q == StartTimer(r, "commit")
<1>3. i \in Records /\ i = [p EXCEPT !.timer = i.timer, !.protocol = "initiator"] /\ Quiet(i)
  BY ProtocolInitFields
<1> HIDE DEF i
<1>4. /\ r \in Records /\ r.state = "INITIATINGSECURE" /\ r.pubkeyscheme = scheme
      /\ r.hv = n /\ r.timer = i.timer /\ r.zrtpsess = p.zrtpsess /\ r.starts = p.starts
      /\ r.key = p.key /\ r.running = p.running /\ r.protocol = "initiator"
  <2>1. /\ i.zrtpsess = p.zrtpsess /\ i.starts = p.starts /\ i.key = p.key
        /\ i.running = p.running /\ i.protocol = "initiator"
    BY <1>3 DEF Records
  <2>2. scheme \in {"dh", "mult"} /\ "INITIATINGSECURE" \in States
    BY DEF States
  <2> HIDE DEF scheme
  <2>3. r \in Records
    BY <1>2, <1>3, <2>2 DEF Records
  <2>4. /\ r.state = "INITIATINGSECURE" /\ r.pubkeyscheme = scheme
        /\ r.hv = n /\ r.timer = i.timer /\ r.zrtpsess = i.zrtpsess /\ r.starts = i.starts
        /\ r.key = i.key /\ r.running = i.running /\ r.protocol = i.protocol
    BY <1>3 DEF Records
  <2>5. QED
    BY <2>1, <2>3, <2>4
<1>5. Quiet(r)
  BY <1>3, <1>4 DEF Quiet
<1>6. RoleFits(r) /\ SessionFits(r)
  BY <1>4 DEF RoleFits, SessionFits, InitiatorStates, ResponderStates, KeyedStates
<1>7. "commit" \in Timers /\ r.state \in TimerStates("commit")
  BY <1>4, TimerOfState DEF Timers
<1> HIDE DEF r
<1>8. Fits(q) /\ q.state = "INITIATINGSECURE" /\ q.key = p.key /\ Same(r, q)
  BY <1>4, <1>5, <1>6, <1>7, Armed
<1>9. Update(e, q)
  BY <1>1 DEF q, r, i
<1> HIDE DEF q
<1>10. ep'[e] = q /\ ep' = [ep EXCEPT ![e] = ep'[e]]
  BY <1>9, UpdateStep
<1>11. Adds({Commit(e, scheme, n)}) /\ net' \subseteq SomeMessages /\ OwnKeys(e)
  <2>1. \A m \in M : m \in SomeMessages /\ m.type \notin Tracked \cup {"GOCLEAR"}
    BY MessageTypes DEF Tracked
  <2>2. Commit(e, scheme, n) \in SomeMessages /\ Commit(e, scheme, n).type = "COMMIT"
    BY <1>2, MessageTypes
  <2>3. Send(M \cup {Commit(e, scheme, n)})
    BY <1>1
  <2> HIDE DEF scheme
  <2>4. QED
    BY <2>1, <2>2, <2>3 DEF Send, HandshakeInv, Adds, OwnKeys, Tracked
<1>12. q.pubkeyscheme = scheme /\ q.hv = n /\ q.zrtpsess = p.zrtpsess /\ q.starts = p.starts
  BY <1>4, <1>8 DEF Same
<1>13. Initiates(e)
  <2>1. KeepsSession(e) /\ ep'[e].key = ep[e].key /\ ep'[e].state = "INITIATINGSECURE"
    BY <1>8, <1>10, <1>12 DEF KeepsSession
  <2>2. ep'[e].pubkeyscheme = scheme /\ ep'[e].hv = n
    BY <1>10, <1>12
  <2>3. scheme = IF ep[e].zrtpsess = NONE THEN "dh" ELSE "mult"
    OBVIOUS
  <2>4. n \in IF ep[e].zrtpsess = NONE THEN {0} ELSE FreshNonces
    BY <1>1
  <2> HIDE DEF scheme
  <2>5. QED
    BY <1>11, <2>1, <2>2, <2>3, <2>4 DEF Initiates
<1>14. QED
  BY <1>4, <1>8, <1>10, <1>11, <1>13, EndpointFits DEF Step, HandlerStep, Same

LEMMA StreamSecureStep ==
    ASSUME HandshakeInv, NEW e \in Endpoints, StreamSecure(e)
    PROVE  HandlerStep(e)
<1>1. ep[e].state = "CLEAR" /\ StartInitiatingSecure(e, ep[e], {}) /\ UNCHANGED used
  BY DEF StreamSecure, In
<1>2. Fits(ep[e]) /\ ep[e] \in Records /\ ep[e].running # "errorack"
  BY <1>1, EndpointFits
<1>3. Quiet(ep[e]) /\ ep[e].starts # 0
  BY <1>1, <1>2, FitsQuiet DEF TimedStates, Fits, SessionFits
<1>4. QED
  BY <1>1, <1>2, <1>3, InitiateStep

(* The stream is cleared, or discovery ends without a key agreement. *)
LEMMA EnterClearStep ==
    ASSUME HandshakeInv, NEW e \in Endpoints, NEW p \in Records, SessionFits(p),
           p.running # "errorack", p.running = ep[e].running,
           p.zrtpsess = ep[e].zrtpsess, p.starts = ep[e].starts, p.state = ep[e].state,
           ep[e].state \in (IdleStates \ {"ACTIVE"}) \cup ClearingStates,
           NEW M, M \subseteq {Plain(e, "HELLOACK")}, Send(M),
           Update(e, EnterClear(p)), UNCHANGED used
    PROVE  HandlerStep(e)
<1> DEFINE q == EnterClear(p)
<1>1. Fits(q) /\ q.state = "CLEAR" /\ q.key = NONE /\ Same(p, q)
  BY ClearThenFits DEF EnterClear, IdleStates, ClearingStates
<1> HIDE DEF q
<1>2. ep'[e] = q /\ ep' = [ep EXCEPT ![e] = ep'[e]]
  BY UpdateStep DEF q
<1>3. Adds({}) /\ net' \subseteq SomeMessages /\ OwnKeys(e)
  BY SendPlain
<1>4. Discovers(e)
  BY <1>1, <1>2, <1>3 DEF Discovers, KeepsSession, Same, IdleStates
<1>5. QED
  BY <1>1, <1>2, <1>3, <1>4, EndpointFits DEF Step, HandlerStep, Same

(* HashSession after CancelAll, to a state of clearing. *)
LEMMA HashFields ==
    ASSUME NEW p, Fits(p), p.state = "SECURE", NEW s \in ClearingStates
    PROVE  LET q == HashSession([CancelAll(p) EXCEPT !.state = s])
           IN  /\ q \in Records /\ Quiet(q) /\ RoleFits(q) /\ SessionFits(q)
               /\ q.state = s /\ q.key = p.key /\ q.starts = p.starts
               /\ q.running = p.running
               /\ q.zrtpsess = [p.zrtpsess EXCEPT !.hashed = @ + 1]
<1> DEFINE r == [CancelAll(p) EXCEPT !.state = s]
           z == [p.zrtpsess EXCEPT !.hashed = @ + 1]
           q == HashSession(r)
<1>1. p \in Records /\ s \in States
  BY DEF Fits, States, ClearingStates
<1>2. /\ r \in Records /\ Quiet(r) /\ r.state = s /\ r.key = p.key
      /\ r.protocol = p.protocol /\ Same(p, r)
  BY <1>1, CancelAllThen
<1> HIDE DEF r
<1>3. p.zrtpsess \in SomeSessions /\ p.protocol # NONE /\ p.starts # 0
  BY DEF Fits, SessionFits, RoleFits, KeyedStates
<1>4. z \in SomeSessions
  BY <1>3 DEF SomeSessions
<1>5. q = [r EXCEPT !.zrtpsess = z]
  BY <1>2 DEF HashSession, Same
<1> HIDE DEF q, z
<1>6. /\ q \in Records /\ q.timer = r.timer /\ q.state = s /\ q.key = p.key
      /\ q.starts = p.starts /\ q.running = p.running /\ q.zrtpsess = z
      /\ q.protocol = p.protocol
  BY <1>2, <1>4, <1>5 DEF Records, Same
<1>7. Quiet(q)
  BY <1>2, <1>6 DEF Quiet
<1>8. RoleFits(q) /\ SessionFits(q)
  BY <1>3, <1>6 DEF RoleFits, SessionFits, InitiatorStates, ResponderStates, KeyedStates,
                    ClearingStates
<1>9. QED
  BY <1>6, <1>7, <1>8 DEF q, r, z

LEMMA StreamClearStep ==
    ASSUME HandshakeInv, NEW e \in Endpoints, StreamClear(e)
    PROVE  HandlerStep(e)
<1> USE EndpointFits
<1>1. CASE /\ ep[e].state = "SECURE"
           /\ Update(e, StartTimer(HashSession(
                 [CancelAll(ep[e]) EXCEPT !.state = "INITIATINGCLEAR"]), "goclear"))
           /\ Send({Keyed(e, "GOCLEAR", ep[e].key)})
           /\ UNCHANGED used
  <2> DEFINE p == ep[e]
             r == HashSession([CancelAll(p) EXCEPT !.state = "INITIATINGCLEAR"])
             q == StartTimer(r, "goclear")
  <2>1. Fits(p) /\ p.running # "errorack" /\ "INITIATINGCLEAR" \in ClearingStates
    BY <1>1 DEF ClearingStates
  <2>2. /\ r \in Records /\ Quiet(r) /\ RoleFits(r) /\ SessionFits(r)
        /\ r.state = "INITIATINGCLEAR" /\ r.key = p.key /\ r.starts = p.starts
        /\ r.running = p.running
        /\ r.zrtpsess = [p.zrtpsess EXCEPT !.hashed = @ + 1]
    BY <1>1, <2>1, HashFields
  <2> HIDE DEF r
  <2>3. "goclear" \in Timers /\ r.state \in TimerStates("goclear")
    BY <2>2, TimerOfState DEF Timers
  <2>4. Fits(q) /\ q.state = "INITIATINGCLEAR" /\ q.key = p.key /\ Same(r, q)
    BY <2>1, <2>2, <2>3, Armed
  <2> HIDE DEF q
  <2>5. ep'[e] = q /\ ep' = [ep EXCEPT ![e] = ep'[e]]
    BY <1>1, UpdateStep DEF q, r
  <2>6. p.key \in SomeKeys
    BY <1>1, <2>1 DEF Fits, SessionFits, KeyedStates
  <2>7. Adds({}) /\ net' \subseteq SomeMessages /\ OwnKeys(e)
    BY <1>1, <2>6, SendKeyed
  <2>8. Clears(e)
    BY <1>1, <2>2, <2>4, <2>5, <2>7 DEF Clears, ClearingStates, Same
  <2>9. QED
    BY <2>2, <1>1, <2>4, <2>5, <2>7, <2>8 DEF Step, HandlerStep, Same
<1>2. CASE /\ ep[e].state = "PENDINGCLEAR"
           /\ Update(e, EnterClear(ep[e])) /\ UNCHANGED <<net, used>>
  <2>1. Send({})
    BY <1>2 DEF Send
  <2>2. QED
    BY <1>2, <2>1, EnterClearStep DEF ClearingStates, Fits
<1>3. QED
  BY <1>1, <1>2 DEF StreamClear, In

-----------------------------------------------------------------------------
(* Message handlers: discovery and Commit.                                 *)

(* A handler that only answers. *)
LEMMA StayStep ==
    ASSUME HandshakeInv, NEW e \in Endpoints, UNCHANGED <<ep, used>>,
           net' \subseteq SomeMessages, OwnKeys(e),
           \/ Adds({})
           \/ ep[e].state = "PENDINGSECURE" /\ Adds({Plain(e, "DHPART1")})
           \/ ep[e].state = "WAIT_CONFIRM2" /\ Adds({Keyed(e, "CONFIRM1", ep[e].key)})
    PROVE  HandlerStep(e)
<1>1. ep' = [ep EXCEPT ![e] = ep'[e]]
  BY DEF HandshakeInv
<1>2. Stays(e)
  BY DEF Stays, KeepsSession
<1>3. QED
  BY <1>1, <1>2, EndpointFits DEF Step, HandlerStep, Same

LEMMA HelloFields ==
    ASSUME NEW p, Fits(p),
           p.state \in {"START", "WAIT_HELLO", "NO_ZRTP"}
    PROVE  LET q == HelloReceived(p)
           IN  /\ q \in Records /\ q.timer = p.timer /\ q.state = p.state
               /\ q.key = p.key /\ q.zrtpsess = p.zrtpsess /\ q.starts = p.starts
               /\ q.running = p.running /\ q.protocol = p.protocol
               /\ SessionFits(q)
               /\ \A s \in {"START", "WAIT_HELLOACK"} :
                     LET r == [q EXCEPT !.state = s]
                     IN  /\ r \in Records /\ r.timer = p.timer /\ r.state = s
                         /\ r.key = p.key /\ r.zrtpsess = p.zrtpsess
                         /\ r.starts = p.starts /\ r.running = p.running
                         /\ RoleFits(r) /\ SessionFits(r)
<1> DEFINE q == HelloReceived(p)
<1>1. p \in Records /\ p.starts # 0
  BY DEF Fits, SessionFits
<1>2. /\ q \in Records /\ q.timer = p.timer /\ q.state = p.state
      /\ q.key = p.key /\ q.zrtpsess = p.zrtpsess /\ q.starts = p.starts
      /\ q.running = p.running /\ q.protocol = p.protocol
  BY <1>1 DEF HelloReceived, Records
<1> HIDE DEF q
<1>3. SessionFits(q)
  BY <1>1, <1>2 DEF SessionFits, KeyedStates
<1>4. ASSUME NEW s \in {"START", "WAIT_HELLOACK"}
      PROVE  LET r == [q EXCEPT !.state = s]
             IN  /\ r \in Records /\ r.timer = p.timer /\ r.state = s
                 /\ r.key = p.key /\ r.zrtpsess = p.zrtpsess
                 /\ r.starts = p.starts /\ r.running = p.running
                 /\ RoleFits(r) /\ SessionFits(r)
  <2> DEFINE r == [q EXCEPT !.state = s]
  <2>1. /\ r \in Records /\ r.timer = p.timer /\ r.state = s
        /\ r.key = p.key /\ r.zrtpsess = p.zrtpsess
        /\ r.starts = p.starts /\ r.running = p.running
    BY <1>2 DEF Records, States
  <2> HIDE DEF r
  <2>2. RoleFits(r) /\ SessionFits(r)
    BY <1>1, <2>1 DEF RoleFits, SessionFits, InitiatorStates, ResponderStates, KeyedStates
  <2>3. QED
    BY <2>1, <2>2 DEF r
<1>5. QED
  BY <1>2, <1>3, <1>4 DEF q

LEMMA EndDiscoveryStep ==
    ASSUME HandshakeInv, NEW e \in Endpoints, NEW p \in Records, Quiet(p), SessionFits(p),
           p.zrtpsess = ep[e].zrtpsess, p.starts = ep[e].starts, p.key = ep[e].key,
           p.state = ep[e].state, p.running # "errorack", p.running = ep[e].running,
           ep[e].state \in {"WAIT_HELLO", "WAIT_HELLOACK"},
           NEW M, M \subseteq {Plain(e, "HELLOACK")},
           EndDiscovery(e, p, M), UNCHANGED used
    PROVE  HandlerStep(e)
<1>1. p.starts # 0
  BY DEF SessionFits
<1>2. CASE StartInitiatingSecure(e, p, IF e \in Optimized THEN {} ELSE M)
  BY <1>1, <1>2, InitiateStep
<1>3. CASE Update(e, EnterClear(p)) /\ Send(M)
  BY <1>3, EnterClearStep DEF IdleStates
<1>4. QED
  BY <1>2, <1>3 DEF EndDiscovery

LEMMA ReceiveHelloStep ==
    ASSUME HandshakeInv, NEW e \in Endpoints, ReceiveHello(e)
    PROVE  HandlerStep(e)
<1> DEFINE p == ep[e]
<1>1. Fits(p) /\ p \in Records /\ (p.state # "PENDINGERROR" => p.running # "errorack")
  BY EndpointFits
<1>2. UNCHANGED used
  BY DEF ReceiveHello
<1>3. CASE /\ p.state = "START"
           /\ Update(e, [HelloReceived(p) EXCEPT !.state = "WAIT_HELLOACK"])
           /\ Send({Plain(e, "HELLOACK")})
  <2> DEFINE q == [HelloReceived(p) EXCEPT !.state = "WAIT_HELLOACK"]
  <2>1. /\ q \in Records /\ q.timer = p.timer /\ q.state = "WAIT_HELLOACK"
        /\ q.key = p.key /\ q.zrtpsess = p.zrtpsess
        /\ q.starts = p.starts /\ q.running = p.running
        /\ RoleFits(q) /\ SessionFits(q)
    BY <1>1, <1>3, HelloFields
  <2> HIDE DEF q
  <2>2. \A t \in Timers : q.state \in TimerStates(t) <=> p.state \in TimerStates(t)
    BY <1>3, <2>1, TimerOfState DEF TimerStates, Timers
  <2>3. TimersFit(q)
    BY <1>1, <1>3, <2>1, <2>2 DEF Fits, TimersFit
  <2>4. Fits(q)
    BY <2>1, <2>3 DEF Fits
  <2>5. ep'[e] = q /\ ep' = [ep EXCEPT ![e] = ep'[e]]
    BY <1>3, UpdateStep DEF q
  <2>6. Adds({}) /\ net' \subseteq SomeMessages /\ OwnKeys(e)
    BY <1>3, SendPlain
  <2>7. Discovers(e)
    BY <1>2, <1>3, <2>1, <2>5, <2>6 DEF Discovers, KeepsSession, IdleStates
  <2>8. QED
    BY <2>1, <1>2, <2>4, <2>5, <2>6, <2>7, EndpointFits DEF Step, HandlerStep, Same
<1>4. CASE /\ p.state = "WAIT_HELLO"
           /\ EndDiscovery(e, HelloReceived(p), {Plain(e, "HELLOACK")})
  <2> DEFINE r == HelloReceived(p)
  <2>1. /\ r \in Records /\ r.timer = p.timer /\ r.state = p.state
        /\ r.key = p.key /\ r.zrtpsess = p.zrtpsess /\ r.starts = p.starts
        /\ r.running = p.running /\ SessionFits(r)
    BY <1>1, <1>4, HelloFields
  <2>2. Quiet(p)
    BY <1>1, <1>4, FitsQuiet DEF Fits, TimedStates
  <2> HIDE DEF r
  <2>3. Quiet(r)
    BY <2>1, <2>2 DEF Quiet
  <2>4. EndDiscovery(e, r, {Plain(e, "HELLOACK")})
    BY <1>4 DEF r
  <2>5. QED
    BY <1>1, <1>2, <1>4, <2>1, <2>3, <2>4, EndDiscoveryStep
<1>5. CASE UNCHANGED ep /\ Send({Plain(e, "HELLOACK")})
  BY <1>2, <1>5, SendPlain, StayStep
<1>6. CASE /\ p.state = "NO_ZRTP"
           /\ Update(e, StartTimer([HelloReceived(p) EXCEPT !.state = "START"], "hello"))
           /\ Send({Plain(e, "HELLO")})
  <2> DEFINE r == [HelloReceived(p) EXCEPT !.state = "START"]
             q == StartTimer(r, "hello")
  <2>1. /\ r \in Records /\ r.timer = p.timer /\ r.state = "START"
        /\ r.key = p.key /\ r.zrtpsess = p.zrtpsess
        /\ r.starts = p.starts /\ r.running = p.running
        /\ RoleFits(r) /\ SessionFits(r)
    BY <1>1, <1>6, HelloFields
  <2>2. Quiet(p)
    BY <1>1, <1>6, FitsQuiet DEF Fits, TimedStates
  <2> HIDE DEF r
  <2>3. Quiet(r) /\ "hello" \in Timers /\ r.state \in TimerStates("hello")
    BY <2>1, <2>2, TimerOfState DEF Quiet, Timers
  <2>4. Fits(q) /\ q.state = "START" /\ q.key = p.key /\ Same(r, q)
    BY <1>1, <1>6, <2>1, <2>3, Armed
  <2> HIDE DEF q
  <2>5. ep'[e] = q /\ ep' = [ep EXCEPT ![e] = ep'[e]]
    BY <1>6, UpdateStep DEF q, r
  <2>6. Adds({}) /\ net' \subseteq SomeMessages /\ OwnKeys(e)
    BY <1>6, SendPlain
  <2>7. Discovers(e)
    BY <1>2, <1>6, <2>1, <2>4, <2>5, <2>6 DEF Discovers, KeepsSession, IdleStates, Same
  <2>8. QED
    BY <2>1, <1>2, <2>4, <2>5, <2>6, <2>7, EndpointFits DEF Step, HandlerStep, Same
<1>7. QED
  BY <1>3, <1>4, <1>5, <1>6 DEF ReceiveHello, In

LEMMA ReceiveHelloAckStep ==
    ASSUME HandshakeInv, NEW e \in Endpoints, ReceiveHelloAck(e)
    PROVE  HandlerStep(e)
<1> DEFINE p == ep[e]
           r == Cancel(p, "hello")
<1>1. /\ Fits(p) /\ p \in Records /\ (p.state # "PENDINGERROR" => p.running # "errorack")
      /\ UNCHANGED used
  BY EndpointFits DEF ReceiveHelloAck
<1>2. p.state \in {"START", "WAIT_HELLOACK"}
  BY DEF ReceiveHelloAck, In
<1>3. "hello" \in Timers /\ p.state \in TimerStates("hello")
  BY <1>2, TimerOfState DEF Timers
<1>4. r \in Records /\ r = [p EXCEPT !.timer = r.timer]
  BY <1>1, <1>3, CancelFields
<1>5. Quiet(r)
  BY <1>1, <1>3, CancelQuiet DEF Fits
<1> HIDE DEF r
<1>6. r.state = p.state /\ r.key = p.key /\ Same(p, r)
  BY <1>1, <1>4 DEF Records, Same
<1>7. SessionFits(r)
  BY <1>1, <1>2, <1>6 DEF Fits, SessionFits, Same, KeyedStates
<1>8. CASE /\ Update(e, [Cancel(p, "hello") EXCEPT !.state = "WAIT_HELLO"])
           /\ UNCHANGED net
  <2> DEFINE q == [r EXCEPT !.state = "WAIT_HELLO"]
  <2>1. /\ q \in Records /\ q.state = "WAIT_HELLO" /\ q.timer = r.timer
        /\ q.key = p.key /\ Same(p, q)
    BY <1>4, <1>6 DEF Records, States, Same
  <2> HIDE DEF q
  <2>2. Quiet(q) /\ RoleFits(q) /\ SessionFits(q)
    BY <1>2, <1>5, <1>7, <1>6, <2>1 DEF Quiet, RoleFits, SessionFits, InitiatorStates,
          ResponderStates, KeyedStates, Same
  <2>3. Fits(q)
    BY <1>1, <1>2, <2>1, <2>2, Settled DEF TimedStates, Same
  <2>4. ep'[e] = q /\ ep' = [ep EXCEPT ![e] = ep'[e]]
    BY <1>8, UpdateStep DEF q, r
  <2>5. Adds({}) /\ net' \subseteq SomeMessages /\ OwnKeys(e)
    BY <1>8, SendNothing
  <2>6. Discovers(e)
    BY <1>1, <1>2, <2>1, <2>4, <2>5 DEF Discovers, KeepsSession, IdleStates, Same
  <2>7. QED
    BY <2>1, <1>1, <2>3, <2>4, <2>5, <2>6, EndpointFits DEF Step, HandlerStep, Same
<1>9. CASE p.state = "WAIT_HELLOACK" /\ EndDiscovery(e, Cancel(p, "hello"), {})
  <2>1. EndDiscovery(e, r, {})
    BY <1>9 DEF r
  <2>2. QED
    BY <1>1, <1>4, <1>5, <1>6, <1>7, <1>9, <2>1, EndDiscoveryStep DEF Same
<1>10. QED
  BY <1>8, <1>9 DEF ReceiveHelloAck, In

LEMMA MessageFields ==
    ASSUME NEW m \in SomeMessages
    PROVE  /\ m.type = "COMMIT" => m.scheme \in {"dh", "mult"} /\ m.nonce \in 0 .. MaxNonces
           /\ m.type \in {"CONFIRM1", "CONFIRM2", "GOCLEAR"} => m.key \in SomeKeys
           /\ m.to \in Endpoints
  BY DEF SomeMessages

LEMMA ReceivedFields ==
    ASSUME HandshakeInv, NEW e \in Endpoints, NEW type, NEW m \in Received(e, type)
    PROVE  m \in net /\ m \in SomeMessages /\ m.to = e /\ m.type = type
  BY DEF HandshakeInv, Received

(* The states in which a Commit is answered. *)
AnsweringStates == {"WAIT_HELLOACK", "CLEAR", "PENDINGCLEAR", "NO_ZRTP", "INITIATINGSECURE"}

LEMMA CommitTimerFields ==
    ASSUME NEW p, Fits(p), p.state \in AnsweringStates
    PROVE  LET q == CommitTimer(p)
           IN  /\ q \in Records /\ Quiet(q) /\ q.state = p.state /\ q.key = p.key
               /\ Same(p, q) /\ q.protocol = p.protocol
<1> DEFINE q == CommitTimer(p)
<1>1. p \in Records /\ TimersFit(p)
  BY DEF Fits
<1>2. ASSUME NEW t \in Timers, p.state \in TimerStates(t), q = Cancel(p, t)
      PROVE  /\ q \in Records /\ Quiet(q) /\ q.state = p.state /\ q.key = p.key
             /\ Same(p, q) /\ q.protocol = p.protocol
  <2>1. Quiet(q)
    BY <1>1, <1>2, CancelQuiet
  <2>2. q \in Records /\ q = [p EXCEPT !.timer = q.timer]
    BY <1>1, <1>2, CancelFields
  <2> HIDE DEF q
  <2>3. QED
    BY <1>1, <2>1, <2>2 DEF Records, Same
<1>3. CASE p.state = "WAIT_HELLOACK"
  <2>1. q = Cancel(p, "hello") /\ "hello" \in Timers /\ p.state \in TimerStates("hello")
    BY <1>3, TimerOfState DEF CommitTimer, Timers
  <2>2. QED
    BY <1>2, <2>1
<1>4. CASE p.state = "INITIATINGSECURE"
  <2>1. q = Cancel(p, "commit") /\ "commit" \in Timers /\ p.state \in TimerStates("commit")
    BY <1>4, TimerOfState DEF CommitTimer, Timers
  <2>2. QED
    BY <1>2, <2>1
<1>5. CASE p.state \in {"CLEAR", "PENDINGCLEAR", "NO_ZRTP"}
  <2>1. q = p
    BY <1>5 DEF CommitTimer
  <2>2. QED
    BY <1>1, <1>5, <2>1, FitsQuiet DEF TimedStates, Same
<1>6. QED
  BY <1>3, <1>4, <1>5 DEF AnsweringStates

(* _zrtp_machine_enter_pendingsecure *)
LEMMA RespondStep ==
    ASSUME HandshakeInv, NEW e \in Endpoints, NEW c \in Received(e, "COMMIT"),
           ep[e].state \in AnsweringStates, RoleFor(e, ep[e], c) = "responder",
           EnterPendingSecure(e, CommitTimer(ep[e]), c), UNCHANGED used
    PROVE  HandlerStep(e)
<1> DEFINE p == CommitTimer(ep[e])
           i == ProtocolInit(p, "responder")
           r == [i EXCEPT !.pubkeyscheme = c.scheme]
           k == MultKey(Peer(e), c.nonce, r)
<1>1. c.scheme \in {"dh", "mult"} /\ c.nonce \in 0 .. MaxNonces
  BY ReceivedFields, MessageFields
<1>2. /\ ep[e].state = "INITIATINGSECURE" => ~Outbids(e, ep[e], c)
      /\ c.scheme = "mult" => ep[e].zrtpsess # NONE
      /\ c.scheme = "dh" => ep[e].zrtpsess = NONE
  BY HandshakeAssumption DEF RoleFor
<1>3. /\ Fits(ep[e]) /\ ep[e] \in Records /\ ep[e].running # "errorack"
      /\ ep[e].starts # 0
  BY EndpointFits DEF AnsweringStates, Fits, SessionFits
<1>4. /\ p \in Records /\ Quiet(p) /\ p.key = ep[e].key /\ Same(ep[e], p)
  BY <1>3, CommitTimerFields
<1> HIDE DEF p
<1>5. i \in Records /\ i = [p EXCEPT !.timer = i.timer, !.protocol = "responder"] /\ Quiet(i)
  BY <1>4, ProtocolInitFields
<1> HIDE DEF i
<1>6. /\ r \in Records /\ r.timer = i.timer /\ r.pubkeyscheme = c.scheme
      /\ r.protocol = "responder" /\ r.key = ep[e].key /\ r.zrtpsess = ep[e].zrtpsess
      /\ r.starts = ep[e].starts /\ r.running = ep[e].running
  BY <1>1, <1>4, <1>5 DEF Records, Same
<1>7. Quiet(r)
  BY <1>5, <1>6 DEF Quiet
<1>8. /\ k = MultKey(Peer(e), c.nonce, ep[e])
      /\ Peer(e) \in Endpoints
  BY <1>6, PeerIsTheOther DEF MultKey
<1>9. CASE /\ c.scheme = "dh"
           /\ Update(e, [r EXCEPT !.state = "PENDINGSECURE"])
           /\ Send({Plain(e, "DHPART1")})
  <2> HIDE DEF r, k
  <2> DEFINE q == [r EXCEPT !.state = "PENDINGSECURE"]
  <2>1. /\ q \in Records /\ q.timer = r.timer /\ q.pubkeyscheme = "dh"
        /\ q.protocol = "responder" /\ q.key = ep[e].key /\ q.zrtpsess = NONE
        /\ ep[e].zrtpsess = NONE /\ q.state = "PENDINGSECURE"
        /\ q.starts = ep[e].starts /\ q.running = ep[e].running
    BY <1>2, <1>6, <1>9 DEF Records, States
  <2> HIDE DEF q
  <2>2. Quiet(q) /\ RoleFits(q) /\ SessionFits(q)
    BY <1>3, <1>7, <2>1 DEF Quiet, RoleFits, SessionFits, InitiatorStates,
          ResponderStates, KeyedStates
  <2>3. Fits(q)
    BY <1>3, <2>1, <2>2, Settled DEF TimedStates
  <2>4. ep'[e] = q /\ ep' = [ep EXCEPT ![e] = ep'[e]]
    BY <1>9, UpdateStep DEF q
  <2>5. Adds({Plain(e, "DHPART1")}) /\ net' \subseteq SomeMessages /\ OwnKeys(e)
    <3>1. Plain(e, "DHPART1") \in SomeMessages /\ Plain(e, "DHPART1").type = "DHPART1"
      BY MessageTypes
    <3>2. QED
      BY <1>9, <3>1 DEF Send, HandshakeInv, Adds, OwnKeys, Tracked
  <2>6. Responds(e)
    BY <1>2, <1>9, <2>1, <2>4, <2>5 DEF Responds, KeepsSession, AnsweringStates
  <2>7. QED
    BY <2>1, <2>3, <2>4, <2>5, <2>6, EndpointFits DEF Step, HandlerStep, Same
<1>10. CASE /\ c.scheme = "mult"
            /\ Update(e, [Derive(r, k) EXCEPT !.state = "WAIT_CONFIRM2"])
            /\ Send({Keyed(e, "CONFIRM1", k)})
  <2>1. /\ k \in SomeKeys /\ k.sess = ep[e].zrtpsess /\ ep[e].zrtpsess # NONE
        /\ Level(k) = ep[e].zrtpsess.hashed
    BY <1>1, <1>2, <1>3, <1>8, <1>10, KeyTypes
  <2> HIDE DEF r, k
  <2> DEFINE d == Derive(r, k)
             q == [d EXCEPT !.state = "WAIT_CONFIRM2"]
  <2>2. d \in Records /\ d.zrtpsess = ep[e].zrtpsess /\ d.zrtpsess \in SomeSessions
        /\ d = [r EXCEPT !.key = k, !.zrtpsess = d.zrtpsess]
    <3>1. r \in Records /\ k \in SomeKeys /\ k.sess \in {NONE, r.zrtpsess}
      BY <1>6, <2>1
    <3>2. /\ d \in Records /\ d.zrtpsess \in SomeSessions
          /\ r.zrtpsess # NONE => d.zrtpsess = r.zrtpsess
          /\ d = [r EXCEPT !.key = k, !.zrtpsess = d.zrtpsess]
      BY ONLY <3>1, DeriveFields
    <3>3. QED
      BY <1>6, <2>1, <3>2
  <2> HIDE DEF d
  <2>3. /\ q \in Records /\ q.timer = r.timer /\ q.state = "WAIT_CONFIRM2"
        /\ q.protocol = "responder" /\ q.key = k /\ q.zrtpsess = ep[e].zrtpsess
        /\ q.starts = ep[e].starts /\ q.running = ep[e].running
    <3>1. /\ d.timer = r.timer /\ d.protocol = r.protocol /\ d.key = k
          /\ d.starts = r.starts /\ d.running = r.running
      BY <1>6, <2>2 DEF Records
    <3>2. "WAIT_CONFIRM2" \in States
      BY DEF States
    <3>3. /\ q \in Records /\ q.timer = d.timer /\ q.state = "WAIT_CONFIRM2"
          /\ q.protocol = d.protocol /\ q.key = d.key /\ Same(d, q)
      BY <2>2, <3>2, StateFields
    <3>4. QED
      BY <1>6, <2>2, <3>1, <3>3 DEF Same
  <2> HIDE DEF q
  <2>4. Quiet(q) /\ RoleFits(q)
    BY <1>7, <2>3 DEF Quiet, RoleFits, InitiatorStates, ResponderStates
  <2>5. SessionFits(q)
    BY <1>3, <2>1, <2>2, <2>3 DEF SessionFits, KeyedStates
  <2>6. Fits(q)
    BY <1>3, <2>3, <2>4, <2>5, Settled DEF TimedStates
  <2>7. ep'[e] = q /\ ep' = [ep EXCEPT ![e] = ep'[e]]
    BY <1>10, UpdateStep DEF q, d
  <2>8. Adds({Keyed(e, "CONFIRM1", k)}) /\ net' \subseteq SomeMessages /\ OwnKeys(e)
    BY <1>10, <2>1, <2>3, <2>7, SendKeyed
  <2>9. KeepsSession(e) /\ ep'[e].state = "WAIT_CONFIRM2" /\ ep'[e].key = k
    BY <2>3, <2>7 DEF KeepsSession
  <2>10. Responds(e)
    BY <1>2, <1>8, <1>10, <2>8, <2>9 DEF Responds, AnsweringStates, k
  <2>11. QED
    BY <2>3, <2>6, <2>7, <2>8, <2>10, EndpointFits DEF Step, HandlerStep, Same
<1>11. EnterPendingSecure(e, p, c)
  BY DEF p
<1>12. QED
  BY <1>1, <1>9, <1>10, <1>11 DEF EnterPendingSecure, i

LEMMA ReceiveCommitStep ==
    ASSUME HandshakeInv, NEW e \in Endpoints, ReceiveCommit(e)
    PROVE  HandlerStep(e)
<1> USE EndpointFits
<1>1. PICK c \in Received(e, "COMMIT") :
        \/ /\ ep[e].state \in AnsweringStates
           /\ RoleFor(e, ep[e], c) = "responder"
           /\ EnterPendingSecure(e, CommitTimer(ep[e]), c)
        \/ /\ ep[e].state \in AnsweringStates \ {"INITIATINGSECURE"}
           /\ StartInitiatingSecure(e, CommitTimer(ep[e]), {})
        \/ /\ ep[e].state = "PENDINGSECURE"
           /\ Send({Plain(e, "DHPART1")}) /\ UNCHANGED ep
        \/ /\ ep[e].state = "WAIT_CONFIRM2"
           /\ Send({Keyed(e, "CONFIRM1", ep[e].key)}) /\ UNCHANGED ep
        \/ /\ ep[e].state = "INITIATINGCLEAR"
           /\ Update(e, EnterClear(ep[e])) /\ UNCHANGED net
  BY DEF ReceiveCommit, In, AnsweringStates
<1>2. UNCHANGED used
  BY DEF ReceiveCommit
<1>3. CASE /\ ep[e].state \in AnsweringStates /\ RoleFor(e, ep[e], c) = "responder"
           /\ EnterPendingSecure(e, CommitTimer(ep[e]), c)
  BY <1>2, <1>3, RespondStep
<1>4. CASE /\ ep[e].state \in AnsweringStates \ {"INITIATINGSECURE"}
           /\ StartInitiatingSecure(e, CommitTimer(ep[e]), {})
  <2> DEFINE p == CommitTimer(ep[e])
  <2>1. p \in Records /\ Quiet(p) /\ p.key = ep[e].key /\ Same(ep[e], p)
    BY <1>4, CommitTimerFields
  <2>2. ep[e].starts # 0 /\ ep[e].running # "errorack"
    BY <1>4 DEF Fits, SessionFits, AnsweringStates
  <2>3. StartInitiatingSecure(e, p, {})
    BY <1>4
  <2> HIDE DEF p
  <2>4. QED
    BY <1>2, <1>4, <2>1, <2>2, <2>3, InitiateStep DEF Same, AnsweringStates
<1>5. CASE ep[e].state = "PENDINGSECURE" /\ Send({Plain(e, "DHPART1")}) /\ UNCHANGED ep
  <2>1. Plain(e, "DHPART1") \in SomeMessages /\ Plain(e, "DHPART1").type = "DHPART1"
    BY MessageTypes
  <2>2. Adds({Plain(e, "DHPART1")}) /\ net' \subseteq SomeMessages /\ OwnKeys(e)
    BY <1>5, <2>1 DEF Send, HandshakeInv, Adds, OwnKeys, Tracked
  <2>3. QED
    BY <1>2, <1>5, <2>2, StayStep
<1>6. CASE /\ ep[e].state = "WAIT_CONFIRM2"
           /\ Send({Keyed(e, "CONFIRM1", ep[e].key)}) /\ UNCHANGED ep
  <2>1. ep[e].key \in SomeKeys
    BY <1>6 DEF Fits, SessionFits, KeyedStates
  <2>2. /\ Adds({Keyed(e, "CONFIRM1", ep[e].key)})
        /\ net' \subseteq SomeMessages /\ OwnKeys(e)
    BY <1>6, <2>1, SendKeyed
  <2>3. QED
    BY <1>2, <1>6, <2>2, StayStep
<1>7. CASE /\ ep[e].state = "INITIATINGCLEAR"
           /\ Update(e, EnterClear(ep[e])) /\ UNCHANGED net
  <2>1. Send({})
    BY <1>7 DEF Send
  <2>2. QED
    BY <1>2, <1>7, <2>1, EnterClearStep DEF ClearingStates, Fits
<1>8. QED
  BY <1>1, <1>3, <1>4, <1>5, <1>6, <1>7

-----------------------------------------------------------------------------
(* Message handlers: the key agreement.                                    *)

LEMMA InitiatingErrorStep ==
    ASSUME HandshakeInv, NEW e \in Endpoints, NEW p, Fits(p), p.state # "ACTIVE",
           p.state = ep[e].state, p.zrtpsess = ep[e].zrtpsess, p.starts = ep[e].starts,
           p.running = ep[e].running,
           p.key = ep[e].key \/ (p.key \in SomeKeys /\ p.key.sess = ep[e].zrtpsess),
           InitiatingError(e, p), UNCHANGED used
    PROVE  HandlerStep(e)
<1>1. CASE p.state \in ErrorStates
  <2>1. Update(e, p) /\ UNCHANGED net
    BY <1>1 DEF InitiatingError
  <2>2. ep'[e] = p /\ ep' = [ep EXCEPT ![e] = ep'[e]]
    BY <2>1, UpdateStep
  <2>3. Adds({}) /\ net' \subseteq SomeMessages /\ OwnKeys(e)
    BY <2>1, SendNothing
  <2>4. Fails(e)
    BY <1>1, <2>2, <2>3 DEF Fails, KeepsSession
  <2>5. QED
    BY <2>2, <2>3, <2>4, EndpointFits DEF Step, HandlerStep, Same
<1>2. CASE p.state \notin ErrorStates
  <2> DEFINE q == StartTimer([CancelAll(p) EXCEPT !.state = "INITIATINGERROR"], "error")
  <2>1. Update(e, q) /\ Send({Plain(e, "ERROR")})
    BY <1>2 DEF InitiatingError
  <2>2. Fits(q) /\ q.state = "INITIATINGERROR" /\ q.key = p.key /\ Same(p, q)
    <3>1. "INITIATINGERROR" \in States /\ "error" \in Timers /\ p.state # "PENDINGERROR"
      BY <1>2 DEF ErrorStates, States, Timers
    <3>2. QED
      BY <3>1, ErrorThenFits
  <2> HIDE DEF q
  <2>3. ep'[e] = q /\ ep' = [ep EXCEPT ![e] = ep'[e]]
    BY <2>1, UpdateStep
  <2>4. Adds({}) /\ net' \subseteq SomeMessages /\ OwnKeys(e)
    BY <2>1, SendPlain
  <2>5. Fails(e)
    BY <2>2, <2>3, <2>4 DEF Fails, KeepsSession, Same, ErrorStates
  <2>6. QED
    BY <2>2, <2>3, <2>4, <2>5, EndpointFits DEF Step, HandlerStep, Same
<1>3. QED
  BY <1>1, <1>2

LEMMA ReceiveMisfitDHPartStep ==
    ASSUME HandshakeInv, NEW e \in Endpoints, ReceiveMisfitDHPart(e)
    PROVE  HandlerStep(e)
<1>1. Fits(ep[e]) /\ ep[e].pubkeyscheme = "mult"
  BY EndpointFits DEF ReceiveMisfitDHPart
<1>2. ep[e].state # "ACTIVE"
  BY <1>1, HandshakeAssumption DEF Fits, SessionFits
<1>3. QED
  BY <1>1, <1>2, InitiatingErrorStep DEF ReceiveMisfitDHPart

LEMMA ReceiveDHPart1Step ==
    ASSUME HandshakeInv, NEW e \in Endpoints, ReceiveDHPart1(e)
    PROVE  HandlerStep(e)
<1> DEFINE p == ep[e]
           c == Cancel(p, "commit")
           d == Derive(c, DhKey(e))
           r == [d EXCEPT !.state = "WAIT_CONFIRM1"]
           q == StartTimer(r, "dhpart")
<1>1. /\ Arrives(e, "DHPART1") /\ p.state = "INITIATINGSECURE" /\ p.pubkeyscheme = "dh"
      /\ Update(e, q) /\ Send({Plain(e, "DHPART2")}) /\ UNCHANGED used
  BY DEF ReceiveDHPart1, In
<1>2. Fits(p) /\ p \in Records /\ p.running # "errorack"
  BY <1>1, EndpointFits
<1>3. /\ p.zrtpsess = NONE /\ p.starts # 0 /\ p.protocol = "initiator"
  BY <1>1, <1>2 DEF Fits, SessionFits, RoleFits, InitiatorStates
<1>4. "commit" \in Timers /\ p.state \in TimerStates("commit")
  BY <1>1, TimerOfState DEF Timers
<1>5. Quiet(c) /\ c \in Records /\ c = [p EXCEPT !.timer = c.timer]
  BY <1>2, <1>4, CancelQuiet, CancelFields DEF Fits
<1> HIDE DEF c
<1>6. DhKey(e) \in SomeKeys /\ DhKey(e).sess = NONE /\ Level(DhKey(e)) = 0
  BY KeyTypes
<1>7. c.zrtpsess = NONE
  BY <1>2, <1>3, <1>5 DEF Records
<1>8. /\ d \in Records /\ d.zrtpsess \in SomeSessions /\ d.zrtpsess.hashed = 0
      /\ d = [c EXCEPT !.key = DhKey(e), !.zrtpsess = d.zrtpsess]
  BY <1>5, <1>6, <1>7, DeriveFields
<1> HIDE DEF d
<1>9. /\ r \in Records /\ r.state = "WAIT_CONFIRM1" /\ r.timer = c.timer
      /\ r.key = DhKey(e) /\ r.zrtpsess = d.zrtpsess /\ r.protocol = "initiator"
      /\ r.starts = p.starts /\ r.running = p.running
  <2>1. c.protocol = "initiator" /\ c.starts = p.starts /\ c.running = p.running
    BY <1>2, <1>3, <1>5 DEF Records
  <2>2. /\ d.timer = c.timer /\ d.key = DhKey(e) /\ d.protocol = "initiator"
        /\ d.starts = p.starts /\ d.running = p.running
    BY <1>5, <1>8, <2>1 DEF Records
  <2> HIDE DEF p
  <2>3. QED
    BY <1>8, <2>2 DEF Records, States
<1> HIDE DEF r
<1>10. Quiet(r) /\ RoleFits(r) /\ SessionFits(r)
  BY <1>3, <1>5, <1>6, <1>8, <1>9 DEF Quiet, RoleFits, SessionFits, InitiatorStates,
        ResponderStates, KeyedStates
<1>11. "dhpart" \in Timers /\ r.state \in TimerStates("dhpart")
  BY <1>9, TimerOfState DEF Timers
<1>12. Fits(q) /\ q.state = "WAIT_CONFIRM1" /\ q.key = DhKey(e) /\ Same(r, q)
  BY <1>2, <1>9, <1>10, <1>11, Armed
<1>13. Update(e, q)
  BY <1>1 DEF r, d, c
<1> HIDE DEF q
<1>14. ep'[e] = q /\ ep' = [ep EXCEPT ![e] = ep'[e]]
  BY <1>13, UpdateStep
<1>15. Adds({}) /\ net' \subseteq SomeMessages /\ OwnKeys(e)
  BY <1>1, SendPlain
<1>16. Derives(e)
  BY <1>1, <1>3, <1>8, <1>9, <1>12, <1>14, <1>15 DEF Derives, Same
<1>17. QED
  BY <1>9, <1>1, <1>12, <1>14, <1>15, <1>16, EndpointFits DEF Step, HandlerStep, Same

LEMMA ReceiveDHPart2Step ==
    ASSUME HandshakeInv, NEW e \in Endpoints, ReceiveDHPart2(e)
    PROVE  HandlerStep(e)
<1> DEFINE p == ep[e]
           k == DhKey(Peer(e))
<1>1. Fits(p) /\ p \in Records /\ (p.state # "PENDINGERROR" => p.running # "errorack")
  BY EndpointFits
<1>2. UNCHANGED used
  BY DEF ReceiveDHPart2
<1>3. CASE /\ p.state = "PENDINGSECURE"
           /\ Update(e, [Derive(p, k) EXCEPT !.state = "WAIT_CONFIRM2"])
           /\ Send({Keyed(e, "CONFIRM1", k)})
  <2> DEFINE d == Derive(p, k)
             q == [d EXCEPT !.state = "WAIT_CONFIRM2"]
  <2>1. k \in SomeKeys /\ k.sess = NONE /\ Level(k) = 0
    BY KeyTypes, PeerIsTheOther
  <2> HIDE DEF k
  <2>2. p.zrtpsess = NONE /\ p.starts # 0 /\ p.protocol = "responder" /\ Quiet(p)
    BY <1>1, <1>3, FitsQuiet DEF Fits, SessionFits, RoleFits, ResponderStates, TimedStates
  <2>3. /\ d \in Records /\ d.zrtpsess \in SomeSessions /\ d.zrtpsess.hashed = 0
        /\ d = [p EXCEPT !.key = k, !.zrtpsess = d.zrtpsess]
    BY <1>1, <2>1, <2>2, DeriveFields
  <2> HIDE DEF d
  <2>4. /\ q \in Records /\ q.state = "WAIT_CONFIRM2" /\ q.timer = p.timer
        /\ q.key = k /\ q.zrtpsess = d.zrtpsess /\ q.protocol = "responder"
        /\ q.starts = p.starts /\ q.running = p.running
    <3>1. /\ d.timer = p.timer /\ d.protocol = p.protocol /\ d.key = k
          /\ d.starts = p.starts /\ d.running = p.running
      BY <1>1, <2>3 DEF Records
    <3>2. "WAIT_CONFIRM2" \in States
      BY DEF States
    <3>3. /\ q \in Records /\ q.timer = d.timer /\ q.state = "WAIT_CONFIRM2"
          /\ q.protocol = d.protocol /\ q.key = d.key /\ Same(d, q)
      BY <2>3, <3>2, StateFields
    <3>4. QED
      BY <2>2, <3>1, <3>3 DEF Same
  <2> HIDE DEF q
  <2>5. Quiet(q) /\ RoleFits(q) /\ SessionFits(q)
    BY <2>1, <2>2, <2>3, <2>4 DEF Quiet, RoleFits, SessionFits, InitiatorStates,
          ResponderStates, KeyedStates
  <2>6. Fits(q)
    BY <1>1, <1>3, <2>4, <2>5, Settled DEF TimedStates
  <2>7. ep'[e] = q /\ ep' = [ep EXCEPT ![e] = ep'[e]]
    BY <1>3, UpdateStep DEF q, d
  <2>8. Adds({Keyed(e, "CONFIRM1", k)}) /\ net' \subseteq SomeMessages /\ OwnKeys(e)
    BY <1>3, <2>1, <2>4, <2>7, SendKeyed
  <2>9. ep'[e].key = DhKey(Peer(e)) /\ Adds({Keyed(e, "CONFIRM1", ep'[e].key)})
    BY <2>4, <2>7, <2>8 DEF k
  <2>10. Derives(e)
    BY <1>2, <1>3, <2>2, <2>3, <2>4, <2>7, <2>9 DEF Derives
  <2>11. QED
    BY <2>4, <1>2, <2>6, <2>7, <2>8, <2>10, EndpointFits DEF Step, HandlerStep, Same
<1>4. CASE /\ p.state = "WAIT_CONFIRM2"
           /\ Send({Keyed(e, "CONFIRM1", p.key)}) /\ UNCHANGED ep
  <2>1. p.key \in SomeKeys
    BY <1>1, <1>4 DEF Fits, SessionFits, KeyedStates
  <2>2. /\ Adds({Keyed(e, "CONFIRM1", ep[e].key)})
        /\ net' \subseteq SomeMessages /\ OwnKeys(e)
    BY <1>4, <2>1, SendKeyed
  <2>3. QED
    BY <1>2, <1>4, <2>2, StayStep
<1>5. QED
  BY <1>3, <1>4 DEF ReceiveDHPart2, In

(* The initiator's record when it looks at a Confirm1. *)
LEMMA Confirm1Fields ==
    ASSUME HandshakeInv, NEW e \in Endpoints,
           \/ ep[e].state = "WAIT_CONFIRM1"
           \/ ep[e].state = "INITIATINGSECURE" /\ ep[e].pubkeyscheme = "mult"
    PROVE  LET fast == ep[e].state = "INITIATINGSECURE"
               k == MultKey(e, ep[e].hv, ep[e])
               p == IF fast THEN Derive(ep[e], k) ELSE ep[e]
           IN  /\ p \in Records /\ Fits(p)
               /\ p.key \in SomeKeys /\ p.zrtpsess \in SomeSessions
               /\ Level(p.key) = p.zrtpsess.hashed
               /\ p.state = ep[e].state /\ p.protocol = "initiator" /\ p.starts # 0
               /\ Same(ep[e], p)
               /\ fast => p.key = k /\ p.key.sess = ep[e].zrtpsess
               /\ ~fast => p.key = ep[e].key
<1>1. /\ Fits(ep[e]) /\ ep[e] \in Records /\ ep[e].starts # 0
      /\ ep[e].protocol = "initiator"
  BY EndpointFits DEF Fits, SessionFits, RoleFits, InitiatorStates
<1>2. CASE ep[e].state = "INITIATINGSECURE" /\ ep[e].pubkeyscheme = "mult"
  <2> DEFINE k == MultKey(e, ep[e].hv, ep[e])
             p == Derive(ep[e], k)
  <2>1. ep[e].zrtpsess # NONE
    BY <1>1, <1>2 DEF Fits, SessionFits
  <2>2. k \in SomeKeys /\ k.sess = ep[e].zrtpsess /\ Level(k) = ep[e].zrtpsess.hashed
    <3>1. ep[e].hv \in 0 .. MaxNonces
      BY <1>1 DEF Records
    <3>2. QED
      BY <1>1, <2>1, <3>1, KeyTypes
  <2> HIDE DEF k
  <2>3. /\ p \in Records /\ p.zrtpsess = ep[e].zrtpsess /\ p.zrtpsess \in SomeSessions
        /\ p = [ep[e] EXCEPT !.key = k, !.zrtpsess = p.zrtpsess]
    BY <1>1, <2>1, <2>2, DeriveFields
  <2> HIDE DEF p
  <2>4. /\ p.key = k /\ p.state = ep[e].state /\ p.protocol = ep[e].protocol
        /\ Same(ep[e], p) /\ p.timer = ep[e].timer
    BY <1>1, <2>3 DEF Records, Same
  <2>5. RoleFits(p) /\ SessionFits(p)
    BY <1>1, <1>2, <2>4 DEF Fits, RoleFits, SessionFits, Same, KeyedStates
  <2>6. TimersFit(p)
    BY <1>1, <2>4 DEF Fits, TimersFit, Same
  <2>7. Fits(p)
    BY <2>3, <2>5, <2>6 DEF Fits
  <2>8. p.protocol = "initiator" /\ p.starts # 0 /\ Level(p.key) = p.zrtpsess.hashed
    BY <1>1, <2>2, <2>3, <2>4 DEF Same
  <2>9. QED
    BY <1>2, <2>2, <2>3, <2>4, <2>7, <2>8 DEF p, k
<1>3. CASE ep[e].state = "WAIT_CONFIRM1"
  BY <1>1, <1>3 DEF Fits, SessionFits, KeyedStates, Same
<1>4. QED
  BY <1>2, <1>3

LEMMA ReceiveConfirm1Step ==
    ASSUME HandshakeInv, NEW e \in Endpoints, ReceiveConfirm1(e)
    PROVE  HandlerStep(e)
<1> DEFINE fast == ep[e].state = "INITIATINGSECURE"
           p == IF fast THEN Derive(ep[e], MultKey(e, ep[e].hv, ep[e])) ELSE ep[e]
           t == IF fast THEN "commit" ELSE "dhpart"
           c == Cancel(p, t)
           r == [c EXCEPT !.state = "WAIT_CONFIRMACK"]
           q == StartTimer(r, "confirm")
<1>1. /\ \/ ep[e].state = "WAIT_CONFIRM1"
         \/ ep[e].state = "INITIATINGSECURE" /\ ep[e].pubkeyscheme = "mult"
      /\ UNCHANGED used
  BY DEF ReceiveConfirm1, In
<1>2. PICK m \in Received(e, "CONFIRM1") :
        IF Genuine(m, p) THEN Update(e, q) /\ Send({Keyed(e, "CONFIRM2", p.key)})
        ELSE InitiatingError(e, p)
  BY DEF ReceiveConfirm1
<1>3. /\ p \in Records /\ Fits(p)
      /\ p.key \in SomeKeys /\ p.zrtpsess \in SomeSessions
      /\ Level(p.key) = p.zrtpsess.hashed
      /\ p.state = ep[e].state /\ p.protocol = "initiator" /\ p.starts # 0
      /\ Same(ep[e], p)
      /\ fast => p.key = MultKey(e, ep[e].hv, ep[e]) /\ p.key.sess = ep[e].zrtpsess
      /\ ~fast => p.key = ep[e].key
  BY <1>1, Confirm1Fields
<1>4. t \in Timers /\ p.state \in TimerStates(t)
  BY <1>1, <1>3, TimerOfState DEF Timers
<1> HIDE DEF p, t
<1>5. CASE Genuine(m, p)
  <2>1. Quiet(c) /\ c \in Records /\ c = [p EXCEPT !.timer = c.timer]
    BY <1>3, <1>4, CancelQuiet, CancelFields DEF Fits
  <2> HIDE DEF c
  <2>2. /\ r \in Records /\ r.state = "WAIT_CONFIRMACK" /\ r.timer = c.timer
        /\ r.key = p.key /\ r.protocol = "initiator" /\ Same(p, r)
    BY <1>3, <2>1 DEF Records, States, Same
  <2> HIDE DEF r
  <2>3. Quiet(r) /\ RoleFits(r) /\ SessionFits(r)
    BY <1>3, <2>1, <2>2 DEF Quiet, RoleFits, SessionFits, InitiatorStates,
          ResponderStates, KeyedStates, Same
  <2>4. "confirm" \in Timers /\ r.state \in TimerStates("confirm")
    BY <2>2, TimerOfState DEF Timers
  <2>5. r.running # "errorack"
    BY <1>1, <1>3, <2>2 DEF Fits, TimersFit, Same
  <2>6. Fits(q) /\ q.state = "WAIT_CONFIRMACK" /\ q.key = p.key /\ Same(r, q)
    BY <2>2, <2>3, <2>4, <2>5, Armed
  <2>7. Update(e, q) /\ Send({Keyed(e, "CONFIRM2", p.key)})
    BY <1>2, <1>5 DEF r, c
  <2> HIDE DEF q
  <2>8. ep'[e] = q /\ ep' = [ep EXCEPT ![e] = ep'[e]]
    BY <2>7, UpdateStep
  <2>9. Adds({Keyed(e, "CONFIRM2", p.key)}) /\ net' \subseteq SomeMessages /\ OwnKeys(e)
    BY <1>3, <2>6, <2>7, <2>8, SendKeyed
  <2>10. KeepsSession(e) /\ ep'[e].key = p.key
    BY <1>3, <2>2, <2>6, <2>8 DEF KeepsSession, Same
  <2>11. m.key = ep'[e].key
    BY <1>5, <2>10 DEF Genuine
  <2>12. Confirms(e)
    BY <1>1, <1>2, <1>3, <2>6, <2>8, <2>9, <2>10, <2>11 DEF Confirms
  <2>13. QED
    BY <1>3, <2>2, <1>1, <2>6, <2>8, <2>9, <2>12, EndpointFits DEF Step, HandlerStep, Same
<1>6. CASE ~Genuine(m, p)
  BY <1>1, <1>2, <1>3, <1>6, InitiatingErrorStep DEF Same
<1>7. QED
  BY <1>5, <1>6

(* _zrtp_machine_enter_secure *)
LEMMA EnterSecureStep ==
    ASSUME HandshakeInv, NEW e \in Endpoints, NEW p \in Records, RoleFits(p),
           p.key = ep[e].key, p.protocol = ep[e].protocol, Same(ep[e], p),
           p.state = ep[e].state,
           \/ ep[e].state = "WAIT_CONFIRMACK"
           \/ /\ ep[e].state = "WAIT_CONFIRM2"
              /\ \E m \in Received(e, "CONFIRM2") : m.key = ep[e].key,
           EnterSecure(e, p), NEW M, M \subseteq {Plain(e, "CONF2ACK")}, Send(M)
    PROVE  HandlerStep(e)
<1> DEFINE q == [CancelAll(p) EXCEPT !.state = "SECURE"]
<1>1. Update(e, q) /\ used' = [used EXCEPT ![e] = @ \cup {ep[e].key}]
  BY DEF EnterSecure
<1>2. /\ Fits(ep[e]) /\ ep[e].running # "errorack" /\ ep[e].key \in SomeKeys
      /\ ep[e].protocol # NONE
  BY EndpointFits, HandshakeAssumption DEF Fits, SessionFits, RoleFits, KeyedStates,
        InitiatorStates, ResponderStates
<1>3. /\ q \in Records /\ Quiet(q) /\ q.state = "SECURE" /\ q.key = p.key
      /\ q.protocol = p.protocol /\ Same(p, q)
  BY CancelAllThen DEF States
<1> HIDE DEF q
<1>4. RoleFits(q) /\ SessionFits(q)
  BY <1>2, <1>3 DEF Fits, RoleFits, SessionFits, InitiatorStates, ResponderStates,
        KeyedStates, Same
<1>5. Fits(q)
  BY <1>2, <1>3, <1>4, Settled DEF TimedStates, Same
<1>6. ep'[e] = q /\ ep' = [ep EXCEPT ![e] = ep'[e]]
  BY <1>1, UpdateStep
<1>7. Adds({}) /\ net' \subseteq SomeMessages /\ OwnKeys(e)
  BY SendPlain
<1>8. used' \in [Endpoints -> SUBSET SomeKeys]
  BY <1>1, <1>2 DEF HandshakeInv
<1>9. KeepsSession(e) /\ ep'[e].state = "SECURE" /\ ep'[e].key = ep[e].key
  BY <1>3, <1>6 DEF KeepsSession, Same
<1>10. Secures(e)
  BY <1>1, <1>7, <1>9 DEF Secures
<1>11. QED
  BY <1>3, <1>5, <1>6, <1>7, <1>8, <1>10 DEF Step, HandlerStep, Same

LEMMA ReceiveConfirm2Step ==
    ASSUME HandshakeInv, NEW e \in Endpoints, ReceiveConfirm2(e)
    PROVE  HandlerStep(e)
<1>1. /\ Fits(ep[e]) /\ ep[e] \in Records
  BY EndpointFits
<1>2. PICK m \in Received(e, "CONFIRM2") :
        \/ /\ ep[e].state = "WAIT_CONFIRM2" /\ Genuine(m, ep[e])
           /\ EnterSecure(e, ep[e]) /\ Send({Plain(e, "CONF2ACK")})
        \/ /\ ep[e].state = "WAIT_CONFIRM2"
           /\ InitiatingError(e, ep[e]) /\ UNCHANGED used
        \/ /\ Send({Plain(e, "CONF2ACK")})
           /\ UNCHANGED <<ep, used>>
  BY DEF ReceiveConfirm2, In
<1>3. CASE /\ ep[e].state = "WAIT_CONFIRM2" /\ Genuine(m, ep[e])
           /\ EnterSecure(e, ep[e]) /\ Send({Plain(e, "CONF2ACK")})
  BY <1>1, <1>3, EnterSecureStep DEF Genuine, Fits, Same
<1>4. CASE /\ ep[e].state = "WAIT_CONFIRM2"
           /\ InitiatingError(e, ep[e]) /\ UNCHANGED used
  BY <1>1, <1>4, InitiatingErrorStep
<1>5. CASE Send({Plain(e, "CONF2ACK")}) /\ UNCHANGED <<ep, used>>
  BY <1>5, SendPlain, StayStep
<1>6. QED
  BY <1>2, <1>3, <1>4, <1>5

LEMMA ReceiveConf2AckStep ==
    ASSUME HandshakeInv, NEW e \in Endpoints, ReceiveConf2Ack(e)
    PROVE  HandlerStep(e)
<1> DEFINE p == Cancel(ep[e], "confirm")
<1>1. /\ ep[e].state = "WAIT_CONFIRMACK" /\ EnterSecure(e, p) /\ Send({})
      /\ Fits(ep[e]) /\ ep[e] \in Records
  BY EndpointFits DEF ReceiveConf2Ack, In, Send
<1>2. p \in Records /\ p = [ep[e] EXCEPT !.timer = p.timer]
  BY <1>1, CancelFields DEF Timers
<1> HIDE DEF p
<1>3. p.key = ep[e].key /\ p.protocol = ep[e].protocol /\ p.state = ep[e].state
      /\ Same(ep[e], p)
  BY <1>1, <1>2 DEF Records, Same
<1>4. RoleFits(p)
  BY <1>1, <1>3 DEF Fits, RoleFits
<1>5. QED
  BY <1>1, <1>2, <1>3, <1>4, EnterSecureStep

-----------------------------------------------------------------------------
(* Message handlers: GoClear and errors.                                   *)

LEMMA ReceiveGoClearStep ==
    ASSUME HandshakeInv, NEW e \in Endpoints, ReceiveGoClear(e)
    PROVE  HandlerStep(e)
<1> DEFINE p == ep[e]
           r == HashSession([CancelAll(p) EXCEPT !.state = "PENDINGCLEAR"])
<1>1. Fits(p) /\ p \in Records /\ (p.state # "PENDINGERROR" => p.running # "errorack")
  BY EndpointFits
<1>2. UNCHANGED used
  BY DEF ReceiveGoClear
<1>3. CASE p.state = "SECURE" /\ InitiatingError(e, p)
  BY <1>1, <1>2, <1>3, InitiatingErrorStep
<1>4. CASE p.state = "SECURE" /\ Update(e, r) /\ Send({Plain(e, "GOCLEARACK")})
  <2>1. /\ r \in Records /\ Quiet(r) /\ RoleFits(r) /\ SessionFits(r)
        /\ r.state = "PENDINGCLEAR" /\ r.key = p.key /\ r.starts = p.starts
        /\ r.running = p.running
        /\ r.zrtpsess = [p.zrtpsess EXCEPT !.hashed = @ + 1]
    BY <1>1, <1>4, HashFields DEF ClearingStates
  <2> HIDE DEF r
  <2>2. Fits(r)
    BY <1>1, <1>4, <2>1, Settled DEF TimedStates
  <2>3. ep'[e] = r /\ ep' = [ep EXCEPT ![e] = ep'[e]]
    BY <1>4, UpdateStep
  <2>4. Adds({}) /\ net' \subseteq SomeMessages /\ OwnKeys(e)
    BY <1>4, SendPlain
  <2>5. Clears(e)
    BY <1>2, <1>4, <2>1, <2>3, <2>4 DEF Clears, ClearingStates
  <2>6. QED
    BY <2>1, <1>2, <2>2, <2>3, <2>4, <2>5, EndpointFits DEF Step, HandlerStep, Same
<1>5. CASE Send({Plain(e, "GOCLEARACK")}) /\ UNCHANGED ep
  BY <1>2, <1>5, SendPlain, StayStep
<1>6. QED
  BY <1>3, <1>4, <1>5 DEF ReceiveGoClear, In

LEMMA ReceiveGoClearAckStep ==
    ASSUME HandshakeInv, NEW e \in Endpoints, ReceiveGoClearAck(e)
    PROVE  HandlerStep(e)
<1>1. /\ ep[e].state = "INITIATINGCLEAR" /\ Update(e, EnterClear(ep[e]))
      /\ Send({}) /\ UNCHANGED used
  BY DEF ReceiveGoClearAck, In, Send
<1>2. QED
  BY <1>1, EndpointFits, EnterClearStep DEF ClearingStates, Fits

LEMMA ReceiveErrorStep ==
    ASSUME HandshakeInv, NEW e \in Endpoints, ReceiveError(e)
    PROVE  HandlerStep(e)
<1> DEFINE p == ep[e]
           q == StartTimer([CancelAll(p) EXCEPT !.state = "PENDINGERROR"], "errorack")
<1>1. /\ p.state # "ACTIVE" /\ p.state # "PENDINGERROR" /\ Update(e, q)
      /\ Send({Plain(e, "ERRORACK")}) /\ UNCHANGED used
  BY DEF ReceiveError, In, EnterPendingError
<1>2. Fits(p) /\ "PENDINGERROR" \in States /\ "errorack" \in Timers
  BY EndpointFits DEF States, Timers
<1>3. Fits(q) /\ q.state = "PENDINGERROR" /\ q.key = p.key /\ Same(p, q)
  BY <1>1, <1>2, ErrorThenFits
<1> HIDE DEF q
<1>4. ep'[e] = q /\ ep' = [ep EXCEPT ![e] = ep'[e]]
  BY <1>1, UpdateStep
<1>5. Adds({}) /\ net' \subseteq SomeMessages /\ OwnKeys(e)
  BY <1>1, SendPlain
<1>6. Fails(e)
  BY <1>1, <1>3, <1>4, <1>5 DEF Fails, KeepsSession, Same, ErrorStates
<1>7. QED
  BY <1>1, <1>3, <1>4, <1>5, <1>6, EndpointFits DEF Step, HandlerStep, Same

LEMMA ReceiveErrorAckStep ==
    ASSUME HandshakeInv, NEW e \in Endpoints, ReceiveErrorAck(e)
    PROVE  HandlerStep(e)
<1> DEFINE p == ep[e]
           q == [ClearStreamCrypto(CancelAll(p)) EXCEPT !.state = "ERROR"]
<1>1. p.state = "INITIATINGERROR" /\ Update(e, q) /\ UNCHANGED <<net, used>>
  BY DEF ReceiveErrorAck, In, SwitchToError
<1>2. p \in Records /\ SessionFits(p) /\ p.running # "errorack"
  BY <1>1, EndpointFits DEF Fits
<1>3. Fits(q) /\ q.state = "ERROR" /\ q.key = NONE /\ Same(p, q)
  BY <1>1, <1>2, ClearThenFits
<1> HIDE DEF q
<1>4. ep'[e] = q /\ ep' = [ep EXCEPT ![e] = ep'[e]]
  BY <1>1, UpdateStep
<1>5. Adds({}) /\ net' \subseteq SomeMessages /\ OwnKeys(e)
  BY <1>1, SendNothing
<1>6. Fails(e)
  BY <1>1, <1>3, <1>4, <1>5 DEF Fails, KeepsSession, Same, ErrorStates
<1>7. QED
  BY <1>1, <1>3, <1>4, <1>5, <1>6, EndpointFits DEF Step, HandlerStep, Same

LEMMA ReceiveStep ==
    ASSUME HandshakeInv, NEW e \in Endpoints, Receive(e)
    PROVE  HandlerStep(e)
  BY ReceiveHelloStep, ReceiveHelloAckStep, ReceiveCommitStep, ReceiveMisfitDHPartStep,
     ReceiveDHPart1Step, ReceiveDHPart2Step, ReceiveConfirm1Step, ReceiveConfirm2Step,
     ReceiveConf2AckStep, ReceiveGoClearStep, ReceiveGoClearAckStep, ReceiveErrorStep,
     ReceiveErrorAckStep DEF Receive

-----------------------------------------------------------------------------
(* Timers.                                                                 *)

LEMMA PopFits ==
    ASSUME NEW p, Fits(p), NEW t \in Timers, p.timer[t].queued > 0
    PROVE  LET q == [p EXCEPT !.running = t, !.timer[t].queued = @ - 1]
           IN  /\ Fits(q) /\ q.running = t
               /\ q.state = p.state /\ q.key = p.key /\ q.zrtpsess = p.zrtpsess
               /\ q.starts = p.starts /\ q.hv = p.hv /\ q.pubkeyscheme = p.pubkeyscheme
               /\ p.state \in TimerStates(t)
<1> DEFINE i == [p.timer[t] EXCEPT !.queued = @ - 1]
           tm == [p.timer EXCEPT ![t] = i]
           q == [p EXCEPT !.running = t, !.timer[t].queued = @ - 1]
<1>1. p \in Records /\ p.timer \in [Timers -> TimerRecords] /\ p.timer[t] \in TimerRecords
  BY DEF Fits, Records
<1>2. i \in TimerRecords /\ i.enabled = p.timer[t].enabled
  BY <1>1 DEF TimerRecords
<1>3. q = [p EXCEPT !.running = t, !.timer = tm]
  BY <1>1 DEF Records
<1>4. /\ tm \in [Timers -> TimerRecords] /\ tm[t] = i
      /\ \A u \in Timers \ {t} : tm[u] = p.timer[u]
  BY <1>1, <1>2
<1>5. p.state \in TimerStates(t)
  BY DEF Fits, TimersFit
<1> HIDE DEF i, tm, q
<1>6. /\ q \in Records /\ q.running = t /\ q.timer = tm /\ q.protocol = p.protocol
      /\ q.state = p.state /\ q.key = p.key /\ q.zrtpsess = p.zrtpsess
      /\ q.starts = p.starts /\ q.hv = p.hv /\ q.pubkeyscheme = p.pubkeyscheme
  BY <1>1, <1>3, <1>4 DEF Records
<1>7. \A u \in Timers \ {t} : p.state \notin TimerStates(u)
  BY <1>5, TimerOfState
<1>8. t = "errorack" => p.state = "PENDINGERROR"
  BY <1>5, TimerOfState
<1>9. TimersFit(q)
  BY <1>2, <1>4, <1>5, <1>6, <1>7, <1>8 DEF TimersFit, Fits
<1>10. p.state # "ACTIVE"
  BY <1>5, TimerOfState DEF TimedStates
<1>11. RoleFits(q) /\ SessionFits(q)
  BY <1>6, <1>10 DEF Fits, RoleFits, SessionFits
<1>12. QED
  BY <1>5, <1>6, <1>9, <1>11 DEF Fits, q

LEMMA ResendFields ==
    ASSUME NEW p \in Records, NEW t \in Timers
    PROVE  LET q == Resend(p, t)
           IN  /\ q \in Records /\ q = [p EXCEPT !.timer = q.timer]
               /\ q.timer[t].enabled = p.timer[t].enabled /\ q.timer[t].queued > 0
               /\ \A u \in Timers \ {t} : q.timer[u] = p.timer[u]
<1>1. p.timer \in [Timers -> TimerRecords] /\ p.timer[t] \in TimerRecords
  BY DEF Records
<1> DEFINE r == [p.timer[t] EXCEPT !.retrys = @ + 1, !.queued = @ + 1]
           tm == [p.timer EXCEPT ![t] = r]
<1>2. r \in TimerRecords /\ r.enabled = p.timer[t].enabled /\ r.queued > 0
  <2>1. /\ p.timer[t].retrys \in Nat /\ p.timer[t].retrys + 1 \in Nat
        /\ p.timer[t].queued \in Nat /\ p.timer[t].queued + 1 \in Nat
    BY <1>1 DEF TimerRecords
  <2> DEFINE x == p.timer[t]
             n == x.retrys + 1
             k == x.queued + 1
  <2>2. x \in TimerRecords /\ n \in Nat /\ k \in Nat /\ k > 0
    BY <1>1, <2>1
  <2>3. r = [x EXCEPT !.retrys = n, !.queued = k]
    OBVIOUS
  <2> HIDE DEF n, k, x, r
  <2>4. r \in TimerRecords /\ r.enabled = x.enabled /\ r.queued > 0
    BY <2>2, <2>3 DEF TimerRecords
  <2>5. QED
    BY <2>4 DEF x
<1>3. tm \in [Timers -> TimerRecords] /\ tm[t] = r /\ \A u \in Timers \ {t} : tm[u] = p.timer[u]
  BY <1>1, <1>2
<1>4. Resend(p, t) = [p EXCEPT !.timer = tm]
  BY <1>1 DEF Resend, Records
<1> HIDE DEF r, tm
<1>5. QED
  BY <1>2, <1>3, <1>4 DEF Records

(* The callback of a timer the scheduler has taken from its list. *)
LEMMA CallbackFits ==
    ASSUME NEW p, Fits(p), NEW t \in Timers, p.running = t
    PROVE  LET q == AfterCallback([p EXCEPT !.running = NONE], t)
           IN  /\ Fits(q) /\ q.running = NONE /\ q.zrtpsess = p.zrtpsess
               /\ q.starts = p.starts /\ q.hv = p.hv /\ q.pubkeyscheme = p.pubkeyscheme
               /\ p.state # "ACTIVE"
               /\ \/ q.state = p.state /\ q.key = p.key
                  \/ q.key = NONE /\ q.state = "ERROR"
                  \/ q.key = NONE /\ q.state = "CLEAR" /\ p.state = "INITIATINGCLEAR"
                  \/ q.key = NONE /\ q.state = "NO_ZRTP" /\ t = "hello"
<1> DEFINE b == [p EXCEPT !.running = NONE]
<1>1. p \in Records /\ TimersFit(p) /\ RoleFits(p) /\ SessionFits(p) /\ t # NONE
  BY HandshakeAssumption DEF Fits
<1>2. /\ b \in Records /\ b.running = NONE /\ b.timer = p.timer /\ b.protocol = p.protocol
      /\ b.state = p.state /\ b.key = p.key /\ b.zrtpsess = p.zrtpsess
      /\ b.starts = p.starts /\ b.hv = p.hv /\ b.pubkeyscheme = p.pubkeyscheme
  BY <1>1 DEF Records
<1> HIDE DEF b
<1>3. p.state # "ACTIVE" /\ b.running # "errorack"
  BY <1>1, <1>2, HandshakeAssumption DEF SessionFits, Timers
<1>4. RoleFits(b) /\ SessionFits(b)
  BY <1>1, <1>2, <1>3 DEF RoleFits, SessionFits
<1>5. /\ p.state \in TimerStates(t) <=> p.timer[t].enabled
      /\ \A u \in Timers \ {t} :
            /\ u # "errorack" => (b.timer[u].enabled <=> b.state \in TimerStates(u))
            /\ b.state \in TimerStates(u) => b.timer[u].enabled /\ b.timer[u].queued > 0
            /\ b.timer[u].queued > 0 => b.state \in TimerStates(u)
  <2>1. t = "errorack" => p.state \in TimerStates(t)
    BY <1>1, TimerOfState DEF TimersFit
  <2>2. QED
    BY <1>1, <1>2, <2>1 DEF TimersFit
<1>6. ASSUME NEW s \in {"CLEAR", "NO_ZRTP", "ERROR"}
      PROVE  LET q == [ClearStreamCrypto(CancelAll(b)) EXCEPT !.state = s]
             IN  Fits(q) /\ q.state = s /\ q.key = NONE /\ Same(b, q)
  BY <1>2, <1>3, <1>4, ClearThenFits
<1>7. CASE Exhausted(b, t) /\ t \notin {"commit", "dhpart", "confirm"}
  <2>1. CASE t = "hello"
    <3> DEFINE q == [ClearStreamCrypto(CancelAll(b)) EXCEPT !.state = "NO_ZRTP"]
    <3>1. AfterCallback(b, t) = q
      BY <1>7, <2>1 DEF AfterCallback, GiveUp, EnterNoZrtp
    <3>2. Fits(q) /\ q.state = "NO_ZRTP" /\ q.key = NONE /\ Same(b, q)
      BY <1>6
    <3> HIDE DEF q
    <3>3. QED
      BY <1>2, <1>3, <2>1, <3>1, <3>2 DEF Same, b
  <2>2. CASE t = "goclear"
    <3> DEFINE q == [ClearStreamCrypto(CancelAll(b)) EXCEPT !.state = "CLEAR"]
    <3>1. AfterCallback(b, t) = q
      BY <1>7, <2>2 DEF AfterCallback, GiveUp, EnterClear
    <3>2. Fits(q) /\ q.state = "CLEAR" /\ q.key = NONE /\ Same(b, q)
      BY <1>6
    <3>3. p.state = "INITIATINGCLEAR"
      BY <1>2, <1>5, <1>7, <2>2, TimerOfState DEF Exhausted
    <3> HIDE DEF q
    <3>4. QED
      BY <1>2, <1>3, <3>1, <3>2, <3>3 DEF Same, b
  <2>3. CASE t \in {"error", "errorack"}
    <3> DEFINE q == [ClearStreamCrypto(CancelAll(b)) EXCEPT !.state = "ERROR"]
    <3>1. AfterCallback(b, t) = q
      BY <1>7, <2>3 DEF AfterCallback, GiveUp, SwitchToError
    <3>2. Fits(q) /\ q.state = "ERROR" /\ q.key = NONE /\ Same(b, q)
      BY <1>6
    <3> HIDE DEF q
    <3>3. QED
      BY <1>2, <1>3, <3>1, <3>2 DEF Same, b
  <2>4. QED
    BY <1>7, <2>1, <2>2, <2>3 DEF Timers
<1>8. CASE \/ ~Exhausted(b, t) /\ ~b.timer[t].enabled
           \/ Exhausted(b, t) /\ t \in {"commit", "dhpart", "confirm"} /\ b.state \in ErrorStates
  <2>1. AfterCallback(b, t) = b
    BY <1>8 DEF AfterCallback, GiveUp, SilentError
  <2>2. b.state \notin TimerStates(t)
    BY <1>2, <1>5, <1>8, TimerOfState DEF ErrorStates
  <2>3. TimersFit(b)
    BY <1>1, <1>2, <1>3, <1>5, <2>2 DEF TimersFit
  <2>4. QED
    BY <1>2, <1>3, <1>4, <2>1, <2>3 DEF Fits, b
<1>9. CASE Exhausted(b, t) /\ t \in {"commit", "dhpart", "confirm"} /\ b.state \notin ErrorStates
  <2> DEFINE q == [ClearStreamCrypto(CancelAll(b)) EXCEPT !.state = "ERROR"]
  <2>1. AfterCallback(b, t) = q
    BY <1>9 DEF AfterCallback, GiveUp, SilentError, SwitchToError
  <2>2. Fits(q) /\ q.state = "ERROR" /\ q.key = NONE /\ Same(b, q)
    BY <1>6
  <2> HIDE DEF q
  <2>3. QED
    BY <1>2, <1>3, <2>1, <2>2 DEF Same, b
<1>10. CASE ~Exhausted(b, t) /\ b.timer[t].enabled
  <2> DEFINE q == Resend(b, t)
  <2>1. AfterCallback(b, t) = q
    BY <1>10 DEF AfterCallback
  <2>2. /\ q \in Records /\ q = [b EXCEPT !.timer = q.timer]
        /\ q.timer[t].enabled = b.timer[t].enabled /\ q.timer[t].queued > 0
        /\ \A u \in Timers \ {t} : q.timer[u] = b.timer[u]
    BY <1>2, ResendFields
  <2> HIDE DEF q
  <2>3. /\ q.state = p.state /\ q.key = p.key /\ q.running = NONE /\ Same(b, q)
        /\ q.protocol = p.protocol
    BY <1>2, <2>2 DEF Records, Same
  <2>4. RoleFits(q) /\ SessionFits(q)
    BY <1>2, <1>4, <2>3 DEF RoleFits, SessionFits, Same
  <2>5. TimersFit(q)
    <3>1. q.state \in TimerStates(t) /\ q.timer[t].enabled
      BY <1>2, <1>5, <1>10, <2>2, <2>3
    <3>2. q.running # "errorack"
      BY <1>2, <1>3, <2>3
    <3>3. QED
      BY <1>2, <1>5, <2>2, <2>3, <3>1, <3>2 DEF TimersFit
  <2>6. QED
    BY <1>2, <1>3, <2>1, <2>2, <2>3, <2>4, <2>5 DEF Fits, Same, b
<1>11. QED
  BY <1>7, <1>8, <1>9, <1>10

LEMMA PopStep ==
    ASSUME HandshakeInv, NEW e \in Endpoints, NEW t \in Timers, Pop(e, t)
    PROVE  Step(e)
<1> DEFINE q == [ep[e] EXCEPT !.running = t, !.timer[t].queued = @ - 1]
<1>1. ep[e].timer[t].queued > 0 /\ Update(e, q) /\ UNCHANGED <<net, used>>
  BY DEF Pop
<1>2. /\ Fits(q) /\ q.state = ep[e].state /\ q.key = ep[e].key /\ q.zrtpsess = ep[e].zrtpsess
      /\ q.starts = ep[e].starts /\ q.hv = ep[e].hv /\ q.pubkeyscheme = ep[e].pubkeyscheme
  <2>1. PICK b : b = ep[e]
    OBVIOUS
  <2>2. Fits(b) /\ b.timer[t].queued > 0
    BY <1>1, <2>1, EndpointFits
  <2>3. PICK r : r = [b EXCEPT !.running = t, !.timer[t].queued = @ - 1]
    OBVIOUS
  <2>4. /\ Fits(r) /\ r.state = b.state /\ r.key = b.key /\ r.zrtpsess = b.zrtpsess
        /\ r.starts = b.starts /\ r.hv = b.hv /\ r.pubkeyscheme = b.pubkeyscheme
    BY ONLY t \in Timers, <2>2, <2>3, PopFits
  <2>5. q = r
    BY <2>1, <2>3
  <2>6. QED
    BY <2>1, <2>4, <2>5
<1> HIDE DEF q
<1>3. ep'[e] = q /\ ep' = [ep EXCEPT ![e] = ep'[e]]
  BY <1>1, UpdateStep
<1>4. Adds({}) /\ net' \subseteq SomeMessages /\ OwnKeys(e)
  BY <1>1, SendNothing
<1>5. Stays(e)
  BY <1>1, <1>2, <1>3, <1>4 DEF Stays, KeepsSession
<1>6. QED
  BY <1>1, <1>2, <1>3, <1>4, <1>5, EndpointFits DEF Step

(* A callback that gives up in a state without its timer is the late hello *)
(* of GivesUpLate; the rest are steps of every schedule.                   *)
LEMMA CallbackCases ==
    ASSUME HandshakeInv, NEW e \in Endpoints, NEW q, Fits(q), Update(e, q),
           UNCHANGED <<net, used>>,
           q.zrtpsess = ep[e].zrtpsess, q.starts = ep[e].starts, q.hv = ep[e].hv,
           q.pubkeyscheme = ep[e].pubkeyscheme, ep[e].state # "ACTIVE",
           \/ q.state = ep[e].state /\ q.key = ep[e].key
           \/ q.key = NONE /\ q.state = "ERROR"
           \/ q.key = NONE /\ q.state = "CLEAR" /\ ep[e].state = "INITIATINGCLEAR"
           \/ /\ q.key = NONE /\ q.state = "NO_ZRTP"
              /\ ep[e].running = "hello" \/ ep[e].state \in IdleStates
    PROVE  Step(e)
<1>1. ep'[e] = q /\ ep' = [ep EXCEPT ![e] = ep'[e]]
  BY UpdateStep
<1>2. Adds({}) /\ net' \subseteq SomeMessages /\ OwnKeys(e)
  BY SendNothing
<1>3. KeepsSession(e)
  BY <1>1 DEF KeepsSession
<1>4. Stays(e) \/ Fails(e) \/ Discovers(e) \/ GivesUpLate(e)
  BY <1>1, <1>2, <1>3 DEF Stays, Fails, Discovers, GivesUpLate, ErrorStates, IdleStates,
        ClearingStates
<1>5. QED
  BY <1>1, <1>2, <1>4, EndpointFits DEF Step

LEMMA CallbackStep ==
    ASSUME HandshakeInv, NEW e \in Endpoints, Callback(e)
    PROVE  Step(e)
<1> DEFINE t == ep[e].running
           q == AfterCallback([ep[e] EXCEPT !.running = NONE], t)
<1>1. t # NONE /\ Update(e, q) /\ UNCHANGED <<net, used>>
  BY DEF Callback
<1>2. Fits(ep[e]) /\ t \in Timers
  BY <1>1, EndpointFits DEF Records
<1>3. /\ Fits(q) /\ q.zrtpsess = ep[e].zrtpsess
      /\ q.starts = ep[e].starts /\ q.hv = ep[e].hv /\ q.pubkeyscheme = ep[e].pubkeyscheme
      /\ ep[e].state # "ACTIVE"
      /\ \/ q.state = ep[e].state /\ q.key = ep[e].key
         \/ q.key = NONE /\ q.state = "ERROR"
         \/ q.key = NONE /\ q.state = "CLEAR" /\ ep[e].state = "INITIATINGCLEAR"
         \/ q.key = NONE /\ q.state = "NO_ZRTP" /\ t = "hello"
  BY <1>2, CallbackFits
<1> HIDE DEF q
<1>4. QED
  BY <1>1, <1>3, CallbackCases

LEMMA PopAndCallbackStep ==
    ASSUME HandshakeInv, NEW e \in Endpoints, ep[e].running = NONE,
           NEW t \in Timers, PopAndCallback(e, t)
    PROVE  Step(e) /\ ~GivesUpLate(e) /\ ep'[e].running = NONE
<1> DEFINE p == ep[e]
           r == [p EXCEPT !.running = t, !.timer[t].queued = @ - 1]
           b == [p EXCEPT !.timer[t].queued = @ - 1]
           q == AfterCallback(b, t)
<1>1. p.timer[t].queued > 0 /\ Update(e, q) /\ UNCHANGED <<net, used>>
  BY DEF PopAndCallback
<1>2. /\ Fits(r) /\ r.running = t
      /\ r.state = p.state /\ r.key = p.key /\ r.zrtpsess = p.zrtpsess
      /\ r.starts = p.starts /\ r.hv = p.hv /\ r.pubkeyscheme = p.pubkeyscheme
      /\ p.state \in TimerStates(t)
  BY <1>1, EndpointFits, PopFits
<1>3. b = [r EXCEPT !.running = NONE]
  BY EndpointFits DEF Records
<1> HIDE DEF r, b
<1>4. /\ Fits(q) /\ q.running = NONE /\ q.zrtpsess = r.zrtpsess
      /\ q.starts = r.starts /\ q.hv = r.hv /\ q.pubkeyscheme = r.pubkeyscheme
      /\ r.state # "ACTIVE"
      /\ \/ q.state = r.state /\ q.key = r.key
         \/ q.key = NONE /\ q.state = "ERROR"
         \/ q.key = NONE /\ q.state = "CLEAR" /\ r.state = "INITIATINGCLEAR"
         \/ q.key = NONE /\ q.state = "NO_ZRTP" /\ t = "hello"
  BY <1>2, <1>3, CallbackFits
<1>5. t = "hello" => p.state \in IdleStates
  BY <1>2, TimerOfState DEF IdleStates
<1>6. Update(e, q)
  BY <1>1 DEF q, b
<1> HIDE DEF q
<1>7. Step(e)
  BY <1>1, <1>2, <1>4, <1>5, <1>6, CallbackCases
<1>8. ep'[e] = q
  BY <1>6, UpdateStep
<1>9. QED
  BY <1>4, <1>7, <1>8, HandshakeAssumption DEF GivesUpLate, Timers

-----------------------------------------------------------------------------
(* The invariant, in both schedules.                                       *)

LEMMA HandshakeInvInit ==
    ASSUME Init
    PROVE  HandshakeInv
<1> DEFINE tm == [t \in Timers |-> InitialTimer]
           p == [state |-> "ACTIVE", pubkeyscheme |-> NONE, is_hello_received |-> FALSE,
                 protocol |-> NONE, hv |-> 0, key |-> NONE, zrtpsess |-> NONE,
                 timer |-> tm, running |-> NONE, starts |-> 0]
<1>1. ep = [e \in Endpoints |-> p] /\ net = {} /\ used = [e \in Endpoints |-> {}]
  BY DEF Init
<1>2. MaxNonces \in Nat /\ MaxStarts \in Nat
  BY HandshakeAssumption
<1>3. tm \in [Timers -> TimerRecords]
  BY DEF InitialTimer, TimerRecords
<1>4. \A t \in Timers : /\ p.timer[t].queued = 0 /\ ~p.timer[t].enabled
                        /\ "ACTIVE" \notin TimerStates(t)
  BY TimerOfState DEF InitialTimer, TimedStates
<1>5. p \in Records
  <2> HIDE DEF tm
  <2>1. QED
    BY <1>2, <1>3 DEF Records, States
<1>6. p.state = "ACTIVE" /\ p.running # "errorack"
  BY HandshakeAssumption DEF Timers
<1>7. TimersFit(p)
  <2> HIDE DEF p
  <2>1. QED
    BY <1>4, <1>6 DEF TimersFit
<1>8. RoleFits(p) /\ SessionFits(p)
  BY DEF RoleFits, SessionFits, InitiatorStates, ResponderStates, KeyedStates
<1> HIDE DEF p
<1>9. Fits(p)
  BY <1>5, <1>7, <1>8 DEF Fits
<1>10. QED
  BY <1>1, <1>5, <1>9 DEF HandshakeInv

LEMMA StepKeepsInv ==
    ASSUME HandshakeInv, NEW e \in Endpoints, Step(e)
    PROVE  HandshakeInv'
<1>1. /\ ep' = [ep EXCEPT ![e] = ep'[e]] /\ Fits(ep'[e]) /\ ep'[e] \in Records
  BY DEF Step, Fits
<1>2. ep' \in [Endpoints -> Records] /\ \A o \in Endpoints : o # e => ep'[o] = ep[o]
  BY <1>1 DEF HandshakeInv
<1>3. \A o \in Endpoints : Fits(ep'[o])
  BY <1>1, <1>2 DEF HandshakeInv
<1>4. QED
  BY <1>2, <1>3 DEF HandshakeInv, Step

LEMMA NextStep ==
    ASSUME HandshakeInv, Next
    PROVE  \E e \in Endpoints : Step(e)
<1>1. PICK e \in Endpoints : Endpoint(e)
  BY DEF Next
<1>2. QED
  BY <1>1, StreamStartStep, StreamSecureStep, StreamClearStep, ReceiveStep, PopStep,
     CallbackStep DEF Endpoint, Scheduler, HandlerStep

(* No callback runs between two steps. *)
Prompt == \A e \in Endpoints : ep[e].running = NONE

LEMMA PromptNextStep ==
    ASSUME HandshakeInv, Prompt, PromptNext
    PROVE  /\ Prompt'
           /\ \E e \in Endpoints : Step(e) /\ ~GivesUpLate(e)
<1>1. PICK e \in Endpoints : PromptEndpoint(e)
  BY DEF PromptNext
<1>2. ep[e].running = NONE
  BY DEF Prompt
<1>3. CASE HandlerStep(e)
  <2>1. Step(e) /\ ~GivesUpLate(e) /\ ep'[e].running = NONE
    BY <1>2, <1>3, HandshakeAssumption DEF HandlerStep, GivesUpLate, Timers
  <2>2. Prompt'
    BY <2>1 DEF Prompt, Step, HandshakeInv
  <2>3. QED
    BY <2>1, <2>2
<1>4. CASE \E t \in Timers : PopAndCallback(e, t)
  <2>1. Step(e) /\ ~GivesUpLate(e) /\ ep'[e].running = NONE
    BY <1>2, <1>4, PopAndCallbackStep
  <2>2. Prompt'
    BY <2>1 DEF Prompt, Step, HandshakeInv
  <2>3. QED
    BY <2>1, <2>2
<1>5. QED
  BY <1>1, <1>3, <1>4, StreamStartStep, StreamSecureStep, StreamClearStep, ReceiveStep
     DEF PromptEndpoint

LEMMA HandshakeInvStutter ==
    ASSUME HandshakeInv, UNCHANGED vars
    PROVE  HandshakeInv'
  BY DEF HandshakeInv, vars

LEMMA PromptInit ==
    ASSUME Init
    PROVE  Prompt
  BY DEF Init, Prompt

(* Whatever handler or callback runs, timers, role and session level of an  *)
(* endpoint fit its state, in the records of zrtp_stream_t                  *)
(* (src/zrtp_engine.c, _zrtp_cancel_send_packet_later).                     *)
THEOREM HandshakeInvariant == Spec => []HandshakeInv
<1>1. HandshakeInv /\ [Next]_vars => HandshakeInv'
  BY NextStep, StepKeepsInv, HandshakeInvStutter
<1>2. QED
  BY HandshakeInvInit, <1>1, PTL DEF Spec

(* The same, and no callback waits between its pop and its run: the         *)
(* schedule in which zrtp_iface_scheduler.c loses no time.                  *)
THEOREM PromptInvariant == PromptSpec => [](HandshakeInv /\ Prompt)
<1>1. HandshakeInv /\ Prompt /\ [PromptNext]_vars => HandshakeInv' /\ Prompt'
  <2>1. CASE UNCHANGED vars
    BY <2>1, HandshakeInvStutter DEF Prompt, vars
  <2>2. CASE HandshakeInv /\ Prompt /\ PromptNext
    BY <2>2, PromptNextStep, StepKeepsInv
  <2>3. QED
    BY <2>1, <2>2
<1>2. QED
  BY HandshakeInvInit, PromptInit, <1>1, PTL DEF PromptSpec

LEMMA InvImplies ==
    ASSUME HandshakeInv
    PROVE  TimersMatchState /\ RoleMatchesState
<1>1. ASSUME NEW e \in Endpoints, NEW t \in Timers
      PROVE  LET on == ep[e].state \in TimerStates(t)
                 timer == ep[e].timer[t]
             IN  /\ t # "errorack" => timer.enabled = on
                 /\ on => timer.queued > 0 \/ ep[e].running = t
                 /\ timer.queued > 0 => on
  <2>1. TimersFit(ep[e]) /\ ep[e].timer[t].enabled \in BOOLEAN
    BY DEF HandshakeInv, Fits, Records, TimerRecords
  <2>2. t # "errorack" => (ep[e].timer[t].enabled <=> ep[e].state \in TimerStates(t))
    BY <2>1 DEF TimersFit
  <2>3. t # "errorack" => (ep[e].timer[t].enabled = (ep[e].state \in TimerStates(t)))
    BY <2>1, <2>2
  <2>4. QED
    BY <2>1, <2>3 DEF TimersFit
<1>2. TimersMatchState
  BY <1>1 DEF TimersMatchState
<1>3. RoleMatchesState
  BY DEF HandshakeInv, Fits, RoleFits, RoleMatchesState, In
<1>4. QED
  BY <1>2, <1>3

(* A resend timer is enabled exactly in the states that wait for the       *)
(* answer, and is then in the scheduler's list or running: so every        *)
(* handler cancels and starts the timers that its change of state asks     *)
(* for (zrtp_engine.c, zrtp_initiator.c, zrtp_responder.c), whatever       *)
(* callback a handler overtakes.                                           *)
THEOREM TimersAlwaysMatchState == Spec => []TimersMatchState
  BY HandshakeInvariant, InvImplies, PTL

(* The states in which zrtp_process_srtp needs a protocol have one, of the *)
(* right role, although any timer or error may destroy it.                 *)
THEOREM RoleAlwaysMatchesState == Spec => []RoleMatchesState
  BY HandshakeInvariant, InvImplies, PTL

(* The same in the schedule in which a callback runs when it is popped.    *)
THEOREM PromptMatchesState == PromptSpec => [](TimersMatchState /\ RoleMatchesState)
  BY PromptInvariant, InvImplies, PTL

=============================================================================
