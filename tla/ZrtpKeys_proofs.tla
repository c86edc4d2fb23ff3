-------------------------- MODULE ZrtpKeys_proofs --------------------------
(***************************************************************************)
(* Theorems about the keys that ZrtpHandshake agrees on: how often a       *)
(* session key is hashed, what the endpoints have confirmed when they are  *)
(* secure, how a tie of two Commits ends, and that the handshake           *)
(* implements ZrtpAgreement.  The invariants are shown for a Step, what    *)
(* the steps of ZrtpHandshake_proofs have in common.                       *)
(***************************************************************************)
EXTENDS ZrtpHandshake_proofs

-----------------------------------------------------------------------------
(* What a Step does to the messages.                                       *)

LEMMA StepFrame ==
    ASSUME HandshakeInv, NEW e \in Endpoints, Step(e)
    PROVE  /\ \A o \in Endpoints : o # e => ep'[o] = ep[o]
           /\ net \subseteq net'
           /\ Fits(ep[e]) /\ Fits(ep'[e])
           /\ ep[e] \in Records /\ ep'[e] \in Records
           /\ net \subseteq SomeMessages /\ net' \subseteq SomeMessages
           /\ used \in [Endpoints -> SUBSET SomeKeys]
<1>1. net \subseteq net'
  BY DEF Step, Adds, Stays, Starts, Discovers, Initiates, Responds, Derives, Confirms,
         Secures, Clears, Fails, GivesUpLate
<1>2. QED
  BY <1>1, EndpointFits DEF Step, HandshakeInv, Fits

LEMMA OwnMessages ==
    ASSUME NEW e \in Endpoints
    PROVE  /\ Peer(e) \in Endpoints
           /\ \A type : Plain(e, type).to = Peer(e) /\ Plain(e, type).type = type
           /\ \A type, k : /\ Keyed(e, type, k).to = Peer(e)
                           /\ Keyed(e, type, k).type = type
                           /\ Keyed(e, type, k).key = k
           /\ \A scheme, n : /\ Commit(e, scheme, n).to = Peer(e)
                             /\ Commit(e, scheme, n).type = "COMMIT"
                             /\ Commit(e, scheme, n).scheme = scheme
                             /\ Commit(e, scheme, n).nonce = n
           /\ \A o \in Endpoints : Peer(o) = Peer(e) => o = e
  BY PeerIsTheOther DEF Plain, Keyed, Commit

Commits == {m \in net : m.type = "COMMIT"}

MultConfirms == {m \in net : m.type = "CONFIRM2" /\ m.key.sess # NONE}

ConfirmsOf(e, M) == {c \in M : c.to = Peer(e) /\ c.type \in {"CONFIRM1", "CONFIRM2"}}

LEMMA AddsMessages ==
    ASSUME NEW X, Adds(X)
    PROVE  /\ \A o \in Endpoints :
                 ConfirmedBy(o)' = ConfirmedBy(o) \cup {m.key : m \in ConfirmsOf(o, X)}
           /\ Commits' = Commits \cup {m \in X : m.type = "COMMIT"}
           /\ MultConfirms' =
                 MultConfirms \cup {m \in X : m.type = "CONFIRM2" /\ m.key.sess # NONE}
<1>1. ASSUME NEW o \in Endpoints
      PROVE  ConfirmedBy(o)' = ConfirmedBy(o) \cup {m.key : m \in ConfirmsOf(o, X)}
  <2>1. ConfirmsOf(o, net') = ConfirmsOf(o, net) \cup ConfirmsOf(o, X)
    BY DEF Adds, Tracked, ConfirmsOf
  <2>2. /\ ConfirmedBy(o)' = {m.key : m \in ConfirmsOf(o, net')}
        /\ ConfirmedBy(o) = {m.key : m \in ConfirmsOf(o, net)}
    BY DEF ConfirmedBy, ConfirmsOf
  <2> HIDE DEF ConfirmsOf
  <2>3. QED
    BY <2>1, <2>2
<1>2. Commits' = Commits \cup {m \in X : m.type = "COMMIT"}
  BY DEF Adds, Tracked, Commits
<1>3. MultConfirms' =
        MultConfirms \cup {m \in X : m.type = "CONFIRM2" /\ m.key.sess # NONE}
  BY DEF Adds, Tracked, MultConfirms
<1>4. QED
  BY <1>1, <1>2, <1>3

(* Nothing that matters is sent, or a DHPart1, ... *)
LEMMA AddsNone ==
    ASSUME NEW e \in Endpoints, Adds({}) \/ Adds({Plain(e, "DHPART1")})
    PROVE  /\ \A o \in Endpoints : ConfirmedBy(o)' = ConfirmedBy(o)
           /\ Commits' = Commits /\ MultConfirms' = MultConfirms
<1>1. CASE Adds({})
  <2>1. \A o \in Endpoints : {m.key : m \in ConfirmsOf(o, {})} = {}
    BY DEF ConfirmsOf
  <2>2. /\ \A o \in Endpoints :
              ConfirmedBy(o)' = ConfirmedBy(o) \cup {m.key : m \in ConfirmsOf(o, {})}
        /\ Commits' = Commits \cup {m \in {} : m.type = "COMMIT"}
        /\ MultConfirms' =
              MultConfirms \cup {m \in {} : m.type = "CONFIRM2" /\ m.key.sess # NONE}
    BY <1>1, AddsMessages
  <2>3. QED
    BY <2>1, <2>2
<1>2. CASE Adds({Plain(e, "DHPART1")})
  <2> DEFINE X == {Plain(e, "DHPART1")}
  <2>1. \A m \in X : m.type = "DHPART1"
    BY OwnMessages
  <2> HIDE DEF X
  <2>2. \A o \in Endpoints : ConfirmsOf(o, X) = {}
    BY <2>1 DEF ConfirmsOf
  <2>3. Adds(X)
    BY <1>2 DEF X
  <2>4. /\ \A o \in Endpoints :
              ConfirmedBy(o)' = ConfirmedBy(o) \cup {m.key : m \in ConfirmsOf(o, X)}
        /\ Commits' = Commits \cup {m \in X : m.type = "COMMIT"}
        /\ MultConfirms' =
              MultConfirms \cup {m \in X : m.type = "CONFIRM2" /\ m.key.sess # NONE}
    BY <2>3, AddsMessages
  <2>5. QED
    BY <2>1, <2>2, <2>4
<1>3. QED
  BY <1>1, <1>2

(* ... or a Commit, ... *)
LEMMA AddsCommit ==
    ASSUME NEW e \in Endpoints, NEW scheme, NEW n, Adds({Commit(e, scheme, n)})
    PROVE  /\ \A o \in Endpoints : ConfirmedBy(o)' = ConfirmedBy(o)
           /\ Commits' = Commits \cup {Commit(e, scheme, n)}
           /\ MultConfirms' = MultConfirms
<1> DEFINE X == {Commit(e, scheme, n)}
<1>1. \A m \in X : m.type = "COMMIT"
  BY OwnMessages
<1>2. Adds(X)
  OBVIOUS
<1>3. QED
  <2> HIDE DEF X
  <2>1. \A o \in Endpoints : ConfirmsOf(o, X) = {}
    BY <1>1 DEF ConfirmsOf
  <2>2. /\ \A o \in Endpoints :
              ConfirmedBy(o)' = ConfirmedBy(o) \cup {m.key : m \in ConfirmsOf(o, X)}
        /\ Commits' = Commits \cup {m \in X : m.type = "COMMIT"}
        /\ MultConfirms' =
              MultConfirms \cup {m \in X : m.type = "CONFIRM2" /\ m.key.sess # NONE}
    BY <1>2, AddsMessages
  <2>3. /\ \A o \in Endpoints : ConfirmedBy(o)' = ConfirmedBy(o)
        /\ Commits' = Commits \cup X /\ MultConfirms' = MultConfirms
    BY <1>1, <2>1, <2>2
  <2>4. QED
    BY <2>3 DEF X

(* ... or a Confirm. *)
LEMMA AddsConfirm ==
    ASSUME NEW e \in Endpoints, NEW type \in {"CONFIRM1", "CONFIRM2"}, NEW k,
           Adds({Keyed(e, type, k)})
    PROVE  /\ ConfirmedBy(e)' = ConfirmedBy(e) \cup {k}
           /\ \A o \in Endpoints : o # e => ConfirmedBy(o)' = ConfirmedBy(o)
           /\ Commits' = Commits
           /\ type = "CONFIRM1" \/ k.sess = NONE => MultConfirms' = MultConfirms
           /\ type = "CONFIRM2" /\ k.sess # NONE =>
                 MultConfirms' = MultConfirms \cup {Keyed(e, type, k)}
<1> DEFINE x == Keyed(e, type, k)
<1>1. x.to = Peer(e) /\ x.type = type /\ x.key = k
  BY OwnMessages
<1>2. Adds({x})
  OBVIOUS
<1> HIDE DEF x
<1>3. ConfirmsOf(e, {x}) = {x} /\ \A o \in Endpoints : o # e => ConfirmsOf(o, {x}) = {}
  BY <1>1, OwnMessages DEF ConfirmsOf
<1>4. /\ \A o \in Endpoints :
            ConfirmedBy(o)' = ConfirmedBy(o) \cup {m.key : m \in ConfirmsOf(o, {x})}
      /\ Commits' = Commits \cup {m \in {x} : m.type = "COMMIT"}
      /\ MultConfirms' =
            MultConfirms \cup {m \in {x} : m.type = "CONFIRM2" /\ m.key.sess # NONE}
  BY <1>2, AddsMessages
<1>5. {m.key : m \in {x}} = {k} /\ {m.key : m \in {}} = {}
  BY <1>1
<1>6. /\ ConfirmedBy(e)' = ConfirmedBy(e) \cup {k}
      /\ \A o \in Endpoints : o # e => ConfirmedBy(o)' = ConfirmedBy(o)
  BY <1>3, <1>4, <1>5
<1>7. /\ Commits' = Commits
      /\ type = "CONFIRM1" \/ k.sess = NONE => MultConfirms' = MultConfirms
      /\ type = "CONFIRM2" /\ k.sess # NONE => MultConfirms' = MultConfirms \cup {x}
  BY <1>1, <1>4
<1>8. QED
  BY <1>6, <1>7 DEF x

LEMMA ReceivedConfirm ==
    ASSUME NEW e \in Endpoints, NEW type \in {"CONFIRM1", "CONFIRM2"},
           NEW m \in Received(e, type)
    PROVE  m.key \in ConfirmedBy(Peer(e))
  BY PeerIsTheOther DEF Received, ConfirmedBy

-----------------------------------------------------------------------------
(* What is confirmed: by a responder before it waits for the answer, by    *)
(* both endpoints from the Confirm2 on.                                    *)

ConfirmInv ==
    \A e \in Endpoints :
        /\ ep[e].state = "WAIT_CONFIRM2" => ep[e].key \in ConfirmedBy(e)
        /\ ep[e].state \in {"WAIT_CONFIRMACK", "SECURE"} =>
               \A o \in Endpoints : ep[e].key \in ConfirmedBy(o)

LEMMA ConfirmedGrows ==
    ASSUME NEW o \in Endpoints, net \subseteq net'
    PROVE  ConfirmedBy(o) \subseteq ConfirmedBy(o)'
  BY DEF ConfirmedBy

LEMMA ConfirmInvStep ==
    ASSUME HandshakeInv, ConfirmInv, NEW e \in Endpoints, Step(e)
    PROVE  ConfirmInv'
<1>1. /\ \A o \in Endpoints : o # e => ep'[o] = ep[o]
      /\ \A o \in Endpoints : ConfirmedBy(o) \subseteq ConfirmedBy(o)'
  BY StepFrame, ConfirmedGrows
<1>2. /\ ep'[e].state = "WAIT_CONFIRM2" => ep'[e].key \in ConfirmedBy(e)'
      /\ ep'[e].state \in {"WAIT_CONFIRMACK", "SECURE"} =>
             \A o \in Endpoints : ep'[e].key \in ConfirmedBy(o)'
  <2>1. CASE Stays(e)
    BY <1>1, <2>1 DEF Stays, ConfirmInv
  <2>2. CASE Starts(e) \/ Discovers(e) \/ Initiates(e) \/ Clears(e) \/ Fails(e)
             \/ GivesUpLate(e)
    BY <2>2 DEF Starts, Discovers, Initiates, Clears, Fails, GivesUpLate, IdleStates,
                ClearingStates, ErrorStates
  <2>3. CASE Responds(e)
    BY <2>3, AddsConfirm DEF Responds
  <2>4. CASE Derives(e)
    BY <2>4, AddsConfirm DEF Derives
  <2>5. CASE Confirms(e)
    <3>1. ep'[e].state = "WAIT_CONFIRMACK" /\ ep'[e].key \in ConfirmedBy(e)'
      BY <2>5, AddsConfirm DEF Confirms
    <3>2. ep'[e].key \in ConfirmedBy(Peer(e))'
      BY <1>1, <2>5, ReceivedConfirm, OwnMessages DEF Confirms
    <3>3. QED
      BY <3>1, <3>2, PeerIsTheOther
  <2>6. CASE Secures(e)
    <3>1. ep'[e].state = "SECURE" /\ ep'[e].key = ep[e].key
      BY <2>6 DEF Secures
    <3>2. CASE ep[e].state = "WAIT_CONFIRMACK"
      BY <1>1, <3>1, <3>2 DEF ConfirmInv
    <3>3. CASE /\ ep[e].state = "WAIT_CONFIRM2"
               /\ \E m \in Received(e, "CONFIRM2") : m.key = ep[e].key
      BY <1>1, <3>1, <3>3, ReceivedConfirm, PeerIsTheOther DEF ConfirmInv
    <3>4. QED
      BY <2>6, <3>2, <3>3 DEF Secures
  <2>7. QED
    BY <2>1, <2>2, <2>3, <2>4, <2>5, <2>6 DEF Step
<1>3. ASSUME NEW o \in Endpoints, o # e
      PROVE  /\ ep'[o].state = "WAIT_CONFIRM2" => ep'[o].key \in ConfirmedBy(o)'
             /\ ep'[o].state \in {"WAIT_CONFIRMACK", "SECURE"} =>
                    \A x \in Endpoints : ep'[o].key \in ConfirmedBy(x)'
  BY <1>1, <1>3 DEF ConfirmInv
<1>4. QED
  BY <1>2, <1>3 DEF ConfirmInv

-----------------------------------------------------------------------------
(* How often a session key is hashed.  Every time but the first was        *)
(* preceded by a Confirm2 under a key derived from the session key as it   *)
(* was then, with a nonce of its own: an initiator confirms one key per    *)
(* nonce, for it leaves INITIATINGSECURE with that, and never uses a nonce *)
(* twice.                                                                  *)

Committing(e) == ep[e].state = "INITIATINGSECURE" /\ ep[e].pubkeyscheme = "mult"

CommittingInv ==
    \A e \in Endpoints : Committing(e) =>
        /\ ep[e].hv > 0
        /\ \E c \in Commits : c.nonce = ep[e].hv
        /\ \A m \in MultConfirms : m.key.nonce # ep[e].hv
        /\ \A o \in Endpoints : o # e /\ Committing(o) => ep[o].hv # ep[e].hv

NonceInv ==
    \A m \in MultConfirms :
        /\ m.key.nonce > 0
        /\ \E c \in Commits : c.nonce = m.key.nonce
        /\ \A o \in MultConfirms : o.key.nonce = m.key.nonce => o.key = m.key

HashInv ==
    \A e \in Endpoints :
        /\ ep[e].zrtpsess # NONE =>
               \A l \in 1 .. ep[e].zrtpsess.hashed - 1 :
                   \E m \in MultConfirms : m.key.sess.hashed = l
        /\ ep[e].state = "WAIT_CONFIRM1" => ep[e].key.sess = NONE
        /\ ep[e].state \in {"WAIT_CONFIRMACK", "SECURE"} /\ ep[e].key.sess # NONE =>
               \E m \in MultConfirms : m.key = ep[e].key

CountInv == CommittingInv /\ NonceInv /\ HashInv

(* The steps that neither commit nor confirm. *)
LEMMA OtherMessages ==
    ASSUME HandshakeInv, NEW e \in Endpoints, Step(e), ~Initiates(e), ~Confirms(e)
    PROVE  Commits' = Commits /\ MultConfirms' = MultConfirms
<1>1. CASE Adds({}) \/ Adds({Plain(e, "DHPART1")})
  BY <1>1, AddsNone
<1>2. CASE \E k : Adds({Keyed(e, "CONFIRM1", k)})
  BY <1>2, AddsConfirm
<1>3. QED
  BY <1>1, <1>2 DEF Step, Stays, Starts, Discovers, Responds, Derives, Secures, Clears,
                    Fails, GivesUpLate

LEMMA FreshNonce ==
    ASSUME NEW n \in FreshNonces
    PROVE  n \in 1 .. MaxNonces /\ \A c \in Commits : c.nonce # n
  BY DEF FreshNonces, Commits

LEMMA CommittingStep ==
    ASSUME HandshakeInv, CountInv, NEW e \in Endpoints, Step(e)
    PROVE  CommittingInv'
<1>1. \A o \in Endpoints : o # e => (Committing(o)' <=> Committing(o)) /\ ep'[o] = ep[o]
  BY StepFrame DEF Committing
<1>2. CASE Initiates(e)
  <2> DEFINE n == ep'[e].hv
  <2>1. PICK scheme : Adds({Commit(e, scheme, n)})
    BY <1>2 DEF Initiates
  <2>2. Commits' = Commits \cup {Commit(e, scheme, n)} /\ MultConfirms' = MultConfirms
    BY <2>1, AddsCommit
  <2>3. Commit(e, scheme, n).nonce = n
    BY OwnMessages
  <2>4. Committing(e)' => n \in FreshNonces
    BY <1>2, HandshakeAssumption DEF Initiates, Committing
  <2>5. Committing(e)' => n > 0 /\ \A c \in Commits : c.nonce # n
    BY <2>4, FreshNonce, HandshakeAssumption
  <2> HIDE DEF n
  <2>6. Committing(e)' => \A m \in MultConfirms : m.key.nonce # n
    BY <2>5 DEF CountInv, NonceInv
  <2>7. \A o \in Endpoints : o # e /\ Committing(e)' /\ Committing(o) => ep[o].hv # n
    BY <2>5 DEF CountInv, CommittingInv
  <2>8. n = ep'[e].hv
    BY DEF n
  <2>9. QED
    BY <1>1, <2>2, <2>3, <2>5, <2>6, <2>7, <2>8 DEF CountInv, CommittingInv
<1>3. CASE Confirms(e)
  <2> DEFINE k == ep'[e].key
             x == Keyed(e, "CONFIRM2", k)
  <2>1. Adds({x}) /\ ~Committing(e)'
    BY <1>3 DEF Confirms, Committing
  <2>2. Commits' = Commits /\ x.key = k
    <3>1. Commits' = Commits
      BY <2>1, AddsConfirm
    <3>2. x.key = k
      BY OwnMessages
    <3>3. QED
      BY <3>1, <3>2
  <2>3. MultConfirms' \subseteq MultConfirms \cup {x}
        /\ (k.sess = NONE => MultConfirms' = MultConfirms)
    BY <2>1, AddsConfirm
  <2>4. \A o \in Endpoints : o # e /\ Committing(o) /\ k.sess # NONE => k.nonce # ep[o].hv
    <3>1. CASE ep[e].state = "WAIT_CONFIRM1" /\ k = ep[e].key
      BY <3>1 DEF CountInv, HashInv
    <3>2. CASE Committing(e) /\ k = MultKey(e, ep[e].hv, ep[e])
      <4>1. k.nonce = ep[e].hv
        BY <3>2 DEF MultKey
      <4>2. QED
        BY <3>2, <4>1 DEF CountInv, CommittingInv
    <3>3. QED
      BY <1>3, <3>1, <3>2 DEF Confirms, Committing
  <2> HIDE DEF k, x
  <2>5. QED
    BY <1>1, <2>1, <2>2, <2>3, <2>4 DEF CountInv, CommittingInv
<1>4. CASE ~Initiates(e) /\ ~Confirms(e)
  <2>1. Commits' = Commits /\ MultConfirms' = MultConfirms
    BY <1>4, OtherMessages
  <2>2. Committing(e)' => Committing(e) /\ ep'[e].hv = ep[e].hv
    BY <1>4 DEF Step, Stays, Starts, Discovers, Responds, Derives, Secures, Clears,
                    Fails, GivesUpLate, Committing, IdleStates, ClearingStates, ErrorStates
  <2>3. QED
    BY <1>1, <2>1, <2>2 DEF CountInv, CommittingInv
<1>5. QED
  BY <1>2, <1>3, <1>4

(* The Confirm2 of an initiator. *)
LEMMA ConfirmsKey ==
    ASSUME HandshakeInv, CountInv, NEW e \in Endpoints, Confirms(e)
    PROVE  LET k == ep'[e].key
               x == Keyed(e, "CONFIRM2", k)
           IN  /\ Commits' = Commits /\ x.key = k
               /\ k.sess = NONE => MultConfirms' = MultConfirms
               /\ k.sess # NONE =>
                     /\ MultConfirms' = MultConfirms \cup {x}
                     /\ k.nonce > 0 /\ \E c \in Commits : c.nonce = k.nonce
                     /\ \A m \in MultConfirms : m.key.nonce # k.nonce
<1> DEFINE k == ep'[e].key
<1>1. Adds({Keyed(e, "CONFIRM2", k)})
  BY DEF Confirms
<1>2. CASE ep[e].state = "WAIT_CONFIRM1" /\ k = ep[e].key
  <2>1. k.sess = NONE
    BY <1>2 DEF CountInv, HashInv
  <2>2. QED
    BY <1>1, <2>1, AddsConfirm, OwnMessages
<1>3. CASE Committing(e) /\ k = MultKey(e, ep[e].hv, ep[e])
  <2>1. k.nonce = ep[e].hv
    BY <1>3 DEF MultKey
  <2>2. k.nonce > 0 /\ (\E c \in Commits : c.nonce = k.nonce)
        /\ \A m \in MultConfirms : m.key.nonce # k.nonce
    BY <1>3, <2>1 DEF CountInv, CommittingInv
  <2> HIDE DEF k
  <2>3. QED
    BY <1>1, <2>2, AddsConfirm, OwnMessages DEF k
<1>4. QED
  BY <1>2, <1>3 DEF Confirms, Committing

LEMMA NonceStep ==
    ASSUME HandshakeInv, CountInv, NEW e \in Endpoints, Step(e)
    PROVE  NonceInv'
<1>1. CASE Initiates(e)
  <2>1. PICK scheme, n : Adds({Commit(e, scheme, n)})
    BY <1>1 DEF Initiates
  <2>2. Commits \subseteq Commits' /\ MultConfirms' = MultConfirms
    BY <2>1, AddsCommit
  <2>3. QED
    BY <2>2 DEF CountInv, NonceInv
<1>2. CASE Confirms(e)
  <2> DEFINE k == ep'[e].key
             x == Keyed(e, "CONFIRM2", k)
  <2>1. /\ Commits' = Commits /\ x.key = k
        /\ k.sess = NONE => MultConfirms' = MultConfirms
        /\ k.sess # NONE =>
              /\ MultConfirms' = MultConfirms \cup {x}
              /\ k.nonce > 0 /\ \E c \in Commits : c.nonce = k.nonce
              /\ \A m \in MultConfirms : m.key.nonce # k.nonce
    BY <1>2, ConfirmsKey
  <2> HIDE DEF k, x
  <2>2. QED
    BY <2>1 DEF CountInv, NonceInv
<1>3. CASE ~Initiates(e) /\ ~Confirms(e)
  BY <1>3, OtherMessages DEF CountInv, NonceInv
<1>4. QED
  BY <1>1, <1>2, <1>3

LEMMA MultConfirmsGrows ==
    ASSUME net \subseteq net'
    PROVE  MultConfirms \subseteq MultConfirms'
  BY DEF MultConfirms

LEMMA HashStep ==
    ASSUME HandshakeInv, CountInv, NEW e \in Endpoints, Step(e)
    PROVE  HashInv'
<1>1. /\ \A o \in Endpoints : o # e => ep'[o] = ep[o]
      /\ MultConfirms \subseteq MultConfirms'
      /\ ep[e] \in Records /\ ep'[e] \in Records /\ Fits(ep[e])
  BY StepFrame, MultConfirmsGrows
<1>2. ep'[e].zrtpsess # NONE =>
          \A l \in 1 .. ep'[e].zrtpsess.hashed - 1 :
              \E m \in MultConfirms' : m.key.sess.hashed = l
  <2>1. CASE ep'[e].zrtpsess = ep[e].zrtpsess
    BY <1>1, <2>1 DEF CountInv, HashInv
  <2>2. CASE Derives(e)
    <3>1. ep'[e].zrtpsess.hashed = 0
      BY <2>2 DEF Derives
    <3>2. QED
      BY <3>1
  <2>3. CASE Clears(e)
    <3> DEFINE h == ep[e].zrtpsess.hashed
    <3>1. ep[e].zrtpsess \in SomeSessions /\ ep[e].state = "SECURE"
          /\ Level(ep[e].key) = h
      BY <1>1, <2>3 DEF Clears, Fits, SessionFits, KeyedStates
    <3>2. h \in Nat /\ ep'[e].zrtpsess.hashed = h + 1
      BY <2>3, <3>1 DEF Clears, SomeSessions
    <3>3. ep[e].zrtpsess # NONE
      BY <3>1, HandshakeAssumption DEF SomeSessions
    <3>4. h > 0 => \E m \in MultConfirms : m.key.sess.hashed = h
      BY <3>1 DEF Level, CountInv, HashInv
    <3>5. \A l \in 1 .. h - 1 : \E m \in MultConfirms : m.key.sess.hashed = l
      BY <3>3 DEF CountInv, HashInv
    <3> HIDE DEF h
    <3>6. \A l \in 1 .. h : l = h \/ l \in 1 .. h - 1
      BY <3>2
    <3>7. QED
      BY <1>1, <3>2, <3>4, <3>5, <3>6
  <2>4. QED
    BY <2>1, <2>2, <2>3 DEF Step, Stays, Starts, Discovers, Initiates, Responds, Confirms,
          Secures, Fails, GivesUpLate, KeepsSession
<1>3. ep'[e].state = "WAIT_CONFIRM1" => ep'[e].key.sess = NONE
  <2>1. DhKey(e).sess = NONE
    BY KeyTypes
  <2>2. QED
    BY <2>1 DEF Step, Stays, Starts, Discovers, Initiates, Responds, Derives, Confirms, Secures,
          Clears, Fails, GivesUpLate, IdleStates, ClearingStates, ErrorStates, CountInv, HashInv
<1>4. ep'[e].state \in {"WAIT_CONFIRMACK", "SECURE"} /\ ep'[e].key.sess # NONE =>
          \E m \in MultConfirms' : m.key = ep'[e].key
  <2>1. CASE Stays(e)
    BY <1>1, <2>1 DEF Stays, CountInv, HashInv
  <2>2. CASE Confirms(e)
    BY <2>2, ConfirmsKey
  <2>3. CASE Secures(e)
    <3>1. ep'[e].key = ep[e].key
      BY <2>3 DEF Secures
    <3>2. CASE ep[e].state = "WAIT_CONFIRMACK"
      BY <1>1, <3>1, <3>2 DEF CountInv, HashInv
    <3>3. CASE \E m \in Received(e, "CONFIRM2") : m.key = ep[e].key
      <4>1. PICK m \in Received(e, "CONFIRM2") : m.key = ep[e].key
        BY <3>3
      <4>2. ep[e].key.sess # NONE => m \in MultConfirms
        BY <4>1 DEF MultConfirms, Received
      <4>3. QED
        BY <1>1, <3>1, <4>1, <4>2
    <3>4. QED
      BY <2>3, <3>2, <3>3 DEF Secures
  <2>4. QED
    BY <2>1, <2>2, <2>3 DEF Step, Starts, Discovers, Initiates, Responds, Derives, Clears,
          Fails, GivesUpLate, IdleStates, ClearingStates, ErrorStates
<1>5. QED
  BY <1>1, <1>2, <1>3, <1>4 DEF CountInv, HashInv

(* As many hashes as nonces, and the one after a DH exchange. *)
LEMMA SessionBound ==
    ASSUME HandshakeInv, CountInv, NEW e \in Endpoints
    PROVE  ep[e].zrtpsess \in Sessions \cup {NONE}
<1> DEFINE h == ep[e].zrtpsess.hashed
<1> SUFFICES ASSUME ep[e].zrtpsess # NONE, ep[e].zrtpsess \in SomeSessions
             PROVE  h \in 0 .. MaxNonces + 1
  BY EndpointFits DEF Records, SomeSessions, Sessions
<1>1. h \in Nat /\ MaxNonces \in Nat
  BY HandshakeAssumption DEF SomeSessions
<1>2. \A l \in 1 .. h - 1 : \E m \in MultConfirms : m.key.sess.hashed = l
  BY DEF CountInv, HashInv
<1> DEFINE F == [l \in 1 .. h - 1 |->
                    (CHOOSE m \in MultConfirms : m.key.sess.hashed = l).key.nonce]
           M(l) == CHOOSE m \in MultConfirms : m.key.sess.hashed = l
<1>3. \A l \in 1 .. h - 1 : M(l) \in MultConfirms /\ M(l).key.sess.hashed = l
  BY <1>2
<1>4. \A m \in MultConfirms : m.key.nonce \in 1 .. MaxNonces
  <2>1. \A m \in MultConfirms : m.key \in SomeKeys
    BY MessageFields DEF HandshakeInv, MultConfirms
  <2>2. \A m \in MultConfirms : m.key.nonce \in 0 .. MaxNonces /\ m.key.nonce > 0
    BY <2>1 DEF SomeKeys, CountInv, NonceInv
  <2>3. QED
    BY <1>1, <2>2
<1>5. \A l \in 1 .. h - 1 : F[l] = M(l).key.nonce
  OBVIOUS
<1>6. F \in [1 .. h - 1 -> 1 .. MaxNonces]
  <2>1. \A l \in 1 .. h - 1 : M(l).key.nonce \in 1 .. MaxNonces
    BY <1>3, <1>4
  <2>2. QED
    BY <2>1
<1> HIDE DEF F, M
<1>7. F \in Injection(1 .. h - 1, 1 .. MaxNonces)
  <2>1. ASSUME NEW l \in 1 .. h - 1, NEW o \in 1 .. h - 1, F[l] = F[o]
        PROVE  l = o
    <3>1. M(l).key.nonce = M(o).key.nonce
      BY <1>5, <2>1
    <3>2. M(l).key = M(o).key
      BY <1>3, <3>1 DEF CountInv, NonceInv
    <3>3. QED
      BY <1>3, <3>2
  <2>2. QED
    BY <1>6, <2>1 DEF Injection, IsInjective
<1>8. /\ IsFiniteSet(1 .. MaxNonces) /\ Cardinality(1 .. MaxNonces) = MaxNonces
      /\ h > 0 => Cardinality(1 .. h - 1) = h - 1
  <2> HIDE DEF h
  <2>1. \A n \in Nat : IsFiniteSet(1 .. n) /\ Cardinality(1 .. n) = n
    <3> TAKE n \in Nat
    <3>1. 1 \in Int /\ n \in Int
      OBVIOUS
    <3>2. /\ IsFiniteSet(1 .. n)
          /\ Cardinality(1 .. n) = IF 1 > n THEN 0 ELSE n - 1 + 1
      BY ONLY <3>1, FS_Interval
    <3>3. QED
      BY <3>2
  <2>2. h > 0 => h - 1 \in Nat
    BY <1>1
  <2>3. QED
    BY <1>1, <2>1, <2>2
<1>9. Cardinality(1 .. h - 1) <= Cardinality(1 .. MaxNonces)
  BY <1>7, <1>8, FS_Injection
<1> HIDE DEF h
<1>10. QED
  BY <1>1, <1>8, <1>9

KeyedTypes == {"CONFIRM1", "CONFIRM2", "GOCLEAR"}

(* All keys are of session keys within the bound. *)
KeysInv ==
    /\ \A e \in Endpoints : ep[e].key \in Keys \cup {NONE}
    /\ \A m \in net : m.type \in KeyedTypes => m.key \in Keys
    /\ \A e \in Endpoints : used[e] \subseteq Keys

LEMMA NoneIsNoKey == NONE \notin SomeKeys
<1>1. \A k \in SomeKeys :
        k \in [by : Endpoints, nonce : Nat, sess : [by : Endpoints, hashed : Nat] \cup {NONE}]
  BY HandshakeAssumption DEF SomeKeys, SomeSessions
<1>2. QED
  BY <1>1, HandshakeAssumption

LEMMA KeyBound ==
    ASSUME NEW k \in SomeKeys, k.sess \in Sessions \cup {NONE}
    PROVE  k \in Keys
  BY DEF SomeKeys, Keys

LEMMA NewKey ==
    ASSUME HandshakeInv, CountInv, KeysInv, NEW e \in Endpoints, Step(e)
    PROVE  ep'[e].key \in Keys \cup {NONE}
<1>1. ep[e].zrtpsess \in Sessions \cup {NONE}
  BY SessionBound
<1>2. ep[e] \in Records /\ ep'[e] \in Records /\ ep'[e].key \in SomeKeys \cup {NONE}
  BY StepFrame DEF Records
<1>3. \/ ep'[e].key \in {ep[e].key, NONE}
      \/ ep'[e].key.sess \in {NONE, ep[e].zrtpsess}
  <2>1. /\ DhKey(e).sess = NONE /\ DhKey(Peer(e)).sess = NONE
        /\ \A o, n : MultKey(o, n, ep[e]).sess = ep[e].zrtpsess
    BY DEF DhKey, MultKey
  <2>2. CASE Responds(e) \/ Derives(e) \/ Confirms(e)
    BY <2>1, <2>2 DEF Responds, Derives, Confirms
  <2>3. QED
    BY <2>2 DEF Step, Stays, Starts, Discovers, Initiates, Secures, Clears, Fails, GivesUpLate
<1>4. CASE ep'[e].key \in {ep[e].key, NONE}
  BY <1>4 DEF KeysInv
<1>5. CASE ep'[e].key \in SomeKeys /\ ep'[e].key.sess \in {NONE, ep[e].zrtpsess}
  BY <1>1, <1>5, KeyBound
<1>6. QED
  BY <1>2, <1>3, <1>4, <1>5

LEMMA KeysStep ==
    ASSUME HandshakeInv, CountInv, KeysInv, NEW e \in Endpoints, Step(e)
    PROVE  KeysInv'
<1>1. ep'[e].key \in Keys \cup {NONE} /\ ep[e].key \in Keys \cup {NONE}
  BY NewKey DEF KeysInv
<1>2. \A o \in Endpoints : ep'[o].key \in Keys \cup {NONE}
  BY <1>1, StepFrame DEF KeysInv
<1>3. ASSUME NEW m \in net', m.type \in KeyedTypes
      PROVE  m.key \in Keys
  <2>1. CASE m \in net
    BY <1>3, <2>1 DEF KeysInv
  <2>2. CASE m \notin net
    <3>1. m.key \in {ep[e].key, ep'[e].key}
      BY <1>3, <2>2 DEF Step, OwnKeys, KeyedTypes
    <3>2. m.key \in SomeKeys /\ m.key \in Keys \cup {NONE}
      BY <1>1, <1>3, <3>1, StepFrame, MessageFields DEF KeyedTypes
    <3>3. QED
      BY <3>2, NoneIsNoKey
  <2>3. QED
    BY <2>1, <2>2
<1>4. ASSUME NEW o \in Endpoints
      PROVE  used'[o] \subseteq Keys
  <2>1. CASE Secures(e)
    <3>1. ep[e].key \in SomeKeys
      BY <2>1, StepFrame DEF Secures, Fits, SessionFits, KeyedStates
    <3>2. ep[e].key \in Keys /\ used' = [used EXCEPT ![e] = @ \cup {ep[e].key}]
      BY <1>1, <2>1, <3>1, NoneIsNoKey DEF Secures
    <3>3. used' \in [Endpoints -> SUBSET SomeKeys] /\ used \in [Endpoints -> SUBSET SomeKeys]
      BY StepFrame DEF Step
    <3>4. QED
      BY <3>2, <3>3 DEF KeysInv
  <2>2. CASE used' = used
    BY <2>2 DEF KeysInv
  <2>3. QED
    BY <2>1, <2>2 DEF Step, Stays, Starts, Discovers, Initiates, Responds, Derives, Confirms,
          Clears, Fails, GivesUpLate
<1>5. QED
  BY <1>2, <1>3, <1>4 DEF KeysInv

LEMMA KeysImplyTypes ==
    ASSUME HandshakeInv, CountInv, KeysInv
    PROVE  TypeOK
<1>1. \A e \in Endpoints : ep[e].zrtpsess \in Sessions \cup {NONE}
  BY SessionBound
<1>2. ASSUME NEW e \in Endpoints
      PROVE  ep[e] \in EndpointRecords
  <2>1. ep[e] \in Records /\ ep[e].key \in Keys \cup {NONE}
    BY EndpointFits DEF KeysInv
  <2>2. QED
    BY <1>1, <2>1 DEF Records, EndpointRecords, TimerRecords
<1>3. ASSUME NEW m \in net
      PROVE  m \in Messages
  <2>1. m \in SomeMessages /\ (m.type \in KeyedTypes => m.key \in Keys)
    BY DEF HandshakeInv, KeysInv
  <2>2. QED
    BY <2>1 DEF SomeMessages, Messages, KeyedTypes
<1>4. ep \in [Endpoints -> EndpointRecords]
  BY <1>2 DEF HandshakeInv
<1>5. QED
  BY <1>3, <1>4 DEF TypeOK, KeysInv

-----------------------------------------------------------------------------
(* Invariants of both schedules.                                           *)

CommonInv == HandshakeInv /\ ConfirmInv /\ CountInv /\ KeysInv

LEMMA CommonInit ==
    ASSUME Init
    PROVE  CommonInv
<1>1. HandshakeInv /\ net = {}
  BY HandshakeInvInit DEF Init
<1>2. \A e \in Endpoints : /\ ep[e].state = "ACTIVE" /\ ep[e].key = NONE
                           /\ ep[e].zrtpsess = NONE /\ used[e] = {}
  BY DEF Init
<1>3. ConfirmInv /\ KeysInv
  BY <1>1, <1>2 DEF ConfirmInv, KeysInv
<1>4. CountInv
  BY <1>1, <1>2 DEF CountInv, CommittingInv, NonceInv, HashInv, Committing, MultConfirms, Commits
<1>5. QED
  BY <1>1, <1>3, <1>4 DEF CommonInv

LEMMA CommonStep ==
    ASSUME CommonInv, NEW e \in Endpoints, Step(e)
    PROVE  CommonInv'
  BY StepKeepsInv, ConfirmInvStep, CommittingStep, NonceStep, HashStep, KeysStep
     DEF CommonInv, CountInv

LEMMA CommonStutter ==
    ASSUME CommonInv, UNCHANGED vars
    PROVE  CommonInv'
<1>1. ep' = ep /\ net' = net /\ used' = used
  BY DEF vars
<1>2. /\ Commits' = Commits /\ MultConfirms' = MultConfirms
      /\ \A e \in Endpoints : ConfirmedBy(e)' = ConfirmedBy(e)
  BY <1>1 DEF Commits, MultConfirms, ConfirmedBy
<1>3. HandshakeInv' /\ ConfirmInv' /\ KeysInv'
  BY <1>1, <1>2, HandshakeInvStutter DEF CommonInv, ConfirmInv, KeysInv
<1>4. CountInv'
  BY <1>1, <1>2 DEF CommonInv, CountInv, CommittingInv, NonceInv, HashInv, Committing
<1>5. QED
  BY <1>3, <1>4 DEF CommonInv

(* Under every scheduling: a key in use was confirmed, no two Multistream   *)
(* Commits share a nonce, and the number of nonces bounds how often a       *)
(* session key was hashed (src/zrtp_engine.c:998).                        *)
THEOREM CommonInvariant == Spec => []CommonInv
<1>1. CommonInv /\ [Next]_vars => CommonInv'
  BY NextStep, CommonStep, CommonStutter DEF CommonInv
<1>2. QED
  BY CommonInit, <1>1, PTL DEF Spec

(* The types, and: a session key is hashed at most once per Multistream    *)
(* Commit and once after the DH exchange (src/zrtp_engine.c:998), however  *)
(* often the streams fail, are started again or cleared.                   *)
THEOREM TypesAlwaysOK == Spec => []TypeOK
<1>1. CommonInv => TypeOK
  BY KeysImplyTypes DEF CommonInv
<1>2. QED
  BY CommonInvariant, <1>1, PTL

(* First half of KeysAgree: an endpoint in SECURE has a key under which    *)
(* both have sent a Confirm; no schedule of callbacks, no stale message    *)
(* and no restart gets it there without.                                   *)
SecureIsConfirmed ==
    \A e \in Endpoints : In(e, {"SECURE"}) =>
        \A o \in Endpoints : ep[e].key \in ConfirmedBy(o)

THEOREM SecureAlwaysConfirmed == Spec => []SecureIsConfirmed
<1>1. CommonInv => SecureIsConfirmed
  BY DEF CommonInv, ConfirmInv, SecureIsConfirmed, In
<1>2. QED
  BY CommonInvariant, <1>1, PTL

-----------------------------------------------------------------------------
(* One key per level.  An endpoint whose stream was started once confirms  *)
(* one key for every number of times its session key has been hashed:      *)
(* after a Confirm it is secure, and then cleared and hashed, or in error. *)
(* This needs the prompt schedule, in which no late hello callback takes   *)
(* it back to NO_ZRTP.                                                     *)

SessionLevel(e) == IF ep[e].zrtpsess = NONE THEN 0 ELSE ep[e].zrtpsess.hashed

PastStates == {"WAIT_CONFIRM2", "WAIT_CONFIRMACK", "SECURE"} \cup ErrorStates

OneKeyPerLevel(e) ==
    \A k \in ConfirmedBy(e) :
        /\ Level(k) <= SessionLevel(e)
        /\ ep[e].state \notin PastStates => Level(k) < SessionLevel(e)
        /\ \A l \in ConfirmedBy(e) : Level(k) = Level(l) => k = l

UsedPast(e) ==
    \A k \in used[e] :
        /\ Level(k) <= SessionLevel(e)
        /\ ep[e].state \notin {"SECURE"} \cup ErrorStates => Level(k) < SessionLevel(e)

LevelInv ==
    \A e \in Endpoints : ep[e].starts <= 1 => OneKeyPerLevel(e) /\ UsedPast(e)

LEMMA LevelTypes ==
    ASSUME HandshakeInv, NEW e \in Endpoints
    PROVE  /\ SessionLevel(e) \in Nat
           /\ \A k \in SomeKeys : Level(k) \in Nat
           /\ ConfirmedBy(e) \subseteq SomeKeys /\ used[e] \subseteq SomeKeys
           /\ ep[e].state \in KeyedStates =>
                 ep[e].key \in SomeKeys /\ Level(ep[e].key) = SessionLevel(e)
<1>1. ep[e] \in Records /\ SessionFits(ep[e])
  BY EndpointFits DEF Fits
<1>2. SessionLevel(e) \in Nat
  BY <1>1 DEF SessionLevel, Records, SomeSessions
<1>3. \A k \in SomeKeys : Level(k) \in Nat
  BY DEF SomeKeys, Level, SomeSessions
<1>4. ConfirmedBy(e) \subseteq SomeKeys
  BY MessageFields DEF ConfirmedBy, HandshakeInv
<1>5. ep[e].state \in KeyedStates =>
          ep[e].key \in SomeKeys /\ Level(ep[e].key) = SessionLevel(e)
  BY <1>1, HandshakeAssumption DEF SessionFits, SessionLevel, SomeSessions
<1>6. QED
  BY <1>2, <1>3, <1>4, <1>5 DEF HandshakeInv

LEMMA StartsGrow ==
    ASSUME HandshakeInv, NEW e \in Endpoints, Step(e)
    PROVE  /\ ep[e].starts \in Nat /\ ep'[e].starts \in {ep[e].starts, ep[e].starts + 1}
           /\ ep'[e].starts <= 1 => ep[e].starts <= 1
           /\ ~Starts(e) => ep'[e].starts = ep[e].starts
           /\ Starts(e) => ep'[e].starts = ep[e].starts + 1
           /\ Starts(e) /\ ep'[e].starts <= 1 => ep[e].state = "ACTIVE"
<1>1. ep[e].starts \in Nat /\ (ep[e].starts = 0 => ep[e].state = "ACTIVE")
  BY StepFrame, HandshakeAssumption DEF Records, Fits, SessionFits
<1>2. Starts(e) => ep'[e].starts = ep[e].starts + 1
  BY DEF Starts
<1>3. ~Starts(e) => ep'[e].starts = ep[e].starts
  BY DEF Step, Stays, Discovers, Initiates, Responds, Derives, Confirms, Secures, Clears,
         Fails, GivesUpLate, KeepsSession
<1>4. QED
  BY <1>1, <1>2, <1>3

(* What an endpoint has confirmed after a step. *)
LEMMA ConfirmedAfter ==
    ASSUME HandshakeInv, ConfirmInv, NEW e \in Endpoints, Step(e)
    PROVE  /\ \A o \in Endpoints : o # e => ConfirmedBy(o)' = ConfirmedBy(o)
           /\ \/ ConfirmedBy(e)' = ConfirmedBy(e)
              \/ /\ ConfirmedBy(e)' = ConfirmedBy(e) \cup {ep'[e].key}
                 /\ ep'[e].state \in {"WAIT_CONFIRM2", "WAIT_CONFIRMACK"}
                 /\ Responds(e) \/ Derives(e) \/ Confirms(e)
<1>1. CASE Adds({}) \/ Adds({Plain(e, "DHPART1")})
  BY <1>1, AddsNone
<1>2. CASE \E scheme, n : Adds({Commit(e, scheme, n)})
  BY <1>2, AddsCommit
<1>3. CASE ep[e].state = "WAIT_CONFIRM2" /\ Adds({Keyed(e, "CONFIRM1", ep[e].key)})
  <2>1. ep[e].key \in ConfirmedBy(e)
    BY <1>3 DEF ConfirmInv
  <2>2. /\ ConfirmedBy(e)' = ConfirmedBy(e) \cup {ep[e].key}
        /\ \A o \in Endpoints : o # e => ConfirmedBy(o)' = ConfirmedBy(o)
    BY <1>3, AddsConfirm
  <2>3. QED
    BY <2>1, <2>2
<1>4. CASE /\ ep'[e].state \in {"WAIT_CONFIRM2", "WAIT_CONFIRMACK"}
           /\ Responds(e) \/ Derives(e) \/ Confirms(e)
           /\ \E type \in {"CONFIRM1", "CONFIRM2"} : Adds({Keyed(e, type, ep'[e].key)})
  BY <1>4, AddsConfirm
<1>5. QED
  BY <1>1, <1>2, <1>3, <1>4 DEF Step, Stays, Starts, Discovers, Initiates, Responds, Derives,
     Confirms, Secures, Clears, Fails, GivesUpLate

(* A new key is confirmed before no other of its level. *)
LEMMA NewKeyOfLevel ==
    ASSUME HandshakeInv, NEW e \in Endpoints, OneKeyPerLevel(e),
           ep[e].state \notin PastStates,
           NEW k \in SomeKeys, SessionLevel(e)' = SessionLevel(e), Level(k) = SessionLevel(e),
           ep'[e].state \in PastStates,
           ConfirmedBy(e)' = ConfirmedBy(e) \cup {k}
    PROVE  OneKeyPerLevel(e)'
<1>1. SessionLevel(e) \in Nat /\ \A l \in ConfirmedBy(e) : Level(l) \in Nat
  BY LevelTypes
<1>2. \A l \in ConfirmedBy(e) : Level(l) < SessionLevel(e)
  BY DEF OneKeyPerLevel
<1>3. \A l \in ConfirmedBy(e)' :
          /\ Level(l) <= SessionLevel(e)
          /\ \A m \in ConfirmedBy(e)' : Level(l) = Level(m) => l = m
  BY <1>1, <1>2 DEF OneKeyPerLevel
<1>4. QED
  BY <1>3 DEF OneKeyPerLevel

LEMMA LevelStep ==
    ASSUME HandshakeInv, ConfirmInv, LevelInv, NEW e \in Endpoints, Step(e), ~GivesUpLate(e)
    PROVE  LevelInv'
<1>1. ASSUME NEW o \in Endpoints, o # e, ep'[o].starts <= 1
      PROVE  OneKeyPerLevel(o)' /\ UsedPast(o)'
  <2>1. ep'[o] = ep[o] /\ ConfirmedBy(o)' = ConfirmedBy(o)
    BY <1>1, StepFrame, ConfirmedAfter
  <2>2. used'[o] = used[o]
    <3>1. CASE Secures(e)
      BY <1>1, <3>1, StepFrame DEF Secures
    <3>2. CASE used' = used
      BY <3>2
    <3>3. QED
      BY <3>1, <3>2 DEF Step, Stays, Starts, Discovers, Initiates, Responds, Derives,
            Confirms, Clears, Fails, GivesUpLate
  <2>3. QED
    BY <1>1, <2>1, <2>2 DEF LevelInv, OneKeyPerLevel, UsedPast, SessionLevel
<1>2. ASSUME ep'[e].starts <= 1
      PROVE  OneKeyPerLevel(e)' /\ UsedPast(e)'
  <2> DEFINE h == SessionLevel(e)
  <2>1. OneKeyPerLevel(e) /\ UsedPast(e) /\ ep[e].starts <= 1
    BY <1>2, StartsGrow DEF LevelInv
  <2>2. /\ h \in Nat
        /\ \A k \in ConfirmedBy(e) \cup used[e] : Level(k) \in Nat
        /\ ep[e].state \in KeyedStates =>
              ep[e].key \in SomeKeys /\ Level(ep[e].key) = h
    BY LevelTypes
  <2>3. /\ SessionLevel(e)' \in Nat
        /\ ep'[e].state \in KeyedStates =>
              ep'[e].key \in SomeKeys /\ Level(ep'[e].key) = SessionLevel(e)'
    <3>1. ep'[e] \in Records /\ SessionFits(ep'[e])
      BY StepFrame DEF Fits
    <3>2. SessionLevel(e)' = IF ep'[e].zrtpsess = NONE THEN 0 ELSE ep'[e].zrtpsess.hashed
      BY DEF SessionLevel
    <3>3. SessionLevel(e)' \in Nat
      BY <3>1, <3>2 DEF Records, SomeSessions
    <3>4. ep'[e].state \in KeyedStates =>
              ep'[e].key \in SomeKeys /\ Level(ep'[e].key) = SessionLevel(e)'
      BY <3>1, <3>2, HandshakeAssumption DEF SessionFits, SomeSessions
    <3>5. QED
      BY <3>3, <3>4
  <2>4. CASE /\ SessionLevel(e)' = h /\ used' = used
             /\ ConfirmedBy(e)' = ConfirmedBy(e)
             /\ \/ ep'[e].state = ep[e].state
                \/ ep'[e].state \in ErrorStates
                \/ ep[e].state \notin PastStates /\ ep'[e].state \notin PastStates
    BY <2>1, <2>4 DEF OneKeyPerLevel, UsedPast, PastStates
  <2>5. CASE /\ SessionLevel(e)' = h /\ used' = used
             /\ ConfirmedBy(e)' = ConfirmedBy(e) \cup {ep'[e].key}
             /\ ep[e].state \notin PastStates
             /\ ep'[e].state \in {"WAIT_CONFIRM2", "WAIT_CONFIRMACK"}
    <3>1. ep'[e].key \in SomeKeys /\ Level(ep'[e].key) = h
      BY <2>3, <2>5 DEF KeyedStates
    <3>2. OneKeyPerLevel(e)'
      BY <2>1, <2>5, <3>1, NewKeyOfLevel DEF PastStates
    <3>3. UsedPast(e)'
      BY <2>1, <2>5 DEF UsedPast, PastStates
    <3>4. QED
      BY <3>2, <3>3
  <2>6. CASE Secures(e)
    <3>1. /\ ep[e].state \in {"WAIT_CONFIRMACK", "WAIT_CONFIRM2"} /\ ep'[e].state = "SECURE"
          /\ used'[e] = used[e] \cup {ep[e].key} /\ SessionLevel(e)' = h
      BY <2>6, StepFrame DEF Secures, KeepsSession, SessionLevel
    <3>2. ConfirmedBy(e)' = ConfirmedBy(e)
      BY <2>6, AddsNone DEF Secures
    <3>3. OneKeyPerLevel(e)'
      BY <2>1, <3>1, <3>2 DEF OneKeyPerLevel, PastStates
    <3>4. \A k \in used'[e] : Level(k) <= h
      BY <2>1, <2>2, <3>1 DEF UsedPast, KeyedStates
    <3>5. UsedPast(e)'
      BY <3>1, <3>4 DEF UsedPast
    <3>6. QED
      BY <3>3, <3>5
  <2>7. CASE Clears(e)
    <3>1. ep[e].zrtpsess \in SomeSessions /\ ep[e].zrtpsess # NONE
      BY <2>7, StepFrame, HandshakeAssumption DEF Clears, Fits, SessionFits, KeyedStates,
            SomeSessions
    <3>2. /\ ep'[e].zrtpsess.hashed = ep[e].zrtpsess.hashed + 1
          /\ ep'[e].zrtpsess \in SomeSessions
      BY <2>7, <3>1 DEF Clears, SomeSessions
    <3>3. SessionLevel(e)' = h + 1
      BY <3>1, <3>2, HandshakeAssumption DEF SessionLevel, SomeSessions
    <3>4. ConfirmedBy(e)' = ConfirmedBy(e) /\ used' = used
      BY <2>7, AddsNone DEF Clears
    <3> HIDE DEF h
    <3>5. /\ \A k \in ConfirmedBy(e) : Level(k) <= h
          /\ \A k \in used[e] : Level(k) <= h
      BY <2>1 DEF OneKeyPerLevel, UsedPast, h
    <3>6. \A k \in ConfirmedBy(e) \cup used[e] : Level(k) < h + 1
      BY <2>2, <3>5
    <3>7. QED
      BY <2>1, <2>2, <3>3, <3>4, <3>6 DEF OneKeyPerLevel, UsedPast
  <2>8. CASE Derives(e)
    <3>1. /\ ep[e].zrtpsess = NONE /\ h = 0 /\ SessionLevel(e)' = 0
          /\ ep[e].state \in {"INITIATINGSECURE", "PENDINGSECURE"} /\ used' = used
      BY <2>8, HandshakeAssumption DEF Derives, SessionLevel
    <3>2. ep[e].state \notin PastStates
      BY <3>1 DEF PastStates, ErrorStates
    <3>3. ConfirmedBy(e) = {} /\ used[e] = {}
      BY <2>1, <2>2, <3>1, <3>2 DEF OneKeyPerLevel, UsedPast, PastStates
    <3>4. CASE ConfirmedBy(e)' = ConfirmedBy(e)
      BY <3>1, <3>3, <3>4 DEF OneKeyPerLevel, UsedPast
    <3>5. CASE /\ ConfirmedBy(e)' = ConfirmedBy(e) \cup {ep'[e].key}
               /\ ep'[e].state \in {"WAIT_CONFIRM2", "WAIT_CONFIRMACK"}
      BY <2>5, <3>1, <3>2, <3>5
    <3>6. QED
      BY <3>4, <3>5, ConfirmedAfter
  <2>9. CASE Stays(e) \/ Starts(e) \/ Discovers(e) \/ Initiates(e) \/ Fails(e)
    <3>1. SessionLevel(e)' = h /\ used' = used
      BY <2>9 DEF Stays, Starts, Discovers, Initiates, Fails, KeepsSession, SessionLevel
    <3>2. /\ Starts(e) => ep[e].state = "ACTIVE"
      BY <1>2, StartsGrow
    <3>3. \/ ep'[e].state = ep[e].state
          \/ ep'[e].state \in ErrorStates
          \/ ep[e].state \notin PastStates /\ ep'[e].state \notin PastStates
      BY <2>9, <3>2 DEF Stays, Starts, Discovers, Initiates, Fails, PastStates, ErrorStates,
            IdleStates, ClearingStates
    <3>4. ConfirmedBy(e)' = ConfirmedBy(e)
      <4>1. CASE Stays(e)
        <5>1. CASE ep[e].state = "WAIT_CONFIRM2" /\ Adds({Keyed(e, "CONFIRM1", ep[e].key)})
          <6>1. ep[e].key \in ConfirmedBy(e)
            BY <5>1 DEF ConfirmInv
          <6>2. ConfirmedBy(e)' = ConfirmedBy(e) \cup {ep[e].key}
            BY <5>1, AddsConfirm
          <6>3. QED
            BY <6>1, <6>2
        <5>2. QED
          BY <4>1, <5>1, AddsNone DEF Stays
      <4>2. CASE Initiates(e)
        BY <4>2, AddsCommit DEF Initiates
      <4>3. QED
        BY <2>9, <4>1, <4>2, AddsNone DEF Starts, Discovers, Fails
    <3>5. QED
      BY <2>4, <3>1, <3>3, <3>4
  <2>10. CASE Responds(e) \/ Confirms(e)
    <3>1. SessionLevel(e)' = h /\ used' = used
      BY <2>10 DEF Responds, Confirms, KeepsSession, SessionLevel
    <3>2. ep[e].state \notin PastStates
      BY <2>10 DEF Responds, Confirms, PastStates, ErrorStates
    <3>3. CASE /\ ConfirmedBy(e)' = ConfirmedBy(e) \cup {ep'[e].key}
               /\ ep'[e].state \in {"WAIT_CONFIRM2", "WAIT_CONFIRMACK"}
      BY <2>5, <3>1, <3>2, <3>3
    <3>4. CASE ep'[e].state = "PENDINGSECURE" /\ Responds(e)
      <4>1. ConfirmedBy(e)' = ConfirmedBy(e)
        BY <3>4, AddsNone DEF Responds
      <4>2. ep'[e].state \notin PastStates
        BY <3>4 DEF PastStates, ErrorStates
      <4>3. QED
        BY <2>4, <3>1, <3>2, <4>1, <4>2
    <3>5. CASE ep'[e].state # "PENDINGSECURE" \/ ~Responds(e)
      <4>1. /\ ConfirmedBy(e)' = ConfirmedBy(e) \cup {ep'[e].key}
            /\ ep'[e].state \in {"WAIT_CONFIRM2", "WAIT_CONFIRMACK"}
        BY <2>10, <3>5, AddsConfirm DEF Responds, Confirms
      <4>2. QED
        BY <3>3, <4>1
    <3>6. QED
      BY <3>4, <3>5
  <2>11. QED
    BY <2>6, <2>7, <2>8, <2>9, <2>10 DEF Step
<1>3. QED
  BY <1>1, <1>2 DEF LevelInv

(* KeysAgree and the levels, for any schedule that keeps LevelInv. *)
PromptInv == CommonInv /\ Prompt /\ LevelInv

LEMMA PromptKeysInit ==
    ASSUME Init
    PROVE  PromptInv
<1>1. CommonInv /\ Prompt
  BY CommonInit, PromptInit
<1>2. \A e \in Endpoints : ConfirmedBy(e) = {} /\ used[e] = {}
  BY DEF Init, ConfirmedBy
<1>3. LevelInv
  BY <1>2 DEF LevelInv, OneKeyPerLevel, UsedPast
<1>4. QED
  BY <1>1, <1>3 DEF PromptInv

LEMMA PromptKeysStutter ==
    ASSUME PromptInv, UNCHANGED vars
    PROVE  PromptInv'
<1>1. ep' = ep /\ net' = net /\ used' = used
  BY DEF vars
<1>2. CommonInv' /\ Prompt'
  BY <1>1, CommonStutter DEF PromptInv, Prompt
<1>3. \A e \in Endpoints : /\ ConfirmedBy(e)' = ConfirmedBy(e)
                           /\ SessionLevel(e)' = SessionLevel(e)
  BY <1>1 DEF ConfirmedBy, SessionLevel
<1>4. LevelInv'
  BY <1>1, <1>3 DEF PromptInv, LevelInv, OneKeyPerLevel, UsedPast
<1>5. QED
  BY <1>2, <1>4 DEF PromptInv

LEMMA PromptKeysStep ==
    ASSUME PromptInv, PromptNext
    PROVE  PromptInv' /\ \E e \in Endpoints : Step(e) /\ ~GivesUpLate(e)
<1>1. Prompt' /\ \E e \in Endpoints : Step(e) /\ ~GivesUpLate(e)
  BY PromptNextStep DEF PromptInv, CommonInv
<1>2. PICK e \in Endpoints : Step(e) /\ ~GivesUpLate(e)
  BY <1>1
<1>3. CommonInv' /\ LevelInv'
  BY <1>2, CommonStep, LevelStep DEF PromptInv, CommonInv
<1>4. QED
  BY <1>1, <1>3 DEF PromptInv

(* In the prompt schedule an endpoint confirms one key per level and uses  *)
(* no level twice: it is secure once per number of times its session key   *)
(* has been hashed (src/zrtp_engine.c:998).                                *)
THEOREM OneKeyOfEveryLevel == PromptSpec => []PromptInv
<1>1. PromptInv /\ [PromptNext]_vars => PromptInv'
  BY PromptKeysStep, PromptKeysStutter
<1>2. QED
  BY PromptKeysInit, <1>1, PTL DEF PromptSpec

LEMMA KeysAgreeFollows ==
    ASSUME PromptInv
    PROVE  KeysAgree
<1> SUFFICES ASSUME NEW e \in Endpoints, ep[e].state = "SECURE"
             PROVE  /\ \A o \in Endpoints : ep[e].key \in ConfirmedBy(o)
                    /\ (\A o \in Endpoints : ep[o].starts <= 1)
                          /\ ep[Peer(e)].state = "SECURE" => ep[Peer(e)].key = ep[e].key
  BY DEF KeysAgree, In
<1>1. \A o \in Endpoints : ep[e].key \in ConfirmedBy(o)
  BY DEF PromptInv, CommonInv, ConfirmInv
<1>2. ASSUME \A o \in Endpoints : ep[o].starts <= 1, ep[Peer(e)].state = "SECURE"
      PROVE  ep[Peer(e)].key = ep[e].key
  <2> DEFINE k == ep[e].key
             l == ep[Peer(e)].key
  <2>1. Peer(e) \in Endpoints
    BY PeerIsTheOther
  <2>2. \A o \in Endpoints : k \in ConfirmedBy(o) /\ l \in ConfirmedBy(o)
    BY <1>1, <1>2, <2>1 DEF PromptInv, CommonInv, ConfirmInv
  <2>3. /\ k \in SomeKeys /\ Level(k) = SessionLevel(e)
        /\ l \in SomeKeys /\ Level(l) = SessionLevel(Peer(e))
    BY <1>2, <2>1, LevelTypes DEF PromptInv, CommonInv, KeyedStates
  <2>4. Level(k) \in Nat /\ Level(l) \in Nat
    BY <2>3, LevelTypes DEF PromptInv, CommonInv
  <2>5. OneKeyPerLevel(e) /\ OneKeyPerLevel(Peer(e))
    BY <1>2, <2>1 DEF PromptInv, LevelInv
  <2>6. Level(l) <= Level(k) /\ Level(k) <= Level(l)
    BY <2>1, <2>2, <2>3, <2>5 DEF OneKeyPerLevel
  <2>7. Level(k) = Level(l)
    BY <2>4, <2>6
  <2>8. QED
    BY <2>2, <2>5, <2>7 DEF OneKeyPerLevel
<1>3. QED
  BY <1>1, <1>2

(* An endpoint in SECURE has a key that both have confirmed, and the peer  *)
(* the same, whatever stale messages the handlers of                       *)
(* src/zrtp_initiator.c and src/zrtp_responder.c are given.                *)
THEOREM KeysAlwaysAgree == PromptSpec => []KeysAgree
<1>1. PromptInv => KeysAgree
  BY KeysAgreeFollows
<1>2. QED
  BY OneKeyOfEveryLevel, <1>1, PTL

-----------------------------------------------------------------------------
(* The handshake implements ZrtpAgreement.                                 *)

Confirmed == [e \in Endpoints |-> ConfirmedBy(e)]

SecureKey == [e \in Endpoints |-> IF In(e, {"SECURE"}) THEN ep[e].key ELSE NONE]

Restarted == {e \in Endpoints : ep[e].starts > 1}

LEMMA MapsInit ==
    ASSUME Init
    PROVE  Agreement!Init
<1>1. Confirmed = [e \in Endpoints |-> {}]
  BY DEF Init, Confirmed, ConfirmedBy
<1>2. SecureKey = [e \in Endpoints |-> NONE]
  BY DEF Init, SecureKey, In
<1>3. Restarted = {}
  BY DEF Init, Restarted
<1>4. QED
  BY <1>1, <1>2, <1>3 DEF Init, Agreement!Init, Confirmed, SecureKey, Restarted

(* The actions of ZrtpAgreement in terms of the handshake. *)
LEMMA MapsStutter ==
    ASSUME Confirmed' = Confirmed, used' = used, SecureKey' = SecureKey,
           Restarted' = Restarted
    PROVE  UNCHANGED Agreement!vars
  BY DEF Agreement!vars, Confirmed, SecureKey, Restarted

LEMMA MapsConfirm ==
    ASSUME NEW e \in Endpoints, NEW k \in Keys,
           Confirmed' = [Confirmed EXCEPT ![e] = @ \cup {k}],
           used' = used, SecureKey' = SecureKey, Restarted' = Restarted
    PROVE  Agreement!Next
<1>1. Agreement!Confirm(e, k)
  BY DEF Agreement!Confirm, Confirmed, SecureKey, Restarted
<1>2. QED
  BY <1>1 DEF Agreement!Next

LEMMA MapsSecure ==
    ASSUME NEW e \in Endpoints, NEW k \in Keys, SecureKey[e] = NONE,
           k \notin used[e] \/ e \in Restarted,
           \A o \in Endpoints : k \in Confirmed[o],
           Restarted = {} => \A o \in Endpoints : SecureKey[o] \in {NONE, k},
           SecureKey' = [SecureKey EXCEPT ![e] = k],
           used' = [used EXCEPT ![e] = @ \cup {k}],
           Confirmed' = Confirmed, Restarted' = Restarted
    PROVE  Agreement!Next
<1>1. Agreement!Secure(e, k)
  BY DEF Agreement!Secure, Confirmed, SecureKey, Restarted
<1>2. QED
  BY <1>1 DEF Agreement!Next

LEMMA MapsLeave ==
    ASSUME NEW e \in Endpoints, SecureKey[e] # NONE,
           SecureKey' = [SecureKey EXCEPT ![e] = NONE],
           Confirmed' = Confirmed, used' = used, Restarted' = Restarted
    PROVE  Agreement!Next
<1>1. Agreement!Leave(e)
  BY DEF Agreement!Leave, Confirmed, SecureKey, Restarted
<1>2. QED
  BY <1>1 DEF Agreement!Next

LEMMA MapsRestart ==
    ASSUME NEW e \in Endpoints, Restarted' = Restarted \cup {e},
           Confirmed' = Confirmed, used' = used, SecureKey' = SecureKey
    PROVE  Agreement!Next
<1>1. Agreement!Restart(e)
  BY DEF Agreement!Restart, Confirmed, SecureKey, Restarted
<1>2. QED
  BY <1>1 DEF Agreement!Next

(* What a step shows of itself to ZrtpAgreement. *)
LEMMA StepShows ==
    ASSUME HandshakeInv, ConfirmInv, NEW e \in Endpoints, Step(e)
    PROVE  /\ \/ Confirmed' = Confirmed
              \/ /\ Confirmed' = [Confirmed EXCEPT ![e] = @ \cup {ep'[e].key}]
                 /\ Responds(e) \/ Derives(e) \/ Confirms(e)
           /\ SecureKey' = [SecureKey EXCEPT ![e] =
                                IF ep'[e].state = "SECURE" THEN ep'[e].key ELSE NONE]
           /\ ~Starts(e) => Restarted' = Restarted
           /\ Starts(e) => Restarted' \in {Restarted, Restarted \cup {e}}
<1>1. /\ \A o \in Endpoints : o # e => ep'[o] = ep[o]
      /\ \A o \in Endpoints : o # e => ConfirmedBy(o)' = ConfirmedBy(o)
  BY StepFrame, ConfirmedAfter
<1>2. ASSUME ConfirmedBy(e)' = ConfirmedBy(e)
      PROVE  Confirmed' = Confirmed
  <2>1. \A o \in Endpoints : ConfirmedBy(o)' = ConfirmedBy(o)
    BY <1>1, <1>2
  <2>2. QED
    BY <2>1 DEF Confirmed
<1>3. ASSUME NEW k, ConfirmedBy(e)' = ConfirmedBy(e) \cup {k}
      PROVE  Confirmed' = [Confirmed EXCEPT ![e] = @ \cup {k}]
  <2>1. \A o \in Endpoints :
            ConfirmedBy(o)' = IF o = e THEN ConfirmedBy(e) \cup {k} ELSE ConfirmedBy(o)
    BY <1>1, <1>3
  <2>2. Confirmed' = [o \in Endpoints |->
                         IF o = e THEN ConfirmedBy(e) \cup {k} ELSE ConfirmedBy(o)]
    BY <2>1 DEF Confirmed
  <2>3. QED
    BY <2>2 DEF Confirmed
<1>4. SecureKey' = [SecureKey EXCEPT ![e] =
                        IF ep'[e].state = "SECURE" THEN ep'[e].key ELSE NONE]
  BY <1>1 DEF SecureKey, In
<1>5. \A o \in Endpoints : o # e => (ep'[o].starts > 1 <=> ep[o].starts > 1)
  BY <1>1
<1>6. ~Starts(e) => Restarted' = Restarted
  BY <1>5, StartsGrow DEF Restarted
<1>7. Starts(e) => Restarted' \in {Restarted, Restarted \cup {e}}
  <2>1. ASSUME Starts(e)
        PROVE  ep[e].starts > 1 => ep'[e].starts > 1
    BY <2>1, StartsGrow
  <2>2. QED
    BY <1>5, <2>1 DEF Restarted
<1>8. QED
  BY <1>2, <1>3, <1>4, <1>6, <1>7, ConfirmedAfter

LEMMA StepImplements ==
    ASSUME PromptInv, PromptInv', NEW e \in Endpoints, Step(e), ~GivesUpLate(e)
    PROVE  Agreement!Next \/ UNCHANGED Agreement!vars
<1> USE DEF PromptInv, CommonInv
<1>1. /\ HandshakeInv /\ ConfirmInv /\ LevelInv
      /\ \A o \in Endpoints : o # e => ep'[o] = ep[o]
      /\ ep[e].state # "SECURE" => SecureKey[e] = NONE
      /\ SecureKey' = [SecureKey EXCEPT ![e] =
                           IF ep'[e].state = "SECURE" THEN ep'[e].key ELSE NONE]
  BY StepFrame, StepShows DEF SecureKey, In
<1>2. CASE Secures(e)
  <2> DEFINE k == ep[e].key
  <2>1. /\ ep[e].state \in {"WAIT_CONFIRMACK", "WAIT_CONFIRM2"} /\ ep'[e].state = "SECURE"
        /\ ep'[e].key = k /\ ep'[e].starts = ep[e].starts
        /\ used' = [used EXCEPT ![e] = @ \cup {k}]
    BY <1>2 DEF Secures, KeepsSession
  <2>2. Confirmed' = Confirmed /\ Restarted' = Restarted
    BY <1>1, <1>2, <2>1, StepShows
       DEF Secures, Starts, Responds, Derives, Confirms
  <2>3. SecureKey[e] = NONE /\ SecureKey' = [SecureKey EXCEPT ![e] = k]
    BY <1>1, <2>1
  <2>4. k \in SomeKeys /\ Level(k) = SessionLevel(e)
    BY <1>1, <2>1, LevelTypes DEF KeyedStates
  <2>5. k \in Keys
    BY <2>4, NoneIsNoKey DEF KeysInv
  <2>6. k \notin used[e] \/ e \in Restarted
    <3>1. ASSUME ep[e].starts <= 1
          PROVE  k \notin used[e]
      <4>1. UsedPast(e)
        BY <3>1 DEF LevelInv
      <4>2. SessionLevel(e) \in Nat
        BY <1>1, LevelTypes
      <4>3. QED
        BY <2>1, <2>4, <4>1, <4>2 DEF UsedPast, ErrorStates
    <3>2. ep[e].starts \in Nat
      BY <1>1, StartsGrow
    <3>3. QED
      BY <3>1, <3>2 DEF Restarted
  <2>7. \A o \in Endpoints : k \in Confirmed[o]
    <3>1. \A o \in Endpoints : ep'[e].key \in ConfirmedBy(o)'
      BY <2>1 DEF ConfirmInv
    <3>2. \A o \in Endpoints : k \in Confirmed'[o]
      BY <2>1, <3>1 DEF Confirmed
    <3>3. QED
      BY <2>2, <3>2
  <2>8. Restarted = {} => \A o \in Endpoints : SecureKey[o] \in {NONE, k}
    <3>1. SUFFICES ASSUME Restarted = {}, NEW o \in Endpoints, ep[o].state = "SECURE"
                   PROVE  ep[o].key = k
      BY DEF SecureKey, In
    <3>2. ep'[o] = ep[o] /\ o # e
      BY <1>1, <2>1, <3>1
    <3>3. \A x \in Endpoints : ep'[x].starts <= 1
      <4>1. Restarted' = {}
        BY <2>2, <3>1
      <4>2. \A x \in Endpoints : ep'[x].starts \in Nat
        BY DEF HandshakeInv, Records
      <4>3. QED
        BY <4>1, <4>2 DEF Restarted
    <3>4. KeysAgree'
      BY KeysAgreeFollows, PTL
    <3>5. o = Peer(e)
      BY <3>2, PeerIsTheOther
    <3>6. ep'[o].key = ep'[e].key
      BY <2>1, <3>1, <3>2, <3>3, <3>4, <3>5 DEF KeysAgree, In
    <3>7. QED
      BY <2>1, <3>2, <3>6
  <2> HIDE DEF k
  <2>9. QED
    BY <2>1, <2>2, <2>3, <2>5, <2>6, <2>7, <2>8, MapsSecure
<1>3. ASSUME ~Secures(e)
      PROVE  used' = used
  BY <1>3 DEF Step, Stays, Starts, Discovers, Initiates, Responds, Derives, Confirms, Clears,
              Fails, GivesUpLate
<1>4. CASE Starts(e)
  <2>1. ep[e].state # "SECURE" /\ ep'[e].state # "SECURE" /\ used' = used
    BY <1>4 DEF Starts
  <2>2. Confirmed' = Confirmed /\ SecureKey' = SecureKey
    BY <1>1, <1>4, <2>1, StepShows DEF Starts, Responds, Derives, Confirms, SecureKey
  <2>3. Restarted' = Restarted \/ Restarted' = Restarted \cup {e}
    BY <1>1, <1>4, StepShows
  <2>4. QED
    BY <2>1, <2>2, <2>3, MapsStutter, MapsRestart
<1>5. CASE Responds(e) \/ Derives(e) \/ Confirms(e)
  <2>1. ep[e].state # "SECURE" /\ ep'[e].state # "SECURE"
    BY <1>5 DEF Responds, Derives, Confirms
  <2>2. used' = used /\ ~Starts(e)
    BY <1>5 DEF Responds, Derives, Confirms, Starts
  <2>3. SecureKey' = SecureKey /\ Restarted' = Restarted
    BY <1>1, <2>1, <2>2, StepShows DEF SecureKey
  <2>4. ep'[e].key \in Keys \cup {NONE}
    BY DEF KeysInv
  <2>5. CASE Confirmed' = Confirmed
    BY <2>2, <2>3, <2>5, MapsStutter
  <2>6. CASE Confirmed' = [Confirmed EXCEPT ![e] = @ \cup {ep'[e].key}]
             /\ ep'[e].key \in Keys
    BY <2>2, <2>3, <2>6, MapsConfirm
  <2>7. ASSUME Confirmed' # Confirmed
        PROVE  ep'[e].key \in Keys
    <3>1. ConfirmedBy(e)' # ConfirmedBy(e)
      BY <1>1, <2>7, ConfirmedAfter DEF Confirmed
    <3>2. ep'[e].state \in {"WAIT_CONFIRM2", "WAIT_CONFIRMACK"}
      BY <1>1, <3>1, ConfirmedAfter
    <3>3. ep'[e].key \in SomeKeys
      BY <1>1, <3>2, StepFrame DEF Fits, SessionFits, KeyedStates
    <3>4. QED
      BY <2>4, <3>3, NoneIsNoKey
  <2>8. QED
    BY <1>1, <2>5, <2>6, <2>7, StepShows
<1>6. CASE ~Secures(e) /\ ~Starts(e) /\ ~Responds(e) /\ ~Derives(e) /\ ~Confirms(e)
  <2>1. Confirmed' = Confirmed /\ used' = used /\ Restarted' = Restarted
    BY <1>1, <1>3, <1>6, StepShows
  <2>2. CASE ep[e].state = "SECURE" /\ ep'[e].state # "SECURE"
    <3>1. ep[e].key \in SomeKeys
      BY <1>1, <2>2, LevelTypes DEF KeyedStates
    <3>2. SecureKey[e] # NONE
      BY <2>2, <3>1, NoneIsNoKey DEF SecureKey, In
    <3>3. SecureKey' = [SecureKey EXCEPT ![e] = NONE]
      BY <1>1, <2>2
    <3>4. QED
      BY <2>1, <3>2, <3>3, MapsLeave
  <2>3. CASE ep'[e].state = ep[e].state /\ ep'[e].key = ep[e].key
    BY <1>1, <2>1, <2>3, MapsStutter DEF SecureKey, In
  <2>4. CASE ep[e].state # "SECURE" /\ ep'[e].state # "SECURE"
    BY <1>1, <2>1, <2>4, MapsStutter DEF SecureKey
  <2>5. Stays(e) \/ Discovers(e) \/ Initiates(e) \/ Clears(e) \/ Fails(e)
    BY <1>6 DEF Step
  <2>6. QED
    BY <2>2, <2>3, <2>4, <2>5 DEF Stays, Discovers, Initiates, Clears, Fails, IdleStates,
       ClearingStates, ErrorStates
<1>7. QED
  BY <1>2, <1>4, <1>5, <1>6

(* Every behaviour of the prompt schedule is one of ZrtpAgreement: the     *)
(* Confirms of the handlers are its Confirm, the switch to SECURE its      *)
(* Secure, GoClear its Leave, a second zrtp_stream_start its Restart, all  *)
(* else a stutter.                                                         *)
THEOREM ImplementsAgreement == PromptSpec => AgreementSpec
<1>1. PromptInv /\ PromptInv' /\ [PromptNext]_vars => [Agreement!Next]_(Agreement!vars)
  <2>1. CASE UNCHANGED vars
    <3>1. Confirmed' = Confirmed /\ SecureKey' = SecureKey /\ Restarted' = Restarted
          /\ used' = used
      BY <2>1 DEF vars, Confirmed, ConfirmedBy, SecureKey, In, Restarted
    <3>2. QED
      BY <3>1, MapsStutter
  <2>2. ASSUME PromptInv, PromptInv', PromptNext
        PROVE  Agreement!Next \/ UNCHANGED Agreement!vars
    BY <2>2, PromptKeysStep, StepImplements
  <2>3. QED
    BY <2>1, <2>2
<1>2. QED
  BY MapsInit, OneKeyOfEveryLevel, <1>1, PTL
     DEF PromptSpec, AgreementSpec, Agreement!Spec

-----------------------------------------------------------------------------
(* The tie of two Commits.  An endpoint whose stream was started once and  *)
(* never cleared has committed at most once, to a DH exchange, and only    *)
(* the one with the smaller hvi may have answered a Commit after its own.  *)

Fresh(e) == ep[e].starts <= 1 /\ NeverCleared(e)

Outbox(e) == {m \in net : m.to = Peer(e) /\ m.type \in {"COMMIT", "DHPART1"}}

Sent(e, type) == \E m \in Outbox(e) : m.type = type

TieFits(e) ==
    /\ ep[e].state \in IdleStates =>
          ep[e].zrtpsess = NONE /\ ~Sent(e, "COMMIT") /\ ~Sent(e, "DHPART1")
    /\ ep[e].state \notin ClearingStates
    /\ ep[e].state = "INITIATINGSECURE" => ep[e].zrtpsess = NONE
    /\ e = Winner /\ ep[e].state \in ResponderStates => ~Sent(e, "COMMIT")
    /\ Sent(e, "DHPART1") => ep[e].state \notin InitiatorStates
    /\ ep[e].state \in ResponderStates => Sent(Peer(e), "COMMIT")
    /\ ep[e].state \in {"WAIT_CONFIRM1", "WAIT_CONFIRMACK"} => Sent(Peer(e), "DHPART1")

TieInv == \A e \in Endpoints : Fresh(e) => TieFits(e)

LEMMA AddsOutbox ==
    ASSUME NEW e \in Endpoints, NEW x, x.to = Peer(e), Adds({x})
    PROVE  /\ \A o \in Endpoints : o # e => Outbox(o)' = Outbox(o)
           /\ x.type \in {"COMMIT", "DHPART1"} => Outbox(e)' = Outbox(e) \cup {x}
           /\ x.type \notin {"COMMIT", "DHPART1"} => Outbox(e)' = Outbox(e)
<1>1. \A o \in Endpoints : o # e => Peer(o) # Peer(e)
  BY OwnMessages
<1>2. QED
  BY <1>1 DEF Adds, Tracked, Outbox

LEMMA OutboxAfter ==
    ASSUME NEW e \in Endpoints, Step(e)
    PROVE  /\ \A o \in Endpoints : o # e => Outbox(o)' = Outbox(o)
           /\ \/ Outbox(e)' = Outbox(e)
              \/ /\ Initiates(e)
                 /\ Outbox(e)' = Outbox(e) \cup {Commit(e, ep'[e].pubkeyscheme, ep'[e].hv)}
              \/ /\ ep'[e].state = "PENDINGSECURE"
                 /\ Outbox(e)' = Outbox(e) \cup {Plain(e, "DHPART1")}
<1>1. CASE Adds({})
  BY <1>1 DEF Adds, Tracked, Outbox
<1>2. ASSUME NEW type \in {"CONFIRM1", "CONFIRM2"}, NEW k, Adds({Keyed(e, type, k)})
      PROVE  \A o \in Endpoints : Outbox(o)' = Outbox(o)
  BY <1>2, OwnMessages, AddsOutbox
<1>3. CASE Initiates(e)
  <2>1. Adds({Commit(e, ep'[e].pubkeyscheme, ep'[e].hv)})
    BY <1>3 DEF Initiates
  <2>2. QED
    BY <1>3, <2>1, OwnMessages, AddsOutbox
<1>4. CASE Adds({Plain(e, "DHPART1")}) /\ ep'[e].state = "PENDINGSECURE"
  BY <1>4, OwnMessages, AddsOutbox
<1>5. CASE \E type \in {"CONFIRM1", "CONFIRM2"} : \E k : Adds({Keyed(e, type, k)})
  BY <1>2, <1>5
<1>6. QED
  BY <1>1, <1>3, <1>4, <1>5 DEF Step, Stays, Starts, Discovers, Responds, Derives, Confirms,
     Secures, Clears, Fails, GivesUpLate

LEMMA FreshBefore ==
    ASSUME HandshakeInv, NEW e \in Endpoints, Step(e), Fresh(e)'
    PROVE  Fresh(e) /\ ~Clears(e) /\ (Starts(e) => ep[e].state = "ACTIVE")
<1>1. ep'[e].starts <= 1 /\ (ep'[e].zrtpsess # NONE => ep'[e].zrtpsess.hashed = 0)
  BY DEF Fresh, NeverCleared
<1>2. ep[e].starts <= 1 /\ (Starts(e) => ep[e].state = "ACTIVE")
  BY <1>1, StartsGrow
<1>3. ~Clears(e)
  <2>1. SUFFICES ASSUME Clears(e)
                 PROVE  FALSE
    OBVIOUS
  <2>2. ep[e].zrtpsess \in SomeSessions
    BY <2>1, StepFrame DEF Clears, Fits, SessionFits, KeyedStates
  <2>3. ep'[e].zrtpsess \in SomeSessions /\ ep'[e].zrtpsess.hashed = ep[e].zrtpsess.hashed + 1
    BY <2>1, <2>2 DEF Clears, SomeSessions
  <2>4. ep'[e].zrtpsess # NONE
    BY <2>3, HandshakeAssumption DEF SomeSessions
  <2>5. ep[e].zrtpsess.hashed \in Nat
    BY <2>2 DEF SomeSessions
  <2>6. QED
    BY <1>1, <2>3, <2>4, <2>5
<1>4. ep[e].zrtpsess # NONE => ep'[e].zrtpsess = ep[e].zrtpsess
  BY <1>3 DEF Step, Stays, Starts, Discovers, Initiates, Responds, Derives, Confirms, Secures,
              Fails, GivesUpLate, KeepsSession
<1>5. QED
  BY <1>1, <1>2, <1>3, <1>4 DEF Fresh, NeverCleared

LEMMA TieStep ==
    ASSUME HandshakeInv, TieInv, NEW e \in Endpoints, Step(e), ~GivesUpLate(e)
    PROVE  TieInv'
<1>1. /\ \A o \in Endpoints : o # e => ep'[o] = ep[o] /\ Outbox(o)' = Outbox(o)
      /\ Outbox(e) \subseteq Outbox(e)'
  BY StepFrame, OutboxAfter
<1>2. \A o \in Endpoints : \A type : Sent(o, type) => Sent(o, type)'
  BY <1>1 DEF Sent
<1>3. ASSUME NEW o \in Endpoints, o # e, Fresh(o)'
      PROVE  TieFits(o)'
  <2>1. ep'[o] = ep[o] /\ \A type : Sent(o, type)' <=> Sent(o, type)
    BY <1>1, <1>3 DEF Sent
  <2>2. TieFits(o)
    BY <1>3, <2>1 DEF TieInv, Fresh, NeverCleared
  <2>3. Peer(o) \in Endpoints
    BY PeerIsTheOther
  <2>4. QED
    BY <1>2, <2>1, <2>2, <2>3 DEF TieFits
<1>4. ASSUME Fresh(e)'
      PROVE  TieFits(e)'
  <2>1. TieFits(e) /\ ~Clears(e) /\ (Starts(e) => ep[e].state = "ACTIVE")
    BY <1>4, FreshBefore DEF TieInv
  <2>2. Peer(e) \in Endpoints
    BY PeerIsTheOther
  <2>3. ep[e].state \in IdleStates \cup {"INITIATINGSECURE"} => ep[e].zrtpsess = NONE
    BY <2>1 DEF TieFits
  <2>4. CASE Initiates(e)
    <3>1. ep[e].state \in IdleStates /\ ep'[e].state = "INITIATINGSECURE"
          /\ ep'[e].zrtpsess = NONE
      BY <2>1, <2>3, <2>4 DEF Initiates, TieFits, IdleStates, ClearingStates, KeepsSession
    <3>2. ~Sent(e, "DHPART1")'
      <4>1. ~Sent(e, "DHPART1")
        BY <2>1, <3>1 DEF TieFits
      <4>2. \A m \in Outbox(e)' : m \in Outbox(e) \/ m.type = "COMMIT"
        BY <3>1, OutboxAfter, OwnMessages
      <4>3. QED
        BY <4>1, <4>2 DEF Sent
    <3>3. QED
      BY <3>1, <3>2 DEF TieFits, IdleStates, ClearingStates, ResponderStates
  <2>5. CASE Responds(e)
    <3>1. PICK c \in Received(e, "COMMIT") :
              /\ ep[e].state \in {"WAIT_HELLOACK", "CLEAR", "PENDINGCLEAR", "NO_ZRTP",
                                  "INITIATINGSECURE"}
              /\ ep[e].state = "INITIATINGSECURE" => ~Outbids(e, ep[e], c)
              /\ \/ c.scheme = "dh" /\ ep'[e].state = "PENDINGSECURE"
                 \/ c.scheme = "mult" /\ ep[e].zrtpsess # NONE
      BY <2>5 DEF Responds
    <3>2. ep[e].state \in IdleStates \cup {"INITIATINGSECURE"}
      BY <2>1, <3>1 DEF TieFits, IdleStates, ClearingStates
    <3>3. ep[e].zrtpsess = NONE /\ c.scheme = "dh" /\ ep'[e].state = "PENDINGSECURE"
      BY <2>3, <3>1, <3>2
    <3>4. Sent(Peer(e), "COMMIT")'
      <4>1. c \in Outbox(Peer(e)) /\ c.type = "COMMIT"
        BY <3>1, PeerIsTheOther DEF Received, Outbox
      <4>2. Sent(Peer(e), "COMMIT")
        BY <4>1 DEF Sent
      <4>3. QED
        BY <1>2, <2>2, <4>2
    <3>5. ASSUME e = Winner
          PROVE  ~Sent(e, "COMMIT")'
      <4>1. ep[e].state = "INITIATINGSECURE" => ep[e].pubkeyscheme = "dh"
        BY <3>3, StepFrame DEF Fits, SessionFits
      <4>2. ep[e].state # "INITIATINGSECURE"
        BY <3>1, <3>3, <3>5, <4>1 DEF Outbids
      <4>3. ~Sent(e, "COMMIT")
        BY <2>1, <3>2, <4>2 DEF TieFits
      <4>4. ~Initiates(e)
        BY <3>3 DEF Initiates
      <4>5. \/ Outbox(e)' = Outbox(e)
            \/ Outbox(e)' = Outbox(e) \cup {Plain(e, "DHPART1")}
        BY <4>4, OutboxAfter
      <4>6. \A m \in Outbox(e)' : m \in Outbox(e) \/ m.type = "DHPART1"
        BY <4>5, OwnMessages
      <4>7. QED
        BY <4>3, <4>6 DEF Sent
    <3>6. QED
      BY <3>3, <3>4, <3>5 DEF TieFits, IdleStates, ClearingStates, InitiatorStates
  <2>6. CASE Derives(e) /\ ep[e].state = "INITIATINGSECURE"
    <3>1. Arrives(e, "DHPART1") /\ ep'[e].state = "WAIT_CONFIRM1"
      BY <2>6 DEF Derives
    <3>2. ~Sent(e, "DHPART1")'
      <4>1. ~Sent(e, "DHPART1")
        BY <2>1, <2>6 DEF TieFits, InitiatorStates
      <4>2. Outbox(e)' = Outbox(e)
        BY <2>6, <3>1, OutboxAfter DEF Initiates
      <4>3. QED
        BY <4>1, <4>2 DEF Sent
    <3>3. Sent(Peer(e), "DHPART1")'
      <4>1. Sent(Peer(e), "DHPART1")
        BY <3>1, PeerIsTheOther DEF Arrives, Received, Outbox, Sent
      <4>2. QED
        BY <1>2, <2>2, <4>1
    <3>4. QED
      BY <3>1, <3>2, <3>3 DEF TieFits, IdleStates, ClearingStates, ResponderStates
  <2>7. CASE Derives(e) /\ ep[e].state = "PENDINGSECURE"
    <3>1. ep'[e].state = "WAIT_CONFIRM2" /\ Outbox(e)' = Outbox(e)
      BY <2>7, OutboxAfter DEF Derives, Initiates
    <3>2. Sent(Peer(e), "COMMIT")' /\ (e = Winner => ~Sent(e, "COMMIT"))
      BY <1>2, <2>1, <2>2, <2>7 DEF TieFits, ResponderStates
    <3>3. QED
      BY <3>1, <3>2 DEF TieFits, IdleStates, ClearingStates, InitiatorStates, Sent
  <2>8. CASE Confirms(e)
    <3>1. ep[e].state = "WAIT_CONFIRM1" /\ ep'[e].state = "WAIT_CONFIRMACK"
          /\ Outbox(e)' = Outbox(e)
      <4>1. ep[e].state = "INITIATINGSECURE" => ep[e].pubkeyscheme = "dh"
        BY <2>3, StepFrame DEF Fits, SessionFits
      <4>2. QED
        BY <2>8, <4>1, OutboxAfter DEF Confirms, Initiates
    <3>2. Sent(Peer(e), "DHPART1")' /\ ~Sent(e, "DHPART1")
      BY <1>2, <2>1, <2>2, <3>1 DEF TieFits, InitiatorStates
    <3>3. QED
      BY <3>1, <3>2 DEF TieFits, IdleStates, ClearingStates, ResponderStates, Sent
  <2>9. CASE Stays(e)
    <3>1. ep'[e].state = ep[e].state /\ ep'[e].zrtpsess = ep[e].zrtpsess
      BY <2>9 DEF Stays, KeepsSession
    <3>2. CASE Outbox(e)' = Outbox(e)
      BY <1>2, <2>1, <2>2, <3>1, <3>2 DEF TieFits, Sent
    <3>3. CASE ep'[e].state = "PENDINGSECURE" /\ \A m \in Outbox(e)' : m \in Outbox(e)
                                                         \/ m.type = "DHPART1"
      <4>1. Sent(e, "COMMIT")' <=> Sent(e, "COMMIT")
        BY <1>1, <3>3 DEF Sent
      <4>2. Sent(Peer(e), "COMMIT")' /\ (e = Winner => ~Sent(e, "COMMIT"))
        BY <1>2, <2>1, <2>2, <3>1, <3>3 DEF TieFits, ResponderStates
      <4>3. QED
        BY <3>3, <4>1, <4>2 DEF TieFits, IdleStates, ClearingStates, InitiatorStates
    <3>4. ~Initiates(e)
      BY <3>1 DEF Initiates
    <3>5. QED
      BY <3>2, <3>3, <3>4, OutboxAfter, OwnMessages
  <2>10. CASE Starts(e) \/ Discovers(e)
    <3>1. /\ ep[e].state \in IdleStates /\ ep'[e].state \in IdleStates
          /\ ep'[e].zrtpsess = NONE
      BY <2>1, <2>3, <2>10 DEF Starts, Discovers, TieFits, IdleStates, ClearingStates,
         KeepsSession
    <3>2. Outbox(e)' = Outbox(e)
      BY <3>1, OutboxAfter DEF Initiates, IdleStates
    <3>3. QED
      BY <2>1, <3>1, <3>2 DEF TieFits, IdleStates, ClearingStates, InitiatorStates,
         ResponderStates, Sent
  <2>11. CASE Secures(e) \/ Fails(e)
    BY <2>11 DEF Secures, Fails, ErrorStates, TieFits, IdleStates, ClearingStates,
       InitiatorStates, ResponderStates
  <2>12. QED
    BY <2>1, <2>4, <2>5, <2>6, <2>7, <2>8, <2>9, <2>10, <2>11 DEF Step, Derives
<1>5. QED
  BY <1>3, <1>4 DEF TieInv

LEMMA TieInit ==
    ASSUME Init
    PROVE  TieInv
<1>1. \A e \in Endpoints : /\ ep[e].state = "ACTIVE" /\ ep[e].zrtpsess = NONE
                           /\ Outbox(e) = {}
  BY DEF Init, Outbox
<1>2. QED
  BY <1>1 DEF TieInv, TieFits, Sent, ClearingStates, ResponderStates, InitiatorStates

LEMMA TieStutter ==
    ASSUME TieInv, UNCHANGED vars
    PROVE  TieInv'
<1>1. ep' = ep /\ net' = net
  BY DEF vars
<1>2. \A e : Outbox(e)' = Outbox(e)
  BY <1>1 DEF Outbox
<1>3. QED
  BY <1>1, <1>2 DEF TieInv, TieFits, Sent, Fresh, NeverCleared

LEMMA TieBrokenFollows ==
    ASSUME TieInv
    PROVE  TieBroken
<1> SUFFICES ASSUME \A e \in Endpoints : ep[e].starts <= 1 /\ NeverCleared(e)
             PROVE  /\ \E e \in Endpoints : ep[e].state \notin ResponderStates
                    /\ \E e \in Endpoints :
                          ep[e].state \notin InitiatorStates \ {"INITIATINGSECURE"}
  BY DEF TieBroken, In
<1>1. \A e \in Endpoints : TieFits(e)
  BY DEF TieInv, Fresh
<1>2. /\ Winner \in Endpoints /\ Peer(Winner) \in Endpoints
      /\ Peer(Peer(Winner)) = Winner
  BY HandshakeAssumption, PeerIsTheOther
<1>3. ASSUME ep[Winner].state \in ResponderStates, ep[Peer(Winner)].state \in ResponderStates
      PROVE  FALSE
  BY <1>1, <1>2, <1>3 DEF TieFits
<1>4. ASSUME \A e \in {Winner, Peer(Winner)} :
                 ep[e].state \in InitiatorStates \ {"INITIATINGSECURE"}
      PROVE  FALSE
  BY <1>1, <1>2, <1>4 DEF TieFits, InitiatorStates
<1>5. QED
  BY <1>2, <1>3, <1>4

(* Two Commits that cross never leave both endpoints responders, for which *)
(* no timer would ever ask again, nor both initiators with a key           *)
(* (_zrtp_machine_preparse_commit, src/zrtp_responder.c:331).                *)
THEOREM TieAlwaysBroken == PromptSpec => []TieBroken
<1>1. PromptInv /\ TieInv /\ [PromptNext]_vars => TieInv'
  BY PromptKeysStep, TieStep, TieStutter DEF PromptInv, CommonInv
<1>2. TieInv => TieBroken
  BY TieBrokenFollows
<1>3. QED
  BY OneKeyOfEveryLevel, TieInit, <1>1, <1>2, PTL DEF PromptSpec

=============================================================================
