------------------------ MODULE ZrtpSecrets_proofs ------------------------
(***************************************************************************)
(* Theorems about the retained secrets of two endpoints, for any number of *)
(* calls and lost caches, when the calls of the pair do not overlap        *)
(* (MaxLive = 1).                                                          *)
(***************************************************************************)
EXTENDS ZrtpSecrets, FiniteSetTheorems, TLAPS

-----------------------------------------------------------------------------
(* The inductive invariant.                                                *)

\* Phases of a session that has loaded its secrets and not replaced them.
Open == {"ready", "derived", "confirmed"}

\* What e may have as a secret: no other endpoint has its own values.
OwnOf(e) == {"own", "own2"} \X {e} \X Calls
Made(n) == {"call"} \X (1..n)
ValuesOf(e) == {NONE} \cup Made(calls) \cup OwnOf(e)

\* A current secret is at least as new as the previous one.
InOrder(new, old) ==
    \A y \in Calls : old = <<"call", y>> => \E x \in Calls : new = <<"call", x>> /\ y <= x

EntryType == [curr : SecretValues, prev : SecretValues, expired : BOOLEAN, verified : BOOLEAN]

SessionType == [
    phase : {"none", "new", "ready", "derived", "confirmed", "secure", "down"},
    rs1 : SecretValues, rs2 : SecretValues, expired : BOOLEAN,
    cached : SUBSET {RS1, RS2}, matches : SUBSET {RS1, RS2}, wrongs : SUBSET {RS1},
    alert : BOOLEAN, chosen : SecretValues]

\* Only the last call has sessions.
OneCall ==
    /\ \A c \in Calls : c <= calls => initiator[c] \in Endpoints
    /\ \A e \in Endpoints, c \in Calls :
          /\ c > calls => sess[e][c] = Unused
          /\ sess[e][c].phase \notin {"none", "down"} => c = calls
          /\ sess[e][c].alert => sess[e][c].phase = "secure"

(***************************************************************************)
(* What holds for an endpoint e, with an entry and a session s of the last *)
(* call, a set of trusted secrets, and its peer as it is.                  *)
(***************************************************************************)

TypesFit(entry, s, trusted) ==
    /\ entry \in EntryType /\ s \in SessionType /\ trusted \in SUBSET SecretValues
    /\ entry.curr = NONE => entry = NoEntry
    /\ s.alert => s.phase = "secure"
    /\ s.phase = "new" => s.rs1 = NONE
    /\ s.phase \in Open \cup {"secure"} => s.rs1 # NONE

\* Before SECURE nobody has the secret of the call.
ValuesFit(e, entry, s) ==
    /\ {entry.curr, entry.prev, s.rs1, s.rs2} \subseteq ValuesOf(e)
    /\ s.phase \in {"new"} \cup Open =>
          <<"call", calls>> \notin {entry.curr, entry.prev, s.rs1, s.rs2}

OrderFit(entry, s) == InOrder(entry.curr, entry.prev) /\ InOrder(s.rs1, s.rs2)

\* Until SECURE a session has what its cache has.
LoadFit(e, entry, s) ==
    s.phase \in Open =>
        /\ s.rs1 = IF entry.curr = NONE THEN <<"own", e, calls>> ELSE entry.curr
        /\ s.rs2 = IF entry.prev = NONE THEN <<"own2", e, calls>> ELSE entry.prev

ChosenFit(s, other) ==
    (s.phase = "derived" /\ other.phase \in {"ready", "derived"}) => s.chosen = Choose(s, other)

\* Until an endpoint has met the secrets of the other, that one has no others.
CoverFit(s, entry, other) ==
    /\ s.phase = "new" => other.phase \in {"new", "ready", "down"}
    /\ s.phase \in {"new", "ready"} =>
          /\ other.phase # "secure"
          /\ other.rs1 # NONE => {entry.curr, entry.prev} \subseteq {NONE, other.rs1, other.rs2}

\* A secret of e that its peer does not have, and will never get.
Unknown(e, x) ==
    /\ x # NONE /\ x # <<"call", calls>> /\ x \in ValuesOf(e)
    /\ x \notin {cache[Peer(e)].curr, cache[Peer(e)].prev,
                  sess[Peer(e)][calls].rs1, sess[Peer(e)][calls].rs2}

\* An entry with the secret of the session, or one that an alert has left as it was.
Kept(e, entry, s) ==
    /\ entry.curr = s.rs1
    /\ entry.prev \in {NONE, s.rs1, s.chosen} \/ Unknown(e, entry.prev)

Postponed(e, entry, s) ==
    /\ s.alert
    /\ s.rs1 = <<"call", calls>>
    /\ entry.curr \in {NONE, s.chosen} \/ Unknown(e, entry.curr)

\* What an endpoint knows of a secret it did not choose.
KnowFit(e, entry, s) ==
    /\ s.phase \in {"derived", "confirmed"} => s.chosen = s.rs1 \/ Unknown(e, s.rs1)
    /\ s.phase = "secure" => Kept(e, entry, s) \/ Postponed(e, entry, s)

\* A verified entry has a secret that is vouched for, and a previous one that
\* is vouched for or of no use.
VouchFit(e, entry, s, trusted) ==
    entry.verified =>
        /\ entry.curr \in trusted
        /\ entry.prev \in trusted \cup {NONE} \/ Unknown(e, entry.prev)
        /\ s.phase \in {"derived", "confirmed"} => s.chosen \in trusted

EndpointFits(e, entry, s, trusted) ==
    /\ TypesFit(entry, s, trusted)
    /\ ValuesFit(e, entry, s) /\ OrderFit(entry, s) /\ LoadFit(e, entry, s)
    /\ ChosenFit(s, sess[Peer(e)][calls])
    /\ CoverFit(s, cache[Peer(e)], sess[Peer(e)][calls])
    /\ KnowFit(e, entry, s) /\ VouchFit(e, entry, s, trusted)

SecretsInv ==
    /\ TypeOK /\ OneCall
    /\ IF calls = 0 THEN \A e \in Endpoints : cache[e] = NoEntry
       ELSE \A e \in Endpoints : EndpointFits(e, cache[e], sess[e][calls], vouched[e])

-----------------------------------------------------------------------------
(* Names and peers.                                                        *)

LEMMA PeerIsTheOther ==
    ASSUME NEW e \in Endpoints
    PROVE  /\ Peer(e) \in Endpoints /\ Peer(e) # e /\ Peer(Peer(e)) = e
           /\ \A x \in Endpoints : x = e \/ x = Peer(e)
  <1>1. IsFiniteSet(Endpoints) /\ Cardinality(Endpoints) = 2
    BY SecretsAssumption
  <1>2. IsFiniteSet(Endpoints \ {e}) /\ Cardinality(Endpoints \ {e}) = 1
    BY <1>1, FS_RemoveElement
  <1>3. PICK o : Endpoints \ {e} = {o}
    BY <1>2, FS_Singleton
  <1>4. o \in Endpoints /\ o # e /\ \A x \in Endpoints : x # e => x = o
    BY <1>3
  <1>5. Peer(e) = o
    BY <1>4 DEF Peer
  <1>6. Peer(o) = e
    BY <1>4 DEF Peer
  <1> QED BY <1>4, <1>5, <1>6

LEMMA CallNames ==
    /\ \A c \in Calls : /\ <<"call", c>> \in SecretValues /\ <<"call", c>> # NONE
                        /\ \A d \in Calls : <<"call", c>> = <<"call", d>> => c = d
    /\ \A n \in Nat : \A x : x \in Made(n) <=> \E c \in 1..n : x = <<"call", c>>
    /\ \A n \in 0..MaxCalls : Made(n) \subseteq SecretValues /\ NONE \notin Made(n)
  BY NoSecretAssumption, SecretsAssumption DEF SecretValues, Made, Calls

LEMMA OwnNames ==
    ASSUME NEW e \in Endpoints
    PROVE  /\ OwnOf(e) \subseteq SecretValues /\ NONE \notin OwnOf(e)
           /\ \A c \in Calls : <<"own", e, c>> \in OwnOf(e) /\ <<"own2", e, c>> \in OwnOf(e)
           /\ \A n \in Nat : OwnOf(e) \cap Made(n) = {}
           /\ \A c : <<"call", c>> \notin OwnOf(e)
           /\ OwnOf(e) \cap OwnOf(Peer(e)) = {}
  <1>1. OwnOf(e) \subseteq {"own", "own2"} \X Endpoints \X Calls
    BY DEF OwnOf
  <1>2. OwnOf(e) \subseteq SecretValues /\ NONE \notin OwnOf(e)
    BY <1>1, NoSecretAssumption DEF SecretValues
  <1>3. \A c \in Calls : <<"own", e, c>> \in OwnOf(e) /\ <<"own2", e, c>> \in OwnOf(e)
    BY DEF OwnOf
  <1>4. \A x \in OwnOf(e) : x[1] \in {"own", "own2"} /\ x[2] = e
    BY DEF OwnOf
  <1>5. \A x \in OwnOf(Peer(e)) : x[2] = Peer(e)
    BY DEF OwnOf
  <1>6. \A c : <<"call", c>>[1] = "call"
    OBVIOUS
  <1>7. \A n \in Nat : \A x \in Made(n) : x[1] = "call"
    BY DEF Made
  <1> QED BY <1>2, <1>3, <1>4, <1>5, <1>6, <1>7, PeerIsTheOther

LEMMA Distinguish ==
    ASSUME NEW e \in Endpoints, calls \in 0..MaxCalls
    PROVE  /\ ValuesOf(e) \subseteq SecretValues
           /\ \A x \in ValuesOf(e) \cap ValuesOf(Peer(e)) : x # NONE =>
                 \E c \in Calls : x = <<"call", c>> /\ c <= calls
  <1>1. calls \in Nat /\ 1..calls \subseteq Calls
    BY SecretsAssumption DEF Calls
  <1>2. ValuesOf(e) \subseteq SecretValues
    BY OwnNames, CallNames DEF ValuesOf, SecretValues
  <1>3. \A x \in ValuesOf(e) \cap ValuesOf(Peer(e)) : x # NONE => x \in Made(calls)
    BY <1>1, OwnNames, PeerIsTheOther DEF ValuesOf
  <1> QED BY <1>1, <1>2, <1>3, CallNames

-----------------------------------------------------------------------------
(* What zrtp_verified_set puts.                                            *)

\* One session with an alert at most: what its fold over them does.
LEMMA PutOne ==
    ASSUME NEW e \in Endpoints, NEW entry, NEW c
    PROVE  /\ Alerted(e) = {} => PutAlerted(e, entry) = entry
           /\ Alerted(e) = {c} =>
                 PutAlerted(e, entry) = CachePut(entry, sess[e][c].rs1, sess[e][c].expired)
  <1> DEFINE A == Alerted(e)
             Iter(g) == g = [s \in SUBSET A |-> IF s = {} THEN entry
                          ELSE LET x == Oldest(s)
                               IN  CachePut(g[s \ {x}], sess[e][x].rs1, sess[e][x].expired)]
  <1>1. PutAlerted(e, entry) = (CHOOSE g : Iter(g))[A]
    BY DEF PutAlerted, MapThenFoldSet
  <1>2. CASE A = {}
    <2> DEFINE g0 == [s \in SUBSET A |-> entry]
    <2>1. Iter(g0)
      BY <1>2
    <2>2. Iter(CHOOSE g : Iter(g))
      BY <2>1
    <2>3. \A g : Iter(g) => g[{}] = entry
      BY <1>2
    <2> QED BY <1>1, <1>2, <2>2, <2>3
  <1>3. CASE A = {c}
    <2> DEFINE put == CachePut(entry, sess[e][c].rs1, sess[e][c].expired)
               g1 == [s \in SUBSET A |-> IF s = {} THEN entry ELSE put]
    <2>0. \A s \in SUBSET A : s # {} => s = {c}
      BY <1>3
    <2>1. A \ {c} = {} /\ c \in Calls
      BY <1>3 DEF Alerted
    <2>2. Oldest({c}) = c
      BY <2>1 DEF Oldest, Calls
    <2>3. Iter(g1)
      <3>1. SUBSET A = {{}, {c}} /\ {c} \ {c} = {} /\ {c} # {}
        BY <1>3
      <3>2. g1[{}] = entry
        BY <3>1
      <3>3. \A s \in SUBSET A : s # {} => Oldest(s) = c /\ s \ {c} = {}
        BY <2>0, <2>2
      <3>4. \A s \in SUBSET A :
               (IF s = {} THEN entry ELSE put) =
               (IF s = {} THEN entry
                ELSE LET x == Oldest(s)
                     IN  CachePut(g1[s \ {x}], sess[e][x].rs1, sess[e][x].expired))
        BY <3>2, <3>3
      <3> HIDE DEF A, put
      <3> QED BY <3>4
    <2>4. Iter(CHOOSE g : Iter(g))
      BY <2>3
    <2>5. \A g : Iter(g) => g[{}] = entry /\ g[{c}] = put
      <3> SUFFICES ASSUME NEW g, Iter(g) PROVE g[{}] = entry /\ g[{c}] = put
        OBVIOUS
      <3>1. {} \in SUBSET A /\ {c} \in SUBSET A /\ {c} \ {c} = {} /\ {c} # {}
        BY <1>3
      <3> HIDE DEF A
      <3>2. g[{}] = entry
        BY <3>1
      <3>3. g[{c}] = CachePut(g[{c} \ {c}], sess[e][c].rs1, sess[e][c].expired)
        BY <3>1, <2>2
      <3> QED BY <3>1, <3>2, <3>3
    <2> QED BY <1>1, <1>3, <2>4, <2>5
  <1> QED BY <1>2, <1>3

-----------------------------------------------------------------------------
(* What the invariant says of the endpoints.                               *)

LEMMA Now ==
    ASSUME SecretsInv, calls # 0
    PROVE  /\ calls \in Calls /\ calls \in Nat /\ calls \in 0..MaxCalls
           /\ initiator[calls] \in Endpoints
           /\ \A e \in Endpoints :
                 /\ EndpointFits(e, cache[e], sess[e][calls], vouched[e])
                 /\ cache[e] \in EntryType /\ sess[e][calls] \in SessionType
                 /\ vouched[e] \in SUBSET SecretValues
                 /\ sess[e] \in [Calls -> SessionType]
  <1>1. calls \in Calls /\ calls \in Nat /\ calls \in 0..MaxCalls
    BY SecretsAssumption DEF SecretsInv, TypeOK, Calls
  <1>2. initiator[calls] \in Endpoints
    BY <1>1 DEF SecretsInv, OneCall
  <1>3. \A e \in Endpoints : EndpointFits(e, cache[e], sess[e][calls], vouched[e])
    BY DEF SecretsInv
  <1>4. \A e \in Endpoints : cache[e] \in EntryType /\ vouched[e] \in SUBSET SecretValues
                             /\ sess[e] \in [Calls -> SessionType]
    BY DEF SecretsInv, TypeOK, EntryType, SessionType
  <1> QED BY <1>1, <1>2, <1>3, <1>4

LEMMA LiveIsLast ==
    ASSUME SecretsInv, NEW e \in Endpoints, NEW c \in Calls,
           sess[e][c].phase \notin {"none", "down"}
    PROVE  c = calls /\ calls # 0
  BY SecretsAssumption DEF SecretsInv, OneCall, Calls

LEMMA AlertIsLast ==
    ASSUME SecretsInv, calls # 0, NEW e \in Endpoints
    PROVE  /\ ~sess[e][calls].alert => Alerted(e) = {}
           /\ sess[e][calls].alert => Alerted(e) = {calls} /\ sess[e][calls].phase = "secure"
           /\ Acknowledge(sess[e]) = [sess[e] EXCEPT ![calls].alert = FALSE]
  <1>1. \A c \in Calls : sess[e][c].alert => c = calls /\ sess[e][c].phase = "secure"
    BY DEF SecretsInv, OneCall
  <1>2. calls \in Calls /\ sess[e] \in [Calls -> SessionType]
    BY Now
  <1>3. \A c \in Calls : c # calls => [sess[e][c] EXCEPT !.alert = FALSE] = sess[e][c]
    <2> SUFFICES ASSUME NEW c \in Calls, c # calls
                 PROVE  [sess[e][c] EXCEPT !.alert = FALSE] = sess[e][c]
      OBVIOUS
    <2>1. sess[e][c] \in SessionType /\ sess[e][c].alert = FALSE
      BY <1>1, <1>2 DEF SessionType
    <2> QED BY <2>1 DEF SessionType
  <1>4. Acknowledge(sess[e]) = [sess[e] EXCEPT ![calls].alert = FALSE]
    <2>1. Acknowledge(sess[e]) = [c \in Calls |-> [sess[e][c] EXCEPT !.alert = FALSE]]
      BY DEF Acknowledge
    <2>2. [sess[e] EXCEPT ![calls].alert = FALSE] =
             [c \in Calls |-> IF c = calls THEN [sess[e][c] EXCEPT !.alert = FALSE] ELSE sess[e][c]]
      BY <1>2
    <2> QED BY <2>1, <2>2, <1>3
  <1> QED BY <1>1, <1>2, <1>4 DEF Alerted

\* What the verified flag changes of an entry.
LEMMA FlagOnly ==
    ASSUME NEW entry \in EntryType, NEW v \in BOOLEAN, entry.curr = NONE => entry = NoEntry
    PROVE  LET n == SetVerified(entry, v)
           IN  /\ n \in EntryType /\ n.verified = (v /\ entry.curr # NONE)
               /\ n.curr = entry.curr /\ n.prev = entry.prev /\ n.expired = entry.expired
               /\ n.curr = NONE => n = NoEntry
  <1> DEFINE n == SetVerified(entry, v)
  <1>1. /\ n \in EntryType /\ n.verified = (v /\ entry.curr # NONE)
        /\ n.curr = entry.curr /\ n.prev = entry.prev /\ n.expired = entry.expired
    BY DEF SetVerified, EntryType
  <1> HIDE DEF n
  <1>2. ASSUME n.curr = NONE PROVE n = NoEntry
    <2>1. entry.curr = NONE /\ entry.prev = NONE /\ entry.expired = FALSE
      BY <1>1, <1>2 DEF NoEntry
    <2>2. n.curr = NONE /\ n.prev = NONE /\ n.expired = FALSE
      BY <1>1, <2>1
    <2>3. n.verified \in BOOLEAN /\ ~n.verified
      BY <1>1, <2>1 DEF EntryType
    <2>4. n.verified = FALSE
      BY <2>3
    <2>5. n = [curr |-> n.curr, prev |-> n.prev, expired |-> n.expired, verified |-> n.verified]
      BY <1>1 DEF EntryType
    <2> QED BY <2>2, <2>4, <2>5 DEF NoEntry
  <1> QED BY <1>1, <1>2 DEF n

\* What zrtp_verified_set leaves in the cache.
LEMMA AfterSet ==
    ASSUME SecretsInv, calls # 0, NEW e \in Endpoints, NEW v \in BOOLEAN
    PROVE  LET n == AfterVerifiedSet(e, v)
               s == sess[e][calls]
           IN  /\ n \in EntryType
               /\ n.verified = (v /\ cache[e].curr # NONE)
               /\ n.curr = IF s.alert THEN s.rs1 ELSE cache[e].curr
               /\ n.prev = IF s.alert /\ cache[e].curr # NONE THEN cache[e].curr ELSE cache[e].prev
               /\ n.curr = NONE => n = NoEntry
  <1> DEFINE n == AfterVerifiedSet(e, v)
             s == sess[e][calls]
             flagged == SetVerified(cache[e], v)
  <1>1. cache[e] \in EntryType /\ s \in SessionType /\ TypesFit(cache[e], s, vouched[e])
    BY Now DEF EndpointFits
  <1>2. /\ flagged \in EntryType /\ flagged.verified = (v /\ cache[e].curr # NONE)
        /\ flagged.curr = cache[e].curr /\ flagged.prev = cache[e].prev
        /\ flagged.curr = NONE => flagged = NoEntry
    BY <1>1, FlagOnly DEF TypesFit
  <1>3. n = PutAlerted(e, flagged)
    BY DEF AfterVerifiedSet
  <1>4. CASE ~s.alert
    <2>1. n = flagged
      BY <1>3, <1>4, AlertIsLast, PutOne
    <2> QED BY <2>1, <1>2, <1>4
  <1>5. CASE s.alert
    <2>1. n = CachePut(flagged, s.rs1, s.expired)
      BY <1>3, <1>5, AlertIsLast, PutOne
    <2>2. s.rs1 # NONE /\ s.rs1 \in SecretValues /\ s.expired \in BOOLEAN
      BY <1>1, <1>5 DEF TypesFit, SessionType
    <2>3. /\ n \in EntryType /\ n.verified = flagged.verified /\ n.curr = s.rs1
          /\ n.prev = IF flagged.curr = NONE THEN flagged.prev ELSE flagged.curr
      BY <2>1, <2>2, <1>2 DEF CachePut, EntryType
    <2> QED BY <2>2, <2>3, <1>2, <1>5
  <1> QED BY <1>4, <1>5

-----------------------------------------------------------------------------
(* A turn of one endpoint: it changes its entry, the session of the last   *)
(* call and what its user trusts.                                          *)

Turn(e, n, s, w) ==
    /\ calls' = calls /\ initiator' = initiator
    /\ cache' = [cache EXCEPT ![e] = n]
    /\ sess' = [sess EXCEPT ![e] = [sess[e] EXCEPT ![calls] = s]]
    /\ vouched' = [vouched EXCEPT ![e] = w]

\* What the peer of e may rely on.
PeerFits(e, n, s) ==
    /\ ChosenFit(sess[Peer(e)][calls], s)
    /\ CoverFit(sess[Peer(e)][calls], n, s)
    /\ {n.curr, n.prev, s.rs1, s.rs2} \subseteq
          {NONE, <<"call", calls>>, cache[e].curr, cache[e].prev,
           sess[e][calls].rs1, sess[e][calls].rs2} \cup OwnOf(e)

LEMMA TurnKeeps ==
    ASSUME SecretsInv, TypeOK', calls # 0, NEW e \in Endpoints, NEW n, NEW s, NEW w,
           Turn(e, n, s, w), EndpointFits(e, n, s, w), PeerFits(e, n, s)
    PROVE  SecretsInv'
  <1> DEFINE p == Peer(e)
  <1>1. calls \in Calls /\ p \in Endpoints /\ p # e /\ Peer(p) = e
        /\ \A x \in Endpoints : x = e \/ x = p
    BY Now, PeerIsTheOther
  <1>2. /\ cache \in [Endpoints -> EntryType] /\ sess \in [Endpoints -> [Calls -> SessionType]]
        /\ vouched \in [Endpoints -> SUBSET SecretValues]
    BY DEF SecretsInv, TypeOK, EntryType, SessionType
  <1>3. /\ calls' = calls
        /\ cache'[e] = n /\ sess'[e][calls] = s /\ vouched'[e] = w
        /\ cache'[p] = cache[p] /\ sess'[p] = sess[p] /\ vouched'[p] = vouched[p]
        /\ \A c \in Calls : c # calls => sess'[e][c] = sess[e][c]
    BY <1>1, <1>2 DEF Turn
  <1>4. OneCall'
    <2>1. \A f \in Endpoints, c \in Calls : c # calls => sess'[f][c] = sess[f][c]
      BY <1>1, <1>3
    <2>2. \A f \in Endpoints : sess'[f][calls].alert => sess'[f][calls].phase = "secure"
      <3>1. s.alert => s.phase = "secure"
        BY DEF EndpointFits, TypesFit
      <3>2. sess[p][calls].alert => sess[p][calls].phase = "secure"
        BY <1>1 DEF SecretsInv, OneCall
      <3> QED BY <3>1, <3>2, <1>1, <1>3
    <2>3. ~(calls > calls)
      BY Now
    <2> QED BY <2>1, <2>2, <2>3, <1>3 DEF SecretsInv, OneCall, Turn, Calls
  <1>v. \A f \in Endpoints : ValuesOf(f)' = ValuesOf(f)
    BY <1>3 DEF ValuesOf, Made, OwnOf
  <1>5. EndpointFits(e, n, s, w)'
    <2>1. \A x : Unknown(e, x)' <=> Unknown(e, x)
      BY <1>1, <1>3, <1>v DEF Unknown
    <2>2. TypesFit(n, s, w)' /\ OrderFit(n, s)'
      BY DEF EndpointFits, TypesFit, OrderFit, InOrder, NoEntry
    <2>3. ValuesFit(e, n, s)' /\ LoadFit(e, n, s)'
      BY <1>3, <1>v DEF EndpointFits, ValuesFit, LoadFit
    <2>4. ChosenFit(s, sess[p][calls])' /\ CoverFit(s, cache[p], sess[p][calls])'
      <3>1. ChosenFit(s, sess[p][calls]) /\ CoverFit(s, cache[p], sess[p][calls])
        BY DEF EndpointFits
      <3> QED BY <1>3, <3>1 DEF ChosenFit, CoverFit, Choose
    <2>5. KnowFit(e, n, s)'
      BY <1>3, <2>1 DEF EndpointFits, KnowFit, Kept, Postponed
    <2>6. VouchFit(e, n, s, w)'
      BY <2>1 DEF EndpointFits, VouchFit
    <2> QED BY <2>2, <2>3, <2>4, <2>5, <2>6 DEF EndpointFits
  <1>6. EndpointFits(p, cache[p], sess[p][calls], vouched[p])'
    <2>0. EndpointFits(p, cache[p], sess[p][calls], vouched[p])
      BY <1>1, Now
    <2>1. \A x : Unknown(p, x) => Unknown(p, x)'
      <3> SUFFICES ASSUME NEW x, Unknown(p, x) PROVE Unknown(p, x)'
        OBVIOUS
      <3>1. /\ x # NONE /\ x # <<"call", calls>> /\ x \in ValuesOf(p)
            /\ x \notin {cache[e].curr, cache[e].prev, sess[e][calls].rs1, sess[e][calls].rs2}
        BY <1>1 DEF Unknown
      <3>2. x \notin OwnOf(e)
        BY <1>1, <3>1, Now, OwnNames DEF ValuesOf
      <3>3. x \notin {n.curr, n.prev, s.rs1, s.rs2}
        BY <3>1, <3>2 DEF PeerFits
      <3> QED BY <1>1, <1>3, <1>v, <3>1, <3>3 DEF Unknown
    <2>2. TypesFit(cache[p], sess[p][calls], vouched[p])' /\ OrderFit(cache[p], sess[p][calls])'
      <3>1. TypesFit(cache[p], sess[p][calls], vouched[p]) /\ OrderFit(cache[p], sess[p][calls])
        BY <2>0 DEF EndpointFits
      <3> QED BY <3>1, <1>3 DEF TypesFit, OrderFit, InOrder, NoEntry
    <2>3. ValuesFit(p, cache[p], sess[p][calls])' /\ LoadFit(p, cache[p], sess[p][calls])'
      <3>1. ValuesFit(p, cache[p], sess[p][calls]) /\ LoadFit(p, cache[p], sess[p][calls])
        BY <2>0 DEF EndpointFits
      <3> QED BY <3>1, <1>1, <1>3, <1>v DEF ValuesFit, LoadFit
    <2>4. /\ ChosenFit(sess[p][calls], sess[Peer(p)][calls])'
          /\ CoverFit(sess[p][calls], cache[Peer(p)], sess[Peer(p)][calls])'
      <3>1. ChosenFit(sess[p][calls], s) /\ CoverFit(sess[p][calls], n, s)
        BY <1>1 DEF PeerFits
      <3>2. ChosenFit(sess[p][calls], sess[Peer(p)][calls])'
        BY <1>1, <1>3, <3>1 DEF ChosenFit, Choose
      <3>3. CoverFit(sess[p][calls], cache[Peer(p)], sess[Peer(p)][calls])'
        BY <1>1, <1>3, <3>1 DEF CoverFit
      <3> QED BY <3>2, <3>3
    <2>5. KnowFit(p, cache[p], sess[p][calls])'
      <3>1. KnowFit(p, cache[p], sess[p][calls])
        BY <2>0 DEF EndpointFits
      <3> QED BY <3>1, <1>3, <2>1 DEF KnowFit, Kept, Postponed
    <2>6. VouchFit(p, cache[p], sess[p][calls], vouched[p])'
      <3>1. VouchFit(p, cache[p], sess[p][calls], vouched[p])
        BY <2>0 DEF EndpointFits
      <3> QED BY <3>1, <1>3, <2>1 DEF VouchFit
    <2> QED BY <2>2, <2>3, <2>4, <2>5, <2>6 DEF EndpointFits
  <1>7. \A f \in Endpoints : EndpointFits(f, cache[f], sess[f][calls], vouched[f])'
    <2> TAKE f \in Endpoints
    <2>1. CASE f = e
      <3>1. EndpointFits(e, n, s, w)' = EndpointFits(e, cache[e], sess[e][calls], vouched[e])'
        BY <1>3
      <3> QED BY <2>1, <3>1, <1>5
    <2>2. CASE f = p
      BY <2>2, <1>6
    <2> QED BY <2>1, <2>2, <1>1
  <1> QED BY <1>3, <1>4, <1>7 DEF SecretsInv

LEMMA TurnTypes ==
    ASSUME SecretsInv, calls # 0, NEW e \in Endpoints, NEW n, NEW s, NEW w,
           Turn(e, n, s, w), TypesFit(n, s, w), keep' = keep,
           confirmV' \in [Endpoints -> [Calls -> BOOLEAN]], losses' \in 0..MaxLosses,
           stored' \in [Endpoints -> SUBSET Calls]
    PROVE  TypeOK'
  <1>1. /\ cache \in [Endpoints -> EntryType] /\ sess \in [Endpoints -> [Calls -> SessionType]]
        /\ vouched \in [Endpoints -> SUBSET SecretValues]
        /\ \A f \in Endpoints : cache[f].curr = NONE => cache[f] = NoEntry
    BY DEF SecretsInv, TypeOK, EntryType, SessionType
  <1>2. n \in EntryType /\ s \in SessionType /\ w \in SUBSET SecretValues
        /\ (n.curr = NONE => n = NoEntry)
    BY DEF TypesFit
  <1>3. /\ cache' \in [Endpoints -> EntryType] /\ sess' \in [Endpoints -> [Calls -> SessionType]]
        /\ vouched' \in [Endpoints -> SUBSET SecretValues]
    BY <1>1, <1>2 DEF Turn
  <1>4. \A f \in Endpoints : cache'[f].curr = NONE => cache'[f] = NoEntry
    BY <1>1, <1>2 DEF Turn
  <1>5. calls' \in 0..MaxCalls /\ initiator' \in [Calls -> Endpoints \cup {NONE}]
        /\ keep' \in [Calls -> BOOLEAN]
    BY DEF Turn, SecretsInv, TypeOK
  <1> QED BY <1>3, <1>4, <1>5 DEF TypeOK, EntryType, SessionType, NoEntry

\* A turn that leaves the secrets as they are.
LEMMA SameSecrets ==
    ASSUME SecretsInv, calls # 0, NEW e \in Endpoints, NEW n, NEW s,
           n.curr = cache[e].curr, n.prev = cache[e].prev,
           s.rs1 = sess[e][calls].rs1, s.rs2 = sess[e][calls].rs2,
           s.phase \in {"new"} \cup Open => sess[e][calls].phase \in {"new"} \cup Open,
           s.phase \in Open => sess[e][calls].phase \in Open
    PROVE  /\ ValuesFit(e, n, s) /\ OrderFit(n, s) /\ LoadFit(e, n, s)
           /\ {n.curr, n.prev, s.rs1, s.rs2} \subseteq
                 {NONE, <<"call", calls>>, cache[e].curr, cache[e].prev,
                  sess[e][calls].rs1, sess[e][calls].rs2} \cup OwnOf(e)
  <1>1. /\ ValuesFit(e, cache[e], sess[e][calls]) /\ OrderFit(cache[e], sess[e][calls])
        /\ LoadFit(e, cache[e], sess[e][calls])
    BY Now DEF EndpointFits
  <1> QED BY <1>1 DEF ValuesFit, OrderFit, LoadFit

\* What an endpoint and its peer are to each other.
LEMMA Both ==
    ASSUME SecretsInv, calls # 0, NEW e \in Endpoints
    PROVE  LET p == Peer(e)
               mine == sess[e][calls]
               other == sess[p][calls]
           IN  /\ p \in Endpoints /\ p # e /\ Peer(p) = e
               /\ EndpointFits(e, cache[e], mine, vouched[e])
               /\ EndpointFits(p, cache[p], other, vouched[p])
               /\ TypesFit(cache[e], mine, vouched[e]) /\ TypesFit(cache[p], other, vouched[p])
               /\ ValuesFit(e, cache[e], mine) /\ ValuesFit(p, cache[p], other)
               /\ OrderFit(cache[e], mine) /\ OrderFit(cache[p], other)
               /\ LoadFit(e, cache[e], mine) /\ LoadFit(p, cache[p], other)
               /\ ChosenFit(mine, other) /\ ChosenFit(other, mine)
               /\ CoverFit(mine, cache[p], other) /\ CoverFit(other, cache[e], mine)
               /\ KnowFit(e, cache[e], mine) /\ KnowFit(p, cache[p], other)
               /\ VouchFit(e, cache[e], mine, vouched[e])
  <1>1. Peer(e) \in Endpoints /\ Peer(e) # e /\ Peer(Peer(e)) = e
    BY PeerIsTheOther
  <1>2. /\ EndpointFits(e, cache[e], sess[e][calls], vouched[e])
        /\ EndpointFits(Peer(e), cache[Peer(e)], sess[Peer(e)][calls], vouched[Peer(e)])
    BY <1>1, Now
  <1> QED BY <1>1, <1>2 DEF EndpointFits

LEMMA PrepareKeeps ==
    ASSUME SecretsInv, NEW e \in Endpoints, NEW c \in 1..calls, Prepare(e, c)
    PROVE  SecretsInv'
  <1> DEFINE p == Peer(e)
             mine == sess[e][calls]
             other == sess[p][calls]
  <1>1. c \in Calls /\ sess[e][c].phase = "new"
    BY SecretsAssumption DEF SecretsInv, TypeOK, Calls, Prepare
  <1>2. c = calls /\ calls # 0
    BY <1>1, LiveIsLast
  <1>3. /\ mine \in SessionType /\ cache[e] \in EntryType /\ mine.phase = "new"
        /\ calls \in Calls
    BY <1>1, <1>2, Now
  <1>n. PICK n : n = cache[e]
    OBVIOUS
  <1>w. PICK w : w = vouched[e]
    OBVIOUS
  <1>s. PICK s : s = [mine EXCEPT
                 !.phase = "ready",
                 !.rs1 = IF n.curr # NONE THEN n.curr ELSE <<"own", e, calls>>,
                 !.rs2 = IF n.prev # NONE THEN n.prev ELSE <<"own2", e, calls>>,
                 !.expired = n.expired,
                 !.cached = {r \in {RS1, RS2} : IF r = RS1 THEN n.curr # NONE ELSE n.prev # NONE}]
    OBVIOUS
  <1>4. /\ s.phase = "ready" /\ s.alert = mine.alert
        /\ s.rs1 = IF n.curr # NONE THEN n.curr ELSE <<"own", e, calls>>
        /\ s.rs2 = IF n.prev # NONE THEN n.prev ELSE <<"own2", e, calls>>
    BY <1>3, <1>s DEF SessionType
  <1>5. <<"own", e, calls>> \in OwnOf(e) /\ <<"own2", e, calls>> \in OwnOf(e)
        /\ NONE \notin OwnOf(e) /\ OwnOf(e) \subseteq SecretValues
        /\ \A x : <<"call", x>> \notin OwnOf(e)
    BY <1>3, OwnNames
  <1>6. s \in SessionType
    <2>1. s.rs1 \in SecretValues /\ s.rs2 \in SecretValues
      BY <1>3, <1>4, <1>5, <1>n DEF EntryType
    <2>2. n.expired \in BOOLEAN
      BY <1>3, <1>n DEF EntryType
    <2> QED BY <1>3, <1>s, <1>4, <2>1, <2>2 DEF SessionType
  <1>7. Turn(e, n, s, w)
    <2>1. sess' = [sess EXCEPT ![e][calls] = s]
      BY <1>2, <1>n, <1>s DEF Prepare
    <2>2. sess' = [sess EXCEPT ![e] = [sess[e] EXCEPT ![calls] = s]]
      BY <2>1
    <2>3. cache' = [cache EXCEPT ![e] = n] /\ vouched' = [vouched EXCEPT ![e] = w]
      BY <1>n, <1>w DEF Prepare, SecretsInv, TypeOK
    <2> QED BY <2>2, <2>3 DEF Turn, Prepare
  <1>8. TypesFit(n, s, w)
    BY <1>3, <1>4, <1>5, <1>6, <1>n, <1>w, Both DEF TypesFit, Open
  <1>9. ValuesFit(e, n, s)
    <2>1. /\ {n.curr, n.prev} \subseteq ValuesOf(e)
          /\ <<"call", calls>> \notin {n.curr, n.prev}
      BY <1>3, <1>n, <1>2, Both DEF ValuesFit
    <2>2. {s.rs1, s.rs2} \subseteq ValuesOf(e)
      BY <2>1, <1>4, <1>5 DEF ValuesOf
    <2>3. <<"call", calls>> \notin {s.rs1, s.rs2}
      BY <2>1, <1>4, <1>5
    <2> QED BY <2>1, <2>2, <2>3 DEF ValuesFit
  <1>10. OrderFit(n, s)
    <2>1. InOrder(n.curr, n.prev)
      BY <1>2, <1>n, Both DEF OrderFit
    <2>2. InOrder(s.rs1, s.rs2)
      <3> SUFFICES ASSUME NEW y \in Calls, s.rs2 = <<"call", y>>
                   PROVE  \E x \in Calls : s.rs1 = <<"call", x>> /\ y <= x
        BY DEF InOrder
      <3>1. n.prev = <<"call", y>>
        BY <1>4, <1>5
      <3>2. PICK x \in Calls : n.curr = <<"call", x>> /\ y <= x
        BY <2>1, <3>1 DEF InOrder
      <3> QED BY <3>2, <1>4, CallNames
    <2> QED BY <2>1, <2>2 DEF OrderFit
  <1>11. LoadFit(e, n, s)
    BY <1>4 DEF LoadFit
  <1>12. EndpointFits(e, n, s, w)
    <2>1. ChosenFit(s, other) /\ CoverFit(s, cache[p], other)
      BY <1>2, <1>3, <1>4, Both DEF ChosenFit, CoverFit
    <2>2. KnowFit(e, n, s) /\ VouchFit(e, n, s, w)
      BY <1>2, <1>4, <1>n, <1>w, Both DEF KnowFit, VouchFit
    <2> QED BY <1>8, <1>9, <1>10, <1>11, <2>1, <2>2 DEF EndpointFits
  <1>13. PeerFits(e, n, s)
    <2>1. other.phase \in {"new", "ready", "down"}
      BY <1>2, <1>3, Both DEF CoverFit
    <2>2. ChosenFit(other, s)
      BY <2>1 DEF ChosenFit
    <2>3. CoverFit(other, n, s)
      BY <1>4 DEF CoverFit
    <2>4. {n.curr, n.prev, s.rs1, s.rs2} \subseteq
                {cache[e].curr, cache[e].prev} \cup OwnOf(e)
      BY <1>4, <1>5, <1>n
    <2> QED BY <2>2, <2>3, <2>4 DEF PeerFits
  <1>14. TypeOK'
    BY <1>2, <1>7, <1>8, TurnTypes DEF Prepare, SecretsInv, TypeOK
  <1> QED BY <1>2, <1>7, <1>12, <1>13, <1>14, TurnKeeps

LEMMA DeriveKeeps ==
    ASSUME SecretsInv, NEW e \in Endpoints, NEW c \in 1..calls, Derive(e, c)
    PROVE  SecretsInv'
  <1> DEFINE p == Peer(e)
             mine == sess[e][calls]
             other == sess[p][calls]
             matched == RS1Matches(mine, other)
  <1>1. c \in Calls /\ sess[e][c].phase = "ready"
    BY SecretsAssumption DEF SecretsInv, TypeOK, Calls, Derive
  <1>2. c = calls /\ calls # 0
    BY <1>1, LiveIsLast
  <1>3. /\ mine \in SessionType /\ cache[e] \in EntryType /\ mine.phase = "ready"
        /\ other \in SessionType /\ other.rs1 # NONE /\ other.phase # "new"
        /\ calls \in Calls
    BY <1>1, <1>2, Now, Both DEF Derive, TypesFit
  <1>n. PICK n : n = IF matched THEN cache[e] ELSE DropVerified(cache[e])
    OBVIOUS
  <1>w. PICK w : w = vouched[e]
    OBVIOUS
  <1>s. PICK s : s = [mine EXCEPT
                 !.phase = "derived",
                 !.chosen = Choose(mine, other),
                 !.matches = {r \in {RS1, RS2} : IF r = RS1 THEN matched ELSE mine.rs2 = other.rs2},
                 !.cached = IF FallsBack(mine, other) THEN mine.cached \cup {RS1} ELSE mine.cached]
    OBVIOUS
  <1>4. /\ s.phase = "derived" /\ s.alert = mine.alert /\ s.rs1 = mine.rs1 /\ s.rs2 = mine.rs2
        /\ s.chosen = Choose(mine, other)
    BY <1>3, <1>s DEF SessionType
  <1>5. s \in SessionType
    <2>1. Choose(mine, other) \in SecretValues
      <3>1. mine.rs1 \in SecretValues /\ mine.rs2 \in SecretValues
        BY <1>3 DEF SessionType
      <3> QED BY <3>1 DEF Choose, SecretValues
    <2>2. {r \in {RS1, RS2} : IF r = RS1 THEN matched ELSE mine.rs2 = other.rs2} \in SUBSET {RS1, RS2}
      OBVIOUS
    <2>3. mine.cached \cup {RS1} \in SUBSET {RS1, RS2} /\ mine.cached \in SUBSET {RS1, RS2}
      BY <1>3 DEF SessionType
    <2> QED BY <1>3, <1>s, <2>1, <2>2, <2>3 DEF SessionType
  <1>6. /\ n \in EntryType /\ n.curr = cache[e].curr /\ n.prev = cache[e].prev
        /\ n.curr = NONE => n = NoEntry
        /\ n.verified => matched /\ cache[e].verified
    <2>1. cache[e].curr = NONE => cache[e] = NoEntry
      BY <1>2, Both DEF TypesFit
    <2>2. CASE matched
      BY <1>n, <1>3, <2>1, <2>2
    <2>3. CASE ~matched
      <3>1. n = SetVerified(cache[e], FALSE)
        BY <1>n, <2>3 DEF DropVerified
      <3> QED BY <1>3, <2>1, <3>1, FlagOnly
    <2> QED BY <2>2, <2>3
  <1>7. Turn(e, n, s, w)
    <2>1. sess' = [sess EXCEPT ![e][calls] = s]
      BY <1>2, <1>s DEF Derive
    <2>2. sess' = [sess EXCEPT ![e] = [sess[e] EXCEPT ![calls] = s]]
      BY <2>1
    <2>3. cache' = [cache EXCEPT ![e] = n]
      <3>1. cache \in [Endpoints -> EntryType]
        BY DEF SecretsInv, TypeOK, EntryType
      <3>2. cache' = IF matched THEN cache ELSE [cache EXCEPT ![e] = DropVerified(cache[e])]
        BY <1>2 DEF Derive
      <3> QED BY <1>n, <3>1, <3>2
    <2>4. vouched' = [vouched EXCEPT ![e] = w]
      BY <1>w DEF Derive, SecretsInv, TypeOK
    <2> QED BY <2>2, <2>3, <2>4 DEF Turn, Derive
  <1>8. TypesFit(n, s, w)
    BY <1>2, <1>3, <1>4, <1>5, <1>6, <1>w, Both DEF TypesFit, Open
  <1>9. /\ ValuesFit(e, n, s) /\ OrderFit(n, s) /\ LoadFit(e, n, s)
        /\ {n.curr, n.prev, s.rs1, s.rs2} \subseteq
              {NONE, <<"call", calls>>, cache[e].curr, cache[e].prev, mine.rs1, mine.rs2} \cup OwnOf(e)
    BY <1>2, <1>3, <1>4, <1>6, SameSecrets DEF Open
  <1>10. mine.rs1 \notin {other.rs1, other.rs2} => Unknown(e, mine.rs1)
    <2>1. {cache[p].curr, cache[p].prev} \subseteq {NONE, other.rs1, other.rs2}
      BY <1>2, <1>3, Both DEF CoverFit
    <2>2. mine.rs1 # NONE /\ mine.rs1 # <<"call", calls>> /\ mine.rs1 \in ValuesOf(e)
      BY <1>2, <1>3, Both DEF TypesFit, ValuesFit, Open
    <2> QED BY <2>1, <2>2 DEF Unknown
  <1>11. KnowFit(e, n, s)
    BY <1>4, <1>10 DEF KnowFit, Choose
  <1>12. VouchFit(e, n, s, w)
    <2> SUFFICES ASSUME n.verified
                 PROVE  /\ n.curr \in w
                        /\ n.prev \in w \cup {NONE} \/ Unknown(e, n.prev)
                        /\ s.chosen \in w
      BY DEF VouchFit
    <2>1. /\ matched /\ n.curr \in w
          /\ n.prev \in w \cup {NONE} \/ Unknown(e, n.prev)
      BY <1>2, <1>6, <1>w, Both DEF VouchFit
    <2>2. n.curr # NONE
      <3>1. n.curr = NONE => ~n.verified
        BY <1>6 DEF NoEntry
      <3> QED BY <3>1
    <2>3. mine.rs1 = n.curr
      BY <1>2, <1>3, <1>6, <2>2, Both DEF LoadFit, Open
    <2>4. CASE mine.rs1 \in {other.rs1, other.rs2}
      BY <1>4, <2>1, <2>3, <2>4 DEF Choose
    <2>5. CASE mine.rs1 \notin {other.rs1, other.rs2}
      <3>1. mine.rs2 = other.rs1 /\ s.chosen = mine.rs2
        BY <1>4, <2>1, <2>5 DEF Choose, RS1Matches
      <3>2. mine.rs2 = IF n.prev = NONE THEN <<"own2", e, calls>> ELSE n.prev
        BY <1>2, <1>3, <1>6, Both DEF LoadFit, Open
      <3>3. n.prev # NONE
        <4>1. other.rs1 \in ValuesOf(p) /\ p \in Endpoints
          BY <1>2, Both DEF ValuesFit
        <4>2. <<"own2", e, calls>> \in OwnOf(e)
          BY <1>3, OwnNames
        <4>3. <<"own2", e, calls>> \notin ValuesOf(p)
          <5>1. OwnOf(e) \cap OwnOf(p) = {} /\ OwnOf(e) \cap Made(calls) = {} /\ NONE \notin OwnOf(e)
            BY <1>2, OwnNames, Now
          <5> QED BY <4>2, <5>1 DEF ValuesOf
        <4> QED BY <3>1, <3>2, <4>1, <4>3
      <3>4. ~Unknown(e, n.prev)
        BY <3>1, <3>2, <3>3 DEF Unknown
      <3> QED BY <2>1, <3>1, <3>2, <3>3, <3>4
    <2> QED BY <2>1, <2>4, <2>5
  <1>13. EndpointFits(e, n, s, w)
    <2>1. ChosenFit(s, other) /\ CoverFit(s, cache[p], other)
      <3>1. Choose(s, other) = Choose(mine, other)
        BY <1>4 DEF Choose
      <3> QED BY <1>4, <3>1 DEF ChosenFit, CoverFit
    <2> QED BY <1>8, <1>9, <1>11, <1>12, <2>1 DEF EndpointFits
  <1>14. PeerFits(e, n, s)
    <2>1. ChosenFit(other, s)
      <3>1. Choose(other, s) = Choose(other, mine)
        BY <1>4 DEF Choose
      <3>2. ChosenFit(other, mine)
        BY <1>2, Both
      <3> QED BY <1>3, <1>4, <3>1, <3>2 DEF ChosenFit
    <2>2. CoverFit(other, n, s)
      <3>1. CoverFit(other, cache[e], mine)
        BY <1>2, Both
      <3> QED BY <1>3, <1>4, <1>6, <3>1 DEF CoverFit
    <2> QED BY <1>9, <2>1, <2>2 DEF PeerFits
  <1>15. TypeOK'
    <2>1. confirmV' \in [Endpoints -> [Calls -> BOOLEAN]]
      <3>1. confirmV \in [Endpoints -> [Calls -> BOOLEAN]]
        BY DEF SecretsInv, TypeOK
      <3>2. cache'[e].verified \in BOOLEAN
        <4>1. cache'[e] = n
          BY <1>7 DEF Turn, SecretsInv, TypeOK
        <4> QED BY <1>6, <4>1 DEF EntryType
      <3>3. CASE e = initiator[c]
        BY <3>1, <3>3 DEF Derive
      <3>4. CASE e # initiator[c]
        <4>1. confirmV' = [confirmV EXCEPT ![e][c] = cache'[e].verified]
          BY <3>4 DEF Derive
        <4> QED BY <1>1, <3>1, <3>2, <4>1
      <3> QED BY <3>3, <3>4
    <2>2. keep' = keep /\ losses' \in 0..MaxLosses /\ stored' \in [Endpoints -> SUBSET Calls]
      BY DEF Derive, SecretsInv, TypeOK
    <2> QED BY <1>2, <1>7, <1>8, <2>1, <2>2, TurnTypes
  <1> QED BY <1>2, <1>7, <1>13, <1>14, <1>15, TurnKeeps

\* The V flag of a Confirm.
LEMMA Processed ==
    ASSUME SecretsInv, calls # 0, NEW e \in Endpoints, NEW v \in BOOLEAN
    PROVE  LET n == ProcessV(e, v)
               mine == sess[e][calls]
           IN  /\ n \in EntryType
               /\ n.curr = NONE => n = NoEntry
               /\ n.verified => v /\ cache[e].verified
               /\ (v \/ ~mine.alert) => n.curr = cache[e].curr /\ n.prev = cache[e].prev
               /\ (~v /\ mine.alert) =>
                     /\ n.curr = mine.rs1
                     /\ n.prev = IF cache[e].curr # NONE THEN cache[e].curr ELSE cache[e].prev
               /\ StoredByV(e, v) \subseteq Calls
               /\ SessionsAfterV(e, v) =
                     [sess[e] EXCEPT ![calls].alert = IF v THEN mine.alert ELSE FALSE]
               /\ ~mine.alert => SessionsAfterV(e, v) = sess[e]
  <1> DEFINE n == ProcessV(e, v)
             mine == sess[e][calls]
  <1>1. /\ calls \in Calls /\ mine \in SessionType /\ sess[e] \in [Calls -> SessionType]
        /\ cache[e] \in EntryType /\ (cache[e].curr = NONE => cache[e] = NoEntry)
    BY Now, Both DEF TypesFit
  <1>2. StoredByV(e, v) \subseteq Calls
    BY DEF StoredByV, Alerted
  <1>3. [mine EXCEPT !.alert = mine.alert] = mine /\ (~mine.alert => mine.alert = FALSE)
    BY <1>1 DEF SessionType
  <1>4. [sess[e] EXCEPT ![calls].alert = mine.alert] = sess[e]
    <2>1. [sess[e] EXCEPT ![calls].alert = mine.alert] =
             [c \in Calls |-> IF c = calls THEN [mine EXCEPT !.alert = mine.alert] ELSE sess[e][c]]
      BY <1>1
    <2> QED BY <1>1, <1>3, <2>1
  <1>5. CASE v
    <2>1. n = cache[e] /\ SessionsAfterV(e, v) = sess[e]
      BY <1>5 DEF ProcessV, SessionsAfterV
    <2> QED BY <1>1, <1>2, <1>4, <1>5, <2>1
  <1>6. CASE ~v
    <2>1. n = AfterVerifiedSet(e, FALSE)
      BY <1>6 DEF ProcessV
    <2>2. SessionsAfterV(e, v) = [sess[e] EXCEPT ![calls].alert = FALSE]
      BY <1>6, AlertIsLast DEF SessionsAfterV
    <2>3. /\ n \in EntryType /\ ~n.verified
          /\ n.curr = IF mine.alert THEN mine.rs1 ELSE cache[e].curr
          /\ n.prev = IF mine.alert /\ cache[e].curr # NONE THEN cache[e].curr ELSE cache[e].prev
          /\ n.curr = NONE => n = NoEntry
      BY <2>1, AfterSet
    <2>4. ~mine.alert => SessionsAfterV(e, v) = sess[e]
      BY <1>3, <1>4, <2>2
    <2>5. SessionsAfterV(e, v) = [sess[e] EXCEPT ![calls].alert = IF v THEN mine.alert ELSE FALSE]
      <3>1. (IF v THEN mine.alert ELSE FALSE) = FALSE
        BY <1>6
      <3> QED BY <2>2, <3>1
    <2> QED BY <1>2, <1>6, <2>3, <2>4, <2>5
  <1> QED BY <1>5, <1>6

LEMMA Confirm1Keeps ==
    ASSUME SecretsInv, NEW c \in 1..calls, Confirm1(c)
    PROVE  SecretsInv'
  <1>1. c \in Calls /\ initiator[c] \in Endpoints
    BY SecretsAssumption DEF SecretsInv, TypeOK, OneCall, Calls
  <1>e. PICK e \in Endpoints : e = initiator[c]
    BY <1>1
  <1> DEFINE p == Peer(e)
             mine == sess[e][calls]
             other == sess[p][calls]
  <1>2. sess[e][c].phase = "derived" /\ sess[p][c].phase = "derived"
    BY <1>e DEF Confirm1
  <1>3. c = calls /\ calls # 0
    BY <1>1, <1>2, LiveIsLast
  <1>4. /\ mine \in SessionType /\ cache[e] \in EntryType /\ mine.phase = "derived"
        /\ other.phase = "derived" /\ calls \in Calls /\ p \in Endpoints
        /\ sess[e] \in [Calls -> SessionType]
    BY <1>2, <1>3, Now, PeerIsTheOther
  <1>5. mine.alert = FALSE
    BY <1>3, <1>4, Both DEF TypesFit, SessionType
  <1>v. PICK v \in BOOLEAN : v = confirmV[p][c]
    BY <1>1, <1>4 DEF SecretsInv, TypeOK
  <1>n. PICK n : n = ProcessV(e, v)
    OBVIOUS
  <1>w. PICK w : w = vouched[e]
    OBVIOUS
  <1>s. PICK s : s = [mine EXCEPT !.phase = "confirmed"]
    OBVIOUS
  <1>6. /\ n \in EntryType /\ n.curr = cache[e].curr /\ n.prev = cache[e].prev
        /\ n.curr = NONE => n = NoEntry
        /\ n.verified => cache[e].verified
        /\ SessionsAfterV(e, v) = sess[e] /\ StoredByV(e, v) \subseteq Calls
    BY <1>3, <1>5, <1>n, Processed
  <1>7. /\ s \in SessionType /\ s.phase = "confirmed" /\ s.alert = FALSE /\ s.rs1 = mine.rs1
        /\ s.rs2 = mine.rs2 /\ s.chosen = mine.chosen
    BY <1>4, <1>5, <1>s DEF SessionType
  <1>8. Turn(e, n, s, w)
    <2>1. cache' = [cache EXCEPT ![e] = n]
      BY <1>e, <1>v, <1>n DEF Confirm1
    <2>2. sess' = [sess EXCEPT ![e] = [sess[e] EXCEPT ![calls] = s]]
      <3>1. sess' = [sess EXCEPT ![e] = [sess[e] EXCEPT ![calls].phase = "confirmed"]]
        BY <1>e, <1>v, <1>3, <1>6 DEF Confirm1
      <3> QED BY <3>1, <1>s
    <2>3. vouched' = [vouched EXCEPT ![e] = w]
      BY <1>w DEF Confirm1, SecretsInv, TypeOK
    <2> QED BY <2>1, <2>2, <2>3 DEF Turn, Confirm1
  <1>9. /\ ValuesFit(e, n, s) /\ OrderFit(n, s) /\ LoadFit(e, n, s)
        /\ {n.curr, n.prev, s.rs1, s.rs2} \subseteq
              {NONE, <<"call", calls>>, cache[e].curr, cache[e].prev, mine.rs1, mine.rs2} \cup OwnOf(e)
    BY <1>3, <1>4, <1>6, <1>7, SameSecrets DEF Open
  <1>10. TypesFit(n, s, w)
    BY <1>3, <1>4, <1>6, <1>7, <1>w, Both DEF TypesFit, Open
  <1>11. EndpointFits(e, n, s, w)
    <2>1. ChosenFit(s, other) /\ CoverFit(s, cache[p], other)
      BY <1>7 DEF ChosenFit, CoverFit
    <2>2. KnowFit(e, n, s)
      BY <1>3, <1>4, <1>7, Both DEF KnowFit
    <2>3. VouchFit(e, n, s, w)
      BY <1>3, <1>4, <1>6, <1>7, <1>w, Both DEF VouchFit
    <2> QED BY <1>9, <1>10, <2>1, <2>2, <2>3 DEF EndpointFits
  <1>12. PeerFits(e, n, s)
    BY <1>4, <1>7, <1>9 DEF PeerFits, ChosenFit, CoverFit
  <1>13. TypeOK'
    <2>1. cache'[e] = n
      BY <1>8 DEF Turn, SecretsInv, TypeOK
    <2>2. confirmV' \in [Endpoints -> [Calls -> BOOLEAN]]
      <3>1. confirmV' = [confirmV EXCEPT ![e][c] = cache'[e].verified]
        BY <1>e DEF Confirm1
      <3>2. cache'[e].verified \in BOOLEAN
        BY <1>6, <2>1 DEF EntryType
      <3> QED BY <3>1, <3>2, <1>1 DEF SecretsInv, TypeOK
    <2>3. stored' \in [Endpoints -> SUBSET Calls]
      <3>1. stored' = [stored EXCEPT ![e] = stored[e] \cup StoredByV(e, v)]
        BY <1>e, <1>v DEF Confirm1
      <3> QED BY <3>1, <1>6 DEF SecretsInv, TypeOK
    <2>4. keep' = keep /\ losses' \in 0..MaxLosses
      BY DEF Confirm1, SecretsInv, TypeOK
    <2> QED BY <1>3, <1>8, <1>10, <2>2, <2>3, <2>4, TurnTypes
  <1> QED BY <1>3, <1>8, <1>11, <1>12, <1>13, TurnKeeps

\* InOrder of a secret that is none, the same, or any of the calls so far.
LEMMA Orders ==
    ASSUME NEW e \in Endpoints, calls \in Calls, NEW x \in ValuesOf(e)
    PROVE  InOrder(<<"call", calls>>, x) /\ InOrder(x, x) /\ \A y : InOrder(y, NONE)
  <1>1. \A y \in Calls : x = <<"call", y>> => y <= calls
    <2> SUFFICES ASSUME NEW y \in Calls, x = <<"call", y>> PROVE y <= calls
      OBVIOUS
    <2>1. x # NONE /\ x \notin OwnOf(e)
      BY OwnNames, CallNames
    <2>2. x \in Made(calls) /\ calls \in Nat
      BY <2>1 DEF ValuesOf, Calls
    <2>3. PICK d \in 1..calls : x = <<"call", d>>
      BY <2>2, CallNames
    <2>4. d \in Calls
      BY SecretsAssumption DEF Calls
    <2>5. y = d
      BY <2>3, <2>4, CallNames
    <2> QED BY <2>2, <2>5
  <1>2. InOrder(<<"call", calls>>, x)
    BY <1>1 DEF InOrder
  <1>3. InOrder(x, x)
    BY DEF InOrder, Calls
  <1>4. \A y : InOrder(y, NONE)
    BY CallNames DEF InOrder
  <1> QED BY <1>2, <1>3, <1>4

\* Entering SECURE with entry m, which may have lost its verified flag.
LEMMA SecureKeeps ==
    ASSUME SecretsInv, calls # 0, NEW e \in Endpoints, NEW m \in EntryType,
           sess[e][calls].phase \in {"derived", "confirmed"},
           sess[Peer(e)][calls].phase \in {"confirmed", "secure"},
           m.curr = cache[e].curr, m.prev = cache[e].prev, m.verified => cache[e].verified,
           m.curr = NONE => m = NoEntry,
           EnterSecure(e, calls, sess[e][calls], m, sess[e]),
           calls' = calls, initiator' = initiator, keep' = keep, losses' = losses,
           confirmV' = confirmV, stored' \in [Endpoints -> SUBSET Calls]
    PROVE  SecretsInv'
  <1> DEFINE p == Peer(e)
             mine == sess[e][calls]
             other == sess[p][calls]
             new == <<"call", calls>>
  <1>1. /\ calls \in Calls /\ calls \in Nat /\ mine \in SessionType /\ keep[calls] \in BOOLEAN
        /\ new \in SecretValues /\ new # NONE /\ new \in ValuesOf(e)
    BY Now, CallNames DEF SecretsInv, TypeOK, ValuesOf, Made
  <1>2. /\ TypesFit(cache[e], mine, vouched[e]) /\ ValuesFit(e, cache[e], mine)
        /\ OrderFit(cache[e], mine) /\ LoadFit(e, cache[e], mine) /\ KnowFit(e, cache[e], mine)
        /\ VouchFit(e, cache[e], mine, vouched[e])
    BY Both
  <1>3. /\ mine.rs1 # NONE /\ mine.rs1 \in SecretValues /\ mine.rs1 \in ValuesOf(e)
        /\ m.curr = NONE \/ mine.rs1 = m.curr
        /\ mine.chosen = mine.rs1 \/ Unknown(e, mine.rs1)
        /\ InOrder(new, mine.rs1) /\ InOrder(mine.rs1, mine.rs1) /\ \A y : InOrder(y, NONE)
    <2>1. /\ mine.rs1 # NONE /\ mine.rs1 \in SecretValues /\ mine.rs1 \in ValuesOf(e)
          /\ m.curr = NONE \/ mine.rs1 = m.curr
          /\ mine.chosen = mine.rs1 \/ Unknown(e, mine.rs1)
      BY <1>2 DEF TypesFit, ValuesFit, LoadFit, KnowFit, Open, SessionType
    <2> QED BY <2>1, <1>1, Orders
  <1>4. m.curr = NONE => m.prev = NONE /\ ~m.verified
    BY DEF NoEntry
  <1>s. PICK s : s = IF keep[calls] THEN RollOver(mine, calls) ELSE NoRollOver(mine)
    OBVIOUS
  <1>n. PICK n : n = IF ~keep[calls] THEN CachePut(m, mine.rs1, TRUE)
                     ELSE IF StoreNow(mine) THEN CachePut(m, new, FALSE) ELSE m
    OBVIOUS
  <1>w. PICK w : w = IF mine.chosen \in vouched[e] THEN vouched[e] \cup {new} ELSE vouched[e]
    OBVIOUS
  <1>5. /\ s \in SessionType /\ s.phase = "secure" /\ s.alert = Alert(mine) /\ s.chosen = mine.chosen
        /\ s.rs1 = IF keep[calls] THEN new ELSE mine.rs1
        /\ s.rs2 = IF keep[calls] THEN mine.rs1 ELSE mine.rs2
    <2>1. Wrongs(mine) \in SUBSET {RS1} /\ Alert(mine) \in BOOLEAN
      BY <1>1 DEF Wrongs, Alert, SessionType, RS1, RS2
    <2>2. CASE keep[calls]
      <3>1. s = RollOver(mine, calls)
        BY <1>s, <2>2
      <3>2. mine.cached \cup {RS1} \in SUBSET {RS1, RS2} /\ mine.matches \cup {RS1} \in SUBSET {RS1, RS2}
        BY <1>1 DEF SessionType
      <3> HIDE DEF mine, new
      <3>3. s \in SessionType
        BY <1>1, <1>3, <2>1, <3>1, <3>2 DEF RollOver, SessionType, new
      <3>4. s.phase = "secure" /\ s.alert = Alert(mine) /\ s.chosen = mine.chosen
            /\ s.rs1 = new /\ s.rs2 = mine.rs1
        BY <1>1, <3>1 DEF RollOver, SessionType, new
      <3> QED BY <2>2, <3>3, <3>4
    <2>3. CASE ~keep[calls]
      <3>1. s = NoRollOver(mine)
        BY <1>s, <2>3
      <3> HIDE DEF mine
      <3>2. s \in SessionType
        BY <1>1, <2>1, <3>1 DEF NoRollOver, SessionType
      <3>3. s.phase = "secure" /\ s.alert = Alert(mine) /\ s.chosen = mine.chosen
            /\ s.rs1 = mine.rs1 /\ s.rs2 = mine.rs2
        BY <1>1, <3>1 DEF NoRollOver, SessionType
      <3> QED BY <2>3, <3>2, <3>3
    <2> QED BY <2>2, <2>3
  <1>6. w \in SUBSET SecretValues /\ vouched[e] \subseteq w /\ (mine.chosen \in vouched[e] => new \in w)
    BY <1>1, <1>2, <1>w DEF TypesFit
  <1>7. \A x \in SecretValues, b \in BOOLEAN : LET q == CachePut(m, x, b) IN
           /\ q \in EntryType /\ q.curr = x /\ q.verified = m.verified
           /\ q.prev = IF m.curr = NONE THEN m.prev ELSE m.curr
    BY DEF CachePut, EntryType
  <1>8. Turn(e, n, s, w)
    <2>1. sess' = [sess EXCEPT ![e] = [sess[e] EXCEPT ![calls] = s]]
      BY <1>s DEF EnterSecure
    <2>2. cache' = [cache EXCEPT ![e] = n]
      BY <1>n DEF EnterSecure
    <2>3. vouched' = [vouched EXCEPT ![e] = w]
      BY <1>w DEF EnterSecure
    <2> QED BY <2>1, <2>2, <2>3 DEF Turn
  <1> HIDE DEF new, mine, other
  <1> DEFINE Good ==
               /\ TypesFit(n, s, w) /\ ValuesFit(e, n, s) /\ OrderFit(n, s)
               /\ KnowFit(e, n, s) /\ VouchFit(e, n, s, w)
               /\ {n.curr, n.prev, s.rs1, s.rs2}
                     \subseteq {NONE, new, cache[e].curr, cache[e].prev, mine.rs1, mine.rs2}
  <1>9. ASSUME keep[calls], ~StoreNow(mine) PROVE Good
    <2>1. n = m /\ s.rs1 = new /\ s.rs2 = mine.rs1 /\ s.alert
      BY <1>5, <1>9, <1>n DEF StoreNow
    <2>2. TypesFit(n, s, w) /\ ValuesFit(e, n, s) /\ OrderFit(n, s)
      <3>1. TypesFit(n, s, w)
        BY <1>1, <1>5, <1>6, <2>1 DEF TypesFit
      <3>2. {n.curr, n.prev, s.rs1, s.rs2} \subseteq ValuesOf(e)
        BY <1>1, <1>2, <1>3, <2>1 DEF ValuesFit
      <3>3. ValuesFit(e, n, s)
        BY <1>5, <3>2 DEF ValuesFit, Open
      <3>4. OrderFit(n, s)
        BY <1>2, <1>3, <2>1 DEF OrderFit
      <3> QED BY <3>1, <3>3, <3>4
    <2>3. KnowFit(e, n, s)
      <3>1. Postponed(e, n, s)
        BY <1>3, <1>5, <2>1 DEF Postponed, new
      <3> QED BY <1>5, <3>1 DEF KnowFit
    <2>4. VouchFit(e, n, s, w)
      BY <1>2, <1>5, <1>6, <2>1 DEF VouchFit
    <2>5. {n.curr, n.prev, s.rs1, s.rs2} \subseteq {new, cache[e].curr, cache[e].prev, mine.rs1, mine.rs2}
      BY <2>1
    <2> QED BY <2>2, <2>3, <2>4, <2>5
  <1>10. ASSUME keep[calls], StoreNow(mine) PROVE Good
    <2>1. n = CachePut(m, new, FALSE) /\ s.rs1 = new /\ s.rs2 = mine.rs1 /\ ~s.alert
      BY <1>5, <1>10, <1>n DEF StoreNow
    <2>2. /\ n \in EntryType /\ n.curr = new /\ n.verified = m.verified
          /\ n.prev = IF m.curr = NONE THEN NONE ELSE mine.rs1
      BY <1>1, <1>3, <1>4, <1>7, <2>1
    <2>3. TypesFit(n, s, w) /\ ValuesFit(e, n, s) /\ OrderFit(n, s)
      <3>1. n.curr # NONE /\ s.rs1 # NONE
        BY <1>1, <1>3, <2>1, <2>2
      <3>2. TypesFit(n, s, w)
        BY <1>5, <1>6, <2>2, <3>1 DEF TypesFit
      <3>3. NONE \in ValuesOf(e) /\ mine.rs2 \in ValuesOf(e)
        BY <1>2 DEF ValuesFit, ValuesOf
      <3>4. /\ n.curr \in ValuesOf(e) /\ s.rs1 \in ValuesOf(e) /\ s.rs2 \in ValuesOf(e)
            /\ n.prev = NONE \/ n.prev = mine.rs1
        BY <1>1, <1>3, <2>1, <2>2, <3>3
      <3>5. ValuesFit(e, n, s)
        BY <1>3, <1>5, <3>3, <3>4 DEF ValuesFit, Open
      <3>6. OrderFit(n, s)
        BY <1>2, <1>3, <2>1, <2>2 DEF OrderFit
      <3> QED BY <3>2, <3>5, <3>6
    <2>4. KnowFit(e, n, s)
      <3>1. Kept(e, n, s)
        BY <1>3, <1>5, <2>1, <2>2 DEF Kept
      <3> QED BY <1>5, <3>1 DEF KnowFit
    <2>5. VouchFit(e, n, s, w)
      <3> SUFFICES ASSUME n.verified PROVE n.curr \in w /\ n.prev \in w
        BY <1>5 DEF VouchFit
      <3>1. m.curr # NONE /\ cache[e].verified
        BY <1>4, <2>2
      <3>2. cache[e].curr \in vouched[e] /\ mine.chosen \in vouched[e]
        BY <1>2, <3>1 DEF VouchFit, mine
      <3> QED BY <1>3, <1>6, <2>2, <3>1, <3>2
    <2>6. {n.curr, n.prev, s.rs1, s.rs2} \subseteq {NONE, new, mine.rs1}
      BY <2>1, <2>2
    <2> QED BY <2>3, <2>4, <2>5, <2>6
  <1>11. ASSUME ~keep[calls] PROVE Good
    <2>1. n = CachePut(m, mine.rs1, TRUE) /\ s.rs1 = mine.rs1 /\ s.rs2 = mine.rs2
      BY <1>5, <1>11, <1>n
    <2>2. /\ n \in EntryType /\ n.curr = mine.rs1 /\ n.verified = m.verified
          /\ n.prev = IF m.curr = NONE THEN NONE ELSE mine.rs1
      BY <1>3, <1>4, <1>7, <2>1
    <2>3. TypesFit(n, s, w) /\ ValuesFit(e, n, s) /\ OrderFit(n, s)
      <3>1. n.curr # NONE /\ s.rs1 # NONE
        BY <1>1, <1>3, <2>1, <2>2
      <3>2. TypesFit(n, s, w)
        BY <1>5, <1>6, <2>2, <3>1 DEF TypesFit
      <3>3. NONE \in ValuesOf(e) /\ mine.rs2 \in ValuesOf(e)
        BY <1>2 DEF ValuesFit, ValuesOf
      <3>4. /\ n.curr \in ValuesOf(e) /\ s.rs1 \in ValuesOf(e) /\ s.rs2 \in ValuesOf(e)
            /\ n.prev = NONE \/ n.prev = mine.rs1
        BY <1>1, <1>3, <2>1, <2>2, <3>3
      <3>5. ValuesFit(e, n, s)
        BY <1>3, <1>5, <3>3, <3>4 DEF ValuesFit, Open
      <3>6. OrderFit(n, s)
        BY <1>2, <1>3, <2>1, <2>2 DEF OrderFit
      <3> QED BY <3>2, <3>5, <3>6
    <2>4. KnowFit(e, n, s)
      <3>1. Kept(e, n, s)
        BY <2>1, <2>2 DEF Kept
      <3> QED BY <1>5, <3>1 DEF KnowFit
    <2>5. VouchFit(e, n, s, w)
      <3> SUFFICES ASSUME n.verified PROVE n.curr \in w /\ n.prev \in w
        BY <1>5 DEF VouchFit
      <3>1. m.curr # NONE /\ cache[e].verified
        BY <1>4, <2>2
      <3>2. cache[e].curr \in vouched[e]
        BY <1>2, <3>1 DEF VouchFit
      <3> QED BY <1>3, <1>6, <2>2, <3>1, <3>2
    <2>6. {n.curr, n.prev, s.rs1, s.rs2} \subseteq {NONE, mine.rs1, mine.rs2}
      BY <2>1, <2>2
    <2> QED BY <2>3, <2>4, <2>5, <2>6
  <1>12. Good
    BY <1>9, <1>10, <1>11
  <1>13. EndpointFits(e, n, s, w)
    <2>1. ChosenFit(s, other) /\ CoverFit(s, cache[p], other) /\ LoadFit(e, n, s)
      BY <1>5 DEF ChosenFit, CoverFit, LoadFit, Open
    <2> QED BY <1>12, <2>1 DEF EndpointFits, other
  <1>14. PeerFits(e, n, s)
    <2>1. ChosenFit(other, s) /\ CoverFit(other, n, s)
      BY DEF ChosenFit, CoverFit, other
    <2> QED BY <1>12, <2>1 DEF PeerFits, other, mine, new
  <1>15. TypeOK'
    <2>1. losses' \in 0..MaxLosses /\ confirmV' \in [Endpoints -> [Calls -> BOOLEAN]]
      BY DEF SecretsInv, TypeOK
    <2> QED BY <1>8, <1>12, <2>1, TurnTypes
  <1> QED BY <1>8, <1>13, <1>14, <1>15, TurnKeeps

LEMMA Confirm2Keeps ==
    ASSUME SecretsInv, NEW c \in 1..calls, Confirm2(c)
    PROVE  SecretsInv'
  <1>1. c \in Calls /\ initiator[c] \in Endpoints
    BY SecretsAssumption DEF SecretsInv, TypeOK, OneCall, Calls
  <1>e. PICK e \in Endpoints : e = Peer(initiator[c]) /\ Peer(e) = initiator[c]
    BY <1>1, PeerIsTheOther
  <1>2. sess[e][c].phase = "derived" /\ sess[Peer(e)][c].phase = "confirmed"
    BY <1>e DEF Confirm2
  <1>3. c = calls /\ calls # 0
    BY <1>1, <1>2, LiveIsLast
  <1>4. sess[e][calls].alert = FALSE
    BY <1>2, <1>3, Both, Now DEF TypesFit, SessionType
  <1>v. PICK v \in BOOLEAN : v = confirmV[Peer(e)][c]
    BY <1>1, <1>e DEF SecretsInv, TypeOK
  <1>m. PICK m : m = ProcessV(e, v)
    OBVIOUS
  <1>5. /\ m \in EntryType /\ m.curr = cache[e].curr /\ m.prev = cache[e].prev
        /\ m.curr = NONE => m = NoEntry
        /\ m.verified => cache[e].verified
        /\ SessionsAfterV(e, v) = sess[e] /\ StoredByV(e, v) \subseteq Calls
    BY <1>3, <1>4, <1>m, Processed
  <1>6. EnterSecure(e, calls, sess[e][calls], m, sess[e])
    BY <1>e, <1>v, <1>3, <1>m, <1>5 DEF Confirm2
  <1>7. stored' \in [Endpoints -> SUBSET Calls]
    <2>1. stored' = [stored EXCEPT ![e] =
                        stored[e] \cup StoredByV(e, v) \cup StoredNow(c, sess[e][c])]
      BY <1>e, <1>v, <1>5 DEF Confirm2
    <2>2. StoredNow(c, sess[e][c]) \subseteq Calls
      BY <1>1 DEF StoredNow
    <2> QED BY <2>1, <2>2, <1>5 DEF SecretsInv, TypeOK
  <1>8. calls' = calls /\ initiator' = initiator /\ keep' = keep /\ confirmV' = confirmV
        /\ losses' = losses
    BY DEF Confirm2
  <1> QED BY <1>2, <1>3, <1>5, <1>6, <1>7, <1>8, SecureKeeps

LEMMA Conf2AckKeeps ==
    ASSUME SecretsInv, NEW c \in 1..calls, Conf2Ack(c)
    PROVE  SecretsInv'
  <1>1. c \in Calls /\ initiator[c] \in Endpoints
    BY SecretsAssumption DEF SecretsInv, TypeOK, OneCall, Calls
  <1>e. PICK e \in Endpoints : e = initiator[c]
    BY <1>1
  <1>2. sess[e][c].phase = "confirmed" /\ sess[Peer(e)][c].phase = "secure"
    BY <1>e DEF Conf2Ack
  <1>3. c = calls /\ calls # 0
    BY <1>1, <1>2, LiveIsLast
  <1>4. cache[e] \in EntryType /\ (cache[e].curr = NONE => cache[e] = NoEntry)
    BY <1>3, Now, Both DEF TypesFit
  <1>5. EnterSecure(e, calls, sess[e][calls], cache[e], sess[e])
    BY <1>e, <1>3 DEF Conf2Ack
  <1>6. stored' \in [Endpoints -> SUBSET Calls]
    <2>1. stored' = [stored EXCEPT ![e] = stored[e] \cup StoredNow(c, sess[e][c])]
      BY <1>e DEF Conf2Ack
    <2>2. StoredNow(c, sess[e][c]) \subseteq Calls
      BY <1>1 DEF StoredNow
    <2> QED BY <2>1, <2>2 DEF SecretsInv, TypeOK
  <1>7. calls' = calls /\ initiator' = initiator /\ keep' = keep /\ confirmV' = confirmV
        /\ losses' = losses
    BY DEF Conf2Ack
  <1> QED BY <1>2, <1>3, <1>4, <1>5, <1>6, <1>7, SecureKeeps

\* A turn of an endpoint in SECURE: its user or a Confirm sets the verified
\* flag, and a secret that an alert had postponed may be put.
LEMMA SecureTurn ==
    ASSUME SecretsInv, calls # 0, NEW e \in Endpoints, NEW n, NEW s, NEW w,
           sess[e][calls].phase = "secure",
           n \in EntryType, n.curr = NONE => n = NoEntry,
           NEW put \in BOOLEAN,
           ~put => /\ n.curr = cache[e].curr /\ n.prev = cache[e].prev
                   /\ sess[e][calls].alert => s.alert,
           put => /\ n.curr = sess[e][calls].rs1
                  /\ n.prev = IF cache[e].curr # NONE THEN cache[e].curr ELSE cache[e].prev,
           s = [sess[e][calls] EXCEPT !.alert = s.alert], s.alert \in BOOLEAN,
           vouched[e] \subseteq w, w \in SUBSET SecretValues,
           n.verified => \/ ~put /\ cache[e].verified
                         \/ /\ put \/ ~sess[e][calls].alert
                            /\ {sess[e][calls].rs1, sess[e][calls].chosen} \ {NONE} \subseteq w
    PROVE  EndpointFits(e, n, s, w) /\ PeerFits(e, n, s)
  <1> DEFINE p == Peer(e)
             mine == sess[e][calls]
             other == sess[p][calls]
             new == <<"call", calls>>
  <1>1. /\ TypesFit(cache[e], mine, vouched[e]) /\ ValuesFit(e, cache[e], mine)
        /\ OrderFit(cache[e], mine) /\ KnowFit(e, cache[e], mine)
        /\ VouchFit(e, cache[e], mine, vouched[e])
        /\ CoverFit(other, cache[e], mine)
    BY Both
  <1>2. calls \in Calls /\ mine \in SessionType
    BY Now
  <1>3. /\ s \in SessionType /\ s.phase = "secure" /\ s.rs1 = mine.rs1 /\ s.rs2 = mine.rs2
        /\ s.chosen = mine.chosen
    <2>1. \A b \in BOOLEAN : LET q == [mine EXCEPT !.alert = b] IN
             /\ q \in SessionType /\ q.phase = mine.phase /\ q.rs1 = mine.rs1 /\ q.rs2 = mine.rs2
             /\ q.chosen = mine.chosen
      BY <1>2 DEF SessionType
    <2> QED BY <2>1
  <1>4. mine.rs1 # NONE /\ cache[e].curr \in ValuesOf(e) /\ mine.rs1 \in ValuesOf(e)
        /\ cache[e].prev \in ValuesOf(e) /\ mine.rs2 \in ValuesOf(e)
    BY <1>1 DEF TypesFit, ValuesFit
  <1>5. cache[e].curr = NONE => cache[e].prev = NONE /\ ~cache[e].verified
    BY <1>1 DEF TypesFit, NoEntry
  <1>6. Kept(e, cache[e], mine) \/ Postponed(e, cache[e], mine)
    BY <1>1 DEF KnowFit
  <1>7. put \/ ~mine.alert => Kept(e, n, s)
    <2>1. ASSUME ~put, ~mine.alert PROVE Kept(e, n, s)
      BY <1>3, <1>6, <2>1 DEF Kept, Postponed
    <2>2. ASSUME put, Kept(e, cache[e], mine) PROVE Kept(e, n, s)
      BY <1>3, <1>4, <2>2 DEF Kept
    <2>3. ASSUME put, Postponed(e, cache[e], mine) PROVE Kept(e, n, s)
      BY <1>3, <1>5, <2>3 DEF Kept, Postponed
    <2> QED BY <1>6, <2>1, <2>2, <2>3
  <1>8. KnowFit(e, n, s)
    <2>1. ASSUME ~put, mine.alert PROVE Kept(e, n, s) \/ Postponed(e, n, s)
      BY <1>3, <1>6, <2>1 DEF Kept, Postponed
    <2> QED BY <1>3, <1>7, <2>1 DEF KnowFit
  <1>9. OrderFit(n, s)
    <2>1. InOrder(s.rs1, s.rs2)
      BY <1>1, <1>3 DEF OrderFit
    <2>2. ASSUME ~put PROVE InOrder(n.curr, n.prev)
      BY <1>1, <2>2 DEF OrderFit
    <2>3. ASSUME put PROVE InOrder(n.curr, n.prev)
      <3>1. InOrder(mine.rs1, mine.rs1) /\ InOrder(new, cache[e].curr) /\ \A y : InOrder(y, NONE)
        BY <1>2, <1>4, Orders
      <3>2. n.curr = mine.rs1
            /\ n.prev = IF cache[e].curr # NONE THEN cache[e].curr ELSE NONE
        BY <2>3, <1>5
      <3>3. cache[e].curr = mine.rs1 \/ mine.rs1 = new
        BY <1>6 DEF Kept, Postponed
      <3> QED BY <3>1, <3>2, <3>3
    <2> QED BY <2>1, <2>2, <2>3 DEF OrderFit
  <1>10. ValuesFit(e, n, s)
    BY <1>3, <1>4 DEF ValuesFit, Open
  <1>11. TypesFit(n, s, w)
    BY <1>3, <1>4 DEF TypesFit
  <1>12. VouchFit(e, n, s, w)
    <2> SUFFICES ASSUME n.verified
                 PROVE  /\ n.curr \in w
                        /\ n.prev \in w \cup {NONE} \/ Unknown(e, n.prev)
      BY <1>3 DEF VouchFit
    <2>1. CASE ~put /\ cache[e].verified
      BY <1>1, <2>1 DEF VouchFit
    <2>2. CASE (put \/ ~mine.alert) /\ {mine.rs1, mine.chosen} \ {NONE} \subseteq w
      <3>1. n.curr = mine.rs1
            /\ (n.prev \in {NONE, mine.rs1, mine.chosen} \/ Unknown(e, n.prev))
        BY <1>3, <1>7, <2>2 DEF Kept
      <3> QED BY <1>4, <2>2, <3>1
    <2> QED BY <2>1, <2>2
  <1>13. EndpointFits(e, n, s, w)
    <2>1. ChosenFit(s, other) /\ CoverFit(s, cache[p], other) /\ LoadFit(e, n, s)
      BY <1>3 DEF ChosenFit, CoverFit, LoadFit, Open
    <2> QED BY <1>8, <1>9, <1>10, <1>11, <1>12, <2>1 DEF EndpointFits
  <1>14. PeerFits(e, n, s)
    <2>1. ChosenFit(other, s) /\ CoverFit(other, n, s)
      BY <1>1, <1>3 DEF ChosenFit, CoverFit
    <2>2. {n.curr, n.prev, s.rs1, s.rs2} \subseteq {cache[e].curr, cache[e].prev, mine.rs1, mine.rs2}
      BY <1>3
    <2> QED BY <2>1, <2>2 DEF PeerFits
  <1> QED BY <1>13, <1>14

LEMMA MultistreamKeeps ==
    ASSUME SecretsInv, NEW e \in Endpoints, NEW c \in 1..calls, Multistream(e, c)
    PROVE  SecretsInv'
  <1> DEFINE mine == sess[e][calls]
  <1>1. c \in Calls /\ sess[e][c].phase = "secure"
    BY SecretsAssumption DEF SecretsInv, TypeOK, Calls, Multistream
  <1>2. c = calls /\ calls # 0
    BY <1>1, LiveIsLast
  <1>3. /\ mine \in SessionType /\ calls \in Calls /\ mine.phase = "secure"
        /\ sess[e] \in [Calls -> SessionType] /\ Peer(e) \in Endpoints
        /\ vouched[e] \in SUBSET SecretValues
    BY <1>1, <1>2, Now, PeerIsTheOther
  <1>v. PICK v \in BOOLEAN : v = cache[Peer(e)].verified
    BY <1>3 DEF SecretsInv, TypeOK
  <1>n. PICK n : n = ProcessV(e, v)
    OBVIOUS
  <1>w. PICK w : w = vouched[e]
    OBVIOUS
  <1>b. PICK b \in BOOLEAN : b = ((IF v THEN mine.alert ELSE FALSE) \/ mine.wrongs # {})
    OBVIOUS
  <1>s. PICK s : s = [mine EXCEPT !.alert = b]
    OBVIOUS
  <1>4. /\ n \in EntryType /\ (n.curr = NONE => n = NoEntry)
        /\ n.verified => v /\ cache[e].verified
        /\ (v \/ ~mine.alert) => n.curr = cache[e].curr /\ n.prev = cache[e].prev
        /\ (~v /\ mine.alert) =>
              /\ n.curr = mine.rs1
              /\ n.prev = IF cache[e].curr # NONE THEN cache[e].curr ELSE cache[e].prev
        /\ StoredByV(e, v) \subseteq Calls
        /\ SessionsAfterV(e, v) = [sess[e] EXCEPT ![calls].alert = IF v THEN mine.alert ELSE FALSE]
    BY <1>2, <1>n, Processed
  <1>5. s.alert = b
    BY <1>3, <1>s DEF SessionType
  <1>6. Turn(e, n, s, w)
    <2>1. cache' = [cache EXCEPT ![e] = n]
      BY <1>v, <1>n DEF Multistream
    <2>2. sess' = [sess EXCEPT ![e] = [sess[e] EXCEPT ![calls] = s]]
      <3>1. sess' = [sess EXCEPT ![e] =
               [SessionsAfterV(e, v) EXCEPT
                   ![calls].alert = SessionsAfterV(e, v)[calls].alert \/ mine.wrongs # {}]]
        BY <1>2, <1>v DEF Multistream
      <3>2. SessionsAfterV(e, v)[calls] = [mine EXCEPT !.alert = IF v THEN mine.alert ELSE FALSE]
        BY <1>3, <1>4
      <3>3. SessionsAfterV(e, v)[calls].alert = (IF v THEN mine.alert ELSE FALSE)
        BY <1>3, <3>2 DEF SessionType
      <3>4. [SessionsAfterV(e, v) EXCEPT
               ![calls].alert = SessionsAfterV(e, v)[calls].alert \/ mine.wrongs # {}]
            = [SessionsAfterV(e, v) EXCEPT ![calls] = [SessionsAfterV(e, v)[calls] EXCEPT !.alert = b]]
        BY <1>b, <3>3
      <3>5. [SessionsAfterV(e, v)[calls] EXCEPT !.alert = b] = s
        BY <1>3, <1>s, <3>2 DEF SessionType
      <3>6. [SessionsAfterV(e, v) EXCEPT ![calls] = s] = [sess[e] EXCEPT ![calls] = s]
        BY <1>3, <1>4
      <3> QED BY <3>1, <3>4, <3>5, <3>6
    <2>3. vouched' = [vouched EXCEPT ![e] = w]
      BY <1>w DEF Multistream, SecretsInv, TypeOK
    <2> QED BY <2>1, <2>2, <2>3 DEF Turn, Multistream
  <1>7. EndpointFits(e, n, s, w) /\ PeerFits(e, n, s)
    <2>p. PICK put \in BOOLEAN : put = (~v /\ mine.alert)
      OBVIOUS
    <2>1. ~put => /\ n.curr = cache[e].curr /\ n.prev = cache[e].prev
                  /\ mine.alert => s.alert
      <3>1. ~put => v \/ ~mine.alert
        BY <2>p
      <3>2. v /\ mine.alert => b
        BY <1>b
      <3> QED BY <1>4, <1>5, <3>1, <3>2
    <2>2. put => /\ n.curr = mine.rs1
                 /\ n.prev = IF cache[e].curr # NONE THEN cache[e].curr ELSE cache[e].prev
      BY <1>4, <2>p
    <2>3. n.verified => ~put /\ cache[e].verified
      BY <1>4, <2>p
    <2>4. s = [mine EXCEPT !.alert = s.alert] /\ s.alert \in BOOLEAN
      BY <1>5, <1>s
    <2>5. vouched[e] \subseteq w /\ w \in SUBSET SecretValues
      BY <1>3, <1>w
    <2> QED BY <1>2, <1>3, <1>4, <2>1, <2>2, <2>3, <2>4, <2>5, SecureTurn
  <1>8. TypeOK'
    <2>1. stored' \in [Endpoints -> SUBSET Calls]
      <3>1. stored' = [stored EXCEPT ![e] = stored[e] \cup StoredByV(e, v)]
        BY <1>v DEF Multistream
      <3> QED BY <3>1, <1>4 DEF SecretsInv, TypeOK
    <2>2. /\ keep' = keep /\ losses' \in 0..MaxLosses
          /\ confirmV' \in [Endpoints -> [Calls -> BOOLEAN]]
      BY DEF Multistream, SecretsInv, TypeOK
    <2> QED BY <1>2, <1>6, <1>7, <2>1, <2>2, TurnTypes DEF EndpointFits
  <1> QED BY <1>2, <1>6, <1>7, <1>8, TurnKeeps

LEMMA VerifyKeeps ==
    ASSUME SecretsInv, NEW e \in Endpoints, NEW c \in 1..calls, NEW v \in BOOLEAN,
           Verify(e, c, v)
    PROVE  SecretsInv'
  <1> DEFINE mine == sess[e][calls]
  <1>1. c \in Calls /\ sess[e][c].phase = "secure"
    BY SecretsAssumption DEF SecretsInv, TypeOK, Calls, Verify
  <1>2. c = calls /\ calls # 0
    BY <1>1, LiveIsLast
  <1>3. /\ mine \in SessionType /\ calls \in Calls /\ mine.phase = "secure"
        /\ sess[e] \in [Calls -> SessionType] /\ vouched[e] \in SUBSET SecretValues
    BY <1>1, <1>2, Now
  <1>n. PICK n : n = AfterVerifiedSet(e, v)
    OBVIOUS
  <1>w. PICK w : w = IF v THEN vouched[e] \cup ({mine.rs1, mine.chosen} \ {NONE}) ELSE vouched[e]
    OBVIOUS
  <1>s. PICK s : s = [mine EXCEPT !.alert = FALSE]
    OBVIOUS
  <1>4. /\ n \in EntryType /\ (n.curr = NONE => n = NoEntry)
        /\ n.verified = (v /\ cache[e].curr # NONE)
        /\ n.curr = IF mine.alert THEN mine.rs1 ELSE cache[e].curr
        /\ n.prev = IF mine.alert /\ cache[e].curr # NONE THEN cache[e].curr ELSE cache[e].prev
    BY <1>2, <1>n, AfterSet
  <1>5. s.alert = FALSE
    BY <1>3, <1>s DEF SessionType
  <1>6. vouched[e] \subseteq w /\ w \in SUBSET SecretValues
    BY <1>3, <1>w DEF SessionType
  <1>7. Turn(e, n, s, w)
    <2>1. cache' = [cache EXCEPT ![e] = n]
      BY <1>n DEF Verify
    <2>2. sess' = [sess EXCEPT ![e] = [sess[e] EXCEPT ![calls] = s]]
      <3>1. sess' = [sess EXCEPT ![e] = [sess[e] EXCEPT ![calls].alert = FALSE]]
        BY <1>2, AlertIsLast DEF Verify
      <3> QED BY <1>s, <3>1
    <2>3. vouched' = [vouched EXCEPT ![e] = w]
      BY <1>2, <1>w DEF Verify
    <2> QED BY <2>1, <2>2, <2>3 DEF Turn, Verify
  <1>8. EndpointFits(e, n, s, w) /\ PeerFits(e, n, s)
    <2>p. PICK put \in BOOLEAN : put = mine.alert
      BY <1>3 DEF SessionType
    <2>1. ~put => /\ n.curr = cache[e].curr /\ n.prev = cache[e].prev
                  /\ mine.alert => s.alert
      BY <1>4, <2>p
    <2>2. put => /\ n.curr = mine.rs1
                 /\ n.prev = IF cache[e].curr # NONE THEN cache[e].curr ELSE cache[e].prev
      BY <1>4, <2>p
    <2>3. n.verified => /\ put \/ ~mine.alert
                        /\ {mine.rs1, mine.chosen} \ {NONE} \subseteq w
      BY <1>4, <1>w, <2>p
    <2>4. s = [mine EXCEPT !.alert = s.alert] /\ s.alert \in BOOLEAN
      BY <1>5, <1>s
    <2> QED BY <1>2, <1>3, <1>4, <1>6, <2>1, <2>2, <2>3, <2>4, SecureTurn
  <1>9. TypeOK'
    <2>1. stored' \in [Endpoints -> SUBSET Calls]
      <3>1. stored' = [stored EXCEPT ![e] = stored[e] \cup Alerted(e)] /\ Alerted(e) \subseteq Calls
        BY DEF Verify, Alerted
      <3> QED BY <3>1 DEF SecretsInv, TypeOK
    <2>2. /\ keep' = keep /\ losses' \in 0..MaxLosses
          /\ confirmV' \in [Endpoints -> [Calls -> BOOLEAN]]
      BY DEF Verify, SecretsInv, TypeOK
    <2> QED BY <1>2, <1>7, <1>8, <2>1, <2>2, TurnTypes DEF EndpointFits
  <1> QED BY <1>2, <1>7, <1>8, <1>9, TurnKeeps

\* A session that is over, with the entry it leaves behind or none.
LEMMA DownTurn ==
    ASSUME SecretsInv, calls # 0, NEW e \in Endpoints, NEW n, NEW s,
           n = cache[e] \/ n = NoEntry,
           s \in SessionType, s.phase \in {"none", "down"}, s.alert = FALSE,
           s.rs1 = sess[e][calls].rs1, s.rs2 = sess[e][calls].rs2,
           s.phase = "none" => sess[e][calls].phase = "none"
    PROVE  EndpointFits(e, n, s, vouched[e]) /\ PeerFits(e, n, s)
  <1> DEFINE p == Peer(e)
             mine == sess[e][calls]
             other == sess[p][calls]
  <1>1. /\ TypesFit(cache[e], mine, vouched[e]) /\ ValuesFit(e, cache[e], mine)
        /\ OrderFit(cache[e], mine) /\ VouchFit(e, cache[e], mine, vouched[e])
        /\ CoverFit(other, cache[e], mine)
    BY Both
  <1>2. NoEntry \in EntryType /\ NoEntry.curr = NONE /\ NoEntry.prev = NONE /\ ~NoEntry.verified
    BY DEF NoEntry, EntryType, SecretValues
  <1>3. \A y : InOrder(y, NONE)
    BY CallNames DEF InOrder
  <1>4. TypesFit(n, s, vouched[e]) /\ ValuesFit(e, n, s) /\ OrderFit(n, s)
    BY <1>1, <1>2, <1>3 DEF TypesFit, ValuesFit, OrderFit, ValuesOf, Open
  <1>5. VouchFit(e, n, s, vouched[e])
    BY <1>1, <1>2 DEF VouchFit
  <1>6. /\ LoadFit(e, n, s) /\ ChosenFit(s, other) /\ CoverFit(s, cache[p], other)
        /\ KnowFit(e, n, s) /\ ChosenFit(other, s)
    BY DEF LoadFit, ChosenFit, CoverFit, KnowFit, Open
  <1>7. CoverFit(other, n, s)
    BY <1>1, <1>2 DEF CoverFit
  <1>8. {n.curr, n.prev, s.rs1, s.rs2} \subseteq {NONE, cache[e].curr, cache[e].prev, mine.rs1, mine.rs2}
    BY <1>2
  <1> QED BY <1>4, <1>5, <1>6, <1>7, <1>8 DEF EndpointFits, PeerFits

LEMMA EndKeeps ==
    ASSUME SecretsInv, NEW e \in Endpoints, NEW c \in 1..calls, End(e, c)
    PROVE  SecretsInv'
  <1> DEFINE mine == sess[e][calls]
  <1>1. c \in Calls /\ sess[e][c].phase \notin {"none", "down"}
    BY SecretsAssumption DEF SecretsInv, TypeOK, Calls, End, Live
  <1>2. c = calls /\ calls # 0
    BY <1>1, LiveIsLast
  <1>3. mine \in SessionType /\ calls \in Calls
    BY <1>2, Now
  <1>s. PICK s : s = [mine EXCEPT !.phase = "down", !.alert = FALSE]
    OBVIOUS
  <1>n. PICK n : n = cache[e]
    OBVIOUS
  <1>w. PICK w : w = vouched[e]
    OBVIOUS
  <1>4. /\ s \in SessionType /\ s.phase = "down" /\ s.alert = FALSE
        /\ s.rs1 = mine.rs1 /\ s.rs2 = mine.rs2
    BY <1>3, <1>s DEF SessionType
  <1>5. Turn(e, n, s, w)
    <2>1. cache' = [cache EXCEPT ![e] = n] /\ vouched' = [vouched EXCEPT ![e] = w]
      BY <1>n, <1>w DEF End, SecretsInv, TypeOK
    <2>2. sess' = [sess EXCEPT ![e] = [sess[e] EXCEPT ![calls] = s]]
      BY <1>2, <1>3, <1>s DEF End, SecretsInv, TypeOK
    <2> QED BY <2>1, <2>2 DEF Turn, End
  <1>6. EndpointFits(e, n, s, w) /\ PeerFits(e, n, s)
    BY <1>2, <1>4, <1>n, <1>w, DownTurn
  <1>7. TypeOK'
    BY <1>2, <1>5, <1>6, TurnTypes DEF EndpointFits, End, SecretsInv, TypeOK
  <1> QED BY <1>2, <1>5, <1>6, <1>7, TurnKeeps

\* The types of what LoseCache changes.
LEMMA LoseTypes ==
    ASSUME SecretsInv, NEW e \in Endpoints, LoseCache(e)
    PROVE  TypeOK'
  <1>1. /\ cache \in [Endpoints -> EntryType] /\ sess \in [Endpoints -> [Calls -> SessionType]]
        /\ \A f \in Endpoints : cache[f].curr = NONE => cache[f] = NoEntry
    BY DEF SecretsInv, TypeOK, EntryType, SessionType
  <1>2. NoEntry \in EntryType
    BY DEF NoEntry, EntryType, SecretValues
  <1>3. cache' \in [Endpoints -> EntryType]
        /\ \A f \in Endpoints : cache'[f].curr = NONE => cache'[f] = NoEntry
    BY <1>1, <1>2 DEF LoseCache
  <1>4. sess' \in [Endpoints -> [Calls -> SessionType]]
    <2>1. \A c \in Calls : [sess[e][c] EXCEPT !.phase = "down", !.alert = FALSE] \in SessionType
      <3> TAKE c \in Calls
      <3>1. sess[e][c] \in SessionType
        BY <1>1
      <3> QED BY <3>1 DEF SessionType
    <2>2. [c \in Calls |-> IF c \in Live(e)
             THEN [sess[e][c] EXCEPT !.phase = "down", !.alert = FALSE]
             ELSE sess[e][c]] \in [Calls -> SessionType]
      BY <1>1, <2>1
    <2> QED BY <1>1, <2>2 DEF LoseCache
  <1>5. losses' \in 0..MaxLosses
    <2>1. losses \in 0..MaxLosses /\ MaxLosses \in Nat
      BY SecretsAssumption DEF SecretsInv, TypeOK
    <2>2. losses < MaxLosses /\ losses' = losses + 1
      BY DEF LoseCache
    <2> QED BY <2>1, <2>2
  <1> QED BY <1>3, <1>4, <1>5 DEF TypeOK, EntryType, SessionType, LoseCache, SecretsInv, NoEntry

LEMMA LoseCacheKeeps ==
    ASSUME SecretsInv, NEW e \in Endpoints, LoseCache(e)
    PROVE  SecretsInv'
  <1> DEFINE mine == sess[e][calls]
             gone(c) == [sess[e][c] EXCEPT !.phase = "down", !.alert = FALSE]
  <1>1. TypeOK'
    BY LoseTypes
  <1>2. \A c \in Calls : c \in Live(e) <=> sess[e][c].phase \notin {"none", "down"}
    BY DEF Live
  <1>3. \A c \in Calls : c \in Live(e) => c = calls /\ calls # 0
    BY <1>2, LiveIsLast
  <1>4. /\ cache \in [Endpoints -> EntryType] /\ sess[e] \in [Calls -> SessionType]
        /\ sess \in [Endpoints -> [Calls -> SessionType]]
    BY DEF SecretsInv, TypeOK, EntryType, SessionType
  <1>5. CASE calls = 0
    <2>1. sess' = sess
      <3>1. \A c \in Calls : c \notin Live(e)
        BY <1>3, <1>5
      <3>2. [c \in Calls |-> IF c \in Live(e) THEN gone(c) ELSE sess[e][c]] = sess[e]
        BY <1>4, <3>1
      <3> QED BY <1>4, <3>2 DEF LoseCache
    <2>2. \A f \in Endpoints : cache'[f] = NoEntry
      BY <1>4, <1>5 DEF LoseCache, SecretsInv
    <2>3. OneCall' /\ calls' = 0
      <3>1. calls' = calls /\ initiator' = initiator
        BY DEF LoseCache
      <3>2. OneCall
        BY DEF SecretsInv
      <3> QED BY <1>5, <2>1, <3>1, <3>2 DEF OneCall
    <2> QED BY <1>1, <2>2, <2>3 DEF SecretsInv
  <1>6. CASE calls # 0
    <2>1. calls \in Calls /\ mine \in SessionType
      BY <1>6, Now
    <2>s. PICK s : s = IF mine.phase \notin {"none", "down"} THEN gone(calls) ELSE mine
      OBVIOUS
    <2>n. PICK n : n = NoEntry
      OBVIOUS
    <2>w. PICK w : w = vouched[e]
      OBVIOUS
    <2>2. /\ s \in SessionType /\ s.phase \in {"none", "down"} /\ s.alert = FALSE
          /\ s.rs1 = mine.rs1 /\ s.rs2 = mine.rs2
          /\ s.phase = "none" => mine.phase = "none"
      <3>1. CASE mine.phase \notin {"none", "down"}
        BY <2>1, <2>s, <3>1 DEF SessionType
      <3>2. CASE mine.phase \in {"none", "down"}
        <4>1. mine.alert = FALSE
          BY <1>6, <2>1, <3>2, Both DEF TypesFit, SessionType
        <4> QED BY <2>1, <2>s, <3>2, <4>1
      <3> QED BY <3>1, <3>2
    <2>3. Turn(e, n, s, w)
      <3>1. cache' = [cache EXCEPT ![e] = n] /\ vouched' = [vouched EXCEPT ![e] = w]
        BY <2>n, <2>w DEF LoseCache, SecretsInv, TypeOK
      <3>2. [c \in Calls |-> IF c \in Live(e) THEN gone(c) ELSE sess[e][c]] =
               [sess[e] EXCEPT ![calls] = s]
        <4>1. \A c \in Calls : (IF c \in Live(e) THEN gone(c) ELSE sess[e][c]) =
                                  (IF c = calls THEN s ELSE sess[e][c])
          BY <1>2, <1>3, <2>1, <2>s
        <4> HIDE DEF gone
        <4> QED BY <1>4, <2>1, <4>1
      <3>3. sess' = [sess EXCEPT ![e] = [sess[e] EXCEPT ![calls] = s]]
        BY <3>2 DEF LoseCache
      <3> QED BY <3>1, <3>3 DEF Turn, LoseCache
    <2>4. EndpointFits(e, n, s, w) /\ PeerFits(e, n, s)
      BY <1>6, <2>2, <2>n, <2>w, DownTurn
    <2> QED BY <1>1, <1>6, <2>3, <2>4, TurnKeeps
  <1> QED BY <1>5, <1>6

-----------------------------------------------------------------------------
(* A new call.                                                             *)

LEMMA BeginKeeps ==
    ASSUME MaxLive = 1, SecretsInv, NEW i \in Endpoints, NEW k \in Keeps, Begin(i, k)
    PROVE  SecretsInv'
  <1> DEFINE next == calls + 1
             first == [Unused EXCEPT !.phase = "new"]
  <1>1. /\ calls \in Nat /\ calls < MaxCalls /\ MaxCalls \in Nat /\ calls' = next
        /\ next \in Calls /\ next \in 0..MaxCalls /\ next # 0 /\ k \in BOOLEAN
    BY SecretsAssumption DEF Begin, SecretsInv, TypeOK, Calls
  <1>2. \A e \in Endpoints, c \in Calls : sess[e][c].phase \in {"none", "down"}
    <2> TAKE e \in Endpoints, c \in Calls
    <2>1. Live(e) \subseteq Calls /\ IsFiniteSet(Calls)
      BY <1>1, FS_Interval DEF Live, Calls
    <2>2. IsFiniteSet(Live(e)) /\ Cardinality(Live(e)) \in Nat /\ Cardinality(Live(e)) < 1
      BY <2>1, FS_Subset, FS_CardinalityType DEF Begin
    <2>3. Cardinality(Live(e)) = 0
      BY <2>2
    <2>4. Live(e) = {}
      BY <2>2, <2>3, FS_EmptySet
    <2> QED BY <2>4 DEF Live
  <1>3. /\ cache \in [Endpoints -> EntryType] /\ sess \in [Endpoints -> [Calls -> SessionType]]
        /\ \A e \in Endpoints : sess[e][next] = Unused
    BY <1>1 DEF SecretsInv, TypeOK, EntryType, SessionType, OneCall
  <1>4. /\ first \in SessionType /\ first.phase = "new" /\ first.alert = FALSE
        /\ first.rs1 = NONE /\ first.rs2 = NONE
    BY DEF Unused, SessionType, SecretValues
  <1>5. \A e \in Endpoints : sess'[e] = [sess[e] EXCEPT ![next] = first]
    <2> TAKE e \in Endpoints
    <2>1. sess'[e] = [sess[e] EXCEPT ![next].phase = "new"]
      BY <1>1 DEF Begin
    <2> QED BY <1>1, <1>3, <2>1
  <1> HIDE DEF first
  <1>6. sess' \in [Endpoints -> [Calls -> SessionType]]
    <2>1. \A e \in Endpoints : [sess[e] EXCEPT ![next] = first] \in [Calls -> SessionType]
      BY <1>3, <1>4
    <2>2. sess' = [e \in Endpoints |-> [sess[e] EXCEPT ![next].phase = "new"]]
      BY <1>1 DEF Begin
    <2> QED BY <1>5, <2>1, <2>2
  <1>7. /\ \A e \in Endpoints : sess'[e][next] = first
        /\ \A e \in Endpoints, c \in Calls : c # next => sess'[e][c] = sess[e][c]
    <2>1. ASSUME NEW e \in Endpoints
          PROVE  /\ sess'[e][next] = first
                 /\ \A c \in Calls : c # next => sess'[e][c] = sess[e][c]
      <3>1. sess[e] \in [Calls -> SessionType] /\ sess'[e] = [sess[e] EXCEPT ![next] = first]
        BY <1>3, <1>5
      <3> HIDE DEF next
      <3> QED BY <1>1, <3>1
    <2> QED BY <2>1
  <1>8. TypeOK'
    <2>1. /\ initiator' \in [Calls -> Endpoints \cup {NONE}] /\ keep' \in [Calls -> BOOLEAN]
          /\ calls' \in 0..MaxCalls
      BY <1>1 DEF Begin, SecretsInv, TypeOK
    <2> QED BY <1>6, <2>1 DEF Begin, SecretsInv, TypeOK, SessionType, NoEntry
  <1>9. OneCall'
    <2>1. \A c \in Calls : c <= next => initiator'[c] \in Endpoints
      <3> SUFFICES ASSUME NEW c \in Calls, c <= next PROVE initiator'[c] \in Endpoints
        OBVIOUS
      <3>1. initiator' = [initiator EXCEPT ![next] = i]
        BY <1>1 DEF Begin
      <3>2. initiator \in [Calls -> Endpoints \cup {NONE}]
        BY DEF SecretsInv, TypeOK
      <3>3. CASE c = next
        BY <1>1, <3>1, <3>2, <3>3
      <3>4. CASE c # next
        <4>1. c <= calls /\ initiator'[c] = initiator[c]
          BY <1>1, <3>1, <3>2, <3>4 DEF Calls
        <4> QED BY <4>1 DEF SecretsInv, OneCall
      <3> QED BY <3>3, <3>4
    <2>2. ASSUME NEW e \in Endpoints, NEW c \in Calls
          PROVE  /\ c > next => sess'[e][c] = Unused
                 /\ sess'[e][c].phase \notin {"none", "down"} => c = next
                 /\ sess'[e][c].alert => sess'[e][c].phase = "secure"
      <3>1. CASE c = next
        BY <1>1, <1>4, <1>7, <3>1
      <3>2. CASE c # next
        <4>1. sess'[e][c] = sess[e][c] /\ (c > next => c > calls)
          BY <1>1, <1>7, <3>2 DEF Calls
        <4> QED BY <1>2, <4>1 DEF SecretsInv, OneCall
      <3> QED BY <3>1, <3>2
    <2> QED BY <1>1, <2>1, <2>2 DEF OneCall
  <1>10. \A e \in Endpoints : EndpointFits(e, cache[e], sess[e][calls], vouched[e])'
    <2> TAKE e \in Endpoints
    <2> DEFINE p == Peer(e)
    <2>0. p \in Endpoints /\ p # e /\ cache' = cache /\ vouched' = vouched
      BY PeerIsTheOther DEF Begin
    <2>1. /\ sess'[e][calls'] = first /\ sess'[p][calls'] = first
          /\ calls' = next
      BY <1>1, <1>7, <2>0
    <2>2. /\ cache[e] \in EntryType /\ vouched[e] \in SUBSET SecretValues
          /\ cache[e].curr = NONE => cache[e] = NoEntry
      BY DEF SecretsInv, TypeOK, EntryType
    <2>v. /\ cache[e].curr \in ValuesOf(e) /\ cache[e].prev \in ValuesOf(e)
          /\ InOrder(cache[e].curr, cache[e].prev)
          /\ cache[e].verified =>
               /\ cache[e].curr \in vouched[e]
               /\ cache[e].prev \in vouched[e] \cup {NONE} \/ Unknown(e, cache[e].prev)
      <3>1. CASE calls = 0
        <4>1. cache[e].curr = NONE /\ cache[e].prev = NONE /\ ~cache[e].verified
          BY <3>1 DEF SecretsInv, NoEntry
        <4>2. InOrder(NONE, NONE)
          BY CallNames DEF InOrder
        <4> QED BY <4>1, <4>2 DEF ValuesOf
      <3>2. CASE calls # 0
        BY <3>2, Both DEF ValuesFit, OrderFit, VouchFit
      <3> QED BY <3>1, <3>2
    <2>3. /\ ValuesOf(e) \subseteq ValuesOf(e)'
          /\ <<"call", next>> \notin ValuesOf(e)
      <3>1. Made(calls) \subseteq Made(next)
        BY <1>1 DEF Made
      <3>2. <<"call", next>> \notin Made(calls)
        <4>1. \A c \in 1..calls : c \in Calls /\ c # next
          BY <1>1 DEF Calls
        <4> QED BY <1>1, <4>1, CallNames
      <3>3. <<"call", next>> # NONE /\ <<"call", next>> \notin OwnOf(e)
        BY <1>1, CallNames, OwnNames
      <3> QED BY <1>1, <3>1, <3>2, <3>3 DEF ValuesOf, OwnOf
    <2>4. \A x : Unknown(e, x) => Unknown(e, x)'
      <3> SUFFICES ASSUME NEW x, Unknown(e, x) PROVE Unknown(e, x)'
        OBVIOUS
      <3>1. /\ x # NONE /\ x \in ValuesOf(e) /\ x \notin {cache[p].curr, cache[p].prev}
        BY DEF Unknown
      <3>2. x # <<"call", next>> /\ x \in ValuesOf(e)'
        BY <2>3, <3>1
      <3> QED BY <1>4, <2>0, <2>1, <3>1, <3>2 DEF Unknown
    <2>5. TypesFit(cache[e], sess[e][calls], vouched[e])'
      BY <1>4, <2>0, <2>1, <2>2 DEF TypesFit, Open, NoEntry
    <2>6. ValuesFit(e, cache[e], sess[e][calls])'
      <3>1. NONE \in ValuesOf(e)' /\ <<"call", next>> # NONE
        BY <1>1, CallNames DEF ValuesOf
      <3> QED BY <1>4, <2>0, <2>1, <2>3, <2>v, <3>1 DEF ValuesFit
    <2>7. OrderFit(cache[e], sess[e][calls])'
      <3>1. InOrder(NONE, NONE)
        BY CallNames DEF InOrder
      <3> QED BY <1>4, <2>0, <2>1, <2>v, <3>1 DEF OrderFit, InOrder
    <2>8. /\ LoadFit(e, cache[e], sess[e][calls])'
          /\ ChosenFit(sess[e][calls], sess[Peer(e)][calls])'
          /\ CoverFit(sess[e][calls], cache[Peer(e)], sess[Peer(e)][calls])'
          /\ KnowFit(e, cache[e], sess[e][calls])'
      BY <1>4, <2>0, <2>1 DEF LoadFit, ChosenFit, CoverFit, KnowFit, Open
    <2>9. VouchFit(e, cache[e], sess[e][calls], vouched[e])'
      BY <1>4, <2>0, <2>1, <2>v, <2>4 DEF VouchFit
    <2> QED BY <2>5, <2>6, <2>7, <2>8, <2>9 DEF EndpointFits
  <1> QED BY <1>1, <1>8, <1>9, <1>10 DEF SecretsInv

-----------------------------------------------------------------------------
(* The choice.                                                             *)

\* Two sessions choose the same secret unless each has the other's rs1 as its
\* rs2, which the order of the calls excludes.
LEMMA ChoicesAgree ==
    ASSUME NEW e \in Endpoints, calls \in 0..MaxCalls, NEW mine, NEW other,
           {mine.rs1, mine.rs2} \subseteq ValuesOf(e),
           {other.rs1, other.rs2} \subseteq ValuesOf(Peer(e)),
           InOrder(mine.rs1, mine.rs2), InOrder(other.rs1, other.rs2),
           mine.rs1 # NONE, other.rs1 # NONE
    PROVE  Choose(mine, other) = Choose(other, mine)
  <1>1. ASSUME mine.rs1 = other.rs2, mine.rs2 = other.rs1 PROVE mine.rs1 = other.rs1
    <2>1. PICK x \in Calls : mine.rs1 = <<"call", x>>
      BY <1>1, Distinguish
    <2>2. PICK y \in Calls : other.rs1 = <<"call", y>>
      BY <1>1, Distinguish
    <2>3. y <= x
      <3>1. PICK z \in Calls : mine.rs1 = <<"call", z>> /\ y <= z
        BY <1>1, <2>2 DEF InOrder
      <3> QED BY <2>1, <3>1, CallNames
    <2>4. x <= y
      <3>1. PICK z \in Calls : other.rs1 = <<"call", z>> /\ x <= z
        BY <1>1, <2>1 DEF InOrder
      <3> QED BY <2>2, <3>1, CallNames
    <2>5. x \in Int /\ y \in Int
      BY DEF Calls
    <2>6. x = y
      BY <2>3, <2>4, <2>5
    <2> QED BY <2>1, <2>2, <2>6
  <1> QED BY <1>1 DEF Choose

-----------------------------------------------------------------------------
(* The theorems.                                                           *)

LEMMA InitInv == Init => SecretsInv
  <1> SUFFICES ASSUME Init PROVE SecretsInv
    OBVIOUS
  <1>1. NoEntry \in EntryType /\ Unused \in SessionType /\ NONE \in SecretValues
    BY DEF NoEntry, Unused, EntryType, SessionType, SecretValues
  <1>2. 0 \in 0..MaxCalls /\ 0 \in 0..MaxLosses
    BY SecretsAssumption
  <1>3. TypeOK
    <2>1. cache \in [Endpoints -> EntryType] /\ sess \in [Endpoints -> [Calls -> SessionType]]
      BY <1>1 DEF Init
    <2> QED BY <1>2, <2>1 DEF Init, TypeOK, EntryType, SessionType
  <1>4. OneCall
    <2>1. \A e \in Endpoints, c \in Calls : sess[e][c] = Unused
      BY DEF Init
    <2>2. Unused.phase = "none" /\ ~Unused.alert
      BY DEF Unused
    <2>3. \A c \in Calls : ~(c <= 0)
      BY DEF Calls
    <2> QED BY <2>1, <2>2, <2>3 DEF OneCall, Init
  <1> QED BY <1>3, <1>4 DEF Init, SecretsInv

LEMMA StutterKeeps == SecretsInv /\ UNCHANGED vars => SecretsInv'
  <1> SUFFICES ASSUME SecretsInv, UNCHANGED vars PROVE SecretsInv'
    OBVIOUS
  <1>1. /\ cache' = cache /\ calls' = calls /\ initiator' = initiator /\ keep' = keep
        /\ sess' = sess /\ confirmV' = confirmV /\ losses' = losses
        /\ stored' = stored /\ vouched' = vouched
    BY DEF vars
  <1>2. TypeOK'
    BY <1>1 DEF SecretsInv, TypeOK
  <1>3. OneCall'
    BY <1>1 DEF SecretsInv, OneCall
  <1>4. \A e \in Endpoints :
           EndpointFits(e, cache[e], sess[e][calls], vouched[e])' <=>
           EndpointFits(e, cache[e], sess[e][calls], vouched[e])
    <2> TAKE e \in Endpoints
    <2>1. /\ TypesFit(cache[e], sess[e][calls], vouched[e])' <=>
             TypesFit(cache[e], sess[e][calls], vouched[e])
          /\ OrderFit(cache[e], sess[e][calls])' <=> OrderFit(cache[e], sess[e][calls])
      BY <1>1 DEF TypesFit, OrderFit
    <2>2. ValuesFit(e, cache[e], sess[e][calls])' <=> ValuesFit(e, cache[e], sess[e][calls])
      BY <1>1 DEF ValuesFit, ValuesOf
    <2>3. LoadFit(e, cache[e], sess[e][calls])' <=> LoadFit(e, cache[e], sess[e][calls])
      BY <1>1 DEF LoadFit
    <2>4. /\ ChosenFit(sess[e][calls], sess[Peer(e)][calls])' <=>
             ChosenFit(sess[e][calls], sess[Peer(e)][calls])
          /\ CoverFit(sess[e][calls], cache[Peer(e)], sess[Peer(e)][calls])' <=>
             CoverFit(sess[e][calls], cache[Peer(e)], sess[Peer(e)][calls])
      BY <1>1 DEF ChosenFit, CoverFit
    <2>5. \A x : Unknown(e, x)' <=> Unknown(e, x)
      BY <1>1 DEF Unknown, ValuesOf
    <2>6. KnowFit(e, cache[e], sess[e][calls])' <=> KnowFit(e, cache[e], sess[e][calls])
      BY <1>1, <2>5 DEF KnowFit, Kept, Postponed
    <2>7. VouchFit(e, cache[e], sess[e][calls], vouched[e])' <=>
          VouchFit(e, cache[e], sess[e][calls], vouched[e])
      BY <1>1, <2>5 DEF VouchFit
    <2> QED BY <2>1, <2>2, <2>3, <2>4, <2>6, <2>7 DEF EndpointFits
  <1> QED BY <1>1, <1>2, <1>3, <1>4 DEF SecretsInv

LEMMA NextKeeps ==
    ASSUME MaxLive = 1, SecretsInv, Next
    PROVE  SecretsInv'
  <1>1. CASE \E i \in Endpoints, k \in Keeps : Begin(i, k)
    BY <1>1, BeginKeeps
  <1>2. CASE \E c \in 1..calls : Confirm1(c) \/ Confirm2(c) \/ Conf2Ack(c)
    BY <1>2, Confirm1Keeps, Confirm2Keeps, Conf2AckKeeps
  <1>3. CASE \E e \in Endpoints, c \in 1..calls :
                \/ Prepare(e, c) \/ Derive(e, c) \/ Multistream(e, c) \/ End(e, c)
                \/ \E v \in BOOLEAN : Verify(e, c, v)
    BY <1>3, PrepareKeeps, DeriveKeeps, MultistreamKeeps, EndKeeps, VerifyKeeps
  <1>4. CASE \E e \in Endpoints : LoseCache(e)
    BY <1>4, LoseCacheKeeps
  <1> QED BY <1>1, <1>2, <1>3, <1>4 DEF Next

\* What an endpoint has cached and loaded fits the last call and its peer,
\* through broken calls, lost caches and secrets with a ttl of 0, if the calls
\* of a pair do not overlap.
THEOREM SecretsInvariant ==
    ASSUME MaxLive = 1
    PROVE  Spec => []SecretsInv
  <1>1. SecretsInv /\ [Next]_vars => SecretsInv'
    BY NextKeeps, StutterKeeps
  <1> QED BY <1>1, InitInv, PTL DEF Spec

\* Caches, sessions and histories keep their types.
THEOREM TypesAlwaysOK ==
    ASSUME MaxLive = 1
    PROVE  Spec => []TypeOK
  <1>1. SecretsInv => TypeOK
    BY DEF SecretsInv
  <1> QED BY <1>1, SecretsInvariant, PTL

\* Both sides of _derive_s0 take the same secret, or none, after any number of
\* calls that broke off on one side or both.
THEOREM SameSecretAlways ==
    ASSUME MaxLive = 1
    PROVE  Spec => []SameSecret
  <1>1. SecretsInv => SameSecret
    <2> SUFFICES ASSUME SecretsInv, NEW c \in Calls,
                        \A e \in Endpoints : sess[e][c].phase = "derived",
                        NEW e \in Endpoints, NEW f \in Endpoints
                 PROVE  sess[e][c].chosen = sess[f][c].chosen
      BY DEF SameSecret, SameKey
    <2>1. c = calls /\ calls # 0
      BY LiveIsLast
    <2>2. f = e \/ f = Peer(e)
      BY PeerIsTheOther
    <2> DEFINE mine == sess[e][calls]
               other == sess[Peer(e)][calls]
    <2>3. mine.phase = "derived" /\ other.phase = "derived"
      BY <2>1, PeerIsTheOther
    <2>4. mine.chosen = Choose(mine, other) /\ other.chosen = Choose(other, mine)
      BY <2>1, <2>3, Both DEF ChosenFit
    <2>5. /\ {mine.rs1, mine.rs2} \subseteq ValuesOf(e)
          /\ {other.rs1, other.rs2} \subseteq ValuesOf(Peer(e))
          /\ InOrder(mine.rs1, mine.rs2) /\ InOrder(other.rs1, other.rs2)
          /\ mine.rs1 # NONE /\ other.rs1 # NONE /\ calls \in 0..MaxCalls
      BY <2>1, <2>3, Both, Now DEF ValuesFit, OrderFit, TypesFit, Open
    <2> HIDE DEF mine, other
    <2>6. Choose(mine, other) = Choose(other, mine)
      BY <2>5, ChoicesAgree
    <2> QED BY <2>1, <2>2, <2>4, <2>6 DEF mine, other
  <1> QED BY <1>1, SecretsInvariant, PTL

\* An entry whose verified flag is set has a current secret that the user has
\* reason to trust, whatever flags the Confirms of the peer and of further
\* streams had.
THEOREM VerifiedAlwaysVouched ==
    ASSUME MaxLive = 1
    PROVE  Spec => []VerifiedIsVouched
  <1>1. SecretsInv => VerifiedIsVouched
    <2> SUFFICES ASSUME SecretsInv, NEW e \in Endpoints, cache[e].verified
                 PROVE  cache[e].curr \in vouched[e]
      BY DEF VerifiedIsVouched
    <2>1. calls # 0
      BY DEF SecretsInv, NoEntry
    <2> QED BY <2>1, Both DEF VouchFit
  <1> QED BY <1>1, SecretsInvariant, PTL

-----------------------------------------------------------------------------
(* Alerts.  While no cache is lost, a call after one that both sides       *)
(* stored finds matching secrets, with at most one broken call in between. *)

Broken(d, k) == {x \in (d + 1)..k : OneSided(x)}

\* The calls up to k leave secrets that match, or even the same on both sides.
Near(k) == \E d \in 1..k : BothSides(d) /\ Cardinality(Broken(d, k)) <= 1
Even(k) == \E d \in 1..k : BothSides(d) /\ Broken(d, k) = {}

\* The current secret that an entry had before the last call.
Before(entry, has) == IF keep[calls] /\ has THEN entry.prev ELSE entry.curr

\* With these two entries a side finds its rs1, or does not expect to.
Agree(mine, yours) ==
    \/ mine.expired
    \/ /\ mine.curr # NONE
       /\ \/ mine.curr \in {yours.curr, yours.prev}
          \/ mine.prev = yours.curr /\ mine.prev # NONE

(***************************************************************************)
(* What holds for an entry and a session of the last call, if it has been  *)
(* stored in that call or not (has), and those of the peer.                *)
(***************************************************************************)

StoreFit(entry, s, has, other) ==
    /\ has => /\ s.phase \in {"secure", "down"}
              /\ other.phase \notin {"new", "ready"}
              /\ IF keep[calls] THEN entry.curr = <<"call", calls>> ELSE entry.expired
    /\ s.phase = "secure" => IF keep[calls] THEN s.rs1 = <<"call", calls>> ELSE s.expired

\* Until the peer has met them, the secrets of a session are those of the cache.
LoadedFit(e, entry, s, other) ==
    /\ (other.phase \in {"new", "ready"} /\ s.rs1 # NONE) =>
          /\ s.rs1 = IF entry.curr = NONE THEN <<"own", e, calls>> ELSE entry.curr
          /\ s.rs2 = IF entry.prev = NONE THEN <<"own2", e, calls>> ELSE entry.prev
    /\ s.phase = "ready" =>
          s.expired = entry.expired /\ (RS1 \in s.cached <=> entry.curr # NONE)

EvenFit(entry, has, entryP, hasP) ==
    Even(calls - 1) => Before(entry, has) = Before(entryP, hasP) /\ Before(entry, has) # NONE

NearFit(entry, has, entryP, hasP) ==
    (Near(calls - 1) /\ ~has /\ ~hasP) => Agree(entry, entryP)

QuietFit(s) ==
    Near(calls - 1) =>
        /\ ~s.alert /\ s.wrongs = {}
        /\ s.phase \in {"derived", "confirmed"} => s.expired \/ RS1 \in s.matches \cap s.cached

Has(e) == calls \in stored[e]

CallFits(e, entry, s, has) ==
    LET other == sess[Peer(e)][calls]
    IN  /\ StoreFit(entry, s, has, other) /\ LoadedFit(e, entry, s, other)
        /\ EvenFit(entry, has, cache[Peer(e)], Has(Peer(e)))
        /\ NearFit(entry, has, cache[Peer(e)], Has(Peer(e)))
        /\ QuietFit(s)

AlarmInv ==
    losses = 0 =>
        /\ \A e \in Endpoints : stored[e] \subseteq 1..calls
        /\ \A e \in Endpoints, c \in Calls :
              (c < calls /\ Near(c - 1)) => sess[e][c].wrongs = {}
        /\ calls # 0 => \A e \in Endpoints : CallFits(e, cache[e], sess[e][calls], Has(e))

-----------------------------------------------------------------------------
(* Near and Even.                                                          *)

LEMMA BrokenCount ==
    ASSUME NEW d \in Nat, NEW k \in Nat
    PROVE  /\ IsFiniteSet(Broken(d, k)) /\ Cardinality(Broken(d, k)) \in Nat
           /\ Broken(d, k) = {} => Cardinality(Broken(d, k)) = 0
           /\ Cardinality(Broken(d, k)) = 0 => Broken(d, k) = {}
  <1>1. Broken(d, k) \subseteq (d + 1)..k /\ IsFiniteSet((d + 1)..k)
    BY FS_Interval DEF Broken
  <1>2. IsFiniteSet(Broken(d, k))
    BY <1>1, FS_Subset
  <1> QED BY <1>2, FS_CardinalityType, FS_EmptySet

LEMMA EvenIsNear ==
    ASSUME NEW k \in Nat, Even(k)
    PROVE  Near(k)
  <1>1. PICK d \in 1..k : BothSides(d) /\ Broken(d, k) = {}
    BY DEF Even
  <1>2. Cardinality(Broken(d, k)) <= 1
    <2>1. d \in Nat
      OBVIOUS
    <2>2. Cardinality(Broken(d, k)) = 0
      BY <1>1, <2>1, BrokenCount
    <2> QED BY <2>2
  <1> QED BY <1>1, <1>2 DEF Near

\* The last call but one is broken, or changes nothing, or both sides have it.
LEMMA LastCall ==
    ASSUME NEW n \in Nat, n # 0, ~BothSides(n)
    PROVE  /\ Even(n) => ~OneSided(n) /\ Even(n - 1)
           /\ (Near(n) /\ ~OneSided(n)) => Near(n - 1)
           /\ (Near(n) /\ OneSided(n)) => Even(n - 1)
  <1>1. ASSUME NEW d \in 1..n, BothSides(d)
        PROVE  /\ d \in 1..(n - 1) /\ d \in Nat /\ n - 1 \in Nat
               /\ ~OneSided(n) => Broken(d, n) = Broken(d, n - 1)
               /\ OneSided(n) => /\ Broken(d, n) = Broken(d, n - 1) \cup {n}
                                 /\ n \notin Broken(d, n - 1)
    <2>1. d # n
      BY <1>1
    <2>2. d \in 1..(n - 1) /\ (d + 1)..n = ((d + 1)..(n - 1)) \cup {n} /\ n \notin (d + 1)..(n - 1)
      BY <2>1
    <2> QED BY <2>2 DEF Broken
  <1>2. Even(n) => ~OneSided(n) /\ Even(n - 1)
    <2> SUFFICES ASSUME Even(n) PROVE ~OneSided(n) /\ Even(n - 1)
      OBVIOUS
    <2>1. PICK d \in 1..n : BothSides(d) /\ Broken(d, n) = {}
      BY DEF Even
    <2> QED BY <1>1, <2>1 DEF Even
  <1>3. ASSUME Near(n), ~OneSided(n) PROVE Near(n - 1)
    <2>1. PICK d \in 1..n : BothSides(d) /\ Cardinality(Broken(d, n)) <= 1
      BY <1>3 DEF Near
    <2> QED BY <1>1, <1>3, <2>1 DEF Near
  <1>4. ASSUME Near(n), OneSided(n) PROVE Even(n - 1)
    <2>1. PICK d \in 1..n : BothSides(d) /\ Cardinality(Broken(d, n)) <= 1
      BY <1>4 DEF Near
    <2>2. /\ d \in 1..(n - 1) /\ d \in Nat /\ n - 1 \in Nat
          /\ Broken(d, n) = Broken(d, n - 1) \cup {n} /\ n \notin Broken(d, n - 1)
      BY <1>1, <1>4, <2>1
    <2>3. Cardinality(Broken(d, n)) = Cardinality(Broken(d, n - 1)) + 1
      BY <2>2, BrokenCount, FS_AddElement
    <2>4. Cardinality(Broken(d, n - 1)) = 0
      BY <2>1, <2>2, <2>3, BrokenCount
    <2>5. Broken(d, n - 1) = {}
      BY <2>2, <2>4, BrokenCount
    <2> QED BY <2>1, <2>2, <2>5 DEF Even
  <1> QED BY <1>2, <1>3, <1>4

\* What happened in earlier calls does not change.
LEMMA PastStays ==
    ASSUME NEW n \in Nat, NEW k \in Nat, k < n,
           \A e \in Endpoints, c \in 1..k : c \in stored'[e] <=> c \in stored[e],
           \A c \in 1..k : keep'[c] = keep[c]
    PROVE  (Near(k)' <=> Near(k)) /\ (Even(k)' <=> Even(k))
  <1>1. \A c \in 1..k : (BothSides(c)' <=> BothSides(c)) /\ (OneSided(c)' <=> OneSided(c))
    BY DEF BothSides, OneSided
  <1>2. \A d \in 1..k : Broken(d, k)' = Broken(d, k)
    <2> TAKE d \in 1..k
    <2>1. (d + 1)..k \subseteq 1..k
      OBVIOUS
    <2> QED BY <1>1, <2>1 DEF Broken
  <1> QED BY <1>1, <1>2 DEF Near, Even

-----------------------------------------------------------------------------
(* A turn of one endpoint, with what it has stored.                        *)

StoreTurn(e, n, s, st) ==
    /\ calls' = calls /\ keep' = keep /\ losses' = losses
    /\ cache' = [cache EXCEPT ![e] = n]
    /\ sess' = [sess EXCEPT ![e] = [sess[e] EXCEPT ![calls] = s]]
    /\ stored' = [stored EXCEPT ![e] = st]

\* What the peer of e may rely on.
PeerCallFits(e, n, s, has) ==
    LET p == Peer(e)
        other == sess[p][calls]
    IN  /\ StoreFit(cache[p], other, Has(p), s) /\ LoadedFit(p, cache[p], other, s)
        /\ EvenFit(cache[p], Has(p), n, has) /\ NearFit(cache[p], Has(p), n, has)

LEMMA StoreTurnKeeps ==
    ASSUME SecretsInv, AlarmInv, losses = 0, calls # 0, NEW e \in Endpoints,
           NEW n, NEW s, NEW st, NEW has,
           StoreTurn(e, n, s, st), stored[e] \subseteq st, st \subseteq stored[e] \cup {calls},
           has = (calls \in st),
           CallFits(e, n, s, has), PeerCallFits(e, n, s, has)
    PROVE  AlarmInv'
  <1> DEFINE p == Peer(e)
  <1>1. calls \in Calls /\ p \in Endpoints /\ p # e /\ Peer(p) = e
        /\ \A x \in Endpoints : x = e \/ x = p
    BY Now, PeerIsTheOther
  <1>2. /\ cache \in [Endpoints -> EntryType] /\ sess \in [Endpoints -> [Calls -> SessionType]]
        /\ stored \in [Endpoints -> SUBSET Calls]
    BY DEF SecretsInv, TypeOK, EntryType, SessionType
  <1>3. /\ calls' = calls /\ keep' = keep /\ losses' = losses
        /\ cache'[e] = n /\ sess'[e][calls] = s /\ stored'[e] = st
        /\ cache'[p] = cache[p] /\ sess'[p] = sess[p] /\ stored'[p] = stored[p]
        /\ \A c \in Calls : c # calls => sess'[e][c] = sess[e][c]
    BY <1>1, <1>2 DEF StoreTurn
  <1>4. calls \in Nat /\ 1..calls \subseteq Calls
    BY SecretsAssumption, Now DEF Calls
  <1>5. \A k \in Nat : k < calls => (Near(k)' <=> Near(k)) /\ (Even(k)' <=> Even(k))
    <2> SUFFICES ASSUME NEW k \in Nat, k < calls
                 PROVE  (Near(k)' <=> Near(k)) /\ (Even(k)' <=> Even(k))
      OBVIOUS
    <2>1. \A f \in Endpoints, c \in 1..k : c \in stored'[f] <=> c \in stored[f]
      <3> SUFFICES ASSUME NEW f \in Endpoints, NEW c \in 1..k
                   PROVE  c \in stored'[f] <=> c \in stored[f]
        OBVIOUS
      <3>1. c # calls
        BY <1>4
      <3> QED BY <1>1, <1>3, <3>1
    <2> QED BY <1>3, <1>4, <2>1, PastStays
  <1>6. calls - 1 \in Nat /\ calls - 1 < calls
    BY <1>4
  <1>7. (Near(calls - 1)' <=> Near(calls - 1)) /\ (Even(calls - 1)' <=> Even(calls - 1))
    BY <1>3, <1>5, <1>6
  <1>8. \A f \in Endpoints : stored'[f] \subseteq 1..calls
    <2>1. calls \in 1..calls
      BY <1>4
    <2>2. stored[e] \subseteq 1..calls /\ stored[p] \subseteq 1..calls
      BY <1>1 DEF AlarmInv
    <2> QED BY <1>1, <1>3, <2>1, <2>2
  <1>9. \A f \in Endpoints, c \in Calls : (c < calls /\ Near(c - 1)') => sess'[f][c].wrongs = {}
    <2> SUFFICES ASSUME NEW f \in Endpoints, NEW c \in Calls, c < calls, Near(c - 1)'
                 PROVE  sess'[f][c].wrongs = {}
      OBVIOUS
    <2>1. c - 1 \in Nat /\ c - 1 < calls /\ c # calls
      BY <1>4 DEF Calls
    <2>2. Near(c - 1)
      BY <1>5, <2>1
    <2>3. sess'[f][c] = sess[f][c]
      BY <1>1, <1>3, <2>1
    <2> QED BY <2>2, <2>3 DEF AlarmInv
  <1>10. Has(e)' = has /\ Has(p)' = Has(p)
    BY <1>3 DEF Has
  <1>11. CallFits(p, cache[p], sess[p][calls], Has(p))
    BY <1>1 DEF AlarmInv
  <1>12. CallFits(e, n, s, has)'
    <2>1. StoreFit(n, s, has, sess[p][calls])' /\ LoadedFit(e, n, s, sess[p][calls])'
      BY <1>3 DEF CallFits, StoreFit, LoadedFit
    <2>2. EvenFit(n, has, cache[p], Has(p))' /\ NearFit(n, has, cache[p], Has(p))'
      <3>1. EvenFit(n, has, cache[p], Has(p)) /\ NearFit(n, has, cache[p], Has(p))
        BY DEF CallFits
      <3> QED BY <1>3, <1>7, <1>10, <3>1 DEF EvenFit, NearFit, Before, Agree
    <2>3. QuietFit(s)'
      <3>1. QuietFit(s)
        BY DEF CallFits
      <3> QED BY <1>7, <3>1 DEF QuietFit
    <2> QED BY <2>1, <2>2, <2>3 DEF CallFits
  <1>13. CallFits(p, cache[p], sess[p][calls], Has(p))'
    <2>1. /\ StoreFit(cache[p], sess[p][calls], Has(p), sess[Peer(p)][calls])'
          /\ LoadedFit(p, cache[p], sess[p][calls], sess[Peer(p)][calls])'
      BY <1>1, <1>3, <1>10 DEF PeerCallFits, StoreFit, LoadedFit
    <2>2. /\ EvenFit(cache[p], Has(p), cache[Peer(p)], Has(Peer(p)))'
          /\ NearFit(cache[p], Has(p), cache[Peer(p)], Has(Peer(p)))'
      <3>1. EvenFit(cache[p], Has(p), n, has) /\ NearFit(cache[p], Has(p), n, has)
        BY DEF PeerCallFits
      <3> QED BY <1>1, <1>3, <1>7, <1>10, <3>1 DEF EvenFit, NearFit, Before, Agree
    <2>3. QuietFit(sess[p][calls])'
      <3>1. QuietFit(sess[p][calls])
        BY <1>11 DEF CallFits
      <3> QED BY <1>3, <1>7, <3>1 DEF QuietFit
    <2> QED BY <2>1, <2>2, <2>3 DEF CallFits
  <1>14. \A f \in Endpoints : CallFits(f, cache[f], sess[f][calls], Has(f))'
    <2> TAKE f \in Endpoints
    <2>1. CASE f = e
      <3>1. CallFits(e, n, s, has)' = CallFits(e, cache[e], sess[e][calls], Has(e))'
        BY <1>3, <1>10
      <3> QED BY <2>1, <3>1, <1>12
    <2>2. CASE f = p
      BY <2>2, <1>13
    <2> QED BY <2>1, <2>2, <1>1
  <1> QED BY <1>3, <1>8, <1>9, <1>14 DEF AlarmInv

\* What the two endpoints are to each other.
LEMMA BothCalls ==
    ASSUME SecretsInv, AlarmInv, losses = 0, calls # 0, NEW e \in Endpoints
    PROVE  LET p == Peer(e)
               mine == sess[e][calls]
               other == sess[p][calls]
           IN  /\ StoreFit(cache[e], mine, Has(e), other) /\ LoadedFit(e, cache[e], mine, other)
               /\ StoreFit(cache[p], other, Has(p), mine) /\ LoadedFit(p, cache[p], other, mine)
               /\ EvenFit(cache[e], Has(e), cache[p], Has(p))
               /\ EvenFit(cache[p], Has(p), cache[e], Has(e))
               /\ NearFit(cache[e], Has(e), cache[p], Has(p))
               /\ NearFit(cache[p], Has(p), cache[e], Has(e))
               /\ QuietFit(mine)
               /\ calls \in Calls /\ calls - 1 \in Nat
               /\ (Even(calls - 1) => Near(calls - 1))
  <1>1. Peer(e) \in Endpoints /\ Peer(Peer(e)) = e
    BY PeerIsTheOther
  <1>2. /\ CallFits(e, cache[e], sess[e][calls], Has(e))
        /\ CallFits(Peer(e), cache[Peer(e)], sess[Peer(e)][calls], Has(Peer(e)))
    BY <1>1 DEF AlarmInv
  <1>3. calls \in Calls /\ calls - 1 \in Nat
    BY Now DEF Calls
  <1>4. Even(calls - 1) => Near(calls - 1)
    BY <1>3, EvenIsNear
  <1> QED BY <1>1, <1>2, <1>3, <1>4 DEF CallFits

\* A turn that stores nothing and leaves the secrets of the entry as they are.
LEMMA QuietTurn ==
    ASSUME SecretsInv, AlarmInv, losses = 0, calls # 0, NEW e \in Endpoints, NEW n, NEW s,
           StoreTurn(e, n, s, stored[e]),
           n.curr = cache[e].curr, n.prev = cache[e].prev, n.expired = cache[e].expired,
           LET other == sess[Peer(e)][calls]
           IN  /\ StoreFit(n, s, Has(e), other) /\ LoadedFit(e, n, s, other)
               /\ StoreFit(cache[Peer(e)], other, Has(Peer(e)), s)
               /\ LoadedFit(Peer(e), cache[Peer(e)], other, s),
           QuietFit(s)
    PROVE  AlarmInv'
  <1> DEFINE p == Peer(e)
  <1>1. /\ EvenFit(n, Has(e), cache[p], Has(p)) /\ EvenFit(cache[p], Has(p), n, Has(e))
        /\ NearFit(n, Has(e), cache[p], Has(p)) /\ NearFit(cache[p], Has(p), n, Has(e))
    BY BothCalls DEF EvenFit, NearFit, Before, Agree
  <1>2. CallFits(e, n, s, Has(e)) /\ PeerCallFits(e, n, s, Has(e))
    BY <1>1 DEF CallFits, PeerCallFits
  <1>3. Has(e) = (calls \in stored[e])
    BY DEF Has
  <1> QED BY <1>2, <1>3, StoreTurnKeeps

LEMMA PrepareAlarm ==
    ASSUME SecretsInv, AlarmInv, losses = 0, NEW e \in Endpoints, NEW c \in 1..calls,
           Prepare(e, c)
    PROVE  AlarmInv'
  <1> DEFINE p == Peer(e)
             mine == sess[e][calls]
             other == sess[p][calls]
  <1>1. c \in Calls /\ sess[e][c].phase = "new"
    BY SecretsAssumption DEF SecretsInv, TypeOK, Calls, Prepare
  <1>2. c = calls /\ calls # 0
    BY <1>1, LiveIsLast
  <1>3. /\ mine \in SessionType /\ cache[e] \in EntryType /\ mine.phase = "new" /\ calls \in Calls
    BY <1>1, <1>2, Now
  <1>n. PICK n : n = cache[e]
    OBVIOUS
  <1>s. PICK s : s = [mine EXCEPT
                 !.phase = "ready",
                 !.rs1 = IF n.curr # NONE THEN n.curr ELSE <<"own", e, calls>>,
                 !.rs2 = IF n.prev # NONE THEN n.prev ELSE <<"own2", e, calls>>,
                 !.expired = n.expired,
                 !.cached = {r \in {RS1, RS2} : IF r = RS1 THEN n.curr # NONE ELSE n.prev # NONE}]
    OBVIOUS
  <1>4. /\ s.phase = "ready" /\ s.alert = mine.alert /\ s.wrongs = mine.wrongs
        /\ s.rs1 = IF n.curr # NONE THEN n.curr ELSE <<"own", e, calls>>
        /\ s.rs2 = IF n.prev # NONE THEN n.prev ELSE <<"own2", e, calls>>
        /\ s.expired = n.expired
        /\ s.cached = {r \in {RS1, RS2} : IF r = RS1 THEN n.curr # NONE ELSE n.prev # NONE}
    BY <1>3, <1>s DEF SessionType
  <1>5. StoreTurn(e, n, s, stored[e])
    <2>1. sess' = [sess EXCEPT ![e][calls] = s]
      BY <1>2, <1>n, <1>s DEF Prepare
    <2>2. sess' = [sess EXCEPT ![e] = [sess[e] EXCEPT ![calls] = s]]
      BY <2>1
    <2>3. cache' = [cache EXCEPT ![e] = n] /\ stored' = [stored EXCEPT ![e] = stored[e]]
      BY <1>n DEF Prepare, SecretsInv, TypeOK
    <2> QED BY <2>2, <2>3 DEF StoreTurn, Prepare
  <1>6. /\ StoreFit(cache[e], mine, Has(e), other) /\ StoreFit(cache[p], other, Has(p), mine)
        /\ LoadedFit(p, cache[p], other, mine) /\ QuietFit(mine)
    BY <1>2, BothCalls
  <1>7. ~Has(e) /\ ~Has(p)
    BY <1>3, <1>6 DEF StoreFit
  <1>8. StoreFit(n, s, Has(e), other) /\ StoreFit(cache[p], other, Has(p), s)
    BY <1>4, <1>6, <1>7 DEF StoreFit
  <1>9. LoadedFit(e, n, s, other)
    <2>1. RS1 \in s.cached <=> n.curr # NONE
      BY <1>4
    <2> QED BY <1>4, <2>1 DEF LoadedFit
  <1>10. LoadedFit(p, cache[p], other, s)
    BY <1>3, <1>4, <1>6 DEF LoadedFit
  <1>11. QuietFit(s)
    BY <1>4, <1>6 DEF QuietFit
  <1> QED BY <1>2, <1>5, <1>n, <1>8, <1>9, <1>10, <1>11, QuietTurn

\* A secret that the entries agree on is found.
LEMMA AgreeIsMatch ==
    ASSUME NEW e \in Endpoints, NEW entry, NEW entryP, NEW mine, NEW other,
           ~entry.expired, Agree(entry, entryP),
           mine.rs1 = IF entry.curr = NONE THEN <<"own", e, calls>> ELSE entry.curr,
           mine.rs2 = IF entry.prev = NONE THEN <<"own2", e, calls>> ELSE entry.prev,
           other.rs1 = IF entryP.curr = NONE THEN <<"own", Peer(e), calls>> ELSE entryP.curr,
           other.rs2 = IF entryP.prev = NONE THEN <<"own2", Peer(e), calls>> ELSE entryP.prev
    PROVE  entry.curr # NONE /\ RS1Matches(mine, other)
  <1>1. entry.curr # NONE /\ mine.rs1 = entry.curr
    BY DEF Agree
  <1>2. CASE entry.curr = entryP.curr
    BY <1>1, <1>2 DEF RS1Matches
  <1>3. CASE entry.curr = entryP.prev
    BY <1>1, <1>3 DEF RS1Matches
  <1>4. CASE entry.prev = entryP.curr /\ entry.prev # NONE
    <2>1. mine.rs2 = entry.prev
      BY <1>4
    <2>2. other.rs1 = entryP.curr
      BY <1>4
    <2> QED BY <1>1, <1>4, <2>1, <2>2 DEF RS1Matches
  <1> QED BY <1>1, <1>2, <1>3, <1>4 DEF Agree

LEMMA DeriveAlarm ==
    ASSUME SecretsInv, AlarmInv, losses = 0, NEW e \in Endpoints, NEW c \in 1..calls,
           Derive(e, c)
    PROVE  AlarmInv'
  <1> DEFINE p == Peer(e)
             mine == sess[e][calls]
             other == sess[p][calls]
             matched == RS1Matches(mine, other)
  <1>1. c \in Calls /\ sess[e][c].phase = "ready"
    BY SecretsAssumption DEF SecretsInv, TypeOK, Calls, Derive
  <1>2. c = calls /\ calls # 0
    BY <1>1, LiveIsLast
  <1>3. /\ mine \in SessionType /\ cache[e] \in EntryType /\ mine.phase = "ready"
        /\ other.rs1 # NONE /\ calls \in Calls /\ (cache[e].curr = NONE => cache[e] = NoEntry)
    BY <1>1, <1>2, Now, Both DEF Derive, TypesFit
  <1>n. PICK n : n = IF matched THEN cache[e] ELSE DropVerified(cache[e])
    OBVIOUS
  <1>s. PICK s : s = [mine EXCEPT
                 !.phase = "derived",
                 !.chosen = Choose(mine, other),
                 !.matches = {r \in {RS1, RS2} : IF r = RS1 THEN matched ELSE mine.rs2 = other.rs2},
                 !.cached = IF FallsBack(mine, other) THEN mine.cached \cup {RS1} ELSE mine.cached]
    OBVIOUS
  <1>4. /\ s.phase = "derived" /\ s.alert = mine.alert /\ s.wrongs = mine.wrongs
        /\ s.rs1 = mine.rs1 /\ s.rs2 = mine.rs2 /\ s.expired = mine.expired
        /\ s.matches = {r \in {RS1, RS2} : IF r = RS1 THEN matched ELSE mine.rs2 = other.rs2}
        /\ mine.cached \subseteq s.cached
    BY <1>3, <1>s DEF SessionType
  <1>5. n.curr = cache[e].curr /\ n.prev = cache[e].prev /\ n.expired = cache[e].expired
    <2>1. CASE ~matched
      <3>1. n = SetVerified(cache[e], FALSE)
        BY <1>n, <2>1 DEF DropVerified
      <3> QED BY <1>3, <3>1, FlagOnly
    <2> QED BY <1>n, <2>1
  <1>6. StoreTurn(e, n, s, stored[e])
    <2>1. sess' = [sess EXCEPT ![e][calls] = s]
      BY <1>2, <1>s DEF Derive
    <2>2. sess' = [sess EXCEPT ![e] = [sess[e] EXCEPT ![calls] = s]]
      BY <2>1
    <2>3. cache' = [cache EXCEPT ![e] = n]
      <3>1. cache \in [Endpoints -> EntryType]
        BY DEF SecretsInv, TypeOK, EntryType
      <3>2. cache' = IF matched THEN cache ELSE [cache EXCEPT ![e] = DropVerified(cache[e])]
        BY <1>2 DEF Derive
      <3> QED BY <1>n, <3>1, <3>2
    <2>4. stored' = [stored EXCEPT ![e] = stored[e]]
      BY DEF Derive, SecretsInv, TypeOK
    <2> QED BY <2>2, <2>3, <2>4 DEF StoreTurn, Derive
  <1>7. /\ StoreFit(cache[e], mine, Has(e), other) /\ StoreFit(cache[p], other, Has(p), mine)
        /\ LoadedFit(e, cache[e], mine, other) /\ LoadedFit(p, cache[p], other, mine)
        /\ NearFit(cache[e], Has(e), cache[p], Has(p)) /\ QuietFit(mine)
    BY <1>2, BothCalls
  <1>8. ~Has(e) /\ ~Has(p)
    BY <1>3, <1>7 DEF StoreFit
  <1>9. StoreFit(n, s, Has(e), other) /\ StoreFit(cache[p], other, Has(p), s)
    BY <1>4, <1>7, <1>8 DEF StoreFit
  <1>10. /\ mine.rs1 = IF cache[e].curr = NONE THEN <<"own", e, calls>> ELSE cache[e].curr
         /\ mine.rs2 = IF cache[e].prev = NONE THEN <<"own2", e, calls>> ELSE cache[e].prev
    BY <1>2, <1>3, Both DEF LoadFit, Open
  <1>11. LoadedFit(e, n, s, other) /\ LoadedFit(p, cache[p], other, s)
    BY <1>4, <1>5, <1>7, <1>10 DEF LoadedFit
  <1>12. QuietFit(s)
    <2> SUFFICES ASSUME Near(calls - 1), ~mine.expired PROVE RS1 \in s.matches \cap s.cached
      BY <1>4, <1>7 DEF QuietFit
    <2>1. Agree(cache[e], cache[p]) /\ ~cache[e].expired
      BY <1>3, <1>7, <1>8 DEF NearFit, LoadedFit
    <2>2. /\ other.rs1 = IF cache[p].curr = NONE THEN <<"own", p, calls>> ELSE cache[p].curr
          /\ other.rs2 = IF cache[p].prev = NONE THEN <<"own2", p, calls>> ELSE cache[p].prev
      BY <1>3, <1>7 DEF LoadedFit
    <2>3. cache[e].curr # NONE /\ matched
      BY <1>10, <2>1, <2>2, AgreeIsMatch
    <2>4. RS1 \in mine.cached
      BY <1>3, <1>7, <2>3 DEF LoadedFit
    <2> QED BY <1>4, <2>3, <2>4
  <1> QED BY <1>2, <1>5, <1>6, <1>9, <1>11, <1>12, QuietTurn

\* What zrtp_verified_set stores, and whether the entry it leaves has expired.
LEMMA AfterSetStores ==
    ASSUME SecretsInv, calls # 0, NEW e \in Endpoints, NEW v \in BOOLEAN
    PROVE  LET n == AfterVerifiedSet(e, v)
               mine == sess[e][calls]
           IN  /\ n.expired = IF mine.alert THEN mine.expired ELSE cache[e].expired
               /\ Alerted(e) = IF mine.alert THEN {calls} ELSE {}
  <1> DEFINE mine == sess[e][calls]
             flagged == SetVerified(cache[e], v)
  <1>1. cache[e] \in EntryType /\ mine \in SessionType /\ TypesFit(cache[e], mine, vouched[e])
    BY Now DEF EndpointFits
  <1>2. flagged \in EntryType /\ flagged.expired = cache[e].expired
    BY <1>1, FlagOnly DEF TypesFit
  <1>3. AfterVerifiedSet(e, v) = PutAlerted(e, flagged)
    BY DEF AfterVerifiedSet
  <1>4. CASE ~mine.alert
    BY <1>2, <1>3, <1>4, AlertIsLast, PutOne
  <1>5. CASE mine.alert
    <2>1. PutAlerted(e, flagged) = CachePut(flagged, mine.rs1, mine.expired)
      BY <1>5, AlertIsLast, PutOne
    <2>2. mine.expired \in BOOLEAN
      BY <1>1 DEF SessionType
    <2>3. CachePut(flagged, mine.rs1, mine.expired).expired = mine.expired
      BY <1>2, <2>2 DEF CachePut, EntryType
    <2> QED BY <1>3, <1>5, <2>1, <2>3, AlertIsLast
  <1> QED BY <1>4, <1>5

\* The same for a Confirm, which calls it if its V flag is 0.
LEMMA ProcessedStores ==
    ASSUME SecretsInv, calls # 0, NEW e \in Endpoints, NEW v \in BOOLEAN
    PROVE  LET put == ~v /\ sess[e][calls].alert
           IN  /\ ProcessV(e, v).expired =
                     IF put THEN sess[e][calls].expired ELSE cache[e].expired
               /\ StoredByV(e, v) = IF put THEN {calls} ELSE {}
  <1>1. CASE v
    BY <1>1 DEF ProcessV, StoredByV
  <1>2. CASE ~v
    BY <1>2, AfterSetStores DEF ProcessV, StoredByV
  <1> QED BY <1>1, <1>2

LEMMA Confirm1Alarm ==
    ASSUME SecretsInv, AlarmInv, losses = 0, NEW c \in 1..calls, Confirm1(c)
    PROVE  AlarmInv'
  <1>1. c \in Calls /\ initiator[c] \in Endpoints
    BY SecretsAssumption DEF SecretsInv, TypeOK, OneCall, Calls
  <1>e. PICK e \in Endpoints : e = initiator[c]
    BY <1>1
  <1> DEFINE p == Peer(e)
             mine == sess[e][calls]
             other == sess[p][calls]
  <1>2. sess[e][c].phase = "derived" /\ sess[p][c].phase = "derived"
    BY <1>e DEF Confirm1
  <1>3. c = calls /\ calls # 0
    BY <1>1, <1>2, LiveIsLast
  <1>4. /\ mine \in SessionType /\ cache[e] \in EntryType /\ mine.phase = "derived"
        /\ other.phase = "derived" /\ calls \in Calls /\ p \in Endpoints
        /\ sess[e] \in [Calls -> SessionType]
    BY <1>2, <1>3, Now, PeerIsTheOther
  <1>5. mine.alert = FALSE
    BY <1>3, <1>4, Both DEF TypesFit, SessionType
  <1>v. PICK v \in BOOLEAN : v = confirmV[p][c]
    BY <1>1, <1>4 DEF SecretsInv, TypeOK
  <1>n. PICK n : n = ProcessV(e, v)
    OBVIOUS
  <1>s. PICK s : s = [mine EXCEPT !.phase = "confirmed"]
    OBVIOUS
  <1>6. /\ n.curr = cache[e].curr /\ n.prev = cache[e].prev /\ n.expired = cache[e].expired
        /\ SessionsAfterV(e, v) = sess[e] /\ StoredByV(e, v) = {}
    BY <1>3, <1>5, <1>n, Processed, ProcessedStores
  <1>7. /\ s.phase = "confirmed" /\ s.alert = mine.alert /\ s.wrongs = mine.wrongs
        /\ s.expired = mine.expired /\ s.matches = mine.matches /\ s.cached = mine.cached
    BY <1>4, <1>s DEF SessionType
  <1>8. StoreTurn(e, n, s, stored[e])
    <2>1. cache' = [cache EXCEPT ![e] = n]
      BY <1>e, <1>v, <1>n DEF Confirm1
    <2>2. sess' = [sess EXCEPT ![e] = [sess[e] EXCEPT ![calls] = s]]
      <3>1. sess' = [sess EXCEPT ![e] = [sess[e] EXCEPT ![calls].phase = "confirmed"]]
        BY <1>e, <1>v, <1>3, <1>6 DEF Confirm1
      <3> QED BY <3>1, <1>s
    <2>3. stored' = [stored EXCEPT ![e] = stored[e]]
      <3>1. stored' = [stored EXCEPT ![e] = stored[e] \cup StoredByV(e, v)]
        BY <1>e, <1>v DEF Confirm1
      <3>2. stored[e] \cup StoredByV(e, v) = stored[e]
        BY <1>6
      <3> QED BY <3>1, <3>2
    <2> QED BY <2>1, <2>2, <2>3 DEF StoreTurn, Confirm1
  <1>9. /\ StoreFit(cache[e], mine, Has(e), other) /\ StoreFit(cache[p], other, Has(p), mine)
        /\ QuietFit(mine)
    BY <1>3, BothCalls
  <1>10. ~Has(e) /\ ~Has(p)
    BY <1>4, <1>9 DEF StoreFit
  <1>11. /\ StoreFit(n, s, Has(e), other) /\ StoreFit(cache[p], other, Has(p), s)
         /\ LoadedFit(e, n, s, other) /\ LoadedFit(p, cache[p], other, s)
    BY <1>4, <1>7, <1>10 DEF StoreFit, LoadedFit
  <1>12. QuietFit(s)
    BY <1>4, <1>7, <1>9 DEF QuietFit
  <1> QED BY <1>3, <1>6, <1>8, <1>11, <1>12, QuietTurn

\* Entering SECURE: after near calls there is no alert, and the secret is stored.
LEMMA SecureAlarm ==
    ASSUME SecretsInv, AlarmInv, losses = 0, calls # 0, NEW e \in Endpoints, NEW m \in EntryType,
           sess[e][calls].phase \in {"derived", "confirmed"},
           sess[Peer(e)][calls].phase \in {"confirmed", "secure"},
           m.curr = cache[e].curr, m.prev = cache[e].prev,
           EnterSecure(e, calls, sess[e][calls], m, sess[e]),
           calls' = calls, keep' = keep, losses' = losses,
           stored' = [stored EXCEPT ![e] = stored[e] \cup StoredNow(calls, sess[e][calls])]
    PROVE  AlarmInv'
  <1> DEFINE p == Peer(e)
             mine == sess[e][calls]
             other == sess[p][calls]
             new == <<"call", calls>>
  <1>1. mine \in SessionType /\ keep[calls] \in BOOLEAN /\ calls \in Calls
    BY Now DEF SecretsInv, TypeOK
  <1>2. /\ StoreFit(cache[e], mine, Has(e), other) /\ StoreFit(cache[p], other, Has(p), mine)
        /\ EvenFit(cache[e], Has(e), cache[p], Has(p)) /\ QuietFit(mine)
        /\ (Even(calls - 1) => Near(calls - 1))
    BY BothCalls
  <1>s. PICK s : s = IF keep[calls] THEN RollOver(mine, calls) ELSE NoRollOver(mine)
    OBVIOUS
  <1>n. PICK n : n = IF ~keep[calls] THEN CachePut(m, mine.rs1, TRUE)
                     ELSE IF StoreNow(mine) THEN CachePut(m, new, FALSE) ELSE m
    OBVIOUS
  <1>t. PICK st : st = stored[e] \cup StoredNow(calls, mine)
    OBVIOUS
  <1>h. PICK has : has = (calls \in st)
    OBVIOUS
  <1>3. StoreTurn(e, n, s, st)
    <2>1. sess' = [sess EXCEPT ![e] = [sess[e] EXCEPT ![calls] = s]]
      BY <1>s DEF EnterSecure
    <2>2. cache' = [cache EXCEPT ![e] = n]
      BY <1>n DEF EnterSecure
    <2>3. stored' = [stored EXCEPT ![e] = st]
      BY <1>t
    <2> QED BY <2>1, <2>2, <2>3 DEF StoreTurn
  <1>4. ~Has(e) /\ calls \notin stored[e]
    BY <1>2 DEF StoreFit, Has
  <1>5. /\ has <=> (keep[calls] => StoreNow(mine))
        /\ stored[e] \subseteq st /\ st \subseteq stored[e] \cup {calls}
    BY <1>4, <1>h, <1>t DEF StoredNow
  <1>6. /\ s.phase = "secure" /\ s.wrongs = Wrongs(mine) /\ s.alert = Alert(mine)
        /\ keep[calls] => s.rs1 = new
        /\ ~keep[calls] => s.expired
    <2>1. CASE keep[calls]
      <3>1. s = RollOver(mine, calls)
        BY <1>s, <2>1
      <3> HIDE DEF mine, new
      <3>2. s.phase = "secure" /\ s.wrongs = Wrongs(mine) /\ s.alert = Alert(mine) /\ s.rs1 = new
        BY <1>1, <3>1 DEF RollOver, SessionType, new
      <3> QED BY <2>1, <3>2
    <2>2. CASE ~keep[calls]
      <3>1. s = NoRollOver(mine)
        BY <1>s, <2>2
      <3> HIDE DEF mine
      <3>2. s.phase = "secure" /\ s.wrongs = Wrongs(mine) /\ s.alert = Alert(mine) /\ s.expired
        BY <1>1, <3>1 DEF NoRollOver, SessionType
      <3> QED BY <2>2, <3>2
    <2> QED BY <2>1, <2>2
  <1>7. \A x, b : LET q == CachePut(m, x, b) IN
           /\ q.curr = x /\ q.expired = b
           /\ q.prev = IF m.curr = NONE THEN m.prev ELSE m.curr
    BY DEF CachePut, EntryType
  <1>8. Near(calls - 1) => Wrongs(mine) = {} /\ ~Alert(mine)
    <2> SUFFICES ASSUME Near(calls - 1) PROVE Wrongs(mine) = {} /\ ~Alert(mine)
      OBVIOUS
    <2>1. ~mine.alert /\ (mine.expired \/ RS1 \in mine.matches \cap mine.cached)
      BY <1>2 DEF QuietFit
    <2>2. Wrongs(mine) = {}
      <3>1. mine.matches \subseteq {RS1, RS2} /\ mine.cached \subseteq {RS1, RS2}
        BY <1>1 DEF SessionType
      <3> QED BY <2>1, <3>1 DEF Wrongs
    <2> QED BY <2>1, <2>2 DEF Alert
  <1>9. StoreFit(n, s, has, other) /\ StoreFit(cache[p], other, Has(p), s)
    <2>1. has => IF keep[calls] THEN n.curr = new ELSE n.expired
      BY <1>5, <1>7, <1>n
    <2> QED BY <1>2, <1>6, <2>1 DEF StoreFit
  <1>10. LoadedFit(e, n, s, other) /\ LoadedFit(p, cache[p], other, s)
    BY <1>6 DEF LoadedFit
  <1>11. NearFit(n, has, cache[p], Has(p)) /\ NearFit(cache[p], Has(p), n, has)
    BY <1>5, <1>8 DEF NearFit, StoreNow
  <1>12. QuietFit(s)
    BY <1>6, <1>8 DEF QuietFit
  <1>13. Even(calls - 1) => Before(n, has) = Before(cache[e], Has(e))
    <2> SUFFICES ASSUME Even(calls - 1) PROVE Before(n, has) = cache[e].curr
      BY <1>4 DEF Before
    <2>1. m.curr # NONE /\ has
      BY <1>2, <1>4, <1>5, <1>8 DEF EvenFit, Before, StoreNow
    <2>2. mine.rs1 = m.curr
      BY <2>1, Both DEF LoadFit, Open
    <2>3. CASE keep[calls]
      <3>1. n = CachePut(m, new, FALSE)
        BY <1>n, <1>5, <2>1, <2>3
      <3> HIDE DEF new
      <3>2. CachePut(m, new, FALSE).prev = IF m.curr = NONE THEN m.prev ELSE m.curr
        BY ONLY <1>7
      <3>3. n.prev = m.curr
        BY <2>1, <3>1, <3>2
      <3> QED BY <2>1, <2>3, <3>3 DEF Before
    <2>4. CASE ~keep[calls]
      <3>1. n = CachePut(m, mine.rs1, TRUE)
        BY <1>n, <2>4
      <3>2. n.curr = m.curr
        BY <1>7, <2>2, <3>1
      <3> QED BY <2>4, <3>2 DEF Before
    <2> QED BY <2>3, <2>4
  <1>14. EvenFit(n, has, cache[p], Has(p)) /\ EvenFit(cache[p], Has(p), n, has)
    BY <1>2, <1>13 DEF EvenFit
  <1>15. CallFits(e, n, s, has) /\ PeerCallFits(e, n, s, has)
    BY <1>9, <1>10, <1>11, <1>12, <1>14 DEF CallFits, PeerCallFits
  <1> QED BY <1>3, <1>5, <1>h, <1>15, StoreTurnKeeps

LEMMA Confirm2Alarm ==
    ASSUME SecretsInv, AlarmInv, losses = 0, NEW c \in 1..calls, Confirm2(c)
    PROVE  AlarmInv'
  <1>1. c \in Calls /\ initiator[c] \in Endpoints
    BY SecretsAssumption DEF SecretsInv, TypeOK, OneCall, Calls
  <1>e. PICK e \in Endpoints : e = Peer(initiator[c]) /\ Peer(e) = initiator[c]
    BY <1>1, PeerIsTheOther
  <1>2. sess[e][c].phase = "derived" /\ sess[Peer(e)][c].phase = "confirmed"
    BY <1>e DEF Confirm2
  <1>3. c = calls /\ calls # 0
    BY <1>1, <1>2, LiveIsLast
  <1>4. sess[e][calls].alert = FALSE
    BY <1>2, <1>3, Both, Now DEF TypesFit, SessionType
  <1>v. PICK v \in BOOLEAN : v = confirmV[Peer(e)][c]
    BY <1>1, <1>e DEF SecretsInv, TypeOK
  <1>m. PICK m : m = ProcessV(e, v)
    OBVIOUS
  <1>5. /\ m \in EntryType /\ m.curr = cache[e].curr /\ m.prev = cache[e].prev
        /\ SessionsAfterV(e, v) = sess[e] /\ StoredByV(e, v) = {}
    BY <1>3, <1>4, <1>m, Processed, ProcessedStores
  <1>6. EnterSecure(e, calls, sess[e][calls], m, sess[e])
    BY <1>e, <1>v, <1>3, <1>m, <1>5 DEF Confirm2
  <1>7. stored' = [stored EXCEPT ![e] = stored[e] \cup StoredNow(calls, sess[e][calls])]
    <2>1. stored' = [stored EXCEPT ![e] =
                        stored[e] \cup StoredByV(e, v) \cup StoredNow(c, sess[e][c])]
      BY <1>e, <1>v, <1>5 DEF Confirm2
    <2>2. stored[e] \cup StoredByV(e, v) = stored[e]
      BY <1>5
    <2> QED BY <1>3, <2>1, <2>2
  <1>8. calls' = calls /\ keep' = keep /\ losses' = losses
    BY DEF Confirm2
  <1> QED BY <1>2, <1>3, <1>5, <1>6, <1>7, <1>8, SecureAlarm

LEMMA Conf2AckAlarm ==
    ASSUME SecretsInv, AlarmInv, losses = 0, NEW c \in 1..calls, Conf2Ack(c)
    PROVE  AlarmInv'
  <1>1. c \in Calls /\ initiator[c] \in Endpoints
    BY SecretsAssumption DEF SecretsInv, TypeOK, OneCall, Calls
  <1>e. PICK e \in Endpoints : e = initiator[c]
    BY <1>1
  <1>2. sess[e][c].phase = "confirmed" /\ sess[Peer(e)][c].phase = "secure"
    BY <1>e DEF Conf2Ack
  <1>3. c = calls /\ calls # 0
    BY <1>1, <1>2, LiveIsLast
  <1>4. cache[e] \in EntryType
    BY <1>3, Now
  <1>5. EnterSecure(e, calls, sess[e][calls], cache[e], sess[e])
    BY <1>e, <1>3 DEF Conf2Ack
  <1>6. stored' = [stored EXCEPT ![e] = stored[e] \cup StoredNow(calls, sess[e][calls])]
    BY <1>e, <1>3 DEF Conf2Ack
  <1>7. calls' = calls /\ keep' = keep /\ losses' = losses
    BY DEF Conf2Ack
  <1> QED BY <1>2, <1>3, <1>4, <1>5, <1>6, <1>7, SecureAlarm

\* A turn of an endpoint in SECURE.  It puts a secret only after an alert.
LEMMA SetAlarm ==
    ASSUME SecretsInv, AlarmInv, losses = 0, calls # 0, NEW e \in Endpoints,
           NEW n, NEW s, NEW st, StoreTurn(e, n, s, st),
           sess[e][calls].phase = "secure", NEW put \in BOOLEAN,
           ~put => /\ n.curr = cache[e].curr /\ n.prev = cache[e].prev
                   /\ n.expired = cache[e].expired /\ st = stored[e],
           put => /\ sess[e][calls].alert
                  /\ n.curr = sess[e][calls].rs1 /\ n.expired = sess[e][calls].expired
                  /\ st = stored[e] \cup {calls},
           s = [sess[e][calls] EXCEPT !.alert = s.alert],
           s.alert => sess[e][calls].alert \/ sess[e][calls].wrongs # {}
    PROVE  AlarmInv'
  <1> DEFINE p == Peer(e)
             mine == sess[e][calls]
             other == sess[p][calls]
  <1>1. mine \in SessionType /\ calls \in Calls
    BY Now
  <1>2. /\ StoreFit(cache[e], mine, Has(e), other) /\ StoreFit(cache[p], other, Has(p), mine)
        /\ LoadedFit(e, cache[e], mine, other) /\ QuietFit(mine)
        /\ (Even(calls - 1) => Near(calls - 1))
    BY BothCalls
  <1>3. /\ s.phase = "secure" /\ s.rs1 = mine.rs1 /\ s.expired = mine.expired
        /\ s.wrongs = mine.wrongs
    BY <1>1 DEF SessionType
  <1>4. other.phase \notin {"new", "ready"}
    BY Both DEF CoverFit
  <1>5. QuietFit(s)
    BY <1>2, <1>3 DEF QuietFit
  <1>6. LoadedFit(e, n, s, other) /\ LoadedFit(p, cache[p], other, s)
    BY <1>3, <1>4 DEF LoadedFit
  <1>7. StoreFit(cache[p], other, Has(p), s)
    BY <1>2, <1>3 DEF StoreFit
  <1>8. CASE ~put
    <2>1. StoreFit(n, s, Has(e), other)
      BY <1>2, <1>3, <1>4, <1>8 DEF StoreFit
    <2> QED BY <1>5, <1>6, <1>7, <1>8, <2>1, QuietTurn
  <1>9. CASE put
    <2>1. ~Near(calls - 1) /\ ~Even(calls - 1)
      BY <1>2, <1>9 DEF QuietFit
    <2>2. StoreFit(n, s, TRUE, other)
      BY <1>2, <1>3, <1>4, <1>9 DEF StoreFit
    <2>3. CallFits(e, n, s, TRUE) /\ PeerCallFits(e, n, s, TRUE)
      BY <1>5, <1>6, <1>7, <2>1, <2>2 DEF CallFits, PeerCallFits, EvenFit, NearFit
    <2>4. TRUE = (calls \in st) /\ stored[e] \subseteq st /\ st \subseteq stored[e] \cup {calls}
      BY <1>9
    <2> QED BY <2>3, <2>4, StoreTurnKeeps
  <1> QED BY <1>8, <1>9

LEMMA MultistreamAlarm ==
    ASSUME SecretsInv, AlarmInv, losses = 0, NEW e \in Endpoints, NEW c \in 1..calls,
           Multistream(e, c)
    PROVE  AlarmInv'
  <1> DEFINE mine == sess[e][calls]
  <1>1. c \in Calls /\ sess[e][c].phase = "secure"
    BY SecretsAssumption DEF SecretsInv, TypeOK, Calls, Multistream
  <1>2. c = calls /\ calls # 0
    BY <1>1, LiveIsLast
  <1>3. /\ mine \in SessionType /\ calls \in Calls /\ mine.phase = "secure"
        /\ sess[e] \in [Calls -> SessionType] /\ Peer(e) \in Endpoints
    BY <1>1, <1>2, Now, PeerIsTheOther
  <1>v. PICK v \in BOOLEAN : v = cache[Peer(e)].verified
    BY <1>3 DEF SecretsInv, TypeOK
  <1>n. PICK n : n = ProcessV(e, v)
    OBVIOUS
  <1>p. PICK put \in BOOLEAN : put = (~v /\ mine.alert)
    OBVIOUS
  <1>t. PICK st : st = stored[e] \cup StoredByV(e, v)
    OBVIOUS
  <1>b. PICK b \in BOOLEAN : b = ((IF v THEN mine.alert ELSE FALSE) \/ mine.wrongs # {})
    OBVIOUS
  <1>s. PICK s : s = [mine EXCEPT !.alert = b]
    OBVIOUS
  <1>4. /\ ~put => n.curr = cache[e].curr /\ n.prev = cache[e].prev
        /\ put => n.curr = mine.rs1
        /\ SessionsAfterV(e, v) = [sess[e] EXCEPT ![calls].alert = IF v THEN mine.alert ELSE FALSE]
    BY <1>2, <1>n, <1>p, Processed
  <1>5. /\ n.expired = IF put THEN mine.expired ELSE cache[e].expired
        /\ st = IF put THEN stored[e] \cup {calls} ELSE stored[e]
    <2>1. /\ ProcessV(e, v).expired = IF ~v /\ mine.alert THEN mine.expired ELSE cache[e].expired
          /\ StoredByV(e, v) = IF ~v /\ mine.alert THEN {calls} ELSE {}
      BY <1>2, ProcessedStores
    <2>2. CASE put
      BY <1>n, <1>p, <1>t, <2>1, <2>2
    <2>3. CASE ~put
      BY <1>n, <1>p, <1>t, <2>1, <2>3
    <2> QED BY <2>2, <2>3
  <1>6. s.alert = b /\ s = [mine EXCEPT !.alert = s.alert]
    BY <1>3, <1>s DEF SessionType
  <1>7. StoreTurn(e, n, s, st)
    <2>1. cache' = [cache EXCEPT ![e] = n]
      BY <1>v, <1>n DEF Multistream
    <2>2. sess' = [sess EXCEPT ![e] = [sess[e] EXCEPT ![calls] = s]]
      <3>1. sess' = [sess EXCEPT ![e] =
               [SessionsAfterV(e, v) EXCEPT
                   ![calls].alert = SessionsAfterV(e, v)[calls].alert \/ mine.wrongs # {}]]
        BY <1>2, <1>v DEF Multistream
      <3>2. SessionsAfterV(e, v)[calls] = [mine EXCEPT !.alert = IF v THEN mine.alert ELSE FALSE]
        BY <1>3, <1>4
      <3>3. SessionsAfterV(e, v)[calls].alert = (IF v THEN mine.alert ELSE FALSE)
        BY <1>3, <3>2 DEF SessionType
      <3>4. [SessionsAfterV(e, v) EXCEPT
               ![calls].alert = SessionsAfterV(e, v)[calls].alert \/ mine.wrongs # {}]
            = [SessionsAfterV(e, v) EXCEPT ![calls] = [SessionsAfterV(e, v)[calls] EXCEPT !.alert = b]]
        BY <1>b, <3>3
      <3>5. [SessionsAfterV(e, v)[calls] EXCEPT !.alert = b] = s
        BY <1>3, <1>s, <3>2 DEF SessionType
      <3>6. [SessionsAfterV(e, v) EXCEPT ![calls] = s] = [sess[e] EXCEPT ![calls] = s]
        BY <1>3, <1>4
      <3> QED BY <3>1, <3>4, <3>5, <3>6
    <2>3. stored' = [stored EXCEPT ![e] = st]
      BY <1>v, <1>t DEF Multistream
    <2> QED BY <2>1, <2>2, <2>3 DEF StoreTurn, Multistream
  <1>8. put => mine.alert
    BY <1>p
  <1>9. s.alert => mine.alert \/ mine.wrongs # {}
    <2>1. b => mine.alert \/ mine.wrongs # {}
      BY <1>b
    <2> QED BY <1>6, <2>1
  <1> QED BY <1>2, <1>3, <1>4, <1>5, <1>6, <1>7, <1>8, <1>9, SetAlarm

LEMMA VerifyAlarm ==
    ASSUME SecretsInv, AlarmInv, losses = 0, NEW e \in Endpoints, NEW c \in 1..calls,
           NEW v \in BOOLEAN, Verify(e, c, v)
    PROVE  AlarmInv'
  <1> DEFINE mine == sess[e][calls]
  <1>1. c \in Calls /\ sess[e][c].phase = "secure"
    BY SecretsAssumption DEF SecretsInv, TypeOK, Calls, Verify
  <1>2. c = calls /\ calls # 0
    BY <1>1, LiveIsLast
  <1>3. mine \in SessionType /\ calls \in Calls /\ mine.phase = "secure"
    BY <1>1, <1>2, Now
  <1>n. PICK n : n = AfterVerifiedSet(e, v)
    OBVIOUS
  <1>p. PICK put \in BOOLEAN : put = mine.alert
    BY <1>3 DEF SessionType
  <1>t. PICK st : st = stored[e] \cup Alerted(e)
    OBVIOUS
  <1>s. PICK s : s = [mine EXCEPT !.alert = FALSE]
    OBVIOUS
  <1>4. /\ n.curr = IF mine.alert THEN mine.rs1 ELSE cache[e].curr
        /\ n.prev = IF mine.alert /\ cache[e].curr # NONE THEN cache[e].curr ELSE cache[e].prev
        /\ n.expired = IF mine.alert THEN mine.expired ELSE cache[e].expired
        /\ Alerted(e) = IF mine.alert THEN {calls} ELSE {}
    BY <1>2, <1>n, AfterSet, AfterSetStores
  <1>5. ~put => /\ n.curr = cache[e].curr /\ n.prev = cache[e].prev
                /\ n.expired = cache[e].expired /\ st = stored[e]
    BY <1>4, <1>p, <1>t
  <1>6. put => /\ mine.alert /\ n.curr = mine.rs1 /\ n.expired = mine.expired
               /\ st = stored[e] \cup {calls}
    BY <1>4, <1>p, <1>t
  <1>7. s.alert = FALSE /\ s = [mine EXCEPT !.alert = s.alert]
    BY <1>3, <1>s DEF SessionType
  <1>8. StoreTurn(e, n, s, st)
    <2>1. cache' = [cache EXCEPT ![e] = n] /\ stored' = [stored EXCEPT ![e] = st]
      BY <1>n, <1>t DEF Verify
    <2>2. sess' = [sess EXCEPT ![e] = [sess[e] EXCEPT ![calls] = s]]
      <3>1. sess' = [sess EXCEPT ![e] = [sess[e] EXCEPT ![calls].alert = FALSE]]
        BY <1>2, AlertIsLast DEF Verify
      <3> QED BY <1>s, <3>1
    <2> QED BY <2>1, <2>2 DEF StoreTurn, Verify
  <1> QED BY <1>2, <1>3, <1>5, <1>6, <1>7, <1>8, SetAlarm

LEMMA EndAlarm ==
    ASSUME SecretsInv, AlarmInv, losses = 0, NEW e \in Endpoints, NEW c \in 1..calls, End(e, c)
    PROVE  AlarmInv'
  <1> DEFINE p == Peer(e)
             mine == sess[e][calls]
             other == sess[p][calls]
  <1>1. c \in Calls /\ sess[e][c].phase \notin {"none", "down"}
    BY SecretsAssumption DEF SecretsInv, TypeOK, Calls, End, Live
  <1>2. c = calls /\ calls # 0
    BY <1>1, LiveIsLast
  <1>3. mine \in SessionType /\ calls \in Calls
    BY <1>2, Now
  <1>s. PICK s : s = [mine EXCEPT !.phase = "down", !.alert = FALSE]
    OBVIOUS
  <1>n. PICK n : n = cache[e]
    OBVIOUS
  <1>4. /\ s.phase = "down" /\ s.alert = FALSE /\ s.wrongs = mine.wrongs
        /\ s.rs1 = mine.rs1 /\ s.rs2 = mine.rs2
    BY <1>3, <1>s DEF SessionType
  <1>5. StoreTurn(e, n, s, stored[e])
    <2>1. cache' = [cache EXCEPT ![e] = n] /\ stored' = [stored EXCEPT ![e] = stored[e]]
      BY <1>n DEF End, SecretsInv, TypeOK
    <2>2. sess' = [sess EXCEPT ![e] = [sess[e] EXCEPT ![calls] = s]]
      BY <1>2, <1>3, <1>s DEF End, SecretsInv, TypeOK
    <2> QED BY <2>1, <2>2 DEF StoreTurn, End
  <1>6. /\ StoreFit(cache[e], mine, Has(e), other) /\ StoreFit(cache[p], other, Has(p), mine)
        /\ LoadedFit(e, cache[e], mine, other) /\ LoadedFit(p, cache[p], other, mine)
        /\ QuietFit(mine)
    BY <1>2, BothCalls
  <1>7. StoreFit(n, s, Has(e), other) /\ StoreFit(cache[p], other, Has(p), s)
    BY <1>4, <1>6, <1>n DEF StoreFit
  <1>8. LoadedFit(e, n, s, other) /\ LoadedFit(p, cache[p], other, s)
    BY <1>4, <1>6, <1>n DEF LoadedFit
  <1>9. QuietFit(s)
    BY <1>4, <1>6 DEF QuietFit
  <1> QED BY <1>2, <1>5, <1>n, <1>7, <1>8, <1>9, QuietTurn

\* What a call leaves to the next one.
LEMMA NextCallFits ==
    ASSUME SecretsInv, AlarmInv, losses = 0, NEW e \in Endpoints
    PROVE  LET mine == cache[e]
               yours == cache[Peer(e)]
           IN  /\ Even(calls) => mine.curr = yours.curr /\ mine.curr # NONE
               /\ Near(calls) => Agree(mine, yours)
  <1> DEFINE p == Peer(e)
             mine == cache[e]
             yours == cache[p]
             new == <<"call", calls>>
  <1>1. CASE calls = 0
    <2>1. ~Even(calls) /\ ~Near(calls)
      BY <1>1 DEF Even, Near
    <2> QED BY <2>1
  <1>2. CASE calls # 0
    <2>1. /\ StoreFit(mine, sess[e][calls], Has(e), sess[p][calls])
          /\ StoreFit(yours, sess[p][calls], Has(p), sess[e][calls])
          /\ EvenFit(mine, Has(e), yours, Has(p)) /\ NearFit(mine, Has(e), yours, Has(p))
          /\ calls \in Calls /\ calls \in Nat
      BY <1>2, BothCalls, Now
    <2>2. p \in Endpoints /\ \A x \in Endpoints : x = e \/ x = p
      BY PeerIsTheOther
    <2>3. /\ BothSides(calls) <=> keep[calls] /\ Has(e) /\ Has(p)
          /\ OneSided(calls) <=> Has(e) # Has(p)
      <3>1. Has(e) \in BOOLEAN /\ Has(p) \in BOOLEAN
        BY DEF Has
      <3>2. BothSides(calls) <=> keep[calls] /\ Has(e) /\ Has(p)
        BY <2>2 DEF BothSides, Has
      <3>3. OneSided(calls) <=> (Has(e) /\ ~Has(p)) \/ (Has(p) /\ ~Has(e))
        BY <2>2 DEF OneSided, Has
      <3> QED BY <3>1, <3>2, <3>3
    <2>4. new # NONE /\ Has(e) \in BOOLEAN /\ Has(p) \in BOOLEAN /\ keep[calls] \in BOOLEAN
      BY <2>1, CallNames DEF Has, SecretsInv, TypeOK
    <2>5. CASE BothSides(calls)
      <3>1. mine.curr = new /\ yours.curr = new
        BY <2>1, <2>3, <2>5 DEF StoreFit
      <3> QED BY <2>4, <3>1 DEF Agree
    <2>6. CASE ~BothSides(calls)
      <3>1. /\ Even(calls) => ~OneSided(calls) /\ Even(calls - 1)
            /\ (Near(calls) /\ ~OneSided(calls)) => Near(calls - 1)
            /\ (Near(calls) /\ OneSided(calls)) => Even(calls - 1)
        BY <1>2, <2>1, <2>6, LastCall
      <3>2. ASSUME ~OneSided(calls), Has(e) PROVE ~keep[calls] /\ mine.expired
        <4>1. Has(p) /\ ~keep[calls]
          BY <2>3, <2>4, <2>6, <3>2
        <4> QED BY <2>1, <3>2, <4>1 DEF StoreFit
      <3>3. ASSUME ~OneSided(calls) PROVE Before(mine, Has(e)) = mine.curr
                                          /\ Before(yours, Has(p)) = yours.curr
        <4>1. CASE Has(e)
          BY <3>2, <3>3, <4>1 DEF Before
        <4>2. CASE ~Has(e)
          BY <2>3, <2>4, <3>3, <4>2 DEF Before
        <4> QED BY <4>1, <4>2
      <3>4. ASSUME Even(calls) PROVE mine.curr = yours.curr /\ mine.curr # NONE
        BY <2>1, <3>1, <3>3, <3>4 DEF EvenFit
      <3>5. ASSUME Near(calls), ~OneSided(calls) PROVE Agree(mine, yours)
        <4>1. CASE Has(e)
          BY <3>2, <3>5, <4>1 DEF Agree
        <4>2. CASE ~Has(e)
          <5>1. ~Has(p)
            BY <2>3, <2>4, <3>5, <4>2
          <5> QED BY <2>1, <3>1, <3>5, <4>2, <5>1 DEF NearFit
        <4> QED BY <4>1, <4>2
      <3>6. ASSUME Near(calls), OneSided(calls) PROVE Agree(mine, yours)
        <4>1. Before(mine, Has(e)) = Before(yours, Has(p)) /\ Before(mine, Has(e)) # NONE
          BY <2>1, <3>1, <3>6 DEF EvenFit
        <4>2. CASE Has(e)
          <5>1. ~Has(p)
            BY <2>3, <2>4, <3>6, <4>2
          <5>2. CASE keep[calls]
            <6>1. mine.prev = yours.curr /\ mine.prev # NONE /\ mine.curr = new
              BY <2>1, <4>1, <4>2, <5>1, <5>2 DEF Before, StoreFit
            <6> QED BY <2>4, <6>1 DEF Agree
          <5>3. CASE ~keep[calls]
            BY <2>1, <4>2, <5>3 DEF Agree, StoreFit
          <5> QED BY <5>2, <5>3
        <4>3. CASE ~Has(e)
          <5>1. Has(p)
            BY <2>3, <2>4, <3>6, <4>3
          <5>2. mine.curr \in {yours.curr, yours.prev} /\ mine.curr # NONE
            BY <4>1, <4>3, <5>1 DEF Before
          <5> QED BY <5>2 DEF Agree
        <4> QED BY <4>2, <4>3
      <3> QED BY <3>4, <3>5, <3>6
    <2> QED BY <2>5, <2>6
  <1> QED BY <1>1, <1>2

LEMMA BeginAlarm ==
    ASSUME SecretsInv, AlarmInv, losses = 0, NEW i \in Endpoints, NEW k \in Keeps, Begin(i, k)
    PROVE  AlarmInv'
  <1> DEFINE next == calls + 1
             first == [Unused EXCEPT !.phase = "new"]
  <1>1. /\ calls \in Nat /\ calls' = next /\ next \in Calls /\ next # 0 /\ next - 1 = calls
        /\ cache' = cache /\ stored' = stored /\ losses' = losses
        /\ keep' = [keep EXCEPT ![next] = k] /\ keep \in [Calls -> BOOLEAN]
    BY SecretsAssumption DEF Begin, SecretsInv, TypeOK, Calls
  <1>2. /\ first.phase = "new" /\ first.alert = FALSE /\ first.rs1 = NONE /\ first.wrongs = {}
    BY DEF Unused
  <1>3. \A e \in Endpoints : /\ sess'[e][next] = first
                             /\ \A c \in Calls : c # next => sess'[e][c] = sess[e][c]
    <2> TAKE e \in Endpoints
    <2>1. sess[e] \in [Calls -> SessionType] /\ sess[e][next] = Unused
      BY <1>1 DEF SecretsInv, TypeOK, SessionType, OneCall
    <2>2. sess'[e] = [sess[e] EXCEPT ![next].phase = "new"]
      BY <1>1 DEF Begin
    <2>3. sess'[e] = [sess[e] EXCEPT ![next] = first]
      BY <1>1, <2>1, <2>2
    <2> HIDE DEF next, first
    <2> QED BY <1>1, <2>1, <2>3
  <1> HIDE DEF first
  <1>4. \A e \in Endpoints : stored[e] \subseteq 1..calls
    BY DEF AlarmInv
  <1>5. \A j \in Nat : j < next => (Near(j)' <=> Near(j)) /\ (Even(j)' <=> Even(j))
    <2> SUFFICES ASSUME NEW j \in Nat, j < next
                 PROVE  (Near(j)' <=> Near(j)) /\ (Even(j)' <=> Even(j))
      OBVIOUS
    <2>1. \A c \in 1..j : keep'[c] = keep[c]
      <3> SUFFICES ASSUME NEW c \in 1..j PROVE keep'[c] = keep[c]
        OBVIOUS
      <3>1. c # next /\ c \in Calls
        BY <1>1, SecretsAssumption DEF Calls
      <3> QED BY <1>1, <3>1
    <2>2. next \in Nat
      BY <1>1
    <2>3. \A e \in Endpoints, c \in 1..j : c \in stored'[e] <=> c \in stored[e]
      BY <1>1
    <2> QED BY <2>1, <2>2, <2>3, PastStays
  <1>6. \A e \in Endpoints : stored'[e] \subseteq 1..next
    BY <1>1, <1>4
  <1>7. \A e \in Endpoints, c \in Calls : (c < next /\ Near(c - 1)') => sess'[e][c].wrongs = {}
    <2> SUFFICES ASSUME NEW e \in Endpoints, NEW c \in Calls, c < next, Near(c - 1)'
                 PROVE  sess'[e][c].wrongs = {}
      OBVIOUS
    <2>1. c - 1 \in Nat /\ c - 1 < next /\ c # next /\ (c < calls \/ c = calls) /\ calls # 0
      BY <1>1 DEF Calls
    <2>2. Near(c - 1) /\ sess'[e][c] = sess[e][c]
      BY <1>3, <1>5, <2>1
    <2>3. CASE c < calls
      BY <2>2, <2>3 DEF AlarmInv
    <2>4. CASE c = calls
      BY <2>1, <2>2, <2>4, BothCalls DEF QuietFit
    <2> QED BY <2>1, <2>3, <2>4
  <1>8. \A e \in Endpoints : CallFits(e, cache[e], sess[e][calls], Has(e))'
    <2> TAKE e \in Endpoints
    <2> DEFINE p == Peer(e)
    <2>1. p \in Endpoints
      BY PeerIsTheOther
    <2>2. sess'[e][calls'] = first /\ sess'[p][calls'] = first
      BY <1>1, <1>3, <2>1
    <2>3. ~Has(e)' /\ ~Has(p)'
      <3>1. next \notin 1..calls
        BY <1>1
      <3> QED BY <1>1, <1>4, <2>1, <3>1 DEF Has
    <2>4. (Near(calls - 1)' <=> Near(calls)) /\ (Even(calls - 1)' <=> Even(calls))
      <3>n. PICK n \in Nat : n = calls
        BY <1>1
      <3>1. n < next /\ (calls - 1)' = n
        BY <1>1, <3>n
      <3>2. (Near(n)' <=> Near(n)) /\ (Even(n)' <=> Even(n))
        BY <1>5, <3>1
      <3>3. (Near(calls - 1)' <=> Near(n)') /\ (Even(calls - 1)' <=> Even(n)')
        BY <3>1 DEF Near, Even, Broken
      <3> QED BY <3>2, <3>3, <3>n
    <2>5. /\ Even(calls) => cache[e].curr = cache[p].curr /\ cache[e].curr # NONE
          /\ Near(calls) => Agree(cache[e], cache[p])
      BY NextCallFits
    <2>6. /\ StoreFit(cache[e], sess[e][calls], Has(e), sess[p][calls])'
          /\ LoadedFit(e, cache[e], sess[e][calls], sess[p][calls])'
      BY <1>2, <2>2, <2>3 DEF StoreFit, LoadedFit
    <2>7. EvenFit(cache[e], Has(e), cache[p], Has(p))'
      BY <1>1, <2>3, <2>4, <2>5 DEF EvenFit, Before
    <2>8. NearFit(cache[e], Has(e), cache[p], Has(p))'
      BY <1>1, <2>4, <2>5 DEF NearFit, Agree
    <2>9. QuietFit(sess[e][calls])'
      BY <1>2, <2>2 DEF QuietFit
    <2> QED BY <2>6, <2>7, <2>8, <2>9 DEF CallFits
  <1> QED BY <1>1, <1>6, <1>7, <1>8 DEF AlarmInv

LEMMA LoseCacheAlarm ==
    ASSUME SecretsInv, NEW e \in Endpoints, LoseCache(e)
    PROVE  AlarmInv'
  <1>1. losses \in 0..MaxLosses
    BY DEF SecretsInv, TypeOK
  <1>2. losses' = losses + 1
    BY DEF LoseCache
  <1>3. losses' # 0
    BY <1>1, <1>2
  <1> QED BY <1>3 DEF AlarmInv

LEMMA InitAlarm == Init => AlarmInv
  <1> SUFFICES ASSUME Init PROVE AlarmInv
    OBVIOUS
  <1>1. \A e \in Endpoints : stored[e] = {}
    BY DEF Init
  <1>2. calls = 0 /\ \A c \in Calls : ~(c < 0)
    BY DEF Init, Calls
  <1> QED BY <1>1, <1>2 DEF AlarmInv

LEMMA StutterAlarm == AlarmInv /\ UNCHANGED vars => AlarmInv'
  <1> SUFFICES ASSUME AlarmInv, UNCHANGED vars PROVE AlarmInv'
    OBVIOUS
  <1>1. /\ cache' = cache /\ calls' = calls /\ keep' = keep /\ sess' = sess
        /\ losses' = losses /\ stored' = stored
    BY DEF vars
  <1>2. \A k : (Near(k)' <=> Near(k)) /\ (Even(k)' <=> Even(k))
    BY <1>1 DEF Near, Even, Broken, BothSides, OneSided
  <1>3. (Near(calls - 1)' <=> Near(calls - 1)) /\ (Even(calls - 1)' <=> Even(calls - 1))
    BY <1>1 DEF Near, Even, Broken, BothSides, OneSided
  <1>4. \A e \in Endpoints : CallFits(e, cache[e], sess[e][calls], Has(e))' <=>
                            CallFits(e, cache[e], sess[e][calls], Has(e))
    <2> TAKE e \in Endpoints
    <2>1. /\ StoreFit(cache[e], sess[e][calls], Has(e), sess[Peer(e)][calls])' <=>
             StoreFit(cache[e], sess[e][calls], Has(e), sess[Peer(e)][calls])
          /\ LoadedFit(e, cache[e], sess[e][calls], sess[Peer(e)][calls])' <=>
             LoadedFit(e, cache[e], sess[e][calls], sess[Peer(e)][calls])
      BY <1>1 DEF StoreFit, LoadedFit, Has
    <2>2. EvenFit(cache[e], Has(e), cache[Peer(e)], Has(Peer(e)))' <=>
          EvenFit(cache[e], Has(e), cache[Peer(e)], Has(Peer(e)))
      BY <1>1, <1>3 DEF EvenFit, Before, Has
    <2>3. NearFit(cache[e], Has(e), cache[Peer(e)], Has(Peer(e)))' <=>
          NearFit(cache[e], Has(e), cache[Peer(e)], Has(Peer(e)))
      BY <1>1, <1>3 DEF NearFit, Agree, Has
    <2>4. QuietFit(sess[e][calls])' <=> QuietFit(sess[e][calls])
      BY <1>1, <1>3 DEF QuietFit
    <2> QED BY <2>1, <2>2, <2>3, <2>4 DEF CallFits
  <1> QED BY <1>1, <1>2, <1>4 DEF AlarmInv

LEMMA NextAlarm ==
    ASSUME SecretsInv, AlarmInv, Next
    PROVE  AlarmInv'
  <1>1. CASE losses # 0
    <2>1. losses \in 0..MaxLosses
      BY DEF SecretsInv, TypeOK
    <2>2. losses' = losses \/ losses' = losses + 1
      <3>1. ASSUME NEW i \in Endpoints, NEW k \in Keeps, Begin(i, k) PROVE losses' = losses
        BY <3>1 DEF Begin
      <3>2. ASSUME NEW c \in 1..calls, Confirm1(c) \/ Confirm2(c) \/ Conf2Ack(c)
            PROVE  losses' = losses
        BY <3>2 DEF Confirm1, Confirm2, Conf2Ack
      <3>3. ASSUME NEW e \in Endpoints, NEW c \in 1..calls,
                   Prepare(e, c) \/ Derive(e, c) \/ Multistream(e, c) \/ End(e, c)
            PROVE  losses' = losses
        BY <3>3 DEF Prepare, Derive, Multistream, End
      <3>4. ASSUME NEW e \in Endpoints, NEW c \in 1..calls, NEW v \in BOOLEAN, Verify(e, c, v)
            PROVE  losses' = losses
        BY <3>4 DEF Verify
      <3>5. ASSUME NEW e \in Endpoints, LoseCache(e) PROVE losses' = losses + 1
        BY <3>5 DEF LoseCache
      <3> QED BY <3>1, <3>2, <3>3, <3>4, <3>5 DEF Next
    <2>3. losses' # 0
      BY <1>1, <2>1, <2>2
    <2> QED BY <2>3 DEF AlarmInv
  <1>2. CASE losses = 0
    <2>1. CASE \E i \in Endpoints, k \in Keeps : Begin(i, k)
      BY <1>2, <2>1, BeginAlarm
    <2>2. CASE \E c \in 1..calls : Confirm1(c) \/ Confirm2(c) \/ Conf2Ack(c)
      BY <1>2, <2>2, Confirm1Alarm, Confirm2Alarm, Conf2AckAlarm
    <2>3. CASE \E e \in Endpoints, c \in 1..calls :
                  \/ Prepare(e, c) \/ Derive(e, c) \/ Multistream(e, c) \/ End(e, c)
                  \/ \E v \in BOOLEAN : Verify(e, c, v)
      BY <1>2, <2>3, PrepareAlarm, DeriveAlarm, MultistreamAlarm, EndAlarm, VerifyAlarm
    <2>4. CASE \E e \in Endpoints : LoseCache(e)
      BY <2>4, LoseCacheAlarm
    <2> QED BY <2>1, <2>2, <2>3, <2>4 DEF Next
  <1> QED BY <1>1, <1>2

\* While no cache is lost, after a call that both sides stored the next alert
\* takes two calls that only one side stored: a single one is made good by rs2,
\* and calls that neither stored, or both with a ttl of 0, count for nothing.
THEOREM NoAlarmIsFalse ==
    ASSUME MaxLive = 1
    PROVE  Spec => []NoFalseAlarm
  <1>1. SecretsInv /\ AlarmInv /\ [Next]_vars => AlarmInv'
    BY NextAlarm, StutterAlarm
  <1>2. SecretsInv /\ AlarmInv => NoFalseAlarm
    <2> SUFFICES ASSUME SecretsInv, AlarmInv, NEW e \in Endpoints, NEW c \in Calls,
                        sess[e][c].wrongs # {}, losses = 0,
                        NEW d \in 1..(c - 1), BothSides(d)
                 PROVE  Cardinality({x \in (d + 1)..(c - 1) : OneSided(x)}) > 1
      BY DEF NoFalseAlarm
    <2>1. c \in Nat /\ c - 1 \in Nat /\ d \in Nat /\ calls \in Nat
      BY SecretsAssumption DEF Calls, SecretsInv, TypeOK
    <2>2. c <= calls
      <3>1. c > calls => sess[e][c] = Unused
        BY DEF SecretsInv, OneCall
      <3>2. Unused.wrongs = {}
        BY DEF Unused
      <3> QED BY <2>1, <3>1, <3>2
    <2>3. ~Near(c - 1)
      <3>1. CASE c < calls
        BY <3>1 DEF AlarmInv
      <3>2. CASE c = calls
        <4>1. calls # 0
          BY <3>2 DEF Calls
        <4> QED BY <3>2, <4>1, BothCalls DEF QuietFit
      <3> QED BY <2>1, <2>2, <3>1, <3>2
    <2>4. ~(Cardinality(Broken(d, c - 1)) <= 1)
      BY <2>3 DEF Near
    <2>5. Cardinality(Broken(d, c - 1)) \in Nat
      BY <2>1, BrokenCount
    <2> QED BY <2>4, <2>5 DEF Broken
  <1> QED BY <1>1, <1>2, InitAlarm, SecretsInvariant, PTL DEF Spec

=============================================================================
