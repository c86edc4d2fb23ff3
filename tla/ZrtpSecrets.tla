----------------------------- MODULE ZrtpSecrets -----------------------------
(***************************************************************************)
(* The retained secrets of two endpoints that call each other again and    *)
(* again: what each loads from its cache, how the two agree on the secret  *)
(* that goes into s0, and what each stores when it goes SECURE.            *)
(*                                                                         *)
(* The two sides store at different times, and a call may break in         *)
(* between, so an endpoint keeps the previous secret rs2 beside rs1.       *)
(* Sessions of one pair of endpoints may overlap (a second call before     *)
(* the first is down).  The messages and states of an exchange are those   *)
(* of ZrtpHandshake; here a step is the part of a handler that touches     *)
(* session->secrets or the cache.                                          *)
(*                                                                         *)
(* A secret is named by what it was derived from: <<"call", c>> is the     *)
(* rs1 both sides of call c compute, <<"own", e, c>> and <<"own2", e, c>>  *)
(* the random values of _zrtp_alloc_shared_secret that stand for a missing *)
(* rs1 and rs2.                                                            *)
(***************************************************************************)
EXTENDS Integers, FiniteSets, Folds

CONSTANTS
    Endpoints,     \* two
    MaxCalls,      \* bound on the calls of a behaviour
    MaxLive,       \* bound on the sessions an endpoint has at a time
    MaxLosses,     \* bound on how often a cache is lost
    Keeps,         \* values of keep[c], see below
    NONE

ASSUME SecretsAssumption ==
    /\ IsFiniteSet(Endpoints) /\ Cardinality(Endpoints) = 2
    /\ Keeps \subseteq BOOLEAN
    /\ MaxCalls \in Nat /\ MaxLive \in Nat /\ MaxLosses \in Nat

Peer(e) == CHOOSE f \in Endpoints : f # e

Calls == 1..MaxCalls

\* A missing secret is no secret.
ASSUME NoSecretAssumption ==
    NONE \notin ({"call"} \X Calls) \cup ({"own", "own2"} \X Endpoints \X Calls)

VARIABLES
    cache,       \* cache[e]: the entry e keeps for its peer
    calls,       \* number of calls so far; call c has initiator...
    initiator,   \* ...initiator[c],
    keep,        \* ...and keep[c] says that cache_ttl is not 0 on both sides
    sess,        \* sess[e][c]: the session of e in call c
    confirmV,    \* confirmV[e][c]: V flag of the Confirm e made for the DH stream
    losses,      \* how often a cache was lost
    stored,      \* history: stored[e], the calls in which e has put its rs1
    vouched      \* history: vouched[e], the secrets the user of e has reason to trust

vars == <<cache, calls, initiator, keep, sess, confirmV, losses, stored, vouched>>

RS1 == "rs1"
RS2 == "rs2"

\* An absent entry.
NoEntry == [curr |-> NONE, prev |-> NONE, expired |-> FALSE, verified |-> FALSE]

\* A session that is not there yet, or is down.
Unused == [phase |-> "none", rs1 |-> NONE, rs2 |-> NONE, expired |-> FALSE,
           cached |-> {}, matches |-> {}, wrongs |-> {}, alert |-> FALSE, chosen |-> NONE]

Init ==
    /\ cache = [e \in Endpoints |-> NoEntry]
    /\ calls = 0
    /\ initiator = [c \in Calls |-> NONE]
    /\ keep = [c \in Calls |-> TRUE]
    /\ sess = [e \in Endpoints |-> [c \in Calls |-> Unused]]
    /\ confirmV = [e \in Endpoints |-> [c \in Calls |-> FALSE]]
    /\ losses = 0
    /\ stored = [e \in Endpoints |-> {}]
    /\ vouched = [e \in Endpoints |-> {}]

(***************************************************************************)
(* The cache, as its callers see it (ZrtpCacheFile has the rest)           *)
(***************************************************************************)

\* set_verified of an entry that does not exist does nothing.
SetVerified(entry, v) == [entry EXCEPT !.verified = v /\ entry.curr # NONE]

\* cache_put: the current secret becomes the previous one.
CachePut(entry, secret, expired) ==
    [entry EXCEPT !.prev = IF entry.curr = NONE THEN @ ELSE entry.curr,
                  !.curr = secret, !.expired = expired]

(***************************************************************************)
(* zrtp_verified_set, by the user or for a Confirm whose V flag is 0:      *)
(* for every session with this peer set the flag, and store the rs1 that   *)
(* an alert had kept from the cache.                                       *)
(***************************************************************************)

Alerted(e) == {c \in Calls : sess[e][c].alert}

Oldest(cs) == CHOOSE c \in cs : \A d \in cs : c <= d

\* The sessions are listed newest first, so the oldest one puts last.
PutAlerted(e, entry) ==
    MapThenFoldSet(LAMBDA s, acc : CachePut(acc, s.rs1, s.expired), entry,
                   LAMBDA c : sess[e][c], Oldest, Alerted(e))

\* The whole of zrtp_verified_set, on the cache and the sessions of e.
AfterVerifiedSet(e, v) == PutAlerted(e, SetVerified(cache[e], v))
Acknowledge(sessions) == [c \in Calls |-> [sessions[c] EXCEPT !.alert = FALSE]]

(***************************************************************************)
(* A call                                                                  *)
(***************************************************************************)

Live(e) == {c \in Calls : sess[e][c].phase \notin {"none", "down"}}

\* A new session on both sides; i will send the Commit.
Begin(i, k) ==
    /\ calls < MaxCalls
    /\ \A e \in Endpoints : Cardinality(Live(e)) < MaxLive
    /\ calls' = calls + 1
    /\ initiator' = [initiator EXCEPT ![calls'] = i]
    /\ keep' = [keep EXCEPT ![calls'] = k]
    /\ sess' = [e \in Endpoints |-> [sess[e] EXCEPT ![calls'].phase = "new"]]
    /\ UNCHANGED <<cache, confirmV, losses, stored, vouched>>

\* _zrtp_prepare_secrets, at the Hello of the peer.
Prepare(e, c) ==
    /\ sess[e][c].phase = "new"
    /\ LET entry == cache[e]
           hit1 == entry.curr # NONE
           hit2 == entry.prev # NONE
       IN sess' = [sess EXCEPT ![e][c] =
            [@ EXCEPT !.phase = "ready",
                      !.rs1 = IF hit1 THEN entry.curr ELSE <<"own", e, c>>,
                      !.rs2 = IF hit2 THEN entry.prev ELSE <<"own2", e, c>>,
                      !.expired = entry.expired,
                      !.cached = {r \in {RS1, RS2} : IF r = RS1 THEN hit1 ELSE hit2}]]
    /\ UNCHANGED <<cache, calls, initiator, keep, confirmV, losses, stored, vouched>>

\* Variant: forgets that the peer may have to use its rs2.
ChooseByRs1(mine, yours) ==
    IF mine.rs1 = yours.rs1 THEN mine.rs1
    ELSE IF mine.rs2 \in {yours.rs1, yours.rs2} THEN mine.rs2
    ELSE NONE

\* The secret that _derive_s0 takes from my rs1 and rs2 and the peer's.
Choose(mine, yours) ==
    IF mine.rs1 \in {yours.rs1, yours.rs2} THEN mine.rs1
    ELSE IF mine.rs2 \in {yours.rs1, yours.rs2} THEN mine.rs2
    ELSE NONE

\* Variant: the last branch, for a peer that lost its rs1, is missing.
RS1MatchesDirectly(mine, yours) == mine.rs1 \in {yours.rs1, yours.rs2}

\* My rs1 is known to the peer, or my rs2 is its rs1.
RS1Matches(mine, yours) ==
    mine.rs1 \in {yours.rs1, yours.rs2} \/ mine.rs2 = yours.rs1

\* My rs1 is unknown to the peer, and my rs2 takes its place.
FallsBack(mine, yours) ==
    mine.rs1 \notin {yours.rs1, yours.rs2} /\ mine.rs2 = yours.rs1

\* Variant: no match changes nothing in the cache.
KeepVerified(entry) == entry

\* What no match does to the cache: the verified flag is dropped.
DropVerified(entry) == SetVerified(entry, FALSE)

\* The DHPart of the peer: _derive_s0.  The responder makes its Confirm1 next.
Derive(e, c) ==
    /\ sess[e][c].phase = "ready"
    /\ sess[Peer(e)][c].rs1 # NONE
    /\ LET mine == sess[e][c]
           yours == sess[Peer(e)][c]
           matched == RS1Matches(mine, yours)
       IN /\ sess' = [sess EXCEPT ![e][c] =
                [mine EXCEPT !.phase = "derived",
                             !.chosen = Choose(mine, yours),
                             !.matches = {r \in {RS1, RS2} :
                                IF r = RS1 THEN matched ELSE mine.rs2 = yours.rs2},
                             !.cached = IF FallsBack(mine, yours) THEN @ \cup {RS1} ELSE @]]
          /\ cache' = IF matched THEN cache
                      ELSE [cache EXCEPT ![e] = DropVerified(@)]
          /\ confirmV' = IF e = initiator[c] THEN confirmV
                         ELSE [confirmV EXCEPT ![e][c] = cache'[e].verified]
    /\ UNCHANGED <<calls, initiator, keep, losses, stored, vouched>>

\* The part of _zrtp_machine_process_confirm that touches secrets.
ProcessV(e, v) == IF v THEN cache[e] ELSE AfterVerifiedSet(e, FALSE)
StoredByV(e, v) == IF v THEN {} ELSE Alerted(e)
SessionsAfterV(e, v) == IF v THEN sess[e] ELSE Acknowledge(sess[e])

SameKey(c) == \A e, f \in Endpoints : sess[e][c].chosen = sess[f][c].chosen

\* Confirm1 at the initiator, which makes its Confirm2.
Confirm1(c) ==
    LET i == initiator[c]
        r == Peer(i)
        v == confirmV[r][c]
    IN /\ sess[i][c].phase = "derived"
       /\ sess[r][c].phase = "derived"
       /\ SameKey(c)
       /\ cache' = [cache EXCEPT ![i] = ProcessV(i, v)]
       /\ stored' = [stored EXCEPT ![i] = @ \cup StoredByV(i, v)]
       /\ sess' = [sess EXCEPT ![i] = [SessionsAfterV(i, v) EXCEPT ![c].phase = "confirmed"]]
       /\ confirmV' = [confirmV EXCEPT ![i][c] = cache'[i].verified]
       /\ UNCHANGED <<calls, initiator, keep, losses, vouched>>

\* Variant: a missing rs2 counts as well.
WrongsUnmasked(s) == IF s.expired THEN {} ELSE (s.matches \cup s.cached) \ (s.matches \cap s.cached)

\* The rs1 flags of a session that would be an alert: cached and not matched.
Wrongs(s) ==
    IF s.expired THEN {}
    ELSE ((s.matches \cup s.cached) \ (s.matches \cap s.cached)) \ {RS2}

(***************************************************************************)
(* _zrtp_machine_enter_secure of the DH stream of session s of e, with the *)
(* cache entry it finds.                                                   *)
(***************************************************************************)
Alert(s) == s.alert \/ Wrongs(s) # {}

RollOver(s, c) ==
    [s EXCEPT !.phase = "secure", !.wrongs = Wrongs(s), !.alert = Alert(s),
              !.rs2 = s.rs1, !.rs1 = <<"call", c>>, !.expired = FALSE,
              !.cached = @ \cup {RS1}, !.matches = @ \cup {RS1}]

\* cache_ttl is 0: rs1 stays, with a ttl of 0.
NoRollOver(s) ==
    [s EXCEPT !.phase = "secure", !.wrongs = Wrongs(s), !.alert = Alert(s), !.expired = TRUE]

\* A new secret is stored at once unless there is an alert.
StoreNow(s) == ~Alert(s)

EnterSecure(e, c, s, entry, sessions) ==
    /\ sess' = [sess EXCEPT ![e] =
          [sessions EXCEPT ![c] = IF keep[c] THEN RollOver(s, c) ELSE NoRollOver(s)]]
    /\ cache' = [cache EXCEPT ![e] =
          IF ~keep[c] THEN CachePut(entry, s.rs1, TRUE)
          ELSE IF StoreNow(s) THEN CachePut(entry, <<"call", c>>, FALSE)
          ELSE entry]
    /\ vouched' = [vouched EXCEPT ![e] =
          IF s.chosen \in @ THEN @ \cup {<<"call", c>>} ELSE @]

\* A secret with a ttl of 0 is put in any case.
StoredNow(c, s) == IF keep[c] => StoreNow(s) THEN {c} ELSE {}

\* Confirm2 at the responder.
Confirm2(c) ==
    LET i == initiator[c]
        r == Peer(i)
        v == confirmV[i][c]
        sessions == SessionsAfterV(r, v)
    IN /\ sess[r][c].phase = "derived"
       /\ sess[i][c].phase = "confirmed"
       /\ EnterSecure(r, c, sessions[c], ProcessV(r, v), sessions)
       /\ stored' = [stored EXCEPT ![r] =
              @ \cup StoredByV(r, v) \cup StoredNow(c, sessions[c])]
       /\ UNCHANGED <<calls, initiator, keep, confirmV, losses>>

\* Conf2Ack, or the first media packet, at the initiator.
Conf2Ack(c) ==
    LET i == initiator[c]
    IN /\ sess[i][c].phase = "confirmed"
       /\ sess[Peer(i)][c].phase = "secure"
       /\ EnterSecure(i, c, sess[i][c], cache[i], sess[i])
       /\ stored' = [stored EXCEPT ![i] = @ \cup StoredNow(c, sess[i][c])]
       /\ UNCHANGED <<calls, initiator, keep, confirmV, losses>>

\* A Multistream stream of the session: e processes the Confirm of the peer,
\* then enters SECURE, where the flags of the DH stream still count.
Multistream(e, c) ==
    /\ \A f \in Endpoints : sess[f][c].phase = "secure"
    /\ LET v == cache[Peer(e)].verified
       IN /\ cache' = [cache EXCEPT ![e] = ProcessV(e, v)]
          /\ stored' = [stored EXCEPT ![e] = @ \cup StoredByV(e, v)]
          /\ sess' = [sess EXCEPT ![e] =
                [SessionsAfterV(e, v) EXCEPT ![c].alert = @ \/ sess[e][c].wrongs # {}]]
    /\ UNCHANGED <<calls, initiator, keep, confirmV, losses, vouched>>

\* The user of e has compared the SAS of call c.
Verify(e, c, v) ==
    /\ sess[e][c].phase = "secure"
    /\ cache' = [cache EXCEPT ![e] = AfterVerifiedSet(e, v)]
    /\ sess' = [sess EXCEPT ![e] = Acknowledge(@)]
    /\ stored' = [stored EXCEPT ![e] = @ \cup Alerted(e)]
    /\ vouched' = [vouched EXCEPT ![e] =
          IF v THEN @ \cup ({sess[e][c].rs1, sess[e][c].chosen} \ {NONE}) ELSE @]
    /\ UNCHANGED <<calls, initiator, keep, confirmV, losses>>

\* The session of e goes down: the user hangs up, the exchange failed, or
\* the process died.
End(e, c) ==
    /\ c \in Live(e)
    /\ sess' = [sess EXCEPT ![e][c].phase = "down", ![e][c].alert = FALSE]
    /\ UNCHANGED <<cache, calls, initiator, keep, confirmV, losses, stored, vouched>>

\* The process died while the cache file was written: the regular entries
\* are gone (ZrtpCacheFile).
LoseCache(e) ==
    /\ losses < MaxLosses
    /\ losses' = losses + 1
    /\ cache' = [cache EXCEPT ![e] = NoEntry]
    /\ sess' = [sess EXCEPT ![e] = [c \in Calls |->
          IF c \in Live(e) THEN [@[c] EXCEPT !.phase = "down", !.alert = FALSE] ELSE @[c]]]
    /\ UNCHANGED <<calls, initiator, keep, confirmV, stored, vouched>>

Next ==
    \/ \E i \in Endpoints, k \in Keeps : Begin(i, k)
    \/ \E c \in 1..calls : Confirm1(c) \/ Confirm2(c) \/ Conf2Ack(c)
    \/ \E e \in Endpoints, c \in 1..calls :
          \/ Prepare(e, c) \/ Derive(e, c) \/ Multistream(e, c) \/ End(e, c)
          \/ \E v \in BOOLEAN : Verify(e, c, v)
    \/ \E e \in Endpoints : LoseCache(e)

Spec == Init /\ [][Next]_vars

(***************************************************************************)
(* Properties                                                              *)
(***************************************************************************)

SecretValues ==
    {NONE} \cup ({"call"} \X Calls) \cup ({"own", "own2"} \X Endpoints \X Calls)

\* Type invariant.
TypeOK ==
    /\ cache \in [Endpoints -> [curr : SecretValues, prev : SecretValues,
                                expired : BOOLEAN, verified : BOOLEAN]]
    /\ calls \in 0..MaxCalls
    /\ initiator \in [Calls -> Endpoints \cup {NONE}]
    /\ keep \in [Calls -> BOOLEAN]
    /\ sess \in [Endpoints -> [Calls -> [
          phase : {"none", "new", "ready", "derived", "confirmed", "secure", "down"},
          rs1 : SecretValues, rs2 : SecretValues, expired : BOOLEAN,
          cached : SUBSET {RS1, RS2}, matches : SUBSET {RS1, RS2}, wrongs : SUBSET {RS1},
          alert : BOOLEAN, chosen : SecretValues]]]
    /\ confirmV \in [Endpoints -> [Calls -> BOOLEAN]]
    /\ losses \in 0..MaxLosses
    /\ stored \in [Endpoints -> SUBSET Calls]
    /\ vouched \in [Endpoints -> SUBSET SecretValues]
    /\ \A e \in Endpoints : cache[e].curr = NONE => cache[e] = NoEntry

\* Both sides of an exchange take the same secret into s0, or none: otherwise
\* their keys differ, every Confirm is refused and the two can never talk again.
\* Each side finds its choice alone, from its two secrets and the peer's.
SameSecret ==
    \A c \in Calls : (\A e \in Endpoints : sess[e][c].phase = "derived") => SameKey(c)

OneSided(c) == \E e, f \in Endpoints : c \in stored[e] \ stored[f]
BothSides(c) == keep[c] /\ \A e \in Endpoints : c \in stored[e]

\* After a call that both sides stored, a broken one, which only one side
\* stored, raises no alert: rs2 stands in for rs1.  It takes two, or a lost
\* cache.  A call with a ttl of 0 counts: it makes no new secret, but the side
\* that puts its old rs1 once more shifts rs2 out of its entry.
NoFalseAlarm ==
    \A e \in Endpoints, c \in Calls :
        (sess[e][c].wrongs # {} /\ losses = 0) =>
            \A d \in 1..(c - 1) : BothSides(d) =>
                Cardinality({x \in (d + 1)..(c - 1) : OneSided(x)}) > 1

\* The verified flag of an entry speaks of its current secret: the user has
\* compared the SAS of a call that made it, or of one from which it descends by
\* exchanges that matched.
VerifiedIsVouched ==
    \A e \in Endpoints : cache[e].verified => cache[e].curr \in vouched[e]

\* "If possible MiTM attach detected - postpone storing the cache until after
\* the user verify the SAS" (src/zrtp_protocol.c:1043). Does not hold: a second
\* stream stores it (MCZrtpSecrets_postponed.cfg).
StoredAfterVerified ==
    \A e \in Endpoints, c \in Calls :
        (keep[c] /\ sess[e][c].wrongs # {} /\ c \in stored[e]) => <<"call", c>> \in vouched[e]

=============================================================================
