------------------------- MODULE ZrtpStreams_proofs -------------------------
(***************************************************************************)
(* Theorems about the streams of a session, for any number of streams,     *)
(* Commits and timeouts.                                                   *)
(***************************************************************************)
EXTENDS ZrtpStreams, FiniteSetTheorems, TLAPS

-----------------------------------------------------------------------------
(* Types.  A key is derived from the hvi of a Commit, which a stream in    *)
(* progress has.                                                           *)

Records == {r \in StreamRecords : r.state \in InProgress => r.hv > 0}

TypeInv ==
    /\ ep \in [Endpoints -> [Streams -> Records]]
    /\ sess \in [Endpoints -> (1 .. MaxCommits) \cup {NONE}]
    /\ decided \in [Endpoints -> [Streams -> Decisions \cup {NONE}]]
    /\ commits \subseteq Commits
    /\ timeouts \in 0 .. MaxTimeouts
    /\ raced \in BOOLEAN

LEMMA PeerIsTheOther ==
    ASSUME NEW e \in Endpoints
    PROVE  /\ Peer(e) \in Endpoints /\ Peer(e) # e /\ Peer(Peer(e)) = e
           /\ \A x \in Endpoints : x = e \/ x = Peer(e)
<1>1. IsFiniteSet(Endpoints) /\ Cardinality(Endpoints) = 2
  BY StreamsAssumption
<1>2. IsFiniteSet(Endpoints \ {e}) /\ Cardinality(Endpoints \ {e}) = 1
  BY <1>1, FS_RemoveElement
<1>3. PICK o : Endpoints \ {e} = {o}
  BY <1>2, FS_Singleton
<1>4. o \in Endpoints /\ o # e /\ \A x \in Endpoints : x # e => x = o
  BY <1>3
<1>5. Peer(e) = o
  BY <1>4 DEF Peer
<1>6. Peer(o) = e
  BY <1>4 DEF Peer
<1>7. QED
  BY <1>4, <1>5, <1>6

LEMMA ModeType ==
    ASSUME NEW e \in Endpoints
    PROVE  DefineMode(e) \in Modes
  BY DEF DefineMode, Modes

LEMMA KeyType ==
    ASSUME TypeInv, NEW e \in Endpoints, NEW hv \in 1 .. MaxCommits, NEW mode
    PROVE  KeyOf(e, hv, mode) \in Keys
  BY DEF TypeInv, KeyOf, Keys

LEMMA SessionType ==
    ASSUME TypeInv, NEW e \in Endpoints, NEW hv \in 1 .. MaxCommits, NEW mode,
           DeriveSession(e, hv, mode)
    PROVE  sess' \in [Endpoints -> (1 .. MaxCommits) \cup {NONE}]
  BY DEF TypeInv, DeriveSession

(* A stream changed, ... *)
LEMMA UpdateType ==
    ASSUME TypeInv, NEW e \in Endpoints, NEW s \in Streams, NEW r \in Records
    PROVE  [ep EXCEPT ![e][s] = r] \in [Endpoints -> [Streams -> Records]]
  BY DEF TypeInv

(* ... and two. *)
LEMMA UpdateTwoType ==
    ASSUME TypeInv, NEW e \in Endpoints, NEW s \in Streams, NEW o \in Streams,
           NEW r \in Records, NEW q \in Records
    PROVE  [ep EXCEPT ![e][s] = r, ![e][o] = q] \in [Endpoints -> [Streams -> Records]]
  BY DEF TypeInv

LEMMA DecideType ==
    ASSUME TypeInv, NEW e \in Endpoints, NEW s \in Streams,
           NEW d \in Decisions, Decide(e, s, d)
    PROVE  decided' \in [Endpoints -> [Streams -> Decisions \cup {NONE}]] /\ raced' \in BOOLEAN
  BY DEF TypeInv, Decide

LEMMA TryToStartType ==
    ASSUME TypeInv, NEW e \in Endpoints, NEW s \in Streams, NEW what \in {"start", "retry"},
           TryToStart(e, s, what)
    PROVE  /\ ep' \in [Endpoints -> [Streams -> Records]]
           /\ decided' \in [Endpoints -> [Streams -> Decisions \cup {NONE}]]
           /\ raced' \in BOOLEAN
<1> DEFINE mode == DefineMode(e)
           others == Concurrent(e, s, mode)
           p == [ep[e][s] EXCEPT !.state = "START_INITIATINGSECURE", !.mode = mode]
<1>1. mode \in Modes /\ others \subseteq Streams /\ ep[e][s] \in StreamRecords
  BY ModeType DEF Concurrent, TypeInv, Records
<1>2. p \in StreamRecords /\ p.state = "START_INITIATINGSECURE"
  BY <1>1 DEF StreamRecords, States, Before
<1>3. CASE ep' = [ep EXCEPT ![e][s] = [p EXCEPT !.concurrent = NONE]]
           /\ Decide(e, s, [what |-> what, mode |-> mode])
  <2>1. [p EXCEPT !.concurrent = NONE] \in Records
    BY <1>2 DEF Records, StreamRecords, InProgress
  <2>2. [what |-> what, mode |-> mode] \in Decisions
    BY <1>1 DEF Decisions
  <2>3. QED
    BY <1>3, <2>1, <2>2, UpdateType, DecideType
<1>4. ASSUME NEW o \in others,
             ep' = [ep EXCEPT ![e][s] = [p EXCEPT !.concurrent = o, !.process = TRUE]],
             UNCHANGED <<decided, raced>>
      PROVE  /\ ep' \in [Endpoints -> [Streams -> Records]]
             /\ decided' \in [Endpoints -> [Streams -> Decisions \cup {NONE}]]
             /\ raced' \in BOOLEAN
  <2>1. [p EXCEPT !.concurrent = o, !.process = TRUE] \in Records
    BY <1>1, <1>2 DEF Records, StreamRecords, InProgress
  <2>2. QED
    BY <1>4, <2>1, UpdateType DEF TypeInv
<1>5. QED
  BY <1>3, <1>4 DEF TryToStart

LEMMA EnterInitiatingType ==
    ASSUME TypeInv, NEW e \in Endpoints, NEW s \in Streams, NEW mode \in Modes,
           EnterInitiating(e, s, mode)
    PROVE  /\ ep' \in [Endpoints -> [Streams -> Records]]
           /\ sess' = sess /\ commits' \subseteq Commits
<1>1. PICK n \in (1 .. MaxCommits) \ Drawn :
          /\ ep' = [ep EXCEPT ![e][s] =
                 [state |-> "INITIATINGSECURE", mode |-> mode, hv |-> n, key |-> NONE,
                  concurrent |-> NONE, resend |-> TRUE, process |-> FALSE]]
          /\ commits' = commits \cup {[to |-> Peer(e), stream |-> s, mode |-> mode, hv |-> n]}
          /\ UNCHANGED sess
  BY DEF EnterInitiating
<1>2. n \in 1 .. MaxCommits /\ MaxCommits \in Nat
  BY StreamsAssumption
<1>3. [state |-> "INITIATINGSECURE", mode |-> mode, hv |-> n, key |-> NONE,
       concurrent |-> NONE, resend |-> TRUE, process |-> FALSE] \in Records
  BY <1>2 DEF Records, StreamRecords, States, InProgress
<1>4. [to |-> Peer(e), stream |-> s, mode |-> mode, hv |-> n] \in Commits
  BY <1>2, PeerIsTheOther DEF Commits
<1>5. QED
  BY <1>1, <1>3, <1>4, UpdateType DEF TypeInv

LEMMA EnterPendingType ==
    ASSUME TypeInv, NEW e \in Endpoints, NEW s \in Streams, NEW c \in Commits,
           EnterPending(e, s, c)
    PROVE  /\ ep' \in [Endpoints -> [Streams -> Records]]
           /\ sess' \in [Endpoints -> (1 .. MaxCommits) \cup {NONE}]
           /\ commits' = commits
<1> DEFINE p1 == [ep[e][s] EXCEPT !.mode = c.mode, !.hv = c.hv]
           p == [p1 EXCEPT !.resend = FALSE, !.process = FALSE]
           q == [p EXCEPT !.state = "PENDINGSECURE", !.concurrent = NONE]
           k == KeyOf(e, c.hv, c.mode)
           w == [p EXCEPT !.state = "WAIT_CONFIRM2", !.key = k]
<1>1. /\ IF c.mode = "dh"
         THEN /\ IF p.concurrent = NONE
                 THEN ep' = [ep EXCEPT ![e][s] = q]
                 ELSE /\ InitFree(e)
                      /\ ep' = [ep EXCEPT ![e] = ResumeConcurrent(e, s, q, p.concurrent)]
              /\ UNCHANGED sess
         ELSE ep' = [ep EXCEPT ![e][s] = w] /\ DeriveSession(e, c.hv, c.mode)
      /\ UNCHANGED commits
  BY DEF EnterPending
<1>2. c.mode \in Modes /\ c.hv \in 1 .. MaxCommits /\ MaxCommits \in Nat /\ c.hv > 0
  BY StreamsAssumption DEF Commits
<1>3. ep[e][s] \in StreamRecords /\ ep[e] \in [Streams -> Records]
  BY DEF TypeInv, Records
<1>4. p1 \in StreamRecords /\ p1.hv = c.hv
  <2>1. c.mode \in Modes \cup {NONE} /\ c.hv \in 0 .. MaxCommits
    BY <1>2
  <2>2. [ep[e][s] EXCEPT !.mode = c.mode] \in StreamRecords
    BY <1>3, <2>1 DEF StreamRecords
  <2>3. p1 = [[ep[e][s] EXCEPT !.mode = c.mode] EXCEPT !.hv = c.hv]
    OBVIOUS
  <2> HIDE DEF p1
  <2>4. QED
    BY <2>1, <2>2, <2>3 DEF StreamRecords
<1> HIDE DEF p1
<1>5. p \in StreamRecords /\ p.hv = c.hv
  BY <1>4 DEF StreamRecords
<1> HIDE DEF p
<1>6. q \in Records
  BY <1>2, <1>5 DEF Records, StreamRecords, States, InProgress
<1>7. k \in Keys
  BY <1>2, KeyType
<1> HIDE DEF k
<1>8. w \in Records
  BY <1>2, <1>5, <1>7 DEF Records, StreamRecords, States, InProgress
<1> HIDE DEF q, w
<1>9. CASE c.mode = "dh" /\ p.concurrent = NONE
  <2>1. ep' = [ep EXCEPT ![e][s] = q] /\ sess' = sess /\ commits' = commits
    BY <1>1, <1>9
  <2>2. QED
    BY <1>6, <2>1, UpdateType DEF TypeInv
<1>10. CASE c.mode = "dh" /\ p.concurrent # NONE
  <2> DEFINE o == p.concurrent
             r1 == [ep[e][o] EXCEPT !.state = "START_INITIATINGSECURE", !.mode = DefineMode(e)]
             r == [r1 EXCEPT !.concurrent = s, !.process = TRUE]
  <2>1. o \in Streams
    BY <1>5, <1>10 DEF StreamRecords
  <2>2. ResumeConcurrent(e, s, q, o) = [ep[e] EXCEPT ![s] = q, ![o] = r]
    BY DEF ResumeConcurrent
  <2> HIDE DEF o
  <2>3. ep[e][o] \in StreamRecords
    BY <1>3, <2>1 DEF Records
  <2>4. r1 \in StreamRecords /\ r1.state = "START_INITIATINGSECURE"
    BY <2>3, ModeType DEF StreamRecords, States, Before
  <2> HIDE DEF r1
  <2>5. r \in Records
    BY <2>4 DEF Records, StreamRecords, InProgress
  <2> HIDE DEF r
  <2>6. ResumeConcurrent(e, s, q, o) \in [Streams -> Records]
    BY <1>3, <1>6, <2>1, <2>2, <2>5
  <2>7. ep' = [ep EXCEPT ![e] = ResumeConcurrent(e, s, q, o)] /\ sess' = sess
        /\ commits' = commits
    BY <1>1, <1>10 DEF o
  <2>8. QED
    BY <2>6, <2>7 DEF TypeInv
<1>11. CASE c.mode # "dh"
  <2>1. /\ ep' = [ep EXCEPT ![e][s] = w] /\ commits' = commits
        /\ DeriveSession(e, c.hv, c.mode)
    BY <1>1, <1>11
  <2>2. QED
    BY <1>2, <1>8, <2>1, UpdateType, SessionType
<1>12. QED
  BY <1>9, <1>10, <1>11

LEMMA GoOnType ==
    ASSUME TypeInv, NEW e \in Endpoints, NEW s \in Streams, GoOn(e, s)
    PROVE  TypeInv'
<1> DEFINE d == decided[e][s]
<1>1. d # NONE /\ d \in Decisions
  BY DEF GoOn, TypeInv
<1>2. Done(e, s) /\ timeouts' = timeouts
  BY DEF GoOn
<1>3. decided' \in [Endpoints -> [Streams -> Decisions \cup {NONE}]] /\ raced' \in BOOLEAN
  BY <1>2 DEF TypeInv, Done
<1>4. CASE d.what = "respond"
  <2>1. d.commit \in Commits
    BY <1>1, <1>4 DEF Decisions
  <2>2. EnterPending(e, s, d.commit)
    BY <1>4 DEF GoOn
  <2>3. QED
    BY <1>2, <1>3, <2>1, <2>2, EnterPendingType DEF TypeInv
<1>5. CASE d.what # "respond"
  <2>1. d.mode \in Modes
    BY <1>1, <1>5 DEF Decisions
  <2>2. EnterInitiating(e, s, d.mode)
    BY <1>5 DEF GoOn
  <2>3. QED
    BY <1>2, <1>3, <2>1, <2>2, EnterInitiatingType DEF TypeInv
<1>6. QED
  BY <1>4, <1>5

LEMMA ReceiveCommitType ==
    ASSUME TypeInv, NEW e \in Endpoints, NEW s \in Streams, NEW c \in commits,
           ReceiveCommit(e, s, c)
    PROVE  TypeInv'
<1> DEFINE others == Concurrent(e, s, c.mode)
           d == [what |-> "respond", commit |-> c]
<1>1. /\ others \subseteq Streams \ {s} /\ d \in Decisions
      /\ sess' = sess /\ commits' = commits /\ timeouts' = timeouts
  BY DEF Concurrent, TypeInv, Decisions, ReceiveCommit
<1>2. ep[e][s] \in StreamRecords /\ ep[e] \in [Streams -> Records]
  BY DEF TypeInv, Records
<1>3. ASSUME NEW o \in Streams \cup {NONE}
      PROVE  [ep[e][s] EXCEPT !.concurrent = o] \in Records
  BY <1>2 DEF TypeInv, Records, StreamRecords
<1>4. CASE ep' = [ep EXCEPT ![e][s].concurrent = NONE] /\ Decide(e, s, d)
  <2>1. ep' = [ep EXCEPT ![e][s] = [ep[e][s] EXCEPT !.concurrent = NONE]]
    BY <1>4
  <2>2. ep' \in [Endpoints -> [Streams -> Records]]
    BY <1>3, <2>1, UpdateType
  <2>3. decided' \in [Endpoints -> [Streams -> Decisions \cup {NONE}]] /\ raced' \in BOOLEAN
    BY <1>1, <1>4, DecideType
  <2>4. QED
    BY <1>1, <2>2, <2>3 DEF TypeInv
<1>5. ASSUME NEW o \in others, Decide(e, s, d),
             ep' = [ep EXCEPT ![e][s].concurrent = o,
                              ![e][o] = [ep[e][o] EXCEPT !.resend = FALSE,
                                                         !.process = FALSE]]
      PROVE  TypeInv'
  <2> DEFINE r == [ep[e][s] EXCEPT !.concurrent = o]
             q == [ep[e][o] EXCEPT !.resend = FALSE, !.process = FALSE]
  <2>1. o \in Streams /\ o # s /\ ep[e][o] \in Records
    BY <1>1, <1>2
  <2>2. r \in Records /\ q \in Records
    BY <1>3, <2>1 DEF Records, StreamRecords
  <2>3. ep' = [ep EXCEPT ![e][s] = r, ![e][o] = q]
    BY <1>5
  <2> HIDE DEF r, q
  <2>4. ep' \in [Endpoints -> [Streams -> Records]]
    BY <2>1, <2>2, <2>3, UpdateTwoType
  <2>5. decided' \in [Endpoints -> [Streams -> Decisions \cup {NONE}]] /\ raced' \in BOOLEAN
    BY <1>1, <1>5, DecideType
  <2>6. QED
    BY <1>1, <2>4, <2>5 DEF TypeInv
<1>6. ASSUME NEW o \in others, UNCHANGED <<decided, raced>>,
             ep' = [ep EXCEPT ![e][s].concurrent = o]
      PROVE  TypeInv'
  <2>1. ep' = [ep EXCEPT ![e][s] = [ep[e][s] EXCEPT !.concurrent = o]]
    BY <1>6
  <2>2. QED
    BY <1>1, <1>3, <1>6, <2>1, UpdateType DEF TypeInv
<1>7. CASE TryToStart(e, s, "start")
  BY <1>1, <1>7, TryToStartType DEF TypeInv
<1>8. QED
  BY <1>4, <1>5, <1>6, <1>7 DEF ReceiveCommit

(* A change of state that keeps the hvi, with the timers and perhaps the   *)
(* key.                                                                    *)
LEMMA StateType ==
    ASSUME NEW r \in Records, r.state \in InProgress, NEW state \in States,
           NEW resend \in BOOLEAN, NEW key \in Keys
    PROVE  /\ [r EXCEPT !.state = state] \in Records
           /\ [r EXCEPT !.state = state, !.key = key] \in Records
           /\ [r EXCEPT !.state = state, !.resend = resend] \in Records
           /\ [r EXCEPT !.state = state, !.resend = resend, !.key = key] \in Records
<1>1. r \in StreamRecords /\ r.hv > 0
  BY DEF Records
<1>2. [r EXCEPT !.state = state] \in StreamRecords /\ [r EXCEPT !.state = state].hv > 0
  BY <1>1 DEF StreamRecords
<1> DEFINE r1 == [r EXCEPT !.state = state]
           r2 == [r1 EXCEPT !.resend = resend]
<1>3. r1 \in StreamRecords /\ r1.hv > 0
  BY <1>2
<1>4. /\ [r EXCEPT !.state = state, !.key = key] = [r1 EXCEPT !.key = key]
      /\ [r EXCEPT !.state = state, !.resend = resend] = r2
      /\ [r EXCEPT !.state = state, !.resend = resend, !.key = key] = [r2 EXCEPT !.key = key]
  OBVIOUS
<1>5. r2 \in StreamRecords /\ r2.hv > 0
  <2> HIDE DEF r1
  <2>1. QED
    BY <1>3 DEF StreamRecords
<1>6. [r1 EXCEPT !.key = key] \in Records
  <2> HIDE DEF r1
  <2>1. QED
    BY <1>3 DEF Records, StreamRecords
<1>7. [r2 EXCEPT !.key = key] \in Records
  <2> HIDE DEF r2
  <2>1. QED
    BY <1>5 DEF Records, StreamRecords
<1>8. QED
  BY <1>2, <1>4, <1>5, <1>6, <1>7 DEF Records

LEMMA ErrorType ==
    ASSUME NEW r \in Records
    PROVE  [r EXCEPT !.state = "ERROR", !.resend = FALSE, !.process = FALSE] \in Records
<1> DEFINE r1 == [r EXCEPT !.state = "ERROR", !.resend = FALSE]
<1>1. r1 \in StreamRecords /\ r1.state = "ERROR"
  BY DEF Records, StreamRecords, States
<1>2. [r EXCEPT !.state = "ERROR", !.resend = FALSE, !.process = FALSE] =
      [r1 EXCEPT !.process = FALSE]
  OBVIOUS
<1> HIDE DEF r1
<1>3. [r1 EXCEPT !.process = FALSE] \in Records
  BY <1>1 DEF Records, StreamRecords, InProgress
<1>4. QED
  BY <1>2, <1>3

LEMMA ConfirmType ==
    ASSUME TypeInv, NEW e \in Endpoints, NEW s \in Streams, NEW key, NEW p \in Records,
           Confirm(e, s, key, p)
    PROVE  ep' \in [Endpoints -> [Streams -> Records]]
<1>1. CASE ep' = [ep EXCEPT ![e][s] = p]
  BY <1>1, UpdateType
<1>2. CASE ep' = [o \in Endpoints |-> [ep[o] EXCEPT ![s] = [@ EXCEPT
                     !.state = "ERROR", !.resend = FALSE, !.process = FALSE]]]
  <2>1. ASSUME NEW o \in Endpoints
        PROVE  ep'[o] \in [Streams -> Records]
    <3>1. ep[o] \in [Streams -> Records] /\ ep[o][s] \in Records
      BY DEF TypeInv
    <3>2. [ep[o][s] EXCEPT !.state = "ERROR", !.resend = FALSE, !.process = FALSE] \in Records
      BY <3>1, ErrorType
    <3> DEFINE r == [ep[o][s] EXCEPT !.state = "ERROR", !.resend = FALSE, !.process = FALSE]
    <3>3. ep'[o] = [ep[o] EXCEPT ![s] = r]
      BY <1>2
    <3> HIDE DEF r
    <3>4. QED
      BY <3>1, <3>2, <3>3 DEF r
  <2>2. QED
    BY <1>2, <2>1
<1>3. QED
  BY <1>1, <1>2 DEF Confirm, Become

LEMMA ExchangeType ==
    ASSUME TypeInv, NEW e \in Endpoints, NEW s \in Streams, Exchange(e, s)
    PROVE  TypeInv'
<1> DEFINE p == Mine(e, s)
           k == KeyOf(e, p.hv, p.mode)
<1>1. p \in Records /\ MaxCommits \in Nat
  BY StreamsAssumption DEF TypeInv, Mine
<1>2. p.state \in InProgress => p.hv \in 1 .. MaxCommits
  BY <1>1 DEF Records, StreamRecords
<1> SUFFICES /\ ep' \in [Endpoints -> [Streams -> Records]]
             /\ sess' \in [Endpoints -> (1 .. MaxCommits) \cup {NONE}]
  BY DEF Exchange, TypeInv
<1>3. CASE ReceiveDHPart1(e, s)
  <2>1. /\ p.state = "INITIATINGSECURE" /\ p.mode = "dh" /\ DeriveSession(e, p.hv, "dh")
        /\ ep' = [ep EXCEPT ![e][s] = [p EXCEPT !.state = "WAIT_CONFIRM1", !.resend = TRUE,
                                                !.key = k]]
    BY <1>3 DEF ReceiveDHPart1, Become
  <2>2. p.hv \in 1 .. MaxCommits /\ p.state \in InProgress /\ "WAIT_CONFIRM1" \in States
    BY <1>2, <2>1 DEF InProgress, States
  <2>3. k \in Keys
    BY <2>2, KeyType
  <2> HIDE DEF p, k
  <2>4. [p EXCEPT !.state = "WAIT_CONFIRM1", !.resend = TRUE, !.key = k] \in Records
    BY <1>1, <2>2, <2>3, StateType
  <2>5. QED
    BY <2>1, <2>2, <2>4, UpdateType, SessionType
<1>4. CASE ReceiveDHPart2(e, s)
  <2>1. /\ p.state = "PENDINGSECURE" /\ DeriveSession(e, p.hv, "dh")
        /\ ep' = [ep EXCEPT ![e][s] = [p EXCEPT !.state = "WAIT_CONFIRM2",
                                                !.key = KeyOf(e, p.hv, "dh")]]
    BY <1>4 DEF ReceiveDHPart2, Become
  <2>2. p.hv \in 1 .. MaxCommits /\ p.state \in InProgress /\ "WAIT_CONFIRM2" \in States
    BY <1>2, <2>1 DEF InProgress, States
  <2>3. KeyOf(e, p.hv, "dh") \in Keys
    BY <2>2, KeyType
  <2> HIDE DEF p, k
  <2>4. [p EXCEPT !.state = "WAIT_CONFIRM2", !.key = KeyOf(e, p.hv, "dh")] \in Records
    BY <1>1, <2>2, <2>3, StateType
  <2>5. QED
    BY <2>1, <2>2, <2>4, UpdateType, SessionType
<1>5. CASE ReceiveConfirm1(e, s)
  <2> DEFINE fast == p.state = "INITIATINGSECURE" /\ p.mode # "dh"
             key == IF fast THEN k ELSE p.key
             q == [p EXCEPT !.state = "WAIT_CONFIRMACK", !.resend = TRUE, !.key = key]
  <2>1. /\ p.state = "WAIT_CONFIRM1" \/ fast
        /\ Confirm(e, s, key, q)
        /\ IF fast THEN DeriveSession(e, p.hv, p.mode) ELSE UNCHANGED sess
    BY <1>5 DEF ReceiveConfirm1
  <2>2. p.hv \in 1 .. MaxCommits /\ p.state \in InProgress /\ "WAIT_CONFIRMACK" \in States
    BY <1>2, <2>1 DEF InProgress, States
  <2>3. k \in Keys
    BY <2>2, KeyType
  <2>4. sess' \in [Endpoints -> (1 .. MaxCommits) \cup {NONE}]
    BY <2>1, <2>2, SessionType DEF TypeInv
  <2> HIDE DEF p, k, fast
  <2>5. key \in Keys \cup {NONE}
    BY <1>1, <2>3 DEF Records, StreamRecords
  <2> HIDE DEF key
  <2>6. q \in Records
    <3>1. [p EXCEPT !.state = "WAIT_CONFIRMACK", !.resend = TRUE] \in StreamRecords
          /\ [p EXCEPT !.state = "WAIT_CONFIRMACK", !.resend = TRUE].hv > 0
      BY <1>1, <2>2 DEF Records, StreamRecords
    <3> DEFINE r == [p EXCEPT !.state = "WAIT_CONFIRMACK", !.resend = TRUE]
    <3>2. q = [r EXCEPT !.key = key]
      OBVIOUS
    <3>3. r \in StreamRecords /\ r.hv > 0
      BY <3>1
    <3> HIDE DEF r, q
    <3>4. QED
      BY <2>5, <3>2, <3>3 DEF Records, StreamRecords
  <2>7. QED
    BY <2>1, <2>4, <2>6, ConfirmType
<1>6. CASE ReceiveConfirm2(e, s)
  <2>1. /\ p.state = "WAIT_CONFIRM2" /\ UNCHANGED sess
        /\ Confirm(e, s, p.key, [p EXCEPT !.state = "SECURE"])
    BY <1>6 DEF ReceiveConfirm2
  <2> HIDE DEF p
  <2>2. [p EXCEPT !.state = "SECURE"] \in Records
    BY <1>1 DEF Records, StreamRecords, InProgress, States
  <2>3. QED
    BY <2>1, <2>2, ConfirmType DEF TypeInv
<1>7. CASE ReceiveConf2Ack(e, s)
  <2>1. /\ UNCHANGED sess
        /\ ep' = [ep EXCEPT ![e][s] = [p EXCEPT !.state = "SECURE", !.resend = FALSE]]
    BY <1>7 DEF ReceiveConf2Ack, Become
  <2> HIDE DEF p
  <2>2. [p EXCEPT !.state = "SECURE", !.resend = FALSE] \in Records
    BY <1>1 DEF Records, StreamRecords, InProgress, States
  <2>3. QED
    BY <2>1, <2>2, UpdateType DEF TypeInv
<1>8. QED
  BY <1>3, <1>4, <1>5, <1>6, <1>7 DEF Exchange

LEMMA TimeOutType ==
    ASSUME TypeInv, NEW e \in Endpoints, NEW s \in Streams, TimeOut(e, s)
    PROVE  TypeInv'
<1>1. ep[e][s] \in Records /\ MaxTimeouts \in Nat
  BY StreamsAssumption DEF TypeInv
<1>2. ep' \in [Endpoints -> [Streams -> Records]]
  BY <1>1, ErrorType, UpdateType DEF TimeOut, Become
<1>3. timeouts' \in 0 .. MaxTimeouts
  BY <1>1 DEF TimeOut, TypeInv
<1>4. QED
  BY <1>2, <1>3 DEF TimeOut, TypeInv

LEMMA StreamType ==
    ASSUME TypeInv, NEW e \in Endpoints, NEW s \in Streams, Stream(e, s)
    PROVE  TypeInv'
<1>1. CASE \E what \in {"start", "retry"} :
              TryToStart(e, s, what) /\ UNCHANGED <<sess, commits, timeouts>>
  BY <1>1, TryToStartType DEF TypeInv
<1>2. CASE StreamSecure(e, s) \/ Retry(e, s)
  BY <1>1, <1>2 DEF StreamSecure, Retry
<1>3. QED
  BY <1>2, GoOnType, ReceiveCommitType, ExchangeType, TimeOutType DEF Stream

LEMMA InitType ==
    ASSUME Init
    PROVE  TypeInv
<1>1. {MaxCommits, MaxTimeouts} \subseteq Nat
  BY StreamsAssumption
<1>2. [state |-> "CLEAR", mode |-> NONE, hv |-> 0, key |-> NONE,
       concurrent |-> NONE, resend |-> FALSE, process |-> FALSE] \in Records
  BY <1>1 DEF Records, StreamRecords, States, Before, InProgress
<1>3. raced \in BOOLEAN
  BY DEF Init
<1>4. QED
  BY <1>1, <1>2, <1>3 DEF Init, TypeInv

(* The types; a stream in progress has the hvi of a Commit. *)
THEOREM TypesInvariant == Spec => []TypeInv
<1>1. TypeInv /\ [Next]_vars => TypeInv'
  <2>1. CASE UNCHANGED vars
    BY <2>1 DEF TypeInv, vars
  <2>2. CASE TypeInv /\ Next
    BY <2>2, StreamType DEF Next
  <2>3. QED
    BY <2>1, <2>2
<1>2. QED
  BY InitType, <1>1, PTL DEF Spec

(* The records of all streams, decisions and Commits keep their types,     *)
(* whichever streams stop or resume each other.                            *)
THEOREM TypesAlwaysOK == Spec => []TypeOK
<1>1. TypeInv => TypeOK
  BY DEF TypeInv, TypeOK, Records
<1>2. QED
  BY TypesInvariant, <1>1, PTL

-----------------------------------------------------------------------------
(* One exchange at a time, when no endpoint uses Preshared and no two      *)
(* checks have overlapped.  A decision to answer a DH Commit names the one *)
(* stream that is then stopped.                                            *)

(* The streams with a DH exchange, stopped or not. *)
DhStreams(e) == {s \in Streams : ep[e][s].state \in InProgress /\ ep[e][s].mode # "mult"}

StartFits(e, s, mode) ==
    IF mode = "mult" THEN sess[e] # NONE ELSE mode = "dh" /\ DhStreams(e) \subseteq {s}

RespondFits(e, s, mode) ==
    /\ mode = "dh" => /\ ep[e][s].concurrent # s
                      /\ DhStreams(e) \subseteq {s, ep[e][s].concurrent}
    /\ mode = "mult" => sess[e] # NONE
    /\ mode # "presh"

DecisionFits(e, s) ==
    decided[e][s] # NONE =>
        IF decided[e][s].what = "respond"
        THEN RespondFits(e, s, decided[e][s].commit.mode)
        ELSE StartFits(e, s, decided[e][s].mode)

OneDh(e) ==
    /\ \A s, o \in DhStreams(e) : s = o
    /\ \A s \in Streams : ep[e][s].mode = "mult" => sess[e] # NONE
    /\ \A s, o \in Streams : decided[e][s] # NONE /\ decided[e][o] # NONE => s = o
    /\ \A s \in Streams : DecisionFits(e, s)

ExchangeInv ==
    /\ TypeInv
    /\ \A e \in Endpoints : OneDh(e)
    /\ \A c \in commits : c.mode # "presh"

(* Nothing begins at endpoint x. *)
Calm(x) ==
    /\ \A s \in Streams :
          /\ ep'[x][s].mode = ep[x][s].mode /\ ep'[x][s].concurrent = ep[x][s].concurrent
          /\ ep'[x][s].state \in InProgress => ep[x][s].state \in InProgress
    /\ decided'[x] = decided[x]
    /\ sess[x] # NONE => sess'[x] # NONE

LEMMA CalmKeeps ==
    ASSUME NEW x \in Endpoints, OneDh(x), Calm(x)
    PROVE  OneDh(x)'
<1>1. DhStreams(x)' \subseteq DhStreams(x)
  BY DEF DhStreams, Calm
<1>2. \A s \in Streams : DecisionFits(x, s)'
  BY <1>1 DEF OneDh, Calm, DecisionFits, RespondFits, StartFits
<1>3. QED
  BY <1>1, <1>2 DEF OneDh, Calm

(* Only stream s of endpoint e is changed. *)
LEMMA Changed ==
    ASSUME TypeInv, NEW e \in Endpoints, NEW s \in Streams, NEW r,
           ep' = [ep EXCEPT ![e][s] = r]
    PROVE  /\ ep'[e][s] = r
           /\ \A o \in Streams : o # s => ep'[e][o] = ep[e][o]
           /\ \A x \in Endpoints : x # e => ep'[x] = ep[x]
  BY DEF TypeInv

LEMMA Decided ==
    ASSUME TypeInv, NEW e \in Endpoints, NEW s \in Streams, NEW d,
           Decide(e, s, d) \/ (d = NONE /\ Done(e, s))
    PROVE  /\ decided'[e][s] = d
           /\ \A o \in Streams : o # s => decided'[e][o] = decided[e][o]
           /\ \A x \in Endpoints : x # e => decided'[x] = decided[x]
  BY DEF TypeInv, Decide, Done

(* A stream that goes on when no checks overlap is the only one. *)
LEMMA DecidesAlone ==
    ASSUME NEW e \in Endpoints, NEW s \in Streams, NEW d, Decide(e, s, d), ~raced'
    PROVE  \A o \in Streams : o # s => decided[e][o] = NONE
  BY DEF Decide

LEMMA RacedStays ==
    ASSUME NEW e \in Endpoints, NEW s \in Streams, Stream(e, s), raced
    PROVE  raced'
  BY DEF Stream, StreamSecure, Retry, GoOn, ReceiveCommit, Exchange, TimeOut, TryToStart,
         Decide, Done

LEMMA TryToStartKeeps ==
    ASSUME TypeInv, Preshared = {}, NEW e \in Endpoints, NEW s \in Streams,
           NEW what \in {"start", "retry"}, OneDh(e), TryToStart(e, s, what), sess' = sess,
           decided[e][s] = NONE, ~raced'
    PROVE  OneDh(e)' /\ \A x \in Endpoints : x # e => Calm(x)
<1> DEFINE mode == DefineMode(e)
           others == Concurrent(e, s, mode)
           p == [ep[e][s] EXCEPT !.state = "START_INITIATINGSECURE", !.mode = mode]
<1>1. /\ sess[e] # NONE => mode = "mult"
      /\ sess[e] = NONE => mode = "dh"
  BY DEF DefineMode
<1>2. ep[e][s] \in StreamRecords
  BY DEF TypeInv, Records
<1>3. ASSUME NEW r, ep' = [ep EXCEPT ![e][s] = r],
             r.state = "START_INITIATINGSECURE", r.mode = mode
      PROVE  /\ DhStreams(e)' = DhStreams(e) \ {s}
             /\ \A o \in Streams : ep'[e][o].mode = "mult" => sess[e] # NONE
             /\ \A o \in Streams : o # s => ep'[e][o] = ep[e][o]
             /\ \A x \in Endpoints : x # e => ep'[x] = ep[x]
  <2>1. /\ ep'[e][s] = r
        /\ \A o \in Streams : o # s => ep'[e][o] = ep[e][o]
        /\ \A x \in Endpoints : x # e => ep'[x] = ep[x]
    BY <1>3, Changed
  <2>2. DhStreams(e)' = DhStreams(e) \ {s}
    BY <1>3, <2>1 DEF DhStreams, InProgress
  <2>3. QED
    BY <1>1, <1>3, <2>1, <2>2 DEF OneDh
<1>4. CASE /\ others = {}
           /\ ep' = [ep EXCEPT ![e][s] = [p EXCEPT !.concurrent = NONE]]
           /\ Decide(e, s, [what |-> what, mode |-> mode])
  <2> DEFINE r == [p EXCEPT !.concurrent = NONE]
             d == [what |-> what, mode |-> mode]
  <2>1. r.state = "START_INITIATINGSECURE" /\ r.mode = mode
    BY <1>2 DEF StreamRecords
  <2> HIDE DEF mode
  <2>2. d.what = what /\ d.mode = mode
    OBVIOUS
  <2> HIDE DEF r, d
  <2>3. ep' = [ep EXCEPT ![e][s] = r] /\ Decide(e, s, d)
    BY <1>4 DEF r, d
  <2>4. /\ DhStreams(e)' = DhStreams(e) \ {s}
        /\ \A o \in Streams : ep'[e][o].mode = "mult" => sess[e] # NONE
        /\ \A x \in Endpoints : x # e => ep'[x] = ep[x]
    BY <1>3, <2>1, <2>3
  <2>5. /\ decided'[e][s] = d
        /\ \A o \in Streams : o # s => decided'[e][o] = NONE
        /\ \A x \in Endpoints : x # e => decided'[x] = decided[x]
    BY <2>3, Decided, DecidesAlone
  <2>6. mode = "dh" => DhStreams(e) \subseteq {s}
    BY <1>4 DEF Concurrent, DhStreams
  <2>7. \A o \in Streams : DecisionFits(e, o)'
    BY <1>1, <2>2, <2>4, <2>5, <2>6 DEF DecisionFits, StartFits
  <2>8. OneDh(e)'
    BY <2>4, <2>5, <2>7 DEF OneDh
  <2>9. QED
    BY <2>4, <2>5, <2>8 DEF Calm
<1>5. ASSUME NEW o \in others, decided' = decided,
             ep' = [ep EXCEPT ![e][s] = [p EXCEPT !.concurrent = o, !.process = TRUE]]
      PROVE  OneDh(e)' /\ \A x \in Endpoints : x # e => Calm(x)
  <2> DEFINE r == [p EXCEPT !.concurrent = o, !.process = TRUE]
  <2>1. r.state = "START_INITIATINGSECURE" /\ r.mode = mode
    BY <1>2 DEF StreamRecords
  <2> HIDE DEF mode, r
  <2>2. ep' = [ep EXCEPT ![e][s] = r]
    BY <1>5 DEF r
  <2>3. /\ DhStreams(e)' = DhStreams(e) \ {s}
        /\ \A q \in Streams : ep'[e][q].mode = "mult" => sess[e] # NONE
        /\ \A q \in Streams : q # s => ep'[e][q] = ep[e][q]
        /\ \A x \in Endpoints : x # e => ep'[x] = ep[x]
    BY <1>3, <2>1, <2>2
  <2>4. ASSUME NEW q \in Streams
        PROVE  DecisionFits(e, q)'
    <3>1. CASE q = s
      BY <1>5, <3>1 DEF DecisionFits
    <3>2. CASE q # s
      BY <1>5, <2>3, <3>2 DEF OneDh, DecisionFits, RespondFits, StartFits
    <3>3. QED
      BY <3>1, <3>2
  <2>5. OneDh(e)'
    BY <1>5, <2>3, <2>4 DEF OneDh
  <2>6. QED
    BY <1>5, <2>3, <2>5 DEF Calm
<1>6. QED
  BY <1>4, <1>5 DEF TryToStart

LEMMA EnterInitiatingKeeps ==
    ASSUME ExchangeInv, NEW e \in Endpoints, NEW s \in Streams, NEW mode \in Modes,
           StartFits(e, s, mode), EnterInitiating(e, s, mode)
    PROVE  /\ \A o, q \in DhStreams(e)' : o = q
           /\ \A o \in Streams : ep'[e][o].mode = "mult" => sess'[e] # NONE
           /\ \A x \in Endpoints : x # e => ep'[x] = ep[x]
           /\ sess' = sess
           /\ \A c \in commits' : c.mode # "presh"
<1>1. PICK n \in (1 .. MaxCommits) \ Drawn :
          /\ ep' = [ep EXCEPT ![e][s] =
                 [state |-> "INITIATINGSECURE", mode |-> mode, hv |-> n, key |-> NONE,
                  concurrent |-> NONE, resend |-> TRUE, process |-> FALSE]]
          /\ commits' = commits \cup {[to |-> Peer(e), stream |-> s, mode |-> mode, hv |-> n]}
          /\ UNCHANGED sess
  BY DEF EnterInitiating
<1>2. /\ ep'[e][s] = [state |-> "INITIATINGSECURE", mode |-> mode, hv |-> n, key |-> NONE,
                      concurrent |-> NONE, resend |-> TRUE, process |-> FALSE]
      /\ \A o \in Streams : o # s => ep'[e][o] = ep[e][o]
      /\ \A x \in Endpoints : x # e => ep'[x] = ep[x]
  BY <1>1, Changed DEF ExchangeInv
<1>3. mode = "mult" \/ mode = "dh"
  BY DEF StartFits
<1>4. \A o \in Streams : o # s => (o \in DhStreams(e)' <=> o \in DhStreams(e))
  BY <1>2 DEF DhStreams
<1>5. mode = "mult" => s \notin DhStreams(e)'
  BY <1>2 DEF DhStreams
<1>6. DhStreams(e)' \subseteq Streams
  BY DEF DhStreams
<1>7. \A o, q \in DhStreams(e)' : o = q
  BY <1>3, <1>4, <1>5, <1>6 DEF StartFits, ExchangeInv, OneDh
<1>8. \A o \in Streams : ep'[e][o].mode = "mult" => sess'[e] # NONE
  BY <1>1, <1>2 DEF StartFits, ExchangeInv, OneDh
<1>9. \A c \in commits' : c.mode # "presh"
  BY <1>1, <1>3 DEF ExchangeInv
<1>10. QED
  BY <1>1, <1>2, <1>7, <1>8, <1>9

LEMMA EnterPendingKeeps ==
    ASSUME ExchangeInv, Preshared = {}, NEW e \in Endpoints, NEW s \in Streams,
           NEW c \in Commits, RespondFits(e, s, c.mode), EnterPending(e, s, c)
    PROVE  /\ \A o, q \in DhStreams(e)' : o = q
           /\ \A o \in Streams : ep'[e][o].mode = "mult" => sess'[e] # NONE
           /\ \A x \in Endpoints : x # e => ep'[x] = ep[x] /\ sess'[x] = sess[x]
           /\ commits' = commits
<1> DEFINE p == [ep[e][s] EXCEPT !.mode = c.mode, !.hv = c.hv,
                                 !.resend = FALSE, !.process = FALSE]
           q == [p EXCEPT !.state = "PENDINGSECURE", !.concurrent = NONE]
           w == [p EXCEPT !.state = "WAIT_CONFIRM2", !.key = KeyOf(e, c.hv, c.mode)]
           b == ep[e][s].concurrent
<1>1. /\ IF c.mode = "dh"
         THEN /\ IF p.concurrent = NONE
                 THEN ep' = [ep EXCEPT ![e][s] = q]
                 ELSE /\ InitFree(e)
                      /\ ep' = [ep EXCEPT ![e] = ResumeConcurrent(e, s, q, p.concurrent)]
              /\ UNCHANGED sess
         ELSE ep' = [ep EXCEPT ![e][s] = w] /\ DeriveSession(e, c.hv, c.mode)
      /\ UNCHANGED commits
  BY DEF EnterPending
<1>2. ep[e][s] \in StreamRecords /\ TypeInv
  BY DEF TypeInv, Records, ExchangeInv
<1>3. /\ p.mode = c.mode /\ p.concurrent = b
      /\ q.state = "PENDINGSECURE" /\ q.mode = c.mode
      /\ w.mode = c.mode
  BY <1>2 DEF StreamRecords
<1>4. b \in Streams \cup {NONE} /\ NONE \notin Streams
  BY <1>2, StreamsAssumption DEF StreamRecords
<1> HIDE DEF p, q, w, b
<1>5. CASE c.mode = "dh" /\ b = NONE
  <2>1. ep' = [ep EXCEPT ![e][s] = q] /\ sess' = sess /\ commits' = commits
    BY <1>1, <1>3, <1>5
  <2>2. /\ ep'[e][s] = q
        /\ \A o \in Streams : o # s => ep'[e][o] = ep[e][o]
        /\ \A x \in Endpoints : x # e => ep'[x] = ep[x]
    BY <1>2, <2>1, Changed
  <2>3. DhStreams(e) \subseteq {s}
    BY <1>4, <1>5 DEF RespondFits, DhStreams, b
  <2>4. DhStreams(e)' \subseteq {s}
    BY <2>2, <2>3 DEF DhStreams
  <2>5. \A o \in Streams : ep'[e][o].mode = "mult" => sess'[e] # NONE
    BY <1>3, <1>5, <2>1, <2>2 DEF ExchangeInv, OneDh
  <2>6. QED
    BY <2>1, <2>2, <2>4, <2>5
<1>6. CASE c.mode = "dh" /\ b # NONE
  <2> DEFINE r == [ep[e][b] EXCEPT !.state = "START_INITIATINGSECURE",
                                   !.mode = DefineMode(e), !.concurrent = s, !.process = TRUE]
  <2>1. b \in Streams /\ b # s /\ DhStreams(e) \subseteq {s, b}
    BY <1>4, <1>6 DEF RespondFits, b
  <2>2. /\ ep' = [ep EXCEPT ![e] = ResumeConcurrent(e, s, q, b)]
        /\ sess' = sess /\ commits' = commits
    BY <1>1, <1>3, <1>6
  <2>3. ep[e][b] \in StreamRecords
    BY <1>2, <2>1 DEF TypeInv, Records
  <2>4. r.state = "START_INITIATINGSECURE" /\ r.mode = DefineMode(e)
    BY <2>3 DEF StreamRecords
  <2>5. ResumeConcurrent(e, s, q, b) = [ep[e] EXCEPT ![s] = q, ![b] = r]
    BY DEF ResumeConcurrent
  <2> HIDE DEF r
  <2>6. /\ ep'[e] = [ep[e] EXCEPT ![s] = q, ![b] = r]
        /\ \A x \in Endpoints : x # e => ep'[x] = ep[x]
    BY <1>2, <2>2, <2>5 DEF TypeInv
  <2>7. ep[e] \in [Streams -> Records]
    BY <1>2 DEF TypeInv
  <2>8. /\ ep'[e][s] = q /\ ep'[e][b] = r
        /\ \A o \in Streams \ {s, b} : ep'[e][o] = ep[e][o]
    BY <2>1, <2>6, <2>7
  <2>9. DhStreams(e)' \subseteq {s}
    BY <2>1, <2>4, <2>8 DEF DhStreams, InProgress
  <2>10. DefineMode(e) = "mult" => sess[e] # NONE
    BY DEF DefineMode
  <2>11. \A o \in Streams : ep'[e][o].mode = "mult" => sess'[e] # NONE
    BY <1>3, <1>6, <2>2, <2>4, <2>8, <2>10 DEF ExchangeInv, OneDh
  <2>12. QED
    BY <2>2, <2>6, <2>9, <2>11
<1>7. CASE c.mode = "mult"
  <2>1. ep' = [ep EXCEPT ![e][s] = w] /\ DeriveSession(e, c.hv, "mult") /\ commits' = commits
    BY <1>1, <1>7
  <2>2. sess' = sess
    BY <1>2, <2>1 DEF DeriveSession, TypeInv
  <2>3. /\ ep'[e][s] = w
        /\ \A o \in Streams : o # s => ep'[e][o] = ep[e][o]
        /\ \A x \in Endpoints : x # e => ep'[x] = ep[x]
    BY <1>2, <2>1, Changed
  <2>4. DhStreams(e)' \subseteq DhStreams(e)
    BY <1>3, <1>7, <2>3 DEF DhStreams
  <2>5. sess[e] # NONE
    BY <1>7 DEF RespondFits
  <2>6. QED
    BY <2>1, <2>2, <2>3, <2>4, <2>5 DEF ExchangeInv, OneDh
<1>8. c.mode \in {"dh", "mult"}
  BY DEF RespondFits, Commits, Modes
<1>9. QED
  BY <1>5, <1>6, <1>7, <1>8

LEMMA GoOnKeeps ==
    ASSUME ExchangeInv, Preshared = {}, NEW e \in Endpoints, NEW s \in Streams, GoOn(e, s)
    PROVE  /\ \A x \in Endpoints : OneDh(x)'
           /\ \A c \in commits' : c.mode # "presh"
<1> DEFINE d == decided[e][s]
<1>1. d # NONE /\ d \in Decisions /\ TypeInv /\ OneDh(e)
  BY DEF GoOn, ExchangeInv, TypeInv
<1>2. Done(e, s)
  BY DEF GoOn
<1>3. /\ \A o \in Streams : decided'[e][o] = NONE
      /\ \A x \in Endpoints : x # e => decided'[x] = decided[x]
  BY <1>1, <1>2, Decided DEF OneDh
<1>4. /\ \A o, q \in DhStreams(e)' : o = q
      /\ \A o \in Streams : ep'[e][o].mode = "mult" => sess'[e] # NONE
      /\ \A x \in Endpoints : x # e => ep'[x] = ep[x] /\ sess'[x] = sess[x]
      /\ \A c \in commits' : c.mode # "presh"
  <2>1. CASE d.what = "respond"
    <3>1. d.commit \in Commits
      BY <1>1, <2>1 DEF Decisions
    <3>2. EnterPending(e, s, d.commit)
      BY <2>1 DEF GoOn
    <3>3. RespondFits(e, s, d.commit.mode)
      BY <1>1, <2>1 DEF OneDh, DecisionFits
    <3> HIDE DEF d
    <3>4. /\ \A o, q \in DhStreams(e)' : o = q
          /\ \A o \in Streams : ep'[e][o].mode = "mult" => sess'[e] # NONE
          /\ \A x \in Endpoints : x # e => ep'[x] = ep[x] /\ sess'[x] = sess[x]
          /\ commits' = commits
      BY <3>1, <3>2, <3>3, EnterPendingKeeps
    <3>5. QED
      BY <3>4 DEF ExchangeInv
  <2>2. CASE d.what # "respond"
    <3>1. d.mode \in Modes
      BY <1>1, <2>2 DEF Decisions
    <3>2. EnterInitiating(e, s, d.mode)
      BY <2>2 DEF GoOn
    <3>3. StartFits(e, s, d.mode)
      BY <1>1, <2>2 DEF OneDh, DecisionFits
    <3> HIDE DEF d
    <3>4. QED
      BY <3>1, <3>2, <3>3, EnterInitiatingKeeps
  <2>3. QED
    BY <2>1, <2>2
<1>5. OneDh(e)'
  BY <1>3, <1>4 DEF OneDh, DecisionFits
<1>6. ASSUME NEW x \in Endpoints, x # e
      PROVE  OneDh(x)'
  <2>1. Calm(x)
    BY <1>3, <1>4, <1>6 DEF Calm
  <2>2. QED
    BY <2>1, CalmKeeps DEF ExchangeInv
<1>7. QED
  BY <1>4, <1>5, <1>6

(* Without a session key no stream runs in Multistream mode, so the        *)
(* streams a DH Commit has to wait for are the ones with a DH exchange.    *)
LEMMA RespondDecided ==
    ASSUME ExchangeInv, NEW e \in Endpoints, NEW s \in Streams, NEW c \in commits,
           RoleFor(e, s, c) = "responder"
    PROVE  LET others == Concurrent(e, s, c.mode)
           IN  /\ c.mode = "mult" => sess[e] # NONE
               /\ c.mode # "presh"
               /\ c.mode = "dh" =>
                     /\ others = {} => DhStreams(e) \subseteq {s}
                     /\ \A o \in others : DhStreams(e) \subseteq {s, o}
<1>1. /\ c.mode = "mult" => sess[e] # NONE
      /\ c.mode = "dh" => sess[e] = NONE
  BY StreamsAssumption DEF RoleFor
<1>2. ASSUME sess[e] = NONE
      PROVE  \A o \in Streams : ep[e][o].mode # "mult"
  BY <1>2 DEF ExchangeInv, OneDh
<1>3. c.mode = "dh" => Concurrent(e, s, c.mode) = DhStreams(e) \ {s}
  BY <1>1, <1>2 DEF Concurrent, DhStreams
<1>4. QED
  BY <1>1, <1>3 DEF ExchangeInv, OneDh

LEMMA ReceiveCommitKeeps ==
    ASSUME ExchangeInv, Preshared = {}, NEW e \in Endpoints, NEW s \in Streams,
           NEW c \in commits, ReceiveCommit(e, s, c), ~raced'
    PROVE  \A x \in Endpoints : OneDh(x)'
<1> DEFINE others == Concurrent(e, s, c.mode)
           d == [what |-> "respond", commit |-> c]
<1>1. /\ TypeInv /\ OneDh(e) /\ sess' = sess /\ others \subseteq Streams \ {s}
      /\ decided[e][s] = NONE
      /\ ep[e][s] \in StreamRecords /\ ep[e] \in [Streams -> Records]
  <2>1. /\ TypeInv /\ OneDh(e) /\ sess' = sess /\ others \subseteq Streams \ {s}
        /\ decided[e][s] = NONE
    BY DEF ExchangeInv, ReceiveCommit, Concurrent, Idle
  <2>2. ep[e] \in [Streams -> Records]
    BY <2>1 DEF TypeInv
  <2>3. QED
    BY <2>1, <2>2 DEF Records
<1>2. ASSUME \A x \in Endpoints : x # e => Calm(x)
      PROVE  \A x \in Endpoints : x # e => OneDh(x)'
  BY <1>2, CalmKeeps DEF ExchangeInv
<1>3. d.what = "respond" /\ d.commit = c
  OBVIOUS
<1> HIDE DEF d
<1>4. ASSUME NEW o \in Streams \cup {NONE}, o # s, RoleFor(e, s, c) = "responder",
             c.mode = "dh" => DhStreams(e) \subseteq {s, o},
             \A q \in Streams : /\ ep'[e][q].state = ep[e][q].state
                                /\ ep'[e][q].mode = ep[e][q].mode,
             ep'[e][s].concurrent = o,
             \A x \in Endpoints : x # e => ep'[x] = ep[x],
             Decide(e, s, d)
      PROVE  \A x \in Endpoints : OneDh(x)'
  <2>1. /\ decided'[e][s] = d
        /\ \A q \in Streams : q # s => decided'[e][q] = NONE
        /\ \A x \in Endpoints : x # e => decided'[x] = decided[x]
    BY <1>1, <1>4, Decided, DecidesAlone
  <2>2. DhStreams(e)' = DhStreams(e)
    BY <1>4 DEF DhStreams
  <2>3. c.mode = "mult" => sess[e] # NONE
    BY <1>4, RespondDecided
  <2>4. c.mode # "presh"
    BY <1>4, RespondDecided
  <2>5. RespondFits(e, s, c.mode)'
    BY <1>1, <1>4, <2>2, <2>3, <2>4 DEF RespondFits
  <2>6. \A q \in Streams : DecisionFits(e, q)'
    BY <1>3, <2>1, <2>5 DEF DecisionFits
  <2>7. OneDh(e)'
    BY <1>1, <1>4, <2>1, <2>2, <2>6 DEF OneDh
  <2>8. \A x \in Endpoints : x # e => Calm(x)
    BY <1>1, <1>4, <2>1 DEF Calm
  <2>9. QED
    BY <1>2, <2>7, <2>8
<1>5. ASSUME NEW o \in Streams \cup {NONE}, ep' = [ep EXCEPT ![e][s].concurrent = o]
      PROVE  /\ \A q \in Streams : /\ ep'[e][q].state = ep[e][q].state
                                   /\ ep'[e][q].mode = ep[e][q].mode
             /\ ep'[e][s].concurrent = o
             /\ \A q \in Streams : q # s => ep'[e][q] = ep[e][q]
             /\ \A x \in Endpoints : x # e => ep'[x] = ep[x]
  <2> DEFINE r == [ep[e][s] EXCEPT !.concurrent = o]
  <2>1. r.state = ep[e][s].state /\ r.mode = ep[e][s].mode /\ r.concurrent = o
    BY <1>1 DEF StreamRecords
  <2>2. ep' = [ep EXCEPT ![e][s] = r]
    BY <1>5
  <2> HIDE DEF r
  <2>3. /\ ep'[e][s] = r
        /\ \A q \in Streams : q # s => ep'[e][q] = ep[e][q]
        /\ \A x \in Endpoints : x # e => ep'[x] = ep[x]
    BY <1>1, <2>2, Changed
  <2>4. QED
    BY <2>1, <2>3
<1>6. CASE /\ RoleFor(e, s, c) = "responder" /\ others = {}
           /\ ep' = [ep EXCEPT ![e][s].concurrent = NONE] /\ Decide(e, s, d)
  <2>1. NONE # s
    BY StreamsAssumption
  <2>2. c.mode = "dh" => DhStreams(e) \subseteq {s}
    BY <1>6, RespondDecided
  <2>3. QED
    BY <1>4, <1>5, <1>6, <2>1, <2>2
<1>7. ASSUME NEW o \in others, RoleFor(e, s, c) = "responder", Decide(e, s, d),
             ep' = [ep EXCEPT ![e][s].concurrent = o,
                              ![e][o] = [ep[e][o] EXCEPT !.resend = FALSE,
                                                         !.process = FALSE]]
      PROVE  \A x \in Endpoints : OneDh(x)'
  <2> DEFINE r == [ep[e][s] EXCEPT !.concurrent = o]
             q == [ep[e][o] EXCEPT !.resend = FALSE, !.process = FALSE]
  <2>1. o \in Streams /\ o # s /\ ep[e][o] \in StreamRecords
    BY <1>1 DEF Records
  <2>2. /\ r.state = ep[e][s].state /\ r.mode = ep[e][s].mode /\ r.concurrent = o
        /\ q.state = ep[e][o].state /\ q.mode = ep[e][o].mode
    BY <1>1, <2>1 DEF StreamRecords
  <2>3. ep' = [ep EXCEPT ![e][s] = r, ![e][o] = q]
    BY <1>7
  <2> HIDE DEF r, q
  <2>4. /\ ep'[e][s] = r /\ ep'[e][o] = q
        /\ \A t \in Streams \ {s, o} : ep'[e][t] = ep[e][t]
        /\ \A x \in Endpoints : x # e => ep'[x] = ep[x]
    BY <1>1, <2>1, <2>3 DEF TypeInv
  <2>5. c.mode = "dh" => DhStreams(e) \subseteq {s, o}
    BY <1>7, RespondDecided
  <2>6. \A t \in Streams : /\ ep'[e][t].state = ep[e][t].state
                           /\ ep'[e][t].mode = ep[e][t].mode
    BY <2>2, <2>4
  <2>7. QED
    BY <1>4, <1>7, <2>1, <2>2, <2>4, <2>5, <2>6
<1>8. ASSUME NEW o \in others, decided' = decided, ep' = [ep EXCEPT ![e][s].concurrent = o]
      PROVE  \A x \in Endpoints : OneDh(x)'
  <2>1. /\ \A q \in Streams : /\ ep'[e][q].state = ep[e][q].state
                              /\ ep'[e][q].mode = ep[e][q].mode
        /\ \A q \in Streams : q # s => ep'[e][q] = ep[e][q]
        /\ \A x \in Endpoints : x # e => ep'[x] = ep[x]
    BY <1>1, <1>5, <1>8
  <2>2. DhStreams(e)' = DhStreams(e)
    BY <2>1 DEF DhStreams
  <2>3. OneDh(e)'
    <3>1. ASSUME NEW q \in Streams, decided[e][q] # NONE
          PROVE  DecisionFits(e, q)'
      BY <1>1, <1>8, <2>1, <2>2, <3>1 DEF OneDh, DecisionFits, RespondFits, StartFits
    <3>2. \A q \in Streams : DecisionFits(e, q)'
      BY <1>8, <3>1 DEF DecisionFits
    <3>3. QED
      BY <1>1, <1>8, <2>1, <2>2, <3>2 DEF OneDh
  <2>4. \A x \in Endpoints : x # e => Calm(x)
    BY <1>1, <1>8, <2>1 DEF Calm
  <2>5. QED
    BY <1>2, <2>3, <2>4
<1>9. CASE TryToStart(e, s, "start")
  BY <1>1, <1>2, <1>9, TryToStartKeeps
<1>10. QED
  BY <1>6, <1>7, <1>8, <1>9 DEF ReceiveCommit, d

(* The rest of an exchange begins none. *)
LEMMA CalmUpdate ==
    ASSUME TypeInv, NEW e \in Endpoints, NEW s \in Streams, NEW r,
           r.state \in InProgress => ep[e][s].state \in InProgress,
           r.mode = ep[e][s].mode, r.concurrent = ep[e][s].concurrent,
           ep' = [ep EXCEPT ![e][s] = r], decided' = decided,
           \A x \in Endpoints : sess[x] # NONE => sess'[x] # NONE
    PROVE  \A x \in Endpoints : Calm(x)
<1>1. /\ ep'[e][s] = r
      /\ \A q \in Streams : q # s => ep'[e][q] = ep[e][q]
      /\ \A x \in Endpoints : x # e => ep'[x] = ep[x]
  BY Changed
<1>2. QED
  BY <1>1 DEF Calm

LEMMA DeriveKeeps ==
    ASSUME TypeInv, NEW e \in Endpoints, NEW hv, NEW mode, DeriveSession(e, hv, mode)
    PROVE  \A x \in Endpoints : sess[x] # NONE => sess'[x] # NONE
  BY DEF TypeInv, DeriveSession

LEMMA ConfirmKeeps ==
    ASSUME TypeInv, NEW e \in Endpoints, NEW s \in Streams, NEW key, NEW p,
           Confirm(e, s, key, p), ep[e][s].state \in InProgress,
           p.mode = ep[e][s].mode, p.concurrent = ep[e][s].concurrent,
           decided' = decided, \A x \in Endpoints : sess[x] # NONE => sess'[x] # NONE
    PROVE  \A x \in Endpoints : Calm(x)
<1>1. CASE ep' = [ep EXCEPT ![e][s] = p]
  BY <1>1, CalmUpdate
<1>2. CASE ep' = [o \in Endpoints |-> [ep[o] EXCEPT ![s] = [@ EXCEPT
                     !.state = "ERROR", !.resend = FALSE, !.process = FALSE]]]
  <2>1. ASSUME NEW x \in Endpoints
        PROVE  Calm(x)
    <3> DEFINE r == [ep[x][s] EXCEPT !.state = "ERROR", !.resend = FALSE, !.process = FALSE]
    <3>1. ep[x] \in [Streams -> Records] /\ ep[x][s] \in StreamRecords
      BY DEF TypeInv, Records
    <3>2. /\ r.state = "ERROR" /\ r.mode = ep[x][s].mode
          /\ r.concurrent = ep[x][s].concurrent
      BY <3>1 DEF StreamRecords
    <3>3. ep'[x] = [ep[x] EXCEPT ![s] = r]
      BY <1>2
    <3> HIDE DEF r
    <3>4. ep'[x][s] = r /\ \A q \in Streams : q # s => ep'[x][q] = ep[x][q]
      BY <3>1, <3>3
    <3>5. QED
      BY <3>2, <3>4 DEF Calm, InProgress
  <2>2. QED
    BY <2>1
<1>3. QED
  BY <1>1, <1>2 DEF Confirm, Become

LEMMA ExchangeKeeps ==
    ASSUME TypeInv, NEW e \in Endpoints, NEW s \in Streams, Exchange(e, s)
    PROVE  \A x \in Endpoints : Calm(x)
<1> DEFINE p == ep[e][s]
<1>1. p \in StreamRecords /\ decided' = decided
  BY DEF TypeInv, Records, Exchange
<1>2. CASE ReceiveDHPart1(e, s)
  <2> DEFINE k == KeyOf(e, p.hv, "dh")
             q == [p EXCEPT !.state = "WAIT_CONFIRM1", !.resend = TRUE, !.key = k]
  <2>1. /\ p.state = "INITIATINGSECURE" /\ DeriveSession(e, p.hv, "dh")
        /\ ep' = [ep EXCEPT ![e][s] = q]
    BY <1>2 DEF ReceiveDHPart1, Become, Mine
  <2>2. q.mode = p.mode /\ q.concurrent = p.concurrent
    BY <1>1 DEF StreamRecords
  <2> HIDE DEF q
  <2>3. QED
    BY <1>1, <2>1, <2>2, DeriveKeeps, CalmUpdate DEF InProgress
<1>3. CASE ReceiveDHPart2(e, s)
  <2> DEFINE k == KeyOf(e, p.hv, "dh")
             q == [p EXCEPT !.state = "WAIT_CONFIRM2", !.key = k]
  <2>1. /\ p.state = "PENDINGSECURE" /\ DeriveSession(e, p.hv, "dh")
        /\ ep' = [ep EXCEPT ![e][s] = q]
    BY <1>3 DEF ReceiveDHPart2, Become, Mine
  <2>2. q.mode = p.mode /\ q.concurrent = p.concurrent
    BY <1>1 DEF StreamRecords
  <2> HIDE DEF q
  <2>3. QED
    BY <1>1, <2>1, <2>2, DeriveKeeps, CalmUpdate DEF InProgress
<1>4. CASE ReceiveConfirm1(e, s)
  <2> DEFINE fast == p.state = "INITIATINGSECURE" /\ p.mode # "dh"
             key == IF fast THEN KeyOf(e, p.hv, p.mode) ELSE p.key
             q == [p EXCEPT !.state = "WAIT_CONFIRMACK", !.resend = TRUE, !.key = key]
  <2>1. /\ p.state = "WAIT_CONFIRM1" \/ fast
        /\ Confirm(e, s, key, q)
        /\ IF fast THEN DeriveSession(e, p.hv, p.mode) ELSE UNCHANGED sess
    BY <1>4 DEF ReceiveConfirm1, Mine
  <2>2. p.state \in InProgress
    BY <2>1 DEF InProgress
  <2>3. \A x \in Endpoints : sess[x] # NONE => sess'[x] # NONE
    BY <2>1, DeriveKeeps
  <2> HIDE DEF key
  <2>4. q.mode = p.mode /\ q.concurrent = p.concurrent
    BY <1>1 DEF StreamRecords
  <2> HIDE DEF q
  <2>5. QED
    BY <1>1, <2>1, <2>2, <2>3, <2>4, ConfirmKeeps
<1>5. CASE ReceiveConfirm2(e, s)
  <2> DEFINE q == [p EXCEPT !.state = "SECURE"]
  <2>1. p.state = "WAIT_CONFIRM2" /\ Confirm(e, s, p.key, q) /\ sess' = sess
    BY <1>5 DEF ReceiveConfirm2, Mine
  <2>2. q.mode = p.mode /\ q.concurrent = p.concurrent
    BY <1>1 DEF StreamRecords
  <2> HIDE DEF q
  <2>3. QED
    BY <1>1, <2>1, <2>2, ConfirmKeeps DEF InProgress
<1>6. CASE ReceiveConf2Ack(e, s)
  <2> DEFINE q == [p EXCEPT !.state = "SECURE", !.resend = FALSE]
  <2>1. p.state = "WAIT_CONFIRMACK" /\ ep' = [ep EXCEPT ![e][s] = q] /\ sess' = sess
    BY <1>6 DEF ReceiveConf2Ack, Become, Mine
  <2>2. q.mode = p.mode /\ q.concurrent = p.concurrent
    BY <1>1 DEF StreamRecords
  <2> HIDE DEF q
  <2>3. QED
    BY <1>1, <2>1, <2>2, CalmUpdate DEF InProgress
<1>7. QED
  BY <1>2, <1>3, <1>4, <1>5, <1>6 DEF Exchange

LEMMA TimeOutKeeps ==
    ASSUME TypeInv, NEW e \in Endpoints, NEW s \in Streams, TimeOut(e, s)
    PROVE  \A x \in Endpoints : Calm(x)
<1> DEFINE p == ep[e][s]
           q == [p EXCEPT !.state = "ERROR", !.resend = FALSE, !.process = FALSE]
<1>1. p \in StreamRecords
  BY DEF TypeInv, Records
<1>2. ep' = [ep EXCEPT ![e][s] = q] /\ decided' = decided /\ sess' = sess
  BY DEF TimeOut, Become
<1>3. q.mode = p.mode /\ q.concurrent = p.concurrent /\ q.state = "ERROR"
  BY <1>1 DEF StreamRecords
<1> HIDE DEF q
<1>4. QED
  BY <1>1, <1>2, <1>3, CalmUpdate DEF InProgress

LEMMA ExchangeStep ==
    ASSUME ExchangeInv, Preshared = {}, NEW e \in Endpoints, NEW s \in Streams,
           Stream(e, s), ~raced'
    PROVE  ExchangeInv'
<1>1. TypeInv' /\ TypeInv
  BY StreamType DEF ExchangeInv
<1>2. CASE GoOn(e, s)
  BY <1>1, <1>2, GoOnKeeps DEF ExchangeInv
<1>3. CASE StreamSecure(e, s) \/ Retry(e, s)
  <2>1. PICK what \in {"start", "retry"} : TryToStart(e, s, what)
    BY <1>3 DEF StreamSecure, Retry
  <2>2. sess' = sess /\ commits' = commits /\ decided[e][s] = NONE
    BY <1>3 DEF StreamSecure, Retry, Idle
  <2>3. OneDh(e)' /\ \A x \in Endpoints : x # e => Calm(x)
    BY <1>1, <2>1, <2>2, TryToStartKeeps DEF ExchangeInv
  <2>4. QED
    BY <1>1, <2>2, <2>3, CalmKeeps DEF ExchangeInv
<1>4. ASSUME NEW c \in commits, ReceiveCommit(e, s, c)
      PROVE  ExchangeInv'
  <2>1. commits' = commits
    BY <1>4 DEF ReceiveCommit
  <2>2. \A x \in Endpoints : OneDh(x)'
    BY <1>4, ReceiveCommitKeeps
  <2>3. QED
    BY <1>1, <2>1, <2>2 DEF ExchangeInv
<1>5. CASE Exchange(e, s) \/ TimeOut(e, s)
  <2>1. commits' = commits
    BY <1>5 DEF Exchange, TimeOut
  <2>2. \A x \in Endpoints : Calm(x)
    BY <1>1, <1>5, ExchangeKeeps, TimeOutKeeps
  <2>3. QED
    BY <1>1, <2>1, <2>2, CalmKeeps DEF ExchangeInv
<1>6. QED
  BY <1>2, <1>3, <1>4, <1>5 DEF Stream

LEMMA ExchangeInit ==
    ASSUME Init
    PROVE  ExchangeInv
<1>1. TypeInv /\ commits = {}
  BY InitType DEF Init
<1>2. \A e \in Endpoints : DhStreams(e) = {}
  BY DEF Init, DhStreams, InProgress
<1>3. \A e \in Endpoints, s \in Streams : ep[e][s].mode = NONE /\ decided[e][s] = NONE
  BY DEF Init
<1>4. QED
  BY <1>1, <1>2, <1>3, StreamsAssumption DEF ExchangeInv, OneDh, DecisionFits

LEMMA ExchangeStutter ==
    ASSUME ExchangeInv, UNCHANGED vars
    PROVE  ExchangeInv'
<1>1. /\ ep' = ep /\ sess' = sess /\ decided' = decided /\ commits' = commits
      /\ timeouts' = timeouts /\ raced' = raced
  BY DEF vars
<1>2. \A e : DhStreams(e)' = DhStreams(e)
  BY <1>1 DEF DhStreams
<1>3. QED
  BY <1>1, <1>2
     DEF ExchangeInv, TypeInv, OneDh, DecisionFits, RespondFits, StartFits

LEMMA OneExchangeFollows ==
    ASSUME ExchangeInv
    PROVE  OneExchange
<1> SUFFICES ASSUME NEW e \in Endpoints
             PROVE  Cardinality(Full(e)) <= 1
  BY DEF OneExchange
<1>1. \A s, o \in Full(e) : s = o
  BY DEF ExchangeInv, OneDh, Full, DhStreams
<1>2. CASE Full(e) = {}
  BY <1>2, FS_EmptySet
<1>3. ASSUME NEW s \in Full(e)
      PROVE  Cardinality(Full(e)) <= 1
  <2>1. Full(e) = {s}
    BY <1>1
  <2>2. QED
    BY <2>1, FS_Singleton
<1>4. QED
  BY <1>2, <1>3

(* However many streams a session has, at most one of an endpoint is in a  *)
(* DH exchange: a Commit that comes for another stream either waits or     *)
(* stops the one under way (_zrtp_can_start_stream and                     *)
(* _zrtp_machine_preparse_commit), unless two of these checks overlap.     *)
(* With Preshared the stopped stream could still take a Confirm1.          *)
THEOREM OneExchangeAtATime ==
    ASSUME Preshared = {}
    PROVE  Spec => []OneExchangeUnlessRaced
<1> DEFINE Inv == TypeInv /\ (raced \/ ExchangeInv)
<1>1. Init => Inv
  BY ExchangeInit, InitType
<1>2. Inv /\ [Next]_vars => Inv'
  <2>1. ASSUME Inv, UNCHANGED vars
        PROVE  Inv'
    BY <2>1, ExchangeStutter DEF vars, TypeInv
  <2>2. ASSUME Inv, NEW e \in Endpoints, NEW s \in Streams, Stream(e, s)
        PROVE  Inv'
    BY <2>2, StreamType, RacedStays, ExchangeStep
  <2>3. QED
    BY <2>1, <2>2 DEF Next
<1>3. Inv => OneExchangeUnlessRaced
  BY OneExchangeFollows DEF OneExchangeUnlessRaced
<1>4. QED
  BY <1>1, <1>2, <1>3, PTL DEF Spec

-----------------------------------------------------------------------------
(* One session key.  An endpoint that has answered a DH Commit and one     *)
(* that has the session key start no DH exchange any more; a Commit of     *)
(* theirs that is still on its way finds the hvi of its stream, or one     *)
(* that waits.                                                             *)

Past(e) == sess[e] # NONE \/ \E t \in Streams : ep[e][t].state = "PENDINGSECURE"

(* The DH Commits e has sent for stream s. *)
DhCommits(e, s) == {c \in commits : c.to = Peer(e) /\ c.stream = s /\ c.mode = "dh"}

Awaits(e, s) ==
    /\ ep[e][s].mode = "dh"
    /\ ~ep[e][s].resend /\ ~ep[e][s].process
    /\ \E c \in DhCommits(Peer(e), s) : c.hv = ep[e][s].hv

Sent(e, s, c) ==
    /\ ep[e][s].state # "CLEAR"
    /\ ep[e][s].state = "INITIATINGSECURE" /\ ep[e][s].mode = "dh" => ep[e][s].hv = c.hv
    /\ ep[e][s].state = "START_INITIATINGSECURE" => Past(e)

StreamFits(e, s) ==
    /\ ep[e][s].mode \in {"dh", "mult", NONE}
    /\ ep[e][s].state = "INITIATINGSECURE" => ep[e][s].mode # NONE
    /\ ep[e][s].state = "PENDINGSECURE" => Awaits(e, s)
    /\ ep[e][s].state = "WAIT_CONFIRM1" => sess[e] # NONE
    /\ \A c \in DhCommits(e, s) : Sent(e, s, c)

WillRespond(e, s, c) ==
    /\ c \in commits /\ c.to = e /\ c.stream = s
    /\ ep[e][s].state \in Before \cup {"INITIATINGSECURE"}
    /\ c.mode = "dh" /\ ep[e][s].concurrent # NONE =>
          ep[e][ep[e][s].concurrent].state \notin Before \cup {"PENDINGSECURE"}

WillStart(e, s, mode) ==
    /\ ep[e][s].state = "START_INITIATINGSECURE"
    /\ mode = "dh" => ~Past(e) /\ DhCommits(e, s) = {}

DecisionMade(e, s) ==
    decided[e][s] # NONE =>
        IF decided[e][s].what = "respond"
        THEN WillRespond(e, s, decided[e][s].commit)
        ELSE WillStart(e, s, decided[e][s].mode)

Fits(e) == \A s \in Streams : StreamFits(e, s) /\ DecisionMade(e, s)

(* The peer has the session key of e, or will have it with DHPart2. *)
SessionFits(e) ==
    sess[e] # NONE =>
        \/ sess[Peer(e)] = sess[e]
        \/ /\ sess[Peer(e)] = NONE
           /\ \E s \in Streams : /\ ep[Peer(e)][s].state = "PENDINGSECURE"
                                 /\ ep[Peer(e)][s].hv = sess[e]

SessionInv ==
    /\ ExchangeInv
    /\ \A e \in Endpoints : Fits(e) /\ SessionFits(e)

(* A stream that waits for DHPart2 goes on waiting. *)
Waits(x) ==
    \A s \in Streams :
        ep[x][s].state = "PENDINGSECURE" =>
            ep'[x][s].state = "PENDINGSECURE" /\ ep'[x][s].hv = ep[x][s].hv

LEMMA SessionKeeps ==
    ASSUME sess' = sess, NEW e \in Endpoints, SessionFits(e), Waits(Peer(e))
    PROVE  SessionFits(e)'
  BY DEF SessionFits, Waits

(* At endpoint x some streams are done or fail, no more; its peer may have *)
(* sent a Commit.                                                          *)
Ends(x, s) ==
    /\ ep[x][s].state # "PENDINGSECURE"
    /\ ep'[x][s].state \in {"WAIT_CONFIRMACK", "SECURE", "ERROR"}
    /\ \/ decided[x][s] = NONE
       \/ ep[x][s].state \notin Before \cup {"INITIATINGSECURE"}

Same(x, s) ==
    /\ ep'[x][s].state = ep[x][s].state
    /\ ep'[x][s].resend => ep[x][s].resend
    /\ ep'[x][s].process => ep[x][s].process

Steady(x) ==
    /\ sess'[x] = sess[x] /\ decided'[x] = decided[x]
    /\ commits \subseteq commits'
    /\ \A s \in Streams :
          /\ DhCommits(x, s)' = DhCommits(x, s)
          /\ ep'[x][s].mode = ep[x][s].mode
          /\ ep'[x][s].hv = ep[x][s].hv
          /\ ep'[x][s].concurrent = ep[x][s].concurrent
          /\ Same(x, s) \/ Ends(x, s)

LEMMA SteadyKeeps ==
    ASSUME TypeInv, NEW x \in Endpoints, Fits(x), Steady(x)
    PROVE  Fits(x)' /\ Waits(x)
<1>1. Waits(x)
  BY DEF Waits, Steady, Same, Ends
<1>2. Past(x) => Past(x)'
  BY <1>1 DEF Past, Waits, Steady
<1>3. ~Past(x) => ~Past(x)'
  BY DEF Past, Steady, Same, Ends
<1>4. ASSUME NEW s \in Streams
      PROVE  StreamFits(x, s)'
  <2>1. StreamFits(x, s)
    BY DEF Fits
  <2>2. ep'[x][s].mode = ep[x][s].mode /\ ep'[x][s].hv = ep[x][s].hv
        /\ DhCommits(x, s)' = DhCommits(x, s) /\ sess'[x] = sess[x]
    BY DEF Steady
  <2>3. DhCommits(Peer(x), s) \subseteq DhCommits(Peer(x), s)'
    BY DEF Steady, DhCommits
  <2>4. CASE Same(x, s)
    <3>1. Awaits(x, s) => Awaits(x, s)'
      BY <2>2, <2>3, <2>4 DEF Awaits, Same
    <3>2. \A c : Sent(x, s, c) => Sent(x, s, c)'
      BY <1>2, <2>2, <2>4 DEF Sent, Same
    <3>3. QED
      BY <2>1, <2>2, <2>4, <3>1, <3>2 DEF StreamFits, Same
  <2>5. CASE Ends(x, s)
    <3>1. \A c : Sent(x, s, c)'
      BY <2>5 DEF Sent, Ends
    <3>2. QED
      BY <2>1, <2>2, <2>5, <3>1 DEF StreamFits, Ends
  <2>6. QED
    BY <2>4, <2>5 DEF Steady
<1>5. ASSUME NEW s \in Streams, decided[x][s] # NONE
      PROVE  DecisionMade(x, s)'
  <2>1. DecisionMade(x, s) /\ decided'[x][s] = decided[x][s]
    BY DEF Fits, Steady
  <2>2. /\ ep[x][s].state \in Before \cup {"INITIATINGSECURE"}
               => ep'[x][s].state = ep[x][s].state
        /\ \A t \in Streams : ep[x][t].state \notin Before \cup {"PENDINGSECURE"}
               => ep'[x][t].state \notin Before \cup {"PENDINGSECURE"}
    BY <1>5 DEF Steady, Same, Ends, Before
  <2>3. ep[x][s].concurrent \in Streams \cup {NONE} /\ ep'[x][s].concurrent = ep[x][s].concurrent
        /\ sess'[x] = sess[x] /\ commits \subseteq commits' /\ DhCommits(x, s)' = DhCommits(x, s)
    BY DEF TypeInv, Records, StreamRecords, Steady
  <2>4. \A c : WillRespond(x, s, c) => WillRespond(x, s, c)'
    BY <2>2, <2>3 DEF WillRespond
  <2>5. \A m : WillStart(x, s, m) => WillStart(x, s, m)'
    BY <1>3, <2>2, <2>3 DEF WillStart, Before
  <2>6. QED
    BY <2>1, <2>4, <2>5 DEF DecisionMade
<1>6. \A s \in Streams : decided[x][s] = NONE => DecisionMade(x, s)'
  BY DEF DecisionMade, Steady
<1>7. QED
  BY <1>1, <1>4, <1>5, <1>6 DEF Fits

LEMMA OthersSteady ==
    ASSUME TypeInv, NEW e \in Endpoints, NEW c, c.to = Peer(e),
           \A x \in Endpoints : x # e =>
               ep'[x] = ep[x] /\ decided'[x] = decided[x] /\ sess'[x] = sess[x],
           commits' = commits \/ commits' = commits \cup {c}
    PROVE  \A x \in Endpoints : x # e => Steady(x)
<1> SUFFICES ASSUME NEW x \in Endpoints, x # e
             PROVE  Steady(x)
  OBVIOUS
<1>1. Peer(x) # Peer(e)
  BY PeerIsTheOther
<1>2. \A s \in Streams : DhCommits(x, s)' = DhCommits(x, s)
  BY <1>1 DEF DhCommits
<1>3. QED
  BY <1>2 DEF Steady, Same

(* A stream that is left alone, at an endpoint where nothing has ended. *)
LEMMA OthersFit ==
    ASSUME TypeInv, NEW e \in Endpoints, NEW o \in Streams, StreamFits(e, o),
           ep'[e][o] = ep[e][o], DhCommits(e, o)' = DhCommits(e, o), commits \subseteq commits',
           sess[e] # NONE => sess'[e] # NONE, Past(e) => Past(e)'
    PROVE  StreamFits(e, o)'
<1>1. DhCommits(Peer(e), o) \subseteq DhCommits(Peer(e), o)'
  BY DEF DhCommits
<1>2. \A c : Sent(e, o, c) => Sent(e, o, c)'
  BY DEF Sent
<1>3. Awaits(e, o) => Awaits(e, o)'
  BY <1>1 DEF Awaits
<1>4. QED
  BY <1>2, <1>3 DEF StreamFits

LEMMA TryToStartFits ==
    ASSUME TypeInv, Preshared = {}, NEW e \in Endpoints, NEW s \in Streams,
           NEW what \in {"start", "retry"}, TryToStart(e, s, what), ep[e][s].state \in Before,
           Fits(e), sess' = sess, commits' = commits, decided[e][s] = NONE, ~raced'
    PROVE  Fits(e)' /\ Waits(e) /\ \A x \in Endpoints : x # e => Steady(x)
<1> DEFINE mode == DefineMode(e)
           others == Concurrent(e, s, mode)
           p == [ep[e][s] EXCEPT !.state = "START_INITIATINGSECURE", !.mode = mode]
           d == [what |-> what, mode |-> mode]
<1>1. mode = IF sess[e] # NONE THEN "mult" ELSE "dh"
  BY DEF DefineMode
<1>2. ep[e][s] \in StreamRecords
  BY DEF TypeInv, Records
<1>3. PICK r :
        /\ ep' = [ep EXCEPT ![e][s] = r]
        /\ r.state = "START_INITIATINGSECURE" /\ r.mode = mode
        /\ (Decide(e, s, d) /\ others = {}) \/ decided' = decided
  <2>1. CASE /\ others = {}
             /\ ep' = [ep EXCEPT ![e][s] = [p EXCEPT !.concurrent = NONE]]
             /\ Decide(e, s, d)
    <3> DEFINE r == [p EXCEPT !.concurrent = NONE]
    <3>1. r.state = "START_INITIATINGSECURE" /\ r.mode = mode
      BY <1>2 DEF StreamRecords
    <3> HIDE DEF r
    <3>2. QED
      BY <2>1, <3>1 DEF r
  <2>2. ASSUME NEW o \in others, decided' = decided,
               ep' = [ep EXCEPT ![e][s] = [p EXCEPT !.concurrent = o, !.process = TRUE]]
        PROVE  \E r : /\ ep' = [ep EXCEPT ![e][s] = r]
                      /\ r.state = "START_INITIATINGSECURE" /\ r.mode = mode
                      /\ decided' = decided
    <3> DEFINE r == [p EXCEPT !.concurrent = o, !.process = TRUE]
    <3>1. r.state = "START_INITIATINGSECURE" /\ r.mode = mode
      BY <1>2 DEF StreamRecords
    <3> HIDE DEF r
    <3>2. QED
      BY <2>2, <3>1 DEF r
  <2>3. QED
    BY <2>1, <2>2 DEF TryToStart
<1>4. d.what # "respond" /\ d.mode = mode
  OBVIOUS
<1> HIDE DEF mode, d
<1>5. /\ ep'[e][s] = r
      /\ \A o \in Streams : o # s => ep'[e][o] = ep[e][o]
      /\ \A x \in Endpoints : x # e => ep'[x] = ep[x]
  BY <1>3, Changed
<1>6. \A x \in Endpoints : x # e => decided'[x] = decided[x]
  BY <1>3, Decided
<1>7. Waits(e)
  BY <1>5 DEF Waits, Before
<1>8. Past(e) <=> Past(e)'
  BY <1>3, <1>5 DEF Past, Before
<1>9. \A x : DhCommits(x, s)' = DhCommits(x, s) /\ \A o : DhCommits(x, o)' = DhCommits(x, o)
  BY DEF DhCommits
<1>10. StreamFits(e, s)'
  <2>1. \A c \in DhCommits(e, s) : Past(e)
    BY DEF Fits, StreamFits, Sent, Before
  <2>2. \A c \in DhCommits(e, s)' : Sent(e, s, c)'
    BY <1>3, <1>5, <1>8, <1>9, <2>1 DEF Sent
  <2>3. QED
    BY <1>1, <1>3, <1>5, <2>2 DEF StreamFits
<1>11. \A o \in Streams : o # s => StreamFits(e, o)'
  BY <1>5, <1>8, <1>9, OthersFit DEF Fits
<1>12. \A o \in Streams : DecisionMade(e, o)'
  <2>1. CASE decided' = decided
    <3>1. ASSUME NEW o \in Streams, decided[e][o] # NONE
          PROVE  DecisionMade(e, o)'
      <4>1. o # s /\ ep'[e][o] = ep[e][o] /\ DecisionMade(e, o)
        BY <1>5, <3>1 DEF Fits
      <4>2. ep[e][o].concurrent \in Streams \cup {NONE}
        BY DEF TypeInv, Records, StreamRecords
      <4>3. \A c : WillRespond(e, o, c) => WillRespond(e, o, c)'
        BY <1>5, <4>1, <4>2 DEF WillRespond
      <4>4. \A m : WillStart(e, o, m) => WillStart(e, o, m)'
        BY <1>8, <1>9, <4>1 DEF WillStart
      <4>5. QED
        BY <2>1, <4>1, <4>3, <4>4 DEF DecisionMade
    <3>2. QED
      BY <2>1, <3>1 DEF DecisionMade
  <2>2. CASE Decide(e, s, d) /\ others = {}
    <3>1. /\ decided'[e][s] = d
          /\ \A o \in Streams : o # s => decided'[e][o] = NONE
      BY <2>2, Decided, DecidesAlone
    <3>2. mode = "dh" => ~Past(e)
      BY <1>1, <2>2 DEF Past, Concurrent, InProgress, Before
    <3>3. mode = "dh" => DhCommits(e, s) = {}
      BY <3>2 DEF Fits, StreamFits, Sent, Before
    <3>4. WillStart(e, s, mode)'
      BY <1>3, <1>5, <1>8, <1>9, <3>2, <3>3 DEF WillStart, mode, DefineMode
    <3>5. QED
      BY <1>4, <3>1, <3>4 DEF DecisionMade, mode, DefineMode
  <2>3. QED
    BY <1>3, <2>1, <2>2
<1>13. \A x \in Endpoints : x # e => Steady(x)
  <2>1. [to |-> Peer(e)].to = Peer(e)
    OBVIOUS
  <2>2. QED
    BY <1>5, <1>6, <2>1, OthersSteady
<1>14. QED
  BY <1>7, <1>10, <1>11, <1>12, <1>13 DEF Fits

LEMMA EnterInitiatingFits ==
    ASSUME TypeInv, NEW e \in Endpoints, NEW s \in Streams, NEW mode \in {"dh", "mult"},
           WillStart(e, s, mode), EnterInitiating(e, s, mode), Done(e, s), Fits(e),
           \A o \in Streams : o # s => decided[e][o] = NONE
    PROVE  Fits(e)' /\ Waits(e) /\ \A x \in Endpoints : x # e => Steady(x)
<1>1. PICK n \in (1 .. MaxCommits) \ Drawn :
          /\ ep' = [ep EXCEPT ![e][s] =
                 [state |-> "INITIATINGSECURE", mode |-> mode, hv |-> n, key |-> NONE,
                  concurrent |-> NONE, resend |-> TRUE, process |-> FALSE]]
          /\ commits' = commits \cup {[to |-> Peer(e), stream |-> s, mode |-> mode, hv |-> n]}
          /\ UNCHANGED sess
  BY DEF EnterInitiating
<1> DEFINE r == [state |-> "INITIATINGSECURE", mode |-> mode, hv |-> n, key |-> NONE,
                 concurrent |-> NONE, resend |-> TRUE, process |-> FALSE]
           k == [to |-> Peer(e), stream |-> s, mode |-> mode, hv |-> n]
<1>2. /\ ep' = [ep EXCEPT ![e][s] = r] /\ commits' = commits \cup {k} /\ sess' = sess
      /\ r.state = "INITIATINGSECURE" /\ r.mode = mode /\ r.hv = n
      /\ k.to = Peer(e) /\ k.stream = s /\ k.mode = mode /\ k.hv = n
  BY <1>1
<1> HIDE DEF r, k
<1>3. /\ ep'[e][s] = r
      /\ \A o \in Streams : o # s => ep'[e][o] = ep[e][o]
      /\ \A x \in Endpoints : x # e => ep'[x] = ep[x]
  <2>1. ep' = [ep EXCEPT ![e][s] = r]
    BY <1>2
  <2>2. QED
    BY ONLY TypeInv, e \in Endpoints, s \in Streams, <2>1, Changed
<1>4. /\ \A o \in Streams : decided'[e][o] = NONE
      /\ \A x \in Endpoints : x # e => decided'[x] = decided[x]
  BY Decided
<1>5. ep[e][s].state = "START_INITIATINGSECURE"
  BY DEF WillStart
<1>6. Waits(e)
  BY <1>3, <1>5 DEF Waits
<1>7. Past(e) => Past(e)'
  BY <1>2, <1>6 DEF Past, Waits
<1>8. StreamFits(e, s)'
  <2>1. mode = "dh" => DhCommits(e, s) = {}
    BY DEF WillStart
  <2>2. ASSUME NEW c \in DhCommits(e, s)', mode = "dh"
        PROVE  c.hv = n
    BY <1>2, <2>1, <2>2 DEF DhCommits
  <2>3. \A c \in DhCommits(e, s)' : Sent(e, s, c)'
    BY <1>2, <1>3, <2>2 DEF Sent
  <2>4. NONE # mode
    BY StreamsAssumption
  <2>5. QED
    BY <1>2, <1>3, <2>3, <2>4 DEF StreamFits
<1>9. ASSUME NEW o \in Streams, o # s
      PROVE  StreamFits(e, o)'
  <2>1. DhCommits(e, o)' = DhCommits(e, o) /\ commits \subseteq commits'
    BY <1>2, <1>9 DEF DhCommits
  <2>2. QED
    BY <1>2, <1>3, <1>7, <1>9, <2>1, OthersFit DEF Fits
<1>10. \A x \in Endpoints : x # e => Steady(x)
  BY <1>2, <1>3, <1>4, OthersSteady
<1>11. QED
  BY <1>4, <1>6, <1>8, <1>9, <1>10 DEF Fits, DecisionMade

LEMMA EnterPendingFits ==
    ASSUME TypeInv, Preshared = {}, NEW e \in Endpoints, NEW s \in Streams, NEW c \in Commits,
           RespondFits(e, s, c.mode), WillRespond(e, s, c), EnterPending(e, s, c),
           Done(e, s), Fits(e), \A o \in Streams : o # s => decided[e][o] = NONE
    PROVE  Fits(e)' /\ Waits(e) /\ sess' = sess /\ \A x \in Endpoints : x # e => Steady(x)
<1> DEFINE p == [ep[e][s] EXCEPT !.mode = c.mode, !.hv = c.hv,
                                 !.resend = FALSE, !.process = FALSE]
           q == [p EXCEPT !.state = "PENDINGSECURE", !.concurrent = NONE]
           w == [p EXCEPT !.state = "WAIT_CONFIRM2", !.key = KeyOf(e, c.hv, c.mode)]
           b == ep[e][s].concurrent
           r == [ep[e][b] EXCEPT !.state = "START_INITIATINGSECURE",
                                 !.mode = DefineMode(e), !.concurrent = s, !.process = TRUE]
<1>1. /\ IF c.mode = "dh"
         THEN /\ IF p.concurrent = NONE
                 THEN ep' = [ep EXCEPT ![e][s] = q]
                 ELSE /\ InitFree(e)
                      /\ ep' = [ep EXCEPT ![e] = ResumeConcurrent(e, s, q, p.concurrent)]
              /\ UNCHANGED sess
         ELSE ep' = [ep EXCEPT ![e][s] = w] /\ DeriveSession(e, c.hv, c.mode)
      /\ UNCHANGED commits
  BY DEF EnterPending
<1>2. ep[e][s] \in StreamRecords
  BY DEF TypeInv, Records
<1>3. /\ p.mode = c.mode /\ p.concurrent = b /\ p.hv = c.hv
      /\ ~p.resend /\ ~p.process
  BY <1>2 DEF StreamRecords
<1>5. /\ q.state = "PENDINGSECURE" /\ q.mode = c.mode /\ q.hv = c.hv
      /\ ~q.resend /\ ~q.process
      /\ w.state = "WAIT_CONFIRM2" /\ w.mode = c.mode
  BY <1>2 DEF StreamRecords
<1>6. b \in Streams \cup {NONE} /\ NONE \notin Streams
  BY <1>2, StreamsAssumption DEF StreamRecords
<1>7. ResumeConcurrent(e, s, q, b) = [ep[e] EXCEPT ![s] = q, ![b] = r]
  BY DEF ResumeConcurrent
<1>8. b \in Streams => r.state = "START_INITIATINGSECURE" /\ r.mode = DefineMode(e)
  BY DEF TypeInv, Records, StreamRecords
<1> HIDE DEF p, q, w, b, r
<1>9. ep[e][s].state \in Before \cup {"INITIATINGSECURE"}
  BY DEF WillRespond
<1>10. /\ \A o \in Streams : decided'[e][o] = NONE
       /\ \A x \in Endpoints : x # e => decided'[x] = decided[x]
  BY Decided
<1>11. /\ commits' = commits
       /\ \A x, o : DhCommits(x, o)' = DhCommits(x, o)
  BY <1>1 DEF DhCommits
<1>12. ASSUME sess' = sess, \A x \in Endpoints : x # e => ep'[x] = ep[x]
       PROVE  \A x \in Endpoints : x # e => Steady(x)
  <2>1. [to |-> Peer(e)].to = Peer(e)
    OBVIOUS
  <2>2. QED
    BY <1>10, <1>11, <1>12, <2>1, OthersSteady
<1>13. CASE c.mode = "mult"
  <2>1. ep' = [ep EXCEPT ![e][s] = w] /\ DeriveSession(e, c.hv, "mult")
    BY <1>1, <1>13
  <2>2. sess' = sess
    BY <2>1 DEF DeriveSession, TypeInv
  <2>3. /\ ep'[e][s] = w
        /\ \A o \in Streams : o # s => ep'[e][o] = ep[e][o]
        /\ \A x \in Endpoints : x # e => ep'[x] = ep[x]
    BY <2>1, Changed
  <2>4. Waits(e)
    BY <1>9, <2>3 DEF Waits, Before
  <2>5. Past(e) => Past(e)'
    BY <2>2, <2>4 DEF Past, Waits
  <2>6. StreamFits(e, s)'
    BY <1>5, <1>13, <2>3 DEF StreamFits, Sent
  <2>7. \A o \in Streams : o # s => StreamFits(e, o)'
    BY <1>11, <2>2, <2>3, <2>5, OthersFit DEF Fits
  <2>8. QED
    BY <1>10, <1>12, <2>2, <2>3, <2>4, <2>6, <2>7 DEF Fits, DecisionMade
<1>14. ASSUME c.mode = "dh", sess' = sess, ep'[e][s] = q, Waits(e),
              \A x \in Endpoints : x # e => ep'[x] = ep[x],
              \A o \in Streams : o # s => StreamFits(e, o)'
       PROVE  Fits(e)' /\ \A x \in Endpoints : x # e => Steady(x)
  <2>1. c \in commits /\ c.to = e /\ c.stream = s
    BY DEF WillRespond
  <2>2. c \in DhCommits(Peer(e), s)'
    BY <1>11, <1>14, <2>1, PeerIsTheOther DEF DhCommits
  <2>3. Awaits(e, s)'
    BY <1>5, <1>14, <2>1, <2>2 DEF Awaits
  <2>4. StreamFits(e, s)'
    BY <1>5, <1>14, <2>3 DEF StreamFits, Sent
  <2>5. QED
    BY <1>10, <1>12, <1>14, <2>4 DEF Fits, DecisionMade
<1>15. CASE c.mode = "dh" /\ b = NONE
  <2>1. ep' = [ep EXCEPT ![e][s] = q] /\ sess' = sess
    BY <1>1, <1>3, <1>15
  <2>2. /\ ep'[e][s] = q
        /\ \A o \in Streams : o # s => ep'[e][o] = ep[e][o]
        /\ \A x \in Endpoints : x # e => ep'[x] = ep[x]
    BY <2>1, Changed
  <2>3. Waits(e)
    BY <1>9, <2>2 DEF Waits, Before
  <2>4. Past(e)'
    BY <1>5, <2>2 DEF Past
  <2>5. \A o \in Streams : o # s => StreamFits(e, o)'
    BY <1>11, <2>1, <2>2, <2>4, OthersFit DEF Fits
  <2>6. QED
    BY <1>14, <1>15, <2>1, <2>2, <2>3, <2>5
<1>16. CASE c.mode = "dh" /\ b # NONE
  <2>1. PICK o \in Streams : o = b /\ o # s /\ ep[e][o].state # "PENDINGSECURE"
    BY <1>6, <1>16 DEF RespondFits, WillRespond, b
  <2>2. ep' = [ep EXCEPT ![e] = ResumeConcurrent(e, s, q, b)] /\ sess' = sess
    BY <1>1, <1>3, <1>16
  <2>3. /\ ep'[e] = [ep[e] EXCEPT ![s] = q, ![o] = r]
        /\ \A x \in Endpoints : x # e => ep'[x] = ep[x]
    BY <1>7, <2>1, <2>2 DEF TypeInv
  <2>4. ep[e] \in [Streams -> Records]
    BY DEF TypeInv
  <2>5. /\ ep'[e][s] = q /\ ep'[e][o] = r
        /\ \A t \in Streams \ {s, o} : ep'[e][t] = ep[e][t]
    BY <2>1, <2>3, <2>4
  <2>6. Waits(e)
    BY <1>9, <2>1, <2>5 DEF Waits, Before
  <2>7. Past(e)'
    BY <1>5, <2>5 DEF Past
  <2>8. r.mode \in {"dh", "mult"} /\ r.state = "START_INITIATINGSECURE"
    BY <1>8, <2>1 DEF DefineMode
  <2>9. StreamFits(e, o)'
    BY <2>5, <2>7, <2>8 DEF StreamFits, Sent
  <2>10. \A t \in Streams \ {s, o} : StreamFits(e, t)'
    BY <1>11, <2>2, <2>5, <2>7, OthersFit DEF Fits
  <2>11. \A t \in Streams : t # s => StreamFits(e, t)'
    BY <2>9, <2>10
  <2>12. QED
    BY <1>14, <1>16, <2>2, <2>3, <2>5, <2>6, <2>11
<1>17. c.mode \in {"dh", "mult"}
  BY DEF RespondFits, Commits, Modes
<1>18. QED
  BY <1>13, <1>15, <1>16, <1>17

LEMMA GoOnFits ==
    ASSUME ExchangeInv, Preshared = {}, NEW e \in Endpoints, NEW s \in Streams, Fits(e),
           GoOn(e, s)
    PROVE  Fits(e)' /\ Waits(e) /\ sess' = sess /\ \A x \in Endpoints : x # e => Steady(x)
<1>1. PICK d : d = decided[e][s]
  OBVIOUS
<1>2. d # NONE /\ d \in Decisions /\ TypeInv /\ Done(e, s)
  BY <1>1 DEF GoOn, ExchangeInv, TypeInv
<1>3. \A o \in Streams : o # s => decided[e][o] = NONE
  BY <1>1, <1>2 DEF ExchangeInv, OneDh
<1>4. DecisionMade(e, s) /\ DecisionFits(e, s)
  BY DEF Fits, ExchangeInv, OneDh
<1>5. CASE d.what = "respond"
  <2>1. d.commit \in Commits
    BY <1>2, <1>5 DEF Decisions
  <2>2. EnterPending(e, s, d.commit)
    BY <1>1, <1>5 DEF GoOn
  <2>3. RespondFits(e, s, d.commit.mode) /\ WillRespond(e, s, d.commit)
    BY <1>1, <1>2, <1>4, <1>5 DEF DecisionMade, DecisionFits
  <2>4. QED
    BY <1>2, <1>3, <2>1, <2>2, <2>3, EnterPendingFits
<1>6. CASE d.what # "respond"
  <2>1. d.mode \in Modes
    BY <1>2, <1>6 DEF Decisions
  <2>2. EnterInitiating(e, s, d.mode)
    BY <1>1, <1>6 DEF GoOn
  <2>3. StartFits(e, s, d.mode) /\ WillStart(e, s, d.mode)
    BY <1>1, <1>2, <1>4, <1>6 DEF DecisionMade, DecisionFits
  <2>4. d.mode \in {"dh", "mult"}
    BY <2>3 DEF StartFits
  <2>5. sess' = sess
    BY <2>2 DEF EnterInitiating
  <2>6. QED
    BY <1>2, <1>3, <2>2, <2>3, <2>4, <2>5, EnterInitiatingFits
<1>7. QED
  BY <1>5, <1>6

LEMMA ReceiveCommitFits ==
    ASSUME TypeInv, Preshared = {}, NEW e \in Endpoints, NEW s \in Streams,
           NEW c \in commits, Fits(e), ReceiveCommit(e, s, c), ~raced'
    PROVE  Fits(e)' /\ Waits(e) /\ sess' = sess /\ \A x \in Endpoints : x # e => Steady(x)
<1> DEFINE others == Concurrent(e, s, c.mode)
           d == [what |-> "respond", commit |-> c]
<1>1. /\ sess' = sess /\ commits' = commits /\ others \subseteq Streams \ {s}
      /\ decided[e][s] = NONE
      /\ c.to = e /\ c.stream = s
      /\ ep[e][s].state \in Before \cup {"INITIATINGSECURE"}
  BY DEF ReceiveCommit, Concurrent, Idle
<1>2. ep[e][s] \in StreamRecords /\ ep[e] \in [Streams -> Records]
  BY DEF TypeInv, Records
<1>3. d.what = "respond" /\ d.commit = c
  OBVIOUS
<1> HIDE DEF d
<1>4. \A x, o : DhCommits(x, o)' = DhCommits(x, o)
  BY <1>1 DEF DhCommits
<1>5. ASSUME \A q \in Streams :
                 /\ ep'[e][q].state = ep[e][q].state /\ ep'[e][q].mode = ep[e][q].mode
                 /\ ep'[e][q].hv = ep[e][q].hv
                 /\ ep'[e][q].resend => ep[e][q].resend
                 /\ ep'[e][q].process => ep[e][q].process,
             \A q \in Streams : q # s => ep'[e][q].concurrent = ep[e][q].concurrent,
             \A x \in Endpoints : x # e => ep'[x] = ep[x],
             NEW b \in Streams \cup {NONE},
             \/ decided' = decided
             \/ /\ Decide(e, s, d)
                /\ ep'[e][s].concurrent = b
                /\ b # NONE => ep[e][b].state = "INITIATINGSECURE"
      PROVE  Fits(e)' /\ Waits(e) /\ \A x \in Endpoints : x # e => Steady(x)
  <2>1. Waits(e)
    BY <1>5 DEF Waits
  <2>2. \A x \in Endpoints : x # e => decided'[x] = decided[x]
    BY <1>5, Decided
  <2>3. Past(e) => Past(e)'
    BY <1>1, <2>1 DEF Past, Waits
  <2>4. ASSUME NEW o \in Streams
        PROVE  StreamFits(e, o)'
    <3>1. StreamFits(e, o)
      BY DEF Fits
    <3>2. Awaits(e, o) => Awaits(e, o)'
      BY <1>1, <1>4, <1>5 DEF Awaits
    <3>3. \A k : Sent(e, o, k) => Sent(e, o, k)'
      BY <1>5, <2>3 DEF Sent
    <3>4. QED
      BY <1>1, <1>4, <1>5, <3>1, <3>2, <3>3 DEF StreamFits
  <2>5. ASSUME NEW o \in Streams
        PROVE  DecisionMade(e, o)'
    <3>1. CASE decided' = decided
      <4>1. CASE decided[e][o] = NONE
        BY <3>1, <4>1 DEF DecisionMade
      <4>2. CASE decided[e][o] # NONE
        <5>1. o # s /\ DecisionMade(e, o)
          BY <1>1, <4>2 DEF Fits
        <5>2. ep[e][o].concurrent \in Streams \cup {NONE}
          BY DEF TypeInv, Records, StreamRecords
        <5>3. \A k : WillRespond(e, o, k) => WillRespond(e, o, k)'
          BY <1>1, <1>5, <5>1, <5>2 DEF WillRespond
        <5>4. ~Past(e) => ~Past(e)'
          BY <1>1, <1>5 DEF Past
        <5>5. \A m : WillStart(e, o, m) => WillStart(e, o, m)'
          BY <1>4, <1>5, <5>4 DEF WillStart
        <5>6. QED
          BY <3>1, <5>1, <5>3, <5>5 DEF DecisionMade
      <4>3. QED
        BY <4>1, <4>2
    <3>2. CASE Decide(e, s, d) /\ ep'[e][s].concurrent = b
               /\ (b # NONE => ep[e][b].state = "INITIATINGSECURE")
      <4>1. decided'[e][s] = d /\ \A t \in Streams : t # s => decided'[e][t] = NONE
        BY <1>1, <3>2, Decided, DecidesAlone
      <4>2. b # NONE => ep'[e][b].state = "INITIATINGSECURE"
        BY <1>5, <3>2
      <4>3. WillRespond(e, s, c)'
        BY <1>1, <1>5, <3>2, <4>2 DEF WillRespond, Before
      <4>4. QED
        BY <1>3, <4>1, <4>3 DEF DecisionMade
    <3>3. QED
      BY <1>5, <3>1, <3>2
  <2>6. \A x \in Endpoints : x # e => Steady(x)
    <3>1. [to |-> Peer(e)].to = Peer(e)
      OBVIOUS
    <3>2. \A x \in Endpoints : x # e =>
              ep'[x] = ep[x] /\ decided'[x] = decided[x] /\ sess'[x] = sess[x]
      BY <1>1, <1>5, <2>2
    <3>3. commits' = commits
      BY <1>1
    <3>4. QED
      BY ONLY TypeInv, e \in Endpoints, <3>1, <3>2, <3>3, OthersSteady
  <2>7. QED
    BY <2>1, <2>4, <2>5, <2>6 DEF Fits
<1>6. ASSUME NEW b \in Streams \cup {NONE}, ep' = [ep EXCEPT ![e][s].concurrent = b]
      PROVE  /\ \A q \in Streams :
                   /\ ep'[e][q].state = ep[e][q].state /\ ep'[e][q].mode = ep[e][q].mode
                   /\ ep'[e][q].hv = ep[e][q].hv
                   /\ ep'[e][q].resend => ep[e][q].resend
                   /\ ep'[e][q].process => ep[e][q].process
             /\ \A q \in Streams : q # s => ep'[e][q].concurrent = ep[e][q].concurrent
             /\ \A x \in Endpoints : x # e => ep'[x] = ep[x]
             /\ ep'[e][s].concurrent = b
  <2> DEFINE r == [ep[e][s] EXCEPT !.concurrent = b]
  <2>1. /\ r.state = ep[e][s].state /\ r.mode = ep[e][s].mode /\ r.hv = ep[e][s].hv
        /\ r.resend = ep[e][s].resend /\ r.process = ep[e][s].process /\ r.concurrent = b
    BY <1>2 DEF StreamRecords
  <2>2. ep' = [ep EXCEPT ![e][s] = r]
    BY <1>6
  <2> HIDE DEF r
  <2>3. /\ ep'[e][s] = r
        /\ \A q \in Streams : q # s => ep'[e][q] = ep[e][q]
        /\ \A x \in Endpoints : x # e => ep'[x] = ep[x]
    BY <2>2, Changed
  <2>4. QED
    BY <2>1, <2>3
<1>7. CASE /\ RoleFor(e, s, c) = "responder" /\ others = {}
           /\ ep' = [ep EXCEPT ![e][s].concurrent = NONE] /\ Decide(e, s, d)
  BY <1>1, <1>5, <1>6, <1>7
<1>8. ASSUME NEW o \in others, Decide(e, s, d), Yields(e, o, c),
             ep' = [ep EXCEPT ![e][s].concurrent = o,
                              ![e][o] = [ep[e][o] EXCEPT !.resend = FALSE,
                                                         !.process = FALSE]]
      PROVE  Fits(e)' /\ Waits(e) /\ \A x \in Endpoints : x # e => Steady(x)
  <2> DEFINE r == [ep[e][s] EXCEPT !.concurrent = o]
             q == [ep[e][o] EXCEPT !.resend = FALSE, !.process = FALSE]
  <2>1. o \in Streams /\ o # s /\ ep[e][o] \in StreamRecords
        /\ ep[e][o].state = "INITIATINGSECURE"
    BY <1>1, <1>2, <1>8 DEF Records, Yields
  <2>2. /\ r.state = ep[e][s].state /\ r.mode = ep[e][s].mode /\ r.hv = ep[e][s].hv
        /\ r.resend = ep[e][s].resend /\ r.process = ep[e][s].process /\ r.concurrent = o
    BY <1>2 DEF StreamRecords
  <2>3. /\ q.state = ep[e][o].state /\ q.mode = ep[e][o].mode /\ q.hv = ep[e][o].hv
        /\ ~q.resend /\ ~q.process /\ q.concurrent = ep[e][o].concurrent
    BY <2>1 DEF StreamRecords
  <2>4. ep' = [ep EXCEPT ![e][s] = r, ![e][o] = q]
    BY <1>8
  <2> HIDE DEF r, q
  <2>5. /\ ep'[e][s] = r /\ ep'[e][o] = q
        /\ \A t \in Streams \ {s, o} : ep'[e][t] = ep[e][t]
        /\ \A x \in Endpoints : x # e => ep'[x] = ep[x]
    BY <2>1, <2>4 DEF TypeInv
  <2>6. \A t \in Streams :
            /\ ep'[e][t].state = ep[e][t].state /\ ep'[e][t].mode = ep[e][t].mode
            /\ ep'[e][t].hv = ep[e][t].hv
            /\ ep'[e][t].resend => ep[e][t].resend
            /\ ep'[e][t].process => ep[e][t].process
            /\ t # s => ep'[e][t].concurrent = ep[e][t].concurrent
    BY <2>2, <2>3, <2>5
  <2>7. QED
    BY <1>5, <1>8, <2>1, <2>2, <2>5, <2>6
<1>9. ASSUME NEW o \in others, decided' = decided, ep' = [ep EXCEPT ![e][s].concurrent = o]
      PROVE  Fits(e)' /\ Waits(e) /\ \A x \in Endpoints : x # e => Steady(x)
  BY <1>1, <1>5, <1>6, <1>9
<1>10. CASE TryToStart(e, s, "start") /\ ep[e][s].state = "CLEAR"
  <2>1. ep[e][s].state \in Before
    BY <1>10 DEF Before
  <2>2. QED
    BY <1>1, <1>10, <2>1, TryToStartFits
<1>11. QED
  BY <1>1, <1>7, <1>8, <1>9, <1>10 DEF ReceiveCommit, d

(* A stream of e past its DH exchange goes on or fails, ... *)
LEMMA EndsSteady ==
    ASSUME TypeInv, NEW e \in Endpoints, NEW s \in Streams, NEW r,
           decided[e][s] = NONE, ep[e][s].state # "PENDINGSECURE",
           r.state \in {"WAIT_CONFIRMACK", "SECURE", "ERROR"}, r.mode = ep[e][s].mode,
           r.hv = ep[e][s].hv, r.concurrent = ep[e][s].concurrent,
           ep' = [ep EXCEPT ![e][s] = r], sess' = sess, decided' = decided, commits' = commits
    PROVE  \A x \in Endpoints : Steady(x)
<1>1. /\ ep'[e][s] = r
      /\ \A q \in Streams : q # s => ep'[e][q] = ep[e][q]
      /\ \A x \in Endpoints : x # e => ep'[x] = ep[x]
  BY ONLY TypeInv, e \in Endpoints, s \in Streams, ep' = [ep EXCEPT ![e][s] = r], Changed
<1>2. \A x, o : DhCommits(x, o)' = DhCommits(x, o)
  BY DEF DhCommits
<1>3. Ends(e, s)
  BY <1>1 DEF Ends
<1>4. ASSUME NEW x \in Endpoints, NEW o \in Streams, ep'[x][o] = ep[x][o]
      PROVE  Same(x, o)
  BY <1>4 DEF Same
<1>5. QED
  BY <1>1, <1>2, <1>3, <1>4 DEF Steady

(* ... or it fails on both sides, because a Confirm does not fit. *)
LEMMA ConfirmSteady ==
    ASSUME TypeInv, NEW e \in Endpoints, NEW s \in Streams, NEW key, NEW r,
           Confirm(e, s, key, r), decided[e][s] = NONE,
           ep[e][s].state # "PENDINGSECURE",
           Theirs(e, s).state \in {"WAIT_CONFIRM2", "WAIT_CONFIRMACK"},
           r.state \in {"WAIT_CONFIRMACK", "SECURE", "ERROR"}, r.mode = ep[e][s].mode,
           r.hv = ep[e][s].hv, r.concurrent = ep[e][s].concurrent,
           sess' = sess, decided' = decided, commits' = commits
    PROVE  \A x \in Endpoints : Steady(x)
<1>1. CASE ep' = [ep EXCEPT ![e][s] = r]
  BY <1>1, EndsSteady
<1>2. CASE ep' = [o \in Endpoints |-> [ep[o] EXCEPT ![s] = [@ EXCEPT
                     !.state = "ERROR", !.resend = FALSE, !.process = FALSE]]]
  <2> SUFFICES ASSUME NEW x \in Endpoints
               PROVE  Steady(x)
    OBVIOUS
  <2> DEFINE q == [ep[x][s] EXCEPT !.state = "ERROR", !.resend = FALSE, !.process = FALSE]
  <2>1. ep[x] \in [Streams -> Records] /\ ep[x][s] \in StreamRecords
    BY DEF TypeInv, Records
  <2>2. /\ q.state = "ERROR" /\ q.mode = ep[x][s].mode /\ q.hv = ep[x][s].hv
        /\ q.concurrent = ep[x][s].concurrent
    BY <2>1 DEF StreamRecords
  <2>3. ep'[x] = [ep[x] EXCEPT ![s] = q]
    BY <1>2
  <2> HIDE DEF q
  <2>4. ep'[x][s] = q /\ \A t \in Streams : t # s => ep'[x][t] = ep[x][t]
    BY <2>1, <2>3
  <2>5. /\ ep[x][s].state # "PENDINGSECURE"
        /\ x = e \/ ep[x][s].state \notin Before \cup {"INITIATINGSECURE"}
    BY PeerIsTheOther DEF Theirs, Before
  <2>6. Ends(x, s)
    BY <2>2, <2>4, <2>5 DEF Ends
  <2>7. \A t \in Streams : t # s => Same(x, t)
    BY <2>4 DEF Same
  <2>8. \A o : DhCommits(x, o)' = DhCommits(x, o)
    BY DEF DhCommits
  <2>9. QED
    BY <2>2, <2>4, <2>6, <2>7, <2>8 DEF Steady
<1>3. QED
  BY <1>1, <1>2 DEF Confirm, Become

(* The last messages of an exchange and timeouts. *)
LEMMA LastSteady ==
    ASSUME TypeInv, NEW e \in Endpoints, NEW s \in Streams, Fits(e), OneDh(e),
           Idle(e, s), decided' = decided, commits' = commits,
           \/ ReceiveConfirm1(e, s) \/ ReceiveConfirm2(e, s) \/ ReceiveConf2Ack(e, s)
           \/ TimeOut(e, s)
    PROVE  sess' = sess /\ \A x \in Endpoints : Steady(x)
<1> DEFINE p == ep[e][s]
<1>1. p \in StreamRecords /\ decided[e][s] = NONE
  BY DEF TypeInv, Records, Idle
<1>2. CASE ReceiveConfirm1(e, s)
  <2> DEFINE fast == p.state = "INITIATINGSECURE" /\ p.mode # "dh"
             key == IF fast THEN KeyOf(e, p.hv, p.mode) ELSE p.key
             q == [p EXCEPT !.state = "WAIT_CONFIRMACK", !.resend = TRUE, !.key = key]
  <2>1. /\ p.state = "WAIT_CONFIRM1" \/ fast
        /\ Theirs(e, s).state = "WAIT_CONFIRM2"
        /\ Confirm(e, s, key, q)
        /\ IF fast THEN DeriveSession(e, p.hv, p.mode) ELSE UNCHANGED sess
    BY <1>2 DEF ReceiveConfirm1, Mine
  <2>2. fast => p.mode = "mult"
    BY DEF Fits, StreamFits
  <2>3. sess' = sess
    <3>1. p.mode = "mult" => sess[e] # NONE
      BY DEF OneDh
    <3>2. fast => sess' = [sess EXCEPT ![e] = sess[e]]
      BY <2>1, <2>2, <3>1 DEF DeriveSession
    <3>3. QED
      BY <2>1, <3>2 DEF TypeInv
  <2> HIDE DEF key
  <2>4. /\ q.mode = p.mode /\ q.hv = p.hv /\ q.concurrent = p.concurrent
        /\ q.state = "WAIT_CONFIRMACK"
    BY <1>1 DEF StreamRecords
  <2> HIDE DEF q
  <2>5. QED
    BY <1>1, <2>1, <2>3, <2>4, ConfirmSteady
<1>3. CASE ReceiveConfirm2(e, s)
  <2> DEFINE q == [p EXCEPT !.state = "SECURE"]
  <2>1. /\ p.state = "WAIT_CONFIRM2" /\ Theirs(e, s).state = "WAIT_CONFIRMACK"
        /\ Confirm(e, s, p.key, q) /\ sess' = sess
    BY <1>3 DEF ReceiveConfirm2, Mine
  <2>2. /\ q.mode = p.mode /\ q.hv = p.hv /\ q.concurrent = p.concurrent
        /\ q.state = "SECURE"
    BY <1>1 DEF StreamRecords
  <2> HIDE DEF q
  <2>3. QED
    BY <1>1, <2>1, <2>2, ConfirmSteady
<1>4. CASE ReceiveConf2Ack(e, s)
  <2> DEFINE q == [p EXCEPT !.state = "SECURE", !.resend = FALSE]
  <2>1. p.state = "WAIT_CONFIRMACK" /\ ep' = [ep EXCEPT ![e][s] = q] /\ sess' = sess
    BY <1>4 DEF ReceiveConf2Ack, Become, Mine
  <2>2. /\ q.mode = p.mode /\ q.hv = p.hv /\ q.concurrent = p.concurrent
        /\ q.state = "SECURE"
    BY <1>1 DEF StreamRecords
  <2> HIDE DEF q
  <2>3. QED
    BY <1>1, <2>1, <2>2, EndsSteady
<1>5. CASE TimeOut(e, s)
  <2> DEFINE q == [p EXCEPT !.state = "ERROR", !.resend = FALSE, !.process = FALSE]
  <2>1. ep' = [ep EXCEPT ![e][s] = q] /\ sess' = sess /\ (p.resend \/ p.process)
    BY <1>5 DEF TimeOut, Become
  <2>2. p.state # "PENDINGSECURE"
    BY <2>1 DEF Fits, StreamFits, Awaits
  <2>3. /\ q.mode = p.mode /\ q.hv = p.hv /\ q.concurrent = p.concurrent
        /\ q.state = "ERROR"
    BY <1>1 DEF StreamRecords
  <2> HIDE DEF q
  <2>4. QED
    BY <1>1, <2>1, <2>2, <2>3, EndsSteady
<1>6. QED
  BY <1>2, <1>3, <1>4, <1>5

(* DHPart1 and DHPart2: the session key is the one of the peer.  Another   *)
(* stream that has been checked meanwhile has nothing to do with a DH      *)
(* exchange, or has stopped this one.                                      *)
LEMMA DeriveFits ==
    ASSUME ExchangeInv, NEW e \in Endpoints, NEW s \in Streams, NEW r, Fits(e),
           s \in DhStreams(e), decided[e][s] = NONE,
           r.state \in {"WAIT_CONFIRM1", "WAIT_CONFIRM2"}, r.mode = "dh",
           ep' = [ep EXCEPT ![e][s] = r], decided' = decided, commits' = commits,
           sess'[e] # NONE, \A x \in Endpoints : x # e => sess'[x] = sess[x]
    PROVE  Fits(e)' /\ \A x \in Endpoints : x # e => Steady(x)
<1>1. /\ ep'[e][s] = r
      /\ \A o \in Streams : o # s => ep'[e][o] = ep[e][o]
      /\ \A x \in Endpoints : x # e => ep'[x] = ep[x]
  BY ONLY ExchangeInv, e \in Endpoints, s \in Streams, ep' = [ep EXCEPT ![e][s] = r], Changed
     DEF ExchangeInv
<1>2. \A x, o : DhCommits(x, o)' = DhCommits(x, o)
  BY DEF DhCommits
<1>3. Past(e)'
  BY DEF Past
<1>4. StreamFits(e, s)'
  BY <1>1 DEF StreamFits, Sent
<1>5. ASSUME NEW o \in Streams, o # s
      PROVE  StreamFits(e, o)'
  <2>1. TypeInv /\ StreamFits(e, o)
    BY DEF ExchangeInv, Fits
  <2>2. QED
    BY <1>1, <1>2, <1>3, <1>5, <2>1, OthersFit
<1>6. ASSUME NEW o \in Streams, decided[e][o] # NONE
      PROVE  DecisionMade(e, o)'
  <2>1. o # s /\ ep'[e][o] = ep[e][o] /\ DecisionMade(e, o) /\ DecisionFits(e, o)
    BY <1>1, <1>6 DEF Fits, ExchangeInv, OneDh
  <2>2. ep[e][o].concurrent \in Streams \cup {NONE}
    BY DEF ExchangeInv, TypeInv, Records, StreamRecords
  <2>3. \A c : WillRespond(e, o, c) => WillRespond(e, o, c)'
    BY <1>1, <2>1, <2>2 DEF WillRespond, Before
  <2>4. \A m : StartFits(e, o, m) => m # "dh"
    BY <2>1 DEF StartFits
  <2>5. \A m : WillStart(e, o, m) /\ m # "dh" => WillStart(e, o, m)'
    BY <2>1 DEF WillStart
  <2>6. QED
    BY <2>1, <2>3, <2>4, <2>5 DEF DecisionMade, DecisionFits
<1>7. \A o \in Streams : decided[e][o] = NONE => DecisionMade(e, o)'
  BY DEF DecisionMade
<1>8. ASSUME NEW x \in Endpoints, x # e
      PROVE  Steady(x)
  BY <1>1, <1>2, <1>8 DEF Steady, Same
<1>9. QED
  BY <1>4, <1>5, <1>6, <1>7, <1>8 DEF Fits

LEMMA DHPart1Fits ==
    ASSUME SessionInv, NEW e \in Endpoints, NEW s \in Streams,
           Idle(e, s), ReceiveDHPart1(e, s), decided' = decided, commits' = commits
    PROVE  \A x \in Endpoints : Fits(x)' /\ SessionFits(x)'
<1> DEFINE p == ep[e][s]
           k == KeyOf(e, p.hv, "dh")
           q == [p EXCEPT !.state = "WAIT_CONFIRM1", !.resend = TRUE, !.key = k]
<1>1. ExchangeInv /\ TypeInv /\ decided[e][s] = NONE
  BY DEF SessionInv, ExchangeInv, Idle
<1>2. PICK x \in Endpoints : x = Peer(e) /\ x # e /\ Peer(x) = e /\ \A y \in Endpoints : y \in {e, x}
  BY PeerIsTheOther
<1>3. /\ p.state = "INITIATINGSECURE" /\ p.mode = "dh"
      /\ ep[x][s].state = "PENDINGSECURE"
      /\ ep' = [ep EXCEPT ![e][s] = q]
      /\ DeriveSession(e, p.hv, "dh")
  BY <1>2 DEF ReceiveDHPart1, Become, Mine, Theirs
<1>4. p \in StreamRecords /\ p.hv \in 1 .. MaxCommits /\ NONE \notin 1 .. MaxCommits
  <2>1. p \in Records
    BY <1>1 DEF TypeInv
  <2>2. p.hv \in 0 .. MaxCommits /\ p.hv > 0 /\ MaxCommits \in Nat
    BY <1>3, <2>1, StreamsAssumption DEF Records, StreamRecords, InProgress
  <2>3. QED
    BY <2>1, <2>2, StreamsAssumption DEF Records
<1>5. q.state = "WAIT_CONFIRM1" /\ q.mode = "dh"
  BY <1>3, <1>4 DEF StreamRecords
<1>6. /\ sess'[e] = IF sess[e] = NONE THEN p.hv ELSE sess[e]
      /\ \A y \in Endpoints : y # e => sess'[y] = sess[y]
  BY <1>1, <1>3 DEF DeriveSession, TypeInv
<1>7. p.hv = ep[x][s].hv
  <2>1. StreamFits(x, s) /\ StreamFits(e, s)
    BY DEF SessionInv, Fits
  <2>2. PICK c \in DhCommits(e, s) : c.hv = ep[x][s].hv
    BY <1>2, <1>3, <2>1 DEF StreamFits, Awaits
  <2>3. QED
    BY <1>3, <2>1, <2>2 DEF StreamFits, Sent
<1> HIDE DEF q
<1>8. s \in DhStreams(e)
  BY <1>3 DEF DhStreams, InProgress
(* A stream of e that waits for DHPart2 would be a second DH exchange. *)
<1>9. ASSUME sess[x] # NONE
      PROVE  sess[e] = sess[x]
  <2>1. ASSUME NEW t \in Streams, ep[e][t].state = "PENDINGSECURE"
        PROVE  FALSE
    <3>1. t \in DhStreams(e)
      BY <2>1 DEF SessionInv, Fits, StreamFits, Awaits, DhStreams, InProgress
    <3>2. t = s
      BY <1>1, <1>8, <3>1 DEF ExchangeInv, OneDh
    <3>3. QED
      BY <1>3, <2>1, <3>2
  <2>2. QED
    BY <1>2, <1>9, <2>1 DEF SessionInv, SessionFits
<1>10. sess'[e] # NONE
  BY <1>4, <1>6
<1>11. Fits(e)' /\ \A y \in Endpoints : y # e => Steady(y)
  BY <1>1, <1>3, <1>5, <1>6, <1>8, <1>10, DeriveFits DEF SessionInv
<1>12. Fits(x)'
  BY <1>1, <1>2, <1>11, SteadyKeeps DEF SessionInv
<1>13. ep'[x] = ep[x]
  BY <1>1, <1>2, <1>3 DEF TypeInv
<1>14. SessionFits(e)'
  <2>1. SessionFits(e)
    BY DEF SessionInv
  <2>2. CASE sess[e] = NONE
    <3>1. sess[x] = NONE
      BY <1>9, <2>2
    <3>2. QED
      BY <1>2, <1>3, <1>6, <1>7, <1>13, <2>2, <3>1 DEF SessionFits
  <2>3. CASE sess[e] # NONE
    BY <1>2, <1>6, <1>13, <2>1, <2>3 DEF SessionFits
  <2>4. QED
    BY <2>2, <2>3
<1>15. SessionFits(x)'
  BY <1>2, <1>6, <1>9 DEF SessionFits
<1>16. QED
  BY <1>2, <1>11, <1>12, <1>14, <1>15

LEMMA DHPart2Fits ==
    ASSUME SessionInv, NEW e \in Endpoints, NEW s \in Streams,
           Idle(e, s), ReceiveDHPart2(e, s), decided' = decided, commits' = commits
    PROVE  \A x \in Endpoints : Fits(x)' /\ SessionFits(x)'
<1> DEFINE p == ep[e][s]
           k == KeyOf(e, p.hv, "dh")
           q == [p EXCEPT !.state = "WAIT_CONFIRM2", !.key = k]
<1>1. ExchangeInv /\ TypeInv /\ decided[e][s] = NONE
  BY DEF SessionInv, ExchangeInv, Idle
<1>2. PICK x \in Endpoints : x = Peer(e) /\ x # e /\ Peer(x) = e /\ \A y \in Endpoints : y \in {e, x}
  BY PeerIsTheOther
<1>3. /\ p.state = "PENDINGSECURE"
      /\ ep[x][s].state = "WAIT_CONFIRM1"
      /\ ep' = [ep EXCEPT ![e][s] = q]
      /\ DeriveSession(e, p.hv, "dh")
  BY <1>2 DEF ReceiveDHPart2, Become, Mine, Theirs
<1>4. p \in StreamRecords /\ p.mode = "dh"
  BY <1>1, <1>3 DEF TypeInv, Records, SessionInv, Fits, StreamFits, Awaits
<1>5. q.state = "WAIT_CONFIRM2" /\ q.mode = "dh"
  BY <1>4 DEF StreamRecords
<1>6. /\ sess'[e] = IF sess[e] = NONE THEN p.hv ELSE sess[e]
      /\ \A y \in Endpoints : y # e => sess'[y] = sess[y]
  BY <1>1, <1>3 DEF DeriveSession, TypeInv
<1> HIDE DEF q
<1>7. s \in DhStreams(e)
  BY <1>3, <1>4 DEF DhStreams, InProgress
<1>8. sess[x] # NONE /\ sess'[e] = sess[x]
  <2>1. sess[x] # NONE
    BY <1>3 DEF SessionInv, Fits, StreamFits
  <2>2. CASE sess[e] # NONE
    BY <1>2, <1>6, <2>1, <2>2 DEF SessionInv, SessionFits
  <2>3. CASE sess[e] = NONE
    <3>1. PICK t \in Streams : ep[e][t].state = "PENDINGSECURE" /\ ep[e][t].hv = sess[x]
      BY <1>2, <2>1, <2>3 DEF SessionInv, SessionFits
    <3>2. t \in DhStreams(e)
      BY <3>1 DEF SessionInv, Fits, StreamFits, Awaits, DhStreams, InProgress
    <3>3. t = s
      BY <1>1, <1>7, <3>2 DEF ExchangeInv, OneDh
    <3>4. QED
      BY <1>6, <2>1, <2>3, <3>1, <3>3
  <2>4. QED
    BY <2>2, <2>3
<1>9. Fits(e)' /\ \A y \in Endpoints : y # e => Steady(y)
  BY <1>1, <1>3, <1>5, <1>6, <1>7, <1>8, DeriveFits DEF SessionInv
<1>10. Fits(x)'
  BY <1>1, <1>2, <1>9, SteadyKeeps DEF SessionInv
<1>11. SessionFits(e)' /\ SessionFits(x)'
  BY <1>2, <1>6, <1>8 DEF SessionFits
<1>12. QED
  BY <1>2, <1>9, <1>10, <1>11

LEMMA SessionStep ==
    ASSUME SessionInv, Preshared = {}, NEW e \in Endpoints, NEW s \in Streams,
           Stream(e, s), ~raced'
    PROVE  SessionInv'
<1>1. ExchangeInv /\ ExchangeInv' /\ TypeInv /\ Fits(e) /\ OneDh(e)
  BY ExchangeStep DEF SessionInv, ExchangeInv
<1>2. ASSUME sess' = sess, Fits(e)', Waits(e), \A x \in Endpoints : x # e => Steady(x)
      PROVE  SessionInv'
  <2>1. \A x \in Endpoints : Fits(x)' /\ Waits(x)
    BY <1>1, <1>2, SteadyKeeps DEF SessionInv
  <2>2. \A x \in Endpoints : SessionFits(x)'
    BY <1>2, <2>1, SessionKeeps, PeerIsTheOther DEF SessionInv
  <2>3. QED
    BY <1>1, <2>1, <2>2 DEF SessionInv
<1>3. CASE GoOn(e, s)
  BY <1>1, <1>2, <1>3, GoOnFits
<1>4. CASE StreamSecure(e, s) \/ Retry(e, s)
  <2>1. PICK what \in {"start", "retry"} : TryToStart(e, s, what)
    BY <1>4 DEF StreamSecure, Retry
  <2>2. /\ sess' = sess /\ commits' = commits /\ ep[e][s].state \in Before
        /\ decided[e][s] = NONE
    BY <1>4 DEF StreamSecure, Retry, Idle, Before
  <2>3. QED
    BY <1>1, <1>2, <2>1, <2>2, TryToStartFits
<1>5. ASSUME NEW c \in commits, ReceiveCommit(e, s, c)
      PROVE  SessionInv'
  BY <1>1, <1>2, <1>5, ReceiveCommitFits
<1>6. CASE Exchange(e, s) \/ TimeOut(e, s)
  <2>1. Idle(e, s) /\ decided' = decided /\ commits' = commits
    BY <1>6 DEF Exchange, TimeOut
  <2>2. CASE ReceiveDHPart1(e, s) \/ ReceiveDHPart2(e, s)
    BY <1>1, <2>1, <2>2, DHPart1Fits, DHPart2Fits DEF SessionInv
  <2>3. CASE \/ ReceiveConfirm1(e, s) \/ ReceiveConfirm2(e, s) \/ ReceiveConf2Ack(e, s)
             \/ TimeOut(e, s)
    <3>1. sess' = sess /\ \A x \in Endpoints : Steady(x)
      BY <1>1, <2>1, <2>3, LastSteady
    <3>2. Fits(e)' /\ Waits(e)
      BY <1>1, <3>1, SteadyKeeps
    <3>3. QED
      BY <1>2, <3>1, <3>2
  <2>4. QED
    BY <1>6, <2>2, <2>3 DEF Exchange
<1>7. QED
  BY <1>3, <1>4, <1>5, <1>6 DEF Stream

LEMMA SessionInit ==
    ASSUME Init
    PROVE  SessionInv
<1>1. ExchangeInv
  BY ExchangeInit
<1>2. \A e \in Endpoints : sess[e] = NONE
  BY DEF Init
<1>3. \A e \in Endpoints, s \in Streams :
          ep[e][s].state = "CLEAR" /\ ep[e][s].mode = NONE /\ decided[e][s] = NONE
  BY DEF Init
<1>4. \A e, s : DhCommits(e, s) = {}
  BY DEF Init, DhCommits
<1>5. \A e \in Endpoints, s \in Streams : StreamFits(e, s) /\ DecisionMade(e, s)
  BY <1>3, <1>4 DEF StreamFits, DecisionMade
<1>6. QED
  BY <1>1, <1>2, <1>5 DEF SessionInv, Fits, SessionFits

LEMMA SessionStutter ==
    ASSUME SessionInv, UNCHANGED vars
    PROVE  SessionInv'
<1>1. ep' = ep /\ sess' = sess /\ decided' = decided /\ commits' = commits
  BY DEF vars
<1>2. ExchangeInv' /\ TypeInv
  BY ExchangeStutter DEF SessionInv, ExchangeInv
<1>3. \A x \in Endpoints : Steady(x)
  BY <1>1 DEF Steady, Same, DhCommits
<1>4. \A x \in Endpoints : Fits(x)' /\ Waits(x)
  BY <1>2, <1>3, SteadyKeeps DEF SessionInv
<1>5. QED
  BY <1>1, <1>2, <1>4, SessionKeeps, PeerIsTheOther DEF SessionInv

(* Both endpoints take the session key of the same exchange                *)
(* (_zrtp_set_public_value), with any number of streams: an endpoint that  *)
(* has answered a DH Commit with DHPart1 or has the key starts no other DH *)
(* exchange, whichever Commits crossed, came late or gave up, unless two   *)
(* checks overlapped.                                                      *)
THEOREM OneSessionKey ==
    ASSUME Preshared = {}
    PROVE  Spec => []SameSessionUnlessRaced
<1> DEFINE Inv == TypeInv /\ (raced \/ SessionInv)
<1>1. Init => Inv
  BY SessionInit, InitType
<1>2. Inv /\ [Next]_vars => Inv'
  <2>1. ASSUME Inv, UNCHANGED vars
        PROVE  Inv'
    BY <2>1, SessionStutter DEF vars, TypeInv
  <2>2. ASSUME Inv, NEW e \in Endpoints, NEW s \in Streams, Stream(e, s)
        PROVE  Inv'
    BY <2>2, StreamType, RacedStays, SessionStep
  <2>3. QED
    BY <2>1, <2>2 DEF Next
<1>3. Inv => SameSessionUnlessRaced
  BY DEF SessionInv, SessionFits, SameSession, SameSessionUnlessRaced
<1>4. QED
  BY <1>1, <1>2, <1>3, PTL DEF Spec

-----------------------------------------------------------------------------
(* Ties between streams.  As long as no resend gives up, a DH Commit that  *)
(* has been sent is still the one of its stream, or has lost against one   *)
(* with a greater hvi that e has answered, or there is a session key.  So  *)
(* a stream that has been stopped gets no DHPart1 before it starts again.  *)

Lost(e, hv) ==
    \/ sess[e] # NONE
    \/ \E t \in Streams : ep[e][t].state = "PENDINGSECURE" /\ ep[e][t].hv >= hv

Kept(e, s) ==
    \A c \in DhCommits(e, s) :
        \/ ep[e][s].state = "INITIATINGSECURE" /\ ep[e][s].mode = "dh"
        \/ Lost(e, c.hv)

(* Stream s of e has been checked, and has stopped stream o. *)
Stops(e, s, o, hv) ==
    /\ sess[e] = NONE
    /\ o # NONE => ep[e][o].state = "INITIATINGSECURE" /\ ep[e][o].hv < hv
    /\ ep[e][s].state = "INITIATINGSECURE" => ep[e][s].hv <= hv

StopFits(e, s) ==
    decided[e][s] # NONE =>
        (decided[e][s].what = "respond" /\ decided[e][s].commit.mode = "dh" =>
            Stops(e, s, ep[e][s].concurrent, decided[e][s].commit.hv))

Ties(e) == \A s \in Streams : Kept(e, s) /\ StopFits(e, s)

TiesFit == \A e \in Endpoints : Ties(e)

(* What endpoint x has lost and has stopped stays so. *)
StillLost(x) ==
    /\ sess[x] # NONE => sess'[x] # NONE
    /\ \A t \in Streams :
          ep[x][t].state = "PENDINGSECURE" =>
              \/ sess'[x] # NONE
              \/ ep'[x][t].state = "PENDINGSECURE" /\ ep'[x][t].hv = ep[x][t].hv

LEMMA LostStays ==
    ASSUME NEW x, StillLost(x), NEW hv, Lost(x, hv)
    PROVE  Lost(x, hv)'
  BY DEF StillLost, Lost

LEMMA KeptStays ==
    ASSUME NEW x, StillLost(x), \A o \in Streams : Kept(x, o),
           \A o \in Streams : DhCommits(x, o)' = DhCommits(x, o),
           \A o \in Streams :
               ep[x][o].state = "INITIATINGSECURE" /\ ep[x][o].mode = "dh" =>
                   \/ ep'[x][o].state = "INITIATINGSECURE" /\ ep'[x][o].mode = "dh"
                   \/ \A c \in DhCommits(x, o) : Lost(x, c.hv)'
    PROVE  \A o \in Streams : Kept(x, o)'
<1>1. ASSUME NEW o \in Streams, NEW c \in DhCommits(x, o), Lost(x, c.hv)
      PROVE  Lost(x, c.hv)'
  <2>1. PICK hv : hv = c.hv
    OBVIOUS
  <2>2. Lost(x, hv)'
    BY <1>1, <2>1, LostStays
  <2>3. QED
    BY <2>1, <2>2
<1>2. QED
  BY <1>1 DEF Kept

LEMMA StopsStay ==
    ASSUME TypeInv, NEW x \in Endpoints, \A o \in Streams : StopFits(x, o),
           decided'[x] = decided[x], sess'[x] = sess[x],
           \A o \in Streams :
               /\ ep[x][o].state = "INITIATINGSECURE" /\ sess[x] = NONE =>
                      ep'[x][o].state = "INITIATINGSECURE" /\ ep'[x][o].hv = ep[x][o].hv
               /\ decided[x][o] # NONE =>
                      /\ ep'[x][o].concurrent = ep[x][o].concurrent
                      /\ ep'[x][o].state = ep[x][o].state
    PROVE  \A o \in Streams : StopFits(x, o)'
<1>1. ASSUME NEW o \in Streams, decided[x][o] # NONE
      PROVE  StopFits(x, o)'
  <2>1. PICK b : b = ep[x][o].concurrent
    OBVIOUS
  <2>2. b \in Streams \cup {NONE} /\ ep'[x][o].concurrent = b
    BY <1>1, <2>1 DEF TypeInv, Records, StreamRecords
  <2>3. \A hv : Stops(x, o, b, hv) => Stops(x, o, b, hv)'
    BY <1>1, <2>2 DEF Stops
  <2>4. PICK hv : hv = decided[x][o].commit.hv
    OBVIOUS
  <2>5. Stops(x, o, b, hv) => Stops(x, o, b, hv)'
    BY <2>3
  <2>6. QED
    BY <2>1, <2>2, <2>4, <2>5 DEF StopFits
<1>2. \A o \in Streams : decided[x][o] = NONE => StopFits(x, o)'
  BY DEF StopFits
<1>3. QED
  BY <1>1, <1>2

LEMMA TryToStartTies ==
    ASSUME TypeInv, NEW e \in Endpoints, NEW s \in Streams, NEW what \in {"start", "retry"},
           TryToStart(e, s, what), sess' = sess, commits' = commits, Ties(e),
           ep[e][s].state \in Before, decided[e][s] = NONE, ~raced'
    PROVE  Ties(e)'
<1> DEFINE mode == DefineMode(e)
           p == [ep[e][s] EXCEPT !.state = "START_INITIATINGSECURE", !.mode = mode]
           d == [what |-> what, mode |-> mode]
<1>1. ep[e][s] \in StreamRecords
  BY DEF TypeInv, Records
<1>2. PICK r : /\ ep' = [ep EXCEPT ![e][s] = r] /\ r.state = "START_INITIATINGSECURE"
               /\ Decide(e, s, d) \/ decided' = decided
  <2>1. CASE ep' = [ep EXCEPT ![e][s] = [p EXCEPT !.concurrent = NONE]] /\ Decide(e, s, d)
    <3>1. [p EXCEPT !.concurrent = NONE].state = "START_INITIATINGSECURE"
      BY <1>1 DEF StreamRecords
    <3>2. QED
      BY <2>1, <3>1
  <2>2. ASSUME NEW o, decided' = decided,
               ep' = [ep EXCEPT ![e][s] = [p EXCEPT !.concurrent = o, !.process = TRUE]]
        PROVE  \E r : /\ ep' = [ep EXCEPT ![e][s] = r] /\ r.state = "START_INITIATINGSECURE"
                      /\ decided' = decided
    <3>1. [p EXCEPT !.concurrent = o, !.process = TRUE].state = "START_INITIATINGSECURE"
      BY <1>1 DEF StreamRecords
    <3>2. QED
      BY <2>2, <3>1
  <2>3. QED
    BY <2>1, <2>2 DEF TryToStart
<1>3. d.what # "respond"
  OBVIOUS
<1> HIDE DEF d
<1>4. /\ ep'[e][s] = r
      /\ \A o \in Streams : o # s => ep'[e][o] = ep[e][o]
      /\ \A x \in Endpoints : x # e => ep'[x] = ep[x]
  <2>1. ep' = [ep EXCEPT ![e][s] = r]
    BY <1>2
  <2>2. QED
    BY ONLY TypeInv, e \in Endpoints, s \in Streams, <2>1, Changed
<1>5. StillLost(e)
  BY <1>4 DEF StillLost, Before
<1>6. \A o : DhCommits(e, o)' = DhCommits(e, o)
  BY DEF DhCommits
<1>7. \A o \in Streams : Kept(e, o) /\ StopFits(e, o)
  BY DEF Ties
<1>8. \A o \in Streams : Kept(e, o)'
  BY <1>4, <1>5, <1>6, <1>7, KeptStays DEF Before
<1>9. CASE decided' = decided
  BY <1>4, <1>7, <1>8, <1>9, StopsStay DEF Ties, Before
<1>10. CASE Decide(e, s, d)
  <2>1. decided'[e][s] = d /\ \A o \in Streams : o # s => decided'[e][o] = NONE
    BY <1>10, Decided, DecidesAlone
  <2>2. QED
    BY <1>3, <1>8, <2>1 DEF Ties, StopFits
<1>11. QED
  BY <1>2, <1>9, <1>10

LEMMA EnterInitiatingTies ==
    ASSUME TypeInv, NEW e \in Endpoints, NEW s \in Streams, NEW mode \in {"dh", "mult"},
           WillStart(e, s, mode), EnterInitiating(e, s, mode), Done(e, s), Ties(e),
           \A o \in Streams : o # s => decided[e][o] = NONE
    PROVE  Ties(e)' /\ \A x \in Endpoints, o \in Streams :
                           x # e => DhCommits(x, o)' = DhCommits(x, o)
<1>1. PICK n \in (1 .. MaxCommits) \ Drawn :
          /\ ep' = [ep EXCEPT ![e][s] =
                 [state |-> "INITIATINGSECURE", mode |-> mode, hv |-> n, key |-> NONE,
                  concurrent |-> NONE, resend |-> TRUE, process |-> FALSE]]
          /\ commits' = commits \cup {[to |-> Peer(e), stream |-> s, mode |-> mode, hv |-> n]}
          /\ UNCHANGED sess
  BY DEF EnterInitiating
<1> DEFINE r == [state |-> "INITIATINGSECURE", mode |-> mode, hv |-> n, key |-> NONE,
                 concurrent |-> NONE, resend |-> TRUE, process |-> FALSE]
           k == [to |-> Peer(e), stream |-> s, mode |-> mode, hv |-> n]
<1>2. /\ ep' = [ep EXCEPT ![e][s] = r] /\ commits' = commits \cup {k} /\ sess' = sess
      /\ r.state = "INITIATINGSECURE" /\ r.mode = mode
      /\ k.to = Peer(e) /\ k.stream = s /\ k.mode = mode
  BY <1>1
<1> HIDE DEF r, k
<1>3. /\ ep'[e][s] = r
      /\ \A o \in Streams : o # s => ep'[e][o] = ep[e][o]
      /\ \A x \in Endpoints : x # e => ep'[x] = ep[x]
  <2>1. ep' = [ep EXCEPT ![e][s] = r]
    BY <1>2
  <2>2. QED
    BY ONLY TypeInv, e \in Endpoints, s \in Streams, <2>1, Changed
<1>4. \A o \in Streams : decided'[e][o] = NONE
  BY Decided
<1>5. ep[e][s].state = "START_INITIATINGSECURE"
  BY DEF WillStart
<1>6. StillLost(e)
  BY <1>2, <1>3, <1>5 DEF StillLost
<1>7. \A x \in Endpoints : Peer(x) = Peer(e) => x = e
  BY PeerIsTheOther
<1>8. \A x \in Endpoints, o \in Streams : x # e => DhCommits(x, o)' = DhCommits(x, o)
  BY <1>2, <1>7 DEF DhCommits
<1>9. ASSUME NEW o \in Streams, NEW c \in DhCommits(e, o)', o # s \/ mode = "mult"
      PROVE  \/ ep'[e][o].state = "INITIATINGSECURE" /\ ep'[e][o].mode = "dh"
             \/ Lost(e, c.hv)'
  <2>1. c \in DhCommits(e, o)
    BY <1>2, <1>9 DEF DhCommits
  <2>2. PICK hv : hv = c.hv
    OBVIOUS
  <2>3. CASE Lost(e, hv)
    <3>1. Lost(e, hv)'
      BY <1>6, <2>3, LostStays
    <3>2. QED
      BY <2>2, <3>1
  <2>4. CASE ep[e][o].state = "INITIATINGSECURE" /\ ep[e][o].mode = "dh"
    BY <1>3, <1>5, <2>4
  <2>5. Kept(e, o)
    BY DEF Ties
  <2>6. QED
    BY <2>1, <2>2, <2>3, <2>4, <2>5 DEF Kept
<1>10. \A o \in Streams : Kept(e, o)'
  BY <1>2, <1>3, <1>9 DEF Kept
<1>11. QED
  BY <1>4, <1>8, <1>10 DEF Ties, StopFits


LEMMA EnterPendingTies ==
    ASSUME TypeInv, NEW e \in Endpoints, NEW s \in Streams, NEW c \in Commits,
           RespondFits(e, s, c.mode), WillRespond(e, s, c), EnterPending(e, s, c),
           c.mode = "dh" => Stops(e, s, ep[e][s].concurrent, c.hv),
           Done(e, s), Fits(e), Ties(e), sess' = sess,
           \A o \in Streams : o # s => decided[e][o] = NONE
    PROVE  Ties(e)' /\ \A x \in Endpoints : x # e => ep'[x] = ep[x]
<1> DEFINE p == [ep[e][s] EXCEPT !.mode = c.mode, !.hv = c.hv,
                                 !.resend = FALSE, !.process = FALSE]
           q == [p EXCEPT !.state = "PENDINGSECURE", !.concurrent = NONE]
           w == [p EXCEPT !.state = "WAIT_CONFIRM2", !.key = KeyOf(e, c.hv, c.mode)]
           b == ep[e][s].concurrent
           r == [ep[e][b] EXCEPT !.state = "START_INITIATINGSECURE",
                                 !.mode = DefineMode(e), !.concurrent = s, !.process = TRUE]
<1>1. /\ IF c.mode = "dh"
         THEN IF p.concurrent = NONE
              THEN ep' = [ep EXCEPT ![e][s] = q]
              ELSE ep' = [ep EXCEPT ![e] = ResumeConcurrent(e, s, q, p.concurrent)]
         ELSE ep' = [ep EXCEPT ![e][s] = w]
      /\ commits' = commits
  BY DEF EnterPending
<1>2. ep[e][s] \in StreamRecords
  BY DEF TypeInv, Records
<1>3. p.concurrent = b /\ q.state = "PENDINGSECURE" /\ q.hv = c.hv
  BY <1>2 DEF StreamRecords
<1>4. b \in Streams \cup {NONE} /\ NONE \notin Streams
  BY <1>2, StreamsAssumption DEF StreamRecords
<1>5. ResumeConcurrent(e, s, q, b) = [ep[e] EXCEPT ![s] = q, ![b] = r]
  BY DEF ResumeConcurrent
<1> HIDE DEF p, q, w, b, r
<1>6. \A o \in Streams : decided'[e][o] = NONE
  BY Decided
<1>7. \A o \in Streams : StopFits(e, o)'
  BY <1>6 DEF StopFits
<1>8. \A x, o : DhCommits(x, o)' = DhCommits(x, o)
  BY <1>1 DEF DhCommits
<1>9. CASE c.mode = "mult"
  <2>1. sess'[e] # NONE
    BY <1>9 DEF RespondFits
  <2>2. \A o \in Streams : Kept(e, o)'
    BY <2>1 DEF Kept, Lost
  <2>3. ep' = [ep EXCEPT ![e][s] = w]
    BY <1>1, <1>9
  <2>4. \A x \in Endpoints : x # e => ep'[x] = ep[x]
    BY <2>3 DEF TypeInv
  <2>5. QED
    BY <1>7, <2>2, <2>4 DEF Ties
<1>10. ASSUME c.mode = "dh", ep'[e][s] = q,
              \A t \in Streams : t # s /\ t # b => ep'[e][t] = ep[e][t]
       PROVE  Ties(e)'
  <2>1. Stops(e, s, b, c.hv) /\ DhStreams(e) \subseteq {s, b}
    BY <1>10 DEF RespondFits, b
  <2>2. StillLost(e)
    BY <1>10, <2>1, <1>4 DEF StillLost, Stops, WillRespond, Before
  <2>3. ASSUME NEW o \in Streams, NEW k \in DhCommits(e, o)'
        PROVE  Lost(e, k.hv)'
    <3>1. k \in DhCommits(e, o) /\ Kept(e, o) /\ Sent(e, o, k)
      BY <1>8, <2>3 DEF Ties, Fits, StreamFits
    <3>2. PICK hv : hv = k.hv
      OBVIOUS
    <3>3. CASE Lost(e, hv)
      <4>1. Lost(e, hv)'
        BY <2>2, <3>3, LostStays
      <4>2. QED
        BY <3>2, <4>1
    <3>4. CASE ep[e][o].state = "INITIATINGSECURE" /\ ep[e][o].mode = "dh"
      <4>1. o \in {s, b} /\ ep[e][o].hv = k.hv
        BY <2>1, <3>1, <3>4 DEF DhStreams, InProgress, Sent
      <4>2. ep[e][o].hv \in 0 .. MaxCommits /\ c.hv \in 1 .. MaxCommits /\ MaxCommits \in Nat
        BY StreamsAssumption DEF TypeInv, Records, StreamRecords, Commits
      <4>3. ep[e][o].hv <= c.hv
        BY <1>4, <2>1, <3>4, <4>1, <4>2 DEF Stops
      <4>4. QED
        BY <1>3, <1>10, <4>1, <4>3 DEF Lost
    <3>5. QED
      BY <3>1, <3>2, <3>3, <3>4 DEF Kept
  <2>4. QED
    BY <1>7, <2>3 DEF Ties, Kept
<1>11. CASE c.mode = "dh" /\ b = NONE
  <2>1. ep' = [ep EXCEPT ![e][s] = q]
    BY <1>1, <1>3, <1>11
  <2>2. /\ ep'[e][s] = q
        /\ \A o \in Streams : o # s => ep'[e][o] = ep[e][o]
        /\ \A x \in Endpoints : x # e => ep'[x] = ep[x]
    BY <2>1, Changed
  <2>3. QED
    BY <1>10, <1>11, <2>2
<1>12. CASE c.mode = "dh" /\ b # NONE
  <2>1. b \in Streams /\ b # s
    BY <1>4, <1>12 DEF RespondFits, b
  <2>2. ep' = [ep EXCEPT ![e] = ResumeConcurrent(e, s, q, b)]
    BY <1>1, <1>3, <1>12
  <2>3. /\ ep'[e] = [ep[e] EXCEPT ![s] = q, ![b] = r]
        /\ \A x \in Endpoints : x # e => ep'[x] = ep[x]
    BY <1>5, <2>1, <2>2 DEF TypeInv
  <2>4. ep[e] \in [Streams -> Records]
    BY DEF TypeInv
  <2>5. ep'[e][s] = q /\ \A t \in Streams : t # s /\ t # b => ep'[e][t] = ep[e][t]
    BY <2>1, <2>3, <2>4
  <2>6. QED
    BY <1>10, <1>12, <2>3, <2>5
<1>13. c.mode \in {"dh", "mult"}
  BY DEF RespondFits, Commits, Modes
<1>14. QED
  BY <1>9, <1>11, <1>12, <1>13

LEMMA GoOnTies ==
    ASSUME SessionInv, Preshared = {}, NEW e \in Endpoints, NEW s \in Streams, Ties(e),
           GoOn(e, s)
    PROVE  /\ Ties(e)'
           /\ \A x \in Endpoints : x # e => /\ ep'[x] = ep[x] /\ decided'[x] = decided[x]
                                            /\ sess'[x] = sess[x]
                                            /\ \A o \in Streams : DhCommits(x, o)' = DhCommits(x, o)
<1>1. PICK d : d = decided[e][s]
  OBVIOUS
<1>2. /\ d # NONE /\ d \in Decisions /\ TypeInv /\ Done(e, s) /\ ExchangeInv
      /\ Fits(e) /\ OneDh(e)
  BY <1>1 DEF GoOn, SessionInv, ExchangeInv, TypeInv
<1>3. \A o \in Streams : o # s => decided[e][o] = NONE
  BY <1>1, <1>2 DEF OneDh
<1>4. DecisionMade(e, s) /\ DecisionFits(e, s) /\ StopFits(e, s)
  BY <1>2 DEF Fits, OneDh, Ties
<1>5. sess' = sess
  BY <1>2, GoOnFits
<1>6. \A x \in Endpoints : x # e => decided'[x] = decided[x]
  BY <1>2, Decided
<1>7. CASE d.what = "respond"
  <2>1. d.commit \in Commits
    BY <1>2, <1>7 DEF Decisions
  <2>2. EnterPending(e, s, d.commit) /\ commits' = commits
    BY <1>1, <1>7 DEF GoOn, EnterPending
  <2>3. /\ RespondFits(e, s, d.commit.mode) /\ WillRespond(e, s, d.commit)
        /\ d.commit.mode = "dh" => Stops(e, s, ep[e][s].concurrent, d.commit.hv)
    BY <1>1, <1>2, <1>4, <1>7 DEF DecisionMade, DecisionFits, StopFits
  <2>4. \A x, o : DhCommits(x, o)' = DhCommits(x, o)
    BY <2>2 DEF DhCommits
  <2>5. QED
    BY <1>2, <1>3, <1>5, <1>6, <2>1, <2>2, <2>3, <2>4, EnterPendingTies
<1>8. CASE d.what # "respond"
  <2>1. EnterInitiating(e, s, d.mode)
    BY <1>1, <1>8 DEF GoOn
  <2>2. StartFits(e, s, d.mode) /\ WillStart(e, s, d.mode)
    BY <1>1, <1>2, <1>4, <1>8 DEF DecisionMade, DecisionFits
  <2>3. d.mode \in {"dh", "mult"}
    BY <1>2, <1>8, <2>2 DEF StartFits, Decisions, Modes
  <2>4. \A x \in Endpoints : x # e => ep'[x] = ep[x]
    BY <1>2, <2>1 DEF EnterInitiating, TypeInv
  <2>5. QED
    BY <1>2, <1>3, <1>5, <1>6, <2>1, <2>2, <2>3, <2>4, EnterInitiatingTies
<1>9. QED
  BY <1>7, <1>8

LEMMA ReceiveCommitTies ==
    ASSUME SessionInv, NEW e \in Endpoints, NEW s \in Streams, NEW c \in commits, Ties(e),
           ReceiveCommit(e, s, c), ~raced'
    PROVE  Ties(e)' /\ \A x \in Endpoints : x # e => ep'[x] = ep[x] /\ decided'[x] = decided[x]
<1> DEFINE others == Concurrent(e, s, c.mode)
           d == [what |-> "respond", commit |-> c]
<1>1. /\ sess' = sess /\ commits' = commits /\ others \subseteq Streams \ {s}
      /\ decided[e][s] = NONE /\ TypeInv /\ Fits(e) /\ OneDh(e)
      /\ ep[e][s].state \in Before \cup {"INITIATINGSECURE"}
  BY DEF ReceiveCommit, Concurrent, Idle, SessionInv, ExchangeInv
<1>2. ep[e][s] \in StreamRecords /\ ep[e] \in [Streams -> Records]
  BY <1>1 DEF TypeInv, Records
<1>3. d.what = "respond" /\ d.commit = c
  OBVIOUS
<1> HIDE DEF d
<1>4. \A x, o : DhCommits(x, o)' = DhCommits(x, o)
  BY <1>1 DEF DhCommits
<1>5. ASSUME c.mode = "dh", RoleFor(e, s, c) = "responder"
      PROVE  sess[e] = NONE /\ (ep[e][s].state = "INITIATINGSECURE" => ep[e][s].hv <= c.hv)
  <2>1. sess[e] = NONE
    BY <1>5, StreamsAssumption DEF RoleFor
  <2>2. ASSUME ep[e][s].state = "INITIATINGSECURE"
        PROVE  ep[e][s].hv <= c.hv
    <3>1. ep[e][s].mode = "dh"
      BY <1>1, <2>1, <2>2 DEF Fits, StreamFits, OneDh
    <3>2. ~(ep[e][s].hv > c.hv)
      BY <1>5, <2>2, <3>1 DEF RoleFor
    <3>3. ep[e][s].hv \in 0 .. MaxCommits /\ c.hv \in 1 .. MaxCommits /\ MaxCommits \in Nat
      BY <1>1, <1>2, StreamsAssumption DEF TypeInv, StreamRecords, Commits
    <3>4. QED
      BY <3>2, <3>3
  <2>3. QED
    BY <2>1, <2>2
<1>6. ASSUME \A q \in Streams :
                 /\ ep'[e][q].state = ep[e][q].state /\ ep'[e][q].mode = ep[e][q].mode
                 /\ ep'[e][q].hv = ep[e][q].hv,
             \A q \in Streams : q # s => ep'[e][q].concurrent = ep[e][q].concurrent,
             NEW b \in Streams \cup {NONE},
             \/ decided' = decided
             \/ /\ Decide(e, s, d) /\ RoleFor(e, s, c) = "responder"
                /\ ep'[e][s].concurrent = b
                /\ b # NONE => Yields(e, b, c)
      PROVE  Ties(e)' /\ \A x \in Endpoints : x # e => decided'[x] = decided[x]
  <2>1. StillLost(e)
    BY <1>1, <1>6 DEF StillLost
  <2>2. \A o \in Streams : Kept(e, o) /\ StopFits(e, o)
    BY DEF Ties
  <2>3. \A o \in Streams : Kept(e, o)'
    BY <1>4, <1>6, <2>1, <2>2, KeptStays
  <2>4. CASE decided' = decided
    <3>1. \A o \in Streams : StopFits(e, o)'
      BY <1>1, <1>6, <2>2, <2>4, StopsStay
    <3>2. QED
      BY <2>3, <2>4, <3>1 DEF Ties
  <2>5. CASE /\ Decide(e, s, d) /\ RoleFor(e, s, c) = "responder"
             /\ ep'[e][s].concurrent = b
             /\ b # NONE => Yields(e, b, c)
    <3>1. /\ decided'[e][s] = d /\ \A t \in Streams : t # s => decided'[e][t] = NONE
          /\ \A x \in Endpoints : x # e => decided'[x] = decided[x]
      BY <1>1, <2>5, Decided, DecidesAlone
    <3>2. ASSUME c.mode = "dh"
          PROVE  Stops(e, s, b, c.hv)'
      BY <1>1, <1>5, <1>6, <2>5, <3>2 DEF Stops, Yields
    <3>3. StopFits(e, s)'
      BY <1>3, <2>5, <3>1, <3>2 DEF StopFits
    <3>4. \A t \in Streams : StopFits(e, t)'
      BY <3>1, <3>3 DEF StopFits
    <3>5. QED
      BY <2>3, <3>1, <3>4 DEF Ties
  <2>6. QED
    BY <1>6, <2>4, <2>5
<1>7. ASSUME NEW b \in Streams \cup {NONE}, ep' = [ep EXCEPT ![e][s].concurrent = b]
      PROVE  /\ \A q \in Streams :
                   /\ ep'[e][q].state = ep[e][q].state /\ ep'[e][q].mode = ep[e][q].mode
                   /\ ep'[e][q].hv = ep[e][q].hv
             /\ \A q \in Streams : q # s => ep'[e][q].concurrent = ep[e][q].concurrent
             /\ \A x \in Endpoints : x # e => ep'[x] = ep[x]
             /\ ep'[e][s].concurrent = b
  <2> DEFINE r == [ep[e][s] EXCEPT !.concurrent = b]
  <2>1. /\ r.state = ep[e][s].state /\ r.mode = ep[e][s].mode /\ r.hv = ep[e][s].hv
        /\ r.concurrent = b
    BY <1>2 DEF StreamRecords
  <2>2. ep' = [ep EXCEPT ![e][s] = r]
    BY <1>7
  <2> HIDE DEF r
  <2>3. /\ ep'[e][s] = r
        /\ \A q \in Streams : q # s => ep'[e][q] = ep[e][q]
        /\ \A x \in Endpoints : x # e => ep'[x] = ep[x]
    BY <1>1, <2>2, Changed
  <2>4. QED
    BY <2>1, <2>3
<1>8. CASE /\ RoleFor(e, s, c) = "responder" /\ others = {}
           /\ ep' = [ep EXCEPT ![e][s].concurrent = NONE] /\ Decide(e, s, d)
  BY <1>6, <1>7, <1>8
<1>9. ASSUME NEW o \in others, Decide(e, s, d), Yields(e, o, c), RoleFor(e, s, c) = "responder",
             ep' = [ep EXCEPT ![e][s].concurrent = o,
                              ![e][o] = [ep[e][o] EXCEPT !.resend = FALSE,
                                                         !.process = FALSE]]
      PROVE  Ties(e)' /\ \A x \in Endpoints : x # e => ep'[x] = ep[x] /\ decided'[x] = decided[x]
  <2> DEFINE r == [ep[e][s] EXCEPT !.concurrent = o]
             q == [ep[e][o] EXCEPT !.resend = FALSE, !.process = FALSE]
  <2>1. o \in Streams /\ o # s /\ ep[e][o] \in StreamRecords
    BY <1>1, <1>2, <1>9 DEF Records
  <2>2. /\ r.state = ep[e][s].state /\ r.mode = ep[e][s].mode /\ r.hv = ep[e][s].hv
        /\ r.concurrent = o
    BY <1>2 DEF StreamRecords
  <2>3. /\ q.state = ep[e][o].state /\ q.mode = ep[e][o].mode /\ q.hv = ep[e][o].hv
        /\ q.concurrent = ep[e][o].concurrent
    BY <2>1 DEF StreamRecords
  <2>4. ep' = [ep EXCEPT ![e][s] = r, ![e][o] = q]
    BY <1>9
  <2> HIDE DEF r, q
  <2>5. /\ ep'[e][s] = r /\ ep'[e][o] = q
        /\ \A t \in Streams \ {s, o} : ep'[e][t] = ep[e][t]
        /\ \A x \in Endpoints : x # e => ep'[x] = ep[x]
    BY <1>1, <2>1, <2>4 DEF TypeInv
  <2>6. \A t \in Streams :
            /\ ep'[e][t].state = ep[e][t].state /\ ep'[e][t].mode = ep[e][t].mode
            /\ ep'[e][t].hv = ep[e][t].hv
            /\ t # s => ep'[e][t].concurrent = ep[e][t].concurrent
    BY <2>2, <2>3, <2>5
  <2>7. QED
    BY <1>6, <1>9, <2>1, <2>2, <2>5, <2>6
<1>10. ASSUME NEW o \in others, decided' = decided, ep' = [ep EXCEPT ![e][s].concurrent = o]
      PROVE  Ties(e)' /\ \A x \in Endpoints : x # e => ep'[x] = ep[x] /\ decided'[x] = decided[x]
  BY <1>1, <1>6, <1>7, <1>10
<1>11. CASE TryToStart(e, s, "start") /\ ep[e][s].state = "CLEAR"
  <2>1. ep[e][s].state \in Before
    BY <1>11 DEF Before
  <2>2. \A x \in Endpoints : x # e => ep'[x] = ep[x] /\ decided'[x] = decided[x]
    BY <1>1, <1>11 DEF TryToStart, TypeInv, Decide
  <2>3. QED
    BY <1>1, <1>11, <2>1, <2>2, TryToStartTies
<1>12. QED
  BY <1>1, <1>8, <1>9, <1>10, <1>11 DEF ReceiveCommit, d

(* The session key settles all ties of e.  It comes with DHPart1 or        *)
(* DHPart2 of stream s, which no other stream has stopped then.            *)
LEMMA DeriveTies ==
    ASSUME SessionInv, TiesFit, NEW e \in Endpoints, NEW s \in Streams, Idle(e, s),
           \/ ReceiveDHPart1(e, s) \/ ReceiveDHPart2(e, s), decided' = decided
    PROVE  Ties(e)' /\ \A x \in Endpoints : x # e => ep'[x] = ep[x] /\ sess'[x] = sess[x]
<1> DEFINE p == ep[e][s]
<1>1. TypeInv /\ decided[e][s] = NONE /\ OneDh(e) /\ Fits(e)
  BY DEF SessionInv, ExchangeInv, Idle
<1>2. PICK x \in Endpoints : x = Peer(e) /\ x # e /\ Peer(x) = e
  BY PeerIsTheOther
<1>3. p.mode = "dh" /\ p.hv \in 1 .. MaxCommits
  <2>1. p.state \in InProgress /\ p.mode = "dh"
    BY <1>1 DEF ReceiveDHPart1, ReceiveDHPart2, Mine, Fits, StreamFits, Awaits, InProgress
  <2>2. p.hv \in 0 .. MaxCommits /\ p.hv > 0 /\ MaxCommits \in Nat
    BY <1>1, <2>1, StreamsAssumption DEF TypeInv, Records, StreamRecords
  <2>3. QED
    BY <2>1, <2>2
<1>4. s \in DhStreams(e)
  BY <1>3 DEF ReceiveDHPart1, ReceiveDHPart2, Mine, DhStreams, InProgress
<1>5. /\ sess'[e] # NONE /\ \A y \in Endpoints : y # e => sess'[y] = sess[y]
      /\ \A y \in Endpoints : y # e => ep'[y] = ep[y]
  <2>1. p.hv # NONE
    BY <1>3, StreamsAssumption
  <2>2. DeriveSession(e, p.hv, "dh")
    BY DEF ReceiveDHPart1, ReceiveDHPart2, Mine
  <2>3. \A y \in Endpoints : y # e => ep'[y] = ep[y]
    BY <1>1 DEF ReceiveDHPart1, ReceiveDHPart2, Become, TypeInv
  <2>4. QED
    BY <1>1, <2>1, <2>2, <2>3 DEF DeriveSession, TypeInv
<1>6. ASSUME NEW o \in Streams, decided[e][o] # NONE, decided[e][o].what = "respond",
             decided[e][o].commit.mode = "dh"
      PROVE  FALSE
  <2> DEFINE c == decided[e][o].commit
  <2>1. /\ o # s /\ RespondFits(e, o, "dh") /\ WillRespond(e, o, c)
        /\ Stops(e, o, ep[e][o].concurrent, c.hv)
    BY <1>1, <1>6 DEF OneDh, DecisionFits, Fits, DecisionMade, TiesFit, Ties, StopFits
  <2>2. ep[e][o].concurrent = s /\ s # NONE
    BY <1>4, <2>1, StreamsAssumption DEF RespondFits
  <2>3. sess[e] = NONE /\ p.state = "INITIATINGSECURE" /\ p.hv < c.hv
    BY <2>1, <2>2 DEF Stops
  <2>4. ep[x][s].state = "PENDINGSECURE"
    BY <1>2, <2>3 DEF ReceiveDHPart1, ReceiveDHPart2, Mine, Theirs
  <2>5. ep[x][s].hv = p.hv
    <3>1. StreamFits(x, s) /\ StreamFits(e, s)
      BY DEF SessionInv, Fits
    <3>2. PICK k \in DhCommits(e, s) : k.hv = ep[x][s].hv
      BY <1>2, <2>4, <3>1 DEF StreamFits, Awaits
    <3>3. QED
      BY <1>3, <2>3, <3>1, <3>2 DEF StreamFits, Sent
  <2>6. c \in DhCommits(x, o)
    BY <1>2, <1>6, <2>1 DEF WillRespond, DhCommits
  <2>7. \A t \in Streams : ep[x][t].state = "PENDINGSECURE" => t \in DhStreams(x)
    BY DEF SessionInv, Fits, StreamFits, Awaits, DhStreams, InProgress
  <2>8. \A t \in DhStreams(x) : t = s
    BY <2>4, <2>7 DEF SessionInv, ExchangeInv, OneDh
  <2>9. ~(ep[x][o].state = "INITIATINGSECURE" /\ ep[x][o].mode = "dh")
    BY <2>1, <2>8 DEF DhStreams, InProgress
  <2>10. sess[x] = NONE
    <3>1. \A t \in Streams : ep[e][t].state = "PENDINGSECURE" => t \in DhStreams(e)
      BY <1>1 DEF Fits, StreamFits, Awaits, DhStreams, InProgress
    <3>2. \A t \in Streams : ep[e][t].state # "PENDINGSECURE"
      BY <1>1, <1>4, <2>3, <3>1 DEF OneDh
    <3>3. QED
      BY <1>2, <2>3, <3>2 DEF SessionInv, SessionFits
  <2>11. PICK t \in Streams : ep[x][t].state = "PENDINGSECURE" /\ ep[x][t].hv >= c.hv
    BY <1>2, <2>6, <2>9, <2>10 DEF TiesFit, Ties, Kept, Lost
  <2>12. t = s
    BY <2>7, <2>8, <2>11
  <2>13. c.hv \in 1 .. MaxCommits /\ MaxCommits \in Nat
    BY <1>1, <2>1, StreamsAssumption DEF WillRespond, TypeInv, Commits
  <2> HIDE DEF c, p
  <2>14. p.hv >= c.hv
    BY <2>5, <2>11, <2>12
  <2>15. QED
    BY <1>3, <2>3, <2>13, <2>14
<1>7. \A o \in Streams : StopFits(e, o)'
  BY <1>6 DEF StopFits
<1>8. \A o \in Streams : Kept(e, o)'
  BY <1>5 DEF Kept, Lost
<1>9. QED
  BY <1>5, <1>7, <1>8 DEF Ties

(* A stream that is past its DH exchange, or in a Multistream one. *)
LEMMA PastTies ==
    ASSUME SessionInv, NEW e \in Endpoints, NEW s \in Streams, NEW r, Ties(e),
           ep' = [ep EXCEPT ![e][s] = r], sess' = sess, decided' = decided,
           commits' = commits, decided[e][s] = NONE, ep[e][s].state # "PENDINGSECURE",
           ep[e][s].state = "INITIATINGSECURE" => ep[e][s].mode # "dh"
    PROVE  Ties(e)' /\ \A x \in Endpoints : x # e => ep'[x] = ep[x]
<1>1. TypeInv /\ OneDh(e) /\ Fits(e)
  BY DEF SessionInv, ExchangeInv
<1>2. /\ ep'[e][s] = r
      /\ \A o \in Streams : o # s => ep'[e][o] = ep[e][o]
      /\ \A x \in Endpoints : x # e => ep'[x] = ep[x]
  BY ONLY <1>1, e \in Endpoints, s \in Streams, ep' = [ep EXCEPT ![e][s] = r], Changed
<1>3. StillLost(e)
  BY <1>2 DEF StillLost
<1>4. \A o : DhCommits(e, o)' = DhCommits(e, o)
  BY DEF DhCommits
<1>5. \A o \in Streams : Kept(e, o) /\ StopFits(e, o)
  BY DEF Ties
<1>6. \A o \in Streams : Kept(e, o)'
  BY <1>2, <1>3, <1>4, <1>5, KeptStays
<1>7. ep[e][s].state = "INITIATINGSECURE" => sess[e] # NONE
  BY <1>1 DEF Fits, StreamFits, OneDh
<1>8. \A o \in Streams : StopFits(e, o)'
  BY <1>1, <1>2, <1>5, <1>7, StopsStay
<1>9. QED
  BY <1>2, <1>6, <1>8 DEF Ties

LEMMA ConfirmTies ==
    ASSUME SessionInv, NEW e \in Endpoints, NEW s \in Streams, Ties(e), Idle(e, s),
           \/ ReceiveConfirm1(e, s) \/ ReceiveConfirm2(e, s) \/ ReceiveConf2Ack(e, s),
           decided' = decided, commits' = commits, NoneFails', timeouts' = 0
    PROVE  Ties(e)' /\ \A x \in Endpoints : x # e => ep'[x] = ep[x] /\ sess'[x] = sess[x]
<1>1. TypeInv /\ OneDh(e) /\ Fits(e) /\ decided[e][s] = NONE
  BY DEF SessionInv, ExchangeInv, Idle
<1>2. sess' = sess
  BY <1>1, LastSteady
<1>3. ASSUME NEW key, NEW p, Confirm(e, s, key, p)
      PROVE  ep' = [ep EXCEPT ![e][s] = p]
  <2>1. CASE ep' = [o \in Endpoints |-> [ep[o] EXCEPT ![s] = [ep[o][s] EXCEPT
                      !.state = "ERROR", !.resend = FALSE, !.process = FALSE]]]
    <3>1. ep'[e][s] = [ep[e][s] EXCEPT !.state = "ERROR", !.resend = FALSE, !.process = FALSE]
      BY <1>1, <2>1 DEF TypeInv
    <3>2. ep'[e][s].state = "ERROR"
      BY <1>1, <3>1 DEF TypeInv, Records, StreamRecords
    <3>3. QED
      BY <3>2 DEF NoneFails
  <2>2. QED
    BY <1>3, <2>1 DEF Confirm, Become
<1>4. /\ \E r : ep' = [ep EXCEPT ![e][s] = r]
      /\ ep[e][s].state # "PENDINGSECURE"
      /\ ep[e][s].state = "INITIATINGSECURE" => ep[e][s].mode # "dh"
  BY <1>3 DEF ReceiveConfirm1, ReceiveConfirm2, ReceiveConf2Ack, Become, Mine
<1>5. PICK r : ep' = [ep EXCEPT ![e][s] = r]
  BY <1>4
<1>6. QED
  BY <1>1, <1>2, <1>4, <1>5, PastTies

(* The other endpoint. *)
LEMMA TiesOther ==
    ASSUME TypeInv, NEW x \in Endpoints, Ties(x), ep'[x] = ep[x], decided'[x] = decided[x],
           sess'[x] = sess[x], \A o \in Streams : DhCommits(x, o)' = DhCommits(x, o)
    PROVE  Ties(x)'
<1>1. StillLost(x)
  BY DEF StillLost
<1>2. \A o \in Streams : Kept(x, o) /\ StopFits(x, o)
  BY DEF Ties
<1>3. \A o \in Streams : Kept(x, o)'
  BY <1>1, <1>2, KeptStays
<1>4. \A o \in Streams : StopFits(x, o)'
  BY <1>2, StopsStay
<1>5. QED
  BY <1>3, <1>4 DEF Ties

LEMMA TiesStep ==
    ASSUME SessionInv, TiesFit, NoneFails', Preshared = {}, NEW e \in Endpoints,
           NEW s \in Streams, Stream(e, s), ~raced', timeouts' = 0
    PROVE  TiesFit'
<1>1. TypeInv /\ Ties(e)
  BY DEF SessionInv, ExchangeInv, TiesFit
<1>2. ASSUME commits' = commits
      PROVE  \A x, o : DhCommits(x, o)' = DhCommits(x, o)
  BY <1>2 DEF DhCommits
<1>3. ASSUME Ties(e)',
             \A x \in Endpoints : x # e => /\ ep'[x] = ep[x] /\ decided'[x] = decided[x]
                                           /\ sess'[x] = sess[x]
                                           /\ \A o \in Streams : DhCommits(x, o)' = DhCommits(x, o)
      PROVE  TiesFit'
  BY <1>1, <1>3, TiesOther DEF TiesFit
<1>4. CASE GoOn(e, s)
  BY <1>1, <1>3, <1>4, GoOnTies
<1>5. CASE StreamSecure(e, s) \/ Retry(e, s)
  <2>1. PICK what \in {"start", "retry"} : TryToStart(e, s, what)
    BY <1>5 DEF StreamSecure, Retry
  <2>2. /\ sess' = sess /\ commits' = commits /\ ep[e][s].state \in Before
        /\ decided[e][s] = NONE
    BY <1>5 DEF StreamSecure, Retry, Idle, Before
  <2>3. \A x \in Endpoints : x # e => ep'[x] = ep[x] /\ decided'[x] = decided[x]
    BY <1>1, <2>1 DEF TryToStart, TypeInv, Decide
  <2>4. QED
    BY <1>1, <1>2, <1>3, <2>1, <2>2, <2>3, TryToStartTies
<1>6. ASSUME NEW c \in commits, ReceiveCommit(e, s, c)
      PROVE  TiesFit'
  <2>1. sess' = sess /\ commits' = commits
    BY <1>6 DEF ReceiveCommit
  <2>2. QED
    BY <1>1, <1>2, <1>3, <1>6, <2>1, ReceiveCommitTies
<1>7. CASE Exchange(e, s)
  <2>1. Idle(e, s) /\ decided' = decided /\ commits' = commits
    BY <1>7 DEF Exchange
  <2>2. CASE ReceiveDHPart1(e, s) \/ ReceiveDHPart2(e, s)
    BY <1>2, <1>3, <2>1, <2>2, DeriveTies
  <2>3. CASE ReceiveConfirm1(e, s) \/ ReceiveConfirm2(e, s) \/ ReceiveConf2Ack(e, s)
    BY <1>1, <1>2, <1>3, <2>1, <2>3, ConfirmTies
  <2>4. QED
    BY <1>7, <2>2, <2>3 DEF Exchange
<1>8. CASE TimeOut(e, s)
  <2>1. timeouts \in Nat /\ timeouts' = timeouts + 1
    BY <1>1, <1>8 DEF TimeOut, TypeInv
  <2>2. QED
    BY <2>1
<1>9. QED
  BY <1>4, <1>5, <1>6, <1>7, <1>8 DEF Stream

-----------------------------------------------------------------------------
(* No exchange fails.  What decides is the keys: both sides of a Confirm   *)
(* have the same one, although Commits cross and come late, and streams    *)
(* are stopped and start again.  All this as long as no resend has given   *)
(* up.                                                                     *)

(* The Multistream Commits e has sent for stream s. *)
MultCommits(e, s) == {c \in commits : c.to = Peer(e) /\ c.stream = s /\ c.mode = "mult"}

(* A stream sends one Multistream Commit, and waits for its answer. *)
Offers(p, sent) ==
    /\ p.state \in Before => sent = {}
    /\ p.state = "INITIATINGSECURE" => \A c \in sent : p.mode = "mult" /\ c.hv = p.hv

(* Who waits for Confirm2 has answered a Commit of the peer. *)
Answers(p, q, sent, session) ==
    q.state = "WAIT_CONFIRM2" =>
        IF q.mode = "mult"
        THEN /\ \E c \in sent : c.hv = q.hv
             /\ q.key = [hv |-> q.hv, sess |-> session]
        ELSE p.state \notin Before \cup {"INITIATINGSECURE"}

Confirms(p, q) ==
    /\ p.state = "WAIT_CONFIRM1" =>
          /\ p.key = [hv |-> p.hv, sess |-> NONE]
          /\ \/ q.state = "PENDINGSECURE" /\ q.hv = p.hv
             \/ q.state = "WAIT_CONFIRM2" /\ q.key = p.key
             \/ q.state = "ERROR"
    /\ p.state = "WAIT_CONFIRMACK" =>
          \/ q.state = "WAIT_CONFIRM2" /\ q.key = p.key
          \/ q.state \in {"SECURE", "ERROR"}

KeyFits(e, s) ==
    /\ Offers(ep[e][s], MultCommits(e, s))
    /\ Answers(ep[e][s], ep[Peer(e)][s], MultCommits(e, s), sess[Peer(e)])
    /\ Confirms(ep[e][s], ep[Peer(e)][s])

KeysFit == \A e \in Endpoints, s \in Streams : KeyFits(e, s)

(* A step of e changes what matters here of some streams only. *)
Alike(x, s) ==
    /\ ep'[x][s].state = ep[x][s].state /\ ep'[x][s].mode = ep[x][s].mode
    /\ ep'[x][s].hv = ep[x][s].hv /\ ep'[x][s].key = ep[x][s].key

SessionsKept == \A x \in Endpoints : sess[x] # NONE => sess'[x] = sess[x]

Moves(e, moved) ==
    /\ SessionsKept
    /\ \A x \in Endpoints, o \in Streams :
          (x # e \/ o \notin moved) =>
              Alike(x, o) /\ MultCommits(x, o)' = MultCommits(x, o)

KeysKept(e, o) ==
    /\ KeyFits(e, o)' /\ KeyFits(Peer(e), o)'
    /\ ep'[e][o].state = "ERROR" => timeouts' > 0

KeyStep(e) == \E moved \in SUBSET Streams : Moves(e, moved) /\ \A o \in moved : KeysKept(e, o)

LEMMA AlikeKeeps ==
    ASSUME NEW e \in Endpoints, NEW s \in Streams, KeyFits(e, s), SessionsKept,
           Alike(e, s), Alike(Peer(e), s), MultCommits(e, s)' = MultCommits(e, s),
           ep[Peer(e)][s].mode = "mult" => sess[Peer(e)] # NONE
    PROVE  KeyFits(e, s)'
<1>1. Peer(e) \in Endpoints
  BY PeerIsTheOther
<1>2. ep[Peer(e)][s].mode = "mult" => sess'[Peer(e)] = sess[Peer(e)]
  BY <1>1 DEF SessionsKept
<1>3. Offers(ep[e][s], MultCommits(e, s))'
  BY DEF KeyFits, Offers, Alike
<1>4. Answers(ep[e][s], ep[Peer(e)][s], MultCommits(e, s), sess[Peer(e)])'
  BY <1>2 DEF KeyFits, Answers, Alike
<1>5. Confirms(ep[e][s], ep[Peer(e)][s])'
  BY DEF KeyFits, Confirms, Alike
<1>6. QED
  BY <1>3, <1>4, <1>5 DEF KeyFits

LEMMA KeyStepKeeps ==
    ASSUME NEW e \in Endpoints, KeyStep(e), KeysFit, \A x \in Endpoints : OneDh(x), NoneFails,
           timeouts \in Nat, timeouts' \in Nat, timeouts' >= timeouts
    PROVE  KeysFit' /\ NoneFails'
<1>1. PICK moved \in SUBSET Streams : Moves(e, moved) /\ \A o \in moved : KeysKept(e, o)
  BY DEF KeyStep
<1>2. ASSUME NEW x \in Endpoints, NEW o \in Streams
      PROVE  KeyFits(x, o)'
  <2>1. CASE o \in moved
    BY <1>1, <2>1, PeerIsTheOther DEF KeysKept
  <2>2. CASE o \notin moved
    <3>1. /\ SessionsKept /\ Alike(x, o) /\ Alike(Peer(x), o)
          /\ MultCommits(x, o)' = MultCommits(x, o)
      BY <1>1, <2>2, PeerIsTheOther DEF Moves
    <3>2. KeyFits(x, o) /\ (ep[Peer(x)][o].mode = "mult" => sess[Peer(x)] # NONE)
      BY PeerIsTheOther DEF KeysFit, OneDh
    <3>3. QED
      BY <3>1, <3>2, AlikeKeeps
  <2>3. QED
    BY <2>1, <2>2
<1>3. ASSUME NEW x \in Endpoints, NEW o \in Streams, timeouts' = 0
      PROVE  ep'[x][o].state # "ERROR"
  <2>1. ep[x][o].state # "ERROR"
    BY <1>3 DEF NoneFails
  <2>2. CASE x = e /\ o \in moved
    BY <1>1, <1>3, <2>2 DEF KeysKept
  <2>3. CASE x # e \/ o \notin moved
    BY <1>1, <2>1, <2>3 DEF Moves, Alike
  <2>4. QED
    BY <2>2, <2>3
<1>4. QED
  BY <1>2, <1>3 DEF KeysFit, NoneFails

(* One stream moves, and no Commit is sent. *)
LEMMA OneMoves ==
    ASSUME TypeInv, NEW e \in Endpoints, NEW s \in Streams, NEW r, SessionsKept,
           commits' = commits, ep' = [ep EXCEPT ![e][s] = r]
    PROVE  /\ ep'[e][s] = r /\ \A x \in Endpoints : x # e => ep'[x] = ep[x]
           /\ \A x, o : MultCommits(x, o)' = MultCommits(x, o)
           /\ Moves(e, {s})
<1>1. /\ ep'[e][s] = r
      /\ \A o \in Streams : o # s => ep'[e][o] = ep[e][o]
      /\ \A x \in Endpoints : x # e => ep'[x] = ep[x]
  BY ONLY TypeInv, e \in Endpoints, s \in Streams, ep' = [ep EXCEPT ![e][s] = r], Changed
<1>2. \A x, o : MultCommits(x, o)' = MultCommits(x, o)
  BY DEF MultCommits
<1>3. QED
  BY <1>1, <1>2 DEF Moves, Alike

(* A stream that has not been answered starts, starts again or answers a  *)
(* DH Commit.                                                              *)
LEMMA EarlyMoves ==
    ASSUME KeysFit, NEW e \in Endpoints, NEW s \in Streams,
           \A x \in Endpoints : OneDh(x), SessionsKept,
           ep[e][s].state \in Before \cup {"INITIATINGSECURE"},
           ep'[e][s].state \in Before \cup {"INITIATINGSECURE", "PENDINGSECURE"},
           ep'[Peer(e)][s] = ep[Peer(e)][s],
           MultCommits(Peer(e), s)' = MultCommits(Peer(e), s),
           MultCommits(e, s) \subseteq MultCommits(e, s)',
           Offers(ep[e][s], MultCommits(e, s))'
    PROVE  KeysKept(e, s)
<1>1. PICK x \in Endpoints : x = Peer(e) /\ x # e /\ Peer(x) = e
  BY PeerIsTheOther
<1>2. KeyFits(e, s) /\ KeyFits(x, s)
  BY DEF KeysFit
<1>3. ep[x][s].mode = "mult" => sess'[x] = sess[x]
  BY DEF SessionsKept, OneDh
<1>4. Answers(ep[e][s], ep[x][s], MultCommits(e, s), sess[x])'
  BY <1>1, <1>2, <1>3 DEF KeyFits, Answers
<1>5. Confirms(ep[e][s], ep[x][s])'
  BY DEF Confirms, Before
<1>6. Offers(ep[x][s], MultCommits(x, s))'
  BY <1>1, <1>2 DEF KeyFits, Offers
<1>7. Answers(ep[x][s], ep[e][s], MultCommits(x, s), sess[e])'
  BY DEF Answers, Before
<1>8. ep[x][s].state \notin {"WAIT_CONFIRM1", "WAIT_CONFIRMACK"}
  BY <1>1, <1>2 DEF KeyFits, Confirms, Before
<1>9. Confirms(ep[x][s], ep[e][s])'
  BY <1>1, <1>8 DEF Confirms
<1>10. ep'[e][s].state # "ERROR"
  BY DEF Before
<1>11. QED
  BY <1>1, <1>4, <1>5, <1>6, <1>7, <1>9, <1>10 DEF KeyFits, KeysKept

LEMMA TryToStartKeys ==
    ASSUME TypeInv, KeysFit, NEW e \in Endpoints, NEW s \in Streams,
           NEW what \in {"start", "retry"}, TryToStart(e, s, what), sess' = sess,
           commits' = commits, \A x \in Endpoints : OneDh(x), ep[e][s].state \in Before
    PROVE  KeyStep(e)
<1> DEFINE mode == DefineMode(e)
           p == [ep[e][s] EXCEPT !.state = "START_INITIATINGSECURE", !.mode = mode]
<1>1. p \in StreamRecords
  <2>1. ep[e][s] \in StreamRecords /\ mode \in Modes
    BY ModeType DEF TypeInv, Records
  <2> HIDE DEF mode
  <2>2. QED
    BY <2>1 DEF StreamRecords, States, Before
<1>2. PICK r : ep' = [ep EXCEPT ![e][s] = r] /\ r.state = "START_INITIATINGSECURE"
  <2>1. CASE ep' = [ep EXCEPT ![e][s] = [p EXCEPT !.concurrent = NONE]]
    <3>1. [p EXCEPT !.concurrent = NONE].state = "START_INITIATINGSECURE"
      BY <1>1 DEF StreamRecords
    <3>2. QED
      BY <2>1, <3>1
  <2>2. ASSUME NEW o, ep' = [ep EXCEPT ![e][s] = [p EXCEPT !.concurrent = o, !.process = TRUE]]
        PROVE  \E r : ep' = [ep EXCEPT ![e][s] = r] /\ r.state = "START_INITIATINGSECURE"
    <3>1. [p EXCEPT !.concurrent = o, !.process = TRUE].state = "START_INITIATINGSECURE"
      BY <1>1 DEF StreamRecords
    <3>2. QED
      BY <2>2, <3>1
  <2>3. QED
    BY <2>1, <2>2 DEF TryToStart
<1>3. SessionsKept
  BY DEF SessionsKept
<1>4. /\ ep'[e][s] = r /\ ep'[Peer(e)] = ep[Peer(e)] /\ Moves(e, {s})
      /\ \A x, o : MultCommits(x, o)' = MultCommits(x, o)
  <2>1. ep' = [ep EXCEPT ![e][s] = r]
    BY <1>2
  <2>2. /\ ep'[e][s] = r /\ \A x \in Endpoints : x # e => ep'[x] = ep[x]
        /\ \A x, o : MultCommits(x, o)' = MultCommits(x, o)
        /\ Moves(e, {s})
    BY ONLY TypeInv, e \in Endpoints, s \in Streams, commits' = commits, <1>3, <2>1, OneMoves
  <2>3. QED
    BY <2>2, PeerIsTheOther
<1>5. Offers(ep[e][s], MultCommits(e, s))'
  BY <1>2, <1>4 DEF KeysFit, KeyFits, Offers, Before
<1>6. KeysKept(e, s)
  BY <1>2, <1>3, <1>4, <1>5, EarlyMoves DEF Before
<1>7. QED
  BY <1>4, <1>6 DEF KeyStep

LEMMA EnterInitiatingKeys ==
    ASSUME TypeInv, KeysFit, NEW e \in Endpoints, NEW s \in Streams, NEW mode,
           EnterInitiating(e, s, mode), \A x \in Endpoints : OneDh(x),
           ep[e][s].state = "START_INITIATINGSECURE"
    PROVE  KeyStep(e)
<1>1. PICK n \in (1 .. MaxCommits) \ Drawn :
          /\ ep' = [ep EXCEPT ![e][s] =
                 [state |-> "INITIATINGSECURE", mode |-> mode, hv |-> n, key |-> NONE,
                  concurrent |-> NONE, resend |-> TRUE, process |-> FALSE]]
          /\ commits' = commits \cup {[to |-> Peer(e), stream |-> s, mode |-> mode, hv |-> n]}
          /\ UNCHANGED sess
  BY DEF EnterInitiating
<1> DEFINE r == [state |-> "INITIATINGSECURE", mode |-> mode, hv |-> n, key |-> NONE,
                 concurrent |-> NONE, resend |-> TRUE, process |-> FALSE]
           k == [to |-> Peer(e), stream |-> s, mode |-> mode, hv |-> n]
<1>2. /\ ep' = [ep EXCEPT ![e][s] = r] /\ commits' = commits \cup {k} /\ sess' = sess
      /\ r.state = "INITIATINGSECURE" /\ r.mode = mode /\ r.hv = n
      /\ k.to = Peer(e) /\ k.stream = s /\ k.mode = mode /\ k.hv = n
  BY <1>1
<1> HIDE DEF r, k
<1>3. /\ ep'[e][s] = r
      /\ \A o \in Streams : o # s => ep'[e][o] = ep[e][o]
      /\ \A x \in Endpoints : x # e => ep'[x] = ep[x]
  <2>1. ep' = [ep EXCEPT ![e][s] = r]
    BY <1>2
  <2>2. QED
    BY ONLY TypeInv, e \in Endpoints, s \in Streams, <2>1, Changed
<1>4. \A x \in Endpoints : Peer(x) = Peer(e) => x = e
  BY PeerIsTheOther
<1>5. \A x \in Endpoints, o \in Streams :
          x # e \/ o # s => MultCommits(x, o)' = MultCommits(x, o)
  BY <1>2, <1>4 DEF MultCommits
<1>6. SessionsKept
  BY <1>2 DEF SessionsKept
<1>7. Moves(e, {s})
  BY <1>3, <1>5, <1>6 DEF Moves, Alike
<1>8. MultCommits(e, s) = {}
  BY DEF KeysFit, KeyFits, Offers, Before
<1>9. \A c \in MultCommits(e, s)' : c = k /\ c.mode = "mult"
  BY <1>2, <1>8 DEF MultCommits
<1>10. Offers(ep[e][s], MultCommits(e, s))'
  BY <1>2, <1>3, <1>9 DEF Offers, Before
<1>11. KeysKept(e, s)
  BY <1>2, <1>3, <1>5, <1>6, <1>8, <1>10, EarlyMoves, PeerIsTheOther DEF Before
<1>12. QED
  BY <1>7, <1>11 DEF KeyStep

LEMMA EnterPendingKeys ==
    ASSUME TypeInv, KeysFit, NEW e \in Endpoints, NEW s \in Streams, NEW c \in Commits,
           \A x \in Endpoints : OneDh(x), RespondFits(e, s, c.mode), WillRespond(e, s, c),
           c.mode = "dh" => Stops(e, s, ep[e][s].concurrent, c.hv),
           EnterPending(e, s, c), sess' = sess
    PROVE  KeyStep(e)
<1> DEFINE p == [ep[e][s] EXCEPT !.mode = c.mode, !.hv = c.hv,
                                 !.resend = FALSE, !.process = FALSE]
           q == [p EXCEPT !.state = "PENDINGSECURE", !.concurrent = NONE]
           w == [p EXCEPT !.state = "WAIT_CONFIRM2", !.key = KeyOf(e, c.hv, c.mode)]
           b == ep[e][s].concurrent
           r == [ep[e][b] EXCEPT !.state = "START_INITIATINGSECURE",
                                 !.mode = DefineMode(e), !.concurrent = s, !.process = TRUE]
<1>1. /\ IF c.mode = "dh"
         THEN IF p.concurrent = NONE
              THEN ep' = [ep EXCEPT ![e][s] = q]
              ELSE ep' = [ep EXCEPT ![e] = ResumeConcurrent(e, s, q, p.concurrent)]
         ELSE ep' = [ep EXCEPT ![e][s] = w]
      /\ commits' = commits
  BY DEF EnterPending
<1>2. ep[e][s] \in StreamRecords
  BY DEF TypeInv, Records
<1>3. /\ p.concurrent = b /\ q.state = "PENDINGSECURE"
      /\ w.state = "WAIT_CONFIRM2" /\ w.mode = c.mode /\ w.hv = c.hv
      /\ w.key = KeyOf(e, c.hv, c.mode)
  BY <1>2 DEF StreamRecords
<1>4. b \in Streams \cup {NONE} /\ NONE \notin Streams
  BY <1>2, StreamsAssumption DEF StreamRecords
<1>5. ResumeConcurrent(e, s, q, b) = [ep[e] EXCEPT ![s] = q, ![b] = r]
  BY DEF ResumeConcurrent
<1>6. b \in Streams => r.state = "START_INITIATINGSECURE"
  BY DEF TypeInv, Records, StreamRecords
<1> HIDE DEF p, q, w, b, r
<1>7. ep[e][s].state \in Before \cup {"INITIATINGSECURE"}
  BY DEF WillRespond
<1>8. SessionsKept
  BY DEF SessionsKept
<1>9. \A x, o : MultCommits(x, o)' = MultCommits(x, o)
  BY <1>1 DEF MultCommits
<1>10. PICK x \in Endpoints : x = Peer(e) /\ x # e /\ Peer(x) = e
  BY PeerIsTheOther
<1>11. CASE c.mode = "mult"
  <2>1. ep' = [ep EXCEPT ![e][s] = w]
    BY <1>1, <1>11
  <2>2. ep'[e][s] = w /\ ep'[x] = ep[x] /\ Moves(e, {s})
    <3>1. commits' = commits
      BY <1>1
    <3>2. PICK v : v = w
      OBVIOUS
    <3>3. ep' = [ep EXCEPT ![e][s] = v]
      BY <2>1, <3>2
    <3>4. /\ ep'[e][s] = v /\ \A y \in Endpoints : y # e => ep'[y] = ep[y]
          /\ \A y, o : MultCommits(y, o)' = MultCommits(y, o)
          /\ Moves(e, {s})
      BY ONLY TypeInv, e \in Endpoints, s \in Streams, <1>8, <3>1, <3>3, OneMoves
    <3>5. QED
      BY <1>10, <3>2, <3>4
  <2>3. KeyFits(e, s) /\ KeyFits(x, s)
    BY DEF KeysFit
  <2>4. KeyFits(e, s)'
    <3>1. Offers(ep[e][s], MultCommits(e, s))'
      BY <1>3, <2>2 DEF Offers, Before
    <3>2. Answers(ep[e][s], ep[x][s], MultCommits(e, s), sess[x])'
      BY <1>3, <1>9, <1>10, <2>2, <2>3 DEF KeyFits, Answers, Before
    <3>3. Confirms(ep[e][s], ep[x][s])'
      BY <1>3, <2>2 DEF Confirms
    <3>4. QED
      BY <1>10, <3>1, <3>2, <3>3 DEF KeyFits
  <2>5. KeyFits(x, s)'
    <3>1. Offers(ep[x][s], MultCommits(x, s))'
      BY <1>9, <2>2, <2>3 DEF KeyFits, Offers
    <3>2. c \in MultCommits(x, s)
      BY <1>10, <1>11 DEF WillRespond, MultCommits
    <3>3. w.key = [hv |-> c.hv, sess |-> sess[e]]
      BY <1>3, <1>11 DEF KeyOf
    <3>4. Answers(ep[x][s], ep[e][s], MultCommits(x, s), sess[e])'
      BY <1>3, <1>9, <1>11, <2>2, <3>2, <3>3 DEF Answers
    <3>5. ep[x][s].state \notin {"WAIT_CONFIRM1", "WAIT_CONFIRMACK"}
      BY <1>7, <1>10, <2>3 DEF KeyFits, Confirms, Before
    <3>6. Confirms(ep[x][s], ep[e][s])'
      BY <2>2, <3>5 DEF Confirms
    <3>7. QED
      BY <1>10, <3>1, <3>4, <3>6 DEF KeyFits
  <2>6. KeysKept(e, s)
    BY <1>3, <1>10, <2>2, <2>4, <2>5 DEF KeysKept
  <2>7. QED
    BY <2>2, <2>6 DEF KeyStep
<1>12. CASE c.mode = "dh" /\ b = NONE
  <2>1. ep' = [ep EXCEPT ![e][s] = q]
    BY <1>1, <1>3, <1>12
  <2>2. ep'[e][s] = q /\ ep'[x] = ep[x] /\ Moves(e, {s})
    <3>1. commits' = commits
      BY <1>1
    <3>2. PICK v : v = q
      OBVIOUS
    <3>3. ep' = [ep EXCEPT ![e][s] = v]
      BY <2>1, <3>2
    <3>4. /\ ep'[e][s] = v /\ \A y \in Endpoints : y # e => ep'[y] = ep[y]
          /\ \A y, o : MultCommits(y, o)' = MultCommits(y, o)
          /\ Moves(e, {s})
      BY ONLY TypeInv, e \in Endpoints, s \in Streams, <1>8, <3>1, <3>3, OneMoves
    <3>5. QED
      BY <1>10, <3>2, <3>4
  <2>3. Offers(ep[e][s], MultCommits(e, s))'
    BY <1>3, <2>2 DEF Offers, Before
  <2>4. KeysKept(e, s)
    BY <1>3, <1>7, <1>8, <1>9, <1>10, <2>2, <2>3, EarlyMoves
  <2>5. QED
    BY <2>2, <2>4 DEF KeyStep
<1>13. CASE c.mode = "dh" /\ b # NONE
  <2>1. PICK o \in Streams : o = b /\ o # s /\ ep[e][o].state = "INITIATINGSECURE"
    BY <1>4, <1>13 DEF RespondFits, Stops, b
  <2>2. ep' = [ep EXCEPT ![e] = ResumeConcurrent(e, s, q, b)]
    BY <1>1, <1>3, <1>13
  <2>3. /\ ep'[e] = [ep[e] EXCEPT ![s] = q, ![o] = r]
        /\ \A y \in Endpoints : y # e => ep'[y] = ep[y]
    BY <1>5, <2>1, <2>2 DEF TypeInv
  <2>4. ep[e] \in [Streams -> Records]
    BY DEF TypeInv
  <2>5. /\ ep'[e][s] = q /\ ep'[e][o] = r
        /\ \A t \in Streams \ {s, o} : ep'[e][t] = ep[e][t]
    BY <2>1, <2>3, <2>4
  <2>6. Moves(e, {s, o})
    BY <1>8, <1>9, <2>3, <2>5 DEF Moves, Alike
  <2>7. Offers(ep[e][s], MultCommits(e, s))'
    BY <1>3, <2>5 DEF Offers, Before
  <2>8. Offers(ep[e][o], MultCommits(e, o))'
    <3>1. ep[e][o].mode # "mult"
      BY <1>13 DEF Stops, OneDh
    <3>2. MultCommits(e, o) = {}
      BY <2>1, <3>1 DEF KeysFit, KeyFits, Offers
    <3>3. QED
      BY <1>6, <1>9, <2>1, <2>5, <3>2 DEF Offers
  <2>9. KeysKept(e, s)
    BY <1>3, <1>7, <1>8, <1>9, <1>10, <2>3, <2>5, <2>7, EarlyMoves
  <2>10. KeysKept(e, o)
    BY <1>6, <1>8, <1>9, <1>10, <2>1, <2>3, <2>5, <2>8, EarlyMoves DEF Before
  <2>11. QED
    BY <2>6, <2>9, <2>10 DEF KeyStep
<1>14. c.mode \in {"dh", "mult"}
  BY DEF RespondFits, Commits, Modes
<1>15. QED
  BY <1>11, <1>12, <1>13, <1>14

LEMMA GoOnKeys ==
    ASSUME SessionInv, KeysFit, TiesFit, Preshared = {}, NEW e \in Endpoints,
           NEW s \in Streams, GoOn(e, s)
    PROVE  KeyStep(e)
<1>1. PICK d : d = decided[e][s]
  OBVIOUS
<1>2. /\ d # NONE /\ d \in Decisions /\ TypeInv /\ ExchangeInv /\ Fits(e)
      /\ \A x \in Endpoints : OneDh(x)
  BY <1>1 DEF GoOn, SessionInv, ExchangeInv, TypeInv
<1>3. DecisionMade(e, s) /\ DecisionFits(e, s) /\ StopFits(e, s)
  BY <1>2 DEF Fits, OneDh, TiesFit, Ties
<1>4. sess' = sess
  BY <1>2, GoOnFits
<1>5. CASE d.what = "respond"
  <2>1. d.commit \in Commits
    BY <1>2, <1>5 DEF Decisions
  <2>2. EnterPending(e, s, d.commit)
    BY <1>1, <1>5 DEF GoOn
  <2>3. /\ RespondFits(e, s, d.commit.mode) /\ WillRespond(e, s, d.commit)
        /\ d.commit.mode = "dh" => Stops(e, s, ep[e][s].concurrent, d.commit.hv)
    BY <1>1, <1>2, <1>3, <1>5 DEF DecisionMade, DecisionFits, StopFits
  <2>4. QED
    BY <1>2, <1>4, <2>1, <2>2, <2>3, EnterPendingKeys
<1>6. CASE d.what # "respond"
  <2>1. EnterInitiating(e, s, d.mode)
    BY <1>1, <1>6 DEF GoOn
  <2>2. ep[e][s].state = "START_INITIATINGSECURE"
    BY <1>1, <1>2, <1>3, <1>6 DEF DecisionMade, WillStart
  <2>3. QED
    BY <1>2, <2>1, <2>2, EnterInitiatingKeys
<1>7. QED
  BY <1>5, <1>6

(* A Commit that is received stops another stream at most. *)
LEMMA ReceiveCommitKeys ==
    ASSUME TypeInv, KeysFit, \A x \in Endpoints : OneDh(x), NEW e \in Endpoints,
           NEW s \in Streams, NEW c \in commits, ReceiveCommit(e, s, c)
    PROVE  KeyStep(e)
<1> DEFINE others == Concurrent(e, s, c.mode)
<1>1. sess' = sess /\ commits' = commits /\ others \subseteq Streams \ {s}
  BY DEF ReceiveCommit, Concurrent
<1>2. ep[e][s] \in StreamRecords /\ ep[e] \in [Streams -> Records]
  BY DEF TypeInv, Records
<1>3. ASSUME \A x \in Endpoints, o \in Streams : Alike(x, o)
      PROVE  KeyStep(e)
  <2>1. \A x, o : MultCommits(x, o)' = MultCommits(x, o)
    BY <1>1 DEF MultCommits
  <2>2. Moves(e, {})
    BY <1>1, <1>3, <2>1 DEF Moves, SessionsKept
  <2>3. QED
    BY <2>2 DEF KeyStep
<1>4. ASSUME NEW b, ep' = [ep EXCEPT ![e][s].concurrent = b]
      PROVE  \A x \in Endpoints, o \in Streams : Alike(x, o)
  <2> DEFINE r == [ep[e][s] EXCEPT !.concurrent = b]
  <2>1. /\ r.state = ep[e][s].state /\ r.mode = ep[e][s].mode /\ r.hv = ep[e][s].hv
        /\ r.key = ep[e][s].key
    BY <1>2 DEF StreamRecords
  <2>2. ep' = [ep EXCEPT ![e][s] = r]
    BY <1>4
  <2> HIDE DEF r
  <2>3. /\ ep'[e][s] = r
        /\ \A q \in Streams : q # s => ep'[e][q] = ep[e][q]
        /\ \A x \in Endpoints : x # e => ep'[x] = ep[x]
    BY <2>2, Changed
  <2>4. QED
    BY <2>1, <2>3 DEF Alike
<1>5. ASSUME NEW o \in others,
             ep' = [ep EXCEPT ![e][s].concurrent = o,
                              ![e][o] = [ep[e][o] EXCEPT !.resend = FALSE,
                                                         !.process = FALSE]]
      PROVE  \A x \in Endpoints, t \in Streams : Alike(x, t)
  <2> DEFINE r == [ep[e][s] EXCEPT !.concurrent = o]
             q == [ep[e][o] EXCEPT !.resend = FALSE, !.process = FALSE]
  <2>1. o \in Streams /\ o # s /\ ep[e][o] \in StreamRecords
    BY <1>1, <1>2, <1>5 DEF Records
  <2>2. /\ r.state = ep[e][s].state /\ r.mode = ep[e][s].mode /\ r.hv = ep[e][s].hv
        /\ r.key = ep[e][s].key
    BY <1>2 DEF StreamRecords
  <2>3. /\ q.state = ep[e][o].state /\ q.mode = ep[e][o].mode /\ q.hv = ep[e][o].hv
        /\ q.key = ep[e][o].key
    BY <2>1 DEF StreamRecords
  <2>4. ep' = [ep EXCEPT ![e][s] = r, ![e][o] = q]
    BY <1>5
  <2> HIDE DEF r, q
  <2>5. /\ ep'[e][s] = r /\ ep'[e][o] = q
        /\ \A t \in Streams \ {s, o} : ep'[e][t] = ep[e][t]
        /\ \A x \in Endpoints : x # e => ep'[x] = ep[x]
    BY <2>1, <2>4 DEF TypeInv
  <2>6. QED
    BY <2>2, <2>3, <2>5 DEF Alike
<1>6. CASE TryToStart(e, s, "start") /\ ep[e][s].state = "CLEAR"
  <2>1. ep[e][s].state \in Before
    BY <1>6 DEF Before
  <2>2. QED
    BY <1>1, <1>6, <2>1, TryToStartKeys
<1>7. CASE ep' = [ep EXCEPT ![e][s].concurrent = NONE]
  BY <1>3, <1>4, <1>7
<1>8. ASSUME NEW o \in others, ep' = [ep EXCEPT ![e][s].concurrent = o]
      PROVE  KeyStep(e)
  BY <1>3, <1>4, <1>8
<1>9. ASSUME NEW o \in others,
             ep' = [ep EXCEPT ![e][s].concurrent = o,
                              ![e][o] = [ep[e][o] EXCEPT !.resend = FALSE,
                                                         !.process = FALSE]]
      PROVE  KeyStep(e)
  BY <1>3, <1>5, <1>9
<1>10. QED
  BY <1>6, <1>7, <1>8, <1>9 DEF ReceiveCommit

(* A stream in progress goes on: what is left to show for its key. *)
LEMMA LateMoves ==
    ASSUME TypeInv, KeysFit, NEW e \in Endpoints, NEW s \in Streams, NEW r, NEW x,
           x = Peer(e), SessionsKept, \A y \in Endpoints : OneDh(y),
           commits' = commits, ep' = [ep EXCEPT ![e][s] = r],
           r.state \in {"WAIT_CONFIRM1", "WAIT_CONFIRM2", "WAIT_CONFIRMACK", "SECURE", "ERROR"},
           r.state = "ERROR" => timeouts' > 0, Confirms(r, ep[x][s]), Confirms(ep[x][s], r),
           r.state = "WAIT_CONFIRM2" =>
               r.mode # "mult" /\ ep[x][s].state \notin Before \cup {"INITIATINGSECURE"}
    PROVE  KeyStep(e)
<1>1. /\ ep'[e][s] = r /\ \A y \in Endpoints : y # e => ep'[y] = ep[y]
      /\ \A y, o : MultCommits(y, o)' = MultCommits(y, o)
      /\ Moves(e, {s})
  BY ONLY TypeInv, e \in Endpoints, s \in Streams, SessionsKept, commits' = commits,
          ep' = [ep EXCEPT ![e][s] = r], OneMoves
<1>2. x \in Endpoints /\ x # e /\ Peer(x) = e /\ ep'[x] = ep[x]
  BY <1>1, PeerIsTheOther
<1>3. KeyFits(e, s) /\ KeyFits(x, s)
  BY <1>2 DEF KeysFit
<1>4. KeyFits(e, s)'
  <2>1. Offers(ep[e][s], MultCommits(e, s))'
    BY <1>1 DEF Offers, Before
  <2>2. ep[x][s].mode = "mult" => sess'[x] = sess[x]
    BY <1>2 DEF SessionsKept, OneDh
  <2>3. Answers(ep[e][s], ep[x][s], MultCommits(e, s), sess[x])'
    <3>1. Answers(ep[e][s], ep[x][s], MultCommits(e, s), sess[x])
      BY <1>2, <1>3 DEF KeyFits
    <3>2. QED
      BY <1>1, <1>2, <2>2, <3>1 DEF Answers, Before
  <2>4. QED
    BY <1>1, <1>2, <2>1, <2>3 DEF KeyFits
<1>5. KeyFits(x, s)'
  <2>1. Offers(ep[x][s], MultCommits(x, s))'
    BY <1>1, <1>2, <1>3 DEF KeyFits, Offers
  <2>2. Answers(ep[x][s], ep[e][s], MultCommits(x, s), sess[e])'
    BY <1>1, <1>2 DEF Answers
  <2>3. QED
    BY <1>1, <1>2, <2>1, <2>2 DEF KeyFits
<1>6. KeysKept(e, s)
  BY <1>1, <1>4, <1>5 DEF KeysKept
<1>7. QED
  BY <1>1, <1>6 DEF KeyStep

(* The keys of a Confirm are equal, so it is taken. *)
LEMMA ConfirmTaken ==
    ASSUME TypeInv, NEW e \in Endpoints, NEW s \in Streams, NEW key, NEW r,
           Confirm(e, s, key, r), key = ep[Peer(e)][s].key
    PROVE  ep' = [ep EXCEPT ![e][s] = r]
  BY DEF Confirm, Become, Theirs

LEMMA ExchangeKeys ==
    ASSUME SessionInv, KeysFit, NEW e \in Endpoints, NEW s \in Streams,
           Exchange(e, s)
    PROVE  KeyStep(e)
<1> DEFINE p == ep[e][s]
<1>1. /\ TypeInv /\ Fits(e) /\ commits' = commits /\ \A y \in Endpoints : OneDh(y) /\ SessionFits(y)
      /\ decided' = decided /\ Idle(e, s)
  BY DEF SessionInv, ExchangeInv, Exchange
<1>2. PICK x \in Endpoints : x = Peer(e) /\ x # e /\ Peer(x) = e
  BY PeerIsTheOther
<1>3. KeyFits(e, s) /\ KeyFits(x, s)
  BY DEF KeysFit
<1>4. p \in StreamRecords /\ Theirs(e, s) = ep[x][s] /\ Mine(e, s) = p
  BY <1>1, <1>2 DEF TypeInv, Records, Theirs, Mine
<1>5. \A hv, mode : DeriveSession(e, hv, mode) => SessionsKept
  BY <1>1 DEF DeriveSession, SessionsKept, TypeInv
<1>6. sess' = sess => SessionsKept
  BY DEF SessionsKept
<1>7. CASE ReceiveDHPart1(e, s)
  <2> DEFINE k == KeyOf(e, p.hv, "dh")
             r == [p EXCEPT !.state = "WAIT_CONFIRM1", !.resend = TRUE, !.key = k]
  <2>1. /\ p.state = "INITIATINGSECURE" /\ p.mode = "dh" /\ ep[x][s].state = "PENDINGSECURE"
        /\ ep' = [ep EXCEPT ![e][s] = r] /\ SessionsKept
    BY <1>4, <1>5, <1>7 DEF ReceiveDHPart1, Become
  <2>2. r.state = "WAIT_CONFIRM1" /\ r.hv = p.hv /\ r.key = k
    BY <1>4 DEF StreamRecords
  <2>3. k = [hv |-> p.hv, sess |-> NONE]
    BY DEF KeyOf
  <2>4. ep[x][s].hv = p.hv
    <3>1. StreamFits(x, s) /\ StreamFits(e, s)
      BY DEF SessionInv, Fits
    <3>2. PICK c \in DhCommits(e, s) : c.hv = ep[x][s].hv
      BY <1>2, <2>1, <3>1 DEF StreamFits, Awaits
    <3>3. QED
      BY <2>1, <3>1, <3>2 DEF StreamFits, Sent
  <2> HIDE DEF r, k
  <2>5. Confirms(r, ep[x][s]) /\ Confirms(ep[x][s], r)
    BY <2>1, <2>2, <2>3, <2>4 DEF Confirms
  <2>6. QED
    BY <1>1, <1>2, <2>1, <2>2, <2>5, LateMoves
<1>8. CASE ReceiveDHPart2(e, s)
  <2> DEFINE k == KeyOf(e, p.hv, "dh")
             r == [p EXCEPT !.state = "WAIT_CONFIRM2", !.key = k]
  <2>1. /\ p.state = "PENDINGSECURE" /\ ep[x][s].state = "WAIT_CONFIRM1"
        /\ ep' = [ep EXCEPT ![e][s] = r] /\ SessionsKept
    BY <1>4, <1>5, <1>8 DEF ReceiveDHPart2, Become
  <2>2. r.state = "WAIT_CONFIRM2" /\ r.mode = p.mode /\ r.key = k
    BY <1>4 DEF StreamRecords
  <2>3. p.mode = "dh"
    BY <1>1, <2>1 DEF Fits, StreamFits, Awaits
  <2>4. k = [hv |-> p.hv, sess |-> NONE]
    BY DEF KeyOf
  <2>5. ep[x][s].key = k
    BY <1>2, <1>3, <2>1, <2>4 DEF KeyFits, Confirms
  <2> HIDE DEF r, k
  <2>6. Confirms(r, ep[x][s]) /\ Confirms(ep[x][s], r)
    BY <1>2, <1>3, <2>1, <2>2, <2>5 DEF KeyFits, Confirms
  <2>7. QED
    BY <1>1, <1>2, <2>1, <2>2, <2>3, <2>6, LateMoves DEF Before
<1>9. CASE ReceiveConfirm1(e, s)
  <2> DEFINE fast == p.state = "INITIATINGSECURE" /\ p.mode # "dh"
             key == IF fast THEN KeyOf(e, p.hv, p.mode) ELSE p.key
             r == [p EXCEPT !.state = "WAIT_CONFIRMACK", !.resend = TRUE, !.key = key]
  <2>1. /\ p.state = "WAIT_CONFIRM1" \/ fast
        /\ ep[x][s].state = "WAIT_CONFIRM2"
        /\ Confirm(e, s, key, r)
        /\ IF fast THEN DeriveSession(e, p.hv, p.mode) ELSE UNCHANGED sess
    BY <1>4, <1>9 DEF ReceiveConfirm1
  <2>2. SessionsKept
    BY <1>5, <1>6, <2>1
  <2>3. key = ep[x][s].key
    <3>1. CASE p.state = "WAIT_CONFIRM1"
      BY <1>2, <1>3, <2>1, <3>1 DEF KeyFits, Confirms
    <3>2. CASE fast
      <4>1. p.mode = "mult"
        BY <1>1, <3>2 DEF Fits, StreamFits
      <4>2. /\ ep[x][s].mode = "mult" /\ ep[x][s].key = [hv |-> ep[x][s].hv, sess |-> sess[x]]
            /\ \E c \in MultCommits(e, s) : c.hv = ep[x][s].hv
        BY <1>2, <1>3, <2>1, <3>2 DEF KeyFits, Answers
      <4>3. ep[x][s].hv = p.hv
        BY <1>3, <3>2, <4>2 DEF KeyFits, Offers
      <4>4. sess[e] # NONE /\ sess[x] # NONE
        BY <1>1, <4>1, <4>2 DEF OneDh
      <4>5. sess[e] = sess[x]
        BY <1>1, <1>2, <4>4 DEF SessionFits
      <4>6. key = [hv |-> p.hv, sess |-> sess[e]]
        BY <3>2, <4>1 DEF KeyOf
      <4>7. QED
        BY <4>2, <4>3, <4>5, <4>6
    <3>3. QED
      BY <2>1, <3>1, <3>2
  <2> HIDE DEF key
  <2>4. r.state = "WAIT_CONFIRMACK" /\ r.key = key
    BY <1>4 DEF StreamRecords
  <2> HIDE DEF r
  <2>5. ep' = [ep EXCEPT ![e][s] = r]
    BY <1>1, <1>2, <2>1, <2>3, ConfirmTaken
  <2>6. Confirms(r, ep[x][s]) /\ Confirms(ep[x][s], r)
    BY <2>1, <2>3, <2>4 DEF Confirms
  <2>7. QED
    BY <1>1, <1>2, <2>2, <2>4, <2>5, <2>6, LateMoves
<1>10. CASE ReceiveConfirm2(e, s)
  <2> DEFINE r == [p EXCEPT !.state = "SECURE"]
  <2>1. /\ p.state = "WAIT_CONFIRM2" /\ ep[x][s].state = "WAIT_CONFIRMACK"
        /\ Confirm(e, s, p.key, r) /\ sess' = sess
    BY <1>4, <1>10 DEF ReceiveConfirm2
  <2>2. p.key = ep[x][s].key
    BY <1>2, <1>3, <2>1 DEF KeyFits, Confirms
  <2>3. r.state = "SECURE"
    BY <1>4 DEF StreamRecords
  <2> HIDE DEF r
  <2>4. ep' = [ep EXCEPT ![e][s] = r]
    BY <1>1, <1>2, <2>1, <2>2, ConfirmTaken
  <2>5. Confirms(r, ep[x][s]) /\ Confirms(ep[x][s], r)
    BY <2>1, <2>3 DEF Confirms
  <2>6. QED
    BY <1>1, <1>2, <1>6, <2>1, <2>3, <2>4, <2>5, LateMoves
<1>11. CASE ReceiveConf2Ack(e, s)
  <2> DEFINE r == [p EXCEPT !.state = "SECURE", !.resend = FALSE]
  <2>1. /\ p.state = "WAIT_CONFIRMACK" /\ ep[x][s].state = "SECURE"
        /\ ep' = [ep EXCEPT ![e][s] = r] /\ sess' = sess
    BY <1>4, <1>11 DEF ReceiveConf2Ack, Become
  <2>2. r.state = "SECURE"
    BY <1>4 DEF StreamRecords
  <2> HIDE DEF r
  <2>3. Confirms(r, ep[x][s]) /\ Confirms(ep[x][s], r)
    BY <2>1, <2>2 DEF Confirms
  <2>4. QED
    BY <1>1, <1>2, <1>6, <2>1, <2>2, <2>3, LateMoves
<1>12. QED
  BY <1>7, <1>8, <1>9, <1>10, <1>11 DEF Exchange

LEMMA NoTimeOut ==
    ASSUME TypeInv, NEW e \in Endpoints, NEW s \in Streams, Stream(e, s), timeouts' = 0
    PROVE  timeouts = 0 /\ ~TimeOut(e, s)
<1>1. timeouts \in Nat
  BY DEF TypeInv
<1>2. timeouts' = timeouts \/ TimeOut(e, s)
  BY DEF Stream, StreamSecure, Retry, GoOn, ReceiveCommit, Exchange
<1>3. QED
  BY <1>1, <1>2 DEF TimeOut

LEMMA KeysStep ==
    ASSUME SessionInv, KeysFit, TiesFit, NoneFails, Preshared = {},
           NEW e \in Endpoints, NEW s \in Streams, Stream(e, s), timeouts' = 0
    PROVE  KeysFit' /\ NoneFails'
<1>1. TypeInv /\ \A x \in Endpoints : OneDh(x)
  BY DEF SessionInv, ExchangeInv
<1>2. timeouts = 0 /\ ~TimeOut(e, s)
  BY <1>1, NoTimeOut
<1>3. KeyStep(e)
  <2>1. CASE StreamSecure(e, s) \/ Retry(e, s)
    <3>1. PICK what \in {"start", "retry"} : TryToStart(e, s, what)
      BY <2>1 DEF StreamSecure, Retry
    <3>2. sess' = sess /\ commits' = commits /\ ep[e][s].state \in Before
      BY <2>1 DEF StreamSecure, Retry, Before
    <3>3. QED
      BY <1>1, <3>1, <3>2, TryToStartKeys
  <2>2. CASE GoOn(e, s)
    BY <2>2, GoOnKeys
  <2>3. ASSUME NEW c \in commits, ReceiveCommit(e, s, c)
        PROVE  KeyStep(e)
    BY <1>1, <2>3, ReceiveCommitKeys
  <2>4. CASE Exchange(e, s)
    BY <2>4, ExchangeKeys
  <2>5. QED
    BY <1>2, <2>1, <2>2, <2>3, <2>4 DEF Stream
<1>4. QED
  BY <1>1, <1>2, <1>3, KeyStepKeeps

(* No exchange fails (Confirm: the HMAC fits) unless a resend has given up *)
(* before or two checks of _zrtp_can_start_stream overlapped: both sides   *)
(* of a stream derive the same key, in DH mode from one Commit and in      *)
(* Multistream mode from one Commit and one session key.                   *)
THEOREM NoExchangeFails ==
    ASSUME Preshared = {}
    PROVE  Spec => []NoneFailsUnlessRaced
<1> DEFINE Good == SessionInv /\ (timeouts = 0 => KeysFit /\ TiesFit /\ NoneFails)
           Inv == TypeInv /\ (raced \/ Good)
<1>1. Init => Inv
  <2> SUFFICES ASSUME Init
               PROVE  Inv
    OBVIOUS
  <2>1. \A e \in Endpoints, s \in Streams : ep[e][s].state = "CLEAR" /\ decided[e][s] = NONE
    BY DEF Init
  <2>2. \A e, s : MultCommits(e, s) = {} /\ DhCommits(e, s) = {}
    BY DEF Init, MultCommits, DhCommits
  <2>3. \A e \in Endpoints, s \in Streams : KeyFits(e, s)
    BY <2>1, <2>2, PeerIsTheOther DEF KeyFits, Offers, Answers, Confirms
  <2>4. \A e \in Endpoints, s \in Streams : Kept(e, s) /\ StopFits(e, s)
    BY <2>1, <2>2 DEF Kept, StopFits
  <2>5. QED
    BY <2>1, <2>3, <2>4, SessionInit, InitType DEF KeysFit, TiesFit, Ties, NoneFails
<1>2. Inv /\ [Next]_vars => Inv'
  <2>1. ASSUME Inv, UNCHANGED vars
        PROVE  Inv'
    <3>1. /\ ep' = ep /\ sess' = sess /\ decided' = decided /\ commits' = commits
          /\ timeouts' = timeouts /\ raced' = raced
      BY <2>1 DEF vars
    <3>2. \A x, o : MultCommits(x, o)' = MultCommits(x, o) /\ DhCommits(x, o)' = DhCommits(x, o)
      BY <3>1 DEF MultCommits, DhCommits
    <3>3. NoneFails => NoneFails'
      BY <3>1 DEF NoneFails
    <3>4. ASSUME NEW e \in Endpoints, NEW s \in Streams
          PROVE  KeyFits(e, s) => KeyFits(e, s)'
      BY <3>1, <3>2 DEF KeyFits, Offers, Answers, Confirms
    <3>5. TypeInv => (TiesFit => TiesFit')
      BY <3>1, <3>2, TiesOther DEF TiesFit
    <3>6. TypeInv'
      BY <2>1, <3>1 DEF TypeInv
    <3>7. QED
      BY <2>1, <3>1, <3>3, <3>4, <3>5, <3>6, SessionStutter DEF KeysFit
  <2>2. ASSUME Inv, NEW e \in Endpoints, NEW s \in Streams, Stream(e, s)
        PROVE  Inv'
    <3>1. TypeInv'
      BY <2>2, StreamType
    <3>2. CASE raced
      BY <2>2, <3>1, <3>2, RacedStays
    <3>3. CASE ~raced /\ ~raced'
      <4>1. SessionInv /\ SessionInv'
        BY <2>2, <3>3, SessionStep
      <4>2. ASSUME timeouts' = 0
            PROVE  KeysFit' /\ TiesFit' /\ NoneFails'
        <5>1. timeouts = 0
          BY <2>2, <4>2, NoTimeOut
        <5>2. KeysFit' /\ NoneFails'
          BY <2>2, <3>3, <4>2, <5>1, KeysStep
        <5>3. TiesFit'
          BY <2>2, <3>3, <4>1, <4>2, <5>1, <5>2, TiesStep
        <5>4. QED
          BY <5>2, <5>3
      <4>3. QED
        BY <3>1, <4>1, <4>2
    <3>4. QED
      BY <3>1, <3>2, <3>3
  <2>3. QED
    BY <2>1, <2>2 DEF Next
<1>3. Inv => NoneFailsUnlessRaced
  BY DEF NoneFails, NoneFailsUnlessRaced
<1>4. QED
  BY <1>1, <1>2, <1>3, PTL DEF Spec

=============================================================================
