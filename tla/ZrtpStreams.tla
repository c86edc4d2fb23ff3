----------------------------- MODULE ZrtpStreams -----------------------------
(***************************************************************************)
(* Several streams of one session between two endpoints: which of them may *)
(* run a DH or Preshared exchange, which must wait and go on in            *)
(* Multistream mode with the ZRTP session key of the first, and how Commits *)
(* that cross on different streams are settled (_zrtp_can_start_stream,    *)
(* _initiating_secure, _zrtp_machine_preparse_commit and                   *)
(* _zrtp_machine_enter_pendingsecure).                                     *)
(*                                                                         *)
(* The messages of one stream are ZrtpHandshake's subject.  Here Commits   *)
(* stay in the network and may come late, out of order and twice; the      *)
(* later messages are taken straight from the state of the peer that sends *)
(* them and resends them on request.  An hvi or nonce is drawn with every  *)
(* Commit: it names the exchange, and its place in the order is open.      *)
(***************************************************************************)
EXTENDS Integers, FiniteSets

CONSTANTS
    Endpoints,    \* the two endpoints
    Streams,      \* the streams of the session, the same on both sides
    Preshared,    \* endpoints that ask for Preshared before there is a session key
    MaxCommits,   \* bound: Commits
    MaxTimeouts,  \* bound: resends that give up
    NONE

ASSUME StreamsAssumption ==
    /\ IsFiniteSet(Endpoints) /\ Cardinality(Endpoints) = 2
    /\ IsFiniteSet(Streams)
    /\ Preshared \subseteq Endpoints
    /\ {MaxCommits, MaxTimeouts} \subseteq Nat
    /\ NONE \notin Streams \cup Nat \cup {"initiator", "responder", "dh", "mult"}

Peer(e) == CHOOSE o \in Endpoints : o # e

(* CLEAR stands for all states before a key agreement. *)
Before == {"CLEAR", "START_INITIATINGSECURE"}
InProgress == {"INITIATINGSECURE", "WAIT_CONFIRM1", "WAIT_CONFIRMACK",
               "PENDINGSECURE", "WAIT_CONFIRM2"}
States == Before \cup InProgress \cup {"SECURE", "ERROR"}
Modes  == {"dh", "presh", "mult"}

VARIABLES
    ep,       \* ep[e][s]: stream s of endpoint e
    sess,     \* sess[e]: session->zrtpsess, named by the Commit it comes from
    decided,  \* decided[e][s]: what a handler has decided and not done yet
    commits,  \* every Commit sent so far
    timeouts, \* how many resends have given up
    raced     \* history: a stream was checked while another one of its
              \* endpoint was between its check and what follows

vars == <<ep, sess, decided, commits, timeouts, raced>>

-----------------------------------------------------------------------------
(* stream->mode as _zrtp_define_stream_mode has it. *)
DefineMode(e) == IF sess[e] # NONE THEN "mult"
                 ELSE IF e \in Preshared THEN "presh" ELSE "dh"

(* Variant: only a stream that has sent a Commit is in progress. *)
ConcurrentInitiators(e, s, mode) ==
    {o \in Streams \ {s} :
        /\ ep[e][o].state = "INITIATINGSECURE"
        /\ mode = "mult" => ep[e][o].mode # "mult"}

(* _zrtp_can_start_stream: the streams stream s has to wait for. *)
Concurrent(e, s, mode) ==
    {o \in Streams \ {s} :
        /\ ep[e][o].state \in InProgress
        /\ mode = "mult" => ep[e][o].mode # "mult"}

Drawn == {c.hv : c \in commits}

(* The mutex of a stream is held until its handler has done what it has    *)
(* decided; no lock keeps the handlers of other streams away.              *)
Idle(e, s) == decided[e][s] = NONE

(* session->init_protector, held from the check to the Commit by           *)
(* _zrtp_machine_start_initiating_secure only.                             *)
InitFree(e) == {o \in Streams : decided[e][o] # NONE /\ decided[e][o].what = "start"} = {}

-----------------------------------------------------------------------------
(* The second half of a handler, after the check of the other streams.     *)

(* _zrtp_machine_enter_initiatingsecure, with its Commit. *)
EnterInitiating(e, s, mode) ==
    \E n \in (1 .. MaxCommits) \ Drawn :
        /\ ep' = [ep EXCEPT ![e][s] =
               [state |-> "INITIATINGSECURE", mode |-> mode, hv |-> n, key |-> NONE,
                concurrent |-> NONE, resend |-> TRUE, process |-> FALSE]]
        /\ commits' = commits \cup {[to |-> Peer(e), stream |-> s, mode |-> mode, hv |-> n]}
        /\ UNCHANGED sess

(* Variant: the Commit does not enter the key. *)
KeyOfNoCommit(e, hv, mode) == [hv |-> 0, sess |-> IF mode = "mult" THEN sess[e] ELSE NONE]

(* _zrtp_set_public_value: the key, and the session key if there is none.  *)
KeyOf(e, hv, mode) == [hv |-> hv, sess |-> IF mode = "mult" THEN sess[e] ELSE NONE]

DeriveSession(e, hv, mode) ==
    sess' = [sess EXCEPT ![e] = IF mode # "mult" /\ @ = NONE THEN hv ELSE @]

(* Variant: the stopped stream is forgotten. *)
ForgetConcurrent(e, s, p, o) == [ep[e] EXCEPT ![s] = p]

(* The stream o that was stopped starts again: it waits for stream s. *)
ResumeConcurrent(e, s, p, o) ==
    [ep[e] EXCEPT ![s] = p,
                  ![o] = [ep[e][o] EXCEPT !.state = "START_INITIATINGSECURE",
                                          !.mode = DefineMode(e), !.concurrent = s,
                                          !.process = TRUE]]

(* _zrtp_machine_enter_pendingsecure: only a DH exchange resumes. *)
EnterPending(e, s, c) ==
    LET p == [ep[e][s] EXCEPT !.mode = c.mode, !.hv = c.hv,
                              !.resend = FALSE, !.process = FALSE]
        q == [p EXCEPT !.state = "PENDINGSECURE", !.concurrent = NONE]
    IN  /\ IF c.mode = "dh"
           THEN /\ IF p.concurrent = NONE
                   THEN ep' = [ep EXCEPT ![e][s] = q]
                   ELSE /\ InitFree(e)
                        /\ ep' = [ep EXCEPT ![e] = ResumeConcurrent(e, s, q, p.concurrent)]
                /\ UNCHANGED sess
           ELSE /\ ep' = [ep EXCEPT ![e][s] = [p EXCEPT !.state = "WAIT_CONFIRM2",
                                                        !.key = KeyOf(e, c.hv, c.mode)]]
                /\ DeriveSession(e, c.hv, c.mode)
        /\ UNCHANGED commits

-----------------------------------------------------------------------------
Init ==
    /\ ep = [e \in Endpoints |-> [s \in Streams |->
               [state |-> "CLEAR", mode |-> NONE, hv |-> 0, key |-> NONE,
                concurrent |-> NONE, resend |-> FALSE, process |-> FALSE]]]
    /\ sess = [e \in Endpoints |-> NONE]
    /\ decided = [e \in Endpoints |-> [s \in Streams |-> NONE]]
    /\ commits = {}
    /\ timeouts = 0
    /\ raced = FALSE

Decide(e, s, d) ==
    /\ decided' = [decided EXCEPT ![e][s] = d]
    /\ raced' = (raced \/ \E o \in Streams \ {s} : decided[e][o] # NONE)

Done(e, s) == decided' = [decided EXCEPT ![e][s] = NONE] /\ UNCHANGED raced

(* The check of _initiating_secure: stream s waits and the dh task tries   *)
(* again later, or s goes on to its Commit.                                *)
TryToStart(e, s, what) ==
    LET mode == DefineMode(e)
        others == Concurrent(e, s, mode)
        p == [ep[e][s] EXCEPT !.state = "START_INITIATINGSECURE", !.mode = mode]
    IN  \/ /\ others = {}
           /\ ep' = [ep EXCEPT ![e][s] = [p EXCEPT !.concurrent = NONE]]
           /\ Decide(e, s, [what |-> what, mode |-> mode])
        \/ \E o \in others :
               /\ ep' = [ep EXCEPT ![e][s] = [p EXCEPT !.concurrent = o, !.process = TRUE]]
               /\ UNCHANGED <<decided, raced>>

(* zrtp_stream_secure, or the end of discovery with autosecure. *)
StreamSecure(e, s) ==
    /\ Idle(e, s) /\ InitFree(e)
    /\ ep[e][s].state = "CLEAR"
    /\ TryToStart(e, s, "start")
    /\ UNCHANGED <<sess, commits, timeouts>>

(* The dh task: _initiating_secure called by the scheduler. *)
Retry(e, s) ==
    /\ Idle(e, s)
    /\ ep[e][s].process
    /\ ep[e][s].state = "START_INITIATINGSECURE"
    /\ TryToStart(e, s, "retry")
    /\ UNCHANGED <<sess, commits, timeouts>>

(* The role the Commit c gives to a stream, the other streams left aside.  *)
RoleFor(e, s, c) ==
    LET p == ep[e][s]
        outbids == IF p.mode = c.mode THEN p.hv > c.hv ELSE p.mode = "dh"
    IN  IF \/ p.state = "INITIATINGSECURE" /\ outbids
           \/ c.mode = "mult" /\ sess[e] = NONE
        THEN "initiator"
        ELSE IF c.mode = "dh" /\ sess[e] # NONE THEN NONE ELSE "responder"

(* Whether the stream o in progress is stopped in favour of the Commit c. *)
Yields(e, o, c) == ep[e][o].state = "INITIATINGSECURE" /\ ep[e][o].hv < c.hv

(* _zrtp_machine_preparse_commit. *)
ReceiveCommit(e, s, c) ==
    LET others == Concurrent(e, s, c.mode)
        role   == RoleFor(e, s, c)
        respond == Decide(e, s, [what |-> "respond", commit |-> c])
    IN  /\ Idle(e, s)
        /\ c.to = e /\ c.stream = s
        /\ ep[e][s].state \in Before \cup {"INITIATINGSECURE"}
        /\ \/ /\ role = "responder" /\ others = {}
              /\ ep' = [ep EXCEPT ![e][s].concurrent = NONE]
              /\ respond
           \/ /\ role = "responder"
              /\ \E o \in others :
                  \/ /\ Yields(e, o, c)
                     /\ ep' = [ep EXCEPT ![e][s].concurrent = o,
                                         ![e][o] = [ep[e][o] EXCEPT !.resend = FALSE,
                                                                    !.process = FALSE]]
                     /\ respond
                  \/ /\ ~Yields(e, o, c)
                     /\ ep' = [ep EXCEPT ![e][s].concurrent = o]
                     /\ UNCHANGED <<decided, raced>>
           \/ /\ role = "initiator"
              /\ ep[e][s].state = "CLEAR" /\ InitFree(e)
              /\ TryToStart(e, s, "start")
        /\ UNCHANGED <<sess, commits, timeouts>>

(* The handler goes on with what it has decided. *)
GoOn(e, s) ==
    LET d == decided[e][s]
    IN  /\ d # NONE
        /\ IF d.what = "respond" THEN EnterPending(e, s, d.commit)
                                 ELSE EnterInitiating(e, s, d.mode)
        /\ Done(e, s)
        /\ UNCHANGED timeouts

-----------------------------------------------------------------------------
(* The rest of an exchange: what stream s takes from the same stream of    *)
(* the peer.                                                               *)

Mine(e, s)   == ep[e][s]
Theirs(e, s) == ep[Peer(e)][s]

Become(e, s, p) == ep' = [ep EXCEPT ![e][s] = p]

(* The HMAC of a Confirm fits the key, or both sides end in ERROR. *)
Confirm(e, s, key, p) ==
    IF key = Theirs(e, s).key THEN Become(e, s, p)
    ELSE ep' = [o \in Endpoints |-> [ep[o] EXCEPT ![s] = [@ EXCEPT
                    !.state = "ERROR", !.resend = FALSE, !.process = FALSE]]]

ReceiveDHPart1(e, s) ==
    LET p == Mine(e, s)
    IN  /\ p.state = "INITIATINGSECURE" /\ p.mode = "dh"
        /\ Theirs(e, s).state = "PENDINGSECURE"
        /\ Become(e, s, [p EXCEPT !.state = "WAIT_CONFIRM1", !.resend = TRUE,
                                  !.key = KeyOf(e, p.hv, "dh")])
        /\ DeriveSession(e, p.hv, "dh")

ReceiveDHPart2(e, s) ==
    LET p == Mine(e, s)
    IN  /\ p.state = "PENDINGSECURE"
        /\ Theirs(e, s).state = "WAIT_CONFIRM1"
        /\ Become(e, s, [p EXCEPT !.state = "WAIT_CONFIRM2", !.key = KeyOf(e, p.hv, "dh")])
        /\ DeriveSession(e, p.hv, "dh")

ReceiveConfirm1(e, s) ==
    LET p == Mine(e, s)
        fast == p.state = "INITIATINGSECURE" /\ p.mode # "dh"
        key == IF fast THEN KeyOf(e, p.hv, p.mode) ELSE p.key
    IN  /\ p.state = "WAIT_CONFIRM1" \/ fast
        /\ Theirs(e, s).state = "WAIT_CONFIRM2"
        /\ Confirm(e, s, key, [p EXCEPT !.state = "WAIT_CONFIRMACK", !.resend = TRUE, !.key = key])
        /\ IF fast THEN DeriveSession(e, p.hv, p.mode) ELSE UNCHANGED sess

ReceiveConfirm2(e, s) ==
    LET p == Mine(e, s)
    IN  /\ p.state = "WAIT_CONFIRM2"
        /\ Theirs(e, s).state = "WAIT_CONFIRMACK"
        /\ Confirm(e, s, p.key, [p EXCEPT !.state = "SECURE"])
        /\ UNCHANGED sess

ReceiveConf2Ack(e, s) ==
    /\ Mine(e, s).state = "WAIT_CONFIRMACK"
    /\ Theirs(e, s).state = "SECURE"
    /\ Become(e, s, [Mine(e, s) EXCEPT !.state = "SECURE", !.resend = FALSE])
    /\ UNCHANGED sess

Exchange(e, s) ==
    /\ Idle(e, s)
    /\ \/ ReceiveDHPart1(e, s) \/ ReceiveDHPart2(e, s) \/ ReceiveConfirm1(e, s)
       \/ ReceiveConfirm2(e, s) \/ ReceiveConf2Ack(e, s)
    /\ UNCHANGED <<decided, commits, timeouts, raced>>

(* A resend or the dh task gives up: ERROR, and the peer is not told. *)
TimeOut(e, s) ==
    /\ Idle(e, s)
    /\ timeouts < MaxTimeouts
    /\ ep[e][s].resend \/ ep[e][s].process
    /\ Become(e, s, [ep[e][s] EXCEPT !.state = "ERROR", !.resend = FALSE, !.process = FALSE])
    /\ timeouts' = timeouts + 1
    /\ UNCHANGED <<sess, decided, commits, raced>>

Stream(e, s) ==
    \/ StreamSecure(e, s) \/ Retry(e, s) \/ GoOn(e, s)
    \/ \E c \in commits : ReceiveCommit(e, s, c)
    \/ Exchange(e, s) \/ TimeOut(e, s)

Next == \E e \in Endpoints, s \in Streams : Stream(e, s)

Spec == Init /\ [][Next]_vars

(* A handler goes on, the scheduler calls the dh task, and what one side   *)
(* asks for again and again gets through in the end.                       *)
Asks(e, s) == ep[e][s].resend \/ Theirs(e, s).resend

Progress(e, s) ==
    \/ GoOn(e, s)
    \/ Retry(e, s)
    \/ Exchange(e, s) /\ Asks(e, s)
    \/ \E c \in commits : /\ Theirs(e, s).resend /\ Theirs(e, s).hv = c.hv
                          /\ ReceiveCommit(e, s, c)

FairSpec == Spec /\ \A e \in Endpoints, s \in Streams : WF_vars(Progress(e, s))

-----------------------------------------------------------------------------
(* Properties.                                                             *)

Keys == [hv : 1 .. MaxCommits, sess : (1 .. MaxCommits) \cup {NONE}]

StreamRecords ==
    [state : States, mode : Modes \cup {NONE}, hv : 0 .. MaxCommits,
     key : Keys \cup {NONE}, concurrent : Streams \cup {NONE},
     resend : BOOLEAN, process : BOOLEAN]

Commits == [to : Endpoints, stream : Streams, mode : Modes, hv : 1 .. MaxCommits]

Decisions == [what : {"start", "retry"}, mode : Modes]
             \cup [what : {"respond"}, commit : Commits]

TypeOK ==
    /\ ep \in [Endpoints -> [Streams -> StreamRecords]]
    /\ sess \in [Endpoints -> (1 .. MaxCommits) \cup {NONE}]
    /\ decided \in [Endpoints -> [Streams -> Decisions \cup {NONE}]]
    /\ commits \subseteq Commits
    /\ timeouts \in 0 .. MaxTimeouts
    /\ raced \in BOOLEAN

(* The streams of e with a DH or Preshared exchange under way; one whose   *)
(* Commit has been stopped is not.                                         *)
Full(e) ==
    {s \in Streams : /\ ep[e][s].state \in InProgress
                     /\ ep[e][s].mode # "mult"
                     /\ ep[e][s].state = "INITIATINGSECURE" => ep[e][s].resend}

(* "Only one DH or Preshared stream can be run at the moment": neither the *)
(* user, nor the scheduler, nor a Commit of the peer starts a second one.  *)
(* (Two Commits that are checked at once do.)                              *)
OneExchange == \A e \in Endpoints : Cardinality(Full(e)) <= 1

(* Both endpoints take the session key of the same exchange, whatever      *)
(* order their streams are served in: Multistream keys come from it.       *)
SameSession ==
    \A e \in Endpoints :
        sess[e] # NONE /\ sess[Peer(e)] # NONE => sess[e] = sess[Peer(e)]

(* No exchange fails unless a resend gives up.                             *)
NoneFails ==
    timeouts = 0 => \A e \in Endpoints, s \in Streams : ep[e][s].state # "ERROR"

(* The checks of _zrtp_can_start_stream and _zrtp_machine_preparse_commit  *)
(* are enough for OneExchange, unless two of them overlap: a stream is     *)
(* checked, and goes on, while another one of its endpoint is still        *)
(* between its check and what follows.  init_protector keeps that from     *)
(* streams that the user starts, not from Commits and the dh task.         *)
OneExchangeUnlessRaced == ~raced => OneExchange

(* Unless two checks overlap, the exchange that gives the session key      *)
(* (_zrtp_set_public_value) is the same on both sides.                     *)
SameSessionUnlessRaced == ~raced => SameSession

(* Unless two checks overlap, the HMAC of every Confirm fits: no stream is *)
(* taken out of an exchange that its peer goes on with.                    *)
NoneFailsUnlessRaced == ~raced => NoneFails

(* A stream that has started gets SECURE, also one that has waited for     *)
(* another or was stopped to break a tie between streams, as long as no    *)
(* resend gives up and no two checks overlap.                              *)
WaitersServed ==
    \A e \in Endpoints, s \in Streams :
        ep[e][s].state \in {"START_INITIATINGSECURE", "INITIATINGSECURE"}
            ~> ep[e][s].state = "SECURE" \/ timeouts > 0 \/ raced

=============================================================================
