--------------------------- MODULE ZrtpSessions ---------------------------
(***************************************************************************)
(* The sessions and streams of one process and the mutexes around them:    *)
(* zrtp->sessions_protector, streams_protector and init_protector of each  *)
(* session, stream_protector of each stream.  Threads of the application   *)
(* make and close sessions, attach streams and pass ZRTP messages to them; *)
(* the scheduler calls the dh task of a stream that waits for another.     *)
(*                                                                         *)
(* All sessions are with one peer, so a walk over the list of sessions     *)
(* looks at every one of them.  What a message does to its stream is in    *)
(* ZrtpHandshake and ZrtpStreams: here it is the locks it takes, and any   *)
(* outcome of a look at another stream is possible.  A section under a     *)
(* mutex that takes no other one is one step.  No call on a session runs   *)
(* in parallel to its zrtp_session_down (include/zrtp.h:484), but calls on *)
(* other sessions and the scheduler do.                                    *)
(***************************************************************************)
EXTENDS Integers, Sequences, SequencesExt

CONSTANTS
    Sessions,
    Streams,    \* pairs of a session and a place in its array of streams
    Users,      \* threads that make, fill and close sessions
    Media,      \* threads that pass messages to zrtp_process_srtp
    SCHED,      \* the thread of sched_loop
    NONE

ASSUME SessionsAssumption ==
    /\ Streams \subseteq Sessions \X Nat
    /\ Users \cap Media = {} /\ SCHED \notin Users \cup Media
    /\ NONE \notin Users \cup Media \cup {SCHED} \cup Sessions \cup Streams
    /\ NONE \notin {"start", "retry", "commit"}

Threads == Users \cup Media \cup {SCHED}

SessionsProtector == <<"sessions">>
StreamsProtector(s) == <<"streams", s>>
InitProtector(s) == <<"init", s>>
StreamProtector(x) == <<"stream", x>>

Mutexes == {SessionsProtector}
    \cup {StreamsProtector(s) : s \in Sessions} \cup {InitProtector(s) : s \in Sessions}
    \cup {StreamProtector(x) : x \in Streams}

ASSUME NoMutexAssumption == NONE \notin Mutexes

VARIABLES
    sessions_head,   \* list of sessions, newest first
    alive,           \* sessions whose memory and mutexes exist
    secrets,         \* sessions whose secrets are allocated
    attached,        \* streams whose state is not NONE
    concurrent,      \* concurrent[x]: stream->concurrent
    enabled,         \* streams whose dh_task._is_enabled
    queue,           \* streams whose dh_task is in the scheduler's list
    busy,            \* the stream whose dh_task sched_loop is calling
    owner,           \* owner[m]: the thread that holds mutex m
    th               \* th[t]: place, session, stream and walk of thread t

tasks == <<enabled, queue, busy>>
contexts == <<sessions_head, alive, secrets, attached>>
vars == <<contexts, concurrent, tasks, owner, th>>

\* s: the session a call is about; x: the stream whose mutex it holds or
\* wants; y: the stream it tries to start; why: who asked; walk: the
\* sessions still to visit.
Idle == [pc |-> "idle", s |-> NONE, x |-> NONE, y |-> NONE, why |-> NONE, walk |-> <<>>]

Init ==
    /\ sessions_head = <<>> /\ alive = {} /\ secrets = {}
    /\ attached = {}
    /\ concurrent = [x \in Streams |-> NONE]
    /\ enabled = {} /\ queue = {} /\ busy = NONE
    /\ owner = [m \in Mutexes |-> NONE]
    /\ th = [t \in Threads |-> Idle]

-----------------------------------------------------------------------------
(* Locks *)

At(t, places) == th[t].pc \in places

\* The mutex thread t asks for at its place, if it does.
Wants(t) ==
    LET r == th[t]
    IN CASE At(t, {"list_add", "down_unlink", "verify", "walk_lock"}) -> SessionsProtector
         [] At(t, {"attach", "down", "prepare"}) -> StreamsProtector(r.s)
         [] At(t, {"walk"}) /\ r.walk # <<>> -> StreamsProtector(Head(r.walk))
         [] At(t, {"start"}) -> InitProtector(r.y[1])
         [] At(t, {"message", "stop_lock", "dh_lock"}) -> StreamProtector(r.x)
         [] OTHER -> NONE

Free(t) == owner[Wants(t)] = NONE

Lock(t) == Free(t) /\ owner' = [owner EXCEPT ![Wants(t)] = t]

Unlock(ms) == owner' = [m \in Mutexes |-> IF m \in ms THEN NONE ELSE owner[m]]

Goto(t, place) == th' = [th EXCEPT ![t].pc = place]

Done(t) == th' = [th EXCEPT ![t] = Idle]

\* The call ends and gives back what it holds, the last of it the mutex of its
\* stream.
Leave(t) == Unlock({m \in Mutexes : owner[m] = t}) /\ Done(t)

-----------------------------------------------------------------------------
(* Sessions and streams come and go *)

Closing(s) ==
    \E u \in Users : th[u].s = s /\
        At(u, {"down", "down_stop", "stop_lock", "stop_wait", "down_free_secrets",
               "down_unlink", "down_free"})

\* The sessions the application may call functions on.
Open == {s \in Range(sessions_head) : ~Closing(s)}

InUse(s) == \E t \in Users \cup Media : th[t].s = s

SessionInit(u, s) ==
    /\ At(u, {"idle"}) /\ s \notin alive /\ ~InUse(s)
    /\ alive' = alive \cup {s} /\ secrets' = secrets \cup {s}
    /\ th' = [th EXCEPT ![u].pc = "list_add", ![u].s = s]
    /\ UNCHANGED <<sessions_head, attached, concurrent, tasks, owner>>

\* Variant: a session that is closed stays in the list.
KeepLinked(u) ==
    /\ At(u, {"down_unlink"}) /\ Free(u)
    /\ Goto(u, "down_free")
    /\ UNCHANGED <<contexts, concurrent, tasks, owner>>

ListAdd(u) ==
    /\ At(u, {"list_add"}) /\ Free(u)
    /\ sessions_head' = <<th[u].s>> \o sessions_head
    /\ Done(u)
    /\ UNCHANGED <<alive, secrets, attached, concurrent, tasks, owner>>

StreamAttach(u, s) ==
    /\ At(u, {"idle"}) /\ s \in Open
    /\ th' = [th EXCEPT ![u].pc = "attach", ![u].s = s]
    /\ UNCHANGED <<contexts, concurrent, tasks, owner>>

FirstOf(xs) == CHOOSE x \in xs : \A y \in xs : x[2] <= y[2]

\* The search of zrtp_stream_attach, under streams_protector.
AttachFind(u) ==
    /\ At(u, {"attach"}) /\ Free(u)
    /\ LET unused == {x \in Streams \ attached : x[1] = th[u].s}
       IN IF unused = {} THEN Done(u)
          ELSE th' = [th EXCEPT ![u].pc = "attach_init", ![u].x = FirstOf(unused)]
    /\ UNCHANGED <<contexts, concurrent, tasks, owner>>

\* The rest of it, after the unlock.
AttachInit(u) ==
    /\ At(u, {"attach_init"})
    /\ attached' = attached \cup {th[u].x}
    /\ Done(u)
    /\ UNCHANGED <<sessions_head, alive, secrets, concurrent, tasks, owner>>

SessionDown(u, s) ==
    /\ At(u, {"idle"}) /\ s \in Open /\ ~InUse(s)
    /\ th' = [th EXCEPT ![u].pc = "down", ![u].s = s]
    /\ UNCHANGED <<contexts, concurrent, tasks, owner>>

DownLock(u) ==
    /\ At(u, {"down"}) /\ Lock(u)
    /\ Goto(u, "down_stop")
    /\ UNCHANGED <<contexts, concurrent, tasks>>

\* The loop over the streams: zrtp_stream_stop for the next one.
DownStop(u) ==
    LET s == th[u].s
        used == {x \in attached : x[1] = s}
    IN  /\ At(u, {"down_stop"})
        /\ IF used = {}
             THEN Unlock({StreamsProtector(s)}) /\ Goto(u, "down_free_secrets")
             ELSE /\ th' = [th EXCEPT ![u].pc = "stop_lock", ![u].x = FirstOf(used)]
                  /\ UNCHANGED owner
        /\ UNCHANGED <<contexts, concurrent, tasks>>

\* zrtp_stream_stop: all tasks are cancelled under stream_protector...
StopLock(u) ==
    /\ At(u, {"stop_lock"}) /\ Lock(u)
    /\ enabled' = enabled \ {th[u].x} /\ queue' = queue \ {th[u].x}
    /\ Goto(u, "stop_wait")
    /\ UNCHANGED <<contexts, concurrent, busy>>

\* ...and it waits for the task in progress, then wipes the stream.
StopWipe(u) ==
    LET x == th[u].x
    IN  /\ At(u, {"stop_wait"}) /\ busy # x
        /\ attached' = attached \ {x}
        /\ concurrent' = [concurrent EXCEPT ![x] = NONE]
        /\ enabled' = enabled \ {x}
        /\ Unlock({StreamProtector(x)})
        /\ Goto(u, "down_stop")
        /\ UNCHANGED <<sessions_head, alive, secrets, queue, busy>>

\* Variant: the session itself is freed at the same place.
DownFreeAll(u) ==
    /\ At(u, {"down_free_secrets"})
    /\ secrets' = secrets \ {th[u].s} /\ alive' = alive \ {th[u].s}
    /\ Goto(u, "down_unlink")
    /\ UNCHANGED <<sessions_head, attached, concurrent, tasks, owner>>

DownFreeSecrets(u) ==
    /\ At(u, {"down_free_secrets"})
    /\ secrets' = secrets \ {th[u].s}
    /\ Goto(u, "down_unlink")
    /\ UNCHANGED <<sessions_head, alive, attached, concurrent, tasks, owner>>

PlaceOf(s) == CHOOSE i \in DOMAIN sessions_head : sessions_head[i] = s

DownUnlink(u) ==
    /\ At(u, {"down_unlink"}) /\ Free(u)
    /\ sessions_head' = RemoveAt(sessions_head, PlaceOf(th[u].s))
    /\ Goto(u, "down_free")
    /\ UNCHANGED <<alive, secrets, attached, concurrent, tasks, owner>>

DownFree(u) ==
    /\ At(u, {"down_free"})
    /\ alive' = alive \ {th[u].s}
    /\ Done(u)
    /\ UNCHANGED <<sessions_head, secrets, attached, concurrent, tasks, owner>>

-----------------------------------------------------------------------------
(* zrtp_verified_set, called by the user or for a Confirm whose V is 0 *)

UserVerifies(u) ==
    /\ At(u, {"idle"})
    /\ Goto(u, "verify")
    /\ UNCHANGED <<contexts, concurrent, tasks, owner>>

VerifyLock(t) ==
    /\ At(t, {"verify"}) /\ Lock(t)
    /\ th' = [th EXCEPT ![t].pc = "verify_walk", ![t].walk = sessions_head]
    /\ UNCHANGED <<contexts, concurrent, tasks>>

\* A session that has had an alert gets its rs1 stored: see SecretsHeld.
VerifySession(t) ==
    /\ At(t, {"verify_walk"}) /\ th[t].walk # <<>>
    /\ th' = [th EXCEPT ![t].walk = Tail(th[t].walk)]
    /\ UNCHANGED <<contexts, concurrent, tasks, owner>>

VerifyEnd(t) ==
    /\ At(t, {"verify_walk"}) /\ th[t].walk = <<>>
    /\ Leave(t)
    /\ UNCHANGED <<contexts, concurrent, tasks>>

-----------------------------------------------------------------------------
(* A ZRTP message of stream x, or zrtp_stream_secure *)

Message(m, x) ==
    /\ At(m, {"idle"}) /\ x \in attached /\ x[1] \in Open
    /\ th' = [th EXCEPT ![m].pc = "message", ![m].s = x[1], ![m].x = x]
    /\ UNCHANGED <<contexts, concurrent, tasks, owner>>

\* The handler has the stream's mutex and does one of: _zrtp_prepare_secrets,
\* the start of an exchange, the check of a Commit, zrtp_verified_set.
MessageLock(m) ==
    /\ At(m, {"message"}) /\ Lock(m)
    /\ \E place \in {"prepare", "start", "walk_lock", "verify"} :
          th' = [th EXCEPT ![m].pc = place,
                           ![m].y = IF place \in {"start", "walk_lock"} THEN th[m].x ELSE NONE,
                           ![m].why = CASE place = "start" -> "start"
                                        [] place = "walk_lock" -> "commit"
                                        [] OTHER -> NONE]
    /\ UNCHANGED <<contexts, concurrent, tasks>>

Prepare(m) ==
    /\ At(m, {"prepare"}) /\ Free(m)
    /\ Leave(m)
    /\ UNCHANGED <<contexts, concurrent, tasks>>

-----------------------------------------------------------------------------
(* _zrtp_machine_start_initiating_secure and _initiating_secure of stream y *)

\* What a start does to y it does without the mutex of y if it resumes y:
\* see ConcurrentHeld.
StartLock(t) ==
    /\ At(t, {"start"}) /\ Lock(t)
    /\ th[t].y \in attached
    /\ enabled' = enabled \cup {th[t].y}
    /\ Goto(t, "walk_lock")
    /\ UNCHANGED <<contexts, concurrent, queue, busy>>

\* sched_loop calls the dh task of y; a cancelled one returns at once.
SchedPop(y) ==
    /\ At(SCHED, {"idle"}) /\ y \in queue /\ y \in attached
    /\ queue' = queue \ {y}
    /\ IF y \in enabled
         THEN /\ busy' = y
              /\ th' = [th EXCEPT ![SCHED].pc = "dh_lock", ![SCHED].x = y, ![SCHED].y = y,
                                  ![SCHED].why = "retry"]
         ELSE UNCHANGED <<busy, th>>
    /\ UNCHANGED <<contexts, concurrent, enabled, owner>>

\* The stream may have left START_INITIATINGSECURE meanwhile.
DhLock ==
    /\ At(SCHED, {"dh_lock"}) /\ Lock(SCHED)
    /\ Goto(SCHED, "walk_lock") \/ Goto(SCHED, "dh_end")
    /\ UNCHANGED <<contexts, concurrent, tasks>>

DhEnd ==
    /\ At(SCHED, {"dh_end"}) /\ Leave(SCHED)
    /\ busy' = NONE
    /\ UNCHANGED <<contexts, concurrent, enabled, queue>>

-----------------------------------------------------------------------------
(* _zrtp_can_start_stream for stream y *)

WalkLock(t) ==
    /\ At(t, {"walk_lock"}) /\ Lock(t)
    /\ th' = [th EXCEPT ![t].pc = "walk", ![t].walk = sessions_head]
    /\ UNCHANGED <<contexts, concurrent, tasks>>

Others(s, y) == {z \in attached : z[1] = s /\ z # y}

\* Thread t starts y again for a stream that is in progress itself.
Resumed(t) == th[t].y # th[t].x

\* The next session, under its streams_protector: a stream of it denies the
\* start, or none does.
WalkSession(t) ==
    LET y == th[t].y
        s == Head(th[t].walk)
    IN  /\ At(t, {"walk"}) /\ th[t].walk # <<>>
        /\ s \in alive /\ Free(t)
        /\ \/ /\ \E z \in Others(s, y) : concurrent' = [concurrent EXCEPT ![y] = z]
              /\ th' = [th EXCEPT ![t].pc = "denied", ![t].walk = <<>>]
              /\ Unlock({SessionsProtector})
           \/ /\ ~Resumed(t) \/ th[t].x \notin Others(s, y)
              /\ th' = [th EXCEPT ![t].walk = Tail(th[t].walk)]
              /\ UNCHANGED <<concurrent, owner>>
        /\ UNCHANGED <<contexts, tasks>>

\* Variant: *conc is left alone when nobody is in the way.
KeepConcurrent(y) == concurrent

NoConcurrent(y) == [concurrent EXCEPT ![y] = NONE]

WalkEnd(t) ==
    /\ At(t, {"walk"}) /\ th[t].walk = <<>>
    /\ concurrent' = NoConcurrent(th[t].y)
    /\ Unlock({SessionsProtector})
    /\ Goto(t, "accepted")
    /\ UNCHANGED <<contexts, tasks>>

\* The start or the check of a Commit is over.
Return(t) == IF t = SCHED THEN Goto(t, "dh_end") /\ UNCHANGED owner ELSE Leave(t)

\* y has to wait: its task is queued again unless it was cancelled.
StartDenied(t) ==
    /\ At(t, {"denied"}) /\ th[t].why # "commit"
    /\ queue' = IF th[t].y \in enabled THEN queue \cup {th[t].y} ELSE queue
    /\ Return(t)
    /\ UNCHANGED <<contexts, concurrent, enabled, busy>>

\* _zrtp_machine_enter_initiatingsecure, which resumes a concurrent stream.
StartAccepted(t) ==
    LET y == th[t].y
    IN  /\ At(t, {"accepted"}) /\ th[t].why # "commit"
        /\ enabled' = enabled \ {y} /\ queue' = queue \ {y}
        /\ IF concurrent[y] # NONE
             THEN /\ th' = [th EXCEPT ![t].pc = "start", ![t].y = concurrent[y], ![t].why = "start"]
                  /\ concurrent' = [concurrent EXCEPT ![y] = NONE]
                  /\ UNCHANGED owner
             ELSE /\ Return(t)
                  /\ UNCHANGED concurrent
        /\ UNCHANGED <<contexts, busy>>

\* A Commit is ignored for another stream in progress, or that stream is
\* stopped for it, without its mutex: see ConcurrentHeld.
CommitDenied(t) ==
    LET z == concurrent[th[t].y]
    IN  /\ At(t, {"denied"}) /\ th[t].why = "commit"
        /\ \/ Return(t) /\ UNCHANGED <<enabled, queue>>
           \/ /\ z \in attached
              /\ enabled' = enabled \ {z} /\ queue' = queue \ {z}
              /\ Goto(t, "respond") /\ UNCHANGED owner
        /\ UNCHANGED <<contexts, concurrent, busy>>

CommitAccepted(t) ==
    /\ At(t, {"accepted"}) /\ th[t].why = "commit"
    /\ Goto(t, "respond")
    /\ UNCHANGED <<contexts, concurrent, tasks, owner>>

\* _zrtp_machine_enter_pendingsecure: a DH exchange resumes the stream that
\* was stopped.
Respond(t) ==
    LET y == th[t].y
    IN  /\ At(t, {"respond"})
        /\ \/ /\ concurrent[y] # NONE
              /\ th' = [th EXCEPT ![t].pc = "start", ![t].y = concurrent[y], ![t].why = "start"]
              /\ concurrent' = [concurrent EXCEPT ![y] = NONE]
              /\ UNCHANGED owner
           \/ Return(t) /\ UNCHANGED concurrent
        /\ UNCHANGED <<contexts, tasks>>

-----------------------------------------------------------------------------
UserStep(u) ==
    \/ \E s \in Sessions : SessionInit(u, s) \/ StreamAttach(u, s) \/ SessionDown(u, s)
    \/ ListAdd(u) \/ AttachFind(u) \/ AttachInit(u)
    \/ DownLock(u) \/ DownStop(u) \/ StopLock(u) \/ StopWipe(u)
    \/ DownFreeSecrets(u) \/ DownUnlink(u) \/ DownFree(u) \/ UserVerifies(u)

MediaStep(m) ==
    \/ \E x \in Streams : Message(m, x)
    \/ MessageLock(m) \/ Prepare(m)

Walk(t) ==
    \/ VerifyLock(t) \/ VerifySession(t) \/ VerifyEnd(t)
    \/ StartLock(t) \/ WalkLock(t) \/ WalkSession(t) \/ WalkEnd(t)
    \/ StartDenied(t) \/ StartAccepted(t)
    \/ CommitDenied(t) \/ CommitAccepted(t) \/ Respond(t)

Next ==
    \/ \E u \in Users : UserStep(u)
    \/ \E m \in Media : MediaStep(m)
    \/ \E y \in Streams : SchedPop(y)
    \/ DhLock \/ DhEnd
    \/ \E t \in Threads : Walk(t)

Spec == Init /\ [][Next]_vars

-----------------------------------------------------------------------------
(* Properties *)

Places ==
    {"idle", "list_add", "attach", "attach_init", "down", "down_stop", "stop_lock",
     "stop_wait", "down_free_secrets", "down_unlink", "down_free", "verify", "verify_walk",
     "message", "prepare", "start", "dh_lock", "dh_end", "walk_lock", "walk",
     "denied", "accepted", "respond"}

\* Type invariant; the list has no session twice.
TypeOK ==
    /\ sessions_head \in Seq(Sessions)
    /\ \A i, j \in DOMAIN sessions_head : sessions_head[i] = sessions_head[j] => i = j
    /\ alive \subseteq Sessions /\ secrets \subseteq Sessions
    /\ attached \subseteq Streams /\ enabled \subseteq Streams /\ queue \subseteq Streams
    /\ busy \in Streams \cup {NONE}
    /\ concurrent \in [Streams -> Streams \cup {NONE}]
    /\ owner \in [Mutexes -> Threads \cup {NONE}]
    /\ th \in [Threads -> [pc : Places, s : Sessions \cup {NONE}, x : Streams \cup {NONE},
                           y : Streams \cup {NONE}, why : {NONE, "start", "retry", "commit"},
                           walk : Seq(Sessions)]]

\* The thread that keeps t from its next step, if there is one.
Blocker(t) ==
    IF At(t, {"stop_wait"}) THEN IF busy = th[t].x THEN SCHED ELSE NONE
    ELSE IF Wants(t) = NONE THEN NONE ELSE owner[Wants(t)]

\* Threads that wait for each other for ever.
Jammed(ts) == ts # {} /\ \A t \in ts : Blocker(t) \in ts

\* Messages, starts of streams, walks over all sessions, attaches and the
\* scheduler never wait for each other in a ring, nor a thread for a mutex it
\* holds (they are not recursive).  Only a dh task in progress can: with the
\* zrtp_session_down of its stream.
JamsOnlyInDown ==
    \A ts \in SUBSET Threads :
        Jammed(ts) => /\ SCHED \in ts /\ busy # NONE
                      /\ \E u \in ts : th[u].s = busy[1] /\ At(u, {"stop_lock", "stop_wait"})

\* A walk over sessions_head meets no session that has been freed, although
\* calls on other sessions close them.
WalkMeetsLive ==
    \A t \in Threads : At(t, {"walk", "verify_walk"}) => Range(th[t].walk) \subseteq alive

\* "All operations with sessions and streams are protected by mutexes"
\* (include/zrtp_engine.h:222).  Two calls of zrtp_stream_attach get two streams;
\* does not hold (MCZrtpSessions_attach.cfg).
SlotsDistinct ==
    \A u, v \in Users : At(u, {"attach_init"}) /\ At(v, {"attach_init"}) /\ th[u].x = th[v].x => u = v

\* zrtp_verified_set stores no secret that has been freed; does not hold
\* (MCZrtpSessions_secrets.cfg).
SecretsHeld ==
    \A t \in Threads : At(t, {"verify_walk"}) /\ th[t].walk # <<>> => Head(th[t].walk) \in secrets

\* The stream that a Commit stopped is still there when it is started again;
\* does not hold for one of another session (MCZrtpSessions_ties.cfg).
ConcurrentHeld ==
    \A t \in Threads : At(t, {"start"}) => th[t].y \in attached

=============================================================================
