------------------------ MODULE ZrtpSessions_proofs ------------------------
(***************************************************************************)
(* Theorems about the sessions, the streams and their mutexes, for any     *)
(* number of sessions, streams and threads.                                *)
(***************************************************************************)
EXTENDS ZrtpSessions, SequenceTheorems, WellFoundedInduction, NaturalsInduction, TLAPS

-----------------------------------------------------------------------------
(* Where a thread can be, and what its record then says.                   *)

DownPlaces ==
    {"down", "down_stop", "stop_lock", "stop_wait", "down_free_secrets", "down_unlink",
     "down_free"}

UserPlaces ==
    {"idle", "list_add", "attach", "attach_init", "verify", "verify_walk"} \cup DownPlaces

\* The places of a thread that starts a stream or looks at a Commit.
StartPlaces == {"start", "walk_lock", "walk", "denied", "accepted", "respond"}

\* A message handler, or the dh task, has the mutex of its stream.
HandlerPlaces == {"prepare", "verify", "verify_walk", "dh_end"} \cup StartPlaces

MediaPlaces == {"idle", "message", "prepare", "verify", "verify_walk"} \cup StartPlaces

SchedPlaces == {"idle", "dh_lock", "dh_end"} \cup (StartPlaces \ {"respond"})

Records ==
    [pc : Places, s : Sessions \cup {NONE}, x : Streams \cup {NONE},
     y : Streams \cup {NONE}, why : {NONE, "start", "retry", "commit"},
     walk : Seq(Sessions)]

UserFits(r) ==
    /\ r.pc \in UserPlaces
    /\ r.pc \in DownPlaces \cup {"list_add", "attach", "attach_init"} => r.s \in Sessions
    /\ r.pc \in {"attach_init", "stop_lock", "stop_wait"} => r.x \in Streams /\ r.x[1] = r.s

MediaFits(r) ==
    /\ r.pc \in MediaPlaces
    /\ r.pc # "idle" => r.x \in Streams /\ r.s = r.x[1]
    /\ r.why # "retry"

SchedFits(r) ==
    /\ r.pc \in SchedPlaces
    /\ r.pc # "idle" => r.x \in Streams
    /\ r.why # "commit"
    /\ r.pc = "dh_lock" => r.why = "retry"

\* Only a start of another stream than its own goes on to a third one, and
\* only after it was denied.
StartFits(r) ==
    /\ r.pc = "idle" => r = Idle
    /\ r.pc \in StartPlaces \cup {"dh_lock", "dh_end"} =>
          r.y \in Streams /\ r.why # NONE /\ (r.why # "start" => r.y = r.x)
    /\ r.pc = "start" => r.why = "start"
    /\ r.pc = "respond" => r.why = "commit"
    /\ r.pc = "accepted" => r.y = r.x

ThreadsFit ==
    /\ \A u \in Users : UserFits(th[u])
    /\ \A m \in Media : MediaFits(th[m])
    /\ SchedFits(th[SCHED])
    /\ \A t \in Threads : th[t] \in Records /\ StartFits(th[t])

\* The mutexes a thread holds at its place, and no other.
Holds(t) ==
    LET r == th[t]
    IN  /\ owner[SessionsProtector] = t <=> r.pc \in {"walk", "verify_walk"}
        /\ \A s \in Sessions : owner[StreamsProtector(s)] = t <=>
               r.pc \in {"down_stop", "stop_lock", "stop_wait"} /\ r.s = s
        /\ \A s \in Sessions : owner[InitProtector(s)] = t <=>
               /\ r.pc \in {"walk_lock", "walk", "denied", "accepted", "dh_end"}
               /\ r.why = "start" /\ r.y[1] = s
        /\ \A x \in Streams : owner[StreamProtector(x)] = t <=>
               r.pc \in (IF t \in Users THEN {"stop_wait"} ELSE HandlerPlaces) /\ r.x = x

MutexesFit == \A t \in Threads : Holds(t)

\* The thread that makes or closes a session is alone with it.
Alone ==
    \A u \in Users : At(u, DownPlaces \cup {"list_add"}) =>
        \A t \in (Users \cup Media) \ {u} : th[t].s # th[u].s

\* Sessions in the list exist, also while somebody uses them, and so do those
\* in front of a walk: the list does not change while its mutex is held.
UserListed(u) ==
    LET s == th[u].s
        list == Range(sessions_head)
    IN  /\ At(u, {"list_add", "down_free"}) => s \in alive /\ s \notin list
        /\ At(u, {"attach", "attach_init"} \cup (DownPlaces \ {"down_free"})) => s \in list
        /\ At(u, {"stop_lock", "stop_wait"}) => th[u].x \in attached
        /\ At(u, {"down_free_secrets", "down_unlink", "down_free"}) =>
               \A x \in attached : x[1] # s

MediaListed(m) == ~At(m, {"idle"}) => th[m].x \in attached

WalkListed(t) ==
    At(t, {"walk", "verify_walk"}) => Range(th[t].walk) \subseteq Range(sessions_head)

Listed ==
    /\ Range(sessions_head) \subseteq alive
    /\ \A x \in attached : x[1] \in Range(sessions_head)
    /\ \A u \in Users : UserListed(u)
    /\ \A m \in Media : MediaListed(m)
    /\ \A t \in Threads : WalkListed(t)

\* The stream of the dh task that sched_loop calls.
TaskFits ==
    /\ busy = th[SCHED].x
    /\ busy # NONE => busy \in attached

\* A thread that resumes another stream will meet its own one on its walk.
Meets ==
    \A t \in Threads : At(t, {"walk"}) /\ Resumed(t) => th[t].x[1] \in Range(th[t].walk)

\* Nobody else writes concurrent of a stream that is about to start.
Undisturbed ==
    \A t \in Threads : At(t, {"accepted"}) /\ th[t].why = "start" => concurrent[th[t].y] = NONE

SessionsInv ==
    TypeOK /\ ThreadsFit /\ MutexesFit /\ Alone /\ Listed /\ TaskFits /\ Meets /\ Undisturbed

-----------------------------------------------------------------------------
(* Constants and helpers.                                                  *)

LEMMA ThreadKinds ==
    /\ Users \subseteq Threads /\ Media \subseteq Threads /\ SCHED \in Threads
    /\ Users \cap Media = {} /\ SCHED \notin Users /\ SCHED \notin Media
    /\ \A t \in Threads : t \in Users \/ t \in Media \/ t = SCHED
    /\ NONE \notin Threads /\ NONE \notin Sessions /\ NONE \notin Streams /\ NONE \notin {"start", "retry", "commit"}
    /\ \A x \in Streams : x[1] \in Sessions /\ x[2] \in Nat
  BY SessionsAssumption DEF Threads

LEMMA MutexKinds ==
    /\ SessionsProtector \in Mutexes
    /\ \A s \in Sessions : StreamsProtector(s) \in Mutexes /\ InitProtector(s) \in Mutexes
    /\ \A x \in Streams : StreamProtector(x) \in Mutexes
    /\ \A m \in Mutexes : \/ m = SessionsProtector
                          \/ \E s \in Sessions : m = StreamsProtector(s) \/ m = InitProtector(s)
                          \/ \E x \in Streams : m = StreamProtector(x)
    /\ NONE \notin Mutexes
  BY NoMutexAssumption DEF Mutexes

LEMMA MutexesDiffer ==
    /\ \A s : /\ SessionsProtector # StreamsProtector(s)
              /\ SessionsProtector # InitProtector(s)
              /\ SessionsProtector # StreamProtector(s)
    /\ \A s, r : /\ StreamsProtector(s) # InitProtector(r)
                 /\ StreamsProtector(s) # StreamProtector(r)
                 /\ InitProtector(s) # StreamProtector(r)
                 /\ StreamsProtector(s) = StreamsProtector(r) => s = r
                 /\ InitProtector(s) = InitProtector(r) => s = r
                 /\ StreamProtector(s) = StreamProtector(r) => s = r
  BY DEF SessionsProtector, StreamsProtector, InitProtector, StreamProtector

LEMMA FirstOfIsOne ==
    ASSUME NEW xs \in SUBSET Streams, xs # {}
    PROVE  FirstOf(xs) \in xs
<1> DEFINE N == {x[2] : x \in xs}
<1>1. N \in SUBSET Nat /\ N # {}
  BY ThreadKinds
<1> HIDE DEF N
<1>2. PICK n \in N : \A k \in N : ~ (<<k, n>> \in OpToRel(<, Nat))
  BY <1>1, NatLessThanWellFounded, WFMin
<1>3. ASSUME NEW k \in N PROVE n <= k
  <2>1. ~ (k < n)
    BY <1>1, <1>2 DEF OpToRel
  <2>2. k \in Nat /\ n \in Nat
    BY <1>1
  <2>3. QED
    BY <2>1, <2>2
<1>4. \E x \in xs : \A y \in xs : x[2] <= y[2]
  BY <1>3 DEF N
<1>5. QED
  BY <1>4 DEF FirstOf

-----------------------------------------------------------------------------
(* The list of sessions.                                                   *)

ListFits(list) ==
    /\ list \in Seq(Sessions)
    /\ \A i, j \in DOMAIN list : list[i] = list[j] => i = j

LEMMA TailOfWalk ==
    ASSUME NEW w \in Seq(Sessions), w # <<>>
    PROVE  /\ Head(w) \in Range(w) /\ Tail(w) \in Seq(Sessions)
           /\ Range(w) = {Head(w)} \cup Range(Tail(w))
           /\ Head(w) \in Sessions
<1>1. /\ Len(w) \in Nat \ {0} /\ DOMAIN w = 1 .. Len(w) /\ Head(w) = w[1]
      /\ Tail(w) \in Seq(Sessions) /\ Len(Tail(w)) = Len(w) - 1
      /\ DOMAIN Tail(w) = 1 .. Len(w) - 1
      /\ \A i \in 1 .. Len(w) - 1 : Tail(w)[i] = w[i + 1]
  BY LenProperties, HeadTailProperties, EmptySeq
<1>2. 1 \in DOMAIN w /\ w[1] \in Sessions
  BY <1>1, LenProperties
<1>3. ASSUME NEW i \in DOMAIN w PROVE w[i] \in {Head(w)} \cup Range(Tail(w))
  <2>1. CASE i = 1
    BY <1>1, <2>1
  <2>2. CASE i # 1
    <3>1. i - 1 \in 1 .. Len(w) - 1 /\ Tail(w)[i - 1] = w[i]
      BY <1>1, <2>2
    <3>2. QED
      BY <1>1, <3>1 DEF Range
  <2>3. QED
    BY <2>1, <2>2
<1>4. ASSUME NEW i \in DOMAIN Tail(w) PROVE Tail(w)[i] \in Range(w)
  <2>1. i + 1 \in DOMAIN w /\ Tail(w)[i] = w[i + 1]
    BY <1>1
  <2>2. QED
    BY <2>1 DEF Range
<1>5. QED
  BY <1>1, <1>2, <1>3, <1>4 DEF Range

LEMMA AddedFirst ==
    ASSUME NEW list, ListFits(list), NEW s \in Sessions, s \notin Range(list)
    PROVE  /\ ListFits(<<s>> \o list)
           /\ Range(<<s>> \o list) = {s} \cup Range(list)
<1> DEFINE new == <<s>> \o list
<1>1. /\ <<s>> \in Seq(Sessions) /\ Len(<<s>>) = 1 /\ <<s>>[1] = s
      /\ list \in Seq(Sessions) /\ Len(list) \in Nat /\ DOMAIN list = 1 .. Len(list)
  BY LenProperties DEF ListFits
<1>2. /\ new \in Seq(Sessions) /\ Len(new) = Len(list) + 1 /\ DOMAIN new = 1 .. Len(list) + 1
      /\ new[1] = s
      /\ \A i \in 1 .. Len(list) + 1 : i # 1 => new[i] = list[i - 1]
  BY <1>1, ConcatProperties, LenProperties
<1> HIDE DEF new
<1>3. ASSUME NEW i \in DOMAIN new PROVE i # 1 => i - 1 \in DOMAIN list /\ new[i] = list[i - 1]
  BY <1>1, <1>2
<1>4. ASSUME NEW i \in DOMAIN list PROVE i + 1 \in DOMAIN new /\ new[i + 1] = list[i]
  BY <1>1, <1>2
<1>5. Range(new) = {s} \cup Range(list)
  <2>1. 1 \in DOMAIN new
    BY <1>1, <1>2
  <2>2. QED
    BY <1>2, <1>3, <1>4, <2>1 DEF Range
<1>6. ASSUME NEW i \in DOMAIN new, NEW j \in DOMAIN new, new[i] = new[j] PROVE i = j
  <2>1. CASE i = 1 \/ j = 1
    BY <1>2, <1>3, <1>6, <2>1 DEF Range
  <2>2. CASE i # 1 /\ j # 1
    <3>1. i - 1 = j - 1
      BY <1>3, <1>6, <2>2 DEF ListFits
    <3>2. QED
      BY <1>1, <1>2, <3>1
  <2>3. QED
    BY <2>1, <2>2
<1>7. QED
  BY <1>2, <1>5, <1>6 DEF ListFits, new

LEMMA RemovedOnce ==
    ASSUME NEW list, ListFits(list), NEW k \in DOMAIN list
    PROVE  /\ ListFits(RemoveAt(list, k))
           /\ Range(RemoveAt(list, k)) = Range(list) \ {list[k]}
<1> DEFINE front == SubSeq(list, 1, k - 1)
           back  == SubSeq(list, k + 1, Len(list))
           new   == RemoveAt(list, k)
<1>1. /\ list \in Seq(Sessions) /\ Len(list) \in Nat /\ DOMAIN list = 1 .. Len(list)
      /\ k \in 1 .. Len(list) /\ \A i \in 1 .. Len(list) : list[i] \in Sessions
  BY LenProperties DEF ListFits
<1>2. /\ front \in Seq(Sessions) /\ Len(front) = k - 1
      /\ \A i \in 1 .. k - 1 : front[i] = list[i]
  <2>1. \A i \in 1 .. k - 1 : list[i] \in Sessions
    BY <1>1
  <2>2. QED
    BY <1>1, <2>1, SubSeqProperties
<1>3. /\ back \in Seq(Sessions) /\ Len(back) = Len(list) - k
      /\ \A i \in 1 .. Len(list) - k : back[i] = list[k + i]
  <2>1. \A i \in k + 1 .. Len(list) : list[i] \in Sessions
    BY <1>1
  <2>2. QED
    BY <1>1, <2>1, SubSeqProperties
<1>4. /\ new \in Seq(Sessions) /\ Len(new) = Len(list) - 1 /\ DOMAIN new = 1 .. Len(list) - 1
      /\ \A i \in 1 .. Len(list) - 1 : new[i] = IF i < k THEN list[i] ELSE list[i + 1]
  <2> HIDE DEF front, back
  <2>1. new = front \o back
    BY DEF RemoveAt, front, back
  <2> HIDE DEF new
  <2>2. /\ new \in Seq(Sessions) /\ Len(new) = Len(front) + Len(back)
        /\ \A i \in 1 .. Len(front) + Len(back) :
              new[i] = IF i <= Len(front) THEN front[i] ELSE back[i - Len(front)]
    BY <1>2, <1>3, <2>1, ConcatProperties
  <2>3. Len(front) + Len(back) = Len(list) - 1
    BY <1>1, <1>2, <1>3
  <2>4. Len(new) = Len(list) - 1 /\ DOMAIN new = 1 .. Len(list) - 1
    BY <1>1, <2>2, <2>3, LenProperties
  <2>5. ASSUME NEW i \in 1 .. Len(list) - 1
        PROVE  new[i] = IF i < k THEN list[i] ELSE list[i + 1]
    <3>1. CASE i < k
      BY <1>1, <1>2, <2>2, <2>3, <3>1
    <3>2. CASE ~ (i < k)
      <4>0. /\ i \in 1 .. Len(front) + Len(back) /\ ~ (i <= Len(front))
            /\ i - Len(front) = i - (k - 1) /\ i - (k - 1) \in 1 .. Len(list) - k
        BY <1>1, <1>2, <2>3, <3>2
      <4>1. new[i] = back[i - (k - 1)] /\ i - (k - 1) \in 1 .. Len(list) - k
        BY <2>2, <4>0
      <4>2. back[i - (k - 1)] = list[k + (i - (k - 1))] /\ k + (i - (k - 1)) = i + 1
        BY <1>1, <1>3, <4>1
      <4>3. new[i] = list[i + 1]
        BY <4>1, <4>2
      <4>4. QED
        BY <3>2, <4>3
    <3>3. QED
      BY <3>1, <3>2
  <2>6. QED
    BY <2>2, <2>4, <2>5
<1> HIDE DEF new, front, back
<1> DEFINE from(i) == IF i < k THEN i ELSE i + 1
<1>5. \A i \in DOMAIN new : /\ from(i) \in DOMAIN list /\ from(i) # k
                            /\ new[i] = list[from(i)]
  BY <1>1, <1>4
<1>6. \A i, j \in DOMAIN new : from(i) = from(j) => i = j
  BY <1>1, <1>4
<1>7. ASSUME NEW i \in DOMAIN list, i # k PROVE \E j \in DOMAIN new : from(j) = i
  <2>1. CASE i < k
    BY <1>1, <1>4, <2>1
  <2>2. CASE ~ (i < k)
    <3>1. i - 1 \in DOMAIN new /\ from(i - 1) = i
      BY <1>1, <1>4, <1>7, <2>2
    <3>2. QED
      BY <3>1
  <2>3. QED
    BY <2>1, <2>2
<1> HIDE DEF from
<1>8. ASSUME NEW i \in DOMAIN new, NEW j \in DOMAIN new, new[i] = new[j] PROVE i = j
  BY <1>5, <1>6, <1>8 DEF ListFits
<1>9. Range(new) = Range(list) \ {list[k]}
  <2>1. \A i \in DOMAIN list : list[i] = list[k] => i = k
    BY DEF ListFits
  <2>2. \A i \in DOMAIN new : new[i] \in Range(list) \ {list[k]}
    BY <1>5, <2>1 DEF Range
  <2>3. \A i \in DOMAIN list : list[i] # list[k] => list[i] \in Range(new)
    BY <1>5, <1>7 DEF Range
  <2>4. QED
    BY <2>2, <2>3 DEF Range
<1>10. QED
  BY <1>4, <1>8, <1>9 DEF ListFits, new

-----------------------------------------------------------------------------
(* What an action does to the record of its thread.                        *)

Moves(t, pc, s, x, y, why, walk) ==
    /\ th' \in [Threads -> Records]
    /\ \A o \in Threads \ {t} : th'[o] = th[o]
    /\ th'[t].pc = pc /\ th'[t].s = s /\ th'[t].x = x
    /\ th'[t].y = y /\ th'[t].why = why /\ th'[t].walk = walk

Arrives(t, pc) == Moves(t, pc, th[t].s, th[t].x, th[t].y, th[t].why, th[t].walk)

Ends(t) ==
    /\ Moves(t, "idle", NONE, NONE, NONE, NONE, <<>>)
    /\ th'[t] = Idle

LEMMA IdleFields ==
    /\ Idle \in Records
    /\ Idle.pc = "idle" /\ Idle.s = NONE /\ Idle.x = NONE /\ Idle.y = NONE
    /\ Idle.why = NONE /\ Idle.walk = <<>>
<1>1. <<>> \in Seq(Sessions) /\ "idle" \in Places
  BY EmptySeq DEF Places
<1>2. QED
  BY <1>1 DEF Idle, Records

LEMMA GotoArrives ==
    ASSUME ThreadsFit, th \in [Threads -> Records], NEW t \in Threads, NEW pc \in Places, Goto(t, pc)
    PROVE  Arrives(t, pc)
<1>1. [th[t] EXCEPT !.pc = pc] \in Records
  BY DEF Records
<1>2. th' = [th EXCEPT ![t] = [th[t] EXCEPT !.pc = pc]]
  BY DEF Goto
<1>3. th' \in [Threads -> Records]
  BY <1>1, <1>2
<1>4. QED
  BY <1>2, <1>3 DEF Arrives, Moves, Records

LEMMA DoneEnds ==
    ASSUME th \in [Threads -> Records], NEW t \in Threads, Done(t)
    PROVE  Ends(t)
  BY IdleFields DEF Done, Ends, Moves

LEMMA IdleAtStart ==
    ASSUME ThreadsFit, NEW t \in Threads, At(t, {"idle"})
    PROVE  /\ th[t] = Idle /\ th[t].s = NONE /\ th[t].x = NONE /\ th[t].y = NONE
           /\ th[t].why = NONE /\ th[t].walk = <<>>
  BY IdleFields DEF ThreadsFit, StartFits, At

LEMMA UserMoves ==
    ASSUME ThreadsFit, TypeOK, NEW u \in Users
    PROVE  /\ \A s \in Sessions :
                 /\ SessionInit(u, s) => Moves(u, "list_add", s, NONE, NONE, NONE, <<>>)
                 /\ StreamAttach(u, s) => Moves(u, "attach", s, NONE, NONE, NONE, <<>>)
                 /\ SessionDown(u, s) => Moves(u, "down", s, NONE, NONE, NONE, <<>>)
           /\ ListAdd(u) \/ AttachInit(u) \/ DownFree(u) => Ends(u)
           /\ AttachFind(u) =>
                 Ends(u) \/ \E x \in Streams \ attached :
                     /\ x[1] = th[u].s
                     /\ Moves(u, "attach_init", th[u].s, x, th[u].y, th[u].why, th[u].walk)
           /\ DownLock(u) \/ StopWipe(u) => Arrives(u, "down_stop")
           /\ DownStop(u) =>
                 \/ /\ {x \in attached : x[1] = th[u].s} = {}
                    /\ Unlock({StreamsProtector(th[u].s)})
                    /\ Arrives(u, "down_free_secrets")
                 \/ /\ UNCHANGED owner
                    /\ \E x \in attached :
                          /\ x[1] = th[u].s
                          /\ Moves(u, "stop_lock", th[u].s, x, th[u].y, th[u].why, th[u].walk)
           /\ StopLock(u) => Arrives(u, "stop_wait")
           /\ DownFreeSecrets(u) => Arrives(u, "down_unlink")
           /\ DownUnlink(u) => Arrives(u, "down_free")
           /\ UserVerifies(u) => Moves(u, "verify", NONE, NONE, NONE, NONE, <<>>)
<1>0. /\ u \in Threads /\ th \in [Threads -> Records] /\ attached \subseteq Streams
      /\ Places = Places \cup UserPlaces /\ <<>> \in Seq(Sessions)
  BY ThreadKinds, EmptySeq DEF TypeOK, Places, UserPlaces, DownPlaces, Records
<1>1. ASSUME NEW s \in Sessions
      PROVE  /\ SessionInit(u, s) => Moves(u, "list_add", s, NONE, NONE, NONE, <<>>)
             /\ StreamAttach(u, s) => Moves(u, "attach", s, NONE, NONE, NONE, <<>>)
             /\ SessionDown(u, s) => Moves(u, "down", s, NONE, NONE, NONE, <<>>)
  <2>1. ASSUME At(u, {"idle"}), NEW pc \in UserPlaces, th' = [th EXCEPT ![u].pc = pc, ![u].s = s]
        PROVE  Moves(u, pc, s, NONE, NONE, NONE, <<>>)
    <3>1. pc \in Places
      BY <1>0
    <3>2. Moves(u, pc, s, th[u].x, th[u].y, th[u].why, th[u].walk)
      BY <1>0, <2>1, <3>1 DEF Moves, Records
    <3>3. QED
      BY <1>0, <2>1, <3>2, IdleAtStart
  <2>2. "list_add" \in UserPlaces /\ "attach" \in UserPlaces /\ "down" \in UserPlaces
    BY DEF UserPlaces, DownPlaces
  <2>3. QED
    BY <2>1, <2>2 DEF SessionInit, StreamAttach, SessionDown
<1>2. ListAdd(u) \/ AttachInit(u) \/ DownFree(u) => Ends(u)
  BY <1>0, DoneEnds DEF ListAdd, AttachInit, DownFree
<1>3. ASSUME AttachFind(u)
      PROVE  Ends(u) \/ \E x \in Streams \ attached :
                 /\ x[1] = th[u].s
                 /\ Moves(u, "attach_init", th[u].s, x, th[u].y, th[u].why, th[u].walk)
  <2> DEFINE unused == {x \in Streams \ attached : x[1] = th[u].s}
  <2>1. CASE unused = {}
    BY <1>0, <1>3, <2>1, DoneEnds DEF AttachFind
  <2>2. CASE unused # {}
    <3>1. FirstOf(unused) \in unused
      BY <2>2, FirstOfIsOne
    <3>2. th' = [th EXCEPT ![u].pc = "attach_init", ![u].x = FirstOf(unused)]
      BY <1>3, <2>2 DEF AttachFind
    <3> HIDE DEF unused
    <3>3. FirstOf(unused) \in Streams
      BY <3>1 DEF unused
    <3>4. Moves(u, "attach_init", th[u].s, FirstOf(unused), th[u].y, th[u].why, th[u].walk)
      BY <1>0, <3>2, <3>3 DEF Moves, Records, UserPlaces
    <3>5. QED
      BY <3>1, <3>4 DEF unused
  <2>3. QED
    BY <2>1, <2>2
<1>4. ASSUME DownStop(u)
      PROVE  \/ /\ {x \in attached : x[1] = th[u].s} = {}
                /\ Unlock({StreamsProtector(th[u].s)})
                /\ Arrives(u, "down_free_secrets")
             \/ /\ UNCHANGED owner
                /\ \E x \in attached :
                      /\ x[1] = th[u].s
                      /\ Moves(u, "stop_lock", th[u].s, x, th[u].y, th[u].why, th[u].walk)
  <2> DEFINE busyStreams == {x \in attached : x[1] = th[u].s}
  <2>1. CASE busyStreams = {}
    <3>1. Unlock({StreamsProtector(th[u].s)}) /\ Goto(u, "down_free_secrets")
      BY <1>4, <2>1 DEF DownStop
    <3>2. QED
      BY <1>0, <2>1, <3>1, GotoArrives DEF UserPlaces, DownPlaces
  <2>2. CASE busyStreams # {}
    <3>1. FirstOf(busyStreams) \in busyStreams
      BY <1>0, <2>2, FirstOfIsOne
    <3>2. th' = [th EXCEPT ![u].pc = "stop_lock", ![u].x = FirstOf(busyStreams)] /\ UNCHANGED owner
      BY <1>4, <2>2 DEF DownStop
    <3> HIDE DEF busyStreams
    <3>3. FirstOf(busyStreams) \in Streams
      BY <1>0, <3>1 DEF busyStreams
    <3>4. Moves(u, "stop_lock", th[u].s, FirstOf(busyStreams), th[u].y, th[u].why, th[u].walk)
      BY <1>0, <3>2, <3>3 DEF Moves, Records, UserPlaces, DownPlaces
    <3>5. QED
      BY <3>1, <3>2, <3>4 DEF busyStreams
  <2>3. QED
    BY <2>1, <2>2
<1>5. /\ DownLock(u) \/ StopWipe(u) => Arrives(u, "down_stop")
      /\ StopLock(u) => Arrives(u, "stop_wait")
      /\ DownFreeSecrets(u) => Arrives(u, "down_unlink")
      /\ DownUnlink(u) => Arrives(u, "down_free")
  <2>1. \A pc \in UserPlaces : Goto(u, pc) => Arrives(u, pc)
    BY <1>0, GotoArrives
  <2>2. QED
    BY <2>1 DEF DownLock, StopWipe, StopLock, DownFreeSecrets, DownUnlink, UserPlaces, DownPlaces
<1>6. ASSUME UserVerifies(u) PROVE Moves(u, "verify", NONE, NONE, NONE, NONE, <<>>)
  <2>1. Goto(u, "verify") /\ At(u, {"idle"})
    BY <1>6 DEF UserVerifies
  <2>2. Arrives(u, "verify")
    BY <1>0, <2>1, GotoArrives DEF UserPlaces
  <2>3. QED
    BY <1>0, <2>1, <2>2, IdleAtStart DEF Arrives
<1>7. QED
  BY <1>1, <1>2, <1>3, <1>4, <1>5, <1>6

\* A handler returns and gives back all, the dh task goes to its end first.
Returns(t) ==
    \/ t = SCHED /\ UNCHANGED owner /\ Arrives(t, "dh_end")
    \/ t # SCHED /\ Unlock({m \in Mutexes : owner[m] = t}) /\ Ends(t)

LEMMA MediaMoves ==
    ASSUME ThreadsFit, TypeOK, NEW m \in Media
    PROVE  /\ \A x \in Streams :
                 Message(m, x) => Moves(m, "message", x[1], x, NONE, NONE, <<>>)
           /\ MessageLock(m) =>
                 \/ \E pc \in {"prepare", "verify"} : Moves(m, pc, th[m].s, th[m].x, NONE, NONE, th[m].walk)
                 \/ Moves(m, "start", th[m].s, th[m].x, th[m].x, "start", th[m].walk)
                 \/ Moves(m, "walk_lock", th[m].s, th[m].x, th[m].x, "commit", th[m].walk)
           /\ Prepare(m) => Ends(m)
<1>0. /\ m \in Threads /\ th \in [Threads -> Records]
      /\ {"message", "prepare", "verify", "start", "walk_lock"} \subseteq Places
  BY ThreadKinds DEF TypeOK, Places, Records
<1>1. ASSUME NEW x \in Streams, Message(m, x)
      PROVE  Moves(m, "message", x[1], x, NONE, NONE, <<>>)
  <2>1. x[1] \in Sessions
    BY ThreadKinds
  <2>2. th' = [th EXCEPT ![m].pc = "message", ![m].s = x[1], ![m].x = x] /\ At(m, {"idle"})
    BY <1>1 DEF Message
  <2>3. PICK r : r = [th[m] EXCEPT !.pc = "message", !.s = x[1], !.x = x]
    OBVIOUS
  <2>4. r \in Records
    BY <1>0, <2>1, <2>3 DEF Records
  <2>5. /\ r.pc = "message" /\ r.s = x[1] /\ r.x = x
        /\ r.y = th[m].y /\ r.why = th[m].why /\ r.walk = th[m].walk
    BY <1>0, <2>3 DEF Records
  <2>6. th' = [th EXCEPT ![m] = r]
    BY <2>2, <2>3
  <2>7. Moves(m, "message", x[1], x, th[m].y, th[m].why, th[m].walk)
    BY <1>0, <2>4, <2>5, <2>6 DEF Moves
  <2>8. QED
    BY <1>0, <2>2, <2>7, IdleAtStart
<1>2. ASSUME MessageLock(m)
      PROVE  \/ \E pc \in {"prepare", "verify"} : Moves(m, pc, th[m].s, th[m].x, NONE, NONE, th[m].walk)
             \/ Moves(m, "start", th[m].s, th[m].x, th[m].x, "start", th[m].walk)
             \/ Moves(m, "walk_lock", th[m].s, th[m].x, th[m].x, "commit", th[m].walk)
  <2> DEFINE aim(place) == IF place \in {"start", "walk_lock"} THEN th[m].x ELSE NONE
             why(place) == CASE place = "start" -> "start"
                             [] place = "walk_lock" -> "commit"
                             [] OTHER -> NONE
  <2>1. PICK place \in {"prepare", "start", "walk_lock", "verify"} :
            th' = [th EXCEPT ![m].pc = place, ![m].y = aim(place), ![m].why = why(place)]
    BY <1>2 DEF MessageLock
  <2>2. /\ aim(place) \in Streams \cup {NONE} /\ place \in Places
        /\ why(place) \in {NONE, "start", "retry", "commit"}
    BY <1>0 DEF Records
  <2>3. /\ aim("start") = th[m].x /\ why("start") = "start"
        /\ aim("walk_lock") = th[m].x /\ why("walk_lock") = "commit"
        /\ \A p \in {"prepare", "verify"} : aim(p) = NONE /\ why(p) = NONE
    OBVIOUS
  <2> HIDE DEF aim, why
  <2>4. PICK r : r = [th[m] EXCEPT !.pc = place, !.y = aim(place), !.why = why(place)]
    OBVIOUS
  <2>5. r \in Records
    BY <1>0, <2>2, <2>4 DEF Records
  <2>6. /\ r.pc = place /\ r.s = th[m].s /\ r.x = th[m].x
        /\ r.y = aim(place) /\ r.why = why(place) /\ r.walk = th[m].walk
    BY <1>0, <2>4 DEF Records
  <2>7. th' = [th EXCEPT ![m] = r]
    BY <2>1, <2>4
  <2>8. Moves(m, place, th[m].s, th[m].x, aim(place), why(place), th[m].walk)
    BY <1>0, <2>5, <2>6, <2>7 DEF Moves
  <2>9. QED
    BY <2>3, <2>8
<1>3. Prepare(m) => Ends(m)
  BY <1>0, DoneEnds DEF Prepare, Leave
<1>4. QED
  BY <1>1, <1>2, <1>3

LEMMA ReturnReturns ==
    ASSUME ThreadsFit, TypeOK, NEW t \in Threads, Return(t)
    PROVE  Returns(t)
<1>1. th \in [Threads -> Records] /\ "dh_end" \in Places
  BY DEF TypeOK, Places, Records
<1>2. QED
  BY <1>1, GotoArrives, DoneEnds DEF Return, Returns, Leave

LEMMA WalkMoves ==
    ASSUME ThreadsFit, TypeOK, NEW t \in Threads
    PROVE  LET r == th[t]
               Restarts == /\ concurrent[r.y] # NONE
                           /\ Moves(t, "start", r.s, r.x, concurrent[r.y], "start", r.walk)
           IN  /\ VerifyLock(t) => Moves(t, "verify_walk", r.s, r.x, r.y, r.why, sessions_head)
               /\ VerifySession(t) => Moves(t, "verify_walk", r.s, r.x, r.y, r.why, Tail(r.walk))
               /\ VerifyEnd(t) => Ends(t)
               /\ StartLock(t) => Arrives(t, "walk_lock")
               /\ WalkLock(t) => Moves(t, "walk", r.s, r.x, r.y, r.why, sessions_head)
               /\ WalkSession(t) => \/ Moves(t, "denied", r.s, r.x, r.y, r.why, <<>>)
                                    \/ Moves(t, "walk", r.s, r.x, r.y, r.why, Tail(r.walk))
               /\ WalkEnd(t) => Arrives(t, "accepted")
               /\ StartDenied(t) => Returns(t)
               /\ StartAccepted(t) => Returns(t) \/ Restarts
               /\ CommitDenied(t) => Returns(t) \/ Arrives(t, "respond")
               /\ CommitAccepted(t) => Arrives(t, "respond")
               /\ Respond(t) => Returns(t) \/ Restarts
<1> DEFINE r == th[t]
           Restarts == /\ concurrent[r.y] # NONE
                       /\ Moves(t, "start", r.s, r.x, concurrent[r.y], "start", r.walk)
<1>0. /\ th \in [Threads -> Records] /\ sessions_head \in Seq(Sessions) /\ r \in Records
      /\ {"start", "verify_walk", "walk_lock", "walk", "denied", "accepted", "respond"} \subseteq Places
      /\ concurrent \in [Streams -> Streams \cup {NONE}] /\ <<>> \in Seq(Sessions)
      /\ r.pc \in StartPlaces => r.y \in Streams
  BY EmptySeq DEF TypeOK, Places, Records, ThreadsFit, StartFits
<1>1. \A pc \in {"walk_lock", "accepted", "respond"} : Goto(t, pc) => Arrives(t, pc)
  BY <1>0, GotoArrives
<1>2. ASSUME NEW w \in Seq(Sessions), th' = [th EXCEPT ![t].walk = w]
      PROVE  Moves(t, r.pc, r.s, r.x, r.y, r.why, w)
  BY <1>0, <1>2 DEF Moves, Records
<1>3. ASSUME NEW w \in Seq(Sessions), NEW pc \in Places,
             th' = [th EXCEPT ![t].pc = pc, ![t].walk = w]
      PROVE  Moves(t, pc, r.s, r.x, r.y, r.why, w)
  BY <1>0, <1>3 DEF Moves, Records
<1>4. /\ VerifyLock(t) => Moves(t, "verify_walk", r.s, r.x, r.y, r.why, sessions_head)
      /\ WalkLock(t) => Moves(t, "walk", r.s, r.x, r.y, r.why, sessions_head)
  BY <1>0, <1>3 DEF VerifyLock, WalkLock
<1>5. VerifySession(t) => Moves(t, "verify_walk", r.s, r.x, r.y, r.why, Tail(r.walk))
  <2>1. VerifySession(t) => r.pc = "verify_walk" /\ r.walk # <<>> /\ r.walk \in Seq(Sessions)
    BY <1>0 DEF VerifySession, At, Records
  <2>2. QED
    BY <1>2, <2>1, TailOfWalk DEF VerifySession
<1>6. WalkSession(t) => \/ Moves(t, "denied", r.s, r.x, r.y, r.why, <<>>)
                        \/ Moves(t, "walk", r.s, r.x, r.y, r.why, Tail(r.walk))
  <2>1. WalkSession(t) => r.pc = "walk" /\ r.walk # <<>> /\ r.walk \in Seq(Sessions)
    BY <1>0 DEF WalkSession, At, Records
  <2>2. WalkSession(t) => \/ th' = [th EXCEPT ![t].pc = "denied", ![t].walk = <<>>]
                          \/ th' = [th EXCEPT ![t].walk = Tail(th[t].walk)]
    BY DEF WalkSession
  <2>3. QED
    BY <1>0, <1>2, <1>3, <2>1, <2>2, TailOfWalk
<1>7. VerifyEnd(t) => Ends(t)
  BY <1>0, DoneEnds DEF VerifyEnd, Leave
<1>8. ASSUME StartAccepted(t) \/ Respond(t), ~Returns(t)
      PROVE  Restarts
  <2>1. /\ th' = [th EXCEPT ![t].pc = "start", ![t].y = concurrent[r.y], ![t].why = "start"]
        /\ r.pc \in StartPlaces /\ concurrent[r.y] # NONE
    BY <1>8, ReturnReturns DEF StartAccepted, Respond, At, StartPlaces
  <2>2. PICK z \in Streams \cup {NONE} : z = concurrent[r.y]
    BY <1>0, <2>1
  <2>3. th' = [th EXCEPT ![t].pc = "start", ![t].y = z, ![t].why = "start"]
    BY <2>1, <2>2
  <2>4. Moves(t, "start", r.s, r.x, z, "start", r.walk)
    BY <1>0, <2>3 DEF Moves, Records
  <2>5. QED
    BY <2>1, <2>2, <2>4
<1>9. /\ StartLock(t) => Arrives(t, "walk_lock")
      /\ WalkEnd(t) => Arrives(t, "accepted")
      /\ StartDenied(t) => Returns(t)
      /\ CommitDenied(t) => Returns(t) \/ Arrives(t, "respond")
      /\ CommitAccepted(t) => Arrives(t, "respond")
  BY <1>1, ReturnReturns DEF StartLock, WalkEnd, StartDenied, CommitDenied, CommitAccepted
<1>10. QED
  BY <1>4, <1>5, <1>6, <1>7, <1>8, <1>9

LEMMA SchedMoves ==
    ASSUME ThreadsFit, TypeOK
    PROVE  /\ \A y \in Streams :
                 SchedPop(y) => \/ UNCHANGED <<busy, th>>
                                \/ /\ busy' = y
                                   /\ Moves(SCHED, "dh_lock", NONE, y, y, "retry", <<>>)
           /\ DhLock => Arrives(SCHED, "walk_lock") \/ Arrives(SCHED, "dh_end")
           /\ DhEnd => Ends(SCHED)
<1>0. /\ SCHED \in Threads /\ th \in [Threads -> Records]
      /\ {"dh_lock", "dh_end", "walk_lock"} \subseteq Places
  BY ThreadKinds DEF TypeOK, Places, Records
<1>1. ASSUME NEW y \in Streams, SchedPop(y), ~UNCHANGED <<busy, th>>
      PROVE  busy' = y /\ Moves(SCHED, "dh_lock", NONE, y, y, "retry", <<>>)
  <2>1. /\ th' = [th EXCEPT ![SCHED].pc = "dh_lock", ![SCHED].x = y, ![SCHED].y = y,
                            ![SCHED].why = "retry"]
        /\ busy' = y /\ At(SCHED, {"idle"})
    BY <1>1 DEF SchedPop
  <2>2. PICK r : r = [th[SCHED] EXCEPT !.pc = "dh_lock", !.x = y, !.y = y, !.why = "retry"]
    OBVIOUS
  <2>3. r \in Records
    BY <1>0, <2>2 DEF Records
  <2>4. /\ r.pc = "dh_lock" /\ r.s = th[SCHED].s /\ r.x = y /\ r.y = y
        /\ r.why = "retry" /\ r.walk = th[SCHED].walk
    BY <1>0, <2>2 DEF Records
  <2>5. th' = [th EXCEPT ![SCHED] = r]
    BY <2>1, <2>2
  <2>6. Moves(SCHED, "dh_lock", th[SCHED].s, y, y, "retry", th[SCHED].walk)
    BY <1>0, <2>3, <2>4, <2>5 DEF Moves
  <2>7. QED
    BY <1>0, <2>1, <2>6, IdleAtStart
<1>2. DhLock => Arrives(SCHED, "walk_lock") \/ Arrives(SCHED, "dh_end")
  BY <1>0, GotoArrives DEF DhLock
<1>3. DhEnd => Ends(SCHED)
  BY <1>0, DoneEnds DEF DhEnd, Leave
<1>4. QED
  BY <1>1, <1>2, <1>3

-----------------------------------------------------------------------------
(* Types.                                                                  *)

LEMMA UserTypes ==
    ASSUME SessionsInv, NEW u \in Users, UserStep(u)
    PROVE  TypeOK'
<1>0. /\ TypeOK /\ ThreadsFit /\ u \in Threads /\ th[u] \in Records
      /\ owner \in [Mutexes -> Threads \cup {NONE}]
  BY ThreadKinds DEF SessionsInv, TypeOK, Records
<1>1. th' \in [Threads -> Records]
  BY <1>0, UserMoves DEF UserStep, Moves, Arrives, Ends
<1>2. /\ \A m : Unlock(m) => owner' \in [Mutexes -> Threads \cup {NONE}]
      /\ Lock(u) => owner' \in [Mutexes -> Threads \cup {NONE}]
      /\ UNCHANGED owner => owner' \in [Mutexes -> Threads \cup {NONE}]
  BY <1>0 DEF Unlock, Lock
<1>3. ASSUME NEW s \in Sessions, SessionInit(u, s) \/ StreamAttach(u, s) \/ SessionDown(u, s)
      PROVE  TypeOK'
  BY <1>0, <1>1, <1>2, <1>3
     DEF SessionInit, StreamAttach, SessionDown, TypeOK, Records, contexts, tasks
<1>4. CASE ListAdd(u)
  <2>1. th[u].s \in Sessions /\ th[u].s \notin Range(sessions_head)
    BY <1>0, <1>4 DEF ThreadsFit, UserFits, ListAdd, At, SessionsInv, Listed, UserListed
  <2>2. ListFits(sessions_head')
    BY <1>0, <1>4, <2>1, AddedFirst DEF ListAdd, TypeOK, ListFits
  <2>3. QED
    BY <1>0, <1>1, <1>2, <1>4, <2>2 DEF ListAdd, TypeOK, ListFits, Records, tasks
<1>5. CASE AttachFind(u) \/ DownLock(u) \/ DownStop(u)
  BY <1>0, <1>1, <1>2, <1>5 DEF AttachFind, DownLock, DownStop, TypeOK, Records, contexts, tasks
<1>6. CASE AttachInit(u) \/ StopLock(u) \/ StopWipe(u)
  <2>1. At(u, {"attach_init", "stop_lock", "stop_wait"})
    BY <1>6 DEF AttachInit, StopLock, StopWipe, At
  <2>2. th[u].x \in Streams
    BY <2>1, <1>0 DEF ThreadsFit, UserFits, At
  <2>3. QED
    BY <1>0, <1>1, <1>2, <1>6, <2>2
       DEF AttachInit, StopLock, StopWipe, TypeOK, Records, contexts, tasks
<1>7. CASE DownUnlink(u)
  <2>1. th[u].s \in Range(sessions_head)
    BY <1>0, <1>7 DEF DownUnlink, At, SessionsInv, Listed, UserListed, DownPlaces
  <2>2. /\ PlaceOf(th[u].s) \in DOMAIN sessions_head
        /\ sessions_head[PlaceOf(th[u].s)] = th[u].s
    BY <2>1 DEF Range, PlaceOf
  <2>3. ListFits(sessions_head')
    BY <1>0, <1>7, <2>2, RemovedOnce DEF DownUnlink, TypeOK, ListFits
  <2>4. QED
    BY <1>0, <1>1, <1>2, <1>7, <2>3 DEF DownUnlink, TypeOK, ListFits, Records, tasks
<1>8. CASE DownFreeSecrets(u) \/ DownFree(u) \/ UserVerifies(u)
  BY <1>0, <1>1, <1>2, <1>8
     DEF DownFreeSecrets, DownFree, UserVerifies, TypeOK, Records, contexts, tasks
<1>9. QED
  BY <1>3, <1>4, <1>5, <1>6, <1>7, <1>8 DEF UserStep

LEMMA OtherTypes ==
    ASSUME SessionsInv,
           \/ \E m \in Media : MediaStep(m)
           \/ \E y \in Streams : SchedPop(y)
           \/ DhLock \/ DhEnd
    PROVE  TypeOK'
<1>0. /\ TypeOK /\ ThreadsFit /\ SCHED \in Threads /\ Media \subseteq Threads
      /\ owner \in [Mutexes -> Threads \cup {NONE}]
  BY ThreadKinds DEF SessionsInv, TypeOK
<1>1. th' \in [Threads -> Records]
  <2>1. ASSUME NEW m \in Media, MediaStep(m) PROVE th' \in [Threads -> Records]
    BY <1>0, <2>1, MediaMoves DEF MediaStep, Moves, Ends
  <2>2. ASSUME \/ \E y \in Streams : SchedPop(y)
               \/ DhLock \/ DhEnd
        PROVE  th' \in [Threads -> Records]
    BY <1>0, <2>2, SchedMoves DEF Moves, Arrives, Ends, TypeOK, Records
  <2>3. QED
    BY <2>1, <2>2
<1>2. /\ \A m : Unlock(m) => owner' \in [Mutexes -> Threads \cup {NONE}]
      /\ \A t \in Threads : Lock(t) => owner' \in [Mutexes -> Threads \cup {NONE}]
      /\ UNCHANGED owner => owner' \in [Mutexes -> Threads \cup {NONE}]
  BY <1>0 DEF Unlock, Lock
<1>3. ASSUME NEW m \in Media, MediaStep(m) PROVE TypeOK'
  BY <1>0, <1>1, <1>2, <1>3
     DEF MediaStep, Message, MessageLock, Prepare, Leave, TypeOK, Records, contexts, tasks
<1>4. ASSUME \/ \E y \in Streams : SchedPop(y)
             \/ DhLock \/ DhEnd
      PROVE  TypeOK'
  <2>1. busy' \in Streams \cup {NONE} /\ queue' \subseteq Streams
    BY <1>0, <1>4 DEF SchedPop, DhLock, DhEnd, TypeOK, tasks
  <2>2. owner' \in [Mutexes -> Threads \cup {NONE}]
    BY <1>0, <1>2, <1>4 DEF SchedPop, DhLock, DhEnd, Leave
  <2>3. UNCHANGED <<contexts, concurrent, enabled>>
    BY <1>4 DEF SchedPop, DhLock, DhEnd, tasks
  <2>4. QED
    BY <1>0, <1>1, <2>1, <2>2, <2>3 DEF TypeOK, Records, contexts
<1>5. QED
  BY <1>3, <1>4

LEMMA WalkTypes ==
    ASSUME SessionsInv, NEW t \in Threads, Walk(t)
    PROVE  TypeOK'
<1>0. /\ TypeOK /\ ThreadsFit /\ th[t] \in Records
      /\ owner \in [Mutexes -> Threads \cup {NONE}]
      /\ concurrent \in [Streams -> Streams \cup {NONE}]
      /\ attached \subseteq Streams /\ enabled \subseteq Streams /\ queue \subseteq Streams
  BY DEF SessionsInv, TypeOK, Records
<1>1. th' \in [Threads -> Records]
  BY <1>0, WalkMoves DEF Walk, Moves, Arrives, Ends, Returns
<1>2. owner' \in [Mutexes -> Threads \cup {NONE}]
  <2>1. /\ \A m : Unlock(m) => owner' \in [Mutexes -> Threads \cup {NONE}]
        /\ Lock(t) => owner' \in [Mutexes -> Threads \cup {NONE}]
        /\ UNCHANGED owner => owner' \in [Mutexes -> Threads \cup {NONE}]
    BY <1>0 DEF Unlock, Lock
  <2>2. \/ UNCHANGED owner \/ Lock(t)
        \/ \E m : Unlock(m)
    BY DEF Walk, VerifyLock, VerifySession, VerifyEnd, StartLock, WalkLock, WalkSession, WalkEnd,
           StartDenied, StartAccepted, CommitDenied, CommitAccepted, Respond, Return, Leave
  <2>3. QED
    BY <2>1, <2>2
<1>3. UNCHANGED <<contexts, busy>>
  BY DEF Walk, VerifyLock, VerifySession, VerifyEnd, StartLock, WalkLock, WalkSession, WalkEnd,
         StartDenied, StartAccepted, CommitDenied, CommitAccepted, Respond, tasks
<1>4. concurrent' \in [Streams -> Streams \cup {NONE}]
  BY <1>0
     DEF Walk, VerifyLock, VerifySession, VerifyEnd, StartLock, WalkLock, WalkSession, WalkEnd,
         StartDenied, StartAccepted, CommitDenied, CommitAccepted, Respond, NoConcurrent, Others
<1>5. enabled' \subseteq Streams /\ queue' \subseteq Streams
  BY <1>0
     DEF Walk, VerifyLock, VerifySession, VerifyEnd, StartLock, WalkLock, WalkSession, WalkEnd,
         StartDenied, StartAccepted, CommitDenied, CommitAccepted, Respond, tasks
<1>6. QED
  BY <1>0, <1>1, <1>2, <1>3, <1>4, <1>5 DEF TypeOK, Records, contexts

-----------------------------------------------------------------------------
(* The records of the threads.                                             *)

LEMMA OneThreadFits ==
    ASSUME ThreadsFit, NEW t \in Threads, th' \in [Threads -> Records],
           \A o \in Threads \ {t} : th'[o] = th[o],
           t \in Users => UserFits(th'[t]),
           t \in Media => MediaFits(th'[t]),
           t = SCHED => SchedFits(th'[t]),
           StartFits(th'[t])
    PROVE  ThreadsFit'
  BY ThreadKinds DEF ThreadsFit

LEMMA EndFits ==
    ASSUME ThreadsFit, NEW t \in Threads, Ends(t)
    PROVE  ThreadsFit'
<1>1. "idle" \in UserPlaces /\ "idle" \in MediaPlaces /\ "idle" \in SchedPlaces
  BY DEF UserPlaces, MediaPlaces, SchedPlaces
<1>2. UserFits(Idle) /\ MediaFits(Idle) /\ SchedFits(Idle) /\ StartFits(Idle)
  BY <1>1, IdleFields, ThreadKinds
     DEF UserFits, MediaFits, SchedFits, StartFits, DownPlaces, StartPlaces
<1>3. QED
  BY <1>2, OneThreadFits DEF Ends, Moves

LEMMA UserThreads ==
    ASSUME SessionsInv, NEW u \in Users, UserStep(u)
    PROVE  ThreadsFit'
<1>0. /\ ThreadsFit /\ TypeOK /\ u \in Threads /\ UserFits(th[u]) /\ th[u] \in Records
      /\ u \notin Media /\ u # SCHED
  BY ThreadKinds DEF SessionsInv, ThreadsFit
<1>1. CASE Ends(u)
  BY <1>0, <1>1, EndFits
<1>2. ASSUME NEW pc \in UserPlaces \ {"idle"}, NEW s, NEW x, NEW y, NEW why, NEW walk,
             Moves(u, pc, s, x, y, why, walk),
             pc \in DownPlaces \cup {"list_add", "attach", "attach_init"} => s \in Sessions,
             pc \in {"attach_init", "stop_lock", "stop_wait"} => x \in Streams /\ x[1] = s
      PROVE  ThreadsFit'
  <2>1. UserFits(th'[u])
    BY <1>2 DEF Moves, UserFits
  <2>2. StartFits(th'[u])
    BY <1>2 DEF Moves, StartFits, StartPlaces, UserPlaces, DownPlaces
  <2>3. QED
    BY <1>0, <1>2, <2>1, <2>2, OneThreadFits DEF Moves
<1>3. ASSUME NEW s \in Sessions, SessionInit(u, s) \/ StreamAttach(u, s) \/ SessionDown(u, s)
      PROVE  ThreadsFit'
  <2>1. {"list_add", "attach", "down"} \subseteq UserPlaces \ {"idle"}
    BY DEF UserPlaces, DownPlaces
  <2>2. \E pc \in {"list_add", "attach", "down"} : Moves(u, pc, s, NONE, NONE, NONE, <<>>)
    BY <1>0, <1>3, UserMoves
  <2>3. QED
    BY <1>2, <2>1, <2>2
<1>4. CASE AttachFind(u) \/ DownStop(u)
  <2>1. th[u].s \in Sessions /\ "attach_init" \in UserPlaces /\ "stop_lock" \in UserPlaces
        /\ "down_free_secrets" \in UserPlaces
    BY <1>0, <1>4 DEF AttachFind, DownStop, At, UserFits, DownPlaces, UserPlaces
  <2>2. \/ Ends(u) \/ Arrives(u, "down_free_secrets")
        \/ \E x \in Streams, pc \in {"attach_init", "stop_lock"} :
              x[1] = th[u].s /\ Moves(u, pc, th[u].s, x, th[u].y, th[u].why, th[u].walk)
    BY <1>0, <1>4, UserMoves DEF TypeOK
  <2>3. QED
    BY <1>1, <1>2, <2>1, <2>2 DEF Arrives
<1>5. CASE DownLock(u) \/ StopWipe(u) \/ StopLock(u) \/ DownFreeSecrets(u) \/ DownUnlink(u)
  <2>1. At(u, {"down", "stop_wait", "stop_lock", "down_free_secrets", "down_unlink"})
    BY <1>5 DEF At, DownLock, StopWipe, StopLock, DownFreeSecrets, DownUnlink
  <2>2. th[u].s \in Sessions
    BY <1>0, <2>1 DEF UserFits, At, DownPlaces
  <2>3. \/ Arrives(u, "stop_wait") /\ th[u].x \in Streams /\ th[u].x[1] = th[u].s
        \/ \E pc \in {"down_stop", "down_unlink", "down_free"} : Arrives(u, pc)
    BY <1>0, <1>5, UserMoves DEF StopLock, UserFits, At
  <2>4. {"stop_wait", "down_stop", "down_unlink", "down_free"} \subseteq UserPlaces \ {"idle"}
    BY DEF UserPlaces, DownPlaces
  <2>5. QED
    BY <1>2, <2>2, <2>3, <2>4 DEF Arrives
<1>6. CASE UserVerifies(u)
  <2>1. "verify" \in UserPlaces /\ "verify" \notin DownPlaces
    BY DEF UserPlaces, DownPlaces
  <2>2. QED
    BY <1>0, <1>2, <1>6, <2>1, UserMoves
<1>7. QED
  BY <1>0, <1>1, <1>3, <1>4, <1>5, <1>6, UserMoves DEF UserStep

LEMMA MediaThreads ==
    ASSUME SessionsInv, NEW m \in Media, MediaStep(m)
    PROVE  ThreadsFit'
<1>0. /\ ThreadsFit /\ TypeOK /\ m \in Threads /\ MediaFits(th[m]) /\ th[m] \in Records
      /\ m \notin Users /\ m # SCHED
  BY ThreadKinds DEF SessionsInv, ThreadsFit
<1>1. CASE Prepare(m)
  BY <1>0, <1>1, EndFits, MediaMoves
<1>2. ASSUME NEW x \in Streams, Message(m, x) PROVE ThreadsFit'
  <2>1. Moves(m, "message", x[1], x, NONE, NONE, <<>>)
    BY <1>0, <1>2, MediaMoves
  <2>2. MediaFits(th'[m])
    BY <2>1, ThreadKinds DEF Moves, MediaFits, MediaPlaces
  <2>3. StartFits(th'[m])
    BY <2>1 DEF Moves, StartFits, StartPlaces
  <2>4. QED
    BY <1>0, <2>1, <2>2, <2>3, OneThreadFits DEF Moves
<1>3. CASE MessageLock(m)
  <2>1. th[m].x \in Streams /\ th[m].s = th[m].x[1]
    BY <1>0, <1>3 DEF MessageLock, At, MediaFits
  <2>2. \/ \E pc \in {"prepare", "verify"} : Moves(m, pc, th[m].s, th[m].x, NONE, NONE, th[m].walk)
        \/ Moves(m, "start", th[m].s, th[m].x, th[m].x, "start", th[m].walk)
        \/ Moves(m, "walk_lock", th[m].s, th[m].x, th[m].x, "commit", th[m].walk)
    BY <1>0, <1>3, MediaMoves
  <2>3. MediaFits(th'[m])
    BY <2>1, <2>2, ThreadKinds DEF Moves, MediaFits, MediaPlaces, StartPlaces
  <2>4. StartFits(th'[m])
    BY <2>1, <2>2, ThreadKinds DEF Moves, StartFits, StartPlaces
  <2>5. QED
    BY <1>0, <2>2, <2>3, <2>4, OneThreadFits DEF Moves
<1>4. QED
  BY <1>1, <1>2, <1>3 DEF MediaStep

LEMMA SchedThreads ==
    ASSUME SessionsInv, (\E y \in Streams : SchedPop(y)) \/ DhLock \/ DhEnd
    PROVE  ThreadsFit'
<1>0. /\ ThreadsFit /\ TypeOK /\ SCHED \in Threads /\ SchedFits(th[SCHED])
      /\ StartFits(th[SCHED]) /\ SCHED \notin Users /\ SCHED \notin Media
  BY ThreadKinds DEF SessionsInv, ThreadsFit
<1>1. CASE DhEnd
  BY <1>0, <1>1, EndFits, SchedMoves
<1>2. ASSUME NEW y \in Streams, SchedPop(y) PROVE ThreadsFit'
  <2>1. CASE UNCHANGED <<busy, th>>
    BY <1>0, <2>1 DEF ThreadsFit
  <2>2. CASE Moves(SCHED, "dh_lock", NONE, y, y, "retry", <<>>)
    <3>1. SchedFits(th'[SCHED])
      BY <2>2 DEF Moves, SchedFits, SchedPlaces
    <3>2. StartFits(th'[SCHED])
      BY <2>2, ThreadKinds DEF Moves, StartFits, StartPlaces
    <3>3. QED
      BY <1>0, <2>2, <3>1, <3>2, OneThreadFits DEF Moves
  <2>3. QED
    BY <1>0, <1>2, <2>1, <2>2, SchedMoves
<1>3. CASE DhLock
  <2>1. /\ Arrives(SCHED, "walk_lock") \/ Arrives(SCHED, "dh_end")
        /\ th[SCHED].pc = "dh_lock"
    BY <1>0, <1>3, SchedMoves DEF DhLock, At
  <2>2. SchedFits(th'[SCHED])
    BY <1>0, <2>1 DEF Arrives, Moves, SchedFits, SchedPlaces, StartPlaces
  <2>3. StartFits(th'[SCHED])
    BY <1>0, <2>1 DEF Arrives, Moves, StartFits, StartPlaces
  <2>4. QED
    BY <1>0, <2>1, <2>2, <2>3, OneThreadFits DEF Arrives, Moves
<1>4. QED
  BY <1>1, <1>2, <1>3

LEMMA WalkThreads ==
    ASSUME SessionsInv, NEW t \in Threads, Walk(t)
    PROVE  ThreadsFit'
<1> DEFINE r == th[t]
           places == {"verify", "verify_walk"} \cup StartPlaces
<1>0. /\ ThreadsFit /\ TypeOK /\ r \in Records /\ StartFits(r)
      /\ t \in Users => UserFits(r) /\ t \notin Media /\ t # SCHED
      /\ t \in Media => MediaFits(r) /\ t # SCHED
      /\ t = SCHED => SchedFits(r)
  BY ThreadKinds DEF SessionsInv, ThreadsFit
\* What a step of a walk may do to the record of its thread.
<1>1. ASSUME NEW pc \in places, NEW y, NEW why, NEW walk,
             Moves(t, pc, r.s, r.x, y, why, walk),
             r.pc \in places, r.pc = "verify" => pc = "verify_walk",
             pc \in {"verify", "verify_walk"} => r.pc \in {"verify", "verify_walk"} /\ why = r.why,
             pc \in StartPlaces =>
                /\ r.pc \in StartPlaces
                /\ y \in Streams
                /\ \/ why = r.why
                   \/ why = "start"
                /\ why # "start" => y = r.y,
             pc = "start" => why = "start",
             pc = "respond" => why = "commit",
             pc = "accepted" => y = r.x
      PROVE  ThreadsFit'
  <2>1. /\ t \in Users => r.pc \in {"verify", "verify_walk"}
        /\ t = SCHED => r.pc \in StartPlaces \ {"respond"}
    BY <1>0, <1>1
       DEF UserFits, SchedFits, SchedPlaces, UserPlaces, DownPlaces, StartPlaces
  <2>2. /\ th'[t].pc = pc /\ th'[t].s = r.s /\ th'[t].x = r.x /\ th'[t].y = y
        /\ th'[t].why = why
    BY <1>1 DEF Moves
  <2>3. t \in Users => UserFits(th'[t])
    <3>1. t \in Users => pc \in {"verify", "verify_walk"}
      BY <1>1, <2>1 DEF StartPlaces
    <3>2. QED
      BY <2>2, <3>1 DEF UserFits, UserPlaces, DownPlaces
  <2>4. t \in Media => MediaFits(th'[t])
    <3>1. pc \in MediaPlaces /\ pc # "idle" /\ r.pc # "idle"
      BY <1>1 DEF MediaPlaces, StartPlaces
    <3>2. t \in Media => why # "retry"
      BY <1>0, <1>1 DEF MediaFits
    <3>3. QED
      BY <1>0, <2>2, <3>1, <3>2 DEF MediaFits
  <2>5. t = SCHED => SchedFits(th'[t])
    <3>1. t = SCHED => pc \in StartPlaces /\ why # "commit" /\ r.x \in Streams
      BY <1>0, <1>1, <2>1 DEF SchedFits, StartPlaces
    <3>2. t = SCHED => pc \in SchedPlaces /\ pc # "dh_lock"
      BY <1>1, <3>1 DEF SchedPlaces, StartPlaces
    <3>3. QED
      BY <2>2, <3>1, <3>2 DEF SchedFits
  <2>6. StartFits(th'[t])
    <3>1. pc # "idle" /\ pc # "dh_lock" /\ pc # "dh_end"
      BY <1>1 DEF StartPlaces
    <3>2. pc \in StartPlaces => y \in Streams /\ why # NONE /\ (why # "start" => y = r.x)
      BY <1>0, <1>1, ThreadKinds DEF StartFits
    <3>3. QED
      BY <1>1, <2>2, <3>1, <3>2 DEF StartFits
  <2>7. QED
    BY <1>0, <1>1, <2>3, <2>4, <2>5, <2>6, OneThreadFits DEF Moves
<1>2. CASE Ends(t)
  BY <1>0, <1>2, EndFits
<1>3. CASE t = SCHED /\ Arrives(t, "dh_end")
  <2>1. r.pc \in StartPlaces
    BY <1>0, <1>3
       DEF Walk, VerifyLock, VerifySession, VerifyEnd, StartLock, WalkLock, WalkSession, WalkEnd,
           StartDenied, StartAccepted, CommitDenied, CommitAccepted, Respond, At, StartPlaces,
           SchedFits, SchedPlaces
  <2>2. SchedFits(th'[t])
    BY <1>0, <1>3, <2>1 DEF Arrives, Moves, SchedFits, SchedPlaces, StartPlaces
  <2>3. StartFits(th'[t])
    BY <1>0, <1>3, <2>1 DEF Arrives, Moves, StartFits, StartPlaces
  <2>4. QED
    BY <1>0, <1>3, <2>2, <2>3, OneThreadFits DEF Arrives, Moves
<1>4. CASE Returns(t)
  BY <1>2, <1>3, <1>4 DEF Returns
<1>5. CASE VerifyLock(t) \/ VerifySession(t)
  <2>1. r.pc \in {"verify", "verify_walk"}
    BY <1>5 DEF VerifyLock, VerifySession, At
  <2>2. \E walk : Moves(t, "verify_walk", r.s, r.x, r.y, r.why, walk)
    BY <1>0, <1>5, WalkMoves
  <2>3. QED
    BY <1>1, <2>1, <2>2 DEF StartPlaces
<1>6. CASE StartLock(t) \/ WalkLock(t) \/ WalkSession(t)
  <2>1. r.pc \in {"start", "walk_lock", "walk"}
    BY <1>6 DEF StartLock, WalkLock, WalkSession, At
  <2>2. \/ Moves(t, "walk_lock", r.s, r.x, r.y, r.why, r.walk)
        \/ Moves(t, "walk", r.s, r.x, r.y, r.why, sessions_head)
        \/ Moves(t, "denied", r.s, r.x, r.y, r.why, <<>>)
        \/ Moves(t, "walk", r.s, r.x, r.y, r.why, Tail(r.walk))
    BY <1>0, <1>6, WalkMoves DEF Arrives
  <2>3. r.y \in Streams /\ r.pc \in StartPlaces /\ r.pc # "verify"
    BY <1>0, <2>1 DEF StartFits, StartPlaces
  <2>4. QED
    BY <1>1, <2>2, <2>3 DEF StartPlaces
<1>7. CASE WalkEnd(t)
  <2>1. r.pc = "walk" /\ r.walk = <<>>
    BY <1>7 DEF WalkEnd, At
  <2>2. r.y = r.x
    BY <2>1, EmptySeq DEF SessionsInv, Meets, At, Resumed, Range
  <2>3. Moves(t, "accepted", r.s, r.x, r.y, r.why, r.walk)
    BY <1>0, <1>7, WalkMoves DEF Arrives
  <2>4. r.y \in Streams /\ r.pc \in StartPlaces /\ r.pc # "verify"
    BY <1>0, <2>1 DEF StartFits, StartPlaces
  <2>5. QED
    BY <1>1, <2>2, <2>3, <2>4 DEF StartPlaces
<1>8. CASE (CommitDenied(t) \/ CommitAccepted(t)) /\ ~Returns(t)
  <2>1. r.pc \in {"denied", "accepted"} /\ r.why = "commit"
    BY <1>8 DEF CommitDenied, CommitAccepted, At
  <2>2. Moves(t, "respond", r.s, r.x, r.y, r.why, r.walk)
    BY <1>0, <1>8, WalkMoves DEF Arrives
  <2>3. r.y \in Streams /\ r.pc \in StartPlaces /\ r.pc # "verify"
    BY <1>0, <2>1 DEF StartFits, StartPlaces
  <2>4. QED
    BY <1>1, <2>1, <2>2, <2>3 DEF StartPlaces
<1>9. CASE (StartAccepted(t) \/ Respond(t)) /\ ~Returns(t)
  <2>1. r.pc \in {"accepted", "respond"}
    BY <1>9 DEF StartAccepted, Respond, At
  <2>2. /\ concurrent[r.y] # NONE
        /\ Moves(t, "start", r.s, r.x, concurrent[r.y], "start", r.walk)
    BY <1>0, <1>9, WalkMoves
  <2>3. r.y \in Streams /\ r.pc \in StartPlaces /\ r.pc # "verify"
    BY <1>0, <2>1 DEF StartFits, StartPlaces
  <2>4. concurrent[r.y] \in Streams
    BY <1>0, <2>2, <2>3 DEF TypeOK
  <2>5. QED
    BY <1>1, <2>2, <2>3, <2>4 DEF StartPlaces
<1>10. QED
  <2>1. VerifyEnd(t) => Ends(t)
    BY <1>0, WalkMoves
  <2>2. StartDenied(t) => Returns(t)
    BY <1>0, WalkMoves
  <2>3. QED
    BY <1>2, <1>4, <1>5, <1>6, <1>7, <1>8, <1>9, <2>1, <2>2 DEF Walk

-----------------------------------------------------------------------------
(* Mutexes.                                                                *)

LEMMA WantsValues ==
    ASSUME NEW t \in Threads
    PROVE  LET r == th[t]
           IN  /\ r.pc \in {"list_add", "down_unlink", "verify", "walk_lock"} =>
                      Wants(t) = SessionsProtector
               /\ r.pc \in {"attach", "down", "prepare"} => Wants(t) = StreamsProtector(r.s)
               /\ r.pc = "walk" /\ r.walk # <<>> => Wants(t) = StreamsProtector(Head(r.walk))
               /\ r.pc = "start" => Wants(t) = InitProtector(r.y[1])
               /\ r.pc \in {"message", "stop_lock", "dh_lock"} => Wants(t) = StreamProtector(r.x)
               /\ \/ r.pc \in {"idle", "attach_init", "down_stop", "stop_wait", "down_free_secrets",
                               "down_free", "verify_walk", "dh_end", "denied", "accepted", "respond"}
                  \/ r.pc = "walk" /\ r.walk = <<>>
                  => Wants(t) = NONE
  BY DEF Wants, At

\* Nothing changes for the other threads.
Keeps(t) ==
    \A m \in Mutexes : \A o \in Threads \ {t} : owner'[m] = o <=> owner[m] = o

LEMMA LockOwns ==
    ASSUME TypeOK, NEW t \in Threads, Lock(t), Wants(t) \in Mutexes
    PROVE  /\ Keeps(t) /\ owner[Wants(t)] = NONE
           /\ \A m \in Mutexes : owner'[m] = t <=> owner[m] = t \/ m = Wants(t)
<1>1. owner \in [Mutexes -> Threads \cup {NONE}] /\ owner[Wants(t)] = NONE /\ NONE \notin Threads
  BY ThreadKinds DEF TypeOK, Lock, Free
<1>2. \A m \in Mutexes : owner'[m] = IF m = Wants(t) THEN t ELSE owner[m]
  BY <1>1 DEF Lock
<1>3. QED
  BY <1>1, <1>2 DEF Keeps

LEMMA UnlockOwns ==
    ASSUME TypeOK, NEW t \in Threads, NEW ms, Unlock(ms), \A m \in Mutexes \cap ms : owner[m] = t
    PROVE  /\ Keeps(t)
           /\ \A m \in Mutexes : owner'[m] = t <=> owner[m] = t /\ m \notin ms
<1>1. NONE \notin Threads
  BY ThreadKinds
<1>2. \A m \in Mutexes : owner'[m] = IF m \in ms THEN NONE ELSE owner[m]
  BY DEF Unlock
<1>3. QED
  BY <1>1, <1>2 DEF Keeps

LEMMA UnchangedOwns ==
    ASSUME NEW t \in Threads, UNCHANGED owner
    PROVE  Keeps(t) /\ \A m \in Mutexes : owner'[m] = t <=> owner[m] = t
  BY DEF Keeps

LEMMA MutexesAfter ==
    ASSUME MutexesFit, NEW t \in Threads, Keeps(t), \A o \in Threads \ {t} : th'[o] = th[o],
           Holds(t)'
    PROVE  MutexesFit'
<1>1. ASSUME NEW o \in Threads \ {t} PROVE Holds(o)'
  <2>1. Holds(o) /\ th'[o] = th[o]
    BY DEF MutexesFit
  <2>2. \A m \in Mutexes : owner'[m] = o <=> owner[m] = o
    BY DEF Keeps
  <2>3. QED
    BY <2>1, <2>2, MutexKinds DEF Holds
<1>2. QED
  BY <1>1 DEF MutexesFit

\* Who gives back all it holds fits the idle place.
LEMMA LeaveFits ==
    ASSUME SessionsInv, NEW t \in Threads, Ends(t),
           Unlock({m \in Mutexes : owner[m] = t})
    PROVE  MutexesFit'
<1>1. /\ Keeps(t)
      /\ \A m \in Mutexes : owner'[m] # t
  BY UnlockOwns DEF SessionsInv
<1>2. Holds(t)'
  BY <1>1, MutexKinds DEF Ends, Moves, Holds, HandlerPlaces, StartPlaces
<1>3. QED
  BY <1>1, <1>2, MutexesAfter DEF SessionsInv, Ends, Moves

LEMMA UserMutexes ==
    ASSUME SessionsInv, NEW u \in Users, UserStep(u)
    PROVE  MutexesFit'
<1> DEFINE r == th[u]
<1>0. /\ ThreadsFit /\ TypeOK /\ MutexesFit /\ u \in Threads /\ UserFits(r) /\ r \in Records
      /\ Holds(u)
  BY ThreadKinds DEF SessionsInv, ThreadsFit, MutexesFit
\* A step that leaves the mutexes alone, between places where none is held.
<1>1. ASSUME UNCHANGED owner, NEW pc, NEW s, NEW x, NEW y, NEW why, NEW walk,
             Moves(u, pc, s, x, y, why, walk),
             \/ {r.pc, pc} \cap {"down_stop", "stop_lock", "stop_wait", "verify_walk"} = {}
             \/ r.pc = "down_stop" /\ pc = "stop_lock" /\ s = r.s,
             r.pc \in UserPlaces, pc \in UserPlaces
      PROVE  MutexesFit'
  <2>1. Keeps(u) /\ \A m \in Mutexes : owner'[m] = u <=> owner[m] = u
    BY <1>0, <1>1, UnchangedOwns
  <2>2. Holds(u)'
    BY <1>0, <1>1, <2>1, MutexKinds
       DEF Holds, Moves, HandlerPlaces, StartPlaces, UserPlaces, DownPlaces
  <2>3. QED
    BY <1>0, <1>1, <2>1, <2>2, MutexesAfter DEF Moves
<1>2. ASSUME NEW s \in Sessions, SessionInit(u, s) \/ StreamAttach(u, s) \/ SessionDown(u, s)
      PROVE  MutexesFit'
  <2>1. UNCHANGED owner /\ r.pc = "idle"
    BY <1>2 DEF SessionInit, StreamAttach, SessionDown, At
  <2>2. \E pc \in {"list_add", "attach", "down"} : Moves(u, pc, s, NONE, NONE, NONE, <<>>)
    BY <1>0, <1>2, UserMoves
  <2>3. QED
    BY <1>1, <2>1, <2>2 DEF UserPlaces, DownPlaces
<1>3. CASE ListAdd(u) \/ AttachFind(u) \/ AttachInit(u) \/ DownFree(u)
  <2>1. UNCHANGED owner /\ r.pc \in {"list_add", "attach", "attach_init", "down_free"}
    BY <1>3 DEF ListAdd, AttachFind, AttachInit, DownFree, At
  <2>2. \/ Moves(u, "idle", NONE, NONE, NONE, NONE, <<>>)
        \/ \E x : Moves(u, "attach_init", r.s, x, r.y, r.why, r.walk)
    BY <1>0, <1>3, UserMoves DEF Ends
  <2>3. QED
    BY <1>1, <2>1, <2>2 DEF UserPlaces, DownPlaces
<1>4. CASE DownFreeSecrets(u) \/ DownUnlink(u) \/ UserVerifies(u)
  <2>1. UNCHANGED owner /\ r.pc \in {"down_free_secrets", "down_unlink", "idle"}
    BY <1>4 DEF DownFreeSecrets, DownUnlink, UserVerifies, At
  <2>2. \/ Moves(u, "down_unlink", r.s, r.x, r.y, r.why, r.walk)
        \/ Moves(u, "down_free", r.s, r.x, r.y, r.why, r.walk)
        \/ Moves(u, "verify", NONE, NONE, NONE, NONE, <<>>)
    BY <1>0, <1>4, UserMoves DEF Arrives
  <2>3. QED
    BY <1>1, <2>1, <2>2 DEF UserPlaces, DownPlaces
<1>5. CASE DownStop(u)
  <2>1. r.pc = "down_stop" /\ r.s \in Sessions
    BY <1>0, <1>5 DEF DownStop, At, UserFits, DownPlaces
  <2>2. CASE Unlock({StreamsProtector(r.s)}) /\ Arrives(u, "down_free_secrets")
    <3>1. owner[StreamsProtector(r.s)] = u
      BY <1>0, <2>1 DEF Holds
    <3>2. /\ Keeps(u)
          /\ \A m \in Mutexes : owner'[m] = u <=> owner[m] = u /\ m # StreamsProtector(r.s)
      BY <1>0, <2>2, <3>1, UnlockOwns
    <3>3. Holds(u)'
      BY <1>0, <2>1, <2>2, <3>2, MutexKinds, MutexesDiffer
         DEF Holds, Arrives, Moves, HandlerPlaces, StartPlaces
    <3>4. QED
      BY <1>0, <2>2, <3>2, <3>3, MutexesAfter DEF Arrives, Moves
  <2>3. CASE /\ UNCHANGED owner
             /\ \E x : Moves(u, "stop_lock", r.s, x, r.y, r.why, r.walk)
    BY <1>1, <2>1, <2>3 DEF UserPlaces, DownPlaces
  <2>4. QED
    BY <1>0, <1>5, <2>2, <2>3, UserMoves
<1>6. CASE DownLock(u)
  <2>1. r.pc = "down" /\ r.s \in Sessions /\ Lock(u) /\ Arrives(u, "down_stop")
    BY <1>0, <1>6, UserMoves DEF DownLock, At, UserFits, DownPlaces
  <2>2. Wants(u) = StreamsProtector(r.s) /\ Wants(u) \in Mutexes
    BY <1>0, <2>1, WantsValues, MutexKinds
  <2>3. /\ Keeps(u)
        /\ \A m \in Mutexes : owner'[m] = u <=> owner[m] = u \/ m = StreamsProtector(r.s)
    BY <1>0, <2>1, <2>2, LockOwns
  <2>4. Holds(u)'
    BY <1>0, <2>1, <2>3, MutexKinds, MutexesDiffer
       DEF Holds, Arrives, Moves, HandlerPlaces, StartPlaces
  <2>5. QED
    BY <1>0, <2>1, <2>3, <2>4, MutexesAfter DEF Arrives, Moves
<1>7. CASE StopLock(u)
  <2>1. /\ r.pc = "stop_lock" /\ r.s \in Sessions /\ r.x \in Streams
        /\ Lock(u) /\ Arrives(u, "stop_wait")
    BY <1>0, <1>7, UserMoves DEF StopLock, At, UserFits, DownPlaces
  <2>2. Wants(u) = StreamProtector(r.x) /\ Wants(u) \in Mutexes
    BY <1>0, <2>1, WantsValues, MutexKinds
  <2>3. /\ Keeps(u)
        /\ \A m \in Mutexes : owner'[m] = u <=> owner[m] = u \/ m = StreamProtector(r.x)
    BY <1>0, <2>1, <2>2, LockOwns
  <2>4. Holds(u)'
    BY <1>0, <2>1, <2>3, MutexKinds, MutexesDiffer
       DEF Holds, Arrives, Moves, HandlerPlaces, StartPlaces
  <2>5. QED
    BY <1>0, <2>1, <2>3, <2>4, MutexesAfter DEF Arrives, Moves
<1>8. CASE StopWipe(u)
  <2>1. /\ r.pc = "stop_wait" /\ r.s \in Sessions /\ r.x \in Streams
        /\ Unlock({StreamProtector(r.x)}) /\ Arrives(u, "down_stop")
    BY <1>0, <1>8, UserMoves DEF StopWipe, At, UserFits, DownPlaces
  <2>2. owner[StreamProtector(r.x)] = u
    BY <1>0, <2>1 DEF Holds
  <2>3. /\ Keeps(u)
        /\ \A m \in Mutexes : owner'[m] = u <=> owner[m] = u /\ m # StreamProtector(r.x)
    BY <1>0, <2>1, <2>2, UnlockOwns
  <2>4. Holds(u)'
    BY <1>0, <2>1, <2>3, MutexKinds, MutexesDiffer
       DEF Holds, Arrives, Moves, HandlerPlaces, StartPlaces
  <2>5. QED
    BY <1>0, <2>1, <2>3, <2>4, MutexesAfter DEF Arrives, Moves
<1>9. QED
  BY <1>2, <1>3, <1>4, <1>5, <1>6, <1>7, <1>8 DEF UserStep

LEMMA MediaMutexes ==
    ASSUME SessionsInv, NEW m \in Media, MediaStep(m)
    PROVE  MutexesFit'
<1> DEFINE r == th[m]
<1>0. /\ ThreadsFit /\ TypeOK /\ MutexesFit /\ m \in Threads /\ m \notin Users
      /\ MediaFits(r) /\ r \in Records /\ Holds(m)
  BY ThreadKinds DEF SessionsInv, ThreadsFit, MutexesFit
<1>1. ASSUME NEW x \in Streams, Message(m, x) PROVE MutexesFit'
  <2>1. UNCHANGED owner /\ r.pc = "idle" /\ Moves(m, "message", x[1], x, NONE, NONE, <<>>)
    BY <1>0, <1>1, MediaMoves DEF Message, At
  <2>2. Keeps(m) /\ \A k \in Mutexes : owner'[k] = m <=> owner[k] = m
    BY <1>0, <2>1, UnchangedOwns
  <2>3. Holds(m)'
    BY <1>0, <2>1, <2>2, MutexKinds DEF Holds, Moves, HandlerPlaces, StartPlaces
  <2>4. QED
    BY <1>0, <2>1, <2>2, <2>3, MutexesAfter DEF Moves
<1>2. CASE MessageLock(m)
  <2>1. /\ r.pc = "message" /\ r.x \in Streams /\ Lock(m)
        /\ \/ \E pc \in {"prepare", "verify"} : Moves(m, pc, r.s, r.x, NONE, NONE, r.walk)
           \/ Moves(m, "start", r.s, r.x, r.x, "start", r.walk)
           \/ Moves(m, "walk_lock", r.s, r.x, r.x, "commit", r.walk)
    BY <1>0, <1>2, MediaMoves DEF MessageLock, At, MediaFits
  <2>2. Wants(m) = StreamProtector(r.x) /\ Wants(m) \in Mutexes
    BY <1>0, <2>1, WantsValues, MutexKinds
  <2>3. /\ Keeps(m)
        /\ \A k \in Mutexes : owner'[k] = m <=> owner[k] = m \/ k = StreamProtector(r.x)
    BY <1>0, <2>1, <2>2, LockOwns
  <2>4. Holds(m)'
    BY <1>0, <2>1, <2>3, MutexKinds, MutexesDiffer
       DEF Holds, Moves, HandlerPlaces, StartPlaces
  <2>5. QED
    BY <1>0, <2>1, <2>3, <2>4, MutexesAfter DEF Moves
<1>3. CASE Prepare(m)
  BY <1>0, <1>3, MediaMoves, LeaveFits DEF Prepare, Leave
<1>4. QED
  BY <1>1, <1>2, <1>3 DEF MediaStep

LEMMA SchedMutexes ==
    ASSUME SessionsInv, (\E y \in Streams : SchedPop(y)) \/ DhLock \/ DhEnd
    PROVE  MutexesFit'
<1> DEFINE r == th[SCHED]
<1>0. /\ ThreadsFit /\ TypeOK /\ MutexesFit /\ SCHED \in Threads /\ SCHED \notin Users
      /\ SchedFits(r) /\ StartFits(r) /\ r \in Records /\ Holds(SCHED)
  BY ThreadKinds DEF SessionsInv, ThreadsFit, MutexesFit
<1>1. ASSUME NEW y \in Streams, SchedPop(y) PROVE MutexesFit'
  <2>1. UNCHANGED owner /\ r.pc = "idle"
    BY <1>1 DEF SchedPop, At
  <2>2. Keeps(SCHED) /\ \A k \in Mutexes : owner'[k] = SCHED <=> owner[k] = SCHED
    BY <1>0, <2>1, UnchangedOwns
  <2>3. CASE UNCHANGED <<busy, th>>
    BY <1>0, <2>1, <2>3 DEF MutexesFit, Holds
  <2>4. CASE Moves(SCHED, "dh_lock", NONE, y, y, "retry", <<>>)
    <3>1. Holds(SCHED)'
      BY <1>0, <2>1, <2>2, <2>4, MutexKinds DEF Holds, Moves, HandlerPlaces, StartPlaces
    <3>2. QED
      BY <1>0, <2>2, <2>4, <3>1, MutexesAfter DEF Moves
  <2>5. QED
    BY <1>0, <1>1, <2>3, <2>4, SchedMoves
<1>2. CASE DhLock
  <2>1. /\ r.pc = "dh_lock" /\ r.x \in Streams /\ r.why # "start"
        /\ Lock(SCHED)
        /\ Arrives(SCHED, "walk_lock") \/ Arrives(SCHED, "dh_end")
    BY <1>0, <1>2, SchedMoves DEF DhLock, At, SchedFits
  <2>2. Wants(SCHED) = StreamProtector(r.x) /\ Wants(SCHED) \in Mutexes
    BY <1>0, <2>1, WantsValues, MutexKinds
  <2>3. /\ Keeps(SCHED)
        /\ \A k \in Mutexes : owner'[k] = SCHED <=> owner[k] = SCHED \/ k = StreamProtector(r.x)
    BY <1>0, <2>1, <2>2, LockOwns
  <2>4. Holds(SCHED)'
    BY <1>0, <2>1, <2>3, MutexKinds, MutexesDiffer
       DEF Holds, Arrives, Moves, HandlerPlaces, StartPlaces
  <2>5. QED
    BY <1>0, <2>1, <2>3, <2>4, MutexesAfter DEF Arrives, Moves
<1>3. CASE DhEnd
  BY <1>0, <1>3, SchedMoves, LeaveFits DEF DhEnd, Leave
<1>4. QED
  BY <1>1, <1>2, <1>3

LEMMA WalkMutexes ==
    ASSUME SessionsInv, NEW t \in Threads, Walk(t)
    PROVE  MutexesFit'
<1> DEFINE r == th[t]
<1>0. /\ ThreadsFit /\ TypeOK /\ MutexesFit /\ r \in Records /\ StartFits(r) /\ Holds(t)
      /\ t \in Users => UserFits(r)
  BY ThreadKinds DEF SessionsInv, ThreadsFit, MutexesFit
<1>1. t \in Users => r.pc \notin StartPlaces
  BY <1>0 DEF UserFits, UserPlaces, DownPlaces, StartPlaces
<1>2. CASE Returns(t)
  <2>1. CASE t = SCHED /\ UNCHANGED owner /\ Arrives(t, "dh_end")
    <3>1. Keeps(t) /\ \A k \in Mutexes : owner'[k] = t <=> owner[k] = t
      BY <2>1, UnchangedOwns
    <3>2. r.pc \in {"denied", "accepted"}
      BY <1>0, <1>2, <2>1, WalkMoves, ThreadKinds
         DEF Walk, VerifyLock, VerifySession, VerifyEnd, StartLock, WalkLock, WalkSession, WalkEnd,
             StartDenied, StartAccepted, CommitDenied, CommitAccepted, Respond, At, Arrives, Moves,
             Ends, ThreadsFit, SchedFits, SchedPlaces, StartPlaces
    <3>3. t \notin Users
      BY <1>1, <3>2 DEF StartPlaces
    <3>4. Holds(t)'
      BY <1>0, <2>1, <3>1, <3>2, <3>3, MutexKinds DEF Holds, Arrives, Moves, HandlerPlaces, StartPlaces
    <3>5. QED
      BY <1>0, <2>1, <3>1, <3>4, MutexesAfter DEF Arrives, Moves
  <2>2. QED
    BY <1>2, <2>1, LeaveFits DEF Returns
<1>3. CASE VerifyEnd(t)
  BY <1>0, <1>3, WalkMoves, LeaveFits DEF VerifyEnd, Leave
<1>4. CASE VerifyLock(t) \/ WalkLock(t)
  <2>1. /\ r.pc \in {"verify", "walk_lock"} /\ Lock(t)
        /\ \E pc \in {"verify_walk", "walk"} :
              /\ pc = "verify_walk" <=> r.pc = "verify"
              /\ Moves(t, pc, r.s, r.x, r.y, r.why, sessions_head)
    BY <1>0, <1>4, WalkMoves DEF VerifyLock, WalkLock, At
  <2>2. Wants(t) = SessionsProtector /\ Wants(t) \in Mutexes
    BY <1>0, <2>1, WantsValues, MutexKinds
  <2>3. /\ Keeps(t)
        /\ \A k \in Mutexes : owner'[k] = t <=> owner[k] = t \/ k = SessionsProtector
    BY <1>0, <2>1, <2>2, LockOwns
  <2>4. Holds(t)'
    BY <1>0, <1>1, <2>1, <2>3, MutexKinds, MutexesDiffer
       DEF Holds, Moves, HandlerPlaces, StartPlaces
  <2>5. QED
    BY <1>0, <2>1, <2>3, <2>4, MutexesAfter DEF Moves
<1>5. CASE VerifySession(t)
  <2>1. /\ r.pc = "verify_walk" /\ UNCHANGED owner
        /\ Moves(t, "verify_walk", r.s, r.x, r.y, r.why, Tail(r.walk))
    BY <1>0, <1>5, WalkMoves DEF VerifySession, At
  <2>2. Keeps(t) /\ \A k \in Mutexes : owner'[k] = t <=> owner[k] = t
    BY <2>1, UnchangedOwns
  <2>3. Holds(t)'
    BY <1>0, <2>1, <2>2, MutexKinds DEF Holds, Moves, HandlerPlaces, StartPlaces
  <2>4. QED
    BY <1>0, <2>1, <2>2, <2>3, MutexesAfter DEF Moves
<1>6. CASE StartLock(t)
  <2>1. /\ r.pc = "start" /\ r.why = "start" /\ r.y \in Streams /\ r.y[1] \in Sessions
        /\ Lock(t) /\ Arrives(t, "walk_lock") /\ t \notin Users
    BY <1>0, <1>1, <1>6, WalkMoves, ThreadKinds DEF StartLock, At, StartFits, StartPlaces
  <2>2. Wants(t) = InitProtector(r.y[1]) /\ Wants(t) \in Mutexes
    BY <1>0, <2>1, WantsValues, MutexKinds
  <2>3. /\ Keeps(t)
        /\ \A k \in Mutexes : owner'[k] = t <=> owner[k] = t \/ k = InitProtector(r.y[1])
    BY <1>0, <2>1, <2>2, LockOwns
  <2>4. Holds(t)'
    BY <1>0, <2>1, <2>3, MutexKinds, MutexesDiffer
       DEF Holds, Arrives, Moves, HandlerPlaces, StartPlaces
  <2>5. QED
    BY <1>0, <2>1, <2>3, <2>4, MutexesAfter DEF Arrives, Moves
<1>7. CASE WalkSession(t)
  <2>0. r.pc = "walk" /\ t \notin Users
    BY <1>1, <1>7 DEF WalkSession, At, StartPlaces
  <2>1. CASE Unlock({SessionsProtector}) /\ Moves(t, "denied", r.s, r.x, r.y, r.why, <<>>)
    <3>1. owner[SessionsProtector] = t
      BY <1>0, <2>0 DEF Holds
    <3>2. /\ Keeps(t)
          /\ \A k \in Mutexes : owner'[k] = t <=> owner[k] = t /\ k # SessionsProtector
      BY <1>0, <2>1, <3>1, UnlockOwns
    <3>3. Holds(t)'
      BY <1>0, <2>0, <2>1, <3>2, MutexKinds, MutexesDiffer
         DEF Holds, Moves, HandlerPlaces, StartPlaces
    <3>4. QED
      BY <1>0, <2>1, <3>2, <3>3, MutexesAfter DEF Moves
  <2>2. CASE UNCHANGED owner /\ Moves(t, "walk", r.s, r.x, r.y, r.why, Tail(r.walk))
    <3>1. Keeps(t) /\ \A k \in Mutexes : owner'[k] = t <=> owner[k] = t
      BY <2>2, UnchangedOwns
    <3>2. Holds(t)'
      BY <1>0, <2>0, <2>2, <3>1, MutexKinds DEF Holds, Moves, HandlerPlaces, StartPlaces
    <3>3. QED
      BY <1>0, <2>2, <3>1, <3>2, MutexesAfter DEF Moves
  <2>3. QED
    <3>1. \/ /\ th' = [th EXCEPT ![t].pc = "denied", ![t].walk = <<>>]
             /\ Unlock({SessionsProtector})
          \/ /\ th' = [th EXCEPT ![t].walk = Tail(th[t].walk)]
             /\ UNCHANGED owner
      BY <1>7 DEF WalkSession
    <3>2. th \in [Threads -> Records] /\ r \in Records /\ "walk" # "denied"
      BY <1>0 DEF TypeOK, Records
    <3>3. /\ th' = [th EXCEPT ![t].pc = "denied", ![t].walk = <<>>] => th'[t].pc = "denied"
          /\ th' = [th EXCEPT ![t].walk = Tail(th[t].walk)] => th'[t].pc = "walk"
      BY <2>0, <3>2 DEF Records
    <3>4. \/ Moves(t, "denied", r.s, r.x, r.y, r.why, <<>>)
          \/ Moves(t, "walk", r.s, r.x, r.y, r.why, Tail(r.walk))
      BY <1>0, <1>7, WalkMoves
    <3>5. QED
      BY <2>1, <2>2, <3>1, <3>2, <3>3, <3>4 DEF Moves
<1>8. CASE WalkEnd(t)
  <2>1. /\ r.pc = "walk" /\ t \notin Users
        /\ Unlock({SessionsProtector}) /\ Arrives(t, "accepted")
    BY <1>0, <1>1, <1>8, WalkMoves DEF WalkEnd, At, StartPlaces
  <2>2. owner[SessionsProtector] = t
    BY <1>0, <2>1 DEF Holds
  <2>3. /\ Keeps(t)
        /\ \A k \in Mutexes : owner'[k] = t <=> owner[k] = t /\ k # SessionsProtector
    BY <1>0, <2>1, <2>2, UnlockOwns
  <2>4. Holds(t)'
    BY <1>0, <2>1, <2>3, MutexKinds, MutexesDiffer
       DEF Holds, Arrives, Moves, HandlerPlaces, StartPlaces
  <2>5. QED
    BY <1>0, <2>1, <2>3, <2>4, MutexesAfter DEF Arrives, Moves
<1>9. CASE (CommitDenied(t) \/ CommitAccepted(t)) /\ ~Returns(t)
  <2>1. /\ r.pc \in {"denied", "accepted"} /\ r.why = "commit" /\ t \notin Users
        /\ UNCHANGED owner /\ Arrives(t, "respond")
    BY <1>0, <1>1, <1>9, WalkMoves, ReturnReturns
       DEF CommitDenied, CommitAccepted, At, StartPlaces
  <2>2. Keeps(t) /\ \A k \in Mutexes : owner'[k] = t <=> owner[k] = t
    BY <2>1, UnchangedOwns
  <2>3. Holds(t)'
    BY <1>0, <2>1, <2>2, MutexKinds DEF Holds, Arrives, Moves, HandlerPlaces, StartPlaces
  <2>4. QED
    BY <1>0, <2>1, <2>2, <2>3, MutexesAfter DEF Arrives, Moves
<1>10. CASE (StartAccepted(t) \/ Respond(t)) /\ ~Returns(t)
  <2>1. /\ r.pc \in {"accepted", "respond"} /\ t \notin Users /\ UNCHANGED owner
        /\ concurrent[r.y] # NONE
        /\ Moves(t, "start", r.s, r.x, concurrent[r.y], "start", r.walk)
    BY <1>0, <1>1, <1>10, WalkMoves, ReturnReturns DEF StartAccepted, Respond, At, StartPlaces
\* No init_protector is held on the way to the next start.
  <2>2. r.pc = "accepted" => r.why # "start"
    BY <2>1 DEF SessionsInv, Undisturbed, At
  <2>3. Keeps(t) /\ \A k \in Mutexes : owner'[k] = t <=> owner[k] = t
    BY <2>1, UnchangedOwns
  <2>4. Holds(t)'
    BY <1>0, <2>1, <2>2, <2>3, MutexKinds DEF Holds, Moves, HandlerPlaces, StartPlaces
  <2>5. QED
    BY <1>0, <2>1, <2>3, <2>4, MutexesAfter DEF Moves
<1>11. QED
  <2>1. StartDenied(t) => Returns(t)
    BY <1>0, WalkMoves
  <2>2. QED
    BY <1>2, <1>3, <1>4, <1>5, <1>6, <1>7, <1>8, <1>9, <1>10, <2>1 DEF Walk

-----------------------------------------------------------------------------
(* Who makes or closes a session is alone with it.                         *)

Claiming == DownPlaces \cup {"list_add"}

LEMMA AloneKept ==
    ASSUME SessionsInv, NEW t \in Threads, \A o \in Threads \ {t} : th'[o] = th[o],
           \/ th'[t].s = NONE
           \/ th'[t].s = th[t].s
           \/ \A u \in Users : At(u, Claiming) => th[u].s # th'[t].s,
           t \in Users /\ th'[t].pc \in Claiming =>
               \/ th[t].pc \in Claiming /\ th'[t].s = th[t].s
               \/ \A o \in (Users \cup Media) \ {t} : th[o].s # th'[t].s
    PROVE  Alone'
<1> SUFFICES ASSUME NEW u \in Users, At(u, Claiming)', NEW o \in (Users \cup Media) \ {u}
             PROVE  th'[o].s # th'[u].s
  BY DEF Alone, Claiming
<1>1. u \in Threads /\ o \in Threads /\ th'[u].pc \in Claiming
  BY ThreadKinds DEF At
<1>2. \A v \in Users : At(v, Claiming) => th[v].s \in Sessions /\ th[v].s # NONE
  BY ThreadKinds DEF SessionsInv, ThreadsFit, UserFits, At, Claiming
<1>3. \A v \in Users : At(v, Claiming) => \A w \in (Users \cup Media) \ {v} : th[w].s # th[v].s
  BY DEF SessionsInv, Alone, Claiming
<1>4. CASE u = t
  BY <1>1, <1>3, <1>4 DEF At
<1>5. CASE u # t /\ o = t
  <2>1. th'[u] = th[u] /\ At(u, Claiming)
    BY <1>1, <1>5 DEF At
  <2>2. QED
    BY <1>2, <1>3, <1>5, <2>1
<1>6. CASE u # t /\ o # t
  <2>1. th'[u] = th[u] /\ th'[o] = th[o] /\ At(u, Claiming)
    BY <1>1, <1>6 DEF At
  <2>2. QED
    BY <1>3, <2>1
<1>7. QED
  BY <1>4, <1>5, <1>6

LEMMA OpenIsNotClaimed ==
    ASSUME SessionsInv, NEW s \in Open, NEW u \in Users, At(u, Claiming)
    PROVE  th[u].s # s /\ s \in Range(sessions_head)
<1>1. s \in Range(sessions_head) /\ ~Closing(s)
  BY DEF Open
<1>2. CASE At(u, {"list_add"})
  BY <1>1, <1>2 DEF SessionsInv, Listed, UserListed, At
<1>3. CASE At(u, DownPlaces)
  BY <1>1, <1>3 DEF Closing, At, DownPlaces
<1>4. QED
  BY <1>1, <1>2, <1>3 DEF At, Claiming

LEMMA AloneNext ==
    ASSUME SessionsInv, Next
    PROVE  Alone'
<1>0. ThreadsFit /\ TypeOK
  BY DEF SessionsInv
<1>1. ASSUME NEW t \in Threads, Ends(t) PROVE Alone'
  BY <1>1, AloneKept DEF Ends, Moves, Claiming, DownPlaces
<1>2. ASSUME NEW t \in Threads, NEW pc, NEW x, NEW y, NEW why, NEW walk,
             Moves(t, pc, th[t].s, x, y, why, walk),
             t \in Users => (pc \in Claiming => th[t].pc \in Claiming)
      PROVE  Alone'
  BY <1>2, AloneKept DEF Moves
<1>3. ASSUME NEW u \in Users, UserStep(u) PROVE Alone'
  <2>0. u \in Threads
    BY ThreadKinds
  <2>1. ASSUME NEW s \in Sessions, SessionInit(u, s) \/ SessionDown(u, s) PROVE Alone'
    <3>1. \A o \in Users \cup Media : th[o].s # s
      BY <2>1 DEF SessionInit, SessionDown, InUse
    <3>2. \E pc \in {"list_add", "down"} : Moves(u, pc, s, NONE, NONE, NONE, <<>>)
      BY <1>0, <2>1, UserMoves
    <3>3. QED
      BY <2>0, <3>1, <3>2, AloneKept DEF Moves
  <2>2. ASSUME NEW s \in Sessions, StreamAttach(u, s) PROVE Alone'
    <3>1. Moves(u, "attach", s, NONE, NONE, NONE, <<>>) /\ s \in Open
      BY <1>0, <2>2, UserMoves DEF StreamAttach
    <3>2. \A v \in Users : At(v, Claiming) => th[v].s # s
      BY <3>1, OpenIsNotClaimed
    <3>3. QED
      BY <2>0, <3>1, <3>2, AloneKept DEF Moves, Claiming, DownPlaces
  <2>3. CASE UserVerifies(u)
    BY <1>0, <2>0, <2>3, AloneKept, UserMoves DEF Moves, Claiming, DownPlaces
  <2>4. CASE ListAdd(u) \/ AttachInit(u) \/ DownFree(u)
    BY <1>0, <1>1, <2>0, <2>4, UserMoves
  <2>5. CASE AttachFind(u)
    BY <1>0, <1>1, <1>2, <2>0, <2>5, UserMoves DEF Claiming, DownPlaces
  <2>6. CASE DownStop(u)
    <3>1. th[u].pc \in Claiming
      BY <2>6 DEF DownStop, At, Claiming, DownPlaces
    <3>2. QED
      BY <1>0, <1>2, <2>0, <2>6, <3>1, UserMoves DEF Arrives
  <2>7. CASE DownLock(u) \/ StopWipe(u) \/ StopLock(u) \/ DownFreeSecrets(u) \/ DownUnlink(u)
    <3>1. th[u].pc \in Claiming
      BY <2>7 DEF DownLock, StopWipe, StopLock, DownFreeSecrets, DownUnlink, At, Claiming, DownPlaces
    <3>2. \E pc \in {"down_stop", "stop_wait", "down_unlink", "down_free"} : Arrives(u, pc)
      BY <1>0, <2>7, UserMoves
    <3>3. QED
      BY <1>2, <2>0, <3>1, <3>2 DEF Arrives
  <2>8. QED
    BY <1>3, <2>1, <2>2, <2>3, <2>4, <2>5, <2>6, <2>7 DEF UserStep
<1>4. ASSUME NEW m \in Media, MediaStep(m) PROVE Alone'
  <2>0. m \in Threads /\ m \notin Users
    BY ThreadKinds
  <2>1. ASSUME NEW x \in Streams, Message(m, x) PROVE Alone'
    <3>1. Moves(m, "message", x[1], x, NONE, NONE, <<>>) /\ x[1] \in Open
      BY <1>0, <2>1, MediaMoves DEF Message
    <3>2. \A v \in Users : At(v, Claiming) => th[v].s # x[1]
      BY <3>1, OpenIsNotClaimed
    <3>3. QED
      BY <2>0, <3>1, <3>2, AloneKept DEF Moves
  <2>2. CASE MessageLock(m)
    BY <1>0, <1>2, <2>0, <2>2, MediaMoves
  <2>3. CASE Prepare(m)
    BY <1>0, <1>1, <2>0, <2>3, MediaMoves
  <2>4. QED
    BY <1>4, <2>1, <2>2, <2>3 DEF MediaStep
<1>5. ASSUME (\E y \in Streams : SchedPop(y)) \/ DhLock \/ DhEnd PROVE Alone'
  <2>0. SCHED \in Threads /\ SCHED \notin Users
    BY ThreadKinds
  <2>1. CASE UNCHANGED th
    BY <2>1 DEF SessionsInv, Alone, At
  <2>2. \/ UNCHANGED th \/ Ends(SCHED)
        \/ \E pc \in {"walk_lock", "dh_end"} : Arrives(SCHED, pc)
        \/ \E y \in Streams : Moves(SCHED, "dh_lock", NONE, y, y, "retry", <<>>)
    BY <1>0, <1>5, SchedMoves
  <2>3. ASSUME NEW y \in Streams, Moves(SCHED, "dh_lock", NONE, y, y, "retry", <<>>) PROVE Alone'
    BY <2>0, <2>3, AloneKept DEF Moves
  <2>4. QED
    BY <1>1, <1>2, <2>0, <2>1, <2>2, <2>3 DEF Arrives
<1>6. ASSUME NEW t \in Threads, Walk(t) PROVE Alone'
  <2>1. \/ Ends(t)
        \/ \E pc \in {"walk_lock", "accepted", "respond", "dh_end"} : Arrives(t, pc)
        \/ \E pc \in {"verify_walk", "walk", "denied"} :
              \/ Moves(t, pc, th[t].s, th[t].x, th[t].y, th[t].why, sessions_head)
              \/ Moves(t, pc, th[t].s, th[t].x, th[t].y, th[t].why, Tail(th[t].walk))
              \/ Moves(t, pc, th[t].s, th[t].x, th[t].y, th[t].why, <<>>)
        \/ Moves(t, "start", th[t].s, th[t].x, concurrent[th[t].y], "start", th[t].walk)
    BY <1>0, <1>6, WalkMoves DEF Walk, Returns
  <2>2. {"walk_lock", "accepted", "respond", "dh_end", "verify_walk", "walk", "denied", "start"}
            \cap Claiming = {}
    BY DEF Claiming, DownPlaces
  <2>3. QED
    BY <1>1, <1>2, <2>1, <2>2 DEF Arrives
<1>7. QED
  BY <1>3, <1>4, <1>5, <1>6 DEF Next

-----------------------------------------------------------------------------
(* What threads use is in the list.                                        *)

LEMMA ListedKept ==
    ASSUME SessionsInv, UNCHANGED <<sessions_head, alive, attached>>, NEW t \in Threads,
           \A o \in Threads \ {t} : th'[o] = th[o],
           t \in Users => UserListed(t)',
           t \in Media => MediaListed(t)',
           WalkListed(t)'
    PROVE  Listed'
<1>1. ASSUME NEW u \in Users, u # t PROVE UserListed(u)'
  <2>1. th'[u] = th[u] /\ UserListed(u)
    BY <1>1, ThreadKinds DEF SessionsInv, Listed
  <2>2. QED
    BY <2>1 DEF UserListed, At
<1>2. ASSUME NEW m \in Media, m # t PROVE MediaListed(m)'
  <2>1. th'[m] = th[m] /\ MediaListed(m)
    BY <1>2, ThreadKinds DEF SessionsInv, Listed
  <2>2. QED
    BY <2>1 DEF MediaListed, At
<1>3. ASSUME NEW o \in Threads, o # t PROVE WalkListed(o)'
  <2>1. th'[o] = th[o] /\ WalkListed(o)
    BY <1>3 DEF SessionsInv, Listed
  <2>2. QED
    BY <2>1 DEF WalkListed, At
<1>4. QED
  BY <1>1, <1>2, <1>3 DEF SessionsInv, Listed

LEMMA ListedWhenIdle ==
    ASSUME NEW t \in Threads, Ends(t)
    PROVE  UserListed(t)' /\ MediaListed(t)' /\ WalkListed(t)'
  BY DEF Ends, Moves, UserListed, MediaListed, WalkListed, At, DownPlaces

\* The session of a thread that claims it is not the session of another.
LEMMA ClaimedAlone ==
    ASSUME SessionsInv, NEW u \in Users, At(u, Claiming)
    PROVE  /\ th[u].s \in Sessions
           /\ \A v \in Users \ {u} : th[v].s # th[u].s
           /\ \A m \in Media : ~At(m, {"idle"}) => th[m].x[1] # th[u].s
<1>1. \A o \in (Users \cup Media) \ {u} : th[o].s # th[u].s
  BY DEF SessionsInv, Alone, Claiming
<1>2. \A m \in Media : ~At(m, {"idle"}) => th[m].s = th[m].x[1]
  BY DEF SessionsInv, ThreadsFit, MediaFits, At
<1>3. th[u].s \in Sessions
  BY DEF SessionsInv, ThreadsFit, UserFits, At, Claiming
<1>4. QED
  BY <1>1, <1>2, <1>3, ThreadKinds

LEMMA UserListedNext ==
    ASSUME SessionsInv, NEW u \in Users, UserStep(u)
    PROVE  Listed'
<1>0. /\ ThreadsFit /\ TypeOK /\ Listed /\ u \in Threads /\ UserFits(th[u])
      /\ UserListed(u) /\ WalkListed(u) /\ u \notin Media
  BY ThreadKinds DEF SessionsInv, ThreadsFit, Listed
\* The contexts stay as they are.
<1>1. ASSUME UNCHANGED <<sessions_head, alive, attached>>,
             NEW pc \in {"attach", "down", "verify", "attach_init", "down_stop", "stop_lock",
                         "stop_wait", "down_free_secrets", "down_unlink"},
             NEW s, NEW x, NEW y, NEW why, NEW walk,
             Moves(u, pc, s, x, y, why, walk),
             pc # "verify" => s \in Range(sessions_head),
             pc \in {"stop_lock", "stop_wait"} => x \in attached,
             pc \in {"down_free_secrets", "down_unlink"} => \A z \in attached : z[1] # s
      PROVE  Listed'
  <2>1. UserListed(u)'
    BY <1>1 DEF Moves, UserListed, At, DownPlaces
  <2>2. WalkListed(u)'
    BY <1>1 DEF Moves, WalkListed, At
  <2>3. QED
    BY <1>0, <1>1, <2>1, <2>2, ListedKept DEF Moves
<1>2. CASE Ends(u) /\ UNCHANGED <<sessions_head, alive, attached>>
  BY <1>0, <1>2, ListedKept, ListedWhenIdle DEF Ends, Moves
<1>3. ASSUME NEW s \in Sessions, StreamAttach(u, s) \/ SessionDown(u, s) PROVE Listed'
  <2>1. UNCHANGED <<sessions_head, alive, attached>> /\ s \in Range(sessions_head)
    BY <1>3 DEF StreamAttach, SessionDown, contexts, Open
  <2>2. \E pc \in {"attach", "down"} : Moves(u, pc, s, NONE, NONE, NONE, <<>>)
    BY <1>0, <1>3, UserMoves
  <2>3. QED
    BY <1>1, <2>1, <2>2
<1>4. CASE UserVerifies(u)
  BY <1>0, <1>1, <1>4, UserMoves DEF UserVerifies, contexts
<1>5. CASE AttachFind(u) \/ DownStop(u)
  <2>1. /\ UNCHANGED <<sessions_head, alive, attached>>
        /\ th[u].s \in Range(sessions_head)
    BY <1>0, <1>5 DEF AttachFind, DownStop, contexts, UserListed, At, DownPlaces
  <2>2. CASE \E x : Moves(u, "attach_init", th[u].s, x, th[u].y, th[u].why, th[u].walk)
    BY <1>1, <2>1, <2>2
  <2>3. CASE \E x \in attached : Moves(u, "stop_lock", th[u].s, x, th[u].y, th[u].why, th[u].walk)
    BY <1>1, <2>1, <2>3
  <2>4. CASE {x \in attached : x[1] = th[u].s} = {} /\ Arrives(u, "down_free_secrets")
    <3>1. \A x \in attached : x[1] # th[u].s
      BY <2>4
    <3>2. QED
      BY <1>1, <2>1, <2>4, <3>1 DEF Arrives
  <2>5. QED
    BY <1>0, <1>2, <1>5, <2>1, <2>2, <2>3, <2>4, UserMoves
<1>6. CASE DownLock(u) \/ StopLock(u) \/ DownFreeSecrets(u)
  <2>1. /\ UNCHANGED <<sessions_head, alive, attached>>
        /\ th[u].s \in Range(sessions_head)
        /\ StopLock(u) => th[u].x \in attached
        /\ DownFreeSecrets(u) => \A z \in attached : z[1] # th[u].s
    BY <1>0, <1>6 DEF DownLock, StopLock, DownFreeSecrets, contexts, UserListed, At, DownPlaces
  <2>2. /\ DownLock(u) => Arrives(u, "down_stop")
        /\ StopLock(u) => Arrives(u, "stop_wait")
        /\ DownFreeSecrets(u) => Arrives(u, "down_unlink")
    BY <1>0, UserMoves
  <2>3. QED
    BY <1>1, <1>6, <2>1, <2>2 DEF Arrives
\* Sessions and streams come and go.
<1>7. ASSUME \A o \in Threads \ {u} : th'[o] = th[o],
             Range(sessions_head') \subseteq alive',
             \A x \in attached' : x[1] \in Range(sessions_head'),
             UserListed(u)', WalkListed(u)',
             \A v \in Users \ {u} : UserListed(v)',
             \A m \in Media : ~At(m, {"idle"}) => th[m].x \in attached',
             \/ Range(sessions_head) \subseteq Range(sessions_head')
             \/ \A t \in Threads : ~At(t, {"walk", "verify_walk"})
      PROVE  Listed'
  <2>1. \A m \in Media : MediaListed(m)'
    BY <1>0, <1>7, ThreadKinds DEF MediaListed, At
  <2>2. \A t \in Threads \ {u} : WalkListed(t)'
    BY <1>0, <1>7 DEF Listed, WalkListed, At
  <2>3. QED
    BY <1>7, <2>1, <2>2 DEF Listed
<1>8. \A v \in Users \ {u} : UserListed(v) /\ v \in Threads
  BY <1>0, ThreadKinds DEF Listed
<1>9. \A m \in Media : ~At(m, {"idle"}) => th[m].x \in attached
  BY <1>0 DEF Listed, MediaListed
<1>10. ASSUME NEW s \in Sessions, SessionInit(u, s) PROVE Listed'
  <2>1. /\ alive' = alive \cup {s} /\ s \notin alive /\ s \notin Range(sessions_head)
        /\ UNCHANGED <<sessions_head, attached>>
        /\ Moves(u, "list_add", s, NONE, NONE, NONE, <<>>)
    BY <1>0, <1>10, UserMoves DEF SessionInit, Listed
  <2>2. UserListed(u)' /\ WalkListed(u)'
    BY <2>1 DEF Moves, UserListed, WalkListed, At, DownPlaces
  <2>3. \A v \in Users \ {u} : UserListed(v)'
    BY <1>8, <2>1 DEF Moves, UserListed, At
  <2>4. QED
    BY <1>0, <1>7, <1>9, <2>1, <2>2, <2>3 DEF Moves, Listed
<1>11. CASE ListAdd(u)
  <2>1. At(u, Claiming) /\ At(u, {"list_add"})
    BY <1>11 DEF ListAdd, At, Claiming
  <2>2. /\ th[u].s \in alive /\ th[u].s \notin Range(sessions_head)
        /\ UNCHANGED <<alive, attached>> /\ Ends(u)
    BY <1>0, <1>11, <2>1, UserMoves DEF ListAdd, UserListed, At
  <2>3. Range(sessions_head') = {th[u].s} \cup Range(sessions_head)
    BY <1>0, <1>11, <2>1, <2>2, ClaimedAlone, AddedFirst DEF ListAdd, TypeOK, ListFits
  <2>4. \A v \in Users \ {u} : UserListed(v)'
    BY <1>8, <2>1, <2>2, <2>3, ClaimedAlone DEF Ends, Moves, UserListed, At
  <2>5. QED
    BY <1>0, <1>7, <1>9, <2>2, <2>3, <2>4, ListedWhenIdle DEF Ends, Moves, Listed
<1>12. CASE AttachInit(u)
  <2>1. /\ attached' = attached \cup {th[u].x} /\ UNCHANGED <<sessions_head, alive>> /\ Ends(u)
        /\ th[u].x[1] = th[u].s /\ th[u].s \in Range(sessions_head)
        /\ At(u, {"attach_init"})
    BY <1>0, <1>12, UserMoves DEF AttachInit, UserListed, UserFits, At
  <2>2. ASSUME NEW v \in Users \ {u} PROVE UserListed(v)'
    <3>1. At(v, Claiming) => th[u].s # th[v].s
      BY ClaimedAlone
    <3>2. At(v, {"down_free_secrets", "down_unlink", "down_free"}) => At(v, Claiming)
      BY DEF At, Claiming, DownPlaces
    <3>3. th'[v] = th[v]
      BY <1>8, <2>1 DEF Ends, Moves
    <3>4. QED
      BY <1>8, <2>1, <3>1, <3>2, <3>3 DEF UserListed, At
  <2>3. QED
    BY <1>0, <1>7, <1>9, <2>1, <2>2, ListedWhenIdle DEF Ends, Moves, Listed
<1>13. CASE StopWipe(u)
  <2>1. /\ attached' = attached \ {th[u].x} /\ UNCHANGED <<sessions_head, alive>>
        /\ Arrives(u, "down_stop")
        /\ th[u].x[1] = th[u].s /\ th[u].s \in Range(sessions_head)
        /\ At(u, Claiming)
    BY <1>0, <1>13, UserMoves DEF StopWipe, UserListed, UserFits, At, Claiming, DownPlaces
  <2>2. ASSUME NEW v \in Users \ {u} PROVE UserListed(v)'
    <3>1. th[u].s # th[v].s /\ th'[v] = th[v]
      BY <1>8, <2>1, ClaimedAlone DEF Arrives, Moves
    <3>2. At(v, {"stop_lock", "stop_wait"}) => th[v].x[1] = th[v].s
      BY <1>0 DEF ThreadsFit, UserFits, At
    <3>3. QED
      BY <1>8, <2>1, <3>1, <3>2 DEF UserListed, At
  <2>3. \A m \in Media : ~At(m, {"idle"}) => th[m].x \in attached'
    BY <1>9, <2>1, ClaimedAlone
  <2>4. UserListed(u)' /\ WalkListed(u)'
    BY <2>1 DEF Arrives, Moves, UserListed, WalkListed, At, DownPlaces
  <2>5. QED
    BY <1>0, <1>7, <2>1, <2>2, <2>3, <2>4 DEF Arrives, Moves, Listed
<1>14. CASE DownUnlink(u)
  <2>1. /\ At(u, Claiming) /\ th[u].s \in Range(sessions_head) /\ UNCHANGED <<alive, attached>>
        /\ \A x \in attached : x[1] # th[u].s
        /\ Arrives(u, "down_free")
    BY <1>0, <1>14, UserMoves DEF DownUnlink, UserListed, At, Claiming, DownPlaces
  <2>2. Range(sessions_head') = Range(sessions_head) \ {th[u].s}
    <3>1. /\ PlaceOf(th[u].s) \in DOMAIN sessions_head
          /\ sessions_head[PlaceOf(th[u].s)] = th[u].s
      BY <2>1 DEF Range, PlaceOf
    <3>2. QED
      BY <1>0, <1>14, <3>1, RemovedOnce DEF DownUnlink, TypeOK, ListFits
  <2>3. \A t \in Threads : ~At(t, {"walk", "verify_walk"})
    <3>1. owner[SessionsProtector] = NONE
      BY <1>0, <1>14, WantsValues DEF DownUnlink, Free, At
    <3>2. QED
      BY <3>1, ThreadKinds DEF SessionsInv, MutexesFit, Holds, At
  <2>4. ASSUME NEW v \in Users \ {u} PROVE UserListed(v)'
    <3>1. th[u].s # th[v].s /\ th'[v] = th[v]
      BY <1>8, <2>1, ClaimedAlone DEF Arrives, Moves
    <3>2. QED
      BY <1>8, <2>1, <2>2, <3>1 DEF UserListed, At
  <2>5. UserListed(u)' /\ WalkListed(u)'
    BY <1>0, <2>1, <2>2 DEF Arrives, Moves, UserListed, WalkListed, At, DownPlaces, Listed
  <2>6. QED
    BY <1>0, <1>7, <1>9, <2>1, <2>2, <2>3, <2>4, <2>5 DEF Arrives, Moves, Listed
<1>15. CASE DownFree(u)
  <2>1. /\ At(u, Claiming) /\ th[u].s \notin Range(sessions_head)
        /\ alive' = alive \ {th[u].s} /\ UNCHANGED <<sessions_head, attached>> /\ Ends(u)
    BY <1>0, <1>15, UserMoves DEF DownFree, UserListed, At, Claiming, DownPlaces
  <2>2. ASSUME NEW v \in Users \ {u} PROVE UserListed(v)'
    <3>1. th[u].s # th[v].s /\ th'[v] = th[v]
      BY <1>8, <2>1, ClaimedAlone DEF Ends, Moves
    <3>2. QED
      BY <1>8, <2>1, <3>1 DEF UserListed, At
  <2>3. QED
    BY <1>0, <1>7, <1>9, <2>1, <2>2, ListedWhenIdle DEF Ends, Moves, Listed
<1>16. QED
  BY <1>3, <1>4, <1>5, <1>6, <1>10, <1>11, <1>12, <1>13, <1>14, <1>15 DEF UserStep

LEMMA MediaListedNext ==
    ASSUME SessionsInv, NEW m \in Media, MediaStep(m)
    PROVE  Listed'
<1>0. /\ ThreadsFit /\ TypeOK /\ m \in Threads /\ m \notin Users /\ MediaListed(m)
      /\ UNCHANGED <<sessions_head, alive, attached>>
  BY ThreadKinds
     DEF SessionsInv, ThreadsFit, Listed, MediaStep, Message, MessageLock, Prepare, contexts
<1>1. ASSUME NEW pc \in {"message", "prepare", "verify", "start", "walk_lock"},
             NEW s, NEW x \in attached, NEW y, NEW why, NEW walk,
             Moves(m, pc, s, x, y, why, walk)
      PROVE  Listed'
  <2>1. MediaListed(m)' /\ WalkListed(m)'
    BY <1>0, <1>1 DEF Moves, MediaListed, WalkListed, At
  <2>2. QED
    BY <1>0, <1>1, <2>1, ListedKept DEF Moves
<1>2. ASSUME NEW x \in Streams, Message(m, x) PROVE Listed'
  BY <1>0, <1>1, <1>2, MediaMoves DEF Message
<1>3. CASE MessageLock(m)
  <2>1. th[m].x \in attached
    BY <1>0, <1>3 DEF MessageLock, At, MediaListed
  <2>2. QED
    BY <1>0, <1>1, <1>3, <2>1, MediaMoves
<1>4. CASE Prepare(m)
  BY <1>0, <1>4, MediaMoves, ListedKept, ListedWhenIdle DEF Ends, Moves
<1>5. QED
  BY <1>2, <1>3, <1>4 DEF MediaStep

LEMMA OtherListedNext ==
    ASSUME SessionsInv,
           \/ \E t \in Threads : Walk(t)
           \/ \E y \in Streams : SchedPop(y)
           \/ DhLock \/ DhEnd
    PROVE  Listed'
<1>0. /\ ThreadsFit /\ TypeOK /\ Listed /\ SCHED \in Threads /\ SCHED \notin Users
      /\ SCHED \notin Media
      /\ UNCHANGED <<sessions_head, alive, attached>>
  BY ThreadKinds
     DEF SessionsInv, Walk, VerifyLock, VerifySession, VerifyEnd, StartLock, WalkLock, WalkSession,
         WalkEnd, StartDenied, StartAccepted, CommitDenied, CommitAccepted, Respond, SchedPop,
         DhLock, DhEnd, contexts
<1>1. ASSUME NEW t \in Threads, Walk(t) PROVE Listed'
  <2> DEFINE r == th[t]
  <2>0. /\ t \in Users => UserFits(r)
        /\ t \in Media => MediaListed(t)
        /\ WalkListed(t) /\ r \in Records
    BY <1>0 DEF ThreadsFit, Listed
  <2>1. r.pc \in {"verify", "verify_walk", "start", "walk_lock", "walk", "denied", "accepted",
                  "respond"}
    BY <1>1
       DEF Walk, VerifyLock, VerifySession, VerifyEnd, StartLock, WalkLock, WalkSession, WalkEnd,
           StartDenied, StartAccepted, CommitDenied, CommitAccepted, Respond, At
\* The walk is the list, the rest of the walk before or of no account.
  <2>2. ASSUME NEW pc, NEW y, NEW why, NEW walk, Moves(t, pc, r.s, r.x, y, why, walk),
               t \in Users => pc = "verify_walk",
               pc \in {"walk", "verify_walk"} => Range(walk) \subseteq Range(sessions_head)
        PROVE  Listed'
    <3>1. t \in Users => UserListed(t)'
      BY <2>2 DEF Moves, UserListed, At, DownPlaces
    <3>2. t \in Media => MediaListed(t)'
      BY <1>0, <2>0, <2>1, <2>2 DEF Moves, MediaListed, At
    <3>3. WalkListed(t)'
      BY <1>0, <2>2 DEF Moves, WalkListed, At
    <3>4. QED
      BY <1>0, <2>2, <3>1, <3>2, <3>3, ListedKept DEF Moves
  <2>3. t \in Users => r.pc \in {"verify", "verify_walk"}
    BY <2>0, <2>1 DEF UserFits, UserPlaces, DownPlaces
  <2>4. CASE Ends(t)
    BY <1>0, <2>4, ListedKept, ListedWhenIdle DEF Ends, Moves
  <2>5. CASE Returns(t)
    BY <1>0, <2>2, <2>4, <2>5 DEF Returns, Arrives
  <2>6. CASE VerifyLock(t) \/ WalkLock(t)
    <3>1. \E pc \in {"verify_walk", "walk"} :
             /\ pc = "verify_walk" \/ r.pc = "walk_lock"
             /\ Moves(t, pc, r.s, r.x, r.y, r.why, sessions_head)
      BY <1>0, <2>6, WalkMoves DEF WalkLock, At
    <3>2. QED
      BY <2>2, <2>3, <3>1
  <2>7. CASE VerifySession(t) \/ WalkSession(t)
    <3>1. r.pc \in {"verify_walk", "walk"} /\ r.walk # <<>>
      BY <2>7 DEF VerifySession, WalkSession, At
    <3>2. Range(Tail(r.walk)) \subseteq Range(sessions_head)
      BY <2>0, <3>1, TailOfWalk DEF WalkListed, At, Records
    <3>3. \/ Moves(t, "verify_walk", r.s, r.x, r.y, r.why, Tail(r.walk))
          \/ r.pc = "walk" /\ Moves(t, "denied", r.s, r.x, r.y, r.why, <<>>)
          \/ r.pc = "walk" /\ Moves(t, "walk", r.s, r.x, r.y, r.why, Tail(r.walk))
      BY <1>0, <2>7, WalkMoves DEF WalkSession, At
    <3>4. QED
      BY <2>2, <2>3, <3>2, <3>3
  <2>8. CASE ~VerifyLock(t) /\ ~WalkLock(t) /\ ~VerifySession(t) /\ ~WalkSession(t)
             /\ ~VerifyEnd(t) /\ ~Returns(t)
    <3>1. r.pc \in {"start", "walk", "denied", "accepted", "respond"}
      BY <1>0, <1>1, <2>8, WalkMoves
         DEF Walk, StartLock, WalkEnd, StartDenied, StartAccepted, CommitDenied, CommitAccepted,
             Respond, At
    <3>2. \/ \E pc \in {"walk_lock", "accepted", "respond"} : Arrives(t, pc)
          \/ Moves(t, "start", r.s, r.x, concurrent[r.y], "start", r.walk)
      BY <1>0, <1>1, <2>8, WalkMoves DEF Walk
    <3>3. t \notin Users
      BY <2>3, <3>1
    <3>4. QED
      BY <2>2, <3>2, <3>3 DEF Arrives
  <2>9. QED
    BY <1>0, <2>4, <2>5, <2>6, <2>7, <2>8, WalkMoves
<1>2. ASSUME (\E y \in Streams : SchedPop(y)) \/ DhLock \/ DhEnd PROVE Listed'
  <2>1. CASE UNCHANGED th
    BY <1>0, <2>1 DEF Listed, UserListed, MediaListed, WalkListed, At
  <2>2. CASE ~UNCHANGED th
    <3>1. \E pc \in {"walk_lock", "dh_end", "dh_lock", "idle"} : th'[SCHED].pc = pc
      BY <1>0, <1>2, <2>2, SchedMoves DEF Moves, Arrives, Ends
    <3>2. \A o \in Threads \ {SCHED} : th'[o] = th[o]
      BY <1>0, <1>2, <2>2, SchedMoves DEF Moves, Arrives, Ends
    <3>3. WalkListed(SCHED)'
      BY <3>1 DEF WalkListed, At
    <3>4. QED
      BY <1>0, <3>2, <3>3, ListedKept
  <2>3. QED
    BY <2>1, <2>2
<1>3. QED
  BY <1>1, <1>2

-----------------------------------------------------------------------------
(* The dh task, the walks of those who resume, and concurrent.             *)

LEMMA TaskNext ==
    ASSUME SessionsInv, Next
    PROVE  TaskFits'
<1>0. /\ ThreadsFit /\ TypeOK /\ TaskFits /\ SCHED \in Threads /\ SCHED \notin Users
      /\ SCHED \notin Media /\ SchedFits(th[SCHED])
  BY ThreadKinds DEF SessionsInv, ThreadsFit
<1>1. ASSUME UNCHANGED busy, th'[SCHED].x = th[SCHED].x, attached \subseteq attached'
      PROVE  TaskFits'
  BY <1>0, <1>1 DEF TaskFits
<1>2. ASSUME NEW u \in Users, UserStep(u) PROVE TaskFits'
  <2>1. u \in Threads /\ u # SCHED
    BY ThreadKinds
  <2>2. th'[SCHED] = th[SCHED]
    BY <1>0, <1>2, <2>1, UserMoves DEF UserStep, Moves, Arrives, Ends
  <2>3. UNCHANGED busy
    BY <1>2
       DEF UserStep, SessionInit, StreamAttach, SessionDown, ListAdd, AttachFind, AttachInit,
           DownLock, DownStop, StopLock, StopWipe, DownFreeSecrets, DownUnlink, DownFree,
           UserVerifies, tasks
  <2>4. CASE StopWipe(u)
    BY <1>0, <2>2, <2>3, <2>4 DEF StopWipe, TaskFits
  <2>5. CASE ~StopWipe(u)
    <3>1. attached \subseteq attached'
      BY <1>2, <2>5
         DEF UserStep, SessionInit, StreamAttach, SessionDown, ListAdd, AttachFind, AttachInit,
             DownLock, DownStop, StopLock, DownFreeSecrets, DownUnlink, DownFree,
             UserVerifies, contexts
    <3>2. QED
      BY <1>1, <2>2, <2>3, <3>1
  <2>6. QED
    BY <2>4, <2>5
<1>3. ASSUME NEW m \in Media, MediaStep(m) PROVE TaskFits'
  <2>1. m \in Threads /\ m # SCHED
    BY ThreadKinds
  <2>2. th'[SCHED] = th[SCHED]
    BY <1>0, <1>3, <2>1, MediaMoves DEF MediaStep, Moves, Ends
  <2>3. UNCHANGED <<busy, attached>>
    BY <1>3 DEF MediaStep, Message, MessageLock, Prepare, contexts, tasks
  <2>4. QED
    BY <1>1, <2>2, <2>3
<1>4. ASSUME NEW y \in Streams, SchedPop(y) PROVE TaskFits'
  <2>1. UNCHANGED attached /\ y \in attached
    BY <1>4 DEF SchedPop, contexts
  <2>2. CASE UNCHANGED <<busy, th>>
    BY <1>1, <2>1, <2>2
  <2>3. CASE busy' = y /\ Moves(SCHED, "dh_lock", NONE, y, y, "retry", <<>>)
    BY <2>1, <2>3 DEF TaskFits, Moves
  <2>4. QED
    BY <1>0, <1>4, <2>2, <2>3, SchedMoves
<1>5. CASE DhLock
  <2>1. th'[SCHED].x = th[SCHED].x
    BY <1>0, <1>5, SchedMoves DEF Moves, Arrives
  <2>2. UNCHANGED <<busy, attached>>
    BY <1>5 DEF DhLock, contexts, tasks
  <2>3. QED
    BY <1>1, <2>1, <2>2
<1>6. CASE DhEnd
  BY <1>0, <1>6, SchedMoves DEF DhEnd, TaskFits, Ends, Moves
<1>7. ASSUME NEW t \in Threads, Walk(t) PROVE TaskFits'
  <2>1. UNCHANGED <<busy, attached>>
    BY <1>7
       DEF Walk, VerifyLock, VerifySession, VerifyEnd, StartLock, WalkLock, WalkSession, WalkEnd,
           StartDenied, StartAccepted, CommitDenied, CommitAccepted, Respond, contexts, tasks
  <2>2. CASE t # SCHED
    <3>1. th'[SCHED] = th[SCHED]
      BY <1>0, <1>7, <2>2, WalkMoves DEF Walk, Moves, Arrives, Ends, Returns
    <3>2. QED
      BY <1>1, <2>1, <3>1
  <2>3. CASE t = SCHED
    <3>1. ~VerifyEnd(t)
      BY <1>0, <2>3 DEF VerifyEnd, At, SchedFits, SchedPlaces, StartPlaces
    <3>2. th'[t].x = th[t].x
      BY <1>0, <1>7, <2>3, <3>1, WalkMoves DEF Walk, Moves, Arrives, Returns
    <3>3. QED
      BY <1>1, <2>1, <2>3, <3>2
  <2>4. QED
    BY <2>2, <2>3
<1>8. QED
  BY <1>2, <1>3, <1>4, <1>5, <1>6, <1>7 DEF Next

LEMMA MeetsKept ==
    ASSUME SessionsInv, NEW t \in Threads, \A o \in Threads \ {t} : th'[o] = th[o],
           th'[t].pc = "walk" /\ th'[t].y # th'[t].x => th'[t].x[1] \in Range(th'[t].walk)
    PROVE  Meets'
  BY DEF SessionsInv, Meets, At, Resumed

LEMMA MeetsNext ==
    ASSUME SessionsInv, Next
    PROVE  Meets'
<1>0. ThreadsFit /\ TypeOK /\ SCHED \in Threads
  BY ThreadKinds DEF SessionsInv
<1>1. ASSUME NEW t \in Threads, NEW pc, NEW s, NEW x, NEW y, NEW why, NEW walk,
             Moves(t, pc, s, x, y, why, walk), pc # "walk"
      PROVE  Meets'
  BY <1>1, MeetsKept DEF Moves
<1>2. ASSUME NEW u \in Users, UserStep(u) PROVE Meets'
  <2>1. u \in Threads
    BY ThreadKinds
  <2>2. th'[u].pc # "walk" /\ \A o \in Threads \ {u} : th'[o] = th[o]
    BY <1>0, <1>2, <2>1, UserMoves DEF UserStep, Moves, Arrives, Ends
  <2>3. QED
    BY <2>1, <2>2, MeetsKept
<1>3. ASSUME NEW m \in Media, MediaStep(m) PROVE Meets'
  <2>1. m \in Threads
    BY ThreadKinds
  <2>2. th'[m].pc # "walk" /\ \A o \in Threads \ {m} : th'[o] = th[o]
    BY <1>0, <1>3, <2>1, MediaMoves DEF MediaStep, Moves, Arrives, Ends
  <2>3. QED
    BY <2>1, <2>2, MeetsKept
<1>4. ASSUME (\E y \in Streams : SchedPop(y)) \/ DhLock \/ DhEnd PROVE Meets'
  <2>1. CASE UNCHANGED th
    BY <2>1 DEF SessionsInv, Meets, At, Resumed
  <2>2. CASE ~UNCHANGED th
    <3>1. th'[SCHED].pc # "walk" /\ \A o \in Threads \ {SCHED} : th'[o] = th[o]
      BY <1>0, <1>4, <2>2, SchedMoves DEF Moves, Arrives, Ends
    <3>2. QED
      BY <1>0, <3>1, MeetsKept
  <2>3. QED
    BY <2>1, <2>2
<1>5. ASSUME NEW t \in Threads, Walk(t) PROVE Meets'
  <2> DEFINE r == th[t]
  <2>1. CASE WalkLock(t)
    <3>1. r.pc = "walk_lock" /\ Moves(t, "walk", r.s, r.x, r.y, r.why, sessions_head)
      BY <1>0, <2>1, WalkMoves DEF WalkLock, At
    <3>2. r.x \in attached
      <4>1. CASE t \in Media
        BY <3>1, <4>1 DEF SessionsInv, Listed, MediaListed, At
      <4>2. CASE t \in Users
        BY <1>0, <3>1, <4>2 DEF ThreadsFit, UserFits, UserPlaces, DownPlaces
      <4>3. CASE t = SCHED
        <5>1. r.x \in Streams
          BY <1>0, <3>1, <4>3 DEF ThreadsFit, SchedFits
        <5>2. QED
          BY <4>3, <5>1, ThreadKinds DEF SessionsInv, TaskFits
      <4>4. QED
        BY <4>1, <4>2, <4>3, ThreadKinds
    <3>3. r.x[1] \in Range(sessions_head)
      BY <3>2 DEF SessionsInv, Listed
    <3>4. QED
      BY <3>1, <3>3, MeetsKept DEF Moves
  <2>2. CASE WalkSession(t)
    <3>1. r.pc = "walk" /\ r.walk # <<>> /\ r.walk \in Seq(Sessions)
      BY <1>0, <2>2 DEF WalkSession, At, TypeOK, Records
    <3>2. CASE Moves(t, "denied", r.s, r.x, r.y, r.why, <<>>)
      BY <1>1, <3>2
    <3>3. CASE /\ Moves(t, "walk", r.s, r.x, r.y, r.why, Tail(r.walk))
               /\ ~Moves(t, "denied", r.s, r.x, r.y, r.why, <<>>)
      <4>1. ~Resumed(t) \/ r.x \notin Others(Head(r.walk), r.y)
        <5>1. CASE th' = [th EXCEPT ![t].pc = "denied", ![t].walk = <<>>]
          BY <1>0, <3>3, <5>1 DEF Moves, TypeOK, Records
        <5>2. QED
          BY <2>2, <5>1 DEF WalkSession
      <4>2. ASSUME r.y # r.x PROVE r.x[1] \in Range(Tail(r.walk))
        <5>1. r.x[1] \in Range(r.walk)
          BY <3>1, <4>2 DEF SessionsInv, Meets, Resumed, At
        <5>2. r.x \in attached
          <6>1. CASE t \in Media
            BY <3>1, <6>1 DEF SessionsInv, Listed, MediaListed, At
          <6>2. CASE t \in Users
            BY <1>0, <3>1, <6>2 DEF ThreadsFit, UserFits, UserPlaces, DownPlaces
          <6>3. CASE t = SCHED
            <7>1. r.x \in Streams
              BY <1>0, <3>1, <6>3 DEF ThreadsFit, SchedFits
            <7>2. QED
              BY <6>3, <7>1, ThreadKinds DEF SessionsInv, TaskFits
          <6>4. QED
            BY <6>1, <6>2, <6>3, ThreadKinds
        <5>3. r.x[1] # Head(r.walk)
          BY <4>1, <4>2, <5>2 DEF Resumed, Others
        <5>4. QED
          BY <3>1, <5>1, <5>3, TailOfWalk
      <4>3. QED
        BY <3>3, <4>2, MeetsKept DEF Moves
    <3>4. QED
      BY <1>0, <2>2, <3>2, <3>3, WalkMoves
  <2>3. CASE ~WalkLock(t) /\ ~WalkSession(t)
    <3>1. th'[t].pc # "walk" /\ \A o \in Threads \ {t} : th'[o] = th[o]
      BY <1>0, <1>5, <2>3, WalkMoves DEF Walk, Moves, Arrives, Ends, Returns
    <3>2. QED
      BY <3>1, MeetsKept
  <2>4. QED
    BY <2>1, <2>2, <2>3
<1>6. QED
  BY <1>2, <1>3, <1>4, <1>5 DEF Next

LEMMA UndisturbedNext ==
    ASSUME SessionsInv, Next
    PROVE  Undisturbed'
<1>0. /\ ThreadsFit /\ TypeOK /\ MutexesFit /\ Undisturbed /\ SCHED \in Threads
      /\ concurrent \in [Streams -> Streams \cup {NONE}]
      /\ \A t \in Threads : At(t, {"accepted"}) => th[t].y \in Streams
  BY ThreadKinds DEF SessionsInv, TypeOK, ThreadsFit, StartFits, StartPlaces, At
\* concurrent is left alone or cleared, and no start is accepted.
<1>1. ASSUME NEW t \in Threads, \A o \in Threads \ {t} : th'[o] = th[o],
             th'[t].pc # "accepted",
             \A x \in Streams : concurrent'[x] \in {concurrent[x], NONE}
      PROVE  Undisturbed'
  BY <1>0, <1>1 DEF Undisturbed, At
<1>2. ASSUME NEW u \in Users, UserStep(u) PROVE Undisturbed'
  <2>1. u \in Threads
    BY ThreadKinds
  <2>2. th'[u].pc # "accepted" /\ \A o \in Threads \ {u} : th'[o] = th[o]
    BY <1>0, <1>2, <2>1, UserMoves DEF UserStep, Moves, Arrives, Ends
  <2>3. \A x \in Streams : concurrent'[x] \in {concurrent[x], NONE}
    BY <1>0, <1>2
       DEF UserStep, SessionInit, StreamAttach, SessionDown, ListAdd, AttachFind, AttachInit,
           DownLock, DownStop, StopLock, StopWipe, DownFreeSecrets, DownUnlink, DownFree,
           UserVerifies
  <2>4. QED
    BY <1>1, <2>1, <2>2, <2>3
<1>3. ASSUME NEW m \in Media, MediaStep(m) PROVE Undisturbed'
  <2>1. m \in Threads
    BY ThreadKinds
  <2>2. th'[m].pc # "accepted" /\ \A o \in Threads \ {m} : th'[o] = th[o]
    BY <1>0, <1>3, <2>1, MediaMoves DEF MediaStep, Moves, Arrives, Ends
  <2>3. UNCHANGED concurrent
    BY <1>3 DEF MediaStep, Message, MessageLock, Prepare
  <2>4. QED
    BY <1>1, <2>1, <2>2, <2>3
<1>4. ASSUME (\E y \in Streams : SchedPop(y)) \/ DhLock \/ DhEnd PROVE Undisturbed'
  <2>1. UNCHANGED concurrent
    BY <1>4 DEF SchedPop, DhLock, DhEnd
  <2>2. CASE UNCHANGED th
    BY <1>0, <2>1, <2>2 DEF Undisturbed, At
  <2>3. CASE ~UNCHANGED th
    <3>1. th'[SCHED].pc # "accepted" /\ \A o \in Threads \ {SCHED} : th'[o] = th[o]
      BY <1>0, <1>4, <2>3, SchedMoves DEF Moves, Arrives, Ends
    <3>2. QED
      BY <1>0, <1>1, <2>1, <3>1
  <2>4. QED
    BY <2>2, <2>3
<1>5. ASSUME NEW t \in Threads, Walk(t) PROVE Undisturbed'
  <2> DEFINE r == th[t]
  <2>0. \A o \in Threads \ {t} : th'[o] = th[o]
    BY <1>0, <1>5, WalkMoves DEF Walk, Moves, Arrives, Ends, Returns
  <2>1. CASE WalkEnd(t)
    <3>1. concurrent' = [concurrent EXCEPT ![r.y] = NONE] /\ Arrives(t, "accepted")
      BY <1>0, <2>1, WalkMoves DEF WalkEnd, NoConcurrent
    <3>2. r.y \in Streams
      BY <1>0, <2>1 DEF WalkEnd, At, ThreadsFit, StartFits, StartPlaces
    <3>3. th'[t].y = r.y
      BY <3>1 DEF Arrives, Moves
    <3>4. QED
      BY <1>0, <2>0, <3>1, <3>2, <3>3 DEF Undisturbed, At
  <2>2. CASE WalkSession(t)
    <3>1. r.pc = "walk" /\ r.y \in Streams /\ r.why # NONE /\ (r.why # "start" => r.y = r.x)
      BY <1>0, <2>2 DEF WalkSession, At, ThreadsFit, StartFits, StartPlaces
    <3>2. th'[t].pc # "accepted"
      BY <1>0, <2>2, WalkMoves DEF Moves
    <3>3. t \notin Users
      BY <1>0, <3>1 DEF ThreadsFit, UserFits, UserPlaces, DownPlaces
\* The one whose start was accepted has the mutex that t has, too.
    <3>4. ASSUME NEW o \in Threads \ {t}, th[o].pc = "accepted", th[o].why = "start"
          PROVE  th[o].y # r.y
      <4>1. /\ th[o].y \in Streams /\ th[o].y = th[o].x /\ th[o].y[1] \in Sessions
        BY <1>0, <3>4, ThreadKinds DEF ThreadsFit, StartFits, At
      <4>2. o \notin Users
        BY <1>0, <3>4 DEF ThreadsFit, UserFits, UserPlaces, DownPlaces
      <4>3. /\ owner[InitProtector(th[o].y[1])] = o
            /\ owner[StreamProtector(th[o].x)] = o
        BY <1>0, <3>4, <4>1, <4>2 DEF MutexesFit, Holds, HandlerPlaces, StartPlaces
      <4>4. CASE r.why = "start"
        <5>1. ASSUME r.y = th[o].y PROVE FALSE
          <6>1. owner[InitProtector(r.y[1])] = t
            BY <1>0, <3>1, <4>1, <4>4, <5>1 DEF MutexesFit, Holds
          <6>2. QED
            BY <4>3, <5>1, <6>1
        <5>2. QED
          BY <5>1
      <4>5. CASE r.why # "start"
        <5>1. ASSUME r.y = th[o].y PROVE FALSE
          <6>1. owner[StreamProtector(r.x)] = t
            BY <1>0, <3>1, <3>3, <4>5 DEF MutexesFit, Holds, HandlerPlaces, StartPlaces
          <6>2. QED
            BY <3>1, <4>1, <4>3, <4>5, <5>1, <6>1
        <5>2. QED
          BY <5>1
      <4>6. QED
        BY <4>4, <4>5
    <3>5. \A x \in Streams \ {r.y} : concurrent'[x] = concurrent[x]
      BY <1>0, <2>2, <3>1 DEF WalkSession
    <3>6. QED
      BY <1>0, <2>0, <3>2, <3>4, <3>5 DEF Undisturbed, At
  <2>3. CASE ~WalkEnd(t) /\ ~WalkSession(t)
    <3>1. th'[t].pc # "accepted"
      BY <1>0, <1>5, <2>3, WalkMoves DEF Walk, Moves, Arrives, Ends, Returns
    <3>2. \A x \in Streams : concurrent'[x] \in {concurrent[x], NONE}
      BY <1>0, <1>5, <2>3
         DEF Walk, VerifyLock, VerifySession, VerifyEnd, StartLock, WalkLock, StartDenied,
             StartAccepted, CommitDenied, CommitAccepted, Respond
    <3>3. QED
      BY <1>1, <2>0, <3>1, <3>2
  <2>4. QED
    BY <2>1, <2>2, <2>3
<1>6. QED
  BY <1>2, <1>3, <1>4, <1>5 DEF Next

-----------------------------------------------------------------------------
(* The theorems.                                                           *)

LEMMA SessionsInit ==
    ASSUME Init
    PROVE  SessionsInv
<1>1. /\ \A t \in Threads : th[t] = Idle
      /\ \A m \in Mutexes : owner[m] = NONE
  BY DEF Init
<1>2. DOMAIN <<>> = {} /\ <<>> \in Seq(Sessions) /\ Range(<<>>) = {}
  BY EmptySeq DEF Range
<1>3. TypeOK
  BY <1>2, IdleFields DEF Init, TypeOK, Records
<1>4. ThreadsFit
  <2>1. "idle" \in UserPlaces /\ "idle" \in MediaPlaces /\ "idle" \in SchedPlaces
    BY DEF UserPlaces, MediaPlaces, SchedPlaces
  <2>2. UserFits(Idle) /\ MediaFits(Idle) /\ SchedFits(Idle) /\ StartFits(Idle)
    BY <2>1, IdleFields, ThreadKinds
       DEF UserFits, MediaFits, SchedFits, StartFits, DownPlaces, StartPlaces
  <2>3. QED
    BY <1>1, <2>2, IdleFields, ThreadKinds DEF ThreadsFit
<1>5. MutexesFit
  BY <1>1, IdleFields, MutexKinds, ThreadKinds
     DEF MutexesFit, Holds, HandlerPlaces, StartPlaces
<1>6. Alone /\ Meets /\ Undisturbed
  BY <1>1, IdleFields, ThreadKinds DEF Alone, Meets, Undisturbed, At, DownPlaces
<1>7. Listed
  BY <1>1, <1>2, IdleFields, ThreadKinds
     DEF Init, Listed, UserListed, MediaListed, WalkListed, At, DownPlaces
<1>8. TaskFits
  BY <1>1, IdleFields, ThreadKinds DEF Init, TaskFits
<1>9. QED
  BY <1>3, <1>4, <1>5, <1>6, <1>7, <1>8 DEF SessionsInv

LEMMA SessionsNext ==
    ASSUME SessionsInv, [Next]_vars
    PROVE  SessionsInv'
<1>1. CASE UNCHANGED vars
  <2>1. UNCHANGED <<sessions_head, alive, secrets, attached, concurrent, enabled, queue, busy,
                    owner, th>>
    BY <1>1 DEF vars, contexts, tasks
  <2>2. TypeOK' /\ ThreadsFit' /\ MutexesFit'
    BY <2>1 DEF SessionsInv, TypeOK, ThreadsFit, MutexesFit, Holds
  <2>3. Alone' /\ TaskFits' /\ Meets' /\ Undisturbed'
    BY <2>1 DEF SessionsInv, Alone, TaskFits, Meets, Undisturbed, At, Resumed
  <2>4. Listed'
    BY <2>1 DEF SessionsInv, Listed, UserListed, MediaListed, WalkListed, At
  <2>5. QED
    BY <2>2, <2>3, <2>4 DEF SessionsInv
<1>2. CASE Next
  <2>1. TypeOK'
    BY <1>2, UserTypes, OtherTypes, WalkTypes DEF Next
  <2>2. ThreadsFit'
    BY <1>2, UserThreads, MediaThreads, SchedThreads, WalkThreads DEF Next
  <2>3. MutexesFit'
    BY <1>2, UserMutexes, MediaMutexes, SchedMutexes, WalkMutexes DEF Next
  <2>4. Listed'
    BY <1>2, UserListedNext, MediaListedNext, OtherListedNext DEF Next
  <2>5. QED
    BY <1>2, <2>1, <2>2, <2>3, <2>4, AloneNext, TaskNext, MeetsNext, UndisturbedNext
       DEF SessionsInv
<1>3. QED
  BY <1>1, <1>2

(* The mutexes a thread holds are those of its place, threads that close a *)
(* session are alone with it (include/zrtp.h:484), and what a walk has     *)
(* still to visit is in the list.                                          *)
THEOREM SessionsInvariant == Spec => []SessionsInv
<1>1. SessionsInv /\ [Next]_vars => SessionsInv'
  BY SessionsNext
<1>2. Init => SessionsInv
  BY SessionsInit
<1>3. QED
  BY <1>1, <1>2, PTL DEF Spec

(* The types of all contexts, mutexes and threads; zrtp_session_init puts  *)
(* no session into the list that is in it already.                         *)
THEOREM TypesAlwaysOK == Spec => []TypeOK
<1>1. SessionsInv => TypeOK
  BY DEF SessionsInv
<1>2. QED
  BY <1>1, SessionsInvariant, PTL

(* However many sessions are made and closed meanwhile, a walk of          *)
(* _zrtp_can_start_stream or zrtp_verified_set over sessions_head meets    *)
(* only sessions whose memory exists.                                      *)
THEOREM WalksMeetLive == Spec => []WalkMeetsLive
<1>1. SessionsInv => WalkMeetsLive
  <2> SUFFICES ASSUME SessionsInv, NEW t \in Threads, At(t, {"walk", "verify_walk"})
               PROVE  Range(th[t].walk) \subseteq alive
    BY DEF WalkMeetsLive
  <2>1. QED
    BY DEF SessionsInv, Listed, WalkListed
<1>2. QED
  BY <1>1, SessionsInvariant, PTL

\* Where the holder of a mutex is.
LEMMA Holders ==
    ASSUME SessionsInv, NEW o \in Threads
    PROVE  LET pc == th[o].pc
           IN  /\ owner[SessionsProtector] = o => pc \in {"walk", "verify_walk"}
               /\ \A s \in Sessions : owner[StreamsProtector(s)] = o =>
                      /\ pc \in {"down_stop", "stop_lock", "stop_wait"} /\ o \in Users
                      /\ th[o].s = s
               /\ \A s \in Sessions : owner[InitProtector(s)] = o =>
                      pc \in {"walk_lock", "walk", "denied", "accepted", "dh_end"}
               /\ \A x \in Streams : owner[StreamProtector(x)] = o =>
                      /\ \/ o \in Users /\ pc = "stop_wait"
                         \/ o \notin Users /\ pc \in HandlerPlaces
                      /\ th[o].x = x
<1>1. Holds(o)
  BY DEF SessionsInv, MutexesFit
<1>2. o \in Media => th[o].pc \in MediaPlaces
  BY DEF SessionsInv, ThreadsFit, MediaFits
<1>3. o = SCHED => th[o].pc \in SchedPlaces
  BY DEF SessionsInv, ThreadsFit, SchedFits
<1>4. th[o].pc \in {"down_stop", "stop_lock", "stop_wait"} => o \in Users
  BY <1>2, <1>3, ThreadKinds DEF MediaPlaces, SchedPlaces, StartPlaces
<1>5. QED
  BY <1>1, <1>4 DEF Holds

\* A jam goes on along the order of the mutexes, stream_protector,
\* init_protector, sessions_protector, streams_protector, to a thread that
\* closes a session.
LEMMA JamEnds ==
    ASSUME SessionsInv, NEW ts \in SUBSET Threads, Jammed(ts)
    PROVE  /\ SCHED \in ts /\ busy # NONE
           /\ \E u \in ts : th[u].s = busy[1] /\ At(u, {"stop_lock", "stop_wait"})
<1> DEFINE Goal == /\ SCHED \in ts /\ busy # NONE
                   /\ \E u \in ts : th[u].s = busy[1] /\ At(u, {"stop_lock", "stop_wait"})
<1>0. /\ ThreadsFit /\ TypeOK /\ \A t \in ts : t \in Threads /\ Blocker(t) \in ts
      /\ NONE \notin ts /\ ts # {}
  BY ThreadKinds DEF SessionsInv, Jammed
\* Whom a blocked thread waits for.
<1>1. ASSUME NEW t \in ts
      PROVE  \/ th[t].pc = "stop_wait" /\ busy = th[t].x /\ SCHED \in ts
             \/ th[t].pc # "stop_wait" /\ Wants(t) # NONE /\ owner[Wants(t)] \in ts
  BY <1>0 DEF Blocker, At
<1>2. ASSUME NEW u \in ts, u \in Users, th[u].pc = "stop_wait"
      PROVE  Goal
  <2>1. busy = th[u].x /\ SCHED \in ts
    BY <1>1, <1>2
  <2>2. th[u].x \in Streams /\ th[u].x[1] = th[u].s
    BY <1>0, <1>2 DEF ThreadsFit, UserFits
  <2>3. QED
    BY <1>2, <2>1, <2>2, ThreadKinds DEF At
<1>3. ASSUME NEW u \in ts, u \in Users, th[u].pc = "stop_lock"
      PROVE  Goal
  <2>1. th[u].x \in Streams /\ th[u].x[1] = th[u].s /\ u \in Threads
    BY <1>0, <1>3 DEF ThreadsFit, UserFits
  <2>2. Wants(u) = StreamProtector(th[u].x)
    BY <1>3, <2>1, WantsValues
  <2>3. PICK o \in ts : owner[StreamProtector(th[u].x)] = o
    BY <1>1, <1>3, <2>2
  <2>4. /\ o \in Threads /\ th[o].x = th[u].x
        /\ \/ o \in Users /\ th[o].pc = "stop_wait"
           \/ o \notin Users /\ th[o].pc \in HandlerPlaces
    BY <1>0, <2>1, <2>3, Holders
  <2>5. CASE o \in Users
    BY <1>2, <2>4, <2>5
  <2>6. CASE o \in Media
    <3>1. At(u, Claiming)
      BY <1>3 DEF At, Claiming, DownPlaces
    <3>2. ~At(o, {"idle"})
      BY <2>4, <2>6, ThreadKinds DEF At, HandlerPlaces, StartPlaces
    <3>3. QED
      BY <1>3, <2>1, <2>4, <2>6, <3>1, <3>2, ClaimedAlone
  <2>7. CASE o = SCHED
    <3>1. busy = th[u].x
      BY <2>4, <2>7 DEF SessionsInv, TaskFits
    <3>2. QED
      BY <1>3, <2>1, <2>3, <2>7, <3>1, ThreadKinds DEF At
  <2>8. QED
    BY <2>4, <2>5, <2>6, <2>7, ThreadKinds
\* Who waits for streams_protector.
<1>4. ASSUME NEW t \in ts, NEW s \in Sessions, Wants(t) = StreamsProtector(s), th[t].pc # "stop_wait"
      PROVE  Goal
  <2>1. PICK o \in ts : owner[StreamsProtector(s)] = o
    BY <1>1, <1>4
  <2>2. /\ o \in Threads /\ o \in Users /\ th[o].s = s
        /\ th[o].pc \in {"down_stop", "stop_lock", "stop_wait"}
    BY <1>0, <2>1, Holders
  <2>3. th[o].pc # "down_stop"
    BY <1>1, <2>1, <2>2, WantsValues
  <2>4. QED
    BY <1>2, <1>3, <2>2, <2>3
<1>5. ASSUME NEW t \in ts, th[t].pc = "walk" PROVE Goal
  <2>1. t \in Threads /\ th[t].walk \in Seq(Sessions)
    BY <1>0 DEF TypeOK
  <2>2. th[t].walk # <<>>
    BY <1>1, <1>5, <2>1, WantsValues
  <2>3. /\ Wants(t) = StreamsProtector(Head(th[t].walk))
        /\ Head(th[t].walk) \in Sessions
    BY <1>5, <2>1, <2>2, WantsValues, TailOfWalk
  <2>4. QED
    BY <1>4, <1>5, <2>3
<1>6. ASSUME NEW t \in ts, Wants(t) = SessionsProtector, th[t].pc # "stop_wait"
      PROVE  Goal
  <2>1. PICK o \in ts : owner[SessionsProtector] = o
    BY <1>1, <1>6
  <2>2. o \in Threads /\ th[o].pc \in {"walk", "verify_walk"}
    BY <1>0, <2>1, Holders
  <2>3. th[o].pc # "verify_walk"
    BY <1>1, <2>1, <2>2, WantsValues
  <2>4. QED
    BY <1>5, <2>2, <2>3
<1>7. ASSUME NEW t \in ts, th[t].pc \in {"prepare", "verify", "walk_lock", "attach", "down",
                                         "list_add", "down_unlink"}
      PROVE  Goal
  <2>1. t \in Threads
    BY <1>0
  <2>2. CASE th[t].pc \in {"prepare", "attach", "down"}
    <3>1. Wants(t) = StreamsProtector(th[t].s)
      BY <2>1, <2>2, WantsValues
    <3>2. th[t].s \in Sessions
      <4>1. CASE t \in Users
        BY <1>0, <2>2, <4>1 DEF ThreadsFit, UserFits, DownPlaces, UserPlaces
      <4>2. CASE t \in Media
        BY <1>0, <2>2, <4>2, ThreadKinds DEF ThreadsFit, MediaFits
      <4>3. CASE t = SCHED
        BY <1>0, <2>2, <4>3 DEF ThreadsFit, SchedFits, SchedPlaces, StartPlaces
      <4>4. QED
        BY <2>1, <4>1, <4>2, <4>3, ThreadKinds
    <3>3. QED
      BY <1>4, <2>2, <3>1, <3>2
  <2>3. CASE th[t].pc \in {"verify", "walk_lock", "list_add", "down_unlink"}
    <3>1. Wants(t) = SessionsProtector
      BY <2>1, <2>3, WantsValues
    <3>2. QED
      BY <1>6, <2>3, <3>1
  <2>4. QED
    BY <1>7, <2>2, <2>3
\* Who waits for init_protector.
<1>8. ASSUME NEW t \in ts, th[t].pc = "start" PROVE Goal
  <2>1. t \in Threads /\ th[t].y[1] \in Sessions
    BY <1>0, <1>8, ThreadKinds DEF ThreadsFit, StartFits, StartPlaces
  <2>2. Wants(t) = InitProtector(th[t].y[1])
    BY <1>8, <2>1, WantsValues
  <2>3. PICK o \in ts : owner[InitProtector(th[t].y[1])] = o
    BY <1>1, <1>8, <2>2
  <2>4. o \in Threads /\ th[o].pc \in {"walk_lock", "walk", "denied", "accepted", "dh_end"}
    BY <1>0, <2>1, <2>3, Holders
  <2>5. th[o].pc \notin {"denied", "accepted", "dh_end"}
    BY <1>1, <2>3, <2>4, WantsValues
  <2>6. QED
    BY <1>5, <1>7, <2>4, <2>5
\* Who waits for stream_protector.
<1>9. ASSUME NEW t \in ts, th[t].pc \in {"message", "dh_lock"} PROVE Goal
  <2>1. t \in Threads /\ th[t].x \in Streams
    <3>1. t \in Threads /\ t \notin Users
      BY <1>0, <1>9 DEF ThreadsFit, UserFits, UserPlaces, DownPlaces
    <3>2. QED
      BY <1>0, <1>9, <3>1, ThreadKinds DEF ThreadsFit, MediaFits, SchedFits
  <2>2. Wants(t) = StreamProtector(th[t].x)
    BY <1>9, <2>1, WantsValues
  <2>3. PICK o \in ts : owner[StreamProtector(th[t].x)] = o
    BY <1>1, <1>9, <2>2
  <2>4. /\ o \in Threads
        /\ \/ o \in Users /\ th[o].pc = "stop_wait"
           \/ th[o].pc \in HandlerPlaces
    BY <1>0, <2>1, <2>3, Holders
  <2>5. CASE th[o].pc \in HandlerPlaces
    <3>1. th[o].pc \notin {"verify_walk", "dh_end", "denied", "accepted", "respond"}
      BY <1>1, <2>3, <2>4, WantsValues
    <3>2. th[o].pc \in {"prepare", "verify", "start", "walk_lock", "walk"}
      BY <2>5, <3>1 DEF HandlerPlaces, StartPlaces
    <3>3. QED
      BY <1>5, <1>7, <1>8, <2>3, <3>2
  <2>6. QED
    BY <1>2, <2>3, <2>4, <2>5
<1>10. PICK t \in ts : TRUE
  BY <1>0
<1>11. t \in Threads /\ th[t].pc \in Places
  BY <1>0 DEF TypeOK
<1>12. th[t].pc \notin {"idle", "attach_init", "down_stop", "down_free_secrets", "down_free",
                        "verify_walk", "dh_end", "denied", "accepted", "respond"}
  BY <1>1, <1>10, <1>11, WantsValues
<1>13. th[t].pc \in {"stop_lock", "stop_wait"} => t \in Users
  <2>1. t \in Media => th[t].pc \in MediaPlaces
    BY <1>0 DEF ThreadsFit, MediaFits
  <2>2. t = SCHED => th[t].pc \in SchedPlaces
    BY <1>0 DEF ThreadsFit, SchedFits
  <2>3. QED
    BY <1>11, <2>1, <2>2, ThreadKinds DEF MediaPlaces, SchedPlaces, StartPlaces
<1>14. QED
  BY <1>2, <1>3, <1>5, <1>7, <1>8, <1>9, <1>10, <1>11, <1>12, <1>13 DEF Places

(* Whatever the sessions, streams and threads, the only ring in which      *)
(* threads wait for each other for ever is that of zrtp_session_down with  *)
(* the dh task in progress of a stream of its session (src/zrtp.c,         *)
(* _zrtp_can_start_stream).                                                *)
THEOREM JamsNeedDown == Spec => []JamsOnlyInDown
<1>1. SessionsInv => JamsOnlyInDown
  BY JamEnds DEF JamsOnlyInDown
<1>2. QED
  BY <1>1, SessionsInvariant, PTL

-----------------------------------------------------------------------------
(* Secrets that a walk may meet.                                           *)

\* Between the free of its secrets and the end of its unlink a session is in
\* the list without them (zrtp_session_down, src/zrtp.c:400).
Undressed(s) == \E u \in Users : th[u].s = s /\ At(u, {"down_unlink"})

SecretsFit ==
    /\ \A s \in Range(sessions_head) : s \in secrets \/ Undressed(s)
    /\ \A u \in Users : At(u, {"list_add"}) => th[u].s \in secrets

LEMMA SecretsKept ==
    ASSUME SecretsFit, UNCHANGED <<sessions_head, secrets>>, NEW t \in Threads,
           \A o \in Threads \ {t} : th'[o] = th[o],
           t \in Users => th[t].pc # "down_unlink" /\ th'[t].pc # "list_add"
    PROVE  SecretsFit'
<1>1. ASSUME NEW s \in Range(sessions_head), s \notin secrets PROVE Undressed(s)'
  <2>1. PICK u \in Users : th[u].s = s /\ th[u].pc = "down_unlink"
    BY <1>1 DEF SecretsFit, Undressed, At
  <2>2. th'[u] = th[u]
    BY <2>1, ThreadKinds
  <2>3. QED
    BY <2>1, <2>2 DEF Undressed, At
<1>2. ASSUME NEW u \in Users, At(u, {"list_add"})' PROVE th'[u].s \in secrets
  <2>1. u # t
    BY <1>2 DEF At
  <2>2. th'[u] = th[u]
    BY <2>1, ThreadKinds
  <2>3. QED
    BY <1>2, <2>2 DEF SecretsFit, At
<1>3. QED
  BY <1>1, <1>2 DEF SecretsFit

LEMMA UserSecretsNext ==
    ASSUME SessionsInv, SecretsFit, NEW u \in Users, UserStep(u)
    PROVE  SecretsFit'
<1>0. ThreadsFit /\ TypeOK /\ u \in Threads /\ UserListed(u)
  BY ThreadKinds DEF SessionsInv, Listed
<1>1. ASSUME UNCHANGED <<sessions_head, secrets>>, th[u].pc # "down_unlink",
             NEW pc, pc # "list_add", NEW s, NEW x, NEW y, NEW why, NEW walk,
             Moves(u, pc, s, x, y, why, walk)
      PROVE  SecretsFit'
  BY <1>0, <1>1, SecretsKept DEF Moves
<1>2. ASSUME NEW s \in Sessions, StreamAttach(u, s) \/ SessionDown(u, s) PROVE SecretsFit'
  <2>1. UNCHANGED <<sessions_head, secrets>> /\ th[u].pc # "down_unlink"
    BY <1>2 DEF StreamAttach, SessionDown, contexts, At
  <2>2. \E pc \in {"attach", "down"} : Moves(u, pc, s, NONE, NONE, NONE, <<>>)
    BY <1>0, <1>2, UserMoves
  <2>3. QED
    BY <1>1, <2>1, <2>2
<1>3. CASE AttachInit(u) \/ DownFree(u) \/ AttachFind(u) \/ DownStop(u)
  <2>1. UNCHANGED <<sessions_head, secrets>> /\ th[u].pc # "down_unlink"
    BY <1>3 DEF AttachInit, DownFree, AttachFind, DownStop, contexts, At
  <2>2. \E pc \in {"idle", "attach_init", "stop_lock", "down_free_secrets"} :
            \E s, x, y, why, walk : Moves(u, pc, s, x, y, why, walk)
    BY <1>0, <1>3, UserMoves DEF Ends, Arrives
  <2>3. QED
    BY <1>1, <2>1, <2>2
<1>4. CASE DownLock(u) \/ StopLock(u) \/ StopWipe(u) \/ UserVerifies(u)
  <2>1. UNCHANGED <<sessions_head, secrets>> /\ th[u].pc # "down_unlink"
    BY <1>4 DEF DownLock, StopLock, StopWipe, UserVerifies, contexts, At
  <2>2. \E pc \in {"down_stop", "stop_wait", "verify"} :
            \E s, x, y, why, walk : Moves(u, pc, s, x, y, why, walk)
    BY <1>0, <1>4, UserMoves DEF Arrives
  <2>3. QED
    BY <1>1, <2>1, <2>2
<1>5. ASSUME NEW s \in Sessions, SessionInit(u, s) PROVE SecretsFit'
  <2>1. /\ secrets' = secrets \cup {s} /\ UNCHANGED sessions_head /\ th[u].pc = "idle"
        /\ Moves(u, "list_add", s, NONE, NONE, NONE, <<>>)
    BY <1>0, <1>5, UserMoves DEF SessionInit, At
  <2>2. ASSUME NEW r \in Range(sessions_head), r \notin secrets PROVE Undressed(r)'
    <3>1. PICK v \in Users : th[v].s = r /\ th[v].pc = "down_unlink"
      BY <2>2 DEF SecretsFit, Undressed, At
    <3>2. th'[v] = th[v]
      BY <2>1, <3>1, ThreadKinds DEF Moves
    <3>3. QED
      BY <3>1, <3>2 DEF Undressed, At
  <2>3. ASSUME NEW v \in Users, At(v, {"list_add"})' PROVE th'[v].s \in secrets'
    <3>1. CASE v = u
      BY <2>1, <3>1 DEF Moves
    <3>2. CASE v # u
      <4>1. th'[v] = th[v]
        BY <2>1, <3>2, ThreadKinds DEF Moves
      <4>2. QED
        BY <2>1, <2>3, <4>1 DEF SecretsFit, At
    <3>3. QED
      BY <3>1, <3>2
  <2>4. QED
    BY <2>1, <2>2, <2>3 DEF SecretsFit
<1>6. CASE ListAdd(u)
  <2>1. /\ UNCHANGED secrets /\ th[u].pc = "list_add" /\ th[u].s \in secrets
        /\ th[u].s \notin Range(sessions_head) /\ Ends(u)
    BY <1>0, <1>6, UserMoves DEF ListAdd, SecretsFit, UserListed, At
  <2>2. Range(sessions_head') = {th[u].s} \cup Range(sessions_head)
    <3>1. At(u, Claiming)
      BY <2>1 DEF At, Claiming
    <3>2. th[u].s \in Sessions
      BY <3>1, ClaimedAlone
    <3>3. QED
      BY <1>0, <1>6, <2>1, <3>2, AddedFirst DEF ListAdd, TypeOK, ListFits
  <2>3. ASSUME NEW r \in Range(sessions_head), r \notin secrets PROVE Undressed(r)'
    <3>1. PICK v \in Users : th[v].s = r /\ th[v].pc = "down_unlink"
      BY <2>3 DEF SecretsFit, Undressed, At
    <3>2. th'[v] = th[v]
      BY <2>1, <3>1, ThreadKinds DEF Ends, Moves
    <3>3. QED
      BY <3>1, <3>2 DEF Undressed, At
  <2>4. ASSUME NEW v \in Users, At(v, {"list_add"})' PROVE th'[v].s \in secrets
    <3>1. v # u
      BY <2>1, <2>4 DEF Ends, Moves, At
    <3>2. th'[v] = th[v]
      BY <2>1, <3>1, ThreadKinds DEF Ends, Moves
    <3>3. QED
      BY <2>4, <3>2 DEF SecretsFit, At
  <2>5. ASSUME NEW r \in Range(sessions_head') PROVE r \in secrets' \/ Undressed(r)'
    <3>1. r = th[u].s \/ r \in Range(sessions_head)
      BY <2>2
    <3>2. QED
      BY <2>1, <2>3, <3>1
  <2>6. QED
    BY <2>1, <2>4, <2>5 DEF SecretsFit
\* The session whose secrets go is from now on in the hands of down_unlink.
<1>7. CASE DownFreeSecrets(u)
  <2>1. /\ secrets' = secrets \ {th[u].s} /\ UNCHANGED sessions_head
        /\ th[u].pc = "down_free_secrets" /\ Arrives(u, "down_unlink")
    BY <1>0, <1>7, UserMoves DEF DownFreeSecrets, At
  <2>2. ASSUME NEW r, r = th[u].s PROVE Undressed(r)'
    <3>1. th'[u].pc = "down_unlink" /\ th'[u].s = th[u].s
      BY <2>1 DEF Arrives, Moves
    <3>2. QED
      BY <2>2, <3>1 DEF Undressed, At
  <2>3. ASSUME NEW r \in Range(sessions_head), r \notin secrets PROVE Undressed(r)'
    <3>1. PICK v \in Users : th[v].s = r /\ th[v].pc = "down_unlink"
      BY <2>3 DEF SecretsFit, Undressed, At
    <3>2. th'[v] = th[v]
      BY <2>1, <3>1, ThreadKinds DEF Arrives, Moves
    <3>3. QED
      BY <3>1, <3>2 DEF Undressed, At
  <2>4. ASSUME NEW v \in Users, At(v, {"list_add"})' PROVE th'[v].s \in secrets'
    <3>1. v # u
      BY <2>1, <2>4 DEF Arrives, Moves, At
    <3>2. th'[v] = th[v]
      BY <2>1, <3>1, ThreadKinds DEF Arrives, Moves
    <3>3. th[v].s \in secrets
      BY <2>4, <3>2 DEF SecretsFit, At
    <3>4. th[v].s # th[u].s
      <4>1. At(u, Claiming)
        BY <2>1 DEF At, Claiming, DownPlaces
      <4>2. QED
        BY <3>1, <4>1, ClaimedAlone
    <3>5. QED
      BY <2>1, <3>2, <3>3, <3>4
  <2>5. ASSUME NEW r \in Range(sessions_head') PROVE r \in secrets' \/ Undressed(r)'
    <3>1. CASE r = th[u].s
      BY <2>2, <3>1
    <3>2. CASE r # th[u].s
      BY <2>1, <2>3, <2>5, <3>2
    <3>3. QED
      BY <3>1, <3>2
  <2>6. QED
    BY <2>4, <2>5 DEF SecretsFit
<1>8. CASE DownUnlink(u)
  <2>1. /\ UNCHANGED secrets /\ th[u].pc = "down_unlink" /\ Arrives(u, "down_free")
        /\ th[u].s \in Range(sessions_head)
    BY <1>0, <1>8, UserMoves DEF DownUnlink, UserListed, At, DownPlaces
  <2>2. Range(sessions_head') = Range(sessions_head) \ {th[u].s}
    <3>1. /\ PlaceOf(th[u].s) \in DOMAIN sessions_head
          /\ sessions_head[PlaceOf(th[u].s)] = th[u].s
      BY <2>1 DEF Range, PlaceOf
    <3>2. QED
      BY <1>0, <1>8, <3>1, RemovedOnce DEF DownUnlink, TypeOK, ListFits
  <2>3. ASSUME NEW r \in Range(sessions_head), r # th[u].s, r \notin secrets PROVE Undressed(r)'
    <3>1. PICK v \in Users : th[v].s = r /\ th[v].pc = "down_unlink"
      BY <2>3 DEF SecretsFit, Undressed, At
    <3>2. th'[v] = th[v]
      BY <2>1, <2>3, <3>1, ThreadKinds DEF Arrives, Moves
    <3>3. QED
      BY <3>1, <3>2 DEF Undressed, At
  <2>4. ASSUME NEW v \in Users, At(v, {"list_add"})' PROVE th'[v].s \in secrets
    <3>1. v # u
      BY <2>1, <2>4 DEF Arrives, Moves, At
    <3>2. th'[v] = th[v]
      BY <2>1, <3>1, ThreadKinds DEF Arrives, Moves
    <3>3. QED
      BY <2>4, <3>2 DEF SecretsFit, At
  <2>5. QED
    BY <2>1, <2>2, <2>3, <2>4 DEF SecretsFit
<1>9. QED
  BY <1>2, <1>3, <1>4, <1>5, <1>6, <1>7, <1>8 DEF UserStep

LEMMA SecretsNext ==
    ASSUME SessionsInv, SecretsFit, [Next]_vars
    PROVE  SecretsFit'
<1>0. ThreadsFit /\ TypeOK
  BY DEF SessionsInv
<1>1. CASE UNCHANGED vars
  <2>1. UNCHANGED <<sessions_head, secrets, th>>
    BY <1>1 DEF vars, contexts
  <2>2. QED
    BY <2>1 DEF SecretsFit, Undressed, At
<1>2. ASSUME NEW m \in Media, MediaStep(m) PROVE SecretsFit'
  <2>1. UNCHANGED <<sessions_head, secrets>>
    BY <1>2 DEF MediaStep, Message, MessageLock, Prepare, contexts
  <2>2. \A o \in Threads \ {m} : th'[o] = th[o]
    BY <1>0, <1>2, MediaMoves DEF MediaStep, Moves, Ends
  <2>3. QED
    BY <2>1, <2>2, SecretsKept, ThreadKinds
<1>3. CASE (\E y \in Streams : SchedPop(y)) \/ DhLock \/ DhEnd
  <2>1. UNCHANGED <<sessions_head, secrets>>
    BY <1>3 DEF SchedPop, DhLock, DhEnd, contexts
  <2>2. \A o \in Threads \ {SCHED} : th'[o] = th[o]
    BY <1>0, <1>3, SchedMoves DEF Arrives, Moves, Ends
  <2>3. QED
    BY <2>1, <2>2, SecretsKept, ThreadKinds
<1>4. ASSUME NEW t \in Threads, Walk(t) PROVE SecretsFit'
  <2>1. UNCHANGED <<sessions_head, secrets>>
    BY <1>4 DEF Walk, VerifyLock, VerifySession, VerifyEnd, StartLock, WalkLock, WalkSession,
                WalkEnd, StartDenied, StartAccepted, CommitDenied, CommitAccepted, Respond,
                contexts
  <2>2. th[t].pc # "down_unlink"
    BY <1>4 DEF Walk, VerifyLock, VerifySession, VerifyEnd, StartLock, WalkLock, WalkSession,
                WalkEnd, StartDenied, StartAccepted, CommitDenied, CommitAccepted, Respond, At
  <2>3. \E pc \in {"idle", "verify_walk", "walk_lock", "walk", "denied", "accepted", "respond",
                   "start", "dh_end"} :
            \E s, x, y, why, walk : Moves(t, pc, s, x, y, why, walk)
    <3>1. \/ Ends(t)
          \/ \E pc \in {"walk_lock", "accepted", "respond", "dh_end"} : Arrives(t, pc)
          \/ \E pc \in {"verify_walk", "walk", "denied"} :
                \/ Moves(t, pc, th[t].s, th[t].x, th[t].y, th[t].why, sessions_head)
                \/ Moves(t, pc, th[t].s, th[t].x, th[t].y, th[t].why, Tail(th[t].walk))
                \/ Moves(t, pc, th[t].s, th[t].x, th[t].y, th[t].why, <<>>)
          \/ Moves(t, "start", th[t].s, th[t].x, concurrent[th[t].y], "start", th[t].walk)
      BY <1>0, <1>4, WalkMoves DEF Walk, Returns
    <3>2. QED
      BY <3>1 DEF Ends, Arrives
  <2>4. (\A o \in Threads \ {t} : th'[o] = th[o]) /\ th'[t].pc # "list_add"
    BY <2>3 DEF Moves
  <2>5. QED
    BY <2>1, <2>2, <2>4, SecretsKept
<1>5. QED
  BY <1>1, <1>2, <1>3, <1>4, UserSecretsNext DEF Next

(* zrtp_verified_set may meet a session that has lost its secrets          *)
(* (SecretsHeld does not hold), but only one: whose zrtp_session_down is   *)
(* waiting for the sessions_protector the walk holds, to take the session  *)
(* off the list.                                                           *)
SecretsHeldUntilUnlink ==
    \A t \in Threads : At(t, {"verify_walk"}) /\ th[t].walk # <<>> =>
        \/ Head(th[t].walk) \in secrets
        \/ \E u \in Users : /\ th[u].s = Head(th[t].walk) /\ At(u, {"down_unlink"})
                            /\ Blocker(u) = t

(* For any sessions and threads: sessions get their secrets before they are *)
(* put into the list and lose them in zrtp_session_down only.               *)
THEOREM SecretsGoBeforeUnlink == Spec => []SecretsHeldUntilUnlink
<1>1. SessionsInv /\ SecretsFit => SecretsHeldUntilUnlink
  <2> SUFFICES ASSUME SessionsInv, SecretsFit, NEW t \in Threads,
                      At(t, {"verify_walk"}), th[t].walk # <<>>, Head(th[t].walk) \notin secrets
               PROVE  \E u \in Users : /\ th[u].s = Head(th[t].walk) /\ At(u, {"down_unlink"})
                                       /\ Blocker(u) = t
    BY DEF SecretsHeldUntilUnlink
  <2>1. Head(th[t].walk) \in Range(sessions_head)
    <3>1. th[t].walk \in Seq(Sessions)
      BY DEF SessionsInv, ThreadsFit, Records
    <3>2. Head(th[t].walk) = th[t].walk[1] /\ 1 \in DOMAIN th[t].walk
      BY <3>1
    <3>3. Head(th[t].walk) \in Range(th[t].walk)
      BY <3>2 DEF Range
    <3>4. At(t, {"walk", "verify_walk"}) /\ WalkListed(t)
      BY DEF SessionsInv, Listed, At
    <3>5. QED
      BY <3>3, <3>4 DEF WalkListed
  <2>2. PICK u \in Users : th[u].s = Head(th[t].walk) /\ At(u, {"down_unlink"})
    BY <2>1 DEF SecretsFit, Undressed
  <2>3. owner[SessionsProtector] = t
    BY DEF SessionsInv, MutexesFit, Holds, At
  <2>4. Wants(u) = SessionsProtector
    BY <2>2, ThreadKinds, WantsValues DEF SessionsInv, At
  <2>5. Blocker(u) = t
    <3>1. ~At(u, {"stop_wait"})
      BY <2>2 DEF At
    <3>2. SessionsProtector # NONE
      BY MutexKinds, NoMutexAssumption
    <3>3. QED
      BY <2>3, <2>4, <3>1, <3>2 DEF Blocker
  <2>6. QED
    BY <2>2, <2>5
<1>2. Init => SecretsFit
  <2> SUFFICES ASSUME Init PROVE SecretsFit
    OBVIOUS
  <2>1. Range(<<>>) = {} /\ \A u \in Users : th[u].pc = "idle"
    BY IdleFields, ThreadKinds DEF Init, Range
  <2>2. QED
    BY <2>1 DEF Init, SecretsFit, At
<1>3. SessionsInv /\ SecretsFit /\ [Next]_vars => SecretsFit'
  BY SecretsNext
<1>4. SessionsInv /\ [Next]_vars => SessionsInv'
  BY SessionsNext
<1>5. Init => SessionsInv
  BY SessionsInit
<1>6. QED
  BY <1>1, <1>2, <1>3, <1>4, <1>5, PTL DEF Spec

=============================================================================
