----------------------- MODULE ZrtpScheduler_proofs -----------------------
(***************************************************************************)
(* Theorems about the scheduler of libzrtp, for any number of streams,     *)
(* tasks and queued calls.                                                 *)
(***************************************************************************)
EXTENDS ZrtpScheduler, SequenceTheorems, WellFoundedInduction, TLAPS

-----------------------------------------------------------------------------
(* Facts about the list operators.                                         *)

LEMMA MinIsLeast ==
    ASSUME NEW S \in SUBSET Nat, S # {}
    PROVE  Min(S) \in S /\ \A y \in S : Min(S) <= y
<1>1. \E x \in S : \A y \in S : ~ (<<y, x>> \in OpToRel(<, Nat))
  BY NatLessThanWellFounded, WFMin
<1>2. \E x \in S : \A y \in S : x <= y
  <2>1. PICK x \in S : \A y \in S : ~ (<<y, x>> \in OpToRel(<, Nat))
    BY <1>1
  <2>2. ASSUME NEW y \in S PROVE x <= y
    <3>1. ~ (<<y, x>> \in OpToRel(<, Nat))
      BY <2>1
    <3>2. ~ (y < x)
      BY <3>1 DEF OpToRel
    <3>3. x \in Nat /\ y \in Nat
      OBVIOUS
    <3>4. QED
      BY <3>2, <3>3
  <2>3. QED
    BY <2>2
<1>3. QED
  BY <1>2 DEF Min

LEMMA InsertAtProperties ==
    ASSUME NEW S, NEW s \in Seq(S), NEW i \in 1 .. Len(s) + 1, NEW e \in S
    PROVE  /\ InsertAt(s, i, e) \in Seq(S)
           /\ Len(InsertAt(s, i, e)) = Len(s) + 1
           /\ \A j \in 1 .. Len(s) + 1 : InsertAt(s, i, e)[j] =
                  IF j < i THEN s[j] ELSE IF j = i THEN e ELSE s[j - 1]
<1> DEFINE front == SubSeq(s, 1, i - 1)
           back  == SubSeq(s, i, Len(s))
<1>0. Len(s) \in Nat /\ i \in Nat /\ \A j \in 1 .. Len(s) : s[j] \in S
  BY LenProperties
<1>1. /\ front \in Seq(S) /\ Len(front) = i - 1
      /\ \A j \in 1 .. i - 1 : front[j] = s[j]
  <2>1. \A j \in 1 .. i - 1 : s[j] \in S
    BY <1>0
  <2>2. QED
    BY <1>0, <2>1, SubSeqProperties
<1>2. /\ back \in Seq(S) /\ Len(back) = Len(s) - i + 1
      /\ \A j \in 1 .. Len(s) - i + 1 : back[j] = s[i + j - 1]
  <2>1. \A j \in i .. Len(s) : s[j] \in S
    BY <1>0
  <2>2. QED
    BY <1>0, <2>1, SubSeqProperties
<1>3. <<e>> \in Seq(S) /\ Len(<<e>>) = 1 /\ <<e>>[1] = e
  OBVIOUS
<1>4. /\ front \o <<e>> \in Seq(S) /\ Len(front \o <<e>>) = i
      /\ \A j \in 1 .. i : (front \o <<e>>)[j] = IF j < i THEN s[j] ELSE e
  <2> HIDE DEF front
  <2>1. /\ front \o <<e>> \in Seq(S)
        /\ Len(front \o <<e>>) = Len(front) + Len(<<e>>)
        /\ \A j \in 1 .. Len(front) + Len(<<e>>) : (front \o <<e>>)[j] =
               IF j <= Len(front) THEN front[j] ELSE <<e>>[j - Len(front)]
    BY <1>1, <1>3, ConcatProperties
  <2>2. QED
    BY <2>1, <1>0, <1>1, <1>3
<1>5. QED
  <2> HIDE DEF front, back
  <2> DEFINE f == front \o <<e>>
  <2>0. f \in Seq(S) /\ Len(f) = i /\ \A j \in 1 .. i : f[j] = IF j < i THEN s[j] ELSE e
    BY <1>4
  <2> HIDE DEF f
  <2>1. /\ f \o back \in Seq(S)
        /\ Len(f \o back) = Len(f) + Len(back)
        /\ \A j \in 1 .. Len(f) + Len(back) : (f \o back)[j] =
               IF j <= Len(f) THEN f[j] ELSE back[j - Len(f)]
    BY <2>0, <1>2, ConcatProperties
  <2>2. InsertAt(s, i, e) = f \o back
    BY DEF InsertAt, f, front, back
  <2>3. QED
    BY <2>0, <2>1, <2>2, <1>0, <1>2

LEMMA RemoveAtProperties ==
    ASSUME NEW S, NEW s \in Seq(S), NEW i \in 1 .. Len(s)
    PROVE  /\ RemoveAt(s, i) \in Seq(S)
           /\ Len(RemoveAt(s, i)) = Len(s) - 1
           /\ \A j \in 1 .. Len(s) - 1 : RemoveAt(s, i)[j] =
                  IF j < i THEN s[j] ELSE s[j + 1]
<1> DEFINE front == SubSeq(s, 1, i - 1)
           back  == SubSeq(s, i + 1, Len(s))
<1>0. Len(s) \in Nat /\ i \in Nat /\ \A j \in 1 .. Len(s) : s[j] \in S
  BY LenProperties
<1>1. /\ front \in Seq(S) /\ Len(front) = i - 1
      /\ \A j \in 1 .. i - 1 : front[j] = s[j]
  <2>1. \A j \in 1 .. i - 1 : s[j] \in S
    BY <1>0
  <2>2. QED
    BY <1>0, <2>1, SubSeqProperties
<1>2. /\ back \in Seq(S) /\ Len(back) = Len(s) - i
      /\ \A j \in 1 .. Len(s) - i : back[j] = s[i + j]
  <2>1. \A j \in i + 1 .. Len(s) : s[j] \in S
    BY <1>0
  <2>2. QED
    BY <1>0, <2>1, SubSeqProperties
<1>3. QED
  <2> HIDE DEF front, back
  <2>1. /\ front \o back \in Seq(S)
        /\ Len(front \o back) = Len(front) + Len(back)
        /\ \A j \in 1 .. Len(front) + Len(back) : (front \o back)[j] =
               IF j <= Len(front) THEN front[j] ELSE back[j - Len(front)]
    BY <1>1, <1>2, ConcatProperties
  <2>2. RemoveAt(s, i) = front \o back
    BY DEF RemoveAt, front, back
  <2>3. Len(front) = i - 1 /\ Len(back) = Len(s) - i
    BY <1>1, <1>2
  <2>4. Len(front \o back) = Len(s) - 1
    BY <2>1, <2>3, <1>0
  <2>5. ASSUME NEW j \in 1 .. Len(s) - 1
        PROVE  (front \o back)[j] = IF j < i THEN s[j] ELSE s[j + 1]
    <3>1. CASE j < i
      BY <3>1, <2>1, <2>3, <1>0, <1>1
    <3>2. CASE ~(j < i)
      <4>0. /\ j \in 1 .. Len(front) + Len(back)
            /\ ~(j <= Len(front)) /\ j - Len(front) = j - (i - 1)
        BY <3>2, <2>3, <1>0
      <4>1. (front \o back)[j] = back[j - (i - 1)]
        BY <4>0, <2>1
      <4>2. j - (i - 1) \in 1 .. Len(s) - i /\ i + (j - (i - 1)) = j + 1
        BY <3>2, <1>0
      <4>3. QED
        BY <4>1, <4>2, <1>2, <3>2
    <3>3. QED
      BY <3>1, <3>2
  <2>6. QED
    BY <2>1, <2>2, <2>4, <2>5

LEMMA TickProperties ==
    ASSUME NEW s \in Seq(Entries)
    PROVE  LET t == [i \in 1 .. Len(s) |->
                        [s[i] EXCEPT !.wake_at = IF @ > 0 THEN @ - 1 ELSE 0]]
           IN  /\ t \in Seq(Entries)
               /\ Len(t) = Len(s)
               /\ \A i \in 1 .. Len(s) : /\ t[i].ctx = s[i].ctx
                                         /\ t[i].ztask = s[i].ztask
                                         /\ t[i].wake_at =
                                              IF s[i].wake_at > 0
                                              THEN s[i].wake_at - 1 ELSE 0
<1> DEFINE t == [i \in 1 .. Len(s) |->
                    [s[i] EXCEPT !.wake_at = IF @ > 0 THEN @ - 1 ELSE 0]]
<1>1. Len(s) \in Nat /\ \A i \in 1 .. Len(s) : s[i] \in Entries
  BY LenProperties
<1>2. \A i \in 1 .. Len(s) : /\ t[i] \in Entries
                              /\ t[i].ctx = s[i].ctx
                              /\ t[i].ztask = s[i].ztask
                              /\ t[i].wake_at = IF s[i].wake_at > 0
                                                 THEN s[i].wake_at - 1 ELSE 0
  BY <1>1 DEF Entries
<1>3. t \in Seq(Entries) /\ Len(t) = Len(s)
  <2> HIDE DEF t
  <2>1. t = [i \in 1 .. Len(s) |-> t[i]]
    BY DEF t
  <2>2. t \in [1 .. Len(s) -> Entries]
    BY <2>1, <1>2
  <2>3. QED
    BY <2>2, <1>1
<1>4. QED
  BY <1>2, <1>3

-----------------------------------------------------------------------------
(* Type correctness.  What sched_loop works on is a call while it has one, *)
(* and each thread stays at its own program points.                        *)

LoopHasCall == {"popped", "callback", "dh_lock", "dh", "dh_commit",
                "cancel", "scan", "ret"}

TypeInv ==
    /\ TypeOK
    /\ pc[LOOP] \in LoopPcs
    /\ \A s \in Streams : pc[s] \in ClientPcs
    /\ pc[LOOP] \in LoopHasCall => task2run \in Calls

LEMMA WaitOrderLength == Len(WaitOrder) = 8
BY DEF WaitOrder

LEMMA TypeInvInit == Init => TypeInv
<1> SUFFICES ASSUME Init PROVE TypeInv
  OBVIOUS
<1>1. tasks_head \in Seq(Entries) /\ count \in Nat
  BY EmptySeq DEF Init
<1>2. /\ protector \in Threads \cup {NONE}
      /\ stream_protector \in [Streams -> Threads \cup {NONE}]
      /\ is_enabled \in [Streams -> [Tasks -> BOOLEAN]]
      /\ is_busy \in [Streams -> [Tasks -> BOOLEAN]]
  BY DEF Init
<1>3. pc \in [Threads -> ClientPcs \cup LoopPcs]
  BY DEF Init, Threads, ClientPcs, LoopPcs
<1>4. /\ arg \in [Threads -> [ctx : Streams, ztask : Tasks \cup {NONE}] \cup {NONE}]
      /\ task2run \in Calls \cup {NONE}
  BY DEF Init
<1>5. /\ waited \in [Streams -> 0 .. Len(WaitOrder)]
      /\ is_running \in BOOLEAN /\ is_working \in BOOLEAN /\ down \in DownPcs
  <2>1. 0 \in 0 .. Len(WaitOrder)
    BY WaitOrderLength
  <2>2. QED
    BY <2>1 DEF Init, DownPcs
<1>6. /\ pc[LOOP] \in LoopPcs /\ pc[LOOP] \notin LoopHasCall
      /\ \A s \in Streams : pc[s] \in ClientPcs
  BY SchedulerAssumption DEF Init, Threads, LoopPcs, ClientPcs, LoopHasCall
<1>7. QED
  BY <1>1, <1>2, <1>3, <1>4, <1>5, <1>6 DEF TypeInv, TypeOK

LEMMA InsertPositionRange ==
    ASSUME TypeOK, NEW wake \in Nat
    PROVE  InsertPosition(wake) \in 1 .. Len(tasks_head) + 1
<1> DEFINE later == {i \in 1 .. Len(tasks_head) : tasks_head[i].wake_at >= wake}
<1>1. Len(tasks_head) \in Nat /\ later \in SUBSET Nat
  BY LenProperties DEF TypeOK
<1>2. CASE later = {}
  BY <1>1, <1>2 DEF InsertPosition
<1>3. CASE later # {}
  <2>1. Min(later) \in later
    BY <1>1, <1>3, MinIsLeast
  <2>2. QED
    BY <2>1, <1>1, <1>3 DEF InsertPosition
<1>4. QED
  BY <1>2, <1>3

(* What a call of on_call_later does to the list and to the semaphore. *)
LEMMA CallLaterStep ==
    ASSUME TypeOK, NEW c \in Calls, CallLater(c)
    PROVE  /\ tasks_head' \in Seq(Entries)
           /\ count' \in Nat
           /\ \/ Len(tasks_head') = Len(tasks_head) + 1 /\ count' = count + 1
              \/ tasks_head' = tasks_head /\ count' = count
<1>1. CASE UNCHANGED listVars
  BY <1>1 DEF listVars, TypeOK
<1>2. ASSUME NEW wake \in Delays, Insert(c, wake)
      PROVE  /\ tasks_head' \in Seq(Entries)
             /\ Len(tasks_head') = Len(tasks_head) + 1 /\ count' = count + 1
  <2>1. wake \in Nat /\ tasks_head \in Seq(Entries)
    BY SchedulerAssumption DEF TypeOK
  <2>2. [ctx |-> c.ctx, ztask |-> c.ztask, wake_at |-> wake] \in Entries
    BY <2>1 DEF Calls, Entries
  <2>3. InsertPosition(wake) \in 1 .. Len(tasks_head) + 1
    BY <2>1, InsertPositionRange
  <2>4. QED
    BY <1>2, <2>1, <2>2, <2>3, InsertAtProperties DEF Insert
<1>3. count \in Nat
  BY DEF TypeOK
<1>4. QED
  BY <1>1, <1>2, <1>3 DEF CallLater, listVars

(* What removing one entry does to the list and to the semaphore. *)
LEMMA RemoveStep ==
    ASSUME TypeOK, NEW th \in Threads, RemoveFirstEntry(th)
    PROVE  /\ tasks_head' \in Seq(Entries)
           /\ Len(tasks_head) \in Nat \ {0}
           /\ Len(tasks_head') = Len(tasks_head) - 1
           /\ count' = IF count > 0 THEN count - 1 ELSE 0
           /\ count' \in Nat
<1> DEFINE m == MatchingIndices(arg[th])
<1>1. Len(tasks_head) \in Nat /\ tasks_head \in Seq(Entries)
  BY LenProperties DEF TypeOK
<1>2. m \subseteq 1 .. Len(tasks_head) /\ m # {}
  BY DEF MatchingIndices, RemoveFirstEntry
<1>3. Min(m) \in m
  <2> HIDE DEF m
  <2> m \in SUBSET Nat
    BY <1>1, <1>2
  <2> QED
    BY <1>2, MinIsLeast
<1>4. Min(m) \in 1 .. Len(tasks_head)
  BY <1>2, <1>3
<1>5. tasks_head' = RemoveAt(tasks_head, Min(m))
      /\ count' = IF count > 0 THEN count - 1 ELSE 0
  BY DEF RemoveFirstEntry
<1>6. QED
  <2> HIDE DEF m
  <2> QED
    BY <1>1, <1>4, <1>5, RemoveAtProperties DEF TypeOK

(* Every step preserves the types. *)
LEMMA TypeInvNext == TypeInv /\ [Next]_vars => TypeInv'
<1> SUFFICES ASSUME TypeInv, [Next]_vars PROVE TypeInv'
  OBVIOUS
<1> USE DEF TypeInv, TypeOK, lifeVars, flagVars, listVars, LoopHasCall
<1>0. /\ TypeOK /\ LOOP \in Threads /\ LOOP \notin Streams
      /\ \A s \in Streams : s \in Threads /\ s # LOOP
      /\ \A s \in Streams, t \in Tasks : [ctx |-> s, ztask |-> t] \in Calls
  BY SchedulerAssumption DEF Threads, Calls
<1>1. ASSUME NEW s \in Streams, NEW t \in Tasks, StartTask(s, t)
      PROVE  TypeInv'
  <2>1. tasks_head' \in Seq(Entries) /\ count' \in Nat
    BY <1>0, <1>1, CallLaterStep DEF StartTask
  <2>2. is_enabled' \in [Streams -> [Tasks -> BOOLEAN]]
    BY <1>1 DEF StartTask
  <2>3. QED
    BY <1>1, <2>1, <2>2 DEF StartTask
<1>2. ASSUME NEW th \in Threads, NEW s \in Streams, NEW t \in Tasks \cup {NONE},
             NEW l \in {"cancel", "stop_cancel"},
             BeginCancel(th, s, t, l), l = "cancel" \/ th # LOOP,
             th = LOOP => task2run \in Calls,
             stream_protector' \in [Streams -> Threads \cup {NONE}]
      PROVE  TypeInv'
  <2>1. is_enabled' \in [Streams -> [Tasks -> BOOLEAN]]
    BY <1>2 DEF BeginCancel, Disable
  <2>2. arg' \in [Threads -> [ctx : Streams, ztask : Tasks \cup {NONE}] \cup {NONE}]
    BY <1>2 DEF BeginCancel
  <2>3. /\ pc' \in [Threads -> ClientPcs \cup LoopPcs]
        /\ pc'[LOOP] \in LoopPcs
        /\ \A u \in Streams : pc'[u] \in ClientPcs
    BY <1>0, <1>2 DEF BeginCancel, Goto, ClientPcs, LoopPcs
  <2>4. pc'[LOOP] \in LoopHasCall => task2run' \in Calls
    BY <1>0, <1>2 DEF BeginCancel, Goto
  <2>5. QED
    BY <1>2, <2>1, <2>2, <2>3, <2>4 DEF BeginCancel
<1>3. ASSUME NEW s \in Streams, NEW t \in Cancellable, ClientCancel(s, t)
      PROVE  TypeInv'
  <2>1. stream_protector' \in [Streams -> Threads \cup {NONE}]
    BY <1>0, <1>3 DEF ClientCancel
  <2>2. QED
    BY <1>0, <1>2, <1>3, <2>1 DEF ClientCancel, Cancellable
<1>4. ASSUME NEW s \in Streams, Stop(s)
      PROVE  TypeInv'
  <2>1. stream_protector' \in [Streams -> Threads \cup {NONE}]
    BY <1>0, <1>4 DEF Stop
  <2>2. QED
    BY <1>0, <1>2, <1>4, <2>1 DEF Stop
<1>5. ASSUME NEW s \in Streams, WaitNotBusy(s) \/ Wipe(s) \/ Attach(s)
      PROVE  TypeInv'
  <2>1. CASE WaitNotBusy(s)
    <3>1. waited[s] + 1 \in 0 .. Len(WaitOrder)
      BY <2>1, WaitOrderLength DEF WaitNotBusy
    <3>2. waited' \in [Streams -> 0 .. Len(WaitOrder)]
      BY <2>1, <3>1 DEF WaitNotBusy
    <3>3. QED
      BY <2>1, <3>2 DEF WaitNotBusy
  <2>2. CASE Wipe(s)
    <3>1. 0 \in 0 .. Len(WaitOrder)
      BY WaitOrderLength
    <3>2. waited' \in [Streams -> 0 .. Len(WaitOrder)]
      BY <2>2, <3>1 DEF Wipe
    <3>3. /\ stream_protector' \in [Streams -> Threads \cup {NONE}]
          /\ is_enabled' \in [Streams -> [Tasks -> BOOLEAN]]
          /\ is_busy' \in [Streams -> [Tasks -> BOOLEAN]]
      BY <2>2 DEF Wipe
    <3>4. /\ pc' \in [Threads -> ClientPcs \cup LoopPcs]
          /\ pc'[LOOP] = pc[LOOP]
          /\ \A u \in Streams : pc'[u] \in ClientPcs
      BY <1>0, <2>2 DEF Wipe, Goto, ClientPcs
    <3>5. QED
      BY <2>2, <3>2, <3>3, <3>4 DEF Wipe
  <2>3. CASE Attach(s)
    <3>1. /\ pc' \in [Threads -> ClientPcs \cup LoopPcs]
          /\ pc'[LOOP] = pc[LOOP]
          /\ \A u \in Streams : pc'[u] \in ClientPcs
      BY <1>0, <2>3 DEF Attach, Goto, ClientPcs
    <3>2. QED
      BY <2>3, <3>1 DEF Attach
  <2>4. QED
    BY <1>5, <2>1, <2>2, <2>3
<1>6. ASSUME NEW th \in Threads, CancelLock(th)
      PROVE  TypeInv'
  BY <1>0, <1>6 DEF CancelLock, Goto, ClientPcs, LoopPcs, Threads
<1>7. ASSUME NEW th \in Threads, CancelScan(th)
      PROVE  TypeInv'
  <2>1. ASSUME AfterCancel(th), pc[th] \in {"scan", "stop_scan"}
        PROVE  /\ protector' \in Threads \cup {NONE}
               /\ arg' \in [Threads -> [ctx : Streams, ztask : Tasks \cup {NONE}] \cup {NONE}]
               /\ stream_protector' \in [Streams -> Threads \cup {NONE}]
               /\ pc' \in [Threads -> ClientPcs \cup LoopPcs]
               /\ pc'[LOOP] \in LoopPcs /\ \A u \in Streams : pc'[u] \in ClientPcs
               /\ pc'[LOOP] \in LoopHasCall => pc[LOOP] \in LoopHasCall
    <3>1. /\ AfterScan(th) \in {"idle", "stop_wait", "ret", "dh_commit"}
          /\ th = LOOP <=> AfterScan(th) \in {"ret", "dh_commit"}
      BY DEF AfterScan
    <3>2. th = LOOP => pc[LOOP] \in LoopHasCall
      BY <2>1 DEF LoopPcs
    <3>3. QED
      BY <1>0, <2>1, <3>1, <3>2 DEF AfterCancel, Goto, ClientPcs, LoopPcs, Threads
  <2>2. CASE RemoveFirstEntry(th)
    <3>1. tasks_head' \in Seq(Entries) /\ count' \in Nat
      BY <1>0, <2>2, RemoveStep
    <3>2. QED
      BY <1>7, <2>1, <2>2, <3>1 DEF CancelScan
  <2>3. CASE AfterCancel(th) /\ UNCHANGED listVars
    BY <1>7, <2>1, <2>3 DEF CancelScan
  <2>4. QED
    BY <1>7, <2>2, <2>3 DEF CancelScan
<1>8. CASE LoopStart \/ LoopTop \/ SemWait \/ Repost
  <2>1. /\ pc' \in [Threads -> ClientPcs \cup LoopPcs]
        /\ pc'[LOOP] \in {"top", "sem_wait", "look", "exit"}
        /\ \A u \in Streams : pc'[u] = pc[u]
    BY <1>0, <1>8 DEF LoopStart, LoopTop, SemWait, Repost, Goto, LoopPcs
  <2>2. /\ tasks_head' = tasks_head /\ count' \in Nat
        /\ is_running' \in BOOLEAN /\ is_working' \in BOOLEAN
    <3>1. CASE LoopStart
      BY <3>1 DEF LoopStart
    <3>2. CASE LoopTop
      BY <3>2 DEF LoopTop
    <3>3. CASE SemWait
      BY <3>3 DEF SemWait
    <3>4. CASE Repost
      BY <3>4 DEF Repost
    <3>5. QED
      BY <1>8, <3>1, <3>2, <3>3, <3>4
  <2>3. /\ protector' = protector /\ stream_protector' = stream_protector
        /\ is_enabled' = is_enabled /\ is_busy' = is_busy /\ arg' = arg
        /\ task2run' = task2run /\ waited' = waited /\ down' = down
    BY <1>8 DEF LoopStart, LoopTop, SemWait, Repost
  <2>4. QED
    BY <2>1, <2>2, <2>3 DEF LoopPcs
<1>9. CASE Look
  <2>1. tasks_head # <<>> => Head(tasks_head) \in Entries /\ Tail(tasks_head) \in Seq(Entries)
    BY HeadTailProperties
  <2>2. tasks_head' \in Seq(Entries)
    BY <1>9, <2>1 DEF Look
  <2>3. pc'[LOOP] = "popped" => task2run' \in Calls
    BY <1>0, <1>9, <2>1 DEF Look, Goto, Entries, Calls
  <2>4. task2run' \in Calls \cup {NONE}
    BY <1>9, <2>1 DEF Look, Entries, Calls
  <2>5. /\ pc' \in [Threads -> ClientPcs \cup LoopPcs]
        /\ pc'[LOOP] \in {"top", "popped", "repost"}
        /\ \A u \in Streams : pc'[u] = pc[u]
    BY <1>0, <1>9 DEF Look, Goto, LoopPcs
  <2>6. QED
    BY <1>9, <2>2, <2>3, <2>4, <2>5 DEF Look, LoopPcs
<1>10. CASE MarkBusy \/ ClearBusy
  <2>1. PICK b \in BOOLEAN : SetBusy(b)
    BY <1>10 DEF MarkBusy, ClearBusy
  <2>2. is_busy' \in [Streams -> [Tasks -> BOOLEAN]]
    BY <2>1 DEF SetBusy
  <2>3. QED
    BY <1>0, <1>10, <2>2 DEF MarkBusy, ClearBusy, Goto, LoopPcs
<1>11. CASE CallbackReturn \/ DhCheck
  BY <1>0, <1>11 DEF CallbackReturn, DhCheck, Goto, LoopPcs
<1>12. CASE CallbackResend
  <2>1. tasks_head' \in Seq(Entries) /\ count' \in Nat
    BY <1>0, <1>12, CallLaterStep DEF CallbackResend
  <2>2. QED
    BY <1>0, <1>12, <2>1 DEF CallbackResend, Goto, LoopPcs
<1>13. CASE CallbackGiveUp \/ DhAccepted \/ DhGiveUp
  <2>2. CASE CallbackGiveUp \/ DhGiveUp
    <3>1. task2run \in Calls /\ task2run.ctx \in Streams
      BY <2>2 DEF CallbackGiveUp, DhGiveUp, Calls
    <3>2. QED
      BY <1>0, <1>2, <2>2, <3>1 DEF CallbackGiveUp, DhGiveUp
  <2>3. CASE DhAccepted
    <3>1. task2run \in Calls /\ task2run.ctx \in Streams /\ task2run.ztask \in Tasks
      BY <2>3 DEF DhAccepted, Calls
    <3>2. QED
      BY <1>0, <1>2, <2>3, <3>1 DEF DhAccepted
  <2>4. QED
    BY <1>13, <2>2, <2>3
<1>14. CASE DhLock
  BY <1>0, <1>14 DEF DhLock, Goto, LoopPcs
<1>15. CASE DhRetry
  <2>1. tasks_head' \in Seq(Entries) /\ count' \in Nat
    BY <1>0, <1>15, CallLaterStep DEF DhRetry
  <2>2. QED
    BY <1>0, <1>15, <2>1 DEF DhRetry, DhUnlock, Goto, LoopPcs
<1>16. CASE DhCommit
  <2>0. task2run \in Calls /\ "commit" \in Tasks
    BY <1>16 DEF DhCommit
  <2>1. [task2run EXCEPT !.ztask = "commit"] \in Calls
    BY <2>0 DEF Calls
  <2>2. tasks_head' \in Seq(Entries) /\ count' \in Nat
    BY <1>0, <1>16, <2>1, CallLaterStep DEF DhCommit
  <2>3. is_enabled' \in [Streams -> [Tasks -> BOOLEAN]]
    BY <1>16 DEF DhCommit
  <2>4. QED
    BY <1>0, <1>16, <2>2, <2>3 DEF DhCommit, DhUnlock, Goto, LoopPcs
<1>17. CASE DownStop \/ DownFree \/ Over
  <2>1. tasks_head' \in Seq(Entries) /\ count' \in Nat
    <3>1. CASE DownStop
      BY <3>1 DEF DownStop
    <3>2. CASE DownFree
      BY <3>2, EmptySeq DEF DownFree
    <3>3. CASE Over
      BY <3>3 DEF Over, vars
    <3>4. QED
      BY <1>17, <3>1, <3>2, <3>3
  <2>2. /\ pc' \in [Threads -> ClientPcs \cup LoopPcs]
        /\ pc'[LOOP] = pc[LOOP]
        /\ \A u \in Streams : pc'[u] = pc[u]
    BY <1>0, <1>17 DEF DownStop, DownFree, Over, vars, Goto, LoopPcs
  <2>3. is_running' \in BOOLEAN /\ is_working' \in BOOLEAN /\ down' \in DownPcs
    BY <1>17 DEF DownStop, DownFree, Over, vars, DownPcs
  <2>4. /\ protector' = protector /\ stream_protector' = stream_protector
        /\ is_enabled' = is_enabled /\ is_busy' = is_busy /\ arg' = arg
        /\ task2run' = task2run /\ waited' = waited
    BY <1>17 DEF DownStop, DownFree, Over, vars
  <2>5. QED
    BY <2>1, <2>2, <2>3, <2>4 DEF LoopPcs
<1>18. CASE Tick
  <2>1. tasks_head' \in Seq(Entries)
    BY <1>18, TickProperties DEF Tick
  <2>2. QED
    BY <1>18, <2>1 DEF Tick
<1>19. CASE UNCHANGED vars
  BY <1>19 DEF vars
<1>20. QED
  BY <1>1, <1>3, <1>4, <1>5, <1>6, <1>7, <1>8, <1>9, <1>10, <1>11, <1>12, <1>13,
     <1>14, <1>15, <1>16, <1>17, <1>18, <1>19 DEF Next, Client, Loop, Callback

(* Every variable keeps its type, whatever the interleaving of the threads *)
(* of src/zrtp_iface_scheduler.c.                                          *)
THEOREM TypeCorrect == Spec => []TypeOK
<1>1. TypeInv => TypeOK
  BY DEF TypeInv
<1>2. QED
  BY TypeInvInit, TypeInvNext, <1>1, PTL DEF Spec

-----------------------------------------------------------------------------
(* The semaphore.  With H the unit sched_loop holds, count + H stays        *)
(* between the length of the list and one more (two more once              *)
(* zrtp_def_scheduler_down has posted): this is inductive as it stands,    *)
(* because sem_trywait can only fail on the last entry.                    *)

SemInv == NoLostWakeup /\ BoundedSurplus

LEMMA HeldStep ==
    ASSUME TypeInv, NEW th \in Threads, NEW l, Goto(th, l)
    PROVE  Held' = IF th # LOOP THEN Held
                   ELSE IF l \in {"look", "repost"} THEN 1 ELSE 0
BY SchedulerAssumption DEF TypeInv, TypeOK, Goto, Held, Threads

(* A step that adds or removes nothing, or adds one entry and one unit. *)
LEMMA BalancedStep ==
    ASSUME TypeInv, SemInv, Held' = Held, down' = down,
           \/ Len(tasks_head') = Len(tasks_head) /\ count' = count
           \/ Len(tasks_head') = Len(tasks_head) + 1 /\ count' = count + 1
    PROVE  SemInv'
<1>1. Len(tasks_head) \in Nat /\ count \in Nat /\ Held \in 0 .. 1
  BY LenProperties DEF TypeInv, TypeOK, Held
<1>2. QED
  BY <1>1 DEF SemInv, NoLostWakeup, BoundedSurplus

LEMMA SemInvInit == Init => SemInv
<1> SUFFICES ASSUME Init PROVE SemInv
  OBVIOUS
<1>1. Len(tasks_head) = 0 /\ count = 0 /\ down = "up"
  BY DEF Init
<1>2. Held = 0
  BY SchedulerAssumption DEF Init, Held, Threads
<1>3. QED
  BY <1>1, <1>2 DEF SemInv, NoLostWakeup, BoundedSurplus

(* Every step preserves the balance of units and entries. *)
LEMMA SemInvNext == TypeInv /\ SemInv /\ [Next]_vars => SemInv'
<1> SUFFICES ASSUME TypeInv, SemInv, [Next]_vars PROVE SemInv'
  OBVIOUS
<1> USE DEF lifeVars, listVars
<1>0. /\ TypeOK /\ LOOP \in Threads
      /\ Len(tasks_head) \in Nat /\ count \in Nat /\ Held \in 0 .. 1
      /\ \A s \in Streams : s \in Threads /\ s # LOOP
      /\ \A s \in Streams, t \in Tasks : [ctx |-> s, ztask |-> t] \in Calls
  BY SchedulerAssumption, LenProperties DEF Threads, Calls, TypeInv, TypeOK, Held
<1>1. ASSUME NEW s \in Streams, NEW t \in Tasks, StartTask(s, t)
      PROVE  SemInv'
  <2>1. Held' = Held /\ down' = down
    BY <1>1 DEF StartTask, Held
  <2>2. QED
    BY <1>0, <1>1, <2>1, CallLaterStep, BalancedStep DEF StartTask
<1>2. ASSUME NEW th \in Threads, NEW s \in Streams, NEW t, NEW l, BeginCancel(th, s, t, l),
             l \notin {"look", "repost"}, th = LOOP => Held = 0
      PROVE  SemInv'
  <2>1. Held' = Held /\ down' = down
    BY <1>2, HeldStep DEF BeginCancel
  <2>2. QED
    BY <1>2, <2>1, BalancedStep DEF BeginCancel
<1>3. ASSUME NEW s \in Streams, NEW t \in Cancellable, ClientCancel(s, t)
      PROVE  SemInv'
  BY <1>0, <1>2, <1>3 DEF ClientCancel
<1>4. ASSUME NEW s \in Streams, Stop(s)
      PROVE  SemInv'
  BY <1>0, <1>2, <1>4 DEF Stop
<1>5. ASSUME NEW s \in Streams, WaitNotBusy(s) \/ Wipe(s) \/ Attach(s)
      PROVE  SemInv'
  <2>1. Held' = Held
    <3>1. CASE WaitNotBusy(s)
      BY <3>1 DEF WaitNotBusy, Held
    <3>2. CASE Wipe(s) \/ Attach(s)
      BY <1>0, <3>2, HeldStep DEF Wipe, Attach
    <3>3. QED
      BY <1>5, <3>1, <3>2
  <2>2. tasks_head' = tasks_head /\ count' = count /\ down' = down
    BY <1>5 DEF WaitNotBusy, Wipe, Attach
  <2>3. QED
    BY <2>1, <2>2, BalancedStep
<1>6. ASSUME NEW th \in Threads, CancelLock(th)
      PROVE  SemInv'
  <2>1. Held' = Held
    BY <1>6, HeldStep DEF CancelLock, Held
  <2>2. QED
    BY <1>6, <2>1, BalancedStep DEF CancelLock
<1>7. ASSUME NEW th \in Threads, CancelScan(th)
      PROVE  SemInv'
  <2>1. Held' = Held /\ down' = down
    <3>1. ASSUME AfterCancel(th) PROVE Held' = Held
      <4>1. Goto(th, AfterScan(th)) /\ AfterScan(th) \notin {"look", "repost"}
        BY <3>1 DEF AfterCancel, AfterScan
      <4>2. th = LOOP => Held = 0
        BY <1>7 DEF CancelScan, Held
      <4>3. QED
        BY <4>1, <4>2, HeldStep
    <3>2. ASSUME UNCHANGED pc PROVE Held' = Held
      BY <3>2 DEF Held
    <3>3. QED
      BY <1>7, <3>1, <3>2 DEF CancelScan
  <2>2. CASE RemoveFirstEntry(th)
    <3>1. /\ Len(tasks_head) \in Nat \ {0}
          /\ Len(tasks_head') = Len(tasks_head) - 1
          /\ count' = IF count > 0 THEN count - 1 ELSE 0
      BY <1>0, <2>2, RemoveStep
    <3>2. QED
      BY <1>0, <2>1, <3>1 DEF SemInv, NoLostWakeup, BoundedSurplus
  <2>3. CASE AfterCancel(th) /\ UNCHANGED listVars
    BY <2>1, <2>3, BalancedStep
  <2>4. QED
    BY <1>7, <2>2, <2>3 DEF CancelScan
<1>8. CASE LoopStart \/ LoopTop
  <2>1. Held = 0 /\ Held' = 0
    <3>1. CASE LoopStart
      BY <1>0, <3>1, HeldStep DEF LoopStart, Held
    <3>2. CASE LoopTop
      BY <1>0, <3>2, HeldStep DEF LoopTop, Held
    <3>3. QED
      BY <1>8, <3>1, <3>2
  <2>2. tasks_head' = tasks_head /\ count' = count /\ down' = down
    BY <1>8 DEF LoopStart, LoopTop
  <2>3. QED
    BY <2>1, <2>2, BalancedStep
<1>9. CASE SemWait
  <2>1. Held = 0 /\ Held' = 1
    BY <1>0, <1>9, HeldStep DEF SemWait, Held
  <2>2. tasks_head' = tasks_head /\ count' = count - 1 /\ down' = down
    BY <1>9 DEF SemWait
  <2>3. QED
    BY <1>0, <2>1, <2>2 DEF SemInv, NoLostWakeup, BoundedSurplus
<1>10. CASE Repost
  <2>1. Held = 1 /\ Held' = 0
    BY <1>0, <1>10, HeldStep DEF Repost, Held
  <2>2. tasks_head' = tasks_head /\ count' = count + 1 /\ down' = down
    BY <1>10 DEF Repost
  <2>3. QED
    BY <1>0, <2>1, <2>2 DEF SemInv, NoLostWakeup, BoundedSurplus
<1>11. CASE Look
  <2>0. Held = 1 /\ count' = count /\ down' = down
    BY <1>11 DEF Look, Held
  <2>1. CASE tasks_head = <<>> /\ Goto(LOOP, "top") /\ UNCHANGED tasks_head
    <3>1. Len(tasks_head) = 0 /\ Held' = 0 /\ tasks_head' = tasks_head
      BY <1>0, <2>1, HeldStep
    <3>2. QED
      BY <1>0, <2>0, <3>1 DEF SemInv, NoLostWakeup, BoundedSurplus
  <2>2. CASE tasks_head # <<>> /\ tasks_head' = Tail(tasks_head) /\ Goto(LOOP, "popped")
    <3>1. Len(tasks_head') = Len(tasks_head) - 1 /\ Len(tasks_head) > 0
      BY <1>0, <2>2, HeadTailProperties, EmptySeq DEF TypeOK
    <3>2. Held' = 0
      BY <1>0, <2>2, HeldStep
    <3>3. QED
      BY <1>0, <2>0, <3>1, <3>2 DEF SemInv, NoLostWakeup, BoundedSurplus
  <2>3. CASE Goto(LOOP, "repost") /\ UNCHANGED tasks_head
    <3>1. Held' = Held
      BY <1>0, <2>0, <2>3, HeldStep
    <3>2. QED
      BY <2>0, <2>3, <3>1, BalancedStep
  <2>4. QED
    BY <1>11, <2>1, <2>2, <2>3 DEF Look
<1>12. CASE MarkBusy \/ ClearBusy \/ CallbackReturn \/ DhCheck \/ DhLock
  <2>1. PICK l \in LoopPcs \ {"look", "repost"} : Goto(LOOP, l)
    BY <1>12 DEF MarkBusy, ClearBusy, CallbackReturn, DhCheck, DhLock, LoopPcs
  <2>2. Held = 0
    BY <1>12 DEF MarkBusy, ClearBusy, CallbackReturn, DhCheck, DhLock, Held
  <2>3. tasks_head' = tasks_head /\ count' = count /\ down' = down
    BY <1>12 DEF MarkBusy, ClearBusy, CallbackReturn, DhCheck, DhLock
  <2>4. QED
    BY <1>0, <2>1, <2>2, <2>3, HeldStep, BalancedStep
<1>13. CASE CallbackGiveUp \/ DhAccepted \/ DhGiveUp
  <2>1. Held = 0
    BY <1>13 DEF CallbackGiveUp, DhAccepted, DhGiveUp, Held
  <2>2. task2run.ctx \in Streams
    BY <1>13 DEF TypeInv, CallbackGiveUp, DhAccepted, DhGiveUp, LoopHasCall, Calls
  <2>3. QED
    BY <1>0, <1>2, <1>13, <2>1, <2>2 DEF CallbackGiveUp, DhAccepted, DhGiveUp
<1>14. CASE CallbackResend \/ DhRetry \/ DhCommit
  <2>1. Held' = Held
    <3>1. Held = 0 /\ Goto(LOOP, "ret")
      BY <1>14 DEF CallbackResend, DhRetry, DhCommit, DhUnlock, Held
    <3>2. QED
      BY <1>0, <3>1, HeldStep
  <2>2. ASSUME NEW c \in Calls, CallLater(c) \/ UNCHANGED listVars, down' = down
        PROVE  SemInv'
    BY <1>0, <2>1, <2>2, CallLaterStep, BalancedStep
  <2>3. task2run \in Calls
    BY <1>14 DEF TypeInv, CallbackResend, DhRetry, DhCommit, LoopHasCall
  <2>4. CASE CallbackResend \/ DhRetry
    BY <2>2, <2>3, <2>4 DEF CallbackResend, DhRetry
  <2>5. CASE DhCommit
    <3>1. [task2run EXCEPT !.ztask = "commit"] \in Calls
      BY <2>3, <2>5 DEF DhCommit, Calls
    <3>2. QED
      BY <2>2, <2>5, <3>1 DEF DhCommit
  <2>6. QED
    BY <1>14, <2>4, <2>5
<1>15. CASE DownStop
  <2>1. Held' = Held
    BY <1>15 DEF DownStop, Held
  <2>2. /\ tasks_head' = tasks_head /\ count' = count + 1
        /\ down = "up" /\ down' = "down_wait"
    BY <1>15 DEF DownStop
  <2>3. QED
    BY <1>0, <2>1, <2>2 DEF SemInv, NoLostWakeup, BoundedSurplus
<1>16. CASE DownFree
  <2>1. Held' = Held
    BY <1>16 DEF DownFree, Held
  <2>2. Len(tasks_head') = 0 /\ count' = 0
    BY <1>16 DEF DownFree
  <2>3. QED
    BY <1>0, <2>1, <2>2 DEF SemInv, NoLostWakeup, BoundedSurplus
<1>17. CASE Over
  BY <1>0, <1>17 DEF Over, vars, SemInv, NoLostWakeup, BoundedSurplus, Held
<1>18. CASE Tick
  <2>1. Len(tasks_head') = Len(tasks_head)
    BY <1>0, <1>18, TickProperties DEF Tick, TypeOK
  <2>2. Held' = Held /\ count' = count /\ down' = down
    BY <1>18 DEF Tick, Held
  <2>3. QED
    BY <2>1, <2>2, BalancedStep
<1>19. CASE UNCHANGED vars
  <2>1. Held' = Held /\ count' = count /\ tasks_head' = tasks_head /\ down' = down
    BY <1>19 DEF vars, Held
  <2>2. QED
    BY <2>1, BalancedStep
<1>20. QED
  BY <1>1, <1>3, <1>4, <1>5, <1>6, <1>7, <1>8, <1>9, <1>10, <1>11, <1>12, <1>13,
     <1>14, <1>15, <1>16, <1>17, <1>18, <1>19 DEF Next, Client, Loop, Callback

(* No call of the list is left without a unit of the semaphore to wake     *)
(* sched_loop for it, for any number of threads and queued calls.          *)
THEOREM WakeupNeverLost == Spec => []NoLostWakeup
<1>1. TypeInv /\ SemInv => NoLostWakeup
  BY DEF SemInv
<1>2. QED
  BY TypeInvInit, TypeInvNext, SemInvInit, SemInvNext, <1>1, PTL DEF Spec

(* The semaphore never runs ahead of the list by more than one unit, plus  *)
(* the one zrtp_def_scheduler_down posts to stop sched_loop.               *)
THEOREM SurplusBounded == Spec => []BoundedSurplus
<1>1. TypeInv /\ SemInv => BoundedSurplus
  BY DEF SemInv
<1>2. QED
  BY TypeInvInit, TypeInvNext, SemInvInit, SemInvNext, <1>1, PTL DEF Spec

-----------------------------------------------------------------------------
(* zrtp_def_scheduler_down.  It polls is_working, which tells it nothing   *)
(* about a sched_loop that has not started.  What protects the semaphore   *)
(* and the mutex then is that is_running is already down when such a loop  *)
(* gets to test it, and that every stream is gone.                         *)

DownInv ==
    /\ is_working <=> pc[LOOP] \notin {"new", "exit"}
    /\ down # "up" => ~is_running /\ \A s \in Streams : pc[s] = "gone"
    /\ NoUseAfterDown

LEMMA DownInvInit == Init => DownInv
BY SchedulerAssumption DEF Init, DownInv, NoUseAfterDown, Threads

(* A step of a client that is not gone happens only while the library is up. *)
LEMMA DownClientStep ==
    ASSUME TypeInv, DownInv, NEW s \in Streams, pc[s] # "gone",
           pc'[LOOP] = pc[LOOP], UNCHANGED lifeVars
    PROVE  DownInv'
BY DEF DownInv, NoUseAfterDown, lifeVars

(* sched_loop between its tests of is_running. *)
LEMMA DownLoopStep ==
    ASSUME TypeInv, DownInv, pc[LOOP] \notin {"new", "top", "exit"},
           pc'[LOOP] \notin {"new", "exit"},
           \A s \in Streams : pc'[s] = pc[s], UNCHANGED lifeVars
    PROVE  DownInv'
BY DEF DownInv, NoUseAfterDown, lifeVars

LEMMA DownInvNext == TypeInv /\ DownInv /\ [Next]_vars => DownInv'
<1> SUFFICES ASSUME TypeInv, DownInv, [Next]_vars PROVE DownInv'
  OBVIOUS
<1>0. /\ LOOP \in Threads /\ pc \in [Threads -> ClientPcs \cup LoopPcs]
      /\ \A s \in Streams : s \in Threads /\ s # LOOP
  BY SchedulerAssumption DEF Threads, TypeInv, TypeOK
<1>1. ASSUME NEW s \in Streams, NEW t \in Tasks, StartTask(s, t)
      PROVE  DownInv'
  BY <1>1, DownClientStep DEF StartTask, Idle
<1>2. ASSUME NEW s \in Streams, NEW t \in Cancellable, ClientCancel(s, t)
      PROVE  DownInv'
  BY <1>0, <1>2, DownClientStep DEF ClientCancel, Idle, BeginCancel, Goto
<1>3. ASSUME NEW s \in Streams, Stop(s)
      PROVE  DownInv'
  BY <1>0, <1>3, DownClientStep DEF Stop, Idle, BeginCancel, Goto
<1>4. ASSUME NEW s \in Streams, WaitNotBusy(s) \/ Wipe(s)
      PROVE  DownInv'
  BY <1>0, <1>4, DownClientStep DEF WaitNotBusy, Wipe, Goto
<1>5. ASSUME NEW s \in Streams, Attach(s)
      PROVE  DownInv'
  BY <1>0, <1>5 DEF Attach, Goto, DownInv, NoUseAfterDown, lifeVars
<1>6. ASSUME NEW th \in Threads, CancelLock(th)
      PROVE  DownInv'
  <2>1. CASE th = LOOP
    BY <1>0, <1>6, <2>1, DownLoopStep DEF CancelLock, Goto
  <2>2. CASE th \in Streams
    BY <1>0, <1>6, <2>2, DownClientStep DEF CancelLock, Goto
  <2>3. QED
    BY <2>1, <2>2 DEF Threads
<1>7. ASSUME NEW th \in Threads, CancelScan(th)
      PROVE  DownInv'
  <2>1. /\ pc[th] \in {"scan", "stop_scan"} /\ UNCHANGED lifeVars
        /\ UNCHANGED pc \/ Goto(th, AfterScan(th))
    BY <1>7 DEF CancelScan, AfterCancel
  <2>2. CASE th = LOOP
    <3>1. UNCHANGED pc \/ \E l \in {"ret", "dh_commit"} : Goto(LOOP, l)
      BY <2>1, <2>2 DEF AfterScan
    <3>2. QED
      BY <1>0, <2>1, <2>2, <3>1, DownLoopStep DEF Goto
  <2>3. CASE th \in Streams
    BY <1>0, <2>1, <2>3, DownClientStep DEF Goto
  <2>4. QED
    BY <2>2, <2>3 DEF Threads
<1>8. CASE LoopStart \/ LoopTop
  <2>1. CASE LoopStart
    BY <1>0, <2>1 DEF LoopStart, Goto, DownInv, NoUseAfterDown
  <2>2. CASE LoopTop
    BY <1>0, <2>2 DEF LoopTop, Goto, DownInv, NoUseAfterDown
  <2>3. QED
    BY <1>8, <2>1, <2>2
<1>9. CASE SemWait \/ Look \/ Repost \/ MarkBusy \/ ClearBusy
  <2>1. /\ pc[LOOP] \notin {"new", "top", "exit"} /\ UNCHANGED lifeVars
        /\ \E l \in LoopPcs \ {"new", "exit"} : Goto(LOOP, l)
    <3>1. CASE SemWait \/ Repost
      BY <3>1 DEF SemWait, Repost, LoopPcs
    <3>2. CASE Look
      BY <3>2 DEF Look, LoopPcs
    <3>3. CASE MarkBusy \/ ClearBusy
      BY <3>3 DEF MarkBusy, ClearBusy, LoopPcs
    <3>4. QED
      BY <1>9, <3>1, <3>2, <3>3
  <2>2. QED
    BY <1>0, <2>1, DownLoopStep DEF Goto
<1>10. CASE Callback
  <2>1. /\ pc[LOOP] \in {"callback", "dh_lock", "dh", "dh_commit"} /\ UNCHANGED lifeVars
        /\ \E l \in LoopPcs \ {"new", "exit"} : Goto(LOOP, l)
    <3>1. CASE CallbackReturn \/ CallbackResend \/ DhCheck \/ DhLock
      BY <3>1 DEF CallbackReturn, CallbackResend, DhCheck, DhLock, LoopPcs
    <3>2. CASE CallbackGiveUp \/ DhAccepted \/ DhGiveUp
      BY <3>2 DEF CallbackGiveUp, DhAccepted, DhGiveUp, BeginCancel, LoopPcs
    <3>3. CASE DhRetry \/ DhCommit
      BY <3>3 DEF DhRetry, DhCommit, DhUnlock, LoopPcs
    <3>4. QED
      BY <1>10, <3>1, <3>2, <3>3 DEF Callback
  <2>2. QED
    BY <1>0, <2>1, DownLoopStep DEF Goto
<1>11. CASE DownStop
  BY <1>11 DEF DownStop, DownInv, NoUseAfterDown
<1>12. CASE DownFree
  BY <1>12 DEF DownFree, DownInv, NoUseAfterDown
<1>13. CASE Over
  BY <1>13 DEF Over, vars, DownInv, NoUseAfterDown
<1>14. CASE Tick
  BY <1>14 DEF Tick, DownInv, NoUseAfterDown, lifeVars
<1>15. CASE UNCHANGED vars
  BY <1>15 DEF vars, DownInv, NoUseAfterDown
<1>16. QED
  BY <1>1, <1>2, <1>3, <1>4, <1>5, <1>6, <1>7, <1>8, <1>9, <1>10, <1>11, <1>12,
     <1>13, <1>14, <1>15 DEF Next, Client, Loop

(* sched_loop touches neither the semaphore nor the list mutex once        *)
(* zrtp_def_scheduler_down has destroyed them.                             *)
THEOREM NothingUsedAfterDown == Spec => []NoUseAfterDown
<1>1. DownInv => NoUseAfterDown
  BY DEF DownInv
<1>2. QED
  BY TypeInvInit, TypeInvNext, DownInvInit, DownInvNext, <1>1, PTL DEF Spec

-----------------------------------------------------------------------------
(* The order of the list.                                                  *)

LEMMA InsertPositionSplits ==
    ASSUME TypeOK, ListSorted, NEW wake \in Nat, NEW i \in 1 .. Len(tasks_head)
    PROVE  /\ i < InsertPosition(wake) => tasks_head[i].wake_at <= wake
           /\ i >= InsertPosition(wake) => tasks_head[i].wake_at >= wake
<1> DEFINE later == {k \in 1 .. Len(tasks_head) : tasks_head[k].wake_at >= wake}
<1>1. /\ Len(tasks_head) \in Nat /\ later \in SUBSET Nat
      /\ \A k \in 1 .. Len(tasks_head) : tasks_head[k].wake_at \in Nat
  <2>1. \A k \in 1 .. Len(tasks_head) : tasks_head[k] \in Entries
    BY LenProperties DEF TypeOK
  <2>2. Len(tasks_head) \in Nat
    BY LenProperties DEF TypeOK
  <2>3. \A k \in 1 .. Len(tasks_head) : tasks_head[k].wake_at \in Nat
    BY <2>1 DEF Entries
  <2>4. later \in SUBSET Nat
    BY <2>2
  <2>5. QED
    BY <2>2, <2>3, <2>4
<1>2. CASE later = {}
  BY <1>1, <1>2 DEF InsertPosition
<1>3. CASE later # {}
  <2>1. Min(later) \in later /\ \A k \in later : Min(later) <= k
    BY <1>1, <1>3, MinIsLeast
  <2>2. InsertPosition(wake) = Min(later)
    BY <1>3 DEF InsertPosition
  <2>3. ASSUME i < InsertPosition(wake) PROVE tasks_head[i].wake_at <= wake
    <3>1. i \notin later
      BY <1>1, <2>1, <2>2, <2>3
    <3>2. QED
      BY <1>1, <3>1
  <2>4. ASSUME i >= InsertPosition(wake) PROVE tasks_head[i].wake_at >= wake
    <3> DEFINE m == Min(later)
    <3>1. /\ m \in 1 .. Len(tasks_head) /\ tasks_head[m].wake_at >= wake
          /\ m = i \/ m < i
      BY <1>1, <2>1, <2>2, <2>4
    <3> HIDE DEF m
    <3>2. tasks_head[m].wake_at <= tasks_head[i].wake_at
      BY <1>1, <3>1 DEF ListSorted
    <3>3. QED
      BY <1>1, <3>1, <3>2
  <2>5. QED
    BY <2>3, <2>4
<1>4. QED
  BY <1>2, <1>3

LEMMA InsertKeepsSorted ==
    ASSUME TypeOK, ListSorted, NEW c \in Calls, NEW wake \in Delays, Insert(c, wake)
    PROVE  ListSorted'
<1> DEFINE p == InsertPosition(wake)
           e == [ctx |-> c.ctx, ztask |-> c.ztask, wake_at |-> wake]
<1>1. /\ wake \in Nat /\ Len(tasks_head) \in Nat /\ tasks_head \in Seq(Entries)
      /\ \A k \in 1 .. Len(tasks_head) : tasks_head[k].wake_at \in Nat
  <2>1. \A k \in 1 .. Len(tasks_head) : tasks_head[k] \in Entries
    BY LenProperties DEF TypeOK
  <2>2. QED
    BY <2>1, SchedulerAssumption, LenProperties DEF TypeOK, Entries
<1>2. p \in 1 .. Len(tasks_head) + 1
  BY <1>1, InsertPositionRange
<1>3. \A i \in 1 .. Len(tasks_head) :
          /\ i < p => tasks_head[i].wake_at <= wake
          /\ i >= p => tasks_head[i].wake_at >= wake
  BY <1>1, InsertPositionSplits
<1>4. /\ Len(tasks_head') = Len(tasks_head) + 1
      /\ \A j \in 1 .. Len(tasks_head) + 1 : tasks_head'[j] =
             IF j < p THEN tasks_head[j] ELSE IF j = p THEN e ELSE tasks_head[j - 1]
  <2>1. e \in Entries
    BY <1>1 DEF Calls, Entries
  <2>2. tasks_head' = InsertAt(tasks_head, p, e)
    BY DEF Insert
  <2> HIDE DEF p, e
  <2>3. /\ Len(InsertAt(tasks_head, p, e)) = Len(tasks_head) + 1
        /\ \A j \in 1 .. Len(tasks_head) + 1 : InsertAt(tasks_head, p, e)[j] =
               IF j < p THEN tasks_head[j] ELSE IF j = p THEN e ELSE tasks_head[j - 1]
    <3>1. tasks_head \in Seq(Entries)
      BY <1>1
    <3>2. PICK q : q = InsertAt(tasks_head, p, e)
      OBVIOUS
    <3>3. /\ q \in Seq(Entries)
          /\ Len(q) = Len(tasks_head) + 1
          /\ \A j \in 1 .. Len(tasks_head) + 1 : q[j] =
                 IF j < p THEN tasks_head[j] ELSE IF j = p THEN e ELSE tasks_head[j - 1]
      BY ONLY <1>2, <2>1, <3>1, <3>2, InsertAtProperties, SMTT(20)
    <3>4. QED
      BY <3>2, <3>3
  <2>4. QED
    BY <2>2, <2>3
<1>5. e.wake_at = wake
  OBVIOUS
<1> HIDE DEF p, e
<1>6. SUFFICES ASSUME NEW i \in 1 .. Len(tasks_head) + 1, NEW j \in 1 .. Len(tasks_head) + 1,
                      i < j
               PROVE  tasks_head'[i].wake_at <= tasks_head'[j].wake_at
  BY <1>4 DEF ListSorted
<1>7. \A k, l \in 1 .. Len(tasks_head) :
          k < l => tasks_head[k].wake_at <= tasks_head[l].wake_at
  BY DEF ListSorted
<1>8. CASE j < p
  <2>1. /\ tasks_head'[i] = tasks_head[i] /\ tasks_head'[j] = tasks_head[j]
        /\ i \in 1 .. Len(tasks_head) /\ j \in 1 .. Len(tasks_head)
    BY <1>1, <1>2, <1>4, <1>6, <1>8
  <2>2. QED
    BY <1>6, <1>7, <2>1
<1>9. CASE j = p
  <2>1. /\ tasks_head'[i] = tasks_head[i] /\ tasks_head'[j] = e
        /\ i \in 1 .. Len(tasks_head) /\ i < p
    BY <1>1, <1>2, <1>4, <1>6, <1>9
  <2>2. QED
    BY <1>3, <1>5, <2>1
<1>10. CASE j > p /\ i = p
  <2>1. /\ tasks_head'[i] = e /\ tasks_head'[j] = tasks_head[j - 1]
        /\ j - 1 \in 1 .. Len(tasks_head) /\ j - 1 >= p
    BY <1>1, <1>2, <1>4, <1>6, <1>10
  <2>2. QED
    BY <1>1, <1>3, <1>5, <2>1
<1>11. CASE j > p /\ i < p
  <2>1. /\ tasks_head'[i] = tasks_head[i] /\ tasks_head'[j] = tasks_head[j - 1]
        /\ i \in 1 .. Len(tasks_head) /\ j - 1 \in 1 .. Len(tasks_head) /\ j - 1 >= p
    BY <1>1, <1>2, <1>4, <1>6, <1>11
  <2>2. tasks_head[i].wake_at <= wake /\ wake <= tasks_head[j - 1].wake_at
    BY <1>1, <1>3, <1>11, <2>1
  <2>3. QED
    BY <1>1, <2>1, <2>2
<1>12. CASE j > p /\ i > p
  <2>1. /\ tasks_head'[i] = tasks_head[i - 1] /\ tasks_head'[j] = tasks_head[j - 1]
        /\ i - 1 \in 1 .. Len(tasks_head) /\ j - 1 \in 1 .. Len(tasks_head)
        /\ i - 1 < j - 1
    BY <1>1, <1>2, <1>4, <1>6, <1>12
  <2>2. QED
    BY <1>7, <2>1
<1>13. QED
  BY <1>1, <1>2, <1>8, <1>9, <1>10, <1>11, <1>12

LEMMA RemoveKeepsSorted ==
    ASSUME TypeOK, ListSorted, NEW k \in 1 .. Len(tasks_head),
           tasks_head' = RemoveAt(tasks_head, k)
    PROVE  ListSorted'
<1>1. Len(tasks_head) \in Nat /\ tasks_head \in Seq(Entries)
  BY LenProperties DEF TypeOK
<1>2. /\ Len(tasks_head') = Len(tasks_head) - 1
      /\ \A j \in 1 .. Len(tasks_head) - 1 : tasks_head'[j] =
             IF j < k THEN tasks_head[j] ELSE tasks_head[j + 1]
  BY <1>1, RemoveAtProperties
<1>3. SUFFICES ASSUME NEW i \in 1 .. Len(tasks_head) - 1, NEW j \in 1 .. Len(tasks_head) - 1,
                      i < j
               PROVE  tasks_head'[i].wake_at <= tasks_head'[j].wake_at
  BY <1>2 DEF ListSorted
<1>4. PICK m \in 1 .. Len(tasks_head), n \in 1 .. Len(tasks_head) :
          m < n /\ tasks_head'[i] = tasks_head[m] /\ tasks_head'[j] = tasks_head[n]
  <2>1. CASE j < k
    <3>1. /\ i \in 1 .. Len(tasks_head) /\ j \in 1 .. Len(tasks_head)
          /\ i < k
      BY <1>1, <1>3, <2>1
    <3>2. QED
      BY <1>2, <1>3, <2>1, <3>1
  <2>2. CASE i < k /\ ~(j < k)
    <3>1. i \in 1 .. Len(tasks_head) /\ j + 1 \in 1 .. Len(tasks_head) /\ i < j + 1
      BY <1>1, <1>3
    <3>2. QED
      BY <1>2, <2>2, <3>1
  <2>3. CASE ~(i < k)
    <3>1. /\ i + 1 \in 1 .. Len(tasks_head) /\ j + 1 \in 1 .. Len(tasks_head)
          /\ i + 1 < j + 1 /\ ~(j < k)
      BY <1>1, <1>3, <2>3
    <3>2. QED
      BY <1>2, <2>3, <3>1
  <2>4. QED
    BY <2>1, <2>2, <2>3
<1>5. QED
  BY <1>4 DEF ListSorted

LEMMA TickKeepsSorted ==
    ASSUME TypeOK, ListSorted, Tick
    PROVE  ListSorted'
<1>1. /\ Len(tasks_head') = Len(tasks_head)
      /\ \A i \in 1 .. Len(tasks_head) :
            /\ tasks_head[i].wake_at \in Nat
            /\ tasks_head'[i].wake_at = IF tasks_head[i].wake_at > 0
                                         THEN tasks_head[i].wake_at - 1 ELSE 0
  <2>1. \A k \in 1 .. Len(tasks_head) : tasks_head[k] \in Entries
    BY LenProperties DEF TypeOK
  <2>2. QED
    BY <2>1, TickProperties DEF TypeOK, Tick, Entries
<1>2. QED
  BY <1>1 DEF ListSorted

(* Who may put a call in the list: a client that is not stopping, the      *)
(* callback of a task that is enabled, or the dh callback that goes on.    *)
MayAdd(c) ==
    \/ pc[c.ctx] = "idle"
    \/ is_enabled[c.ctx][c.ztask]
    \/ pc[LOOP] = "dh_commit" /\ c.ztask = "commit"

(* What a step does to the list: nothing, one entry put in its place, one  *)
(* taken out, all dropped when the scheduler goes down, or time passes.    *)
LEMMA ListStep ==
    ASSUME TypeInv, [Next]_vars
    PROVE  \/ tasks_head' = tasks_head
           \/ \E c \in Calls, wake \in Delays : Insert(c, wake) /\ MayAdd(c)
           \/ \E k \in 1 .. Len(tasks_head) : tasks_head' = RemoveAt(tasks_head, k)
           \/ tasks_head' = <<>>
           \/ Tick
<1> USE DEF listVars
<1>0. TypeOK /\ Len(tasks_head) \in Nat /\ tasks_head \in Seq(Entries)
  BY LenProperties DEF TypeInv, TypeOK
<1>1. ASSUME NEW s \in Streams, NEW t \in Tasks, StartTask(s, t)
      PROVE  \/ tasks_head' = tasks_head
             \/ \E c \in Calls, wake \in Delays : Insert(c, wake) /\ MayAdd(c)
  <2> DEFINE c == [ctx |-> s, ztask |-> t]
  <2>1. c \in Calls /\ MayAdd(c)
    BY <1>1 DEF Calls, MayAdd, StartTask, Idle
  <2>2. tasks_head' = tasks_head \/ \E wake \in Delays : Insert(c, wake)
    BY <1>1 DEF StartTask, CallLater
  <2> HIDE DEF c
  <2>3. QED
    BY <2>1, <2>2
<1>2. ASSUME NEW s \in Streams, Client(s), ~ \E t \in Tasks : StartTask(s, t)
      PROVE  tasks_head' = tasks_head
  BY <1>2 DEF Client, ClientCancel, Stop, BeginCancel, WaitNotBusy, Wipe, Attach
<1>3. ASSUME NEW th \in Threads, CancelLock(th) \/ CancelScan(th)
      PROVE  \/ tasks_head' = tasks_head
             \/ \E k \in 1 .. Len(tasks_head) : tasks_head' = RemoveAt(tasks_head, k)
  <2>1. CASE RemoveFirstEntry(th)
    <3> DEFINE m == MatchingIndices(arg[th])
    <3>1. m \subseteq 1 .. Len(tasks_head) /\ m # {}
      BY <2>1 DEF MatchingIndices, RemoveFirstEntry
    <3>2. tasks_head' = RemoveAt(tasks_head, Min(m))
      BY <2>1 DEF RemoveFirstEntry
    <3> HIDE DEF m
    <3>3. Min(m) \in m
      <4>1. m \in SUBSET Nat
        BY <1>0, <3>1
      <4>2. QED
        BY <3>1, <4>1, MinIsLeast
    <3>4. QED
      BY <3>1, <3>2, <3>3
  <2>2. CASE ~RemoveFirstEntry(th)
    BY <1>3, <2>2 DEF CancelLock, CancelScan
  <2>3. QED
    BY <2>1, <2>2
<1>4. CASE Look
  <2>1. CASE tasks_head # <<>> /\ tasks_head' = Tail(tasks_head)
    <3>1. Len(tasks_head) > 0
      BY <1>0, <2>1, EmptySeq
    <3>2. 1 \in 1 .. Len(tasks_head)
      BY <1>0, <3>1
    <3>3. /\ Tail(tasks_head) \in Seq(Entries) /\ Len(Tail(tasks_head)) = Len(tasks_head) - 1
          /\ \A j \in 1 .. Len(tasks_head) - 1 : Tail(tasks_head)[j] = tasks_head[j + 1]
      BY <1>0, <2>1, HeadTailProperties
    <3>4. /\ RemoveAt(tasks_head, 1) \in Seq(Entries)
          /\ Len(RemoveAt(tasks_head, 1)) = Len(tasks_head) - 1
          /\ \A j \in 1 .. Len(tasks_head) - 1 :
                RemoveAt(tasks_head, 1)[j] = tasks_head[j + 1]
      BY <1>0, <3>2, RemoveAtProperties
    <3>5. Tail(tasks_head) = RemoveAt(tasks_head, 1)
      BY <1>0, <3>3, <3>4, SeqEqual
    <3>6. QED
      BY <2>1, <3>2, <3>5
  <2>2. CASE tasks_head' = tasks_head
    BY <2>2
  <2>3. QED
    BY <1>4, <2>1, <2>2 DEF Look
<1>5. CASE CallbackResend \/ DhRetry \/ DhCommit
  <2>1. task2run \in Calls
    BY <1>5 DEF TypeInv, LoopHasCall, CallbackResend, DhRetry, DhCommit
  <2>2. CASE CallbackResend \/ DhRetry
    BY <2>1, <2>2 DEF CallbackResend, DhRetry, CallLater, MayAdd, Enabled
  <2>3. CASE DhCommit
    <3> DEFINE c == [task2run EXCEPT !.ztask = "commit"]
    <3>1. c \in Calls /\ MayAdd(c)
      BY <2>1, <2>3 DEF DhCommit, Calls, MayAdd
    <3>2. tasks_head' = tasks_head \/ \E wake \in Delays : Insert(c, wake)
      BY <2>3 DEF DhCommit, CallLater
    <3> HIDE DEF c
    <3>3. QED
      BY <3>1, <3>2
  <2>4. QED
    BY <1>5, <2>2, <2>3
<1>6. CASE Loop /\ ~Look /\ ~CallbackResend /\ ~DhRetry /\ ~DhCommit
  BY <1>6 DEF Loop, Callback, LoopStart, LoopTop, SemWait, Repost, MarkBusy, ClearBusy,
              CallbackReturn, CallbackGiveUp, DhCheck, DhLock, DhAccepted, DhGiveUp,
              BeginCancel
<1>7. CASE DownStop \/ DownFree \/ Over
  BY <1>7 DEF DownStop, DownFree, Over, vars
<1>8. CASE UNCHANGED vars
  BY <1>8 DEF vars
<1>9. QED
  BY <1>1, <1>2, <1>3, <1>4, <1>5, <1>6, <1>7, <1>8 DEF Next

LEMMA SortedInit == Init => ListSorted
BY DEF Init, ListSorted

LEMMA SortedNext == TypeInv /\ ListSorted /\ [Next]_vars => ListSorted'
<1> SUFFICES ASSUME TypeInv, ListSorted, [Next]_vars PROVE ListSorted'
  OBVIOUS
<1>1. TypeOK
  BY DEF TypeInv
<1>2. CASE tasks_head' = tasks_head
  BY <1>2 DEF ListSorted
<1>3. CASE tasks_head' = <<>>
  BY <1>3 DEF ListSorted
<1>4. QED
  BY <1>1, <1>2, <1>3, ListStep, InsertKeepsSorted, RemoveKeepsSorted, TickKeepsSorted

(* on_call_later keeps the list in wake-up order, whatever calls are added *)
(* and removed by other threads while time passes: sched_loop may look at  *)
(* the head only (src/zrtp_iface_scheduler.c).                             *)
THEOREM ListStaysSorted == Spec => []ListSorted
BY TypeInvInit, TypeInvNext, SortedInit, SortedNext, PTL DEF Spec

-----------------------------------------------------------------------------
(* What a stopped stream leaves in the list.  Its flags are down from the  *)
(* first step of zrtp_stream_stop on, so no callback in progress puts its  *)
(* task back, and the scan that follows takes out what is there.  Two      *)
(* tasks escape: errorack, whose flag is never cleared, and the commit     *)
(* task, which a dh callback that outlives the stream starts.              *)

Stopping == {"stop_cancel", "stop_scan", "stop_wait", "gone"}

Escapes == {"errorack"} \cup {t \in {"commit"} : "dh" \in Tasks}

NoneBack(s) ==
    \A i \in 1 .. Len(tasks_head) :
        tasks_head[i].ctx = s => tasks_head[i].ztask \in Escapes

FlagsDown ==
    \A s \in Streams, t \in Tasks \ Escapes :
        pc[s] \in Stopping => ~is_enabled[s][t]

StopCancelsAll ==
    \A s \in Streams :
        pc[s] \in {"stop_cancel", "stop_scan"} => arg[s] = [ctx |-> s, ztask |-> NONE]

OnlyDhGoesOn ==
    \/ pc[LOOP] \in {"dh_lock", "dh", "dh_commit"}
    \/ pc[LOOP] \in {"cancel", "scan"} /\ arg[LOOP].ztask # NONE
    => "dh" \in Tasks

NoneBackInv == \A s \in Streams : pc[s] \in {"stop_wait", "gone"} => NoneBack(s)

StopInv == FlagsDown /\ StopCancelsAll /\ OnlyDhGoesOn /\ NoneBackInv

LEMMA NoneBackKept ==
    ASSUME TypeOK, NEW s \in Streams, NoneBack(s),
           \/ tasks_head' = tasks_head
           \/ \E c \in Calls, wake \in Delays :
                  Insert(c, wake) /\ (c.ctx = s => c.ztask \in Escapes)
           \/ \E k \in 1 .. Len(tasks_head) : tasks_head' = RemoveAt(tasks_head, k)
           \/ tasks_head' = <<>>
           \/ Tick
    PROVE  NoneBack(s)'
<1>0. /\ Len(tasks_head) \in Nat /\ tasks_head \in Seq(Entries)
      /\ \A k \in 1 .. Len(tasks_head) : tasks_head[k] \in Entries
  BY LenProperties DEF TypeOK
<1>1. CASE tasks_head' = tasks_head \/ tasks_head' = <<>>
  BY <1>1 DEF NoneBack
<1>2. ASSUME NEW c \in Calls, NEW wake \in Delays,
             Insert(c, wake), c.ctx = s => c.ztask \in Escapes
      PROVE  NoneBack(s)'
  <2> DEFINE p == InsertPosition(wake)
             e == [ctx |-> c.ctx, ztask |-> c.ztask, wake_at |-> wake]
  <2>1. wake \in Nat
    BY SchedulerAssumption
  <2>2. p \in 1 .. Len(tasks_head) + 1
    BY <2>1, InsertPositionRange
  <2>3. e \in Entries /\ e.ctx = c.ctx /\ e.ztask = c.ztask
    BY <2>1 DEF Calls, Entries
  <2>4. tasks_head' = InsertAt(tasks_head, p, e)
    BY <1>2 DEF Insert
  <2> HIDE DEF p, e
  <2>5. /\ Len(tasks_head') = Len(tasks_head) + 1
        /\ \A j \in 1 .. Len(tasks_head) + 1 : tasks_head'[j] =
               IF j < p THEN tasks_head[j] ELSE IF j = p THEN e ELSE tasks_head[j - 1]
    BY <1>0, <2>2, <2>3, <2>4, InsertAtProperties
  <2>6. ASSUME NEW j \in 1 .. Len(tasks_head) + 1, tasks_head'[j].ctx = s
        PROVE  tasks_head'[j].ztask \in Escapes
    <3>1. CASE j = p
      BY <1>2, <2>3, <2>5, <2>6, <3>1
    <3>2. CASE j < p
      <4>1. j \in 1 .. Len(tasks_head) /\ tasks_head'[j] = tasks_head[j]
        BY <1>0, <2>2, <2>5, <3>2
      <4>2. QED
        BY <2>6, <4>1 DEF NoneBack
    <3>3. CASE j > p
      <4>1. j - 1 \in 1 .. Len(tasks_head) /\ tasks_head'[j] = tasks_head[j - 1]
        BY <1>0, <2>2, <2>5, <3>3
      <4>2. QED
        BY <2>6, <4>1 DEF NoneBack
    <3>4. QED
      BY <1>0, <2>2, <3>1, <3>2, <3>3
  <2>7. QED
    BY <2>5, <2>6 DEF NoneBack
<1>3. ASSUME NEW k \in 1 .. Len(tasks_head), tasks_head' = RemoveAt(tasks_head, k)
      PROVE  NoneBack(s)'
  <2>1. /\ Len(tasks_head') = Len(tasks_head) - 1
        /\ \A j \in 1 .. Len(tasks_head) - 1 : tasks_head'[j] =
               IF j < k THEN tasks_head[j] ELSE tasks_head[j + 1]
    BY <1>0, <1>3, RemoveAtProperties
  <2>2. \A j \in 1 .. Len(tasks_head) - 1 :
            j \in 1 .. Len(tasks_head) /\ j + 1 \in 1 .. Len(tasks_head)
    BY <1>0
  <2>3. QED
    BY <2>1, <2>2 DEF NoneBack
<1>4. CASE Tick
  <2>1. /\ Len(tasks_head') = Len(tasks_head)
        /\ \A i \in 1 .. Len(tasks_head) : /\ tasks_head'[i].ctx = tasks_head[i].ctx
                                           /\ tasks_head'[i].ztask = tasks_head[i].ztask
    BY <1>0, <1>4, TickProperties DEF Tick
  <2>2. QED
    BY <2>1 DEF NoneBack
<1>5. QED
  BY <1>1, <1>2, <1>3, <1>4

(* The steps a client thread takes through zrtp_stream_stop. *)
LEMMA StreamStep ==
    ASSUME TypeInv, [Next]_vars, NEW s \in Streams
    PROVE  \/ pc'[s] = pc[s]
           \/ pc'[s] \in {"idle", "cancel", "scan"}
           \/ Stop(s) /\ pc'[s] = "stop_cancel"
           \/ CancelLock(s) /\ pc[s] = "stop_cancel" /\ pc'[s] = "stop_scan"
           \/ CancelScan(s) /\ AfterCancel(s) /\ pc[s] = "stop_scan" /\ pc'[s] = "stop_wait"
           \/ pc[s] = "stop_wait" /\ pc'[s] = "gone"
<1>0. /\ LOOP \in Threads /\ pc \in [Threads -> ClientPcs \cup LoopPcs]
      /\ \A u \in Streams : u \in Threads /\ u # LOOP
  BY SchedulerAssumption DEF Threads, TypeInv, TypeOK
<1>1. ASSUME NEW u \in Streams, NEW t \in Tasks, StartTask(u, t)
      PROVE  pc'[s] = pc[s]
  BY <1>1 DEF StartTask
<1>2. ASSUME NEW u \in Streams, NEW t \in Cancellable, ClientCancel(u, t)
      PROVE  pc'[s] = pc[s] \/ pc'[s] = "cancel"
  BY <1>0, <1>2 DEF ClientCancel, BeginCancel, Goto
<1>3. ASSUME NEW u \in Streams, Stop(u)
      PROVE  pc'[s] = pc[s] \/ (Stop(s) /\ pc'[s] = "stop_cancel")
  <2>1. CASE u = s
    BY <1>0, <1>3, <2>1 DEF Stop, BeginCancel, Goto
  <2>2. CASE u # s
    BY <1>0, <1>3, <2>2 DEF Stop, BeginCancel, Goto
  <2>3. QED
    BY <2>1, <2>2
<1>4. ASSUME NEW u \in Streams, WaitNotBusy(u) \/ Wipe(u) \/ Attach(u)
      PROVE  \/ pc'[s] = pc[s] \/ pc'[s] = "idle"
             \/ pc[s] = "stop_wait" /\ pc'[s] = "gone"
  BY <1>0, <1>4 DEF WaitNotBusy, Wipe, Attach, Goto
<1>5. ASSUME NEW th \in Threads, CancelLock(th)
      PROVE  \/ pc'[s] = pc[s] \/ pc'[s] = "scan"
             \/ CancelLock(s) /\ pc[s] = "stop_cancel" /\ pc'[s] = "stop_scan"
  BY <1>0, <1>5 DEF CancelLock, Goto
<1>6. ASSUME NEW th \in Threads, CancelScan(th)
      PROVE  \/ pc'[s] = pc[s] \/ pc'[s] = "idle"
             \/ /\ CancelScan(s) /\ AfterCancel(s)
                /\ pc[s] = "stop_scan" /\ pc'[s] = "stop_wait"
  BY <1>0, <1>6 DEF CancelScan, AfterCancel, AfterScan, Goto
<1>7. CASE Loop
  <2>1. UNCHANGED pc \/ \E l \in LoopPcs : Goto(LOOP, l)
    BY <1>7 DEF Loop, Callback, LoopStart, LoopTop, SemWait, Look, Repost, MarkBusy,
                ClearBusy, CallbackReturn, CallbackResend, CallbackGiveUp, DhCheck, DhLock,
                DhRetry, DhAccepted, DhGiveUp, DhCommit, DhUnlock, BeginCancel, LoopPcs
  <2>2. QED
    BY <1>0, <2>1 DEF Goto
<1>8. CASE DownStop \/ DownFree \/ Over \/ Tick
  BY <1>0, <1>8 DEF DownStop, DownFree, Over, vars, Tick, Goto
<1>9. CASE UNCHANGED vars
  BY <1>9 DEF vars
<1>10. QED
  BY <1>1, <1>2, <1>3, <1>4, <1>5, <1>6, <1>7, <1>8, <1>9 DEF Next, Client

LEMMA StopInvInit == Init => StopInv
BY SchedulerAssumption
   DEF Init, Threads, StopInv, FlagsDown, StopCancelsAll, OnlyDhGoesOn, NoneBackInv,
       Stopping

LEMMA OnlyDhGoesOnNext == TypeInv /\ OnlyDhGoesOn /\ [Next]_vars => OnlyDhGoesOn'
<1> SUFFICES ASSUME TypeInv, OnlyDhGoesOn, [Next]_vars PROVE OnlyDhGoesOn'
  OBVIOUS
<1>0. /\ LOOP \in Threads /\ pc \in [Threads -> ClientPcs \cup LoopPcs]
      /\ arg \in [Threads -> [ctx : Streams, ztask : Tasks \cup {NONE}] \cup {NONE}]
      /\ \A s \in Streams : s \in Threads /\ s # LOOP
  BY SchedulerAssumption DEF Threads, TypeInv, TypeOK
<1>1. ASSUME NEW s \in Streams, Client(s)
      PROVE  pc'[LOOP] = pc[LOOP] /\ arg'[LOOP] = arg[LOOP]
  BY <1>0, <1>1 DEF Client, StartTask, ClientCancel, Stop, BeginCancel, WaitNotBusy,
                    Wipe, Attach, Goto
<1>2. ASSUME NEW th \in Threads, CancelLock(th) \/ CancelScan(th)
      PROVE  OnlyDhGoesOn'
  <2>1. CASE th # LOOP
    <3>1. pc'[LOOP] = pc[LOOP] /\ arg'[LOOP] = arg[LOOP]
      BY <1>0, <1>2, <2>1 DEF CancelLock, CancelScan, AfterCancel, Goto
    <3>2. QED
      BY <3>1 DEF OnlyDhGoesOn
  <2>2. CASE th = LOOP /\ CancelLock(th)
    BY <1>0, <2>2 DEF CancelLock, Goto, OnlyDhGoesOn, TypeInv, LoopPcs
  <2>3. CASE th = LOOP /\ CancelScan(th) /\ UNCHANGED <<pc, arg>>
    BY <2>3 DEF OnlyDhGoesOn
  <2>4. CASE th = LOOP /\ CancelScan(th) /\ AfterCancel(th)
    <3>1. pc[LOOP] = "scan"
      BY <2>4 DEF CancelScan, TypeInv, LoopPcs
    <3>2. pc'[LOOP] \in {"ret", "dh_commit"} /\ (pc'[LOOP] = "dh_commit" => arg[LOOP].ztask # NONE)
      BY <1>0, <2>4 DEF AfterCancel, AfterScan, Goto
    <3>3. QED
      BY <3>1, <3>2 DEF OnlyDhGoesOn
  <2>5. QED
    BY <1>2, <2>1, <2>2, <2>3, <2>4 DEF CancelScan
<1>3. CASE LoopStart \/ LoopTop \/ SemWait \/ Look \/ Repost \/ MarkBusy \/ ClearBusy
  <2>1. pc'[LOOP] \in {"top", "exit", "sem_wait", "look", "popped", "repost", "callback"}
    <3>1. CASE LoopStart \/ LoopTop \/ SemWait \/ Repost
      BY <1>0, <3>1 DEF LoopStart, LoopTop, SemWait, Repost, Goto
    <3>2. CASE Look
      BY <1>0, <3>2 DEF Look, Goto
    <3>3. CASE MarkBusy \/ ClearBusy
      BY <1>0, <3>3 DEF MarkBusy, ClearBusy, Goto
    <3>4. QED
      BY <1>3, <3>1, <3>2, <3>3
  <2>2. QED
    BY <2>1 DEF OnlyDhGoesOn
<1>4. CASE CallbackReturn \/ CallbackResend \/ DhRetry \/ DhCommit
  <2>1. pc'[LOOP] = "ret"
    BY <1>0, <1>4 DEF CallbackReturn, CallbackResend, DhRetry, DhCommit, DhUnlock, Goto
  <2>2. QED
    BY <2>1 DEF OnlyDhGoesOn
<1>5. CASE CallbackGiveUp \/ DhGiveUp
  <2>1. pc'[LOOP] = "cancel" /\ arg'[LOOP].ztask = NONE
    BY <1>0, <1>5 DEF CallbackGiveUp, DhGiveUp, BeginCancel, Goto
  <2>2. QED
    BY <2>1 DEF OnlyDhGoesOn
<1>6. CASE DhCheck
  <2>1. task2run \in Calls /\ task2run.ztask = "dh"
    BY <1>6 DEF DhCheck, TypeInv, LoopHasCall
  <2>2. QED
    BY <2>1 DEF OnlyDhGoesOn, Calls
<1>7. CASE DhLock \/ DhAccepted
  <2>1. "dh" \in Tasks
    BY <1>7 DEF OnlyDhGoesOn, DhLock, DhAccepted
  <2>2. QED
    BY <2>1 DEF OnlyDhGoesOn
<1>8. CASE DownStop \/ DownFree \/ Tick
  BY <1>8 DEF DownStop, DownFree, Tick, OnlyDhGoesOn
<1>9. CASE Over
  BY <1>9 DEF Over, vars, OnlyDhGoesOn
<1>10. CASE UNCHANGED vars
  BY <1>10 DEF vars, OnlyDhGoesOn
<1>11. CASE \E s \in Streams : Client(s)
  BY <1>1, <1>11 DEF OnlyDhGoesOn
<1>12. QED
  BY <1>2, <1>3, <1>4, <1>5, <1>6, <1>7, <1>8, <1>9, <1>10, <1>11
     DEF Next, Loop, Callback

LEMMA StopCancelsAllNext == TypeInv /\ StopCancelsAll /\ [Next]_vars => StopCancelsAll'
<1> SUFFICES ASSUME TypeInv, StopCancelsAll, [Next]_vars, NEW s \in Streams,
                    pc'[s] \in {"stop_cancel", "stop_scan"}
             PROVE  arg'[s] = [ctx |-> s, ztask |-> NONE]
  BY DEF StopCancelsAll
<1>0. /\ LOOP \in Threads /\ pc \in [Threads -> ClientPcs \cup LoopPcs]
      /\ arg \in [Threads -> [ctx : Streams, ztask : Tasks \cup {NONE}] \cup {NONE}]
      /\ \A u \in Streams : u \in Threads /\ u # LOOP
  BY SchedulerAssumption DEF Threads, TypeInv, TypeOK
<1>1. CASE Stop(s)
  BY <1>0, <1>1 DEF Stop, BeginCancel
<1>2. CASE CancelLock(s) /\ pc[s] = "stop_cancel"
  BY <1>2 DEF CancelLock, StopCancelsAll
<1>3. CASE pc'[s] = pc[s]
  <2>1. arg[s] = [ctx |-> s, ztask |-> NONE]
    BY <1>3 DEF StopCancelsAll
  <2>2. ASSUME NEW u \in Streams, NEW t \in Cancellable, ClientCancel(u, t)
        PROVE  arg'[s] = arg[s]
    BY <1>0, <1>3, <2>2 DEF ClientCancel, BeginCancel, Idle, Goto
  <2>3. ASSUME NEW u \in Streams, Stop(u)
        PROVE  arg'[s] = arg[s]
    BY <1>0, <1>3, <2>3 DEF Stop, BeginCancel, Idle, Goto
  <2>4. ASSUME NEW th \in Threads, CancelScan(th)
        PROVE  arg'[s] = arg[s]
    BY <1>0, <1>3, <2>4 DEF CancelScan, AfterCancel, AfterScan, Goto
  <2>5. CASE CallbackGiveUp \/ DhAccepted \/ DhGiveUp
    BY <1>0, <2>1, <2>5 DEF CallbackGiveUp, DhAccepted, DhGiveUp, BeginCancel
  <2>6. ASSUME NEW u \in Streams, NEW t \in Tasks, StartTask(u, t)
        PROVE  arg' = arg
    BY <2>6 DEF StartTask
  <2>7. ASSUME NEW u \in Streams, WaitNotBusy(u) \/ Wipe(u) \/ Attach(u)
        PROVE  arg' = arg
    BY <2>7 DEF WaitNotBusy, Wipe, Attach
  <2>8. ASSUME NEW th \in Threads, CancelLock(th)
        PROVE  arg' = arg
    BY <2>8 DEF CancelLock
  <2>9. CASE Loop /\ ~CallbackGiveUp /\ ~DhAccepted /\ ~DhGiveUp
    BY <2>1, <2>9 DEF Loop, Callback, LoopStart, LoopTop, SemWait, Look, Repost, MarkBusy,
                ClearBusy, CallbackReturn, CallbackResend, DhCheck, DhLock, DhRetry, DhCommit
  <2>10. CASE DownStop \/ DownFree \/ Over \/ Tick \/ UNCHANGED vars
    BY <2>1, <2>10 DEF DownStop, DownFree, Over, Tick, vars
  <2>11. QED
    BY <2>1, <2>2, <2>3, <2>4, <2>5, <2>6, <2>7, <2>8, <2>9, <2>10 DEF Next, Client
<1>4. QED
  BY <1>1, <1>2, <1>3, StreamStep

(* What a step does to the flags of a stream. *)
LEMMA FlagStep ==
    ASSUME TypeInv, [Next]_vars, NEW s \in Streams, NEW t \in Tasks, is_enabled'[s][t]
    PROVE  \/ is_enabled[s][t] /\ (Stop(s) => t \notin ClearedByNone)
           \/ pc[s] = "idle" /\ pc'[s] = "idle"
           \/ pc[LOOP] = "dh_commit" /\ t = "commit" /\ pc'[s] = pc[s]
<1> USE DEF flagVars
<1>0. /\ LOOP \in Threads /\ pc \in [Threads -> ClientPcs \cup LoopPcs]
      /\ is_enabled \in [Streams -> [Tasks -> BOOLEAN]]
      /\ \A u \in Streams : u \in Threads /\ u # LOOP
  BY SchedulerAssumption DEF Threads, TypeInv, TypeOK
<1>1. ASSUME NEW u \in Streams, NEW v \in Tasks, StartTask(u, v)
      PROVE  (is_enabled[s][t] /\ ~Stop(s)) \/ (pc[s] = "idle" /\ pc'[s] = "idle")
  <2>1. CASE u = s
    BY <1>1, <2>1 DEF StartTask, Idle
  <2>2. CASE u # s
    <3>1. is_enabled[s][t] /\ pc' = pc
      BY <1>0, <1>1, <2>2 DEF StartTask
    <3>2. ~Stop(s)
      BY <1>0, <3>1 DEF Stop, Idle, BeginCancel, Goto
    <3>3. QED
      BY <3>1, <3>2
  <2>3. QED
    BY <2>1, <2>2
<1>2. ASSUME NEW th \in Threads, NEW u \in Streams, NEW v, Disable(u, v)
      PROVE  is_enabled[s][t]
  BY <1>0, <1>2 DEF Disable
<1>3. ASSUME Stop(s) PROVE t \notin ClearedByNone
  BY <1>0, <1>3 DEF Stop, BeginCancel, Disable
<1>4. CASE DhCommit
  <2>0. task2run.ctx \in Streams
    BY <1>4 DEF DhCommit, TypeInv, LoopHasCall, Calls
  <2>1. CASE task2run.ctx = s /\ t = "commit"
    BY <1>0, <1>4, <2>1 DEF DhCommit, DhUnlock, Goto
  <2>2. CASE ~(task2run.ctx = s /\ t = "commit")
    BY <1>0, <1>3, <1>4, <2>0, <2>2 DEF DhCommit
  <2>3. QED
    BY <2>1, <2>2
<1>5. CASE \E u \in Streams : Client(u)
  <2>1. PICK u \in Streams : Client(u)
    BY <1>5
  <2>2. CASE \E v \in Tasks : StartTask(u, v)
    BY <1>1, <2>2
  <2>3. CASE (\E v \in Cancellable : ClientCancel(u, v)) \/ Stop(u)
    <3>1. \E v : Disable(u, v)
      BY <2>3 DEF ClientCancel, Stop, BeginCancel
    <3>2. QED
      BY <1>0, <1>2, <1>3, <3>1
  <2>4. CASE Wipe(u)
    <3>1. is_enabled[s][t]
      BY <1>0, <2>4 DEF Wipe
    <3>2. QED
      BY <1>3, <3>1
  <2>5. CASE WaitNotBusy(u) \/ Attach(u)
    BY <1>3, <2>5 DEF WaitNotBusy, Attach
  <2>6. QED
    BY <2>1, <2>2, <2>3, <2>4, <2>5 DEF Client
<1>6. CASE \E th \in Threads : CancelLock(th) \/ CancelScan(th)
  BY <1>3, <1>6 DEF CancelLock, CancelScan
<1>7. CASE CallbackGiveUp \/ DhAccepted \/ DhGiveUp
  <2>1. task2run.ctx \in Streams
    BY <1>7 DEF CallbackGiveUp, DhAccepted, DhGiveUp, TypeInv, LoopHasCall, Calls
  <2>2. \E v : Disable(task2run.ctx, v)
    BY <1>7 DEF CallbackGiveUp, DhAccepted, DhGiveUp, BeginCancel
  <2>3. QED
    BY <1>0, <1>2, <1>3, <2>1, <2>2
<1>8. CASE Loop /\ ~CallbackGiveUp /\ ~DhAccepted /\ ~DhGiveUp /\ ~DhCommit
  <2>1. is_enabled' = is_enabled
    BY <1>8 DEF Loop, Callback, LoopStart, LoopTop, SemWait, Look, Repost, MarkBusy,
                ClearBusy, CallbackReturn, CallbackResend, DhCheck, DhLock, DhRetry
  <2>2. QED
    BY <1>3, <2>1
<1>9. CASE DownStop \/ DownFree \/ Over \/ Tick \/ UNCHANGED vars
  <2>1. is_enabled' = is_enabled
    BY <1>9 DEF DownStop, DownFree, Over, Tick, vars
  <2>2. QED
    BY <1>3, <2>1
<1>10. QED
  BY <1>4, <1>5, <1>6, <1>7, <1>8, <1>9 DEF Next

LEMMA StopInvNext == TypeInv /\ StopInv /\ [Next]_vars => StopInv'
<1> SUFFICES ASSUME TypeInv, StopInv, [Next]_vars PROVE StopInv'
  OBVIOUS
<1>1. OnlyDhGoesOn' /\ StopCancelsAll'
  BY OnlyDhGoesOnNext, StopCancelsAllNext DEF StopInv
<1>2. ASSUME NEW s \in Streams, NEW t \in Tasks \ Escapes, pc'[s] \in Stopping
      PROVE  ~is_enabled'[s][t]
  <2> SUFFICES ASSUME is_enabled'[s][t] PROVE FALSE
    OBVIOUS
  <2>1. pc[s] \notin Stopping \/ ~is_enabled[s][t]
    BY DEF StopInv, FlagsDown
  <2>2. ~(pc[LOOP] = "dh_commit" /\ t = "commit")
    BY DEF StopInv, OnlyDhGoesOn, Escapes
  <2>3. is_enabled[s][t] /\ (Stop(s) => t \notin ClearedByNone)
    BY <1>2, <2>2, FlagStep DEF Stopping
  <2>4. t \in ClearedByNone
    BY SchedulerAssumption DEF ClearedByNone, Escapes
  <2>5. QED
    BY <1>2, <2>1, <2>3, <2>4, StreamStep DEF Stopping
<1>3. ASSUME NEW s \in Streams, pc'[s] \in {"stop_wait", "gone"}
      PROVE  NoneBack(s)'
  <2>1. CASE pc[s] \in {"stop_wait", "gone"}
    <3>1. NoneBack(s)
      BY <2>1 DEF StopInv, NoneBackInv
    <3>2. ASSUME NEW c \in Calls, MayAdd(c), c.ctx = s
          PROVE  c.ztask \in Escapes
      <4>1. c.ztask \in Tasks
        BY DEF Calls
      <4>2. pc[s] # "idle" /\ (is_enabled[s][c.ztask] => c.ztask \in Escapes)
        BY <2>1, <4>1 DEF StopInv, FlagsDown, Stopping
      <4>3. pc[LOOP] = "dh_commit" /\ c.ztask = "commit" => c.ztask \in Escapes
        BY DEF StopInv, OnlyDhGoesOn, Escapes
      <4>4. QED
        BY <3>2, <4>2, <4>3 DEF MayAdd
    <3>3. TypeOK
      BY DEF TypeInv
    <3>4. QED
      BY <3>1, <3>2, <3>3, ListStep, NoneBackKept
  <2>2. CASE CancelScan(s) /\ AfterCancel(s) /\ pc[s] = "stop_scan"
    <3>1. arg[s] = [ctx |-> s, ztask |-> NONE]
      BY <2>2 DEF StopInv, StopCancelsAll
    <3>2. ~UNCHANGED pc
      <4>1. /\ pc \in [Threads -> ClientPcs \cup LoopPcs]
            /\ s \in Threads /\ s # LOOP
        BY SchedulerAssumption DEF TypeInv, TypeOK, Threads
      <4>2. QED
        BY <2>2, <4>1 DEF AfterCancel, AfterScan, Goto
    <3>3. MatchingIndices(arg[s]) = {} /\ tasks_head' = tasks_head
      BY <2>2, <3>1, <3>2 DEF CancelScan, listVars
    <3>4. \A i \in 1 .. Len(tasks_head) : tasks_head[i].ctx # s
      BY <3>1, <3>3 DEF MatchingIndices, Matches
    <3>5. QED
      BY <3>3, <3>4 DEF NoneBack
  <2>3. QED
    BY <1>3, <2>1, <2>2, StreamStep
<1>4. QED
  BY <1>1, <1>2, <1>3 DEF StopInv, FlagsDown, NoneBackInv

(* Whatever callback is in progress when zrtp_stream_stop cancels the      *)
(* tasks of a stream, nothing of the stream is in the list afterwards but  *)
(* an errorack task (cleared by no cancel, src/zrtp_utils_proto.c:600) or  *)
(* a commit task started by a dh callback.                                 *)
THEOREM OnlyEscapesAfterTermination ==
    Spec => [](\A s \in Streams : pc[s] \in {"stop_wait", "gone"} =>
                  \A i \in 1 .. Len(tasks_head) :
                      tasks_head[i].ctx = s => tasks_head[i].ztask \in Escapes)
<1>1. StopInv => \A s \in Streams : pc[s] \in {"stop_wait", "gone"} =>
                     \A i \in 1 .. Len(tasks_head) :
                         tasks_head[i].ctx = s => tasks_head[i].ztask \in Escapes
  BY DEF StopInv, NoneBackInv, NoneBack
<1>2. QED
  BY TypeInvInit, TypeInvNext, StopInvInit, StopInvNext, <1>1, PTL DEF Spec

(* Where neither of the two is among the tasks, no entry of a terminated   *)
(* stream comes back (include/zrtp_engine.h:270).                          *)
THEOREM NoneAfterTermination ==
    ASSUME "errorack" \notin Tasks, "dh" \notin Tasks
    PROVE  Spec => []NoEntryAfterTermination
<1>1. TypeInv /\ StopInv => NoEntryAfterTermination
  <2> SUFFICES ASSUME TypeInv, StopInv, NEW s \in Streams,
                      pc[s] \in {"stop_wait", "gone"}, NEW i \in 1 .. Len(tasks_head)
               PROVE  tasks_head[i].ctx # s
    BY DEF NoEntryAfterTermination
  <2>1. tasks_head[i].ctx = s => tasks_head[i].ztask \in Escapes
    BY DEF StopInv, NoneBackInv, NoneBack
  <2>2. tasks_head[i].ztask \in Tasks
    <3>1. tasks_head[i] \in Entries
      BY LenProperties DEF TypeInv, TypeOK
    <3>2. QED
      BY <3>1 DEF Entries
  <2>3. Tasks \cap Escapes = {}
    BY DEF Escapes
  <2>4. QED
    BY <2>1, <2>2, <2>3
<1>2. QED
  BY TypeInvInit, TypeInvNext, StopInvInit, StopInvNext, <1>1, PTL DEF Spec

(* "Any delay call for the stream will not be performed after               *)
(* on_wait_call_later()" (include/zrtp_iface.h:164) is not so, and this is  *)
(* how far it goes: once zrtp_stream_stop has cancelled the tasks of a      *)
(* stream, sched_loop takes no further call of it from the list but an      *)
(* errorack or a commit.  So the only other call that can still run is the  *)
(* one it had taken before (src/zrtp_iface_scheduler.c:169).                *)
NoPopAfterStop ==
    [][\A s \in Streams : pc[s] \in {"stop_wait", "gone"} =>
          \/ task2run' = task2run
          \/ task2run' = NONE
          \/ task2run'.ctx # s
          \/ task2run'.ztask \in Escapes]_vars

(* Cancelled entries do not come back (StopInv), so sched_loop finds none   *)
(* of them at the head of the list.                                         *)
THEOREM NothingPoppedAfterStop == Spec => NoPopAfterStop
<1> DEFINE Kept(s) == \/ task2run' = task2run
                      \/ task2run' = NONE
                      \/ task2run'.ctx # s
                      \/ task2run'.ztask \in Escapes
<1>1. TypeInv /\ StopInv /\ [Next]_vars =>
          \A s \in Streams : pc[s] \in {"stop_wait", "gone"} => Kept(s)
  <2> SUFFICES ASSUME TypeInv, StopInv, [Next]_vars, NEW s \in Streams,
                      pc[s] \in {"stop_wait", "gone"}
               PROVE  Kept(s)
    OBVIOUS
  <2>1. CASE Look /\ tasks_head # <<>> /\ task2run' =
                [ctx |-> Head(tasks_head).ctx, ztask |-> Head(tasks_head).ztask]
    <3>1. tasks_head \in Seq(Entries)
      BY DEF TypeInv, TypeOK
    <3>2. 1 \in 1 .. Len(tasks_head) /\ Head(tasks_head) = tasks_head[1]
      BY <2>1, <3>1
    <3>3. tasks_head[1].ctx = s => tasks_head[1].ztask \in Escapes
      BY <3>2 DEF StopInv, NoneBackInv, NoneBack
    <3>4. /\ task2run'.ctx = tasks_head[1].ctx
          /\ task2run'.ztask = tasks_head[1].ztask
      BY <2>1, <3>2
    <3>5. QED
      BY <3>3, <3>4
  <2>2. CASE Look /\ task2run' = task2run
    BY <2>2
  <2>3. Look => \/ task2run' = task2run
                \/ /\ tasks_head # <<>>
                   /\ task2run' = [ctx |-> Head(tasks_head).ctx,
                                   ztask |-> Head(tasks_head).ztask]
    BY DEF Look
  <2>4. CASE ClearBusy
    BY <2>4 DEF ClearBusy
  <2>5. CASE UNCHANGED vars
    BY <2>5 DEF vars
  <2>6. CASE \/ LoopStart \/ LoopTop \/ SemWait \/ Repost \/ MarkBusy
             \/ DownStop \/ DownFree \/ Over \/ Tick
    BY <2>6 DEF LoopStart, LoopTop, SemWait, Repost, MarkBusy, DownStop, DownFree,
                Over, vars, Tick
  <2>7. CASE Callback
    BY <2>7 DEF Callback, CallbackReturn, CallbackResend, CallbackGiveUp, DhCheck, DhLock,
                DhRetry, DhAccepted, DhGiveUp, DhCommit, BeginCancel
  <2>8. CASE \E th \in Threads : CancelLock(th) \/ CancelScan(th)
    BY <2>8 DEF CancelLock, CancelScan
  <2>9. CASE \E u \in Streams : Client(u)
    BY <2>9 DEF Client, StartTask, ClientCancel, Stop, WaitNotBusy, Wipe, Attach, BeginCancel
  <2>10. QED
    BY <2>1, <2>2, <2>3, <2>4, <2>5, <2>6, <2>7, <2>8, <2>9 DEF Next, Loop
<1>2. QED
  BY TypeInvInit, TypeInvNext, StopInvInit, StopInvNext, <1>1, PTL DEF Spec, NoPopAfterStop

=============================================================================
