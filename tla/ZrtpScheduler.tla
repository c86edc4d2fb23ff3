--------------------------- MODULE ZrtpScheduler ---------------------------
(***************************************************************************)
(* The built-in scheduler of libzrtp (src/zrtp_iface_scheduler.c): one     *)
(* thread runs sched_loop over a list of delayed calls ordered by their    *)
(* wake-up time, guarded by the mutex `protector` and announced through    *)
(* the counting semaphore `count`.  The threads that own the streams add   *)
(* calls (on_call_later), remove them (on_cancel_call_later) and, before a *)
(* stream is wiped, wait for running callbacks (on_wait_call_later).       *)
(*                                                                         *)
(* Time is relative: `wake_at` is what is left of the timeout and Tick     *)
(* lets a unit of time pass.  A callback is abstracted to what it may do   *)
(* to the scheduler: return, put its own task back, give up and cancel     *)
(* every task of its stream, or (the dh task) start the commit task.       *)
(*                                                                         *)
(* The module is one life of the scheduler, from zrtp_init to zrtp_down.   *)
(* What a zrtp_init after a zrtp_down may find left of the life before is  *)
(* in ZrtpSchedulerLives.                                                  *)
(***************************************************************************)
EXTENDS Integers, Sequences, SequencesExt, FiniteSets

CONSTANTS
    Streams,    \* zrtp_stream_t contexts, each driven by one client thread
    Tasks,      \* the retry tasks of a stream that take part
    Delays,     \* the timeouts a task can be queued with
    Started,    \* bound: the calls <<stream, task>> that client threads start
    MaxQueue,   \* bound: no new task is started when the list is this long
    LOOP,       \* the scheduler thread
    NONE        \* no task (the `ztask == NULL` of a cancel), or no thread

AllTasks == {"hello", "commit", "dhpart", "confirm", "error", "errorack",
             "goclear", "dh", "sasrelay"}

ASSUME SchedulerAssumption ==
    /\ Streams # {}
    /\ Tasks \subseteq AllTasks /\ Tasks # {}
    /\ "dh" \in Tasks => "commit" \in Tasks
    /\ Delays \subseteq Nat \ {0}
    /\ Started \subseteq Streams \X Tasks
    /\ MaxQueue \in Nat
    /\ LOOP \notin Streams
    /\ NONE \notin Streams \cup {LOOP} \cup Tasks

Threads == Streams \cup {LOOP}
Calls   == [ctx : Streams, ztask : Tasks]
Entries == [ctx : Streams, ztask : Tasks, wake_at : Nat]

VARIABLES
    tasks_head,       \* the list of delayed calls, soonest first
    count,            \* the semaphore
    protector,        \* the thread that holds the list mutex, or NONE
    stream_protector, \* per stream, the thread that holds its mutex, or NONE
    is_enabled,       \* _is_enabled of every task of every stream
    is_busy,          \* _is_busy of every task of every stream
    pc,               \* where every thread is
    arg,              \* what a thread cancels; ztask is NONE for all tasks
    task2run,         \* the call sched_loop has taken from the list
    waited,           \* per stream, tasks on_wait_call_later has passed
    is_running,       \* cleared by zrtp_def_scheduler_down
    is_working,       \* set and cleared by sched_loop
    down              \* progress of zrtp_def_scheduler_down

vars == <<tasks_head, count, protector, stream_protector, is_enabled, is_busy,
          pc, arg, task2run, waited, is_running, is_working, down>>

flagVars == <<is_enabled, is_busy>>
lifeVars == <<is_running, is_working, down>>
listVars == <<tasks_head, count>>

ClientPcs == {"idle", "cancel", "scan", "stop_cancel", "stop_scan",
              "stop_wait", "gone"}
LoopPcs   == {"new", "top", "sem_wait", "look", "repost", "popped", "callback",
              "dh_lock", "dh", "dh_commit", "cancel", "scan", "ret", "exit"}
DownPcs   == {"up", "down_wait", "destroyed"}

-----------------------------------------------------------------------------
(* The order in which on_wait_call_later polls the busy flags. *)
WaitOrder == <<"hello", "commit", "dhpart", "confirm", "error", "errorack",
               "goclear", "dh">>

(* The tasks whose flag _zrtp_cancel_send_packet_later(ZRTP_NONE) clears. *)
ClearedByNone == AllTasks \ {"errorack"}

(* What it can be asked to cancel: it has no case for the errorack task. *)
Cancellable == (Tasks \ {"errorack"}) \cup {NONE}

Matches(entry, c) ==
    entry.ctx = c.ctx /\ (c.ztask = NONE \/ entry.ztask = c.ztask)

Listed(s, t) ==
    \E i \in 1 .. Len(tasks_head) :
        tasks_head[i].ctx = s /\ tasks_head[i].ztask = t

MatchingIndices(c) ==
    {i \in 1 .. Len(tasks_head) : Matches(tasks_head[i], c)}

(* Variant: every entry goes to the end of the list. *)
AppendPosition(wake) == Len(tasks_head) + 1

(* The place of a new entry: before the first one that wakes no sooner. *)
InsertPosition(wake) ==
    LET later == {i \in 1 .. Len(tasks_head) : tasks_head[i].wake_at >= wake}
    IN  IF later = {} THEN Len(tasks_head) + 1
        ELSE Min(later)

(* Variant: a unit is posted only when the list was empty. *)
InsertPostWhenEmpty(c, wake) ==
    /\ tasks_head' = InsertAt(tasks_head, InsertPosition(wake),
                          [ctx |-> c.ctx, ztask |-> c.ztask, wake_at |-> wake])
    /\ count' = IF tasks_head = <<>> THEN count + 1 ELSE count

Insert(c, wake) ==
    /\ tasks_head' = InsertAt(tasks_head, InsertPosition(wake),
                          [ctx |-> c.ctx, ztask |-> c.ztask, wake_at |-> wake])
    /\ count' = count + 1

(* on_call_later of an enabled task; the allocation of the entry can fail. *)
CallLater(c) ==
    \/ \E wake \in Delays : Insert(c, wake)
    \/ UNCHANGED listVars

Goto(t, label) == pc' = [pc EXCEPT ![t] = label]

-----------------------------------------------------------------------------
Init ==
    /\ tasks_head = <<>>
    /\ count = 0
    /\ protector = NONE
    /\ stream_protector = [s \in Streams |-> NONE]
    /\ is_enabled = [s \in Streams |-> [t \in Tasks |-> FALSE]]
    /\ is_busy = [s \in Streams |-> [t \in Tasks |-> FALSE]]
    /\ pc = [t \in Threads |-> IF t = LOOP THEN "new" ELSE "idle"]
    /\ arg = [t \in Threads |-> NONE]
    /\ task2run = NONE
    /\ waited = [s \in Streams |-> 0]
    /\ is_running = TRUE
    /\ is_working = FALSE
    /\ down = "up"

-----------------------------------------------------------------------------
(* A client thread, inside its stream's mutex.                             *)

Idle(s) == pc[s] = "idle" /\ stream_protector[s] = NONE

(* _zrtp_machine_start_send_and_resend_*: enable the task, then run its    *)
(* callback once in place, which queues it.  No handler starts a task that *)
(* is still in the list.                                                   *)
StartTask(s, t) ==
    /\ Idle(s)
    /\ <<s, t>> \in Started
    /\ protector = NONE
    /\ Len(tasks_head) < MaxQueue
    /\ ~Listed(s, t)
    /\ is_enabled' = [is_enabled EXCEPT ![s][t] = TRUE]
    /\ CallLater([ctx |-> s, ztask |-> t])
    /\ UNCHANGED <<protector, stream_protector, is_busy, pc, arg, task2run, waited, lifeVars>>

(* Variant: a cancel of all tasks leaves their flags set. *)
DisableOne(s, t) ==
    is_enabled' = [is_enabled EXCEPT ![s] =
        [u \in Tasks |-> IF u = t THEN FALSE ELSE @[u]]]

(* The flags that a cancel of `t` clears before it touches the list. *)
Disable(s, t) ==
    is_enabled' = [is_enabled EXCEPT ![s] =
        [u \in Tasks |-> IF u = t \/ (t = NONE /\ u \in ClearedByNone)
                         THEN FALSE ELSE @[u]]]

(* _zrtp_cancel_send_packet_later by thread th, up to the call of          *)
(* on_cancel_call_later.                                                   *)
BeginCancel(th, s, t, label) ==
    /\ Disable(s, t)
    /\ arg' = [arg EXCEPT ![th] = [ctx |-> s, ztask |-> t]]
    /\ Goto(th, label)
    /\ UNCHANGED <<listVars, protector, is_busy, task2run, waited, lifeVars>>

ClientCancel(s, t) ==
    /\ Idle(s)
    /\ stream_protector' = [stream_protector EXCEPT ![s] = s]
    /\ BeginCancel(s, s, t, "cancel")

(* zrtp_stream_stop up to its call of on_cancel_call_later. *)
Stop(s) ==
    /\ Idle(s)
    /\ stream_protector' = [stream_protector EXCEPT ![s] = s]
    /\ BeginCancel(s, s, NONE, "stop_cancel")

(* on_cancel_call_later takes the list mutex ... *)
CancelLock(th) ==
    /\ pc[th] \in {"cancel", "stop_cancel"}
    /\ protector = NONE
    /\ protector' = th
    /\ Goto(th, IF pc[th] = "cancel" THEN "scan" ELSE "stop_scan")
    /\ UNCHANGED <<listVars, stream_protector, flagVars, arg, task2run, waited, lifeVars>>

(* Variants: the unit is taken without looking, or not at all. *)
RemoveFirstEntryBlindly(th) ==
    /\ MatchingIndices(arg[th]) # {}
    /\ tasks_head' = RemoveAt(tasks_head, Min(MatchingIndices(arg[th])))
    /\ count' = count - 1

RemoveFirstEntryOnly(th) ==
    /\ MatchingIndices(arg[th]) # {}
    /\ tasks_head' = RemoveAt(tasks_head, Min(MatchingIndices(arg[th])))
    /\ UNCHANGED count

(* ... and deletes the first matching entry, with one sem_trywait ... *)
RemoveFirstEntry(th) ==
    /\ MatchingIndices(arg[th]) # {}
    /\ tasks_head' = RemoveAt(tasks_head, Min(MatchingIndices(arg[th])))
    /\ count' = IF count > 0 THEN count - 1 ELSE 0

(* What a thread goes on to when its cancel is done. *)
AfterScan(th) ==
    IF th # LOOP THEN IF pc[th] = "scan" THEN "idle" ELSE "stop_wait"
    ELSE IF arg[th].ztask = NONE THEN "ret" ELSE "dh_commit"

AfterCancel(th) ==
    /\ protector' = NONE
    /\ arg' = [arg EXCEPT ![th] = NONE]
    /\ Goto(th, AfterScan(th))
    /\ stream_protector' =
           IF AfterScan(th) \in {"idle", "ret"}
           THEN [s \in Streams |-> IF stream_protector[s] = th THEN NONE
                                   ELSE stream_protector[s]]
           ELSE stream_protector

(* ... going on to the next one only when it was asked to remove all. *)
CancelScan(th) ==
    /\ pc[th] \in {"scan", "stop_scan"}
    /\ \/ /\ RemoveFirstEntry(th)
          /\ IF arg[th].ztask = NONE
             THEN UNCHANGED <<protector, stream_protector, pc, arg>>
             ELSE AfterCancel(th)
       \/ /\ MatchingIndices(arg[th]) = {}
          /\ AfterCancel(th)
          /\ UNCHANGED listVars
    /\ UNCHANGED <<flagVars, task2run, waited, lifeVars>>

(* on_wait_call_later: pass the next task once its flag is down. *)
WaitNotBusy(s) ==
    /\ pc[s] = "stop_wait"
    /\ waited[s] < Len(WaitOrder)
    /\ LET t == WaitOrder[waited[s] + 1]
       IN  t \in Tasks => ~is_busy[s][t]
    /\ waited' = [waited EXCEPT ![s] = @ + 1]
    /\ UNCHANGED <<listVars, protector, stream_protector, flagVars, pc, arg, task2run, lifeVars>>

(* The rest of zrtp_stream_stop: the mutex is destroyed and the stream wiped. *)
Wipe(s) ==
    /\ pc[s] = "stop_wait"
    /\ waited[s] = Len(WaitOrder)
    /\ Goto(s, "gone")
    /\ waited' = [waited EXCEPT ![s] = 0]
    /\ stream_protector' = [stream_protector EXCEPT ![s] = NONE]
    /\ is_enabled' = [is_enabled EXCEPT ![s] = [t \in Tasks |-> FALSE]]
    /\ is_busy' = [is_busy EXCEPT ![s] = [t \in Tasks |-> FALSE]]
    /\ UNCHANGED <<listVars, protector, arg, task2run, lifeVars>>

(* zrtp_stream_attach gives the slot to a new stream. *)
Attach(s) ==
    /\ pc[s] = "gone"
    /\ down = "up"
    /\ Goto(s, "idle")
    /\ UNCHANGED <<listVars, protector, stream_protector, flagVars, arg, task2run, waited, lifeVars>>

Client(s) ==
    \/ \E t \in Tasks : StartTask(s, t)
    \/ \E t \in Cancellable : ClientCancel(s, t)
    \/ Stop(s)
    \/ WaitNotBusy(s)
    \/ Wipe(s)
    \/ Attach(s)

-----------------------------------------------------------------------------
(* sched_loop. *)

LoopStart ==
    /\ pc[LOOP] = "new"
    /\ is_working' = TRUE
    /\ Goto(LOOP, "top")
    /\ UNCHANGED <<listVars, protector, stream_protector, flagVars, arg, task2run, waited, is_running, down>>

LoopTop ==
    /\ pc[LOOP] = "top"
    /\ IF is_running
       THEN Goto(LOOP, "sem_wait") /\ UNCHANGED is_working
       ELSE Goto(LOOP, "exit") /\ is_working' = FALSE
    /\ UNCHANGED <<listVars, protector, stream_protector, flagVars, arg, task2run, waited, is_running, down>>

SemWait ==
    /\ pc[LOOP] = "sem_wait"
    /\ count > 0
    /\ count' = count - 1
    /\ Goto(LOOP, "look")
    /\ UNCHANGED <<tasks_head, protector, stream_protector, flagVars, arg, task2run, waited, lifeVars>>

(* Variant: the unit is dropped when the head is not due. *)
LookAndForget ==
    /\ pc[LOOP] = "look"
    /\ protector = NONE
    /\ \/ /\ tasks_head = <<>> \/ Head(tasks_head).wake_at > 0
          /\ Goto(LOOP, "top")
          /\ UNCHANGED <<tasks_head, task2run>>
       \/ /\ tasks_head # <<>>
          /\ Head(tasks_head).wake_at = 0
          /\ task2run' = [ctx |-> Head(tasks_head).ctx,
                          ztask |-> Head(tasks_head).ztask]
          /\ tasks_head' = Tail(tasks_head)
          /\ Goto(LOOP, "popped")
    /\ UNCHANGED <<count, protector, stream_protector, flagVars, arg, waited, lifeVars>>

(* Under the mutex: nothing there, a due head to take, or too early. *)
Look ==
    /\ pc[LOOP] = "look"
    /\ protector = NONE
    /\ \/ /\ tasks_head = <<>>
          /\ Goto(LOOP, "top")
          /\ UNCHANGED <<tasks_head, task2run>>
       \/ /\ tasks_head # <<>>
          /\ Head(tasks_head).wake_at = 0
          /\ task2run' = [ctx |-> Head(tasks_head).ctx,
                          ztask |-> Head(tasks_head).ztask]
          /\ tasks_head' = Tail(tasks_head)
          /\ Goto(LOOP, "popped")
       \/ /\ tasks_head # <<>>
          /\ Head(tasks_head).wake_at > 0
          /\ Goto(LOOP, "repost")
          /\ UNCHANGED <<tasks_head, task2run>>
    /\ UNCHANGED <<count, protector, stream_protector, flagVars, arg, waited, lifeVars>>

(* Variant: the unit is not given back. *)
RepostNothing ==
    /\ pc[LOOP] = "repost"
    /\ Goto(LOOP, "top")
    /\ UNCHANGED <<listVars, protector, stream_protector, flagVars, arg, task2run, waited, lifeVars>>

Repost ==
    /\ pc[LOOP] = "repost"
    /\ count' = count + 1
    /\ Goto(LOOP, "top")
    /\ UNCHANGED <<tasks_head, protector, stream_protector, flagVars, arg, task2run, waited, lifeVars>>

SetBusy(value) ==
    is_busy' = [is_busy EXCEPT ![task2run.ctx][task2run.ztask] = value]

MarkBusy ==
    /\ pc[LOOP] = "popped"
    /\ SetBusy(TRUE)
    /\ Goto(LOOP, "callback")
    /\ UNCHANGED <<listVars, protector, stream_protector, is_enabled, arg, task2run, waited, lifeVars>>

Enabled == is_enabled[task2run.ctx][task2run.ztask]

(* The callback does nothing to the scheduler. *)
CallbackReturn ==
    /\ pc[LOOP] = "callback"
    /\ Goto(LOOP, "ret")
    /\ UNCHANGED <<listVars, protector, stream_protector, flagVars, arg, task2run, waited, lifeVars>>

(* The callback resends its message and asks to be called again. *)
CallbackResend ==
    /\ pc[LOOP] = "callback"
    /\ task2run.ztask # "dh"
    /\ protector = NONE
    /\ Enabled
    /\ CallLater(task2run)
    /\ Goto(LOOP, "ret")
    /\ UNCHANGED <<protector, stream_protector, flagVars, arg, task2run, waited, lifeVars>>

(* The callback has run out of retries: every task of the stream goes. *)
CallbackGiveUp ==
    /\ pc[LOOP] = "callback"
    /\ task2run.ztask # "dh"
    /\ BeginCancel(LOOP, task2run.ctx, NONE, "cancel")
    /\ UNCHANGED stream_protector

(* _initiating_secure, the only callback that takes the stream's mutex. *)
DhCheck ==
    /\ pc[LOOP] = "callback"
    /\ task2run.ztask = "dh"
    /\ Enabled
    /\ Goto(LOOP, "dh_lock")
    /\ UNCHANGED <<listVars, protector, stream_protector, flagVars, arg, task2run, waited, lifeVars>>

DhLock ==
    /\ pc[LOOP] = "dh_lock"
    /\ stream_protector[task2run.ctx] = NONE
    /\ stream_protector' = [stream_protector EXCEPT ![task2run.ctx] = LOOP]
    /\ Goto(LOOP, "dh")
    /\ UNCHANGED <<listVars, protector, flagVars, arg, task2run, waited, lifeVars>>

DhUnlock ==
    /\ stream_protector' = [stream_protector EXCEPT ![task2run.ctx] = NONE]
    /\ Goto(LOOP, "ret")

(* The stream is past it, or another stream is in the way: try again later. *)
DhRetry ==
    /\ pc[LOOP] = "dh"
    /\ protector = NONE
    /\ DhUnlock
    /\ (Enabled /\ CallLater(task2run)) \/ UNCHANGED listVars
    /\ UNCHANGED <<protector, flagVars, arg, task2run, waited, lifeVars>>

(* The way is free: cancel the dh task, then start the Commit resends.     *)
(* The stream is in START_INITIATINGSECURE then, where no Commit resend is *)
(* in the list.                                                            *)
DhAccepted ==
    /\ pc[LOOP] = "dh"
    /\ ~Listed(task2run.ctx, "commit")
    /\ BeginCancel(LOOP, task2run.ctx, task2run.ztask, "cancel")
    /\ UNCHANGED stream_protector

(* No more retries: the stream fails, and all its tasks are cancelled. *)
DhGiveUp ==
    /\ pc[LOOP] = "dh"
    /\ BeginCancel(LOOP, task2run.ctx, NONE, "cancel")
    /\ UNCHANGED stream_protector

DhCommit ==
    /\ pc[LOOP] = "dh_commit"
    /\ "commit" \in Tasks
    /\ protector = NONE
    /\ is_enabled' = [is_enabled EXCEPT ![task2run.ctx]["commit"] = TRUE]
    /\ CallLater([task2run EXCEPT !.ztask = "commit"])
    /\ DhUnlock
    /\ UNCHANGED <<protector, is_busy, arg, task2run, waited, lifeVars>>

(* Variant: the busy flag stays up. *)
ForgetBusy ==
    /\ pc[LOOP] = "ret"
    /\ task2run' = NONE
    /\ Goto(LOOP, "top")
    /\ UNCHANGED <<listVars, protector, stream_protector, flagVars, arg, waited, lifeVars>>

ClearBusy ==
    /\ pc[LOOP] = "ret"
    /\ SetBusy(FALSE)
    /\ task2run' = NONE
    /\ Goto(LOOP, "top")
    /\ UNCHANGED <<listVars, protector, stream_protector, is_enabled, arg, waited, lifeVars>>

Callback ==
    \/ CallbackReturn \/ CallbackResend \/ CallbackGiveUp
    \/ DhCheck \/ DhLock \/ DhRetry \/ DhAccepted \/ DhGiveUp \/ DhCommit

Loop ==
    \/ LoopStart \/ LoopTop \/ SemWait \/ Look \/ Repost
    \/ MarkBusy \/ Callback \/ ClearBusy

-----------------------------------------------------------------------------
(* Variants of zrtp_def_scheduler_down: no sem_post, no wait for sched_loop. *)
DownStopSilently ==
    /\ down = "up"
    /\ \A s \in Streams : pc[s] = "gone"
    /\ down' = "down_wait"
    /\ is_running' = FALSE
    /\ UNCHANGED <<listVars, protector, stream_protector, flagVars, pc, arg, task2run, waited, is_working>>

DownFreeAtOnce ==
    /\ down = "down_wait"
    /\ protector = NONE
    /\ down' = "destroyed"
    /\ tasks_head' = <<>>
    /\ count' = 0
    /\ UNCHANGED <<protector, stream_protector, flagVars, pc, arg, task2run, waited, is_running, is_working>>

(* zrtp_down, which its documentation allows once every stream is closed.  *)
DownStop ==
    /\ down = "up"
    /\ \A s \in Streams : pc[s] = "gone"
    /\ down' = "down_wait"
    /\ is_running' = FALSE
    /\ count' = count + 1
    /\ UNCHANGED <<tasks_head, protector, stream_protector, flagVars, pc, arg, task2run, waited, is_working>>

DownFree ==
    /\ down = "down_wait"
    /\ ~is_working
    /\ protector = NONE
    /\ down' = "destroyed"
    /\ tasks_head' = <<>>
    /\ count' = 0
    /\ UNCHANGED <<protector, stream_protector, flagVars, pc, arg, task2run, waited, is_running, is_working>>

(* Nothing is left to run. *)
Over ==
    /\ down = "destroyed"
    /\ pc[LOOP] = "exit"
    /\ UNCHANGED vars

Tick ==
    /\ \E i \in 1 .. Len(tasks_head) : tasks_head[i].wake_at > 0
    /\ tasks_head' = [i \in 1 .. Len(tasks_head) |->
           [tasks_head[i] EXCEPT !.wake_at = IF @ > 0 THEN @ - 1 ELSE 0]]
    /\ UNCHANGED <<count, protector, stream_protector, flagVars, pc, arg, task2run, waited, lifeVars>>

Next ==
    \/ \E s \in Streams : Client(s)
    \/ \E th \in Threads : CancelLock(th) \/ CancelScan(th)
    \/ Loop
    \/ DownStop \/ DownFree \/ Over
    \/ Tick

Spec == Init /\ [][Next]_vars

-----------------------------------------------------------------------------
(* Properties. *)

TypeOK ==
    /\ tasks_head \in Seq(Entries)
    /\ count \in Nat
    /\ protector \in Threads \cup {NONE}
    /\ stream_protector \in [Streams -> Threads \cup {NONE}]
    /\ is_enabled \in [Streams -> [Tasks -> BOOLEAN]]
    /\ is_busy \in [Streams -> [Tasks -> BOOLEAN]]
    /\ pc \in [Threads -> ClientPcs \cup LoopPcs]
    /\ arg \in [Threads -> [ctx : Streams, ztask : Tasks \cup {NONE}] \cup {NONE}]
    /\ task2run \in Calls \cup {NONE}
    /\ waited \in [Streams -> 0 .. Len(WaitOrder)]
    /\ is_running \in BOOLEAN
    /\ is_working \in BOOLEAN
    /\ down \in DownPcs

(* The unit of the semaphore that sched_loop has taken and not given back. *)
Held == IF pc[LOOP] \in {"look", "repost"} THEN 1 ELSE 0

(* No lost wake-up: whatever the order in which threads add and cancel     *)
(* calls while sched_loop looks at the list (it drops its unit when it     *)
(* finds the list empty, a cancel takes one with sem_trywait that may      *)
(* fail), every entry of the list is covered by a unit, so sched_loop      *)
(* never sleeps with a call in the list.                                   *)
NoLostWakeup == count + Held >= Len(tasks_head)

(* The units that failed sem_trywaits of on_cancel_call_later leave behind *)
(* never add up: at most one is in excess of the list, and one more for    *)
(* the sem_post of zrtp_def_scheduler_down.                                *)
BoundedSurplus ==
    count + Held <= Len(tasks_head) + (IF down = "down_wait" THEN 2 ELSE 1)

(* on_call_later keeps the list in wake-up order (sched_loop only ever     *)
(* looks at its head).                                                     *)
ListSorted ==
    \A i, j \in 1 .. Len(tasks_head) :
        i < j => tasks_head[i].wake_at <= tasks_head[j].wake_at

(* Once zrtp_stream_stop has cancelled the tasks of a stream, none comes   *)
(* back to the list although its callback may be in progress: cleared      *)
(* _is_enabled flags "prevent the scheduler from re-adding tasks after     *)
(* their termination" (include/zrtp_engine.h:270). With the errorack task, *)
(* whose flag is never cleared, it fails (MCZrtpScheduler_errorack.cfg).   *)
NoEntryAfterTermination ==
    \A s \in Streams : pc[s] \in {"stop_wait", "gone"} =>
        \A i \in 1 .. Len(tasks_head) : tasks_head[i].ctx # s

(* "The scheduler implementation must guarantee that any delay call for    *)
(* the stream will not be performed after on_wait_call_later()"            *)
(* (include/zrtp_iface.h:164). Does not hold: the call may be between the  *)
(* list and the busy flag (MCZrtpScheduler_wait.cfg).                      *)
NoCallAfterWait ==
    pc[LOOP] = "callback" => pc[task2run.ctx] # "gone"

(* After zrtp_def_scheduler_down has destroyed the semaphore and the list  *)
(* mutex, the sched_loop of this zrtp_init uses neither: whether it had    *)
(* not even started when is_working was polled (it then finds is_running   *)
(* cleared) or was blocked in sem_wait. A second zrtp_init would set       *)
(* is_running again: ZrtpSchedulerLives.                                   *)
NoUseAfterDown ==
    down = "destroyed" => pc[LOOP] \in {"new", "top", "exit"} /\ protector = NONE

(* Weak fairness of the steps a running thread takes; a thread that waits  *)
(* for a mutex others keep taking for short sections gets it in the end.   *)
Fairness ==
    /\ WF_vars(Tick) /\ WF_vars(DownFree)
    /\ WF_vars(LoopStart \/ LoopTop \/ SemWait \/ Repost \/ MarkBusy \/ ClearBusy)
    /\ SF_vars(Look \/ Callback)
    /\ \A th \in Threads : SF_vars(CancelLock(th) \/ CancelScan(th))
    /\ \A s \in Streams : WF_vars(WaitNotBusy(s) \/ Wipe(s))

FairSpec == Spec /\ Fairness

(* sched_loop waits for the mutex of a stream that zrtp_stream_stop holds  *)
(* while it waits for sched_loop.                                          *)
Jammed(s) ==
    pc[s] = "stop_wait" /\ pc[LOOP] = "dh_lock" /\ task2run.ctx = s

(* A call that is in the list is taken by sched_loop or cancelled, however *)
(* many other calls keep being added, unless a stop has jammed the         *)
(* scheduler thread: the calls of all other streams are then never taken.  *)
CallServedOrJams ==
    \A s \in Streams, t \in Tasks :
        Listed(s, t) ~>
            \/ ~Listed(s, t)
            \/ pc[LOOP] = "popped" /\ task2run = [ctx |-> s, ztask |-> t]
            \/ \E other \in Streams : Jammed(other)

(* zrtp_stream_stop returns: the callback it waits for always finishes,    *)
(* for "this function can be called in parallel to the main processing     *)
(* loop" (src/zrtp_engine.c:346).                                          *)
StopReturns ==
    \A s \in Streams : pc[s] = "stop_cancel" ~> pc[s] = "gone"

(* The one thing that keeps zrtp_stream_stop from returning is the dh      *)
(* callback waiting for the stream's mutex, which zrtp_stream_stop holds:  *)
(* it is never kept by a call that was cancelled, by one that has put      *)
(* itself back, or by what other threads do.                               *)
StopReturnsOrJams ==
    \A s \in Streams :
        pc[s] = "stop_cancel" ~> pc[s] = "gone" \/ Jammed(s)

(* zrtp_def_scheduler_down returns: its extra sem_post reaches sched_loop  *)
(* wherever it waits.                                                      *)
DownReturns == down = "down_wait" ~> down = "destroyed"

=============================================================================
