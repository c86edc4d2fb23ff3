------------------------- MODULE ZrtpSchedulerLives -------------------------
(***************************************************************************)
(* zrtp_init and zrtp_down in turn, and the threads that run sched_loop    *)
(* (src/zrtp_iface_scheduler.c).  ZrtpScheduler has one life in full; this *)
(* module has several and of sched_loop only what meets init and down: the *)
(* flags is_running and is_working, and the use of the semaphore and the   *)
(* list mutex.  Whether the list has a due call is a choice.               *)
(***************************************************************************)
EXTENDS Naturals

CONSTANTS
    Loops,     \* the threads that can run sched_loop
    MaxUnits   \* bound: no call is queued when the semaphore is this high

VARIABLES
    count,       \* the semaphore
    is_running,  \* set by zrtp_def_scheduler_init, cleared by _down
    is_working,  \* set and cleared by sched_loop
    place,       \* of the application thread: "out" of zrtp_init and
                 \* zrtp_down (inited = 0), "up", or "wait"ing for sched_loop
    pc           \* where each thread is

vars == <<count, is_running, is_working, place, pc>>

Goto(l, label) == pc' = [pc EXCEPT ![l] = label]

Init ==
    /\ count = 0
    /\ is_running = FALSE
    /\ is_working = FALSE
    /\ place = "out"
    /\ pc = [l \in Loops |-> "none"]

(* zrtp_def_scheduler_init: a new semaphore, and a new thread.  It looks   *)
(* neither at is_working nor for a thread of the life before.              *)
SchedInit ==
    /\ place = "out"
    /\ place' = "up"
    /\ count' = 0
    /\ is_running' = TRUE
    /\ \E l \in Loops : pc[l] = "none" /\ Goto(l, "new")
    /\ UNCHANGED is_working

(* on_call_later posts a unit. *)
Call ==
    /\ place = "up"
    /\ count < MaxUnits
    /\ count' = count + 1
    /\ UNCHANGED <<is_running, is_working, place, pc>>

(* zrtp_def_scheduler_down up to its wait ... *)
DownStop ==
    /\ place = "up"
    /\ place' = "wait"
    /\ is_running' = FALSE
    /\ count' = count + 1
    /\ UNCHANGED <<is_working, pc>>

(* ... and the rest: both the mutex and the semaphore are destroyed. *)
DownFree ==
    /\ place = "wait"
    /\ ~is_working
    /\ \A l \in Loops : pc[l] # "section"
    /\ place' = "out"
    /\ UNCHANGED <<count, is_running, is_working, pc>>

LoopStart(l) ==
    /\ pc[l] = "new"
    /\ is_working' = TRUE
    /\ Goto(l, "top")
    /\ UNCHANGED <<count, is_running, place>>

LoopTop(l) ==
    /\ pc[l] = "top"
    /\ Goto(l, IF is_running THEN "sem_wait" ELSE "leave")
    /\ UNCHANGED <<count, is_running, is_working, place>>

SemWait(l) ==
    /\ pc[l] = "sem_wait"
    /\ count > 0
    /\ count' = count - 1
    /\ Goto(l, "section")
    /\ UNCHANGED <<is_running, is_working, place>>

(* The section under the list mutex: a call was taken or the list is       *)
(* empty, or the head is not due and the unit goes back.                   *)
Section(l) ==
    /\ pc[l] = "section"
    /\ Goto(l, "top") \/ Goto(l, "repost")
    /\ UNCHANGED <<count, is_running, is_working, place>>

Repost(l) ==
    /\ pc[l] = "repost"
    /\ count' = count + 1
    /\ Goto(l, "top")
    /\ UNCHANGED <<is_running, is_working, place>>

LoopEnd(l) ==
    /\ pc[l] = "leave"
    /\ is_working' = FALSE
    /\ Goto(l, "none")
    /\ UNCHANGED <<count, is_running, place>>

Next ==
    \/ SchedInit \/ Call \/ DownStop \/ DownFree
    \/ \E l \in Loops :
           \/ LoopStart(l) \/ LoopTop(l) \/ SemWait(l)
           \/ Section(l) \/ Repost(l) \/ LoopEnd(l)

Spec == Init /\ [][Next]_vars

-----------------------------------------------------------------------------
(* "Stop main thread", "Then destroy tasks queue and realease all other    *)
(* resources" (src/zrtp_iface_scheduler.c:236 and 252): no thread uses the *)
(* mutex or the semaphore that zrtp_def_scheduler_down has destroyed.      *)
(* Fails: is_working is 0 when the thread has not started yet, so down     *)
(* returns; the next zrtp_init sets is_running again and adds a second     *)
(* thread. At the next down the first to leave clears is_working while the *)
(* other is in sem_wait (MCZrtpSchedulerLives.cfg).                        *)
NoUseAfterDown ==
    place = "out" => \A l \in Loops : pc[l] \notin {"sem_wait", "section", "repost"}

=============================================================================
