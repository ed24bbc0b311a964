------------------------------ MODULE TimerManager ------------------------------
(***************************************************************************)
(* The timer manager of tinySAK (tsk_timer.c) and the runnable it is built *)
(* on (tsk_runnable.c): a sorted list of timers, a thread that waits for   *)
(* the first of them (the main thread), a thread that runs the callbacks   *)
(* (the runnable) and the threads that schedule, cancel and stop.          *)
(*                                                                         *)
(* A step is a stretch of code between two accesses to what the threads    *)
(* share.  A condition variable remembers nothing: a signal that finds no  *)
(* thread asleep is lost.  The order of timers with one deadline is left   *)
(* open.                                                                   *)
(***************************************************************************)
EXTENDS Naturals, Sequences, FiniteSets

CONSTANTS Timers,      \* the timers scheduled in a run, each once
          None,        \* no timer
          MaxTime      \* the clock stops here; no deadline is later

ASSUME TimersAssumption == IsFiniteSet(Timers) /\ None \notin Timers
ASSUME MaxTimeAssumption == MaxTime \in Nat

VARIABLES now,        \* tsk_time_now
          deadline,   \* timer->timeout
          call,       \* where tsk_timer_manager_schedule is, for each timer
          list,       \* manager->timers
          canceled,   \* timer->canceled, and with it timer->callback = null
          sem,        \* manager->sem
          main,       \* where the main thread is
          curr,       \* the timer it looks at
          queue,      \* the runnable's objects
          qsem,       \* the runnable's semaphore
          runner,     \* where the runnable's thread is
          job,        \* the timer whose callback it is about to run
          called,     \* timers whose callback ran
          inTime,     \* timers canceled before their callback was looked up
          running,    \* the runnable is running
          init,       \* the runnable's fields: "valid", "freed", "off"
          stop        \* where tsk_timer_manager_stop is

timerVars == <<now, deadline, call, list, canceled, sem, main, curr, queue, qsem,
               runner, job, called, inTime, running, init, stop>>

\* manager_start has returned and run() has set "running" and made the main thread.
Init == /\ now = 0 /\ deadline = [t \in Timers |-> 0]
        /\ call = [t \in Timers |-> "idle"] /\ list = {} /\ canceled = {}
        /\ sem = 0 /\ main = "loop" /\ curr = None
        /\ queue = <<>> /\ qsem = 0 /\ job = None
        /\ runner = "begin"
        /\ called = {} /\ inTime = {}
        /\ running = TRUE /\ init = "valid" /\ stop = "no"

Tick == /\ now < MaxTime /\ now' = now + 1
        /\ UNCHANGED <<deadline, call, list, canceled, sem, main, curr, queue, qsem,
                       runner, job, called, inTime, running, init, stop>>

\* TSK_TIMER_GET_FIRST, where the list is not empty.
IsFirst(t) == t \in list /\ \A u \in list : deadline[t] <= deadline[u]

\* tsk_condwait_signal.
Signaled == IF main = "asleep" THEN "peek" ELSE main

\* The callback ran, or its pointer has been read.
PastCheck(t) == t \in called \/ (runner = "call" /\ job = t)

-----------------------------------------------------------------------------
(***************************************************************************)
(* tsk_timer_manager_schedule and tsk_timer_manager_cancel.  To find the   *)
(* manager running, or started, and to insert the timer is one step here.  *)
(***************************************************************************)
Schedule(t) ==
    /\ call[t] = "idle"
    /\ running \/ stop \in {"no", "join", "free", "off"}
    /\ \E d \in now..MaxTime : deadline' = [deadline EXCEPT ![t] = d]
    /\ list' = list \cup {t}
    /\ call' = [call EXCEPT ![t] = "signal"]
    /\ UNCHANGED <<now, canceled, sem, main, curr, queue, qsem, runner, job, called,
                   inTime, running, init, stop>>

ScheduleSignals(t) ==
    /\ call[t] = "signal" /\ call' = [call EXCEPT ![t] = "post"]
    /\ main' = Signaled
    /\ UNCHANGED <<now, deadline, list, canceled, sem, curr, queue, qsem, runner, job,
                   called, inTime, running, init, stop>>

\* Mutant: the semaphore does not count the new timer.
Mutant_SchedulePosts(t) ==
    /\ call[t] = "post" /\ call' = [call EXCEPT ![t] = "done"]
    /\ UNCHANGED <<now, deadline, list, canceled, sem, main, curr, queue, qsem, runner,
                   job, called, inTime, running, init, stop>>

SchedulePosts(t) ==
    /\ call[t] = "post" /\ call' = [call EXCEPT ![t] = "done"]
    /\ sem' = sem + 1
    /\ UNCHANGED <<now, deadline, list, canceled, main, curr, queue, qsem, runner, job,
                   called, inTime, running, init, stop>>

\* The id is known once schedule has returned.
Cancel(t) ==
    /\ call[t] = "done" /\ running
    /\ t \in list \ canceled /\ canceled' = canceled \cup {t}
    /\ inTime' = IF PastCheck(t) THEN inTime ELSE inTime \cup {t}
    /\ main' = IF IsFirst(t) THEN Signaled ELSE main
    /\ UNCHANGED <<now, deadline, call, list, sem, curr, queue, qsem, runner, job,
                   called, running, init, stop>>

-----------------------------------------------------------------------------
(***************************************************************************)
(* __tsk_timer_manager_mainthread.                                         *)
(***************************************************************************)
MainLoop ==
    /\ main = "loop" /\ main' = IF running THEN "sem" ELSE "gone"
    /\ UNCHANGED <<now, deadline, call, list, canceled, sem, curr, queue, qsem, runner,
                   job, called, inTime, running, init, stop>>

MainSem ==
    /\ main = "sem" /\ sem > 0 /\ sem' = sem - 1 /\ main' = "peek"
    /\ UNCHANGED <<now, deadline, call, list, canceled, curr, queue, qsem, runner, job,
                   called, inTime, running, init, stop>>

MainPeek ==
    /\ main = "peek"
    /\ \/ ~running /\ main' = "gone" /\ UNCHANGED curr
       \/ running /\ list = {} /\ main' = "loop" /\ curr' = None
       \/ running /\ \E t \in Timers : IsFirst(t) /\ curr' = t /\ main' = "look"
    /\ UNCHANGED <<now, deadline, call, list, canceled, sem, queue, qsem, runner, job,
                   called, inTime, running, init, stop>>

\* The lock is released: curr->canceled and the clock.
MainLook ==
    /\ main = "look"
    /\ main' = IF curr \in canceled THEN "remove"
               ELSE IF now >= deadline[curr] THEN "enqueue" ELSE "doze"
    /\ UNCHANGED <<now, deadline, call, list, canceled, sem, curr, queue, qsem, runner,
                   job, called, inTime, running, init, stop>>

\* tsk_condwait_timedwait, and its end at curr's deadline; a signal ends it too.
MainSleeps ==
    /\ main = "doze" /\ main' = "asleep"
    /\ UNCHANGED <<now, deadline, call, list, canceled, sem, curr, queue, qsem, runner,
                   job, called, inTime, running, init, stop>>

MainWakes ==
    /\ main = "asleep" /\ now >= deadline[curr] /\ main' = "peek"
    /\ UNCHANGED <<now, deadline, call, list, canceled, sem, curr, queue, qsem, runner,
                   job, called, inTime, running, init, stop>>

\* TSK_RUNNABLE_ENQUEUE_OBJECT_SAFE.
MainEnqueues ==
    /\ main = "enqueue" /\ main' = "remove"
    /\ \/ init = "valid" /\ queue' = Append(queue, curr) /\ qsem' = qsem + 1
       \/ init \in {"freed", "off"} /\ UNCHANGED <<queue, qsem>>
    /\ UNCHANGED <<now, deadline, call, list, canceled, sem, curr, runner, job, called,
                   inTime, running, init, stop>>

MainRemoves ==
    /\ main = "remove" /\ main' = "loop" /\ list' = list \ {curr}
    /\ UNCHANGED <<now, deadline, call, canceled, sem, curr, queue, qsem, runner, job,
                   called, inTime, running, init, stop>>

-----------------------------------------------------------------------------
(***************************************************************************)
(* run, between TSK_RUNNABLE_RUN_BEGIN and TSK_RUNNABLE_RUN_END.           *)
(***************************************************************************)
RunBegin ==
    /\ runner = "begin" /\ runner' = "sem" /\ running' = TRUE
    /\ UNCHANGED <<now, deadline, call, list, canceled, sem, main, curr, queue, qsem,
                   job, called, inTime, init, stop>>

RunNext ==
    /\ runner = "sem" /\ qsem > 0 /\ qsem' = qsem - 1
    /\ \/ ~running /\ runner' = "gone" /\ UNCHANGED <<queue, job>>
       \/ running /\ queue = <<>> /\ UNCHANGED <<queue, job, runner>>
       \/ /\ running /\ queue # <<>> /\ queue' = Tail(queue)
          /\ job' = Head(queue) /\ runner' = "check"
    /\ UNCHANGED <<now, deadline, call, list, canceled, sem, main, curr, called, inTime,
                   running, init, stop>>

\* Mutant: the callback is not looked at.
Mutant_RunCheck ==
    /\ runner = "check" /\ runner' = "call"
    /\ UNCHANGED <<now, deadline, call, list, canceled, sem, main, curr, queue, qsem,
                   job, called, inTime, running, init, stop>>

\* timer->callback is read without the lock, and then called.
RunCheck ==
    /\ runner = "check" /\ runner' = IF job \in canceled THEN "sem" ELSE "call"
    /\ UNCHANGED <<now, deadline, call, list, canceled, sem, main, curr, queue, qsem,
                   job, called, inTime, running, init, stop>>

RunCall ==
    /\ runner = "call" /\ runner' = "sem" /\ called' = called \cup {job}
    /\ UNCHANGED <<now, deadline, call, list, canceled, sem, main, curr, queue, qsem,
                   job, inTime, running, init, stop>>

-----------------------------------------------------------------------------
(***************************************************************************)
(* tsk_timer_manager_stop, called by a thread that is not the runnable's.  *)
(***************************************************************************)
StopMoves(from, to) ==
    /\ stop = from /\ stop' = to
    /\ UNCHANGED <<now, deadline, call, canceled, curr, queue, runner, job, called,
                   inTime>>

\* tsk_runnable_stop: "running" goes down, the thread is woken and joined, and
\* tsk_runnable_deinit frees the fields before it says so.
StopRunnable == /\ running /\ StopMoves("no", "join")
                /\ running' = FALSE /\ qsem' = qsem + 1
                /\ UNCHANGED <<list, sem, main, init>>

StopJoins == /\ runner = "gone" /\ StopMoves("join", "free")
             /\ UNCHANGED <<list, sem, main, init, running, qsem>>

StopFrees == /\ StopMoves("free", "off") /\ init' = "freed"
             /\ UNCHANGED <<list, sem, main, running, qsem>>

StopClears == /\ StopMoves("off", "post") /\ init' = "off"
              /\ UNCHANGED <<list, sem, main, running, qsem>>

\* Mutant: the main thread is not let past its semaphore.
Mutant_StopPosts == /\ StopMoves("post", "signal")
                    /\ UNCHANGED <<list, sem, main, init, running, qsem>>

StopPosts == /\ StopMoves("post", "signal") /\ sem' = sem + 1
             /\ UNCHANGED <<list, main, init, running, qsem>>

StopSignals == /\ StopMoves("signal", "wait") /\ main' = Signaled
               /\ UNCHANGED <<list, sem, init, running, qsem>>

StopEnds == /\ main = "gone" /\ StopMoves("wait", "done") /\ list' = {}
            /\ UNCHANGED <<sem, main, init, running, qsem>>

-----------------------------------------------------------------------------
Main == \/ MainLoop \/ MainSem \/ MainPeek \/ MainLook \/ MainSleeps \/ MainWakes
        \/ MainEnqueues \/ MainRemoves

Runner == RunBegin \/ RunNext \/ RunCheck \/ RunCall

Stop == \/ StopRunnable \/ StopJoins \/ StopFrees \/ StopClears
        \/ StopPosts \/ StopSignals \/ StopEnds

Next == \/ Tick \/ Main \/ Runner \/ Stop
        \/ \E t \in Timers : \/ Schedule(t) \/ ScheduleSignals(t) \/ SchedulePosts(t)
                             \/ Cancel(t)

Spec == Init /\ [][Next]_timerVars

\* Time passes, and a thread that can go on does; no thread is made to schedule,
\* to cancel or to begin a stop.
FairSpec ==
    /\ Spec /\ WF_timerVars(Tick) /\ WF_timerVars(Main) /\ WF_timerVars(Runner)
    /\ WF_timerVars(Stop /\ stop # "no")
    /\ \A t \in Timers : WF_timerVars(ScheduleSignals(t) \/ SchedulePosts(t))

-----------------------------------------------------------------------------
(***************************************************************************)
(* Properties.                                                             *)
(***************************************************************************)

\* The semaphore, the unit the main thread holds and the units still to be
\* posted account for every timer on the list: none is left without a look.
Holds == IF main \in {"loop", "sem", "gone"} THEN 0 ELSE 1
Unposted == {t \in Timers : call[t] \in {"signal", "post"}}
SemaphoreCounts ==
    stop = "no" => sem + Holds + Cardinality(Unposted) = Cardinality(list)

\* The callback of a canceled timer is not run, however far the main thread has
\* got with it, unless the runnable's thread has just read the pointer.
CancelInTime == inTime \cap called = {}

\* A signal may be lost, a timer may not: without a stop it is called or canceled.
TimerEnds ==
    \A t \in Timers :
        call[t] = "done" ~> t \in called \cup canceled \/ stop # "no"

\* A stop returns: both threads get to see it, asleep or not, if it does not come
\* so early that RUN_BEGIN, in the runnable's thread, undoes it.
StopReturns == ~running /\ runner # "begin" ~> stop = "done"
=============================================================================
