--------------------------- MODULE TimerManagerProofs ---------------------------
(***************************************************************************)
(* The timer manager keeps count of its timers, a cancel that comes before *)
(* the callback is looked up holds, and no timer is called twice, for any  *)
(* finite set of timers and at any time.                                   *)
(***************************************************************************)
EXTENDS TimerManager, FiniteSetTheorems, TLAPS

Places == {"loop", "sem", "peek", "look", "doze", "asleep", "enqueue", "remove", "gone"}

\* The main thread has taken its pick from the list.
Picked == main \in {"look", "doze", "asleep", "enqueue", "remove"}

\* The runnable's thread has taken a timer from its queue.
Taken == runner \in {"check", "call"}

Shape == /\ call \in [Timers -> {"idle", "signal", "post", "done"}]
         /\ list \subseteq Timers /\ canceled \subseteq Timers
         /\ sem \in Nat /\ main \in Places /\ curr \in Timers \cup {None}
         /\ queue \in Seq(Timers) /\ job \in Timers \cup {None}
         /\ stop = "no" => running = TRUE

\* What is listed was scheduled; the pick stays on the list until its removal.
ListedWhy == /\ \A t \in list : call[t] # "idle"
             /\ Picked => curr \in list

\* No pick is made in vain.
Counted == stop = "no" => /\ main # "gone"
                          /\ sem + Holds + Cardinality(Unposted) = Cardinality(list)

CountInv == Shape /\ ListedWhy /\ Counted

\* Who was canceled in time is not called, now or later.
HeldBack == /\ inTime \subseteq canceled
            /\ inTime \cap called = {}
            /\ runner = "call" => job \notin inTime

\* A timer is in one place only: on the list, in the queue, taken from it or called;
\* only between its hand-over and its removal it is in two.
InQueue(t) == \E i \in 1..Len(queue) : queue[i] = t
InHand(t) == Taken /\ job = t
Handed(t) == InQueue(t) \/ InHand(t) \/ t \in called

OnePlace ==
    /\ \A t \in Timers : Handed(t) => /\ call[t] # "idle"
                                      /\ t \in list => main = "remove" /\ curr = t
    /\ \A t \in Timers : InQueue(t) => t \notin called /\ ~InHand(t)
    /\ \A t \in called : ~InHand(t)
    /\ \A i, j \in 1..Len(queue) : queue[i] = queue[j] => i = j
    /\ Taken => job \in Timers

-----------------------------------------------------------------------------
(***************************************************************************)
(* The count.                                                              *)
(***************************************************************************)
LEMMA Sizes ==
    ASSUME Shape
    PROVE  /\ IsFiniteSet(list) /\ Cardinality(list) \in Nat
           /\ IsFiniteSet(Unposted) /\ Cardinality(Unposted) \in Nat
           /\ Holds \in {0, 1}
  <1>1. IsFiniteSet(list) /\ IsFiniteSet(Unposted)
    BY TimersAssumption, FS_Subset DEF Shape, Unposted
  <1> QED BY <1>1, FS_CardinalityType DEF Holds

\* tsk_condwait_signal may end a wait; the unit that is held stays held.
LEMMA SignalKeeps ==
    ASSUME main \in Places
    PROVE  /\ Signaled \in Places
           /\ Signaled \in {"loop", "sem", "gone"} <=> main \in {"loop", "sem", "gone"}
           /\ Signaled = "gone" <=> main = "gone"
           /\ Signaled \in {"look", "doze", "asleep", "enqueue", "remove"} => Picked
           /\ Signaled = "remove" <=> main = "remove"
  BY DEF Signaled, Places, Picked

LEMMA ShapeStep == Shape /\ ListedWhy /\ [Next]_timerVars => Shape'
  <1> SUFFICES ASSUME Shape, ListedWhy, [Next]_timerVars PROVE Shape'
    OBVIOUS
  <1> USE DEF Shape
  <1>1. ASSUME NEW t \in Timers,
               Schedule(t) \/ ScheduleSignals(t) \/ SchedulePosts(t) \/ Cancel(t)
        PROVE  Shape'
    BY <1>1, SignalKeeps DEF Schedule, ScheduleSignals, SchedulePosts, Cancel
  <1>2. CASE Tick \/ UNCHANGED timerVars
    BY <1>2 DEF Tick, timerVars
  <1>3. CASE MainLoop \/ MainSem \/ MainPeek \/ MainLook \/ MainSleeps \/ MainWakes
    BY <1>3 DEF MainLoop, MainSem, MainPeek, MainLook, MainSleeps, MainWakes, Places
  <1>4. CASE MainEnqueues
    <2>1. curr \in Timers
      BY <1>4 DEF MainEnqueues, ListedWhy, Picked
    <2> QED BY <1>4, <2>1 DEF MainEnqueues, Places
  <1>5. CASE MainRemoves
    BY <1>5 DEF MainRemoves, Places
  <1>6. CASE RunBegin \/ RunCheck \/ RunCall
    BY <1>6 DEF RunBegin, RunCheck, RunCall
  <1>7. CASE RunNext
    <2>1. queue # <<>> => Head(queue) \in Timers /\ Tail(queue) \in Seq(Timers)
      OBVIOUS
    <2> QED BY <1>7, <2>1 DEF RunNext
  <1>8. CASE Stop
    BY <1>8, SignalKeeps DEF Stop, StopRunnable, StopJoins, StopFrees, StopClears, StopPosts,
          StopSignals, StopEnds, StopMoves
  <1> QED BY <1>1, <1>2, <1>3, <1>4, <1>5, <1>6, <1>7, <1>8 DEF Next, Main, Runner

LEMMA ListedStep == Shape /\ ListedWhy /\ [Next]_timerVars => ListedWhy'
  <1> SUFFICES ASSUME Shape, ListedWhy, [Next]_timerVars PROVE ListedWhy'
    OBVIOUS
  <1> USE DEF Shape, ListedWhy, Picked
  <1>1. ASSUME NEW t \in Timers,
               Schedule(t) \/ ScheduleSignals(t) \/ SchedulePosts(t) \/ Cancel(t)
        PROVE  ListedWhy'
    BY <1>1, SignalKeeps DEF Schedule, ScheduleSignals, SchedulePosts, Cancel
  <1>2. CASE Tick \/ UNCHANGED timerVars
    BY <1>2 DEF Tick, timerVars
  <1>3. CASE MainLoop \/ MainSem \/ MainLook \/ MainSleeps \/ MainWakes \/ MainEnqueues \/ MainRemoves
    BY <1>3 DEF MainLoop, MainSem, MainLook, MainSleeps, MainWakes, MainEnqueues, MainRemoves
  <1>4. CASE MainPeek
    BY <1>4 DEF MainPeek, IsFirst
  <1>5. CASE Runner
    BY <1>5 DEF Runner, RunBegin, RunNext, RunCheck, RunCall
  <1>6. CASE Stop
    BY <1>6, SignalKeeps DEF Stop, StopRunnable, StopJoins, StopFrees, StopClears, StopPosts,
          StopSignals, StopEnds, StopMoves
  <1> QED BY <1>1, <1>2, <1>3, <1>4, <1>5, <1>6 DEF Next, Main

\* A step that neither lists nor posts anything, and keeps the units there are.
LEMMA CountKept ==
    ASSUME Counted, UNCHANGED list, Unposted' = Unposted, sem' + Holds' = sem + Holds,
           main' = "gone" => main = "gone", stop' = "no" => stop = "no",
           Shape
    PROVE  Counted'
  <1> SUFFICES ASSUME stop' = "no" PROVE Counted'
    BY DEF Counted
  <1>1. sem' + Holds' + Cardinality(Unposted') = sem + Holds + Cardinality(Unposted)
    OBVIOUS
  <1> QED BY <1>1 DEF Counted

\* The same for a step that leaves the units alone.
LEMMA CountElsewhere ==
    ASSUME Counted, Shape, UNCHANGED <<list, call, sem>>,
           main' \in {main, Signaled}, stop' = "no" => stop = "no"
    PROVE  Counted'
  <1>1. Unposted' = Unposted
    BY DEF Unposted
  <1>2. Holds' = Holds /\ (main' = "gone" => main = "gone")
    BY SignalKeeps DEF Holds, Shape
  <1> QED BY <1>1, <1>2, CountKept

LEMMA CountSchedules ==
    ASSUME CountInv, NEW t \in Timers, Schedule(t) \/ ScheduleSignals(t) \/ SchedulePosts(t)
    PROVE  Counted'
  <1> USE DEF CountInv, Shape
  <1>1. CASE Schedule(t)
    <2>1. t \notin list /\ t \notin Unposted
      BY <1>1 DEF Schedule, ListedWhy, Unposted
    <2>2. list' = list \cup {t} /\ Unposted' = Unposted \cup {t}
      BY <1>1 DEF Schedule, Unposted
    <2>3. /\ Cardinality(list') = Cardinality(list) + 1
          /\ Cardinality(Unposted') = Cardinality(Unposted) + 1
      BY <2>1, <2>2, Sizes, FS_AddElement
    <2>4. UNCHANGED <<sem, main, stop>> /\ Holds' = Holds
      BY <1>1 DEF Schedule, Holds
    <2> QED BY <2>3, <2>4, Sizes DEF Counted
  <1>2. CASE ScheduleSignals(t)
    <2>1. Unposted' = Unposted
      BY <1>2 DEF ScheduleSignals, Unposted
    <2>2. /\ UNCHANGED <<list, sem, stop>> /\ Holds' = Holds
          /\ main' = "gone" => main = "gone"
      BY <1>2, SignalKeeps DEF ScheduleSignals, Holds
    <2> QED BY <2>1, <2>2, CountKept
  <1>3. CASE SchedulePosts(t)
    <2>1. t \in Unposted /\ Unposted' = Unposted \ {t}
      BY <1>3 DEF SchedulePosts, Unposted
    <2>2. Cardinality(Unposted') = Cardinality(Unposted) - 1
      BY <2>1, Sizes, FS_RemoveElement
    <2>3. UNCHANGED <<list, main, stop>> /\ Holds' = Holds /\ sem' = sem + 1
      BY <1>3 DEF SchedulePosts, Holds
    <2> QED BY <2>2, <2>3, Sizes DEF Counted
  <1> QED BY <1>1, <1>2, <1>3

LEMMA CountMain ==
    ASSUME CountInv, Main
    PROVE  Counted'
  <1> USE DEF CountInv, Shape
  <1>1. CASE MainLoop \/ MainSem \/ MainLook \/ MainSleeps \/ MainWakes \/ MainEnqueues
    <2>1. /\ UNCHANGED <<list, call, stop>>
          /\ sem' + Holds' = sem + Holds
          /\ stop = "no" => main' # "gone"
      BY <1>1 DEF MainLoop, MainSem, MainLook, MainSleeps, MainWakes, MainEnqueues, Holds
    <2>2. Unposted' = Unposted
      BY <2>1 DEF Unposted
    <2>3. CASE stop = "no"
      BY <2>1, <2>2, <2>3, CountKept DEF Counted
    <2> QED BY <2>1, <2>3 DEF Counted
  <1>2. CASE MainPeek
    <2>1. UNCHANGED <<list, call, stop, sem>>
      BY <1>2 DEF MainPeek
    <2>2. CASE stop = "no"
      <3>1. Cardinality(list) # 0
        BY <1>2, <2>2, Sizes DEF Counted, MainPeek, Holds
      <3>2. main' = "look"
        BY <1>2, <2>2, <3>1, FS_EmptySet DEF MainPeek
      <3>3. Unposted' = Unposted /\ Holds' = Holds
        BY <1>2, <2>1, <3>2 DEF Unposted, Holds, MainPeek
      <3> QED BY <2>1, <2>2, <3>2, <3>3, CountKept
    <2> QED BY <2>1, <2>2 DEF Counted
  <1>3. CASE MainRemoves
    <2>1. /\ UNCHANGED <<call, stop, sem>> /\ list' = list \ {curr} /\ curr \in list
          /\ main' = "loop" /\ Holds' = 0 /\ Holds = 1
      BY <1>3 DEF MainRemoves, ListedWhy, Picked, Holds
    <2>2. Unposted' = Unposted
      BY <2>1 DEF Unposted
    <2>3. Cardinality(list') = Cardinality(list) - 1
      BY <2>1, Sizes, FS_RemoveElement
    <2> QED BY <2>1, <2>2, <2>3, Sizes DEF Counted
  <1> QED BY <1>1, <1>2, <1>3 DEF Main

LEMMA CountStep == CountInv /\ [Next]_timerVars => CountInv'
  <1> SUFFICES ASSUME CountInv, [Next]_timerVars PROVE CountInv'
    OBVIOUS
  <1>1. SUFFICES Counted'
    BY ShapeStep, ListedStep DEF CountInv
  <1>2. ASSUME NEW t \in Timers, Schedule(t) \/ ScheduleSignals(t) \/ SchedulePosts(t)
        PROVE  Counted'
    BY <1>2, CountSchedules
  <1>3. ASSUME NEW t \in Timers, Cancel(t)
        PROVE  Counted'
    BY <1>3, CountElsewhere DEF CountInv, Cancel
  <1>4. CASE Main
    BY <1>4, CountMain
  <1>5. CASE Tick \/ Runner \/ UNCHANGED timerVars
    BY <1>5, CountElsewhere DEF CountInv, Tick, Runner, RunBegin, RunNext, RunCheck, RunCall,
          timerVars
  <1>6. CASE Stop
    BY <1>6 DEF Stop, StopRunnable, StopJoins, StopFrees, StopClears, StopPosts, StopSignals,
          StopEnds, StopMoves, Counted
  <1> QED BY <1>2, <1>3, <1>4, <1>5, <1>6 DEF Next

LEMMA CountBegins == Init => CountInv
  <1> SUFFICES ASSUME Init PROVE CountInv
    OBVIOUS
  <1>1. Unposted = {} /\ list = {} /\ sem = 0 /\ Holds = 0 /\ main = "loop"
    BY DEF Init, Unposted, Holds
  <1>2. Counted
    BY <1>1, FS_EmptySet DEF Counted
  <1> QED BY <1>2 DEF Init, CountInv, Shape, ListedWhy, Picked, Places

\* However many timers there are, and whoever schedules and cancels them beside the two
\* threads (tsk_timer_manager_schedule, __tsk_timer_manager_mainthread): the semaphore and
\* the unit the main thread holds stand for every timer of the list, so none is left
\* behind and no look at the list is in vain.
THEOREM NoTimerIsLeft == Spec => []SemaphoreCounts
  <1>1. CountInv => SemaphoreCounts
    BY DEF CountInv, Counted, SemaphoreCounts
  <1> QED BY <1>1, CountBegins, CountStep, PTL DEF Spec

-----------------------------------------------------------------------------
(***************************************************************************)
(* The cancel.                                                             *)
(***************************************************************************)
LEMMA HoldsBack == HeldBack /\ [Next]_timerVars => HeldBack'
  <1> SUFFICES ASSUME HeldBack, [Next]_timerVars PROVE HeldBack'
    OBVIOUS
  <1> USE DEF HeldBack
  <1>1. ASSUME NEW t \in Timers, Cancel(t)
        PROVE  HeldBack'
    <2>1. /\ canceled' = canceled \cup {t}
          /\ inTime' = IF PastCheck(t) THEN inTime ELSE inTime \cup {t}
          /\ UNCHANGED <<called, runner, job>>
      BY <1>1 DEF Cancel
    <2> QED BY <2>1 DEF PastCheck
  <1>2. ASSUME NEW t \in Timers, Schedule(t) \/ ScheduleSignals(t) \/ SchedulePosts(t)
        PROVE  HeldBack'
    BY <1>2 DEF Schedule, ScheduleSignals, SchedulePosts
  <1>3. CASE Tick \/ UNCHANGED timerVars
    BY <1>3 DEF Tick, timerVars
  <1>4. CASE Main
    BY <1>4 DEF Main, MainLoop, MainSem, MainPeek, MainLook, MainSleeps, MainWakes, MainEnqueues,
          MainRemoves
  <1>5. CASE RunBegin \/ RunNext
    BY <1>5 DEF RunBegin, RunNext
  <1>6. CASE RunCheck
    BY <1>6 DEF RunCheck
  <1>7. CASE RunCall
    BY <1>7 DEF RunCall
  <1>8. CASE Stop
    BY <1>8 DEF Stop, StopRunnable, StopJoins, StopFrees, StopClears, StopPosts, StopSignals,
          StopEnds, StopMoves
  <1> QED BY <1>1, <1>2, <1>3, <1>4, <1>5, <1>6, <1>7, <1>8 DEF Next, Runner

\* However the threads interleave (tsk_timer_manager_cancel, run): once the callback of a
\* timer has been cleared, it is not run, although the runnable's thread looks at it
\* without the lock; only a thread that has just read it may still call.
THEOREM CanceledInTimeIsNotCalled == Spec => []CancelInTime
  <1>1. Init => HeldBack
    BY DEF Init, HeldBack
  <1>2. HeldBack => CancelInTime
    BY DEF HeldBack, CancelInTime
  <1> QED BY <1>1, <1>2, HoldsBack, PTL DEF Spec

-----------------------------------------------------------------------------
(***************************************************************************)
(* Once only.                                                              *)
(***************************************************************************)
LEMMA OnePlaceKept ==
    ASSUME OnePlace, UNCHANGED <<queue, runner, job, called>>,
           \A t \in Timers : Handed(t) => /\ call'[t] # "idle"
                                          /\ t \in list' => main' = "remove" /\ curr' = t
    PROVE  OnePlace'
  <1>1. /\ \A t : InQueue(t)' <=> InQueue(t)
        /\ \A t : InHand(t)' <=> InHand(t)
    BY DEF InQueue, InHand, Taken
  <1> QED BY <1>1 DEF OnePlace, Handed, Taken

\* The queue gains the pick, which nobody has yet.
LEMMA OnePlaceEnqueues ==
    ASSUME Shape, ListedWhy, OnePlace, MainEnqueues
    PROVE  OnePlace'
  <1>1. /\ curr \in list /\ curr \in Timers /\ call[curr] # "idle"
        /\ main = "enqueue" /\ main' = "remove"
        /\ UNCHANGED <<call, list, curr, runner, job, called>>
    BY DEF MainEnqueues, ListedWhy, Picked, Shape
  <1>2. ~Handed(curr)
    BY <1>1 DEF OnePlace
  <1>3. CASE queue' = queue
    BY <1>1, <1>3, OnePlaceKept DEF OnePlace
  <1>4. CASE queue' = Append(queue, curr)
    <2>1. /\ Len(queue) \in Nat /\ Len(queue') = Len(queue) + 1
          /\ \A i \in 1..Len(queue) : queue'[i] = queue[i]
          /\ queue'[Len(queue) + 1] = curr
      BY <1>1, <1>4 DEF Shape
    <2>2. \A t : InQueue(t)' <=> InQueue(t) \/ t = curr
      <3>1. 1..(Len(queue) + 1) = 1..Len(queue) \cup {Len(queue) + 1}
        BY <2>1
      <3> QED BY <2>1, <3>1 DEF InQueue
    <2>3. \A t : InHand(t)' <=> InHand(t)
      BY <1>1 DEF InHand, Taken
    <2>4. \A t \in Timers : Handed(t)' <=> Handed(t) \/ t = curr
      BY <1>1, <2>2, <2>3 DEF Handed
    <2>5. \A i, j \in 1..Len(queue') : queue'[i] = queue'[j] => i = j
      <3> SUFFICES ASSUME NEW i \in 1..Len(queue'), NEW j \in 1..Len(queue'),
                          queue'[i] = queue'[j], i # j
                   PROVE  FALSE
        OBVIOUS
      <3>1. \A k \in 1..Len(queue) : queue[k] # curr
        BY <1>2 DEF Handed, InQueue
      <3>2. CASE i \in 1..Len(queue) /\ j \in 1..Len(queue)
        BY <2>1, <3>2 DEF OnePlace
      <3>3. CASE i = Len(queue) + 1 \/ j = Len(queue) + 1
        BY <2>1, <3>1, <3>3
      <3> QED BY <2>1, <3>2, <3>3
    <2> QED BY <1>1, <1>2, <2>2, <2>3, <2>4, <2>5 DEF OnePlace, Handed, Taken
  <1> QED BY <1>3, <1>4 DEF MainEnqueues

\* The runnable's thread takes the first of the queue, or nothing.
LEMMA OnePlaceTakes ==
    ASSUME Shape, OnePlace, RunNext
    PROVE  OnePlace'
  <1>1. UNCHANGED <<call, list, main, curr, called>> /\ ~Taken
    BY DEF RunNext, Taken
  <1>2. CASE runner' # "check"
    <2>1. UNCHANGED queue /\ ~Taken'
      BY <1>1, <1>2 DEF RunNext, Taken
    <2>2. \A t : (InQueue(t)' <=> InQueue(t)) /\ ~InHand(t)' /\ ~InHand(t)
      BY <1>1, <2>1 DEF InQueue, InHand
    <2> QED BY <1>1, <2>1, <2>2 DEF OnePlace, Handed
  <1>3. CASE runner' = "check"
    <2>1. queue # <<>> /\ queue' = Tail(queue) /\ job' = Head(queue) /\ Taken'
      BY <1>3 DEF RunNext, Taken
    <2>2. /\ Len(queue) \in Nat /\ Len(queue) > 0 /\ Len(queue') = Len(queue) - 1
          /\ \A i \in 1..Len(queue') : queue'[i] = queue[i + 1]
          /\ job' = queue[1] /\ job' \in Timers
      BY <2>1 DEF Shape
    <2>3. InQueue(job')
      BY <2>2 DEF InQueue
    <2>4. \A t : InQueue(t)' => InQueue(t) /\ t # job'
      <3> SUFFICES ASSUME NEW t, NEW i \in 1..Len(queue'), queue'[i] = t
                   PROVE  InQueue(t) /\ t # job'
        BY DEF InQueue
      <3>1. i + 1 \in 1..Len(queue) /\ queue[i + 1] = t /\ i + 1 # 1 /\ 1 \in 1..Len(queue)
        BY <2>2
      <3> QED BY <2>2, <3>1 DEF InQueue, OnePlace
    <2>5. \A t : InHand(t)' <=> t = job'
      BY <2>1 DEF InHand
    <2>6. \A i, j \in 1..Len(queue') : queue'[i] = queue'[j] => i = j
      <3> SUFFICES ASSUME NEW i \in 1..Len(queue'), NEW j \in 1..Len(queue'),
                          queue'[i] = queue'[j]
                   PROVE  i = j
        OBVIOUS
      <3>1. /\ i + 1 \in 1..Len(queue) /\ j + 1 \in 1..Len(queue)
            /\ queue[i + 1] = queue[j + 1]
        BY <2>2
      <3>2. i + 1 = j + 1
        BY <3>1 DEF OnePlace
      <3> QED BY <3>2
    <2>7. \A t : Handed(t)' => Handed(t)
      BY <1>1, <2>3, <2>4, <2>5 DEF Handed
    <2> QED BY <1>1, <2>1, <2>2, <2>3, <2>4, <2>5, <2>6, <2>7 DEF OnePlace
  <1> QED BY <1>2, <1>3

\* What was taken is dropped, because it was canceled, or called.
LEMMA OnePlaceCalls ==
    ASSUME Shape, OnePlace, RunBegin \/ RunCheck \/ RunCall
    PROVE  OnePlace'
  <1>1. UNCHANGED <<call, list, main, curr, queue, job>>
    BY DEF RunBegin, RunCheck, RunCall
  <1>2. \A t : InQueue(t)' <=> InQueue(t)
    BY <1>1 DEF InQueue
  <1>3. CASE RunBegin \/ RunCheck
    <2>1. UNCHANGED called /\ (Taken' => Taken)
      BY <1>3 DEF RunBegin, RunCheck, Taken
    <2>2. \A t : (InHand(t)' => InHand(t)) /\ (Handed(t)' => Handed(t))
      BY <1>1, <1>2, <2>1 DEF InHand, Handed
    <2> QED BY <1>1, <1>2, <2>1, <2>2 DEF OnePlace
  <1>4. CASE RunCall
    <2>1. called' = called \cup {job} /\ Taken /\ ~Taken' /\ InHand(job)
      BY <1>4 DEF RunCall, Taken, InHand
    <2>2. \A t : ~InHand(t)' /\ (Handed(t)' => Handed(t))
      BY <1>1, <1>2, <2>1 DEF InHand, Handed
    <2>3. \A t \in Timers : InQueue(t) => t # job
      BY <2>1 DEF OnePlace
    <2> QED BY <1>1, <1>2, <2>1, <2>2, <2>3 DEF OnePlace
  <1> QED BY <1>3, <1>4

LEMMA OnePlaceStep == CountInv /\ OnePlace /\ [Next]_timerVars => OnePlace'
  <1> SUFFICES ASSUME CountInv, OnePlace, [Next]_timerVars PROVE OnePlace'
    OBVIOUS
  <1> USE DEF CountInv
  <1>1. ASSUME NEW t \in Timers,
               Schedule(t) \/ ScheduleSignals(t) \/ SchedulePosts(t) \/ Cancel(t)
        PROVE  OnePlace'
    <2>1. UNCHANGED <<queue, runner, job, called, curr>>
      BY <1>1 DEF Schedule, ScheduleSignals, SchedulePosts, Cancel
    <2>2. /\ \A u \in Timers : call[u] # "idle" => call'[u] # "idle"
          /\ \A u \in Timers : call[u] # "idle" /\ u \in list' => u \in list
          /\ main = "remove" => main' = "remove"
      BY <1>1, SignalKeeps DEF Schedule, ScheduleSignals, SchedulePosts, Cancel, Shape
    <2> QED BY <2>1, <2>2, OnePlaceKept DEF OnePlace
  <1>2. CASE Tick \/ UNCHANGED timerVars
    BY <1>2, OnePlaceKept DEF Tick, timerVars, OnePlace
  <1>3. CASE MainLoop \/ MainSem \/ MainPeek \/ MainLook \/ MainSleeps \/ MainWakes
    <2>1. UNCHANGED <<queue, runner, job, called, call, list>> /\ main # "remove"
      BY <1>3 DEF MainLoop, MainSem, MainPeek, MainLook, MainSleeps, MainWakes
    <2> QED BY <2>1, OnePlaceKept DEF OnePlace
  <1>4. CASE MainRemoves
    <2>1. UNCHANGED <<queue, runner, job, called, call>> /\ list' = list \ {curr}
      BY <1>4 DEF MainRemoves
    <2> QED BY <2>1, OnePlaceKept DEF OnePlace
  <1>5. CASE Stop
    <2>1. /\ UNCHANGED <<queue, runner, job, called, call, curr>>
          /\ list' \in {list, {}} /\ (main = "remove" => main' = "remove")
      BY <1>5, SignalKeeps DEF Stop, StopRunnable, StopJoins, StopFrees, StopClears, StopPosts,
            StopSignals, StopEnds, StopMoves, Shape
    <2> QED BY <2>1, OnePlaceKept DEF OnePlace
  <1> QED BY <1>1, <1>2, <1>3, <1>4, <1>5, OnePlaceEnqueues, OnePlaceTakes, OnePlaceCalls
          DEF Next, Main, Runner

\* A timer is called once: the main thread hands it over before it takes it off the list,
\* and never looks at it in between (__tsk_timer_manager_mainthread, run).
CalledOnce == [][RunCall => job \notin called]_timerVars

\* However many timers there are, and however schedules, cancels, a stop and the two
\* threads interleave, the callback of none is run twice.
THEOREM NoTimerIsCalledTwice == Spec => CalledOnce
  <1>1. Init => CountInv /\ OnePlace
    <2>1. Init => OnePlace
      BY DEF Init, OnePlace, Handed, InQueue, InHand, Taken
    <2> QED BY <2>1, CountBegins
  <1>2. CountInv /\ OnePlace /\ [Next]_timerVars => CountInv' /\ OnePlace'
    BY CountStep, OnePlaceStep
  <1>3. OnePlace => [RunCall => job \notin called]_timerVars
    BY DEF OnePlace, RunCall, InHand, Taken
  <1> QED BY <1>1, <1>2, <1>3, PTL DEF Spec, CalledOnce
=============================================================================
