------------------------- MODULE SignalingLocksProofs -------------------------
(***************************************************************************)
(* Theorems about the locks of the signalling path, for any number of      *)
(* threads.  Who may hold what, and where (Held), is inductive; from it    *)
(* follows that a thread that holds a lock and waits for another one,      *)
(* other than that of the dialog, is inside the dialog.  Two threads are   *)
(* never inside the dialog, so they cannot wait for each other.  Last,     *)
(* whatever the end of the dialog leaves to be undone has a thread under   *)
(* way that undoes it.                                                     *)
(***************************************************************************)
EXTENDS SignalingLocks, TLAPS

\* Where a thread is inside the handlers of the dialog.
InsideDialog == {"inDialog", "find", "answer", "start", "cancel", "again", "leave"}
Descending == {"action", "stop"}

DialogHeld(p) ==
    /\ pc[p] \in InsideDialog => owner["dialog"] = p
    /\ owner["dialog"] = p => pc[p] \in InsideDialog \cup {"outDialog", "remove"}

TransacsHeld(p) == owner["transacs"] = p => pc[p] = "again"

FsmHeld(p) ==
    /\ pc[p] \in {"create", "wantFsm", "inFsm", "outFsm"} => call[p] \notin Descending
    /\ owner["fsm"] = p =>
          /\ call[p] \notin Descending
          /\ \/ pc[p] \in {"inFsm", "wantDialog", "outFsm", "outDialog"} \cup InsideDialog
             \/ pc[p] = "remove" /\ owner["dialog"] = p

DialogsHeld(p) ==
    owner["dialogs"] = p =>
       /\ call[p] = "stop"
       /\ \/ pc[p] \in {"wantDialog", "outDialog"} \cup InsideDialog
          \/ pc[p] = "remove" /\ owner["dialog"] = p

Held == \A p \in Threads : DialogHeld(p) /\ TransacsHeld(p) /\ FsmHeld(p) /\ DialogsHeld(p)

-----------------------------------------------------------------------------
\* Nobody is not a thread, and the places and locks have different names.
LEMMA TypeInit == Init => TypeOK
  <1> SUFFICES ASSUME Init PROVE TypeOK
    OBVIOUS
  <1>1. /\ owner \in [Locks -> Threads \cup {Nobody}]
        /\ pc \in [Threads -> Places] /\ failed \in [Threads -> BOOLEAN]
    BY DEF Init, Places
  <1>2. listed \subseteq {"transaction", "dialog"}
    BY DEF Init
  <1> QED BY <1>1, <1>2 DEF Init, TypeOK

\* The type invariant is inductive.
LEMMA TypeStep == TypeOK /\ [Next]_lockVars => TypeOK'
  <1> SUFFICES ASSUME TypeOK, [Next]_lockVars PROVE TypeOK'
    OBVIOUS
  <1> USE DEF TypeOK, GoTo, Take, Release, Becomes, Places, Locks
  <1>1. CASE UNCHANGED lockVars
    BY <1>1 DEF lockVars
  <1>2. ASSUME NEW p \in Threads, Step(p) PROVE TypeOK'
    <2>1. CASE MessageArrives(p)
      BY <2>1 DEF MessageArrives
    <2>2. CASE TimerFires(p)
      BY <2>2 DEF TimerFires
    <2>3. CASE RequestArrives(p)
      BY <2>3 DEF RequestArrives
    <2>4. CASE CreateServer(p)
      BY <2>4 DEF CreateServer
    <2>5. CASE UserActs(p)
      BY <2>5 DEF UserActs
    <2>6. CASE StackStops(p)
      BY <2>6 DEF StackStops
    <2>7. CASE EnterFsm(p)
      BY <2>7 DEF EnterFsm
    <2>8. CASE Handle(p)
      BY <2>8 DEF Handle
    <2>9. CASE ReturnToFsm(p)
      BY <2>9 DEF ReturnToFsm
    <2>10. CASE Terminate(p)
      BY <2>10 DEF Terminate
    <2>11. CASE Remove(p)
      BY <2>11 DEF Remove
    <2>12. CASE EnterDialog(p)
      BY <2>12 DEF EnterDialog
    <2>13. CASE Act(p)
      <3>1. pc' \in [Threads -> Places]
        BY <2>13 DEF Act
      <3>2. failed' \in [Threads -> BOOLEAN]
        <4>1. CASE failed' = failed
          BY <4>1
        <4>2. CASE \E b \in BOOLEAN : failed' = [failed EXCEPT ![p] = b]
          BY <4>2
        <4> QED BY <2>13, <4>1, <4>2 DEF Act
      <3>3. terminated' \in BOOLEAN /\ ended' \in Nat
        <4>1. CASE terminated' = terminated /\ ended' = ended
          BY <4>1
        <4>2. CASE terminated' = TRUE /\ ended' = ended + 1
          BY <4>2
        <4> QED BY <2>13, <4>1, <4>2 DEF Act
      <3> QED BY <2>13, <3>1, <3>2, <3>3 DEF Act
    <2>14. CASE FindServer(p)
      BY <2>14 DEF FindServer
    <2>15. CASE Answer(p)
      BY <2>15 DEF Answer
    <2>16. CASE StartClient(p)
      BY <2>16 DEF StartClient
    <2>17. CASE ReturnFromDialog(p)
      BY <2>17 DEF ReturnFromDialog
    <2>18. CASE CancelTransactions(p)
      BY <2>18 DEF CancelTransactions
    <2>19. CASE CancelOne(p)
      BY <2>19 DEF CancelOne
    <2>20. CASE NoneLeft(p)
      BY <2>20 DEF NoneLeft
    <2>21. CASE LeaveLayer(p)
      BY <2>21 DEF LeaveLayer
    <2> QED
      BY <1>2, <2>1, <2>2, <2>3, <2>4, <2>5, <2>6, <2>7, <2>8, <2>9, <2>10, <2>11, <2>12, <2>13,
         <2>14, <2>15, <2>16, <2>17, <2>18, <2>19, <2>20, <2>21
      DEF Step
  <1> QED BY <1>1, <1>2 DEF Next

\* The types are right in every state, however many threads there are.
THEOREM TypeCorrect == Spec => []TypeOK
  BY TypeInit, TypeStep, PTL DEF Spec

-----------------------------------------------------------------------------
EndsWithDialog == DialogEndsOnce /\ (~terminated => ended = 0)

\* The dialog's FSM passes its final state once.
LEMMA EndStep == TypeOK /\ EndsWithDialog /\ [Next]_lockVars => EndsWithDialog'
  BY DEF EndsWithDialog, DialogEndsOnce, TypeOK, Next, Step, lockVars, MessageArrives,
         TimerFires, RequestArrives, CreateServer, UserActs, StackStops, EnterFsm, Handle,
         ReturnToFsm, Terminate, Remove, EnterDialog, Act, FindServer, Answer, StartClient,
         ReturnFromDialog, CancelTransactions, CancelOne, NoneLeft, LeaveLayer, Becomes

\* The end of a dialog is announced once, however many threads end it.
THEOREM EndsOnce == Spec => []DialogEndsOnce
  <1>1. Init => EndsWithDialog
    BY DEF Init, EndsWithDialog, DialogEndsOnce
  <1>2. EndsWithDialog => DialogEndsOnce
    BY DEF EndsWithDialog
  <1> QED BY <1>1, <1>2, TypeInit, TypeStep, EndStep, PTL DEF Spec

-----------------------------------------------------------------------------
\* No thread holds anything before its call.
LEMMA HeldInit == Init => Held
  BY ThreadsAssumption
  DEF Init, Held, DialogHeld, TransacsHeld, FsmHeld, DialogsHeld, InsideDialog, Locks

\* Every step of a thread keeps what it holds and where it is together, and
\* leaves the other threads what they hold.
LEMMA HeldStep == TypeOK /\ Held /\ [Next]_lockVars => Held'
  <1> SUFFICES ASSUME TypeOK, Held, [Next]_lockVars, NEW q \in Threads
               PROVE  (DialogHeld(q) /\ TransacsHeld(q) /\ FsmHeld(q) /\ DialogsHeld(q))'
    BY DEF Held
  <1>0. DialogHeld(q) /\ TransacsHeld(q) /\ FsmHeld(q) /\ DialogsHeld(q)
    BY DEF Held
  <1> USE DEF TypeOK, DialogHeld, TransacsHeld, FsmHeld, DialogsHeld, InsideDialog, Descending,
              Locks, GoTo, At, Take, Free, Release
  <1>1. CASE UNCHANGED lockVars
    BY <1>0, <1>1 DEF lockVars
  <1>2. ASSUME NEW p \in Threads, Step(p)
        PROVE  (DialogHeld(q) /\ TransacsHeld(q) /\ FsmHeld(q) /\ DialogsHeld(q))'
    <2>0. /\ DialogHeld(p) /\ TransacsHeld(p) /\ FsmHeld(p) /\ DialogsHeld(p)
          /\ p # Nobody /\ q # Nobody
      BY ThreadsAssumption DEF Held
    <2>1. CASE \/ MessageArrives(p) \/ TimerFires(p) \/ RequestArrives(p) \/ CreateServer(p)
               \/ UserActs(p)
      BY <1>0, <2>0, <2>1
      DEF MessageArrives, TimerFires, RequestArrives, CreateServer, UserActs
    <2>2. CASE StackStops(p)
      BY <1>0, <2>0, <2>2 DEF StackStops
    <2>3. CASE EnterFsm(p)
      BY <1>0, <2>0, <2>3 DEF EnterFsm
    <2>4. CASE Handle(p) \/ Terminate(p)
      BY <1>0, <2>0, <2>4 DEF Handle, Terminate
    <2>5. CASE ReturnToFsm(p)
      BY <1>0, <2>0, <2>5 DEF ReturnToFsm
    <2>6. CASE Remove(p)
      BY <1>0, <2>0, <2>6 DEF Remove
    <2>7. CASE EnterDialog(p)
      BY <1>0, <2>0, <2>7 DEF EnterDialog
    <2>8. CASE Act(p) \/ FindServer(p) \/ Answer(p) \/ StartClient(p) \/ LeaveLayer(p)
      BY <1>0, <2>0, <2>8 DEF Act, FindServer, Answer, StartClient, LeaveLayer
    <2>9. CASE ReturnFromDialog(p)
      BY <1>0, <2>0, <2>9 DEF ReturnFromDialog
    <2>10. CASE CancelTransactions(p)
      BY <1>0, <2>0, <2>10 DEF CancelTransactions
    <2>11. CASE CancelOne(p)
      BY <1>0, <2>0, <2>11 DEF CancelOne
    <2>12. CASE NoneLeft(p)
      BY <1>0, <2>0, <2>12 DEF NoneLeft
    <2> QED BY <1>2, <2>1, <2>2, <2>3, <2>4, <2>5, <2>6, <2>7, <2>8, <2>9, <2>10, <2>11, <2>12
            DEF Step
  <1> QED BY <1>1, <1>2 DEF Next

\* A thread waits for one lock at most.
LEMMA OneWanted ==
    ASSUME NEW p \in Threads
    PROVE  Wanted(p) \in {{}, {"transacs"}, {"dialogs"}, {"fsm"}, {"dialog"}}
  BY DEF Wanted

\* A thread that holds the lock of a layer or of the transaction, and waits for
\* a lock that is not the dialog's, holds the dialog's.
LEMMA HoldersAreInside ==
    ASSUME Held, NEW p \in Threads, NEW l \in {"transacs", "fsm", "dialogs"}, owner[l] = p,
           Wanted(p) # {}, Wanted(p) # {"dialog"}
    PROVE  owner["dialog"] = p
  <1>0. DialogHeld(p) /\ TransacsHeld(p) /\ FsmHeld(p) /\ DialogsHeld(p)
    BY DEF Held
  <1>1. pc[p] \notin {"inFsm", "outFsm", "outDialog", "wantDialog"}
    BY DEF Wanted
  <1> QED BY <1>0, <1>1
          DEF DialogHeld, TransacsHeld, FsmHeld, DialogsHeld, InsideDialog

\* Where the holders are inside the dialog, no two threads wait for each other.
LEMMA NoOtherCycle == Held => OnlyDialogLockDeadlocks
  <1> SUFFICES ASSUME Held, NEW S \in SUBSET Threads, Deadlocked(S),
                      \A p \in S : Wanted(p) # {"dialog"}
               PROVE  FALSE
    BY DEF OnlyDialogLockDeadlocks
  <1>1. ASSUME NEW p \in S
        PROVE  \E q \in S \ {p} : owner["dialog"] = q
    <2>1. PICK l \in Wanted(p) : owner[l] \in S \ {p}
      BY DEF Deadlocked
    <2>2. l \in {"transacs", "fsm", "dialogs"}
      BY <2>1, OneWanted
    <2>3. Wanted(owner[l]) # {} /\ Wanted(owner[l]) # {"dialog"}
      BY <2>1 DEF Deadlocked
    <2>4. owner["dialog"] = owner[l]
      BY <2>1, <2>2, <2>3, HoldersAreInside
    <2> QED BY <2>1, <2>4
  <1>2. PICK p \in S : TRUE
    BY DEF Deadlocked
  <1>3. PICK q \in S : owner["dialog"] = q
    BY <1>1, <1>2
  <1> QED BY <1>1, <1>3

\* Whatever the number of threads: where they block each other, one of them
\* waits for the lock of the dialog.
THEOREM DeadlocksNeedTheDialog == Spec => []OnlyDialogLockDeadlocks
  BY HeldInit, HeldStep, TypeInit, TypeStep, NoOtherCycle, PTL DEF Spec

-----------------------------------------------------------------------------
(***************************************************************************)
(* No orphans.  Whatever is still to be forgotten when the dialog has      *)
(* ended, a thread is on its way to forget it.                             *)
(***************************************************************************)
Open == transac \in {"Started", "Live"}

\* What lists the layer's list and the state of the transaction agree on.
Listing == /\ transac = "none" => "transaction" \notin listed
           /\ Open => "transaction" \in listed
           /\ \A p \in Threads : At(p, "remove") => transac = "Terminated"

\* A thread starts a transaction of the dialog inside the dialog, before its end.
StartsBeforeEnd ==
    \A p \in Threads : /\ At(p, "start") => ~terminated
                       /\ At(p, "create") => call[p] = "request"

\* Who will take the transaction off the list, the dialog off its own.
Removes(p) == pc[p] \in {"outFsm", "terminate", "remove"}
Leaves(p) == pc[p] \in {"cancel", "again", "leave"}

\* Who will end the transaction: the thread that cancels it, or the one that created
\* it when the cancelling was over, and that is refused by the dialog.
Dooms(p) ==
    \/ pc[p] \in {"cancel", "again"}
    \/ /\ call[p] = "request"
       /\ \/ pc[p] \in {"wantFsm", "inFsm", "wantDialog", "inDialog", "terminate"}
          \/ pc[p] \in {"outDialog", "outFsm"} /\ failed[p]

Attended ==
    /\ transac = "Terminated" /\ "transaction" \in listed => \E p \in Threads : Removes(p)
    /\ terminated /\ "dialog" \in listed => \E p \in Threads : Leaves(p)
    /\ terminated /\ Open => \E p \in Threads : Dooms(p)

OrphanInv == Listing /\ StartsBeforeEnd /\ Attended

\* A step of one thread leaves the others where they are.
LEMMA OthersStay ==
    ASSUME TypeOK, NEW p \in Threads, Step(p)
    PROVE  /\ call' = call
           /\ \A q \in Threads \ {p} : pc'[q] = pc[q] /\ failed'[q] = failed[q]
  <1> USE DEF TypeOK, GoTo
  <1>1. CASE MessageArrives(p)
    BY <1>1 DEF MessageArrives
  <1>2. CASE TimerFires(p)
    BY <1>2 DEF TimerFires
  <1>3. CASE RequestArrives(p)
    BY <1>3 DEF RequestArrives
  <1>4. CASE CreateServer(p)
    BY <1>4 DEF CreateServer
  <1>5. CASE UserActs(p)
    BY <1>5 DEF UserActs
  <1>6. CASE StackStops(p)
    BY <1>6 DEF StackStops
  <1>7. CASE EnterFsm(p)
    BY <1>7 DEF EnterFsm
  <1>8. CASE Handle(p)
    BY <1>8 DEF Handle
  <1>9. CASE ReturnToFsm(p)
    BY <1>9 DEF ReturnToFsm
  <1>10. CASE Terminate(p)
    BY <1>10 DEF Terminate
  <1>11. CASE Remove(p)
    BY <1>11 DEF Remove
  <1>12. CASE EnterDialog(p)
    BY <1>12 DEF EnterDialog
  <1>13. CASE Act(p)
    BY <1>13 DEF Act
  <1>14. CASE FindServer(p)
    BY <1>14 DEF FindServer
  <1>15. CASE Answer(p)
    BY <1>15 DEF Answer
  <1>16. CASE StartClient(p)
    BY <1>16 DEF StartClient
  <1>17. CASE ReturnFromDialog(p)
    BY <1>17 DEF ReturnFromDialog
  <1>18. CASE CancelTransactions(p)
    BY <1>18 DEF CancelTransactions
  <1>19. CASE CancelOne(p)
    BY <1>19 DEF CancelOne
  <1>20. CASE NoneLeft(p)
    BY <1>20 DEF NoneLeft
  <1>21. CASE LeaveLayer(p)
    BY <1>21 DEF LeaveLayer
  <1> QED
    BY <1>1, <1>2, <1>3, <1>4, <1>5, <1>6, <1>7, <1>8, <1>9, <1>10, <1>11,
       <1>12, <1>13, <1>14, <1>15, <1>16, <1>17, <1>18, <1>19, <1>20, <1>21
    DEF Step

\* The list and the state of the transaction change together.
LEMMA ListingStep ==
    ASSUME TypeOK, Listing, NEW p \in Threads, Step(p)
    PROVE  Listing'
  <1> USE DEF TypeOK, Listing, Open, At, GoTo, Becomes
  <1>1. CASE MessageArrives(p)
    BY <1>1 DEF MessageArrives
  <1>2. CASE TimerFires(p)
    BY <1>2 DEF TimerFires
  <1>3. CASE RequestArrives(p)
    BY <1>3 DEF RequestArrives
  <1>4. CASE CreateServer(p)
    BY <1>4 DEF CreateServer
  <1>5. CASE UserActs(p)
    BY <1>5 DEF UserActs
  <1>6. CASE StackStops(p)
    BY <1>6 DEF StackStops
  <1>7. CASE EnterFsm(p)
    BY <1>7 DEF EnterFsm
  <1>8. CASE Handle(p)
    BY <1>8 DEF Handle
  <1>9. CASE ReturnToFsm(p)
    BY <1>9 DEF ReturnToFsm
  <1>10. CASE Terminate(p)
    BY <1>10 DEF Terminate
  <1>11. CASE Remove(p)
    BY <1>11 DEF Remove
  <1>12. CASE EnterDialog(p)
    BY <1>12 DEF EnterDialog
  <1>13. CASE Act(p)
    BY <1>13 DEF Act
  <1>14. CASE FindServer(p)
    BY <1>14 DEF FindServer
  <1>15. CASE Answer(p)
    BY <1>15 DEF Answer
  <1>16. CASE StartClient(p)
    BY <1>16 DEF StartClient
  <1>17. CASE ReturnFromDialog(p)
    BY <1>17 DEF ReturnFromDialog
  <1>18. CASE CancelTransactions(p)
    BY <1>18 DEF CancelTransactions
  <1>19. CASE CancelOne(p)
    BY <1>19 DEF CancelOne
  <1>20. CASE NoneLeft(p)
    BY <1>20 DEF NoneLeft
  <1>21. CASE LeaveLayer(p)
    BY <1>21 DEF LeaveLayer
  <1> QED
    BY <1>1, <1>2, <1>3, <1>4, <1>5, <1>6, <1>7, <1>8, <1>9, <1>10, <1>11,
       <1>12, <1>13, <1>14, <1>15, <1>16, <1>17, <1>18, <1>19, <1>20, <1>21
    DEF Step

\* Nobody ends the dialog while another thread is inside it.
LEMMA StartsStep ==
    ASSUME TypeOK, Held, StartsBeforeEnd, NEW p \in Threads, Step(p)
    PROVE  StartsBeforeEnd'
  <1> SUFFICES ASSUME NEW q \in Threads
               PROVE  /\ At(q, "start")' => ~terminated'
                      /\ At(q, "create")' => call'[q] = "request"
    BY DEF StartsBeforeEnd
  <1>0. DialogHeld(p) /\ DialogHeld(q) /\ (q # p => pc'[q] = pc[q]) /\ call' = call
    BY OthersStay DEF Held
  <1> USE DEF TypeOK, StartsBeforeEnd, At, GoTo
  <1>1. CASE MessageArrives(p)
    BY <1>0, <1>1 DEF MessageArrives
  <1>2. CASE TimerFires(p)
    BY <1>0, <1>2 DEF TimerFires
  <1>3. CASE RequestArrives(p)
    BY <1>0, <1>3 DEF RequestArrives
  <1>4. CASE CreateServer(p)
    BY <1>0, <1>4 DEF CreateServer
  <1>5. CASE UserActs(p)
    BY <1>0, <1>5 DEF UserActs
  <1>6. CASE StackStops(p)
    BY <1>0, <1>6 DEF StackStops
  <1>7. CASE EnterFsm(p)
    BY <1>0, <1>7 DEF EnterFsm
  <1>8. CASE Handle(p)
    BY <1>0, <1>8 DEF Handle
  <1>9. CASE ReturnToFsm(p)
    BY <1>0, <1>9 DEF ReturnToFsm
  <1>10. CASE Terminate(p)
    BY <1>0, <1>10 DEF Terminate
  <1>11. CASE Remove(p)
    BY <1>0, <1>11 DEF Remove
  <1>12. CASE EnterDialog(p)
    BY <1>0, <1>12 DEF EnterDialog
  <1>13. CASE Act(p)
    BY <1>0, <1>13 DEF Act, DialogHeld, InsideDialog
  <1>14. CASE FindServer(p)
    BY <1>0, <1>14 DEF FindServer
  <1>15. CASE Answer(p)
    BY <1>0, <1>15 DEF Answer
  <1>16. CASE StartClient(p)
    BY <1>0, <1>16 DEF StartClient
  <1>17. CASE ReturnFromDialog(p)
    BY <1>0, <1>17 DEF ReturnFromDialog
  <1>18. CASE CancelTransactions(p)
    BY <1>0, <1>18 DEF CancelTransactions
  <1>19. CASE CancelOne(p)
    BY <1>0, <1>19 DEF CancelOne
  <1>20. CASE NoneLeft(p)
    BY <1>0, <1>20 DEF NoneLeft
  <1>21. CASE LeaveLayer(p)
    BY <1>0, <1>21 DEF LeaveLayer
  <1> QED
    BY <1>1, <1>2, <1>3, <1>4, <1>5, <1>6, <1>7, <1>8, <1>9, <1>10, <1>11,
       <1>12, <1>13, <1>14, <1>15, <1>16, <1>17, <1>18, <1>19, <1>20, <1>21
    DEF Step

\* A thread that is on its way to forget something goes on to do so, and a step
\* that leaves something to forget sets out to forget it.
LEMMA ForgetsIt ==
    ASSUME TypeOK, Listing, StartsBeforeEnd, NEW p \in Threads, Step(p)
    PROVE  /\ transac' = "Terminated" /\ "transaction" \in listed'
              => \/ Removes(p)'
                 \/ transac = "Terminated" /\ "transaction" \in listed /\ ~Removes(p)
           /\ terminated' /\ "dialog" \in listed'
              => \/ Leaves(p)'
                 \/ terminated /\ "dialog" \in listed /\ ~Leaves(p)
           /\ terminated' /\ Open'
              => \/ Dooms(p)'
                 \/ terminated /\ Open /\ ~Dooms(p)
  <1> USE DEF TypeOK, Listing, StartsBeforeEnd, Open, Removes, Leaves, Dooms, At, GoTo, Becomes
  <1>1. CASE MessageArrives(p)
    BY <1>1 DEF MessageArrives
  <1>2. CASE TimerFires(p)
    BY <1>2 DEF TimerFires
  <1>3. CASE RequestArrives(p)
    BY <1>3 DEF RequestArrives
  <1>4. CASE CreateServer(p)
    BY <1>4 DEF CreateServer
  <1>5. CASE UserActs(p)
    BY <1>5 DEF UserActs
  <1>6. CASE StackStops(p)
    BY <1>6 DEF StackStops
  <1>7. CASE EnterFsm(p)
    BY <1>7 DEF EnterFsm
  <1>8. CASE Handle(p)
    BY <1>8 DEF Handle
  <1>9. CASE ReturnToFsm(p)
    BY <1>9 DEF ReturnToFsm
  <1>10. CASE Terminate(p)
    BY <1>10 DEF Terminate
  <1>11. CASE Remove(p)
    BY <1>11 DEF Remove
  <1>12. CASE EnterDialog(p)
    BY <1>12 DEF EnterDialog
  <1>13. CASE Act(p)
    BY <1>13 DEF Act
  <1>14. CASE FindServer(p)
    BY <1>14 DEF FindServer
  <1>15. CASE Answer(p)
    BY <1>15 DEF Answer
  <1>16. CASE StartClient(p)
    BY <1>16 DEF StartClient
  <1>17. CASE ReturnFromDialog(p)
    BY <1>17 DEF ReturnFromDialog
  <1>18. CASE CancelTransactions(p)
    BY <1>18 DEF CancelTransactions
  <1>19. CASE CancelOne(p)
    BY <1>19 DEF CancelOne
  <1>20. CASE NoneLeft(p)
    BY <1>20 DEF NoneLeft
  <1>21. CASE LeaveLayer(p)
    BY <1>21 DEF LeaveLayer
  <1> QED
    BY <1>1, <1>2, <1>3, <1>4, <1>5, <1>6, <1>7, <1>8, <1>9, <1>10, <1>11,
       <1>12, <1>13, <1>14, <1>15, <1>16, <1>17, <1>18, <1>19, <1>20, <1>21
    DEF Step

LEMMA AttendedStep ==
    ASSUME TypeOK, Listing, StartsBeforeEnd, Attended, NEW p \in Threads, Step(p)
    PROVE  Attended'
  <1>0. \A q \in Threads \ {p} : /\ Removes(q) => Removes(q)'
                                 /\ Leaves(q) => Leaves(q)'
                                 /\ Dooms(q) => Dooms(q)'
    BY OthersStay DEF Removes, Leaves, Dooms
  <1>1. ASSUME transac' = "Terminated", "transaction" \in listed'
        PROVE  \E q \in Threads : Removes(q)'
    BY <1>0, <1>1, ForgetsIt DEF Attended
  <1>2. ASSUME terminated', "dialog" \in listed'
        PROVE  \E q \in Threads : Leaves(q)'
    BY <1>0, <1>2, ForgetsIt DEF Attended
  <1>3. ASSUME terminated', Open'
        PROVE  \E q \in Threads : Dooms(q)'
    BY <1>0, <1>3, ForgetsIt DEF Attended
  <1> QED BY <1>1, <1>2, <1>3 DEF Attended

LEMMA OrphanStep == TypeOK /\ Held /\ OrphanInv /\ [Next]_lockVars => OrphanInv'
  <1> SUFFICES ASSUME TypeOK, Held, OrphanInv, [Next]_lockVars PROVE OrphanInv'
    OBVIOUS
  <1>1. CASE UNCHANGED lockVars
    BY <1>1 DEF lockVars, OrphanInv, Listing, StartsBeforeEnd, Attended, Open, Removes, Leaves,
                Dooms, At
  <1>2. ASSUME NEW p \in Threads, Step(p) PROVE OrphanInv'
    BY <1>2, ListingStep, StartsStep, AttendedStep DEF OrphanInv
  <1> QED BY <1>1, <1>2 DEF Next

LEMMA OrphanInit == Init => OrphanInv
  BY DEF Init, OrphanInv, Listing, StartsBeforeEnd, Attended, Open, At

\* Whatever the number of threads, and whichever of them ends the dialog: when all
\* have returned it has left its layer, and left no transaction behind.
THEOREM NobodyIsLeft == Spec => []NoOrphanTransaction
  <1>1. TypeOK /\ OrphanInv => NoOrphanTransaction
    BY DEF TypeOK, OrphanInv, Listing, Attended, Open, Removes, Leaves, Dooms, AllDone, At,
           NoOrphanTransaction
  <1> QED BY <1>1, OrphanInit, OrphanStep, HeldInit, HeldStep, TypeInit, TypeStep, PTL DEF Spec
=============================================================================
