---------------------------- MODULE SignalingLocks ----------------------------
(***************************************************************************)
(* The locks of the signalling path: a dialog, one of its transactions and *)
(* the two layers that list them.  Messages and timers climb from the      *)
(* transaction to the dialog, users and the end of a dialog descend from   *)
(* the dialog to the transaction, and each holds its locks on the way.     *)
(* All four locks are recursive.  The FSM of the dialog has a fifth one    *)
(* that is only ever taken under the lock of the dialog: it is left out.   *)
(* What the handlers decide is a free choice here; TransacICT, TransacIST  *)
(* and the others say what a transaction decides.  The dialog is an INVITE *)
(* dialog, the one whose OnTerminated cancels its transactions; the others *)
(* leave that to their destructor.                                         *)
(***************************************************************************)
EXTENDS Naturals

CONSTANT Threads    \* threads inside the stack, each making one call

VARIABLES owner,        \* holder of each lock, or Nobody
          call,         \* what each thread was asked to do
          pc,           \* where it is
          failed,       \* whether the handler of the dialog returned an error
          transac,      \* state of the transaction's FSM
          listed,       \* those of {"transaction", "dialog"} their layer lists
          terminated,   \* the FSM of the dialog is in its final state
          ended         \* how often OnTerminated of the dialog was called

lockVars == <<owner, call, pc, failed, transac, listed, terminated, ended>>

Nobody == "nobody"
ASSUME ThreadsAssumption == Nobody \notin Threads

\* Layer of the dialogs, layer of the transactions, FSM of the transaction,
\* the dialog.
Locks == {"dialogs", "transacs", "fsm", "dialog"}

\* message: a message the transport received for the transaction; timer: one of
\* the transaction's; request: a new request within the dialog; action: a call
\* of the user or a timer of the dialog; stop: tsip_dialog_layer_shutdownAll.
Calls == {"message", "timer", "request", "action", "stop"}

Places == {"begin", "create", "wantFsm", "inFsm", "wantDialog", "inDialog",
           "find", "answer", "start", "cancel", "again", "leave",
           "outDialog", "outFsm", "terminate", "remove", "done"}

-----------------------------------------------------------------------------
Init == /\ owner = [l \in Locks |-> Nobody]
        /\ call \in [Threads -> Calls]
        /\ pc = [p \in Threads |-> "begin"]
        /\ failed = [p \in Threads |-> FALSE]
        /\ transac \in {"none", "Live"}
        /\ listed = {"dialog"} \cup (IF transac = "Live" THEN {"transaction"} ELSE {})
        /\ terminated = FALSE /\ ended = 0

Free(p, l) == owner[l] \in {Nobody, p}
At(p, place) == pc[p] = place
GoTo(p, place) == pc' = [pc EXCEPT ![p] = place]
Take(p, l) == Free(p, l) /\ owner' = [owner EXCEPT ![l] = p]
Release(l) == owner' = [owner EXCEPT ![l] = Nobody]

\* The transaction takes a step of its own and stays on its layer's list.
Becomes(s) == transac' = s /\ UNCHANGED listed

-----------------------------------------------------------------------------
\* Mutant: the lock of the layer is held while the transaction handles the
\* message (it is commented out in the code).
Mutant_MessageArrives(p) ==
    /\ At(p, "begin") /\ call[p] = "message"
    /\ IF "transaction" \in listed /\ transac # "Terminated"
       THEN Take(p, "transacs") /\ GoTo(p, "wantFsm")
       ELSE Free(p, "transacs") /\ GoTo(p, "done") /\ UNCHANGED owner
    /\ UNCHANGED <<call, failed, transac, listed, terminated, ended>>

\* The transaction is looked up under the lock of its layer, and tsk_fsm_act
\* looks at its final state before it takes the lock of the FSM.
MessageArrives(p) ==
    /\ At(p, "begin") /\ call[p] = "message" /\ Free(p, "transacs")
    /\ GoTo(p, IF "transaction" \in listed /\ transac # "Terminated"
               THEN "wantFsm" ELSE "done")
    /\ UNCHANGED <<owner, call, failed, transac, listed, terminated, ended>>

TimerFires(p) ==
    /\ At(p, "begin") /\ call[p] = "timer"
    /\ GoTo(p, IF transac = "Live" THEN "wantFsm" ELSE "done")
    /\ UNCHANGED <<owner, call, failed, transac, listed, terminated, ended>>

\* No transaction matches: the dialog is looked up, and gets a new transaction
\* (one of them in a behaviour).
RequestArrives(p) ==
    /\ At(p, "begin") /\ call[p] = "request" /\ Free(p, "dialogs")
    /\ GoTo(p, IF "dialog" \in listed /\ transac = "none" THEN "create" ELSE "done")
    /\ UNCHANGED <<owner, call, failed, transac, listed, terminated, ended>>

CreateServer(p) ==
    /\ At(p, "create") /\ Free(p, "transacs")
    /\ IF transac = "none"
       THEN /\ transac' = "Started" /\ listed' = listed \cup {"transaction"}
            /\ GoTo(p, "wantFsm")
       ELSE GoTo(p, "done") /\ UNCHANGED <<transac, listed>>
    /\ UNCHANGED <<owner, call, failed, terminated, ended>>

\* A user's action goes straight to the dialog; the shutdown holds the lock of
\* the dialog layer from before its loop over the dialogs until after it.
UserActs(p) ==
    /\ At(p, "begin") /\ call[p] = "action"
    /\ GoTo(p, "wantDialog")
    /\ UNCHANGED <<owner, call, failed, transac, listed, terminated, ended>>

StackStops(p) ==
    /\ At(p, "begin") /\ call[p] = "stop" /\ Take(p, "dialogs")
    /\ GoTo(p, IF "dialog" \in listed THEN "wantDialog" ELSE "outDialog")
    /\ UNCHANGED <<call, failed, transac, listed, terminated, ended>>

-----------------------------------------------------------------------------
\* The transaction's handlers run under the lock of its FSM.  The first one
\* takes it out of Started.
EnterFsm(p) ==
    /\ At(p, "wantFsm") /\ Take(p, "fsm") /\ GoTo(p, "inFsm")
    /\ Becomes(IF transac = "Started" /\ call[p] = "request" THEN "Live" ELSE transac)
    /\ UNCHANGED <<call, failed, terminated, ended>>

\* A handler is done with it here, ends it (a timer, a failed send), or passes
\* the event to the dialog; the handler that starts a server transaction ends
\* it or passes the request on.  After its end no entry of the table matches.
Handle(p) ==
    /\ At(p, "inFsm")
    /\ \/ /\ transac = "Live"
          /\ GoTo(p, "wantDialog") /\ UNCHANGED transac
       \/ /\ transac = "Live"
          /\ GoTo(p, "outFsm") /\ transac' = "Terminated"
       \/ /\ call[p] # "request" \/ transac = "Terminated"
          /\ GoTo(p, "outFsm") /\ UNCHANGED transac
    /\ UNCHANGED <<owner, call, failed, listed, terminated, ended>>

\* Mutant: the result of the delivery is dropped.
Mutant_ReturnToFsm(p) ==
    /\ At(p, "outFsm") /\ Release("fsm")
    /\ GoTo(p, IF transac = "Terminated" THEN "terminate" ELSE "done")
    /\ UNCHANGED <<call, failed, transac, listed, terminated, ended>>

\* An error of the dialog ends the transaction, or the handler drops it; the
\* handler that starts a server transaction never does.
ReturnToFsm(p) ==
    /\ At(p, "outFsm") /\ Release("fsm")
    /\ \/ /\ transac = "Terminated" \/ failed[p]
          /\ GoTo(p, "terminate")
       \/ /\ transac # "Terminated" /\ (failed[p] => call[p] # "request")
          /\ GoTo(p, "done")
    /\ UNCHANGED <<call, failed, transac, listed, terminated, ended>>

\* tsk_fsm_act sets the final state after it has given up the lock.
Terminate(p) ==
    /\ At(p, "terminate") /\ Becomes("Terminated") /\ GoTo(p, "remove")
    /\ UNCHANGED <<owner, call, failed, terminated, ended>>

\* OnTerminated of the transaction: the layer forgets it.  A thread in the
\* dialog goes on there.
Remove(p) ==
    /\ At(p, "remove") /\ Free(p, "transacs")
    /\ listed' = listed \ {"transaction"}
    /\ GoTo(p, IF owner["dialog"] = p THEN "outDialog" ELSE "done")
    /\ UNCHANGED <<owner, call, failed, transac, terminated, ended>>

-----------------------------------------------------------------------------
\* tsip_dialog_fsm_act runs the FSM of the dialog under the dialog's lock.
EnterDialog(p) ==
    /\ At(p, "wantDialog") /\ Take(p, "dialog") /\ GoTo(p, "inDialog")
    /\ UNCHANGED <<call, failed, transac, listed, terminated, ended>>

\* Mutant: the final state does not keep the events out.
Mutant_Act(p) ==
    /\ At(p, "inDialog")
    /\ \/ GoTo(p, "find") /\ UNCHANGED <<failed, terminated, ended>>
       \/ /\ GoTo(p, "cancel") /\ terminated' = TRUE
          /\ ended' = ended + 1 /\ UNCHANGED failed
    /\ UNCHANGED <<owner, call, transac, listed>>

\* "The FSM is in the final state", or a handler that leaves, answers the
\* transaction's request, starts the transaction with a request of its own, or
\* ends the dialog, with an error or without.
Act(p) ==
    /\ At(p, "inDialog")
    /\ \/ /\ terminated
          /\ failed' = [failed EXCEPT ![p] = TRUE]
          /\ GoTo(p, "outDialog") /\ UNCHANGED <<terminated, ended>>
       \/ /\ ~terminated
          /\ \E place \in {"outDialog", "find", "start"} : GoTo(p, place)
          /\ UNCHANGED <<failed, terminated, ended>>
       \/ /\ ~terminated
          /\ terminated' = TRUE /\ ended' = ended + 1
          /\ \E error \in BOOLEAN : failed' = [failed EXCEPT ![p] = error]
          /\ GoTo(p, "cancel")
    /\ UNCHANGED <<owner, call, transac, listed>>

\* tsip_dialog_response_send
FindServer(p) ==
    /\ At(p, "find") /\ Free(p, "transacs")
    /\ GoTo(p, IF "transaction" \in listed /\ transac # "Terminated"
               THEN "answer" ELSE "outDialog")
    /\ UNCHANGED <<owner, call, failed, transac, listed, terminated, ended>>

\* The transaction sends the response; it ends if it cannot.
Answer(p) ==
    /\ At(p, "answer") /\ Free(p, "fsm")
    /\ \/ Becomes(transac) /\ GoTo(p, "outDialog")
       \/ /\ transac = "Live"
          /\ Becomes("Terminated") /\ GoTo(p, "remove")
    /\ UNCHANGED <<owner, call, failed, terminated, ended>>

\* tsip_dialog_request_send creates the transaction and starts it at once.
StartClient(p) ==
    /\ At(p, "start") /\ Free(p, "transacs")
    /\ IF transac = "none"
       THEN /\ transac' \in {"Live", "Terminated"}
            /\ listed' = listed \cup {"transaction"}
            /\ GoTo(p, IF transac' = "Live" THEN "outDialog" ELSE "remove")
       ELSE GoTo(p, "outDialog") /\ UNCHANGED <<transac, listed>>
    /\ UNCHANGED <<owner, call, failed, terminated, ended>>

\* The thread returns from the dialog to the transaction it came from, if any.
ReturnFromDialog(p) ==
    /\ At(p, "outDialog")
    /\ owner' = [l \in Locks |-> IF /\ l \in {"dialog", "dialogs"} /\ owner[l] = p
                                 THEN Nobody ELSE owner[l]]
    /\ GoTo(p, IF call[p] \in {"action", "stop"} THEN "done" ELSE "outFsm")
    /\ UNCHANGED <<call, failed, transac, listed, terminated, ended>>

-----------------------------------------------------------------------------
\* OnTerminated of the dialog, under its lock: its transactions are cancelled
\* under the lock of their layer, then the dialog layer forgets it.
CancelTransactions(p) ==
    /\ At(p, "cancel") /\ Take(p, "transacs") /\ GoTo(p, "again")
    /\ UNCHANGED <<call, failed, transac, listed, terminated, ended>>

\* A transaction in Started ignores the cancel and answers 0: "goto again"
\* finds it in the list once more.  That thread stays where it is until the
\* transaction is started.
CancelOne(p) ==
    /\ At(p, "again") /\ "transaction" \in listed /\ transac = "Live" /\ Free(p, "fsm")
    /\ transac' = "Terminated" /\ listed' = listed \ {"transaction"}
    /\ UNCHANGED <<owner, call, pc, failed, terminated, ended>>

\* Mutant: a transaction that has ended is tried again as well.
Mutant_NoneLeft(p) ==
    /\ At(p, "again") /\ "transaction" \notin listed
    /\ Release("transacs") /\ GoTo(p, "leave")
    /\ UNCHANGED <<call, failed, transac, listed, terminated, ended>>

NoneLeft(p) ==
    /\ At(p, "again") /\ ("transaction" \in listed => transac = "Terminated")
    /\ Release("transacs") /\ GoTo(p, "leave")
    /\ UNCHANGED <<call, failed, transac, listed, terminated, ended>>

LeaveLayer(p) ==
    /\ At(p, "leave") /\ Free(p, "dialogs")
    /\ listed' = listed \ {"dialog"} /\ GoTo(p, "outDialog")
    /\ UNCHANGED <<owner, call, failed, transac, terminated, ended>>

-----------------------------------------------------------------------------
Step(p) == \/ MessageArrives(p) \/ TimerFires(p) \/ RequestArrives(p)
           \/ CreateServer(p) \/ UserActs(p) \/ StackStops(p)
           \/ EnterFsm(p) \/ Handle(p) \/ ReturnToFsm(p) \/ Terminate(p) \/ Remove(p)
           \/ EnterDialog(p) \/ Act(p) \/ FindServer(p) \/ Answer(p)
           \/ StartClient(p) \/ ReturnFromDialog(p)
           \/ CancelTransactions(p) \/ CancelOne(p) \/ NoneLeft(p) \/ LeaveLayer(p)

Next == \E p \in Threads : Step(p)

Spec == Init /\ [][Next]_lockVars

\* Every thread makes one call, so a lock that is free stays so in the end.
FairSpec == Spec /\ \A p \in Threads : WF_lockVars(Step(p))

-----------------------------------------------------------------------------
(***************************************************************************)
(* Properties.                                                             *)
(***************************************************************************)
\* The lock a thread is about to take, for the places where it takes one.
Wanted(p) ==
    CASE pc[p] \in {"create", "cancel", "remove", "find", "start"} -> {"transacs"}
      [] pc[p] = "begin" /\ call[p] = "message" -> {"transacs"}
      [] pc[p] = "begin" /\ call[p] \in {"request", "stop"} -> {"dialogs"}
      [] pc[p] = "leave" -> {"dialogs"}
      [] pc[p] \in {"wantFsm", "answer"} -> {"fsm"}
      [] pc[p] = "again" /\ "transaction" \in listed /\ transac # "Terminated" -> {"fsm"}
      [] pc[p] = "wantDialog" -> {"dialog"}
      [] OTHER -> {}

\* A set of threads each of which waits for a lock another one of them holds.
Deadlocked(S) ==
    S # {} /\ \A p \in S : \E l \in Wanted(p) : owner[l] \in S \ {p}

Stuck == \E S \in SUBSET Threads : Deadlocked(S)
AllDone == \A p \in Threads : At(p, "done")

\* Locks have holders among the threads, and the bookkeeping is well typed.
TypeOK == /\ owner \in [Locks -> Threads \cup {Nobody}]
          /\ call \in [Threads -> Calls] /\ pc \in [Threads -> Places]
          /\ failed \in [Threads -> BOOLEAN]
          /\ transac \in {"none", "Started", "Live", "Terminated"}
          /\ listed \subseteq {"transaction", "dialog"}
          /\ terminated \in BOOLEAN /\ ended \in Nat

\* The user is told once that a dialog ended, whichever of messages, timers,
\* the user himself and the shutdown of the stack ends it, and together.
DialogEndsOnce == ended <= 1

\* A dialog that ended leaves no transaction behind: those it has are cancelled,
\* and the one a request creates after that ends when it finds no dialog.
NoOrphanTransaction ==
    AllDone /\ terminated => listed = {} /\ transac \in {"none", "Terminated"}

\* The layers' locks and that of the transaction's FSM do not deadlock among
\* themselves: where threads block each other, one waits for the dialog's lock.
OnlyDialogLockDeadlocks ==
    \A S \in SUBSET Threads : Deadlocked(S) => \E p \in S : Wanted(p) = {"dialog"}

\* Unless the locks deadlock every call returns; the end of a dialog does not
\* turn in circles around a transaction that is not started.
CallsReturn == <>(AllDone \/ Stuck)

\* "each dialog will cancel its transactions" (tsip.c:949-950): once a dialog
\* has ended none of them is left.
CommentDialogCancels == terminated ~> "transaction" \notin listed
=============================================================================
