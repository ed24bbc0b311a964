------------------------------- MODULE DialogLayer -------------------------------
(***************************************************************************)
(* The layer that keeps the dialogs of a stack, and the two walks over its *)
(* list: the shutdown, in its three phases, and the signal that the stack  *)
(* is disconnected (tsip_dialog_layer.c), while dialogs come, go on and    *)
(* end beside them.                                                        *)
(*                                                                         *)
(* A dialog is what the layer makes of it: how it takes a shutdown and a   *)
(* transport error (the FSMs of all the dialogs).  Dialogs are numbered as *)
(* they are pushed on the list, at its back.  The end of a dialog and its  *)
(* removal are one step, so what a dialog and a walk that wait for each    *)
(* other's lock do is in SignalingLocks.  A push that tears the list, which *)
(* is done without its lock, is left out.                                  *)
(***************************************************************************)
EXTENDS Integers, FiniteSets

CONSTANTS MaxDialogs,   \* dialogs ever created
          Sorts,        \* their kinds, and whether their sessions hang up silently
          MaxStops      \* how often the stack is stopped

Kinds == {"REGISTER", "SUBSCRIBE", "INVITE", "MESSAGE", "OPTIONS"}

\* Of a dialog that is not on the list.
NoSort == [kind |-> "OPTIONS", silent |-> FALSE]

ASSUME SortsAssumption == Sorts \subseteq [kind : Kinds, silent : BOOLEAN]
ASSUME MaxDialogsAssumption == MaxDialogs \in Nat

VARIABLES sort,        \* the sort of each dialog
          state,       \* its FSM, "unborn" or "gone" while it is not on the list
          pc,          \* the place of tsip_dialog_layer_shutdownAll
          at,          \* its item
          wait,        \* its local variable
          inprogress,  \* self->shutdown.inprogress
          phase2,      \* self->shutdown.phase2
          stops,
          busy,        \* dialogs under way when the stop began, that phase 1 is for
          quiet,       \* dialogs under way when phase 3 began, that it ends
          torn,        \* the item was freed under the walk
          signals,     \* dialogs_count of the disconnection, or 0
          alarmed,     \* the dialogs it is meant for
          deaf         \* one of them did not react

walkVars == <<wait, inprogress, phase2, stops, busy, quiet, torn>>
stopVars == <<pc, at, walkVars>>
alarmVars == <<signals, alarmed, deaf>>
vars == <<sort, state, stopVars, alarmVars>>

Dialogs == 1..MaxDialogs
Nobody == 0
Listed == {d \in Dialogs : state[d] \notin {"unborn", "gone"}}
Registers == {d \in Listed : sort[d].kind = "REGISTER"}

\* The lock of the layer is taken.
Locked == pc \in {"phase1", "phase2"} \/ signals > 0

Init == /\ sort = [d \in Dialogs |-> NoSort]
        /\ state = [d \in Dialogs |-> "unborn"]
        /\ pc = "running" /\ at = Nobody /\ wait = FALSE
        /\ inprogress = FALSE /\ phase2 = FALSE
        /\ stops = 0 /\ busy = {} /\ quiet = {} /\ torn = FALSE
        /\ signals = 0 /\ alarmed = {} /\ deaf = FALSE

-----------------------------------------------------------------------------
(***************************************************************************)
(* How a dialog takes what the layer tells it.                             *)
(***************************************************************************)

\* "Started -> (Any) -> Started", except for a REGISTER dialog; OPTIONS has no
\* entry for a shutdown, nor has a MESSAGE that was received, which counts as one.
Ignores(d) == \/ state[d] = "Started" /\ sort[d].kind # "REGISTER"
              \/ sort[d].kind = "OPTIONS"

\* A session that hangs up silently, and a request that is under way, are not
\* followed by another request, except in a call.
EndsAtOnce(d) ==
    \/ sort[d].kind = "MESSAGE"
    \/ sort[d].kind \in {"REGISTER", "SUBSCRIBE"} /\ sort[d].silent
    \/ sort[d].kind \in {"REGISTER", "SUBSCRIBE"} /\ state[d] \in {"InProgress", "Leaving"}

\* What tsip_dialog_shutdown leaves behind; the request may fail to be sent.
AfterShutdown(d) == IF Ignores(d) THEN {state[d]}
                    ELSE IF EndsAtOnce(d) THEN {"gone"} ELSE {"Leaving", "gone"}

\* "Sending -> (Any) -> Sending" comes before "Any -> (transport error) -> Terminated".
Hears(d) == /\ sort[d].kind \in {"REGISTER", "SUBSCRIBE", "INVITE"}
            /\ state[d] = "Started" => sort[d].kind = "REGISTER"

-----------------------------------------------------------------------------
(***************************************************************************)
(* Dialogs come and go.                                                    *)
(***************************************************************************)

\* tsip_dialog_layer_new, and the dialog of an incoming request: without the lock.
New(d) == /\ state[d] = "unborn" /\ \A e \in 1..(d - 1) : state[e] # "unborn"
          /\ state' = [state EXCEPT ![d] = "Started"]
          /\ \E s \in Sorts : sort' = [sort EXCEPT ![d] = s]
          /\ UNCHANGED <<stopVars, alarmVars>>

\* A request is sent, or received; a refresh for what is kept alive.
Begins(d) == /\ \/ state[d] = "Started"
                \/ state[d] = "Connected" /\ sort[d].kind \in {"REGISTER", "SUBSCRIBE"}
             /\ state' = [state EXCEPT ![d] = "InProgress"]
             /\ UNCHANGED <<sort, stopVars, alarmVars>>

Succeeds(d) == /\ state[d] = "InProgress" /\ sort[d].kind \in {"REGISTER", "SUBSCRIBE", "INVITE"}
               /\ state' = [state EXCEPT ![d] = "Connected"]
               /\ UNCHANGED <<sort, stopVars, alarmVars>>

\* Who was waited for is gone.
LastOne == IF phase2 THEN Listed' \cap Registers = {} ELSE Listed' \subseteq Registers

\* tsip_dialog_layer_remove, by another thread than the one that shuts down.
Remove(d) ==
    /\ state' = [state EXCEPT ![d] = "gone"] /\ sort' = [sort EXCEPT ![d] = NoSort]
    /\ pc' = IF inprogress /\ LastOne
             THEN CASE pc = "asleep1" -> "awake1" [] pc = "asleep2" -> "awake2" [] OTHER -> pc
             ELSE pc
    /\ torn' = (torn \/ (pc = "phase3" /\ at = d))
    /\ UNCHANGED <<at, wait, inprogress, phase2, stops, busy, quiet>>

\* An answer, an error, a timer or the user ends the dialog.
Ends(d) == /\ state[d] \in {"InProgress", "Connected", "Leaving"} /\ ~Locked
           /\ Remove(d)
           /\ UNCHANGED alarmVars

-----------------------------------------------------------------------------
(***************************************************************************)
(* tsip_dialog_layer_shutdownAll.                                          *)
(***************************************************************************)

\* item = the first one after n, in the list as the step leaves it.
GoTo(n) == IF \A d \in Listed' : d <= n THEN at' = Nobody
           ELSE /\ at' \in Listed' /\ at' > n
                /\ \A d \in Listed' : d > n => at' <= d

\* The phases 1 and 2 are skipped if they are for nobody.
Stop == /\ pc = "running" /\ ~Locked /\ stops < MaxStops
        /\ stops' = stops + 1 /\ inprogress' = TRUE
        /\ busy' = {d \in Listed \ Registers : /\ ~sort[d].silent
                                               /\ state[d] # "Started" /\ ~Ignores(d)}
        /\ wait' = FALSE /\ torn' = FALSE
        /\ UNCHANGED <<sort, state, quiet, alarmVars>>
        /\ \/ Listed \ Registers # {} /\ pc' = "phase1" /\ GoTo(Nobody) /\ UNCHANGED phase2
           \/ /\ Listed = Registers /\ Registers # {}
              /\ pc' = "phase2" /\ GoTo(Nobody) /\ phase2' = TRUE
           \/ Listed = {} /\ pc' = "done" /\ UNCHANGED <<at, phase2>>

\* Mutant: the walk goes on behind an item that was freed.
Mutant_Visit(eligible) ==
    /\ at \in Listed
    /\ IF eligible
       THEN \E after \in AfterShutdown(at) :
              /\ state' = [state EXCEPT ![at] = after]
              /\ sort' = IF after = "gone" THEN [sort EXCEPT ![at] = NoSort] ELSE sort
              /\ wait' \in (IF after = "gone" THEN BOOLEAN ELSE {TRUE})
              /\ IF after = "gone" THEN at' = Nobody ELSE GoTo(at)
       ELSE UNCHANGED <<sort, state, wait>> /\ GoTo(at)
    /\ UNCHANGED <<pc, inprogress, phase2, stops, busy, quiet, torn, alarmVars>>

\* One turn of a loop.  An item that was freed sends the walk back to the start.
\* A dialog that ends at once may do so without a failure, and be waited for.
Visit(eligible) ==
    /\ at \in Listed
    /\ IF eligible
       THEN \E after \in AfterShutdown(at) :
              /\ state' = [state EXCEPT ![at] = after]
              /\ sort' = IF after = "gone" THEN [sort EXCEPT ![at] = NoSort] ELSE sort
              /\ wait' \in (IF after = "gone" THEN {wait, TRUE} ELSE {TRUE})
              /\ IF after = "gone" THEN GoTo(Nobody) ELSE GoTo(at)
       ELSE UNCHANGED <<sort, state, wait>> /\ GoTo(at)
    /\ UNCHANGED <<pc, inprogress, phase2, stops, busy, quiet, torn, alarmVars>>

Phase1 == pc = "phase1" /\ Visit(sort[at].kind # "REGISTER" /\ ~sort[at].silent)
Phase2 == pc = "phase2" /\ Visit(sort[at].kind = "REGISTER")
Phase3 == /\ pc = "phase3" /\ Visit(sort[at].silent)
          /\ state'[at] = "gone" => signals = 0

\* The item was freed by another thread: the walk reads what is left of it.
Phase3Lost == /\ pc = "phase3" /\ at # Nobody /\ at \notin Listed
              /\ at' \in Listed \cup {Nobody}
              /\ UNCHANGED <<sort, state, pc, walkVars, alarmVars>>

\* The end of a phase: the lock is released, and the wait is entered after that.
Leave(phase, doze, awake) ==
    /\ pc = phase /\ at = Nobody
    /\ pc' = IF wait THEN doze ELSE awake
    /\ UNCHANGED <<sort, state, at, walkVars, alarmVars>>

Phase1Ends == Leave("phase1", "doze1", "awake1")
Phase2Ends == Leave("phase2", "doze2", "awake2")
Phase3Ends == Leave("phase3", "done", "done")

\* tsk_condwait_timedwait: a broadcast reaches only who is asleep already.
FallsAsleep == /\ \/ pc = "doze1" /\ pc' = "asleep1"
                  \/ pc = "doze2" /\ pc' = "asleep2"
               /\ UNCHANGED <<sort, state, at, walkVars, alarmVars>>

\* Mutant: tsk_condwait_wait.
Mutant_TimesOut == pc = "gone" /\ UNCHANGED vars

TimesOut == /\ \/ pc = "asleep1" /\ pc' = "awake1"
               \/ pc = "asleep2" /\ pc' = "awake2"
            /\ UNCHANGED <<sort, state, at, walkVars, alarmVars>>

Phase2Begins == /\ pc = "awake1" /\ ~Locked /\ pc' = "phase2" /\ wait' = FALSE /\ phase2' = TRUE
                /\ UNCHANGED <<sort, state, inprogress, stops, busy, quiet, torn, alarmVars>>
                /\ GoTo(Nobody)

\* The last phase does not take the lock.
Phase3Begins == /\ pc = "awake2" /\ pc' = "phase3"
                /\ quiet' = {d \in Listed : /\ sort[d].silent
                                            /\ ~Ignores(d) /\ EndsAtOnce(d)}
                /\ UNCHANGED <<sort, state, wait, inprogress, phase2, stops, busy, torn, alarmVars>>
                /\ GoTo(Nobody)

\* The stack is started again, with the same layer.
Restart == /\ pc = "done" /\ pc' = "running"
           /\ UNCHANGED <<sort, state, at, walkVars, alarmVars>>

Shutdown == \/ Phase1 \/ Phase1Ends \/ Phase2Begins
            \/ Phase2 \/ Phase2Ends \/ Phase3Begins
            \/ Phase3 \/ Phase3Lost \/ Phase3Ends
            \/ FallsAsleep \/ TimesOut

-----------------------------------------------------------------------------
(***************************************************************************)
(* tsip_dialog_layer_signal_stack_disconnected.                            *)
(***************************************************************************)
Disconnected == /\ ~Locked /\ Listed # {}
                /\ signals' = Cardinality(Listed) /\ alarmed' = Listed /\ deaf' = FALSE
                /\ UNCHANGED <<sort, state, stopVars>>

\* Mutant: the guard is off by one.
Mutant_Left == IF Listed' = {} \/ signals = 2 THEN 0 ELSE signals - 1

\* dialogs_count, when one more is told.
Left == IF Listed' = {} THEN 0 ELSE signals - 1

\* Every time round, the first dialog of the list is told.
Signal == /\ signals > 0
          /\ \E d \in Listed :
               /\ \A e \in Listed : d <= e
               /\ IF Hears(d) THEN Remove(d) ELSE UNCHANGED <<sort, state, stopVars>>
               /\ deaf' = (Left > 0 /\ (deaf \/ ~Hears(d)))
          /\ signals' = Left
          /\ alarmed' = IF Left = 0 THEN {} ELSE alarmed

-----------------------------------------------------------------------------
Next == \/ \E d \in Dialogs : New(d) \/ Begins(d) \/ Succeeds(d) \/ Ends(d)
        \/ Stop \/ Shutdown \/ Restart
        \/ Disconnected \/ Signal

Spec == Init /\ [][Next]_vars

\* The two threads that walk the list run, and the one that waits for the lock
\* gets it in the end, however often the other takes it.
FairSpec == Spec /\ SF_vars(Shutdown) /\ WF_vars(Signal)

-----------------------------------------------------------------------------
(***************************************************************************)
(* Properties.                                                             *)
(***************************************************************************)

\* A registration is not given up before every call and every subscription that
\* was up when the stop began has at least been asked to leave, although every
\* dialog that ends sends the walk back to the start of the list.
RegistrationsLast ==
    pc \in {"phase2", "phase3", "done"} =>
        \A d \in busy : state[d] \in {"Leaving", "gone"}

\* When the stop is over, every registration, subscription or message of a session
\* that hangs up silently and that was under way when the last phase began is gone
\* from the list, whatever ended in the meantime, unless another thread freed the
\* very item the walk, which holds no lock, stood on.
SilentGone == pc = "done" /\ ~torn => quiet \cap Listed = {}

\* If everyone reacts, the last one too, the disconnection reaches all who were on
\* the list, whoever comes in the meantime.
SignalReachesAll ==
    [][signals > 0 /\ signals' = 0 /\ ~deaf /\ state' # state
            => alarmed \cap Listed' = {}]_vars

\* A stop returns, whoever does not answer.
StopReturns == pc # "running" ~> pc = "done"
=============================================================================
