------------------------------ MODULE TransacICT ------------------------------
(***************************************************************************)
(* The INVITE client transaction of tinySIP (tsip_transac_ict.c): its      *)
(* finite state machine, its timers and what it hands to the transport and *)
(* to the dialog.                                                          *)
(*                                                                         *)
(* Every handler runs under the lock of the FSM (tsk_fsm_act), so one      *)
(* handler is one step.  A timer is not: the manager's thread first takes  *)
(* it off its list (armed -> late), another thread runs the callback, and  *)
(* between the two TRANSAC_TIMER_CANCEL finds nothing to cancel.  Nor is   *)
(* TRANSAC_TIMER_SCHEDULE: the timer is on the list and the manager awake  *)
(* before its id is stored, so that a timer of length zero may call back   *)
(* with an id the transaction does not know yet (Scheduled).               *)
(*                                                                         *)
(* A send that the transport refuses (SendMayFail) returns nonzero.  The   *)
(* events transporterror and error of the FSM are left out: nothing in the *)
(* stack ever raises them.                                                 *)
(***************************************************************************)
EXTENDS Naturals, FiniteSets

CONSTANTS MaxTold,      \* deliveries of one event are counted up to this bound
          SendMayFail   \* whether tsip_transport_layer_send may fail

ASSUME MaxToldAssumption == MaxTold \in Nat \ {0}
ASSUME SendMayFailAssumption == SendMayFail \in BOOLEAN

VARIABLES state,      \* fsm->current
          reliable,   \* the transport is a stream
          armed,      \* timers on the manager's list whose id is held here
          late,       \* timers off the list whose callback has yet to run
          orphan,     \* pending timers whose id has been overwritten here
          sent,       \* requests put on the wire so far
          told,       \* how often each event was delivered to the dialog
          why,        \* what ended the FSM
          dangling    \* a timer called back into the destroyed transaction

ictVars == <<state, reliable, armed, late, orphan, sent, told, why, dangling>>

States == {"Started", "Calling", "Proceeding", "Completed", "Accepted", "Terminated"}
Timers == {"A", "B", "D", "M"}
Events == {"1xx", "2xx", "3456", "timedout"}
Reasons == {"none", "timer", "cancel", "dialog", "send"}

SendResults == IF SendMayFail THEN BOOLEAN ELSE {TRUE}

-----------------------------------------------------------------------------
\* tsip_transac_ict_create: the transaction is on the layer's list, not started.
IctInit == /\ state = "Started" /\ reliable = FALSE
           /\ armed = {} /\ late = {} /\ orphan = {}
           /\ sent = {} /\ told = [e \in Events |-> 0]
           /\ why = "none" /\ dangling = FALSE

\* The timers that repeat the request: none on a stream.
RetransmissionTimers == IF reliable THEN {} ELSE {"A"}

\* The destructor: "Cancel timers".
Destroyed(timers) == timers \ (RetransmissionTimers \cup {"B", "D", "M"})

(***************************************************************************)
(* What tsk_fsm_act does after the handler returned: the FSM ends when the *)
(* handler failed or the final state is reached, and OnTerminated removes  *)
(* and destroys the transaction.                                           *)
(***************************************************************************)
Leave(to, timers, ok, reason) ==
    IF ok /\ to # "Terminated"
    THEN state' = to /\ armed' = timers /\ UNCHANGED why
    ELSE state' = "Terminated" /\ armed' = Destroyed(timers) /\ why' = reason

(***************************************************************************)
(* What is pending once timer t was scheduled.  On a stream D (and K, I, J *)
(* of the other transactions) has length zero: a callback that compares    *)
(* ids, without the lock of the FSM, before the id of t is stored matches  *)
(* none of them and is lost.                                               *)
(***************************************************************************)
Scheduled(t) == IF reliable THEN {{t}, {}} ELSE {{t}}

Deliver(e) == told' = [told EXCEPT ![e] = IF @ < MaxTold THEN @ + 1 ELSE @]

-----------------------------------------------------------------------------
\* The result of the first send is not looked at; the transport it chose is.
Started_2_Calling_X_send ==
    /\ state = "Started"
    /\ reliable' \in BOOLEAN
    /\ \E ok \in SendResults : sent' = IF ok THEN sent \cup {"INVITE"} ELSE sent
    /\ armed' = (IF reliable' THEN {} ELSE {"A"}) \cup {"B"}
    /\ state' = "Calling"
    /\ UNCHANGED <<late, orphan, told, why, dangling>>

\* tsip_transac_ict_timer_callback recognised the id as that of timer t.
Fires(t) == t \in late /\ late' = late \ {t}

Calling_2_Calling_X_timerA ==
    /\ state = "Calling" /\ Fires("A")
    /\ \E ok \in SendResults : sent' = IF ok THEN sent \cup {"INVITE"} ELSE sent
    /\ armed' = armed \cup {"A"}
    /\ UNCHANGED <<state, reliable, orphan, told, why, dangling>>

\* Mutant: the timeout is not reported.
Mutant_timerB_silent ==
    /\ state = "Calling" /\ Fires("B")
    /\ Leave("Terminated", armed, TRUE, "timer")
    /\ UNCHANGED <<reliable, orphan, sent, told, dangling>>

Calling_2_Terminated_X_timerB ==
    /\ state = "Calling" /\ Fires("B")
    /\ Deliver("timedout")
    /\ Leave("Terminated", armed, TRUE, "timer")
    /\ UNCHANGED <<reliable, orphan, sent, dangling>>

\* Mutant: the FSM stays where it is.
Mutant_timerD_stays ==
    /\ state = "Completed" /\ Fires("D")
    /\ Leave("Completed", armed, TRUE, "timer")
    /\ UNCHANGED <<reliable, orphan, sent, told, dangling>>

Completed_2_Terminated_X_timerD ==
    /\ state = "Completed" /\ Fires("D")
    /\ Leave("Terminated", armed, TRUE, "timer")
    /\ UNCHANGED <<reliable, orphan, sent, told, dangling>>

Accepted_2_Terminated_X_timerM ==
    /\ state = "Accepted" /\ Fires("M")
    /\ Leave("Terminated", armed, TRUE, "timer")
    /\ UNCHANGED <<reliable, orphan, sent, told, dangling>>

-----------------------------------------------------------------------------
\* The dialog's verdict on the first provisional response is not looked at.
Calling_2_Proceeding_X_1xx ==
    /\ state = "Calling"
    /\ Deliver("1xx")
    /\ Leave("Proceeding", armed \ (RetransmissionTimers \cup {"B"}), TRUE, "dialog")
    /\ UNCHANGED <<reliable, late, orphan, sent, dangling>>

Proceeding_2_Proceeding_X_1xx ==
    /\ state = "Proceeding"
    /\ Deliver("1xx")
    /\ \E ok \in BOOLEAN : Leave("Proceeding", armed, ok, "dialog")
    /\ UNCHANGED <<reliable, late, orphan, sent, dangling>>

(***************************************************************************)
(* From Calling and from Proceeding alike: start timer M and, under the    *)
(* comment "Cancel timers A and B", schedule A and B once more.  What was  *)
(* pending under the old ids stays pending and can no longer be cancelled. *)
(***************************************************************************)
Accept ==
    /\ Deliver("2xx")
    /\ LET again == RetransmissionTimers \cup {"B"}
       IN /\ orphan' = orphan \cup (again \cap (armed \cup late))
          /\ late' = late \ again
          /\ \E ok \in BOOLEAN : Leave("Accepted", armed \cup {"M"} \cup again, ok, "dialog")
    /\ UNCHANGED <<reliable, sent, dangling>>

Calling_2_Accepted_X_2xx == state = "Calling" /\ Accept
Proceeding_2_Accepted_X_2xx == state = "Proceeding" /\ Accept

\* Mutant: a repeated 2xx is acknowledged here.
Mutant_Accepted_X_2xx ==
    /\ state = "Accepted"
    /\ Deliver("2xx") /\ sent' = sent \cup {"ACK"}
    /\ UNCHANGED <<state, reliable, armed, late, orphan, why, dangling>>

Accepted_2_Accepted_X_2xx ==
    /\ state = "Accepted"
    /\ Deliver("2xx")
    /\ UNCHANGED <<state, reliable, armed, late, orphan, sent, why, dangling>>

(***************************************************************************)
(* From Calling and from Proceeding alike: cancel A and B, start D, send   *)
(* the ACK.  When the ACK cannot be sent the handler returns at once.      *)
(***************************************************************************)
Fail ==
    /\ \E d \in Scheduled("D") :
          LET timers == (armed \ (RetransmissionTimers \cup {"B"})) \cup d
          IN \/ /\ sent' = sent \cup {"ACK"}
                /\ Deliver("3456")
                /\ \E ok \in BOOLEAN : Leave("Completed", timers, ok, "dialog")
             \/ /\ SendMayFail
                /\ Leave("Completed", timers, FALSE, "send")
                /\ UNCHANGED <<sent, told>>
    /\ UNCHANGED <<reliable, late, orphan, dangling>>

Calling_2_Completed_X_300_to_699 == state = "Calling" /\ Fail
Proceeding_2_Completed_X_300_to_699 == state = "Proceeding" /\ Fail

\* Mutant: a repeated failure goes up to the dialog again.
Mutant_Completed_X_300_to_699 ==
    /\ state = "Completed"
    /\ sent' = sent \cup {"ACK"} /\ Deliver("3456")
    /\ Leave("Completed", armed, TRUE, "send")
    /\ UNCHANGED <<reliable, late, orphan, dangling>>

Completed_2_Completed_X_300_to_699 ==
    /\ state = "Completed"
    /\ \E ok \in SendResults :
          /\ sent' = IF ok THEN sent \cup {"ACK"} ELSE sent
          /\ Leave("Completed", armed, ok, "send")
    /\ UNCHANGED <<reliable, late, orphan, told, dangling>>

-----------------------------------------------------------------------------
\* tsip_transac_layer_cancel_by_dialog; a transaction not started ignores it.
Any_2_Terminated_X_cancel ==
    /\ state \notin {"Started", "Terminated"}
    /\ Leave("Terminated", armed, TRUE, "cancel")
    /\ UNCHANGED <<reliable, late, orphan, sent, told, dangling>>

\* The timer manager's thread takes a due timer off its list.
Dequeue(t) ==
    /\ t \in armed
    /\ armed' = armed \ {t} /\ late' = late \cup {t}
    /\ UNCHANGED <<state, reliable, orphan, sent, told, why, dangling>>

\* The states whose FSM has an entry for timer t.
Expects(t) == CASE t \in {"A", "B"} -> {"Calling"}
                [] t = "D" -> {"Completed"}
                [] t = "M" -> {"Accepted"}

\* "No matching state found": the FSM is past the state the timer was for.
TimerIgnored(t) ==
    /\ Fires(t) /\ state \notin Expects(t) \cup {"Terminated"}
    /\ UNCHANGED <<state, reliable, armed, orphan, sent, told, why, dangling>>

\* An id the transaction does not know any more.
OrphanFires(t) ==
    /\ t \in orphan /\ state # "Terminated"
    /\ orphan' = orphan \ {t}
    /\ UNCHANGED <<state, reliable, armed, late, sent, told, why, dangling>>

\* The callback's argument is the destroyed transaction, which it reads.
DanglingCallback(t) ==
    /\ state = "Terminated" /\ t \in late \cup orphan
    /\ late' = late \ {t} /\ orphan' = orphan \ {t}
    /\ dangling' = TRUE
    /\ UNCHANGED <<state, reliable, armed, sent, told, why>>

-----------------------------------------------------------------------------
Response == \/ Calling_2_Proceeding_X_1xx
            \/ Proceeding_2_Proceeding_X_1xx
            \/ Calling_2_Accepted_X_2xx
            \/ Proceeding_2_Accepted_X_2xx
            \/ Accepted_2_Accepted_X_2xx
            \/ Calling_2_Completed_X_300_to_699
            \/ Proceeding_2_Completed_X_300_to_699
            \/ Completed_2_Completed_X_300_to_699

TimerHandler == \/ Calling_2_Calling_X_timerA
                \/ Calling_2_Terminated_X_timerB
                \/ Completed_2_Terminated_X_timerD
                \/ Accepted_2_Terminated_X_timerM

TimerThread == \E t \in Timers : \/ Dequeue(t) \/ TimerIgnored(t)
                                 \/ OrphanFires(t) \/ DanglingCallback(t)

\* Responses reach a transaction only if its request went out.
IctNext == \/ Started_2_Calling_X_send
           \/ ("INVITE" \in sent /\ Response)
           \/ TimerHandler
           \/ TimerThread
           \/ Any_2_Terminated_X_cancel

IctSpec == IctInit /\ [][IctNext]_ictVars

(***************************************************************************)
(* The caller of tsip_dialog_request_send starts the transaction it has    *)
(* created, and the two threads of the timer manager keep running.         *)
(* Nothing obliges the peer to answer or the dialog to cancel.             *)
(***************************************************************************)
TimerFairness ==
    /\ \A t \in Timers : WF_ictVars(Dequeue(t)) /\ WF_ictVars(TimerIgnored(t))
    /\ \A t \in Timers : WF_ictVars(OrphanFires(t)) /\ WF_ictVars(DanglingCallback(t))
    /\ WF_ictVars(Calling_2_Calling_X_timerA) /\ WF_ictVars(Calling_2_Terminated_X_timerB)
    /\ WF_ictVars(Completed_2_Terminated_X_timerD)
    /\ WF_ictVars(Accepted_2_Terminated_X_timerM)

IctFairSpec == IctSpec /\ WF_ictVars(Started_2_Calling_X_send) /\ TimerFairness
-----------------------------------------------------------------------------
(***************************************************************************)
(* Properties.                                                             *)
(***************************************************************************)
Pending == armed \cup late

\* The FSM is in one of its states, the bookkeeping of its timers only ever
\* names timers of the transaction, and the counters stay within the bound.
TypeOK == /\ state \in States /\ reliable \in BOOLEAN
          /\ armed \subseteq Timers /\ late \subseteq Timers /\ orphan \subseteq Timers
          /\ sent \subseteq {"INVITE", "ACK"}
          /\ told \in [Events -> 0..MaxTold] /\ why \in Reasons
          /\ dangling \in BOOLEAN

\* The dialog gets one kind of verdict, and a failure or a timeout once only:
\* repeated 300-699 responses are acknowledged, never delivered again, and a
\* timer B that was already on its way when the answer came is not a timeout.
OutcomeOnce ==
    /\ told["3456"] + told["timedout"] <= 1
    /\ told["2xx"] > 0 => told["3456"] + told["timedout"] = 0

\* A provisional response that arrives after the final one is dropped.
NoProvisionalAfterFinal ==
    [][told["2xx"] + told["3456"] + told["timedout"] > 0
         => told'["1xx"] = told["1xx"]]_ictVars

\* The transaction acknowledges the failures it passes up and nothing else:
\* the ACK to a 2xx is the dialog's, and a timeout is not acknowledged.
AckOnlyForFailure == "ACK" \in sent <=> told["3456"] = 1

\* In every state that waits for time to pass, the timer that ends the wait is
\* pending or its callback is under way: no cancellation can strand the FSM.
\* (Completed on a stream waits for a timer D that may have come and gone.)
Watchdog == /\ state = "Calling" => "B" \in Pending
            /\ state = "Completed" /\ ~reliable => "D" \in Pending
            /\ state = "Accepted" => "M" \in Pending

\* An unanswered request is over in the end - by an answer, timer B or a cancel -
\* and a transaction that has its final answer is destroyed in the end; one that
\* failed on a stream may lose its timer D of length zero, and then stays.
WaitsEnd == /\ state = "Calling" ~> state # "Calling"
            /\ state = "Accepted" ~> state = "Terminated"
            /\ state = "Completed" /\ ~reliable ~> state = "Terminated"

\* "Timers will be canceled by tsip_transac_ict_OnTerminated"
\* (tsip_transac_ict.c:681): no timer calls into a transaction that is gone.
CommentTimersCancelledOnTerminated == ~dangling

\* The transaction as its dialog sees it.
Phase == IF state = "Started" THEN "idle"
         ELSE IF state = "Terminated" THEN "closed" ELSE "open"
Verdict == IF told["2xx"] > 0 THEN "success"
           ELSE IF told["3456"] > 0 THEN "failure"
           ELSE IF told["timedout"] > 0 THEN "timeout" ELSE "none"
Abstract == INSTANCE ClientTransac
            WITH Verdicts <- {"success", "failure", "timeout"}, phase <- Phase,
                 verdict <- Verdict, dropped <- why \in {"cancel", "dialog", "send"}

\* The transaction keeps what a client transaction promises its dialog.  Whoever
\* drops it without a verdict is the dialog or, when the ACK cannot be sent, the
\* transport: then, and only then, it goes away behind the dialog's back.
ImplementsClientTransac == Abstract!Spec
=============================================================================
