------------------------------ MODULE TransacIST ------------------------------
(***************************************************************************)
(* The INVITE server transaction of tinySIP (tsip_transac_ist.c).  Timers, *)
(* the lock of the FSM and the end of a transaction are as in TransacICT.  *)
(*                                                                         *)
(* A send that the transport refuses (SendMayFail) fails the handler and   *)
(* so ends the FSM.  A handler that the dialog itself called hands it the  *)
(* error ("tu"); nobody is told of the others ("send").  What the dialog   *)
(* does while it is being told something - answer, or cancel - is a step   *)
(* of its own after the delivery.  The events transporterror and error of  *)
(* the FSM are left out: nothing in the stack ever raises them.            *)
(***************************************************************************)
EXTENDS Naturals, FiniteSets

CONSTANTS MaxTold,      \* deliveries of one event are counted up to this bound
          SendMayFail   \* whether tsip_transport_layer_send may fail

ASSUME MaxToldAssumption == MaxTold \in Nat \ {0}
ASSUME SendMayFailAssumption == SendMayFail \in BOOLEAN

VARIABLES state,      \* fsm->current
          reliable,   \* the transport is a stream
          armed,      \* timers on the manager's list
          late,       \* timers off the list whose callback has yet to run
          last,       \* lastResponse
          acked,      \* an ACK came in Accepted
          sent,       \* responses put on the wire so far
          told,       \* how often each event was delivered to the dialog
          why         \* what ended the FSM

istVars == <<state, reliable, armed, late, last, acked, sent, told, why>>

States == {"Started", "Proceeding", "Completed", "Accepted", "Confirmed", "Terminated"}
Timers == {"G", "H", "I", "L", "X"}
Responses == {"1xx", "2xx", "3456"}
Events == {"INVITE", "ACK", "transport_error"}
Reasons == {"none", "timer", "cancel", "dialog", "tu", "send"}

SendResults == IF SendMayFail THEN BOOLEAN ELSE {TRUE}

-----------------------------------------------------------------------------
IstInit == /\ state = "Started" /\ reliable = FALSE
           /\ armed = {} /\ late = {}
           /\ last = "none" /\ acked = FALSE /\ sent = {}
           /\ told = [e \in Events |-> 0] /\ why = "none"

\* The destructor: "Cancel timers".
Destroyed(timers) == timers \ ({"H", "I", "L", "X"} \cup (IF reliable THEN {} ELSE {"G"}))

(***************************************************************************)
(* What tsk_fsm_act does after the handler returned: the FSM ends when the *)
(* handler failed or the final state is reached, and OnTerminated removes  *)
(* and destroys the transaction.                                           *)
(***************************************************************************)
Leave(to, timers, ok, reason) ==
    IF ok /\ to # "Terminated"
    THEN state' = to /\ armed' = timers /\ UNCHANGED why
    ELSE state' = "Terminated" /\ armed' = Destroyed(timers) /\ why' = reason

\* What is pending once timer t was scheduled; I has length zero on a stream and
\* its callback may come before its id is stored (see TransacICT).
Scheduled(t) == IF reliable THEN {{t}, {}} ELSE {{t}}

Deliver(e) == told' = [told EXCEPT ![e] = IF @ < MaxTold THEN @ + 1 ELSE @]

\* Put response r on the wire, or fail to, and leave the handler for state to.
Send(r, to, timers, reason) ==
    \E ok \in SendResults : /\ sent' = IF ok THEN sent \cup {r} ELSE sent
                            /\ Leave(to, timers, ok, reason)

-----------------------------------------------------------------------------
\* The first INVITE: send "100 Trying" and, if it went out, alert the dialog.
Started_2_Proceeding_X_INVITE ==
    /\ state = "Started"
    /\ reliable' \in BOOLEAN
    /\ last' = "1xx"
    /\ \/ /\ sent' = sent \cup {"1xx"}
          /\ Deliver("INVITE")
          /\ \E ok \in BOOLEAN : Leave("Proceeding", armed, ok, "dialog")
       \/ /\ SendMayFail
          /\ Leave("Proceeding", armed, FALSE, "send")
          /\ UNCHANGED <<sent, told>>
    /\ UNCHANGED <<late, acked>>

\* A repeated INVITE gets the last response again, in each of these states.
Repeated(in) ==
    /\ state = in
    /\ Send(last, in, armed, "send")
    /\ UNCHANGED <<reliable, late, last, acked, told>>

Proceeding_2_Proceeding_X_INVITE == Repeated("Proceeding")
Completed_2_Completed_INVITE == Repeated("Completed")
Accepted_2_Accepted_INVITE == Repeated("Accepted")

-----------------------------------------------------------------------------
\* Responses of the dialog (tsip_dialog_response_send).
Proceeding_2_Proceeding_X_1xx ==
    /\ state = "Proceeding"
    /\ Send("1xx", "Proceeding", armed, "tu")
    /\ last' = "1xx"
    /\ UNCHANGED <<reliable, late, acked, told>>

\* Mutant: timer G is not started.
Mutant_X_300_to_699_once ==
    /\ state = "Proceeding"
    /\ Send("3456", "Completed", armed \cup {"H"}, "tu")
    /\ last' = "3456"
    /\ UNCHANGED <<reliable, late, acked, told>>

Proceeding_2_Completed_X_300_to_699 ==
    /\ state = "Proceeding"
    /\ Send("3456", "Completed", armed \cup {"H"} \cup (IF reliable THEN {} ELSE {"G"}), "tu")
    /\ last' = "3456"
    /\ UNCHANGED <<reliable, late, acked, told>>

\* Mutant: an answer is accepted after the rejection.
Mutant_X_2xx ==
    /\ state \in {"Proceeding", "Completed"}
    /\ Send("2xx", "Accepted", armed \cup {"X", "L"}, "tu")
    /\ last' = "2xx"
    /\ UNCHANGED <<reliable, late, acked, told>>

Proceeding_2_Accepted_X_2xx ==
    /\ state = "Proceeding"
    /\ Send("2xx", "Accepted", armed \cup {"X", "L"}, "tu")
    /\ last' = "2xx"
    /\ UNCHANGED <<reliable, late, acked, told>>

Accepted_2_Accepted_2xx ==
    /\ state = "Accepted"
    /\ Send("2xx", "Accepted", armed, "tu")
    /\ last' = "2xx"
    /\ UNCHANGED <<reliable, late, acked, told>>

-----------------------------------------------------------------------------
\* tsip_transac_ist_timer_callback recognised the id as that of timer t.
Fires(t) == t \in late /\ late' = late \ {t}

Completed_2_Completed_timerG ==
    /\ state = "Completed" /\ Fires("G")
    /\ Send(last, "Completed", armed \cup {"G"}, "send")
    /\ UNCHANGED <<reliable, last, acked, told>>

Completed_2_Terminated_timerH ==
    /\ state = "Completed" /\ Fires("H")
    /\ Deliver("transport_error")
    /\ Leave("Terminated", armed, TRUE, "timer")
    /\ UNCHANGED <<reliable, last, acked, sent>>

\* Mutant: timer G is left running.
Mutant_Confirmed_ACK ==
    /\ state = "Completed"
    /\ \E i \in Scheduled("I") : Leave("Confirmed", armed \cup i, TRUE, "none")
    /\ UNCHANGED <<reliable, late, last, acked, sent, told>>

Completed_2_Confirmed_ACK ==
    /\ state = "Completed"
    /\ \E i \in Scheduled("I") : Leave("Confirmed", (armed \ {"G"}) \cup i, TRUE, "none")
    /\ UNCHANGED <<reliable, late, last, acked, sent, told>>

\* The 2xx is repeated, and the timer started again, acknowledged or not.
Accepted_2_Accepted_timerX ==
    /\ state = "Accepted" /\ Fires("X")
    /\ \E ok \in SendResults : sent' = IF ok THEN sent \cup {last} ELSE sent
    /\ armed' = armed \cup {"X"}
    /\ UNCHANGED <<state, reliable, last, acked, told, why>>

\* Mutant: the ACK is not remembered.
Mutant_iACK ==
    /\ state = "Accepted"
    /\ Deliver("ACK")
    /\ \E ok \in BOOLEAN : Leave("Accepted", armed \ {"X"}, ok, "dialog")
    /\ UNCHANGED <<reliable, late, last, acked, sent>>

Accepted_2_Accepted_iACK ==
    /\ state = "Accepted"
    /\ acked' = TRUE
    /\ Deliver("ACK")
    /\ \E ok \in BOOLEAN : Leave("Accepted", armed \ {"X"}, ok, "dialog")
    /\ UNCHANGED <<reliable, late, last, sent>>

\* Mutants: the missing ACK is not reported; the FSM stays where it is.
Mutant_timerL_silent ==
    /\ state = "Accepted" /\ Fires("L")
    /\ Leave("Terminated", armed, TRUE, "timer")
    /\ UNCHANGED <<reliable, last, acked, sent, told>>

Mutant_timerL ==
    /\ state = "Accepted" /\ Fires("L")
    /\ IF acked THEN UNCHANGED told ELSE Deliver("transport_error")
    /\ UNCHANGED <<state, armed, why, reliable, last, acked, sent>>

Accepted_2_Terminated_timerL ==
    /\ state = "Accepted" /\ Fires("L")
    /\ IF acked THEN UNCHANGED told ELSE Deliver("transport_error")
    /\ Leave("Terminated", armed, TRUE, "timer")
    /\ UNCHANGED <<reliable, last, acked, sent>>

Confirmed_2_Terminated_timerI ==
    /\ state = "Confirmed" /\ Fires("I")
    /\ Leave("Terminated", armed, TRUE, "timer")
    /\ UNCHANGED <<reliable, last, acked, sent, told>>

-----------------------------------------------------------------------------
\* tsip_transac_layer_cancel_by_dialog; a transaction not started ignores it.
Any_2_Terminated_X_cancel ==
    /\ state \notin {"Started", "Terminated"}
    /\ Leave("Terminated", armed, TRUE, "cancel")
    /\ UNCHANGED <<reliable, late, last, acked, sent, told>>

\* The timer manager's thread takes a due timer off its list.
Dequeue(t) ==
    /\ t \in armed
    /\ armed' = armed \ {t} /\ late' = late \cup {t}
    /\ UNCHANGED <<state, reliable, last, acked, sent, told, why>>

\* The state whose FSM has an entry for timer t.
Expects(t) == IF t \in {"G", "H"} THEN "Completed"
              ELSE IF t = "I" THEN "Confirmed" ELSE "Accepted"

\* "No matching state found": the FSM is past the state the timer was for, or
\* gone (what such a callback reads is modelled in TransacICT).
TimerIgnored(t) ==
    /\ Fires(t) /\ state # Expects(t)
    /\ UNCHANGED <<state, reliable, armed, last, acked, sent, told, why>>

-----------------------------------------------------------------------------
INVITE == \/ Proceeding_2_Proceeding_X_INVITE
          \/ Completed_2_Completed_INVITE
          \/ Accepted_2_Accepted_INVITE

ACK == Completed_2_Confirmed_ACK \/ Accepted_2_Accepted_iACK

DialogResponse == \/ Proceeding_2_Proceeding_X_1xx
                  \/ Proceeding_2_Completed_X_300_to_699
                  \/ Proceeding_2_Accepted_X_2xx
                  \/ Accepted_2_Accepted_2xx

TimerHandler == \/ Completed_2_Completed_timerG
                \/ Completed_2_Terminated_timerH
                \/ Confirmed_2_Terminated_timerI
                \/ Accepted_2_Terminated_timerL
                \/ Accepted_2_Accepted_timerX

TimerThread == \E t \in Timers : Dequeue(t) \/ TimerIgnored(t)

\* The client acknowledges final responses only.
IstNext == \/ Started_2_Proceeding_X_INVITE
           \/ INVITE
           \/ (sent \cap {"2xx", "3456"} # {} /\ ACK)
           \/ DialogResponse
           \/ TimerHandler
           \/ TimerThread
           \/ Any_2_Terminated_X_cancel

IstSpec == IstInit /\ [][IstNext]_istVars

\* The two threads of the timer manager keep running.  Nothing obliges the
\* dialog to answer or the client to acknowledge.
TimerFairness ==
    /\ \A t \in Timers : WF_istVars(Dequeue(t)) /\ WF_istVars(TimerIgnored(t))
    /\ WF_istVars(Completed_2_Completed_timerG) /\ WF_istVars(Completed_2_Terminated_timerH)
    /\ WF_istVars(Confirmed_2_Terminated_timerI) /\ WF_istVars(Accepted_2_Terminated_timerL)
    /\ WF_istVars(Accepted_2_Accepted_timerX)

IstFairSpec == IstSpec /\ TimerFairness

-----------------------------------------------------------------------------
(***************************************************************************)
(* Properties.                                                             *)
(***************************************************************************)
Pending == armed \cup late

\* The FSM is in one of its states and the bookkeeping is well typed.
TypeOK == /\ state \in States /\ reliable \in BOOLEAN
          /\ armed \subseteq Timers /\ late \subseteq Timers
          /\ last \in Responses \cup {"none"} /\ acked \in BOOLEAN
          /\ sent \subseteq Responses
          /\ told \in [Events -> 0..MaxTold] /\ why \in Reasons

\* The client never gets both a success and a failure for one INVITE, although
\* the user accepts on one thread while a CANCEL is rejected on another.
OneFinal == ~({"2xx", "3456"} \subseteq sent)

\* Every wait is bounded by a timer that is pending or under way, and until the
\* ACK arrives a final response that may get lost is due for another send.
\* (Confirmed on a stream waits for a timer I that may have come and gone.)
Watchdog ==
    /\ state = "Completed" => "H" \in Pending /\ (reliable \/ "G" \in Pending)
    /\ state = "Confirmed" /\ ~reliable => "I" \in Pending
    /\ state = "Accepted" => "L" \in Pending /\ (acked \/ "X" \in Pending)

\* "any retransmissions of the response will cease" (tsip_transac_ist.c:591-592):
\* a timer G that was late when the ACK came is not started again.
ResponsesCease == state = "Confirmed" => "G" \notin armed

\* When time runs out the dialog learns of a missing ACK, and only of a missing one.
MissingAckReported ==
    why = "timer" /\ "2xx" \in sent => (told["transport_error"] > 0 <=> told["ACK"] = 0)

\* A transaction with a final response goes away, acknowledged or not; one whose
\* failure is acknowledged on a stream may lose its timer I of length zero, and
\* then stays, done with its work.
FinalStatesEnd ==
    /\ state = "Accepted" ~> state = "Terminated"
    /\ state = "Completed" ~> state \in {"Confirmed", "Terminated"}
    /\ state = "Confirmed" /\ ~reliable ~> state = "Terminated"
=============================================================================
