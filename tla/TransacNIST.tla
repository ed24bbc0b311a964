------------------------------ MODULE TransacNIST ------------------------------
(***************************************************************************)
(* The non-INVITE server transaction of tinySIP (tsip_transac_nist.c).     *)
(* Timers, the lock of the FSM, the end of a transaction and failing sends *)
(* are modelled as in TransacIST: every send that can end this machine is  *)
(* a response the dialog is sending, which gets the error back ("tu").     *)
(* The events transporterror and error of the FSM are left out: nothing in *)
(* the stack ever raises them.  Checked as a part of NonInviteTransac.     *)
(***************************************************************************)
EXTENDS Naturals, FiniteSets

CONSTANTS MaxTold,      \* deliveries of the request are counted up to this bound
          SendMayFail   \* whether tsip_transport_layer_send may fail

VARIABLES state,      \* fsm->current
          reliable,   \* the transport is a stream
          armed,      \* timers on the manager's list
          late,       \* timers off the list whose callback has yet to run
          last,       \* lastResponse
          sent,       \* responses put on the wire so far
          told,       \* how often the request was delivered to the dialog
          why         \* what ended the FSM

nistVars == <<state, reliable, armed, late, last, sent, told, why>>

Timers == {"J"}
Finals == {"2xx", "3456"}

SendResults == IF SendMayFail THEN BOOLEAN ELSE {TRUE}

-----------------------------------------------------------------------------
NistInit == /\ state = "Started" /\ reliable = FALSE
            /\ armed = {} /\ late = {}
            /\ last = "none" /\ sent = {} /\ told = 0 /\ why = "none"

\* Where a handler leaves the FSM; the destructor cancels timer J.
Leave(to, timers, ok, reason) ==
    IF ok /\ to # "Terminated"
    THEN state' = to /\ armed' = timers /\ UNCHANGED why
    ELSE state' = "Terminated" /\ armed' = timers \ {"J"} /\ why' = reason

\* What is pending once timer t was scheduled; J has length zero on a stream and
\* its callback may come before its id is stored (see TransacICT).
Scheduled(t) == IF reliable THEN {{t}, {}} ELSE {{t}}

Sends(r, ok) == sent' = IF ok THEN sent \cup {r} ELSE sent

-----------------------------------------------------------------------------
\* The first request goes up to the dialog, nothing is sent yet.
Started_2_Trying_X_request ==
    /\ state = "Started"
    /\ reliable' \in BOOLEAN
    /\ told' = IF told < MaxTold THEN told + 1 ELSE told
    /\ \E ok \in BOOLEAN : Leave("Trying", armed, ok, "dialog")
    /\ UNCHANGED <<late, last, sent>>

\* Mutant: a repeated request goes up to the dialog again.
Mutant_Trying_X_request ==
    /\ state = "Trying"
    /\ told' = IF told < MaxTold THEN told + 1 ELSE told
    /\ UNCHANGED <<state, reliable, armed, late, last, sent, why>>

\* Trying discards a repeated request.
Trying_2_Trying_X_request == state = "Trying" /\ UNCHANGED nistVars

\* Proceeding and Completed answer it with the last response; a failure is not
\* looked at.
Repeated(in) ==
    /\ state = in
    /\ \E ok \in SendResults : Sends(last, ok)
    /\ UNCHANGED <<state, reliable, armed, late, last, told, why>>

Proceeding_2_Proceeding_X_request == Repeated("Proceeding")
Completed_2_Completed_X_request == Repeated("Completed")

-----------------------------------------------------------------------------
\* Responses of the dialog.
Trying_2_Proceeding_X_send_1xx ==
    /\ state = "Trying"
    /\ \E ok \in SendResults : Sends("1xx", ok) /\ Leave("Proceeding", armed, ok, "tu")
    /\ last' = "1xx"
    /\ UNCHANGED <<reliable, late, told>>

\* Mutant: a provisional response is kept over the final one.
Mutant_send_1xx ==
    /\ state \in {"Proceeding", "Completed"}
    /\ \E ok \in SendResults : Sends("1xx", ok)
    /\ last' = "1xx"
    /\ UNCHANGED <<state, reliable, armed, late, told, why>>

Proceeding_2_Proceeding_X_send_1xx ==
    /\ state = "Proceeding"
    /\ \E ok \in SendResults : Sends("1xx", ok)
    /\ last' = "1xx"
    /\ UNCHANGED <<state, reliable, armed, late, told, why>>

\* A final response starts timer J, from Trying and from Proceeding.
Finish ==
    /\ last' \in Finals
    /\ \E ok \in SendResults, j \in Scheduled("J") :
          Sends(last', ok) /\ Leave("Completed", armed \cup j, ok, "tu")
    /\ UNCHANGED <<reliable, late, told>>

Trying_2_Completed_X_send_200_to_699 == state = "Trying" /\ Finish
Proceeding_2_Completed_X_send_200_to_699 == state = "Proceeding" /\ Finish

-----------------------------------------------------------------------------
Fires(t) == t \in late /\ late' = late \ {t}

Completed_2_Terminated_X_tirmerJ ==
    /\ state = "Completed" /\ Fires("J")
    /\ Leave("Terminated", armed, TRUE, "timer")
    /\ UNCHANGED <<reliable, last, sent, told>>

\* tsip_transac_layer_cancel_by_dialog; a transaction not started ignores it.
Any_2_Terminated_X_cancel ==
    /\ state \notin {"Started", "Terminated"}
    /\ Leave("Terminated", armed, TRUE, "cancel")
    /\ UNCHANGED <<reliable, late, last, sent, told>>

\* The timer manager's thread takes a due timer off its list.
Dequeue(t) ==
    /\ t \in armed
    /\ armed' = armed \ {t} /\ late' = late \cup {t}
    /\ UNCHANGED <<state, reliable, last, sent, told, why>>

\* The transaction is gone (what such a callback reads is modelled in TransacICT).
TimerIgnored(t) ==
    /\ Fires(t) /\ state # "Completed"
    /\ UNCHANGED <<state, reliable, armed, last, sent, told, why>>

-----------------------------------------------------------------------------
Request == \/ Trying_2_Trying_X_request
           \/ Proceeding_2_Proceeding_X_request
           \/ Completed_2_Completed_X_request

DialogResponse == \/ Trying_2_Proceeding_X_send_1xx
                  \/ Proceeding_2_Proceeding_X_send_1xx
                  \/ Trying_2_Completed_X_send_200_to_699
                  \/ Proceeding_2_Completed_X_send_200_to_699

TimerThread == \E t \in Timers : Dequeue(t) \/ TimerIgnored(t)

NistNext == \/ Started_2_Trying_X_request
            \/ Request
            \/ DialogResponse
            \/ Completed_2_Terminated_X_tirmerJ
            \/ TimerThread
            \/ Any_2_Terminated_X_cancel

NistSpec == NistInit /\ [][NistNext]_nistVars

-----------------------------------------------------------------------------
(***************************************************************************)
(* Properties.                                                             *)
(***************************************************************************)

\* The wait in Completed is bounded by timer J, pending or under way.  (On a
\* stream it may have come and gone, but there no request is repeated.)
Watchdog == state = "Completed" /\ ~reliable => "J" \in armed \cup late

\* A repeated request is answered with the final response once there is one.
FinalAnswerStands == state = "Completed" => last \in Finals
=============================================================================
