------------------------------ MODULE TransacNICT ------------------------------
(***************************************************************************)
(* The non-INVITE client transaction of tinySIP (tsip_transac_nict.c).     *)
(* Timers, the lock of the FSM and the end of a transaction are modelled   *)
(* as in TransacICT.  No handler of this machine can fail: the results of  *)
(* tsip_transac_send and tsip_transac_deliver are dropped in all of them.  *)
(* The events transporterror and error of the FSM are left out: nothing in *)
(* the stack ever raises them.                                             *)
(***************************************************************************)
EXTENDS Naturals, FiniteSets

CONSTANTS MaxTold,      \* deliveries of one event are counted up to this bound
          SendMayFail   \* whether tsip_transport_layer_send may fail

ASSUME MaxToldAssumption == MaxTold \in Nat \ {0}
ASSUME SendMayFailAssumption == SendMayFail \in BOOLEAN

VARIABLES state,      \* fsm->current
          reliable,   \* the transport is a stream
          armed,      \* timers on the manager's list
          late,       \* timers off the list whose callback has yet to run
          sent,       \* requests put on the wire so far
          told,       \* how often each event was delivered to the dialog
          why         \* what ended the FSM

nictVars == <<state, reliable, armed, late, sent, told, why>>

States == {"Started", "Trying", "Proceeding", "Completed", "Terminated"}
Timers == {"E", "F", "K"}
Events == {"1xx", "final", "timedout", "transport_error"}
Reasons == {"none", "timer", "cancel"}

SendResults == IF SendMayFail THEN BOOLEAN ELSE {TRUE}

-----------------------------------------------------------------------------
NictInit == /\ state = "Started" /\ reliable = FALSE
            /\ armed = {} /\ late = {} /\ sent = {}
            /\ told = [e \in Events |-> 0]
            /\ why = "none"

\* The timer that repeats the request: none on a stream.
RetransmissionTimers == IF reliable THEN {} ELSE {"E"}

\* The destructor: "Cancel timers".
Destroyed(timers) == timers \ (RetransmissionTimers \cup {"F", "K"})

\* The FSM reached its final state: the transaction is removed and destroyed.
End(reason) == /\ state' = "Terminated" /\ why' = reason
               /\ armed' = Destroyed(armed)

\* What is pending once timer t was scheduled; K has length zero on a stream and
\* its callback may come before its id is stored (see TransacICT).
Scheduled(t) == IF reliable THEN {{t}, {}} ELSE {{t}}

Deliver(e) == told' = [told EXCEPT ![e] = IF @ < MaxTold THEN @ + 1 ELSE @]

-----------------------------------------------------------------------------
\* The result of the first send is not looked at; the transport it chose is.
Started_2_Trying_X_send ==
    /\ state = "Started"
    /\ reliable' \in BOOLEAN
    /\ \E ok \in SendResults : sent' = IF ok THEN {"request"} ELSE {}
    /\ armed' = {"F"} \cup RetransmissionTimers'
    /\ state' = "Trying"
    /\ UNCHANGED <<late, told, why>>

\* tsip_transac_nict_timer_callback recognised the id as that of timer t.
Fires(t) == t \in late /\ late' = late \ {t}

\* Trying and Proceeding repeat the request alike, at most every T2.
Repeat == /\ Fires("E")
          /\ \E ok \in SendResults : sent' = IF ok THEN {"request"} ELSE sent
          /\ armed' = armed \cup {"E"}
          /\ UNCHANGED <<state, reliable, told, why>>

Trying_2_Trying_X_timerE == state = "Trying" /\ Repeat
Proceeding_2_Proceeding_X_timerE == state = "Proceeding" /\ Repeat

\* Mutants: the timeout is not reported; the FSM stays where it is.
Mutant_timerF_silent ==
    /\ state = "Trying" /\ Fires("F")
    /\ End("timer")
    /\ UNCHANGED <<reliable, sent, told>>

Mutant_timerF_stays ==
    /\ state = "Trying" /\ Fires("F")
    /\ Deliver("timedout")
    /\ UNCHANGED <<state, armed, why, reliable, sent>>

Trying_2_Terminated_X_timerF ==
    /\ state = "Trying" /\ Fires("F")
    /\ Deliver("timedout")
    /\ End("timer")
    /\ UNCHANGED <<reliable, sent>>

\* Reached only by a timer F that was already late when the 1xx cancelled it.
Proceeding_2_Terminated_X_timerF ==
    /\ state = "Proceeding" /\ Fires("F")
    /\ Deliver("transport_error")
    /\ End("timer")
    /\ UNCHANGED <<reliable, sent>>

Completed_2_Terminated_X_timerK ==
    /\ state = "Completed" /\ Fires("K")
    /\ End("timer")
    /\ UNCHANGED <<reliable, sent, told>>

-----------------------------------------------------------------------------
\* The first provisional response cancels both timers; a further one, timer E.
Trying_2_Proceedding_X_1xx ==
    /\ state = "Trying"
    /\ armed' = armed \ (RetransmissionTimers \cup {"F"})
    /\ Deliver("1xx")
    /\ state' = "Proceeding"
    /\ UNCHANGED <<reliable, late, sent, why>>

Proceeding_2_Proceeding_X_1xx ==
    /\ state = "Proceeding"
    /\ armed' = armed \ RetransmissionTimers
    /\ Deliver("1xx")
    /\ UNCHANGED <<state, reliable, late, sent, why>>

\* A final response cancels what is left of them and starts timer K.
Finish(cancelled) ==
    /\ \E k \in Scheduled("K") : armed' = (armed \ cancelled) \cup k
    /\ Deliver("final")
    /\ state' = "Completed"
    /\ UNCHANGED <<reliable, late, sent, why>>

Trying_2_Completed_X_200_to_699 ==
    state = "Trying" /\ Finish(RetransmissionTimers \cup {"F"})

\* Mutants: the retransmissions go on; Completed has the entry as well.
Mutant_Proceeding_X_200_to_699 == state = "Proceeding" /\ Finish({})
Mutant_Completed_X_200_to_699 ==
    state \in {"Proceeding", "Completed"} /\ Finish(RetransmissionTimers)

Proceeding_2_Completed_X_200_to_699 ==
    state = "Proceeding" /\ Finish(RetransmissionTimers)

-----------------------------------------------------------------------------
\* tsip_transac_layer_cancel_by_dialog; a transaction not started ignores it.
Any_2_Terminated_X_cancel ==
    /\ state \notin {"Started", "Terminated"}
    /\ End("cancel")
    /\ UNCHANGED <<reliable, late, sent, told>>

\* The timer manager's thread takes a due timer off its list.
Dequeue(t) ==
    /\ t \in armed
    /\ armed' = armed \ {t} /\ late' = late \cup {t}
    /\ UNCHANGED <<state, reliable, sent, told, why>>

\* The states whose FSM has an entry for timer t.
Expects(t) == IF t = "K" THEN {"Completed"} ELSE {"Trying", "Proceeding"}

\* "No matching state found": the FSM is past the state the timer was for, or
\* gone (what such a callback reads is modelled in TransacICT).
TimerIgnored(t) ==
    /\ Fires(t) /\ state \notin Expects(t)
    /\ UNCHANGED <<state, reliable, armed, sent, told, why>>

-----------------------------------------------------------------------------
Response == \/ Trying_2_Proceedding_X_1xx
            \/ Proceeding_2_Proceeding_X_1xx
            \/ Trying_2_Completed_X_200_to_699
            \/ Proceeding_2_Completed_X_200_to_699

TimerHandler == \/ Trying_2_Trying_X_timerE
                \/ Proceeding_2_Proceeding_X_timerE
                \/ Trying_2_Terminated_X_timerF
                \/ Proceeding_2_Terminated_X_timerF
                \/ Completed_2_Terminated_X_timerK

TimerThread == \E t \in Timers : Dequeue(t) \/ TimerIgnored(t)

\* Responses reach a transaction only if its request went out.
NictNext == \/ Started_2_Trying_X_send
            \/ ("request" \in sent /\ Response)
            \/ TimerHandler
            \/ TimerThread
            \/ Any_2_Terminated_X_cancel

NictSpec == NictInit /\ [][NictNext]_nictVars

-----------------------------------------------------------------------------
(***************************************************************************)
(* Properties.                                                             *)
(***************************************************************************)
Pending == armed \cup late

\* The FSM is in one of its states and the bookkeeping is well typed.
TypeOK == /\ state \in States /\ reliable \in BOOLEAN
          /\ armed \subseteq Timers /\ late \subseteq Timers
          /\ sent \subseteq {"request"}
          /\ told \in [Events -> 0..MaxTold] /\ why \in Reasons

\* The dialog gets one verdict: the final response once, however often the
\* server repeats it, or one timeout; never both, although a timer F that is
\* on its way when the answer comes cannot be cancelled any more.
OutcomeOnce == told["final"] + told["timedout"] + told["transport_error"] <= 1

\* In the states that wait for time to pass, the timer that ends the wait is
\* pending or its callback is under way.  (Completed on a stream waits for a
\* timer K that may have come and gone.)
Watchdog == /\ state = "Trying" => "F" \in Pending
            /\ state = "Completed" /\ ~reliable => "K" \in Pending

\* A request that has its final answer is not repeated any more, although a
\* timer E that was late when it was cancelled starts itself anew in Proceeding.
NoRetransmissionAfterFinal == state = "Completed" => "E" \notin armed

\* The transaction as its dialog sees it.
Phase == IF state = "Started" THEN "idle"
         ELSE IF state = "Terminated" THEN "closed" ELSE "open"
Verdict == IF told["final"] > 0 THEN "response"
           ELSE IF told["timedout"] + told["transport_error"] > 0 THEN "timeout"
           ELSE "none"
Abstract == INSTANCE ClientTransac
            WITH Verdicts <- {"response", "timeout"}, phase <- Phase,
                 verdict <- Verdict, dropped <- why = "cancel"

\* The transaction keeps what a client transaction promises its dialog, whether
\* or not its sends fail.
ImplementsClientTransac == Abstract!Spec
=============================================================================
