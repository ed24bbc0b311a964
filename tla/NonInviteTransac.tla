---------------------------- MODULE NonInviteTransac ----------------------------
(***************************************************************************)
(* A non-INVITE client transaction and the server transaction it meets,    *)
(* with the network between them.  On a stream a message arrives once and  *)
(* in order.  A datagram may stay on the wire and arrive again, late, or,  *)
(* MaxLost times, it does not arrive at all.                               *)
(*                                                                         *)
(* A dialog that terminates cancels its server transaction, answered or    *)
(* not.  A repeated request is then a new one to the dialog layer: for the *)
(* methods it has server dialogs for (remakes: MESSAGE, INFO, OPTIONS and  *)
(* REGISTER) it makes another dialog and another transaction, up to        *)
(* MaxAgain times here; the others it answers on its own.  A transaction   *)
(* that ended with timer J is not met by the request again: 64*T1 after    *)
(* its answer the client has given up as well.                             *)
(***************************************************************************)
EXTENDS Naturals

CONSTANTS MaxHeard,      \* MaxTold of the two transactions
          MaxAgain,      \* how often the server side starts anew
          MaxLost        \* how many datagrams are lost

ASSUME BoundsAssumption ==
    MaxHeard \in Nat \ {0} /\ MaxAgain \in Nat /\ MaxLost \in Nat

VARIABLES cState, cReliable, cArmed, cLate, cTold, cWhy,  \* as in TransacNICT
          sState, sReliable, sArmed, sLate, sLast, sTold, sWhy,  \* as in TransacNIST
          remakes,     \* the request is of a method that creates a dialog
          left,        \* how often the server's dialog went, or refused the request
          earlier,     \* final answers of server transactions before this one
          toServer,    \* requests on the wire
          toClient,    \* responses on the wire
          refusal,     \* a 481 or 405 of the dialog layer is on the wire
          heard,       \* which final response the client's dialog was told
          lost         \* datagrams lost so far

clientVars == <<cState, cReliable, cArmed, cLate, cTold, cWhy>>
serverVars == <<sState, sReliable, sArmed, sLate, sLast, sTold, sWhy>>
dialogVars == <<remakes, left, earlier>>
vars == <<clientVars, serverVars, dialogVars, toServer, toClient, refusal, heard, lost>>

Client == INSTANCE TransacNICT
          WITH MaxTold <- MaxHeard, SendMayFail <- FALSE,
               state <- cState, reliable <- cReliable, armed <- cArmed, late <- cLate,
               sent <- toServer, told <- cTold, why <- cWhy
Server == INSTANCE TransacNIST
          WITH MaxTold <- MaxHeard, SendMayFail <- FALSE,
               state <- sState, reliable <- sReliable, armed <- sArmed, late <- sLate,
               last <- sLast, sent <- toClient, told <- sTold, why <- sWhy

Init == /\ Client!NictInit /\ Server!NistInit
        /\ remakes \in BOOLEAN /\ left = 0 /\ earlier = {}
        /\ refusal = FALSE /\ heard = "none" /\ lost = 0

-----------------------------------------------------------------------------
\* Steps of one side that take nothing from the network.
ClientAlone == UNCHANGED <<serverVars, dialogVars, toClient, refusal, heard, lost>>
ServerAlone == UNCHANGED <<clientVars, dialogVars, toServer, refusal, heard, lost>>

ClientStart == Client!Started_2_Trying_X_send /\ ClientAlone
ClientTimer == (Client!TimerHandler \/ Client!TimerThread) /\ ClientAlone

\* A response reaches the client's transaction; on a stream, in order.
FromServer(r) == /\ r \in toClient
                 /\ \/ toClient' = toClient \ {r}
                    \/ ~cReliable /\ UNCHANGED toClient
                 /\ cReliable => r = "1xx" \/ "1xx" \notin toClient

Client1xx == /\ FromServer("1xx")
             /\ \/ Client!Trying_2_Proceedding_X_1xx
                \/ Client!Proceeding_2_Proceeding_X_1xx
             /\ UNCHANGED <<serverVars, dialogVars, refusal, heard, lost>>

ClientFinal == /\ \/ /\ \E r \in Server!Finals : FromServer(r) /\ heard' = r
                     /\ UNCHANGED refusal
                  \/ /\ refusal /\ heard' = "refused"
                     /\ refusal' \in {FALSE, ~cReliable} /\ UNCHANGED toClient
               /\ \/ Client!Trying_2_Completed_X_200_to_699
                  \/ Client!Proceeding_2_Completed_X_200_to_699
               /\ UNCHANGED <<serverVars, dialogVars, lost>>

-----------------------------------------------------------------------------
FromClient(m) == /\ m \in toServer
                 /\ \/ toServer' = toServer \ {m}
                    \/ ~cReliable /\ UNCHANGED toServer

\* The server's dialog is gone once it cancelled its transaction or, as far as
\* the transaction is concerned, when it refused the request.
Gone == sWhy \in {"cancel", "dialog"}

ServerRequest == /\ FromClient("request")
                 /\ \/ Server!Started_2_Trying_X_request /\ sReliable' = cReliable
                    \/ Server!Request
                 /\ left' = IF sWhy' = "dialog" THEN left + 1 ELSE left
                 /\ UNCHANGED <<clientVars, remakes, earlier, refusal, heard, lost>>

(***************************************************************************)
(* tsip_dialog_layer_handle_incoming_msg, without a transaction: one more  *)
(* dialog, or the one that refused the request, gets it in a transaction   *)
(* of its own.  (A timer J of the one before that is late is left to       *)
(* TransacICT.)                                                            *)
(***************************************************************************)
ServerAgain == /\ Gone /\ (remakes \/ sWhy = "dialog")
               /\ left <= MaxAgain
               /\ FromClient("request")
               /\ sTold' = IF sTold < MaxHeard THEN sTold + 1 ELSE sTold
               /\ \/ sState' = "Trying" /\ sWhy' = "none" /\ UNCHANGED left
                  \/ sState' = "Terminated" /\ sWhy' = "dialog" /\ left' = left + 1
               /\ sArmed' = {} /\ sLate' = {} /\ sLast' = "none"
               /\ earlier' = earlier \cup ({sLast} \cap Server!Finals)
               /\ UNCHANGED <<clientVars, sReliable, remakes, toClient, refusal, heard, lost>>

\* Mutant: the dialog layer answers a request its dialog is still working on.
Mutant_ServerRefuses == /\ FromClient("request")
                        /\ refusal' = TRUE
                        /\ UNCHANGED <<clientVars, serverVars, dialogVars, toClient, heard, lost>>

\* Without a transaction and a dialog, of a method that creates none.
ServerRefuses == /\ Gone /\ ~remakes
                 /\ FromClient("request")
                 /\ refusal' = TRUE
                 /\ UNCHANGED <<clientVars, serverVars, dialogVars, toClient, heard, lost>>

ServerAnswer == Server!DialogResponse /\ ServerAlone

ServerTimer == /\ Server!Completed_2_Terminated_X_tirmerJ \/ Server!TimerThread
               /\ ServerAlone

\* The dialog terminates: tsip_transac_layer_cancel_by_dialog.
ServerLeaves == /\ Server!Any_2_Terminated_X_cancel
                /\ left' = left + 1
                /\ UNCHANGED <<clientVars, remakes, earlier, toServer, refusal, heard, lost>>

-----------------------------------------------------------------------------
Lose == /\ ~cReliable /\ lost < MaxLost /\ lost' = lost + 1
        /\ \/ \E m \in toServer : toServer' = toServer \ {m} /\ UNCHANGED <<toClient, refusal>>
           \/ \E r \in toClient : toClient' = toClient \ {r} /\ UNCHANGED <<toServer, refusal>>
           \/ refusal /\ refusal' = FALSE /\ UNCHANGED <<toServer, toClient>>
        /\ UNCHANGED <<clientVars, serverVars, dialogVars, heard>>

Next == \/ ClientStart \/ ClientTimer \/ Client1xx \/ ClientFinal
        \/ ServerRequest \/ ServerAgain \/ ServerRefuses
        \/ ServerAnswer \/ ServerTimer \/ ServerLeaves
        \/ Lose

Spec == Init /\ [][Next]_vars

(***************************************************************************)
(* The client starts its transaction, the timer threads run, what stays on *)
(* the wire is delivered, and the server's dialog, unless it leaves, sends *)
(* its final response in the end.                                          *)
(***************************************************************************)
ServerFinal == /\ \/ Server!Trying_2_Completed_X_send_200_to_699
                  \/ Server!Proceeding_2_Completed_X_send_200_to_699
               /\ ServerAlone

FairSpec ==
    /\ Spec /\ WF_vars(ClientStart)
    /\ \A t \in Client!Timers : /\ WF_vars(Client!Dequeue(t) /\ ClientAlone)
                                /\ WF_vars(Client!TimerIgnored(t) /\ ClientAlone)
    /\ WF_vars(Client!Trying_2_Trying_X_timerE /\ ClientAlone)
    /\ WF_vars(Client!Proceeding_2_Proceeding_X_timerE /\ ClientAlone)
    /\ WF_vars(Client!Trying_2_Terminated_X_timerF /\ ClientAlone)
    /\ WF_vars(Client!Proceeding_2_Terminated_X_timerF /\ ClientAlone)
    /\ WF_vars(Client!Completed_2_Terminated_X_timerK /\ ClientAlone)
    /\ WF_vars(Client1xx) /\ WF_vars(ClientFinal)
    /\ WF_vars(ServerRequest) /\ WF_vars(ServerAgain) /\ WF_vars(ServerRefuses)
    /\ WF_vars(ServerFinal)
    /\ \A t \in Server!Timers : /\ WF_vars(Server!Dequeue(t) /\ ServerAlone)
                                /\ WF_vars(Server!TimerIgnored(t) /\ ServerAlone)
    /\ WF_vars(Server!Completed_2_Terminated_X_tirmerJ /\ ServerAlone)

-----------------------------------------------------------------------------
(***************************************************************************)
(* Properties.                                                             *)
(***************************************************************************)

\* However often the request is repeated or duplicated, a dialog handles it once:
\* a further handling takes a dialog that has left before.
HandledOnce == sTold <= 1 + left

\* A repeated request is answered with the final response once there is one,
\* and as long as it may be asked for timer J watches over it.
AnswerKept == Server!FinalAnswerStands /\ Server!Watchdog

\* The request comes to an end for the client, unless a provisional response
\* stopped both of its timers and a datagram was lost or the server's dialog left;
\* and both transactions go once it is answered, unless a stream gave their last
\* timer the length zero and they lost it.
Concludes ==
    /\ cState = "Trying" ~> \/ cState \in {"Completed", "Terminated"}
                            \/ cTold["1xx"] > 0 /\ (lost > 0 \/ left > 0)
    /\ cState = "Completed" /\ ~cReliable ~> cState = "Terminated"
    /\ sState = "Completed" /\ ~sReliable ~> sState = "Terminated"

\* The client's dialog is told what a dialog of the server answered, and until the
\* first of them has left there is only one answer.
Contract == INSTANCE Exchange
            WITH Answers <- Server!Finals,
                 answers <- earlier \cup ({sLast} \cap Server!Finals),
                 withdrawn <- left > 0,
                 verdict <- IF cTold["timedout"] + cTold["transport_error"] > 0
                            THEN "timeout" ELSE heard
ImplementsExchange == Contract!Spec
=============================================================================
