------------------------------ MODULE InviteTransac ------------------------------
(***************************************************************************)
(* An INVITE client transaction and the server transaction it meets, with  *)
(* the two INVITE dialogs as far as they drive them, and the network.      *)
(*                                                                         *)
(* The caller's dialog acknowledges each 2xx it is told of; the callee's   *)
(* dialog rings, then accepts or rejects.  A message arrives once for each *)
(* time it was sent, on a stream in order; datagrams arrive at any time,   *)
(* or, MaxLost times, not at all.                                          *)
(*                                                                         *)
(* Timers H and L (64*T1) end after the response was repeated at least     *)
(* five times (G: T1, 2*T1, ... at most T2; X: T1, 2*T1, ...), so they are *)
(* not due, unless the ACK has come, before MaxLost + 1 repetitions.       *)
(***************************************************************************)
EXTENDS Naturals

CONSTANTS MaxHeard,      \* MaxTold of the two transactions
          MaxLost        \* how many datagrams are lost, below 5

ASSUME BoundsAssumption == MaxHeard \in Nat \ {0} /\ MaxLost \in 0..4

VARIABLES cState, cReliable, cArmed, cLate, cOrphan, cTold, cWhy, cDangling,
          sState, sReliable, sArmed, sLate, sLast, sAcked, sTold, sWhy,
          toServer,    \* requests on the wire
          toClient,    \* responses on the wire
          owed,        \* the caller's dialog was told a 2xx and not yet sent its ACK
          resends,     \* how often a timer repeated the final response, up to the bound
          lost         \* datagrams lost so far

clientVars == <<cState, cReliable, cArmed, cLate, cOrphan, cTold, cWhy, cDangling>>
serverVars == <<sState, sReliable, sArmed, sLate, sLast, sAcked, sTold, sWhy>>
vars == <<clientVars, serverVars, toServer, toClient, owed, resends, lost>>

Client == INSTANCE TransacICT
          WITH MaxTold <- MaxHeard, SendMayFail <- FALSE,
               state <- cState, reliable <- cReliable, armed <- cArmed, late <- cLate,
               orphan <- cOrphan, sent <- toServer, told <- cTold, why <- cWhy, dangling <- cDangling
Server == INSTANCE TransacIST
          WITH MaxTold <- MaxHeard, SendMayFail <- FALSE,
               state <- sState, reliable <- sReliable, armed <- sArmed, late <- sLate,
               last <- sLast, acked <- sAcked, sent <- toClient, told <- sTold, why <- sWhy

Init == Client!IctInit /\ Server!IstInit /\ owed = FALSE /\ resends = 0 /\ lost = 0

-----------------------------------------------------------------------------
ClientAlone == UNCHANGED <<serverVars, toClient, owed, resends, lost>>
ServerAlone == UNCHANGED <<clientVars, toServer, owed, lost>>

ClientStart == Client!Started_2_Calling_X_send /\ ClientAlone

\* A response reaches the client's transaction; on a stream, in order.
FromServer(r) == /\ r \in toClient
                 /\ toClient' = toClient \ {r}
                 /\ cReliable => r = "1xx" \/ "1xx" \notin toClient

\* The caller's dialog does not reject what it is told.
Client1xx == /\ FromServer("1xx")
             /\ \/ Client!Calling_2_Proceeding_X_1xx
                \/ Client!Proceeding_2_Proceeding_X_1xx
             /\ cState' # "Terminated"
             /\ UNCHANGED <<serverVars, owed, resends, lost>>

Client2xx == /\ FromServer("2xx")
             /\ \/ Client!Calling_2_Accepted_X_2xx
                \/ Client!Proceeding_2_Accepted_X_2xx
                \/ Client!Accepted_2_Accepted_X_2xx
             /\ cState' # "Terminated" /\ owed' = TRUE
             /\ UNCHANGED <<serverVars, resends, lost>>

Client3456 == /\ FromServer("3456")
              /\ \/ Client!Calling_2_Completed_X_300_to_699
                 \/ Client!Proceeding_2_Completed_X_300_to_699
                 \/ Client!Completed_2_Completed_X_300_to_699
              /\ cState' # "Terminated"
              /\ UNCHANGED <<serverVars, owed, resends, lost>>

\* Mutant: the ACK is sent with the first provisional response.
Mutant_DialogAck == /\ owed \/ cTold["1xx"] > 0
                    /\ owed' = FALSE
                    /\ toServer' = toServer \cup {"ACK"}
                    /\ UNCHANGED <<clientVars, serverVars, toClient, resends, lost>>

\* The caller's dialog: send_ACK, past the transactions.
DialogAck == /\ owed /\ owed' = FALSE
             /\ toServer' = toServer \cup {"ACK"}
             /\ UNCHANGED <<clientVars, serverVars, toClient, resends, lost>>

-----------------------------------------------------------------------------
FromClient(m) == m \in toServer /\ toServer' = toServer \ {m}

\* The callee's dialog does not reject the INVITE it is told of out of hand.
ServerInvite == /\ FromClient("INVITE")
                /\ \/ Server!Started_2_Proceeding_X_INVITE /\ sReliable' = cReliable
                   \/ Server!INVITE
                /\ sState' # "Terminated"
                /\ UNCHANGED <<clientVars, owed, resends, lost>>

ServerAck == /\ FromClient("ACK") /\ Server!ACK /\ sState' # "Terminated"
             /\ UNCHANGED <<clientVars, owed, resends, lost>>

ServerRings == Server!Proceeding_2_Proceeding_X_1xx /\ ServerAlone /\ UNCHANGED resends

ServerAnswers == /\ \/ Server!Proceeding_2_Accepted_X_2xx
                    \/ Server!Proceeding_2_Completed_X_300_to_699
                 /\ ServerAlone /\ UNCHANGED resends

\* The callee's dialog terminated once it had rejected: tsip_transac_layer_cancel_by_dialog.
ServerLeaves == /\ sLast = "3456"
                /\ Server!Any_2_Terminated_X_cancel
                /\ ServerAlone /\ UNCHANGED resends

-----------------------------------------------------------------------------
\* Timers H and L of an unacknowledged response wait for its repetitions.
NotDue(t) == /\ t \in {"H", "L"} /\ ~sAcked /\ sState \in {"Completed", "Accepted"}
             /\ ~(sState = "Completed" /\ sReliable)
             /\ resends <= MaxLost

ServerDequeue(t) == /\ ~NotDue(t) /\ Server!Dequeue(t)
                    /\ ServerAlone /\ UNCHANGED resends

ServerIgnores(t) == Server!TimerIgnored(t) /\ ServerAlone /\ UNCHANGED resends

ServerRepeats == /\ Server!Completed_2_Completed_timerG \/ Server!Accepted_2_Accepted_timerX
                 /\ resends' = IF resends <= MaxLost THEN resends + 1 ELSE resends
                 /\ ServerAlone

ServerEnds == /\ \/ Server!Completed_2_Terminated_timerH
                 \/ Server!Confirmed_2_Terminated_timerI
                 \/ Server!Accepted_2_Terminated_timerL
              /\ ServerAlone /\ UNCHANGED resends

\* Timers with no one to call, or no one any more, are left to TransacICT.
ClientTimer == /\ \/ Client!TimerHandler
                  \/ \E t \in Client!Timers : Client!Dequeue(t) \/ Client!TimerIgnored(t)
               /\ ClientAlone

\* All copies of a message at once; of a response that was repeated MaxLost
\* times, one arrives.
Lose == /\ ~cReliable /\ lost < MaxLost /\ lost' = lost + 1
        /\ \/ \E m \in toServer : toServer' = toServer \ {m} /\ UNCHANGED toClient
           \/ \E r \in toClient : /\ r = "1xx" \/ resends < MaxLost
                                  /\ toClient' = toClient \ {r} /\ UNCHANGED toServer
        /\ UNCHANGED <<clientVars, serverVars, owed, resends>>

Next == \/ ClientStart \/ Client1xx \/ Client2xx \/ Client3456 \/ DialogAck
        \/ ClientTimer
        \/ ServerInvite \/ ServerAck \/ ServerRings \/ ServerAnswers \/ ServerLeaves
        \/ \E t \in Server!Timers : ServerDequeue(t) \/ ServerIgnores(t)
        \/ ServerRepeats \/ ServerEnds
        \/ Lose

Spec == Init /\ [][Next]_vars

(***************************************************************************)
(* The caller starts its transaction and sends the ACK it owes, the timer  *)
(* threads run, what stays on the wire is delivered, and the callee        *)
(* accepts or rejects in the end.                                          *)
(***************************************************************************)
FairSpec ==
    /\ Spec /\ WF_vars(ClientStart) /\ WF_vars(DialogAck)
    /\ WF_vars(Client1xx) /\ WF_vars(Client2xx) /\ WF_vars(Client3456)
    /\ \A t \in Client!Timers : /\ WF_vars(Client!Dequeue(t) /\ ClientAlone)
                                /\ WF_vars(Client!TimerIgnored(t) /\ ClientAlone)
    /\ WF_vars(Client!Calling_2_Calling_X_timerA /\ ClientAlone)
    /\ WF_vars(Client!Calling_2_Terminated_X_timerB /\ ClientAlone)
    /\ WF_vars(Client!Completed_2_Terminated_X_timerD /\ ClientAlone)
    /\ WF_vars(Client!Accepted_2_Terminated_X_timerM /\ ClientAlone)
    /\ WF_vars(ServerInvite) /\ WF_vars(ServerAck) /\ WF_vars(ServerAnswers)
    /\ \A t \in Server!Timers : WF_vars(ServerDequeue(t)) /\ WF_vars(ServerIgnores(t))
    /\ WF_vars(ServerRepeats) /\ WF_vars(ServerEnds)

-----------------------------------------------------------------------------
(***************************************************************************)
(* Properties.                                                             *)
(***************************************************************************)

\* An ACK the callee counts is the caller's word that it knows the answer: no
\* duplicate or late message makes the callee believe in a call the caller's
\* dialog was not told of.
AckMeansTold == /\ sState = "Confirmed" => cTold["3456"] > 0
                /\ sAcked => cTold["2xx"] > 0

\* A caller whose INVITE was answered provisionally, and so has no timer left,
\* still gets to know the callee's answer, whatever MaxLost datagrams are lost,
\* unless the callee's dialog took its transaction along.
CallerLearns ==
    cState = "Proceeding" ~> cState # "Proceeding" \/ (sWhy = "cancel" /\ lost > 0)

\* A call the callee has accepted is acknowledged or reported to its dialog,
\* also when the caller gave up before the answer reached it.
CalleeLearns ==
    sState = "Accepted" ~> sTold["ACK"] > 0 \/ sTold["transport_error"] > 0

\* The caller's dialog is told what the callee's dialog answered.
Contract == INSTANCE Exchange
            WITH Answers <- {"2xx", "3456"},
                 answers <- {sLast} \cap {"2xx", "3456"},
                 withdrawn <- FALSE,
                 verdict <- IF cTold["2xx"] > 0 THEN "2xx"
                            ELSE IF cTold["3456"] > 0 THEN "3456"
                            ELSE IF cTold["timedout"] > 0 THEN "timeout" ELSE "none"
ImplementsExchange == Contract!Spec
=============================================================================
