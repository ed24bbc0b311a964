------------------------------- MODULE InviteDialog -------------------------------
(***************************************************************************)
(* A call: the INVITE dialogs of the caller and of the callee              *)
(* (tsip_dialog_invite.c, tsip_dialog_invite.client.c,                     *)
(* tsip_dialog_invite.server.c, tsip_dialog_invite.timers.c), and the      *)
(* requests and responses between them.  Both are of this code; a proxy in *)
(* between may challenge.                                                  *)
(*                                                                         *)
(* Every handler runs under the lock of its dialog, and one that fails     *)
(* ends its FSM.  The transactions repeat a request until it is answered,  *)
(* and a response as long as the dialog it belongs to lives: OnTerminated  *)
(* cancels them all.  A request to a dialog that is no more is answered    *)
(* with 481 by the dialog layer.  Left out: early media (100rel, QoS, ICE),*)
(* hold, transfer, in-dialog requests but the one that refreshes the       *)
(* session, an INVITE refused with 422, and a session that does not start. *)
(***************************************************************************)
EXTENDS Naturals, Sequences

CONSTANT MaxEvents   \* dialog events of both sides, up to which they are asked to leave

ASSUME MaxEventsAssumption == MaxEvents \in Nat

VARIABLES timers,      \* who refreshes the session, or nobody
          state,       \* fsm->current
          life,        \* TSIP_DIALOG(self)->state
          challenged,  \* there is a challenge on the list
          armed,       \* stimers.timer is pending
          shutdown,    \* timershutdown is pending
          told,        \* dialog events told to the application; i_newcall is "connecting"
          exchange,    \* what became of the requests of each side
          ack,         \* the ACK to the 2xx of the INVITE
          asked,       \* the application hung up, or the stack shut the dialog down
          failed       \* the dialog did not end in order

vars == <<timers, state, life, challenged, armed, shutdown, told, exchange, ack, asked, failed>>

Sides == {"caller", "callee"}
Peer(p) == IF p = "caller" THEN "callee" ELSE "caller"
States == {"Started", "Outgoing", "Cancelling", "Ringing", "Connected", "Trying", "Terminated"}

\* REFRESH is the re-INVITE or the UPDATE of the session timers.
Methods == {"INVITE", "CANCEL", "BYE", "REFRESH"}

\* A request is sent until it is answered; an INVITE is held while the callee
\* rings, and lost if the final response to it is: nothing repeats either then.
Final == {"2xx", "3456"}
Progress == {"idle", "sent", "held", "lost", "401"} \cup Final

-----------------------------------------------------------------------------
Init == /\ timers \in Sides \cup {"nobody"}
        /\ state = [p \in Sides |-> "Started"]
        /\ life = [p \in Sides |-> "initial"]
        /\ challenged = [p \in Sides |-> FALSE]
        /\ armed = [p \in Sides |-> FALSE]
        /\ shutdown = [p \in Sides |-> FALSE]
        /\ told = [p \in Sides |-> <<>>]
        /\ exchange = [p \in Sides |-> [m \in Methods |-> "idle"]]
        /\ ack = "none"
        /\ asked = [p \in Sides |-> FALSE]
        /\ failed = [p \in Sides |-> FALSE]

Alive(p) == state[p] \notin {"Started", "Terminated"}
Goto(p, s) == state' = [state EXCEPT ![p] = s]

Told(p, event) == \E i \in DOMAIN told[p] : told[p][i] = event
Tell(p, event) == told' = [told EXCEPT ![p] = Append(@, event)]

\* Every hangup and every shutdown says "terminating" once more.
MayAsk(p) == Alive(p) /\ Len(told["caller"]) + Len(told["callee"]) < MaxEvents

Put(p, m, progress) == exchange' = [exchange EXCEPT ![p][m] = progress]

\* A second BYE or CANCEL adds nothing to one that is on its way.
Sending(p, m) == IF exchange[p][m] = "idle" THEN "sent" ELSE exchange[p][m]
Send(p, m) == Put(p, m, Sending(p, m))

\* tsip_dialog_invite_stimers_handle, stimers_schedule.
Arm(p) == armed' = [armed EXCEPT ![p] = timers # "nobody"]

\* The FSM ended: OnTerminated, and the destructor cancels the timers.
End(p, failing) ==
    /\ Goto(p, "Terminated") /\ Tell(p, "terminated")
    /\ armed' = [armed EXCEPT ![p] = FALSE]
    /\ shutdown' = [shutdown EXCEPT ![p] = FALSE]
    /\ failed' = [failed EXCEPT ![p] = failing]
    /\ UNCHANGED <<timers, life, challenged, asked>>

-----------------------------------------------------------------------------
(***************************************************************************)
(* The applications, and the shutdown of a stack.                          *)
(***************************************************************************)
Started_2_Outgoing_X_oINVITE ==
    /\ state["caller"] = "Started"
    /\ Goto("caller", "Outgoing") /\ Tell("caller", "connecting")
    /\ Send("caller", "INVITE")
    /\ UNCHANGED <<timers, life, challenged, armed, shutdown, ack, asked, failed>>

Ringing_2_Connected_X_Accept ==
    /\ state["callee"] = "Ringing"
    /\ Goto("callee", "Connected") /\ Tell("callee", "connected")
    /\ Put("caller", "INVITE", "2xx") /\ ack' = "awaited"
    /\ Arm("callee")
    /\ UNCHANGED <<timers, life, challenged, shutdown, asked, failed>>

\* Mutant: the code the application rejects with is not checked to be a refusal.
Mutant_Reject ==
    /\ state["callee"] = "Ringing"
    /\ \E final \in Final : Put("caller", "INVITE", final)
    /\ End("callee", FALSE)
    /\ UNCHANGED ack

Ringing_2_Terminated_X_Reject ==
    /\ state["callee"] = "Ringing"
    /\ Put("caller", "INVITE", "3456")
    /\ End("callee", FALSE)
    /\ UNCHANGED ack

\* Mutant: hanging up ends the dialog without waiting for the answer.
Mutant_oBYE(p) ==
    /\ MayAsk(p) /\ life[p] = "established"
    /\ Send(p, "BYE") /\ End(p, FALSE) /\ UNCHANGED ack

\* tsip_dialog_hangup sends the action by the state of the dialog, the FSM has
\* one row for it in every state but Started.
Any_2_Trying_X_oBYE(p) ==
    /\ MayAsk(p) /\ life[p] = "established"
    /\ Goto(p, "Trying") /\ Tell(p, "terminating")
    /\ Send(p, "BYE")
    /\ asked' = [asked EXCEPT ![p] = TRUE]
    /\ UNCHANGED <<timers, life, challenged, armed, shutdown, ack, failed>>

\* Whether or not a provisional response has arrived.
Outgoing_2_Cancelling_X_oCANCEL ==
    /\ MayAsk("caller") /\ state["caller"] = "Outgoing" /\ life["caller"] # "established"
    /\ Goto("caller", "Cancelling") /\ Tell("caller", "terminating")
    /\ Send("caller", "CANCEL")
    /\ asked' = [asked EXCEPT !["caller"] = TRUE]
    /\ UNCHANGED <<timers, life, challenged, armed, shutdown, ack, failed>>

\* Nothing is sent in the initial state; a CANCEL that cancels nothing neither.
\* A shutdown timer that is pending goes on, unknown, beside the one started here.
Any_2_Trying_X_shutdown(p) ==
    /\ MayAsk(p)
    /\ shutdown' = [shutdown EXCEPT ![p] = TRUE]
    /\ Goto(p, "Trying") /\ Tell(p, "terminating")
    /\ CASE life[p] = "established" -> Send(p, "BYE")
         [] life[p] = "early" -> Send(p, "CANCEL")
         [] OTHER -> UNCHANGED exchange
    /\ asked' = [asked EXCEPT ![p] = TRUE]
    /\ UNCHANGED <<timers, life, challenged, armed, ack, failed>>

shutdown_timedout(p) ==
    /\ shutdown[p]
    /\ End(p, TRUE)
    /\ UNCHANGED <<exchange, ack>>

-----------------------------------------------------------------------------
(***************************************************************************)
(* Responses.                                                              *)
(***************************************************************************)
Receive(p, m, progress) == Alive(p) /\ exchange[p][m] = progress

\* The 180 may arrive at any time while the callee rings, or never.
Any_2_Any_X_i1xx ==
    /\ Receive("caller", "INVITE", "held")
    /\ life' = [life EXCEPT !["caller"] = "early"]
    /\ UNCHANGED <<timers, state, challenged, armed, shutdown, told, exchange, ack, asked, failed>>

Answered == /\ life' = [life EXCEPT !["caller"] = "established"]
            /\ Arm("caller")
            /\ Put("caller", "INVITE", "idle") /\ ack' = "sent"

Outgoing_2_Connected_X_i2xxINVITE ==
    /\ Receive("caller", "INVITE", "2xx") /\ state["caller"] = "Outgoing"
    /\ Answered
    /\ Goto("caller", "Connected") /\ Tell("caller", "connected")
    /\ UNCHANGED <<timers, challenged, shutdown, asked, failed>>

\* Mutant: a call that is being cancelled is connected.
Mutant_Any_2_Any_X_i2xxINVITE ==
    /\ Receive("caller", "INVITE", "2xx") /\ state["caller"] # "Outgoing"
    /\ Answered
    /\ Goto("caller", "Connected") /\ Tell("caller", "connected")
    /\ UNCHANGED <<timers, challenged, shutdown, asked, failed>>

\* While the call is being cancelled, or the 2xx is a repetition.
Any_2_Any_X_i2xxINVITE ==
    /\ Receive("caller", "INVITE", "2xx") /\ state["caller"] # "Outgoing"
    /\ Answered
    /\ UNCHANGED <<timers, state, told, challenged, shutdown, asked, failed>>

Any_2_Any_X_i2xxUPDATE(p) ==
    /\ Receive(p, "REFRESH", "2xx")
    /\ Arm(p)
    /\ Put(p, "REFRESH", "idle")
    /\ UNCHANGED <<timers, state, life, challenged, shutdown, told, ack, asked, failed>>

\* The media of the answer are of no use: BYE, which goes with the dialog, and
\* no ACK.
UnusableAnswer(p) ==
    \E m \in {"INVITE", "REFRESH"} :
      /\ Receive(p, m, "2xx")
      /\ exchange' = [exchange EXCEPT ![p][m] = "idle", ![p]["BYE"] = Sending(p, "BYE")]
      /\ End(p, TRUE)
      /\ UNCHANGED ack

\* The first challenge is answered, another one is an error: in any state, also
\* while the call is being cancelled.
Any_2_Any_X_i401_407_Challenge(p) ==
    \E m \in {"INVITE", "REFRESH", "BYE"} :
      /\ Receive(p, m, "401")
      /\ IF challenged[p] THEN Put(p, m, "idle") /\ End(p, TRUE)
         ELSE /\ challenged' = [challenged EXCEPT ![p] = TRUE]
              /\ Put(p, m, "sent")
              /\ UNCHANGED <<timers, state, life, armed, shutdown, told, asked, failed>>
      /\ UNCHANGED ack

\* The response does not change the state of the FSM.
Ignore(p, m) == /\ Put(p, m, "idle")
                /\ UNCHANGED <<timers, state, life, challenged, armed, shutdown, told, ack, asked, failed>>

Outgoing_2_Terminated_X_i300_to_i699INVITE ==
    /\ Receive("caller", "INVITE", "3456")
    /\ IF state["caller"] \in {"Outgoing", "Cancelling"}
       THEN Put("caller", "INVITE", "idle") /\ End("caller", FALSE) /\ UNCHANGED ack
       ELSE Ignore("caller", "INVITE")

Cancelling_2_Cancelling_X_i2xx == Receive("caller", "CANCEL", "2xx") /\ Ignore("caller", "CANCEL")

\* Mutant: the row for a refused CANCEL is missing.
Mutant_Cancelling_2_Terminated_X_i300_to_699 ==
    Receive("caller", "CANCEL", "3456") /\ Ignore("caller", "CANCEL")

Cancelling_2_Terminated_X_i300_to_699 ==
    /\ Receive("caller", "CANCEL", "3456")
    /\ IF state["caller"] = "Cancelling"
       THEN Put("caller", "CANCEL", "idle") /\ End("caller", FALSE) /\ UNCHANGED ack
       ELSE Ignore("caller", "CANCEL")

Any_2_Terminated_X_2xxTOi6xxBYE(p) ==
    /\ \E progress \in Final : Receive(p, "BYE", progress)
    /\ Put(p, "BYE", "idle") /\ End(p, FALSE)
    /\ UNCHANGED ack

\* No row matches a refused refresh, and nothing schedules the timer again.
RefusedRefresh(p) == Receive(p, "REFRESH", "3456") /\ Ignore(p, "REFRESH")

-----------------------------------------------------------------------------
(***************************************************************************)
(* Requests of p, at its peer.                                             *)
(***************************************************************************)
\* The INVITE creates the dialog of the callee, which is established from then on.
Started_2_Ringing_X_iINVITE ==
    /\ exchange["caller"]["INVITE"] = "sent" /\ state["callee"] = "Started"
    /\ Goto("callee", "Ringing") /\ Tell("callee", "connecting")
    /\ life' = [life EXCEPT !["callee"] = "established"]
    /\ Put("caller", "INVITE", "held")
    /\ UNCHANGED <<timers, challenged, armed, shutdown, ack, asked, failed>>

\* A bad extension or a bad content, refused by the condition.
Started_2_Terminated_X_iINVITE ==
    /\ exchange["caller"]["INVITE"] = "sent" /\ state["callee"] = "Started"
    /\ Put("caller", "INVITE", "3456")
    /\ End("callee", FALSE)
    /\ UNCHANGED ack

Ringing_2_Terminated_X_iCANCEL ==
    /\ exchange["caller"]["CANCEL"] = "sent" /\ state["callee"] = "Ringing"
    /\ exchange' = [exchange EXCEPT !["caller"]["CANCEL"] = "2xx", !["caller"]["INVITE"] = "3456"]
    /\ End("callee", FALSE)
    /\ UNCHANGED ack

Any_2_Terminated_X_iBYE(p) ==
    /\ exchange[p]["BYE"] = "sent" /\ Alive(Peer(p))
    /\ Put(p, "BYE", "2xx") /\ End(Peer(p), FALSE)
    /\ UNCHANGED ack

\* Mutant: the session timer is cancelled, and not scheduled again.
Mutant_iINVITEorUPDATE(p) ==
    /\ exchange[p]["REFRESH"] = "sent" /\ state[Peer(p)] = "Connected"
    /\ Put(p, "REFRESH", "2xx") /\ armed' = [armed EXCEPT ![Peer(p)] = FALSE]
    /\ UNCHANGED <<timers, state, life, challenged, shutdown, told, asked, failed, ack>>

\* In any other state, no row matches and nothing answers.  The handler fails
\* if the media offered are of no use, without an answer.
Connected_2_Connected_X_iINVITEorUPDATE(p) ==
    /\ exchange[p]["REFRESH"] = "sent" /\ state[Peer(p)] = "Connected"
    /\ \/ /\ Put(p, "REFRESH", "2xx") /\ Arm(Peer(p))
          /\ UNCHANGED <<timers, state, life, challenged, shutdown, told, asked, failed>>
       \/ End(Peer(p), TRUE) /\ UNCHANGED exchange
    /\ UNCHANGED ack

\* The dialog layer: 481, or before the INVITE has arrived.
NoDialog(p) ==
    \E m \in Methods \ {"INVITE"} :
      /\ exchange[p][m] = "sent" /\ state[Peer(p)] \in {"Started", "Terminated"}
      /\ Put(p, m, "3456")
      /\ UNCHANGED <<timers, state, life, challenged, armed, shutdown, told, ack, asked, failed>>

Connected_2_Connected_X_iACK ==
    /\ ack = "sent" /\ Alive("callee") /\ ack' = "got"
    /\ UNCHANGED <<timers, state, life, challenged, armed, shutdown, told, exchange, asked, failed>>

-----------------------------------------------------------------------------
(***************************************************************************)
(* The session timers.  The interval is of 90 seconds at least, and the    *)
(* refresher's timer runs out in half of it: the ACK has arrived, or was   *)
(* given up, before, and what the refresh has come to is known before the  *)
(* other's timer runs out.                                                 *)
(***************************************************************************)
Refreshing(p) == Alive(p) /\ (armed[p] \/ exchange[p]["REFRESH"] # "idle")

RunsOut(p) == /\ armed[p] /\ armed' = [armed EXCEPT ![p] = FALSE]
              /\ ack = "got" \/ state["callee"] = "Terminated"

Connected_2_Connected_X_timerRefresh(p) ==
    /\ RunsOut(p) /\ timers = p
    /\ IF state[p] = "Connected" THEN Send(p, "REFRESH") ELSE UNCHANGED exchange
    /\ UNCHANGED <<timers, state, life, challenged, shutdown, told, ack, asked, failed>>

\* The application is not told that the session is over.
Connected_2_Trying_X_timerRefresh(p) ==
    /\ RunsOut(p) /\ timers = Peer(p) /\ ~Refreshing(Peer(p))
    /\ IF state[p] = "Connected" THEN Send(p, "BYE") /\ Goto(p, "Trying")
       ELSE UNCHANGED <<exchange, state>>
    /\ UNCHANGED <<timers, life, challenged, shutdown, told, ack, asked, failed>>

-----------------------------------------------------------------------------
(***************************************************************************)
(* The network and the transactions.                                       *)
(***************************************************************************)
\* A request is not answered in time: tsip_dialog_timedout.
TimesOut(p) ==
    /\ \E m \in Methods : Receive(p, m, "sent")
    /\ End(p, TRUE)
    /\ UNCHANGED <<exchange, ack>>

\* The stream is closed.
Any_2_Terminated_X_transportError(p) ==
    /\ Alive(p)
    /\ End(p, TRUE)
    /\ UNCHANGED <<exchange, ack>>

\* The server transaction of the INVITE gives up waiting for the ACK.
AckMissing ==
    /\ ack \in {"awaited", "sent"} /\ Alive("callee")
    /\ End("callee", TRUE)
    /\ UNCHANGED <<exchange, ack>>

\* The ACK is lost: the 2xx is repeated.
AckLost ==
    /\ ack = "sent" /\ Alive("callee")
    /\ ack' = "awaited" /\ Put("caller", "INVITE", "2xx")
    /\ UNCHANGED <<timers, state, life, challenged, armed, shutdown, told, asked, failed>>

\* A proxy challenges a request before it reaches the peer.
Challenge(p) ==
    \E m \in {"INVITE", "REFRESH", "BYE"} :
      /\ Receive(p, m, "sent")
      /\ Put(p, m, "401")
      /\ UNCHANGED <<timers, state, life, challenged, armed, shutdown, told, ack, asked, failed>>

\* A response of a dialog that is no more was sent once.  A request but the
\* INVITE is repeated then; an INVITE that was answered provisionally is not.
Lose(p) ==
    \E m \in Methods :
      /\ exchange[p][m] \in Final /\ state[Peer(p)] = "Terminated"
      /\ Put(p, m, IF m = "INVITE" THEN "lost" ELSE "sent")
      /\ UNCHANGED <<timers, state, life, challenged, armed, shutdown, told, ack, asked, failed>>

\* The requests of a dialog that is no more are not repeated, nor the answers heard.
Gone(p) ==
    \E m \in Methods :
      /\ state[p] = "Terminated" /\ exchange[p][m] \notin {"idle", "held"}
      /\ Put(p, m, "idle")
      /\ UNCHANGED <<timers, state, life, challenged, armed, shutdown, told, ack, asked, failed>>

-----------------------------------------------------------------------------
Application == \/ Started_2_Outgoing_X_oINVITE
               \/ Ringing_2_Connected_X_Accept
               \/ Ringing_2_Terminated_X_Reject
               \/ Outgoing_2_Cancelling_X_oCANCEL
               \/ \E p \in Sides : Any_2_Trying_X_oBYE(p) \/ Any_2_Trying_X_shutdown(p)

Response(p) == \/ /\ p = "caller"
                  /\ \/ Outgoing_2_Connected_X_i2xxINVITE
                     \/ Any_2_Any_X_i2xxINVITE
                     \/ Outgoing_2_Terminated_X_i300_to_i699INVITE
                     \/ Cancelling_2_Cancelling_X_i2xx
                     \/ Cancelling_2_Terminated_X_i300_to_699
               \/ Any_2_Any_X_i2xxUPDATE(p) \/ UnusableAnswer(p)
               \/ Any_2_Any_X_i401_407_Challenge(p)
               \/ Any_2_Terminated_X_2xxTOi6xxBYE(p)
               \/ RefusedRefresh(p)

Request(p) == \/ /\ p = "caller"
                 /\ \/ Started_2_Ringing_X_iINVITE
                    \/ Started_2_Terminated_X_iINVITE
                    \/ Ringing_2_Terminated_X_iCANCEL
              \/ Any_2_Terminated_X_iBYE(p)
              \/ Connected_2_Connected_X_iINVITEorUPDATE(p)
              \/ NoDialog(p)

SessionTimer(p) == Connected_2_Connected_X_timerRefresh(p) \/ Connected_2_Trying_X_timerRefresh(p)

Next == \/ Application
        \/ Any_2_Any_X_i1xx \/ Connected_2_Connected_X_iACK \/ AckMissing \/ AckLost
        \/ \E p \in Sides :
             \/ Response(p) \/ Request(p) \/ SessionTimer(p) \/ shutdown_timedout(p)
             \/ TimesOut(p) \/ Any_2_Terminated_X_transportError(p)
             \/ Challenge(p) \/ Lose(p) \/ Gone(p)

Spec == Init /\ [][Next]_vars

(***************************************************************************)
(* The timer manager's threads run; a transaction that repeats a request   *)
(* gets an answer in the end, or gives up.                                 *)
(***************************************************************************)
FairSpec == /\ Spec
            /\ WF_vars(AckMissing)
            /\ \A p \in Sides : /\ WF_vars(TimesOut(p)) /\ SF_vars(Response(p))
                                /\ WF_vars(SessionTimer(p)) /\ WF_vars(shutdown_timedout(p))

-----------------------------------------------------------------------------
(***************************************************************************)
(* Properties.                                                             *)
(***************************************************************************)

CallerLife == INSTANCE DialogLife WITH told <- told["caller"], Repeats <- TRUE
CalleeLife == INSTANCE DialogLife WITH told <- told["callee"], Repeats <- TRUE

\* The FSMs are in their states and the bookkeeping is well typed.
TypeOK == /\ timers \in Sides \cup {"nobody"}
          /\ state \in [Sides -> States]
          /\ life \in [Sides -> {"initial", "early", "established"}]
          /\ challenged \in [Sides -> BOOLEAN] /\ armed \in [Sides -> BOOLEAN]
          /\ shutdown \in [Sides -> BOOLEAN]
          /\ told \in [Sides -> Seq({"connecting", "connected", "terminating", "terminated"})]
          /\ exchange \in [Sides -> [Methods -> Progress]]
          /\ ack \in {"none", "awaited", "sent", "got"}
          /\ asked \in [Sides -> BOOLEAN] /\ failed \in [Sides -> BOOLEAN]

\* The caller is told that it is connected only after the callee was, however
\* the 2xx and the ACK are lost and repeated and whatever crosses them.
ConnectedTogether == Told("caller", "connected") => Told("callee", "connected")

\* Once both were told that they are connected, one that ends in order takes
\* the other with it: whoever hangs up, on one side or on both at once, and
\* whatever answer is lost.
EndsTogether ==
    \A p \in Sides :
      (state[p] = "Terminated" /\ ~failed[p] /\ Told("caller", "connected") /\ Told("callee", "connected"))
        ~> state[Peer(p)] = "Terminated"

\* Whoever hangs up is over in the end, however the CANCEL crosses the answer of
\* the callee, and a shutdown ends a call that nobody answers; unless the
\* response to a cancelled INVITE is lost, which nothing repeats.
HangupEnds ==
    \A p \in Sides : asked[p] ~> state[p] = "Terminated" \/ exchange["caller"]["INVITE"] = "lost"

\* Session timers: who does not refresh a session notices that its peer is gone.
\* (Who does refresh it does not.)
SessionTimerEnds ==
    \A p \in Sides :
      (state[p] = "Connected" /\ timers = Peer(p) /\ state[Peer(p)] = "Terminated")
        ~> state[p] = "Terminated"

\* The events each application gets are those of one life, however often it hangs
\* up, is shut down, or is hung up on meanwhile.
ImplementsDialogLife == CallerLife!Spec /\ CalleeLife!Spec
=============================================================================
