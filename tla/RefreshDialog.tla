------------------------------ MODULE RefreshDialog ------------------------------
(***************************************************************************)
(* The dialogs that keep something alive at a server by asking for it      *)
(* again in time: a registration, a subscription or a publication          *)
(* (tsip_dialog_register.c, tsip_dialog_register.client.c,                 *)
(* tsip_dialog_subscribe.client.c, tsip_dialog_publish.client.c), with the *)
(* server that grants it for a while.  The three machines have the same    *)
(* shape; the names are those of the REGISTER dialog.                      *)
(*                                                                         *)
(* Every handler runs under the lock of the dialog.  The transaction that  *)
(* carries a request repeats it until it is answered or reports a timeout; *)
(* a transaction is always created.  Time passes in ticks: a due timer     *)
(* fires, and a message the server has sent arrives, within one.           *)
(* tsip_dialog_canceled is left out: no transaction ever reports it.  A    *)
(* refresh timer whose id was overwritten fires in vain.                   *)
(*                                                                         *)
(* The delay of a refresh is computed from what the message grants, or, if *)
(* it does not say (no Expires, no Contact the stack knows as its own, no  *)
(* expires in Subscription-State), from what the session has asked for.    *)
(***************************************************************************)
EXTENDS Integers, Sequences

CONSTANTS Leases,           \* the times a server may grant
          Wanted,           \* the time the session asks for
          MinExpires,       \* what a server grants at least, or answers 423
          LongLease,        \* 1200 seconds in the code
          Margin,           \* 600 seconds in the code
          ShutdownTimeout   \* TSIP_DIALOG_SHUTDOWN_TIMEOUT

ASSUME LeasesAssumption == /\ Leases \subseteq Nat \ {0}
                           /\ Wanted \in Nat \ {0} /\ MinExpires \in Nat \ {0}
ASSUME DelayAssumption == /\ LongLease \in Nat /\ Margin \in 1..LongLease
                          /\ ShutdownTimeout \in Nat

VARIABLES kind,        \* REGISTER, SUBSCRIBE or PUBLISH
          silent,      \* ss->silent_hangup
          state,       \* fsm->current
          life,        \* TSIP_DIALOG(self)->state
          removing,    \* unregistering, unsubscribing, unpublishing
          challenged,  \* there is a challenge on the list
          expires,     \* what the next request asks for
          refresh,     \* time left on timerrefresh, Off if it is not pending
          shutdown,    \* time left on timershutdown
          told,        \* dialog events told to the application
          wire,        \* the request, or the answer to it, that is under way
          value,       \* the expiry in it
          lease,       \* how long the server will keep what it granted
          cut,         \* the server ended it before that
          blind        \* the refresh timer is not one for the time that is left

dialogVars == <<kind, silent, state, life, removing, challenged, expires, refresh, shutdown, told>>
serverVars == <<lease, cut>>
vars == <<dialogVars, wire, value, serverVars, blind>>

Kinds == {"REGISTER", "SUBSCRIBE", "PUBLISH"}
States == {"Started", "InProgress", "Connected", "Terminated"}
Answers == {"2xx", "401", "stale", "423", "423 without Min-Expires", "error"}
Off == -1

-----------------------------------------------------------------------------
\* Mutant: the refresh is sent when the lease ends.
Mutant_NewDelay(e) == e

\* When to ask again for what was granted for e.
NewDelay(e) == IF e > LongLease THEN e - Margin ELSE e \div 2

\* TSIP_DIALOG_TIMER_SCHEDULE: the timer is on the manager's list before its id
\* is stored.  One of length zero may call back in between: nobody knows it then.
Scheduled(delay) == IF delay = 0 THEN {0, Off} ELSE {delay}

\* Start the refresh timer for time e while the server keeps what it granted for
\* a time left: blind if it has less to give, or if the timer is lost.
Schedule(e, left) == \E d \in Scheduled(NewDelay(e)) :
                        refresh' = d /\ blind' = (left < e \/ d = Off)

Init == /\ kind \in Kinds /\ silent \in BOOLEAN
        /\ state = "Started" /\ life = "initial" /\ told = <<>>
        /\ removing = FALSE /\ challenged = FALSE /\ expires = Wanted
        /\ refresh = Off /\ shutdown = Off
        /\ wire = "idle" /\ value = 0
        /\ lease = 0 /\ cut = FALSE /\ blind = FALSE

\* Mutant: a removal asks for what the session wants.
Mutant_Ask == /\ state' = "InProgress" /\ wire' = "request"
              /\ value' = expires /\ UNCHANGED expires

\* send_REGISTER, from a handler that has updated removing.
Ask == /\ state' = "InProgress" /\ wire' = "request"
       /\ expires' = IF removing' THEN 0 ELSE expires
       /\ value' = expires'

\* The FSM ended: OnTerminated, and the destructor cancels the timers.
End == /\ state' = "Terminated" /\ told' = Append(told, "terminated")
       /\ removing' = IF kind = "REGISTER" THEN FALSE ELSE removing
       /\ refresh' = Off /\ shutdown' = Off
       /\ UNCHANGED <<kind, silent, life, challenged, expires>>

-----------------------------------------------------------------------------
Started_2_InProgress_X_oRegister ==
    /\ state = "Started"
    /\ told' = Append(told, "connecting")
    /\ UNCHANGED removing /\ Ask
    /\ UNCHANGED <<kind, silent, life, challenged, refresh, shutdown, serverVars, blind>>

\* The application asks again, before the timer does.
Connected_2_InProgress_X_oRegister ==
    /\ state = "Connected"
    /\ UNCHANGED removing /\ Ask
    /\ UNCHANGED <<kind, silent, life, challenged, refresh, shutdown, told, serverVars, blind>>

\* The refresh timer; "No matching state found" while a request is under way.
TimerRefresh ==
    /\ refresh = 0 /\ refresh' = Off
    /\ IF state = "Connected" THEN UNCHANGED removing /\ Ask
       ELSE UNCHANGED <<removing, state, expires, wire, value>>
    /\ UNCHANGED <<kind, silent, life, challenged, shutdown, told, serverVars, blind>>

-----------------------------------------------------------------------------
(***************************************************************************)
(* Responses.                                                              *)
(***************************************************************************)
Receive(answer) == state = "InProgress" /\ wire = answer

\* A provisional response, with a To tag or not: the REGISTER dialog becomes early.
InProgress_2_InProgress_X_1xx ==
    /\ Receive("request")
    /\ kind = "REGISTER" /\ life' = "early"
    /\ UNCHANGED <<kind, silent, state, removing, challenged, expires, refresh, shutdown, told,
                   wire, value, serverVars, blind>>

InProgress_2_Terminated_X_2xx ==
    /\ Receive("2xx") /\ removing
    /\ wire' = "idle" /\ End
    /\ UNCHANGED <<value, serverVars, blind>>

\* Mutant: connected is told on every refresh.
Mutant_InProgress_2_Connected_X_2xx ==
    /\ Receive("2xx") /\ ~removing
    /\ state' = "Connected" /\ life' = "established"
    /\ told' = Append(told, "connected")
    /\ \E e \in {value, expires} : Schedule(e, value)
    /\ wire' = "idle"
    /\ UNCHANGED <<kind, silent, removing, challenged, expires, shutdown, value, serverVars>>

\* first_time_to_connect is read before the dialog's state is updated.  The answer
\* tells what was granted, or leaves the dialog with what it asked for.
InProgress_2_Connected_X_2xx ==
    /\ Receive("2xx") /\ ~removing
    /\ state' = "Connected" /\ life' = "established"
    /\ told' = IF life = "initial" THEN Append(told, "connected") ELSE told
    /\ \E e \in {value, expires} : Schedule(e, value)
    /\ wire' = "idle"
    /\ UNCHANGED <<kind, silent, removing, challenged, expires, shutdown, value, serverVars>>

\* A further challenge must be stale, unless a registration is established.
InProgress_2_InProgress_X_401_407_421_494 ==
    \E answer \in {"401", "stale"} :
      /\ Receive(answer)
      /\ IF challenged => answer = "stale" \/ (kind = "REGISTER" /\ life = "established")
         THEN /\ challenged' = TRUE /\ UNCHANGED removing /\ Ask
              /\ UNCHANGED <<kind, silent, life, refresh, shutdown, told>>
         ELSE wire' = "idle" /\ End /\ UNCHANGED value
      /\ UNCHANGED <<serverVars, blind>>

InProgress_2_InProgress_X_423 ==
    /\ Receive("423")
    /\ state' = "InProgress" /\ wire' = "request"
    /\ expires' = IF removing THEN 0 ELSE value
    /\ value' = expires'
    /\ UNCHANGED <<kind, silent, life, removing, challenged, refresh, shutdown, told, serverVars, blind>>

\* Any other answer, and a 423 that does not say what would do.
Any_2_Terminated_X_Error ==
    /\ Receive("error") \/ Receive("423 without Min-Expires")
    /\ wire' = "idle" /\ End
    /\ UNCHANGED <<value, serverVars, blind>>

-----------------------------------------------------------------------------
(***************************************************************************)
(* The application hangs up, the stack shuts down, the transport fails.    *)
(***************************************************************************)
Ignores == state = "Started" /\ kind # "REGISTER"

\* "Started -> (Any) -> Started", except for a REGISTER dialog.
Removable == ~silent /\ (state = "Connected" \/ (state = "Started" /\ ~Ignores))

Any_2_InProgress_X_hangup ==
    /\ Removable
    /\ told' = Append(told, "terminating")
    /\ removing' = TRUE /\ Ask
    /\ UNCHANGED <<kind, silent, life, challenged, refresh, shutdown, serverVars, blind>>

Any_2_InProgress_X_shutdown ==
    /\ Removable
    /\ shutdown' = ShutdownTimeout
    /\ told' = Append(told, "terminating")
    /\ removing' = TRUE /\ Ask
    /\ UNCHANGED <<kind, silent, life, challenged, refresh, serverVars, blind>>

\* While a request is under way, a hangup or a shutdown does not send another.
InProgress_2_Terminated_X_hangup ==
    /\ state = "InProgress" \/ (silent /\ ~Ignores /\ state # "Terminated")
    /\ End
    /\ UNCHANGED <<wire, value, serverVars, blind>>

\* Mutant: the dialog stays.
Mutant_shutdown_timedout ==
    /\ shutdown = 0 /\ shutdown' = Off
    /\ UNCHANGED <<kind, silent, state, life, removing, challenged, expires, refresh, told,
                   wire, value, serverVars, blind>>

\* For a publication the timer raises the error event instead.
Any_2_Terminated_X_shutdown_timedout ==
    /\ shutdown = 0
    /\ End
    /\ UNCHANGED <<wire, value, serverVars, blind>>

\* The transaction timed out, or the stream the session uses is closed.
Any_2_Terminated_X_transportError ==
    /\ state # "Terminated" /\ ~Ignores
    /\ End
    /\ UNCHANGED <<wire, value, serverVars, blind>>

-----------------------------------------------------------------------------
(***************************************************************************)
(* NOTIFY requests: every one of them schedules the refresh anew.          *)
(***************************************************************************)
Notified(e, left) ==
    /\ kind = "SUBSCRIBE" /\ state \in {"InProgress", "Connected"}
    /\ Schedule(e, left)
    /\ UNCHANGED <<kind, silent, state, life, removing, challenged, expires, shutdown, told,
                   wire, value>>

\* What is left of the subscription is in Subscription-State.
Connected_2_Connected_X_NOTIFY ==
    /\ lease > 0
    /\ Notified(lease, lease)
    /\ UNCHANGED serverVars

\* It is not: the delay is that of the time the session asked for.
BlindNotify ==
    /\ lease > 0
    /\ Notified(expires, lease)
    /\ UNCHANGED serverVars

\* The server ends the subscription; while a request is under way, this is a
\* NOTIFY as any other.
NotifyTerminated ==
    /\ lease > 0 /\ lease' = 0 /\ cut' = TRUE
    /\ kind = "SUBSCRIBE"
    /\ \/ state = "Connected" /\ End /\ UNCHANGED <<wire, value, blind>>
       \/ state = "InProgress" /\ Notified(expires, 0)

-----------------------------------------------------------------------------
(***************************************************************************)
(* The server, and time.                                                   *)
(***************************************************************************)
Due == 0 \in {refresh, shutdown}

\* An answer takes longer than a timer that is due.
Asked == wire = "request" /\ ~Due

Grant == /\ Asked /\ wire' = "2xx"
         /\ IF value = 0 THEN lease' = 0 ELSE lease' \in Leases
         /\ value' = lease' /\ cut' = FALSE
         /\ UNCHANGED <<dialogVars, blind>>

TooBrief == /\ Asked /\ value \in 1..(MinExpires - 1)
            /\ wire' \in {"423", "423 without Min-Expires"} /\ value' = MinExpires
            /\ UNCHANGED <<dialogVars, serverVars, blind>>

Refuse == /\ Asked /\ wire' \in {"401", "stale", "error"}
          /\ UNCHANGED <<dialogVars, value, serverVars, blind>>

\* The transaction went with its dialog.
Unheard == /\ state = "Terminated" /\ wire \in Answers /\ wire' = "idle"
           /\ UNCHANGED <<dialogVars, value, serverVars, blind>>

Older(timer) == IF timer > 0 THEN timer - 1 ELSE timer

Tick == /\ ~Due /\ wire \notin Answers
        /\ refresh' = Older(refresh) /\ shutdown' = Older(shutdown) /\ lease' = Older(lease)
        /\ UNCHANGED <<kind, silent, state, life, removing, challenged, expires, told,
                       wire, value, cut, blind>>

-----------------------------------------------------------------------------
Response == \/ InProgress_2_InProgress_X_1xx
            \/ InProgress_2_Terminated_X_2xx
            \/ InProgress_2_Connected_X_2xx
            \/ InProgress_2_InProgress_X_401_407_421_494
            \/ InProgress_2_InProgress_X_423
            \/ Any_2_Terminated_X_Error

Application == \/ Started_2_InProgress_X_oRegister
               \/ Connected_2_InProgress_X_oRegister
               \/ Any_2_InProgress_X_hangup
               \/ Any_2_InProgress_X_shutdown
               \/ InProgress_2_Terminated_X_hangup

Timer == TimerRefresh \/ Any_2_Terminated_X_shutdown_timedout

Notify == Connected_2_Connected_X_NOTIFY \/ BlindNotify \/ NotifyTerminated

Server == Grant \/ TooBrief \/ Refuse \/ Unheard

Next == \/ Application \/ Response \/ Timer \/ Notify
        \/ Any_2_Terminated_X_transportError
        \/ Server \/ Tick

Spec == Init /\ [][Next]_vars

(***************************************************************************)
(* The timer manager's threads run, what was sent arrives, and time passes *)
(* whatever the peers do meanwhile.  Nothing obliges the server to answer. *)
(***************************************************************************)
FairSpec == /\ Spec
            /\ WF_vars(TimerRefresh) /\ WF_vars(Any_2_Terminated_X_shutdown_timedout)
            /\ WF_vars(Response) /\ WF_vars(Unheard)
            /\ SF_vars(Tick)

-----------------------------------------------------------------------------
(***************************************************************************)
(* Properties.                                                             *)
(***************************************************************************)

Life == INSTANCE DialogLife WITH told <- told, Repeats <- FALSE

\* The FSM is in one of its states and the bookkeeping is well typed.
TypeOK == /\ kind \in Kinds /\ silent \in BOOLEAN /\ state \in States
          /\ life \in {"initial", "early", "established"}
          /\ removing \in BOOLEAN /\ challenged \in BOOLEAN /\ expires \in Nat
          /\ refresh \in Nat \cup {Off} /\ shutdown \in Nat \cup {Off}
          /\ told \in Seq(Life!Events)
          /\ wire \in {"idle", "request"} \cup Answers
          /\ value \in Nat /\ lease \in Nat /\ cut \in BOOLEAN /\ blind \in BOOLEAN

\* What a connected dialog holds, it asks for again before it is gone: however
\* often the server notifies and whoever asks in between, the refresh timer the
\* dialog knows is pending and runs out before the lease does - if the 2xx or the
\* NOTIFY that started it said how long the lease is, or the lease was no shorter
\* than what was asked for, and if the timer was not lost at length zero.
RefreshInTime ==
    state = "Connected" /\ ~cut /\ ~blind => refresh # Off /\ refresh < lease

\* Once the application was told that the dialog is terminating, no request of
\* the dialog makes the server hold on to it: not a challenge answered late, not
\* a refresh timer that was still pending.
NoRevival == [][Life!Saying("terminating") => lease' <= lease]_vars

\* A dialog that was asked to remove itself when the stack shuts down is over
\* in the end, even if the server never answers or challenges for ever.
ShutdownEnds == shutdown # Off ~> state = "Terminated"

\* The events the application gets are those of one life.
ImplementsDialogLife == Life!Spec
=============================================================================
