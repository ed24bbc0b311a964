-------------------------- MODULE RefreshDialogProofs --------------------------
(***************************************************************************)
(* Theorems about the dialogs that refresh, for every set of leases, every *)
(* wish of the session and every threshold of the delay.  What is asked    *)
(* for, what is granted and what the timer waits for are tied together by  *)
(* the state of the dialog and of the wire (LeaseInv); what the            *)
(* application was told, by the state and by removing (ToldInv).           *)
(***************************************************************************)
EXTENDS RefreshDialog, SequenceTheorems, TLAPS

\* A dialog that is not being removed asks for something, and an answer that
\* grants it says how much, until the server ends it.
LeaseInv ==
    /\ ~removing /\ state # "Terminated" => expires > 0
    /\ ~removing /\ state = "InProgress" =>
          /\ wire \in {"request", "423"} => value > 0
          /\ wire = "2xx" /\ ~cut => value = lease /\ lease > 0
    /\ state \in {"Started", "Connected"} => wire = "idle"
    /\ state = "Connected" => ~removing
    /\ RefreshInTime

\* Once the application was told that the dialog is terminating, only removals
\* are under way.
ToldInv ==
    /\ state \in {"Started", "Connected"} => ~removing
    /\ state = "Started" => told = <<>> /\ life = "initial" /\ shutdown = Off /\ refresh = Off
    /\ state = "Connected" => life = "established"
    /\ state = "InProgress" /\ life = "initial" /\ ~removing => told = <<"connecting">>
    /\ Life!Saying("terminating") =>
          /\ state # "Terminated" => removing
          /\ wire = "request" => value = 0
    /\ Life!Saying("terminated") => state = "Terminated"
    /\ state = "Terminated" => shutdown = Off /\ refresh = Off

-----------------------------------------------------------------------------
\* What may be granted, and what is granted at least, is something.
LEMMA Positive ==
    /\ MinExpires \in Nat /\ MinExpires > 0
    /\ \A time \in Leases : time \in Nat /\ time > 0
  <1>1. MinExpires \in Nat /\ MinExpires # 0
    BY LeasesAssumption
  <1>2. \A time \in Leases : time \in Nat /\ time # 0
    BY LeasesAssumption
  <1> QED BY <1>1, <1>2

\* The delay is a number, and it is over before what was granted is.
LEMMA DelayShorter ==
    ASSUME NEW e \in Nat
    PROVE  NewDelay(e) \in Nat /\ (e > 0 => NewDelay(e) < e)
  BY DelayAssumption DEF NewDelay

\* A refresh timer that is started, not blindly, is over before what is left is.
LEMMA Starts ==
    ASSUME NEW e \in Nat, NEW left \in Nat, Schedule(e, left)
    PROVE  /\ refresh' \in Nat \cup {Off} /\ blind' \in BOOLEAN
           /\ ~blind' /\ e > 0 => refresh' # Off /\ refresh' < left
  <1>1. PICK d \in Scheduled(NewDelay(e)) : refresh' = d /\ blind' = (left < e \/ d = Off)
    BY DEF Schedule
  <1>2. d = NewDelay(e) \/ d = Off
    BY DEF Scheduled
  <1>3. NewDelay(e) \in Nat /\ (e > 0 => NewDelay(e) < e)
    BY DelayShorter
  <1>4. blind' \in BOOLEAN /\ (~blind' => ~(left < e) /\ d # Off)
    BY <1>1, Zenon
  <1>5. d \in Nat \cup {Off}
    BY <1>2, <1>3
  <1>6. ASSUME ~(left < e), d # Off, e > 0 PROVE d < left
    BY <1>2, <1>3, <1>6
  <1> QED BY <1>1, <1>4, <1>5, <1>6

\* What was told stays told, and the new event is told.
LEMMA AppendSays ==
    ASSUME NEW S, NEW s \in Seq(S), NEW e \in S, NEW x
    PROVE  /\ Append(s, e) \in Seq(S)
           /\ (\E i \in DOMAIN Append(s, e) : Append(s, e)[i] = x)
                <=> (x = e \/ \E i \in DOMAIN s : s[i] = x)
  <1>1. /\ Append(s, e) \in Seq(S) /\ Len(s) \in Nat /\ DOMAIN s = 1..Len(s)
        /\ DOMAIN Append(s, e) = 1..(Len(s) + 1)
        /\ Append(s, e)[Len(s) + 1] = e
        /\ \A i \in 1..Len(s) : Append(s, e)[i] = s[i]
    OBVIOUS
  <1>2. ASSUME x = e
        PROVE  \E i \in DOMAIN Append(s, e) : Append(s, e)[i] = x
    BY <1>1, <1>2
  <1>3. ASSUME NEW i \in DOMAIN s, s[i] = x
        PROVE  \E j \in DOMAIN Append(s, e) : Append(s, e)[j] = x
    BY <1>1, <1>3
  <1>4. ASSUME NEW i \in DOMAIN Append(s, e), Append(s, e)[i] = x
        PROVE  x = e \/ \E j \in DOMAIN s : s[j] = x
    BY <1>1, <1>4
  <1> QED BY <1>1, <1>2, <1>3, <1>4

\* The type invariant holds initially.
LEMMA TypeInit == Init => TypeOK
  <1> SUFFICES ASSUME Init PROVE TypeOK
    OBVIOUS
  <1>1. <<>> \in Seq(Life!Events)
    BY EmptySeq
  <1>2. /\ told \in Seq(Life!Events) /\ kind \in Kinds /\ silent \in BOOLEAN
        /\ refresh \in Nat \cup {Off} /\ shutdown \in Nat \cup {Off}
        /\ wire \in {"idle", "request"} \cup Answers
    BY <1>1 DEF Init
  <1>3. /\ state \in States /\ life \in {"initial", "early", "established"}
        /\ removing \in BOOLEAN /\ challenged \in BOOLEAN /\ cut \in BOOLEAN
        /\ blind \in BOOLEAN
    BY DEF Init, States
  <1>4. expires \in Nat /\ value \in Nat /\ lease \in Nat
    BY LeasesAssumption DEF Init
  <1> QED BY <1>2, <1>3, <1>4 DEF TypeOK

\* Every event that is told is one of the four.
LEMMA ToldStep == TypeOK /\ [Next]_vars => told' \in Seq(Life!Events)
  <1> SUFFICES ASSUME TypeOK, [Next]_vars PROVE told' \in Seq(Life!Events)
    OBVIOUS
  <1>a. \A e \in {"connecting", "connected", "terminating", "terminated"} :
          Append(told, e) \in Seq(Life!Events)
    BY AppendSays DEF TypeOK, Life!Events
  <1>1. \/ UNCHANGED told
        \/ \E e \in {"connecting", "connected", "terminating", "terminated"} :
             told' = Append(told, e)
    <2>1. CASE Application
      BY <2>1
      DEF Application, Started_2_InProgress_X_oRegister, Connected_2_InProgress_X_oRegister,
          Any_2_InProgress_X_hangup, Any_2_InProgress_X_shutdown,
          InProgress_2_Terminated_X_hangup, End
    <2>2. CASE Response
      BY <2>2
      DEF Response, InProgress_2_InProgress_X_1xx, InProgress_2_Terminated_X_2xx,
          InProgress_2_Connected_X_2xx, InProgress_2_InProgress_X_401_407_421_494,
          InProgress_2_InProgress_X_423, Any_2_Terminated_X_Error, End
    <2>3. CASE Timer \/ Any_2_Terminated_X_transportError \/ Notify
      BY <2>3
      DEF Timer, TimerRefresh, Any_2_Terminated_X_shutdown_timedout,
          Any_2_Terminated_X_transportError, Notify, Connected_2_Connected_X_NOTIFY,
          BlindNotify, NotifyTerminated, Notified, End
    <2>4. CASE Server \/ Tick \/ UNCHANGED vars
      BY <2>4 DEF Server, Grant, TooBrief, Refuse, Unheard, Tick, vars, dialogVars
    <2> QED BY <2>1, <2>2, <2>3, <2>4 DEF Next
  <1> QED BY <1>a, <1>1 DEF TypeOK

\* What the end of the FSM and what a new request leave behind is well typed.
LEMMA EndTypes ==
    TypeOK /\ End => /\ kind' \in Kinds /\ silent' \in BOOLEAN /\ state' \in States
                     /\ life' \in {"initial", "early", "established"}
                     /\ removing' \in BOOLEAN /\ challenged' \in BOOLEAN /\ expires' \in Nat
                     /\ refresh' \in Nat \cup {Off} /\ shutdown' \in Nat \cup {Off}
  BY DEF TypeOK, End, States

LEMMA AskTypes ==
    TypeOK /\ Ask => /\ state' \in States /\ wire' \in {"idle", "request"} \cup Answers
                     /\ expires' \in Nat /\ value' \in Nat
  BY DEF TypeOK, Ask, States

\* The type invariant is inductive.
LEMMA TypeStep == TypeOK /\ [Next]_vars => TypeOK'
  <1> SUFFICES ASSUME TypeOK, [Next]_vars PROVE TypeOK'
    OBVIOUS
  <1>t. told' \in Seq(Life!Events)
    BY ToldStep
  <1>n. ASSUME NEW e \in {value, lease, expires}, NEW left \in {value, lease, 0}, Schedule(e, left)
        PROVE  refresh' \in Nat \cup {Off} /\ blind' \in BOOLEAN
    <2>1. e \in Nat /\ left \in Nat
      BY DEF TypeOK
    <2> QED BY <1>n, <2>1, Starts
  <1>s. {"InProgress", "Connected"} \subseteq States
    BY DEF States
  <1>w. {"idle", "request", "2xx", "401", "stale", "error", "423", "423 without Min-Expires"}
           \subseteq {"idle", "request"} \cup Answers
    BY DEF Answers
  <1> USE <1>t DEF TypeOK
  <1>1. CASE Started_2_InProgress_X_oRegister \/ Connected_2_InProgress_X_oRegister
    BY <1>1, AskTypes
    DEF Started_2_InProgress_X_oRegister, Connected_2_InProgress_X_oRegister, serverVars
  <1>2. CASE Any_2_InProgress_X_hangup \/ Any_2_InProgress_X_shutdown
    BY <1>2, AskTypes, DelayAssumption
    DEF Any_2_InProgress_X_hangup, Any_2_InProgress_X_shutdown, serverVars
  <1>3. CASE \/ InProgress_2_Terminated_X_hangup
             \/ Any_2_Terminated_X_shutdown_timedout \/ Any_2_Terminated_X_transportError
    BY <1>3, EndTypes
    DEF InProgress_2_Terminated_X_hangup, Any_2_Terminated_X_shutdown_timedout,
        Any_2_Terminated_X_transportError, serverVars
  <1>4. CASE InProgress_2_InProgress_X_1xx
    BY <1>4 DEF InProgress_2_InProgress_X_1xx, serverVars
  <1>5. CASE InProgress_2_Terminated_X_2xx \/ Any_2_Terminated_X_Error
    BY <1>5, <1>w, EndTypes
    DEF InProgress_2_Terminated_X_2xx, Any_2_Terminated_X_Error, serverVars
  <1>6. CASE InProgress_2_Connected_X_2xx
    BY <1>6, <1>n, <1>s, <1>w DEF InProgress_2_Connected_X_2xx, serverVars
  <1>7. CASE InProgress_2_InProgress_X_401_407_421_494
    <2>1. \/ challenged' = TRUE /\ UNCHANGED removing /\ Ask
             /\ UNCHANGED <<kind, silent, life, refresh, shutdown, told>>
          \/ wire' = "idle" /\ End /\ UNCHANGED value
      BY <1>7 DEF InProgress_2_InProgress_X_401_407_421_494
    <2>2. UNCHANGED <<lease, cut, blind>>
      BY <1>7 DEF InProgress_2_InProgress_X_401_407_421_494, serverVars
    <2> QED BY <2>1, <2>2, <1>w, AskTypes, EndTypes
  <1>8. CASE InProgress_2_InProgress_X_423
    BY <1>8, <1>s, <1>w DEF InProgress_2_InProgress_X_423, serverVars
  <1>9. CASE TimerRefresh
    BY <1>9, AskTypes DEF TimerRefresh, serverVars, Off
  <1>10. CASE Notify
    <2>1. CASE Connected_2_Connected_X_NOTIFY \/ BlindNotify
      BY <2>1, <1>n DEF Connected_2_Connected_X_NOTIFY, BlindNotify, Notified, serverVars
    <2>2. CASE NotifyTerminated /\ state = "Connected"
      BY <2>2, EndTypes DEF NotifyTerminated
    <2>3. CASE NotifyTerminated /\ state = "InProgress"
      BY <2>3, <1>n DEF NotifyTerminated, Notified
    <2> QED BY <1>10, <2>1, <2>2, <2>3 DEF Notify, NotifyTerminated
  <1>11. CASE Server
    BY <1>11, <1>w, LeasesAssumption
    DEF Server, Grant, TooBrief, Refuse, Unheard, Asked, dialogVars, serverVars
  <1>12. CASE Tick
    BY <1>12 DEF Tick, Older, Due, Off
  <1>13. CASE UNCHANGED vars
    BY <1>13 DEF vars, dialogVars, serverVars
  <1> QED
    BY <1>1, <1>2, <1>3, <1>4, <1>5, <1>6, <1>7, <1>8, <1>9, <1>10, <1>11, <1>12, <1>13
    DEF Next, Application, Response, Timer

\* The types are right in every state, whatever is granted and for how long.
THEOREM TypeCorrect == Spec => []TypeOK
  BY TypeInit, TypeStep, PTL DEF Spec

-----------------------------------------------------------------------------
\* What is asked for, granted and waited for stays tied together.
LEMMA LeaseStep == TypeOK /\ LeaseInv /\ [Next]_vars => LeaseInv'
  <1> SUFFICES ASSUME TypeOK, LeaseInv, [Next]_vars PROVE LeaseInv'
    OBVIOUS
  <1>n. ASSUME NEW e \in {value, lease, expires}, NEW left \in {value, lease}, Schedule(e, left)
        PROVE  /\ refresh' \in Nat \cup {Off} /\ blind' \in BOOLEAN
               /\ ~blind' /\ e > 0 => refresh' # Off /\ refresh' < left
    <2>1. e \in Nat /\ left \in Nat
      BY DEF TypeOK
    <2> QED BY <1>n, <2>1, Starts
  <1>t. /\ refresh \in Nat \cup {-1} /\ expires \in Nat /\ value \in Nat /\ lease \in Nat
        /\ removing \in BOOLEAN /\ cut \in BOOLEAN /\ blind \in BOOLEAN
    BY DEF TypeOK, Off
  <1>l. LeaseInv
    OBVIOUS
  <1> USE DEF LeaseInv, RefreshInTime, Off
  <1>1. CASE Application
    BY <1>1
    DEF Application, Started_2_InProgress_X_oRegister, Connected_2_InProgress_X_oRegister,
        Any_2_InProgress_X_hangup, Any_2_InProgress_X_shutdown,
        InProgress_2_Terminated_X_hangup, Ask, End, serverVars
  <1>2. CASE InProgress_2_InProgress_X_1xx
    BY <1>2 DEF InProgress_2_InProgress_X_1xx, serverVars, Receive
  <1>3. CASE InProgress_2_Terminated_X_2xx \/ Any_2_Terminated_X_Error
    BY <1>3 DEF InProgress_2_Terminated_X_2xx, Any_2_Terminated_X_Error, End, serverVars
  <1>4. CASE InProgress_2_Connected_X_2xx
    <2>1. /\ state = "InProgress" /\ wire = "2xx" /\ ~removing
          /\ state' = "Connected" /\ wire' = "idle"
          /\ UNCHANGED <<removing, expires, value, lease, cut>>
      BY <1>4 DEF InProgress_2_Connected_X_2xx, Receive, serverVars
    <2>2. PICK e \in {value, expires} : Schedule(e, value)
      BY <1>4 DEF InProgress_2_Connected_X_2xx
    <2>3. ~blind' /\ e > 0 => refresh' # Off /\ refresh' < value
      BY <1>n, <2>2
    <2>4. expires > 0 /\ (~cut => value = lease /\ lease > 0)
      BY <1>l, <2>1
    <2>5. ~cut => e > 0
      BY <2>2, <2>4
    <2>6. RefreshInTime'
      BY <2>1, <2>3, <2>4, <2>5
    <2> QED BY <1>l, <2>1, <2>4, <2>6
  <1>5. CASE InProgress_2_InProgress_X_401_407_421_494
    BY <1>5 DEF InProgress_2_InProgress_X_401_407_421_494, Receive, Ask, End, serverVars
  <1>6. CASE InProgress_2_InProgress_X_423
    BY <1>6 DEF InProgress_2_InProgress_X_423, Receive, serverVars
  <1>7. CASE TimerRefresh
    BY <1>7 DEF TimerRefresh, Ask, serverVars
  <1>8. CASE Any_2_Terminated_X_shutdown_timedout \/ Any_2_Terminated_X_transportError
    BY <1>8
    DEF Any_2_Terminated_X_shutdown_timedout, Any_2_Terminated_X_transportError, End, serverVars
  <1>9. CASE Notify
    <2>1. CASE Connected_2_Connected_X_NOTIFY
      <3>1. /\ lease > 0 /\ Schedule(lease, lease)
            /\ UNCHANGED <<state, removing, expires, wire, value, lease, cut>>
        BY <2>1 DEF Connected_2_Connected_X_NOTIFY, Notified, serverVars
      <3>2. ~blind' => refresh' # Off /\ refresh' < lease
        BY <1>n, <3>1
      <3> QED BY <1>l, <3>1, <3>2
    <2>2. CASE BlindNotify
      <3>1. /\ Schedule(expires, lease)
            /\ UNCHANGED <<state, removing, expires, wire, value, lease, cut>>
        BY <2>2 DEF BlindNotify, Notified, serverVars
      <3>2. ~blind' /\ expires > 0 => refresh' # Off /\ refresh' < lease
        BY <1>n, <3>1
      <3>3. state = "Connected" => expires > 0
        BY <1>l
      <3> QED BY <1>l, <3>1, <3>2, <3>3
    <2>3. CASE NotifyTerminated
      <3>1. /\ expires' = expires /\ removing' \in {removing, FALSE} /\ cut'
            /\ \/ state' = "Terminated"
               \/ state' = "InProgress" /\ state = "InProgress"
                  /\ UNCHANGED <<removing, wire, value>>
        BY <2>3, Zenon DEF NotifyTerminated, Notified, End
      <3> QED BY <3>1
    <2> QED BY <1>9, <2>1, <2>2, <2>3 DEF Notify
  <1>10. CASE Server
    <2>1. UNCHANGED <<state, removing, expires, refresh, blind>>
      BY <1>10 DEF Server, Grant, TooBrief, Refuse, Unheard, dialogVars
    <2>2. CASE Grant
      <3>1. /\ wire = "request" /\ wire' = "2xx" /\ value' = lease' /\ ~cut'
            /\ IF value = 0 THEN lease' = 0 ELSE lease' \in Leases
        BY <2>2 DEF Grant, Asked
      <3>2. value > 0 => lease' > 0
        BY <1>t, <3>1, Positive
      <3>3. CASE state = "InProgress"
        BY <1>t, <2>1, <3>1, <3>2, <3>3
      <3>4. CASE state = "Connected"
        BY <2>1, <3>1, <3>4
      <3> QED BY <2>1, <3>1, <3>2, <3>3, <3>4
    <2>3. CASE TooBrief
      <3>1. /\ wire = "request" /\ wire' \in {"423", "423 without Min-Expires"}
            /\ value' = MinExpires /\ UNCHANGED <<lease, cut>>
        BY <2>3 DEF TooBrief, Asked, serverVars
      <3>2. MinExpires > 0 /\ wire' # "2xx"
        BY <3>1, Positive
      <3> QED BY <1>l, <2>1, <3>1, <3>2
    <2>4. CASE Refuse
      <3>1. /\ wire = "request" /\ wire' \in {"401", "stale", "error"}
            /\ UNCHANGED <<value, lease, cut>>
        BY <2>4 DEF Refuse, Asked, serverVars
      <3> QED BY <1>l, <2>1, <3>1
    <2>5. CASE Unheard
      <3>1. wire' = "idle" /\ state = "Terminated" /\ UNCHANGED <<value, lease, cut>>
        BY <2>5 DEF Unheard, serverVars
      <3> QED BY <2>1, <3>1
    <2> QED BY <1>10, <2>2, <2>3, <2>4, <2>5 DEF Server
  <1>11. CASE Tick
    <2>1. refresh # 0 /\ wire # "2xx"
      BY <1>11 DEF Tick, Due, Answers
    <2>2. /\ refresh' = IF refresh > 0 THEN refresh - 1 ELSE refresh
          /\ lease' = IF lease > 0 THEN lease - 1 ELSE lease
          /\ UNCHANGED <<state, removing, expires, wire, value, cut, blind>>
      BY <1>11 DEF Tick, Older
    <2>3. RefreshInTime'
      BY <1>t, <1>l, <2>1, <2>2
    <2>4. wire' # "2xx"
      BY <2>1, <2>2
    <2> QED BY <1>l, <2>2, <2>3, <2>4
  <1>12. CASE UNCHANGED vars
    BY <1>12 DEF vars, dialogVars, serverVars
  <1> QED
    BY <1>1, <1>2, <1>3, <1>4, <1>5, <1>6, <1>7, <1>8, <1>9, <1>10, <1>11, <1>12
    DEF Next, Response, Timer

\* Whatever the server grants, a connected dialog asks for it again in time.
THEOREM AskedAgainInTime == Spec => []RefreshInTime
  <1>1. Init => LeaseInv
    BY LeasesAssumption DEF Init, LeaseInv, RefreshInTime
  <1>2. LeaseInv => RefreshInTime
    BY DEF LeaseInv
  <1> QED BY <1>1, <1>2, TypeInit, TypeStep, LeaseStep, PTL DEF Spec

-----------------------------------------------------------------------------
\* What is said after an event was told, and after a step that tells nothing.
LEMMA SaysMore ==
    ASSUME TypeOK, NEW e \in {"connecting", "connected", "terminating", "terminated"},
           told' = Append(told, e), NEW x
    PROVE  Life!Saying(x)' <=> (x = e \/ Life!Saying(x))
  BY AppendSays DEF TypeOK, Life!Events, Life!Saying

LEMMA SaysSame ==
    ASSUME UNCHANGED told, NEW x
    PROVE  Life!Saying(x)' <=> Life!Saying(x)
  BY DEF Life!Saying

\* At the beginning nothing is said.
LEMMA SaysNothing ==
    ASSUME told = <<>>, NEW x
    PROVE  ~Life!Saying(x)
  BY DEF Life!Saying

\* The end of the FSM leaves a dialog as it should, if it ends only once.
LEMMA EndStep ==
    ASSUME TypeOK, ToldInv, End, state # "Terminated",
           wire' = "idle" \/ UNCHANGED <<wire, value>>
    PROVE  ToldInv'
  <1>1. /\ Life!Saying("terminating")' <=> Life!Saying("terminating")
        /\ state' = "Terminated" /\ shutdown' = Off /\ refresh' = Off
    BY SaysMore DEF End
  <1> QED BY <1>1 DEF ToldInv

\* A request of a dialog that goes on as it was.
LEMMA AskStep ==
    ASSUME TypeOK, ToldInv, Ask, UNCHANGED <<removing, life, told>>,
           state = "Connected" \/ state = "InProgress"
    PROVE  ToldInv'
  <1>1. \A x : Life!Saying(x)' <=> Life!Saying(x)
    BY SaysSame
  <1>2. /\ state' = "InProgress" /\ UNCHANGED <<removing, life, told>>
        /\ removing => value' = 0
    BY DEF Ask
  <1>3. Life!Saying("terminating") => removing
    BY DEF ToldInv
  <1> QED BY <1>1, <1>2, <1>3 DEF ToldInv

\* What was told stays tied to the state.
LEMMA ToldInvStep == TypeOK /\ ToldInv /\ [Next]_vars => ToldInv'
  <1> SUFFICES ASSUME TypeOK, ToldInv, [Next]_vars PROVE ToldInv'
    OBVIOUS
  <1>s. ASSUME UNCHANGED told, NEW x PROVE Life!Saying(x)' <=> Life!Saying(x)
    BY <1>s, SaysSame
  <1>1. CASE Started_2_InProgress_X_oRegister
    <2>1. /\ state = "Started" /\ told' = Append(told, "connecting")
          /\ state' = "InProgress" /\ UNCHANGED <<removing, life>>
      BY <1>1 DEF Started_2_InProgress_X_oRegister, Ask
    <2>2. told = <<>> /\ told' = <<"connecting">>
      BY <2>1 DEF ToldInv
    <2>3. ~Life!Saying("terminating")' /\ ~Life!Saying("terminated")'
      BY <2>1, <2>2, SaysMore, SaysNothing
    <2> QED BY <2>1, <2>2, <2>3 DEF ToldInv
  <1>2. CASE Connected_2_InProgress_X_oRegister
    BY <1>2, AskStep DEF Connected_2_InProgress_X_oRegister
  <1>3. CASE TimerRefresh
    <2>1. CASE state = "Connected"
      BY <1>3, <2>1, AskStep DEF TimerRefresh
    <2>2. CASE state # "Connected"
      <3>1. UNCHANGED <<state, life, removing, wire, value, told, shutdown>> /\ refresh' = Off
        BY <1>3, <2>2 DEF TimerRefresh
      <3>2. state # "Started" /\ state # "Terminated"
        BY <1>3 DEF TimerRefresh, ToldInv, Off
      <3> QED BY <1>s, <3>1, <3>2 DEF ToldInv
    <2> QED BY <2>1, <2>2
  <1>4. CASE InProgress_2_InProgress_X_1xx
    <2>1. /\ state = "InProgress" /\ life' = "early"
          /\ UNCHANGED <<state, removing, wire, value, told, shutdown, refresh>>
      BY <1>4 DEF InProgress_2_InProgress_X_1xx, Receive
    <2> QED BY <1>s, <2>1 DEF ToldInv
  <1>5. CASE InProgress_2_Terminated_X_2xx \/ Any_2_Terminated_X_Error
    BY <1>5, EndStep
    DEF InProgress_2_Terminated_X_2xx, Any_2_Terminated_X_Error, Receive
  <1>6. CASE InProgress_2_Connected_X_2xx
    <2>1. /\ state = "InProgress" /\ ~removing /\ state' = "Connected"
          /\ life' = "established" /\ wire' = "idle" /\ UNCHANGED removing
          /\ told' = Append(told, "connected") \/ UNCHANGED told
      BY <1>6 DEF InProgress_2_Connected_X_2xx, Receive
    <2>2. ~Life!Saying("terminating") /\ ~Life!Saying("terminated")
      BY <2>1 DEF ToldInv
    <2>3. ~Life!Saying("terminating")' /\ ~Life!Saying("terminated")'
      BY <1>s, <2>1, <2>2, SaysMore
    <2> QED BY <2>1, <2>3 DEF ToldInv
  <1>7. CASE InProgress_2_InProgress_X_401_407_421_494
    <2>1. /\ state = "InProgress"
          /\ \/ Ask /\ UNCHANGED <<removing, life, told>>
             \/ wire' = "idle" /\ End
      BY <1>7 DEF InProgress_2_InProgress_X_401_407_421_494, Receive
    <2> QED BY <2>1, AskStep, EndStep
  <1>8. CASE InProgress_2_InProgress_X_423
    <2>1. /\ state = "InProgress" /\ state' = "InProgress" /\ UNCHANGED <<removing, life, told>>
          /\ removing => value' = 0
      BY <1>8 DEF InProgress_2_InProgress_X_423, Receive
    <2> QED BY <1>s, <2>1 DEF ToldInv
  <1>9. CASE Any_2_InProgress_X_hangup \/ Any_2_InProgress_X_shutdown
    <2>1. /\ state \in {"Started", "Connected"} /\ told' = Append(told, "terminating")
          /\ state' = "InProgress" /\ removing' /\ value' = 0
      BY <1>9 DEF Any_2_InProgress_X_hangup, Any_2_InProgress_X_shutdown, Removable, Ask
    <2>2. ~Life!Saying("terminated")'
      BY <2>1, SaysMore DEF ToldInv
    <2> QED BY <2>1, <2>2 DEF ToldInv
  <1>10. CASE InProgress_2_Terminated_X_hangup \/ Any_2_Terminated_X_transportError
    <2>1. End /\ state # "Terminated" /\ UNCHANGED <<wire, value>>
      BY <1>10 DEF InProgress_2_Terminated_X_hangup, Any_2_Terminated_X_transportError
    <2> QED BY <2>1, EndStep
  <1>11. CASE Any_2_Terminated_X_shutdown_timedout
    <2>1. End /\ shutdown = 0 /\ UNCHANGED <<wire, value>>
      BY <1>11 DEF Any_2_Terminated_X_shutdown_timedout
    <2>2. state # "Terminated"
      BY <2>1 DEF ToldInv, Off
    <2> QED BY <2>1, <2>2, EndStep
  <1>12. CASE Notify
    <2>1. \/ /\ state \in {"InProgress", "Connected"}
             /\ UNCHANGED <<state, life, removing, told, wire, value, shutdown>>
          \/ state = "Connected" /\ End /\ UNCHANGED <<wire, value>>
      BY <1>12
      DEF Notify, Connected_2_Connected_X_NOTIFY, BlindNotify, NotifyTerminated, Notified
    <2>2. CASE state = "Connected" /\ End /\ UNCHANGED <<wire, value>>
      BY <2>2, EndStep
    <2>3. CASE /\ state \in {"InProgress", "Connected"}
               /\ UNCHANGED <<state, life, removing, told, wire, value, shutdown>>
      BY <1>s, <2>3 DEF ToldInv
    <2> QED BY <2>1, <2>2, <2>3
  <1>13. CASE Server \/ Tick \/ UNCHANGED vars
    <2>1. /\ UNCHANGED <<state, life, removing, told>>
          /\ wire' = "request" => UNCHANGED <<wire, value>>
          /\ shutdown = Off => shutdown' = Off
          /\ refresh = Off => refresh' = Off
      <3>1. CASE Server
        BY <3>1 DEF Server, Grant, TooBrief, Refuse, Unheard, dialogVars
      <3>2. CASE Tick
        BY <3>2 DEF Tick, Older, Off
      <3>3. CASE UNCHANGED vars
        BY <3>3 DEF vars, dialogVars
      <3> QED BY <1>13, <3>1, <3>2, <3>3
    <2> QED BY <1>s, <2>1 DEF ToldInv
  <1> QED
    BY <1>1, <1>2, <1>3, <1>4, <1>5, <1>6, <1>7, <1>8, <1>9, <1>10, <1>11, <1>12, <1>13
    DEF Next, Application, Response, Timer

LEMMA ToldInit == Init => ToldInv
  BY SaysNothing DEF Init, ToldInv

\* Once the dialog is terminating, nothing it sends makes the server hold on.
THEOREM NothingRevived == Spec => NoRevival
  <1>1. ASSUME TypeOK, ToldInv, [Next]_vars, Life!Saying("terminating")
        PROVE  lease' <= lease
    <2>1. \/ UNCHANGED lease
          \/ lease' = 0
          \/ lease > 0 /\ lease' = lease - 1
      <3>1. CASE Grant
        <4>1. value = 0
          BY <1>1, <3>1 DEF Grant, Asked, ToldInv
        <4> QED BY <3>1, <4>1 DEF Grant
      <3>2. CASE Tick
        BY <3>2 DEF Tick, Older
      <3>3. CASE Application \/ Response \/ Timer \/ Any_2_Terminated_X_transportError
        BY <3>3
        DEF Application, Started_2_InProgress_X_oRegister, Connected_2_InProgress_X_oRegister,
            Any_2_InProgress_X_hangup, Any_2_InProgress_X_shutdown,
            InProgress_2_Terminated_X_hangup, Timer, TimerRefresh,
            Any_2_Terminated_X_shutdown_timedout, Any_2_Terminated_X_transportError,
            Response, InProgress_2_InProgress_X_1xx, InProgress_2_Terminated_X_2xx,
            InProgress_2_Connected_X_2xx, InProgress_2_InProgress_X_401_407_421_494,
            InProgress_2_InProgress_X_423, Any_2_Terminated_X_Error, serverVars
      <3>4. CASE Notify \/ TooBrief \/ Refuse \/ Unheard \/ UNCHANGED vars
        BY <3>4
        DEF Notify, Connected_2_Connected_X_NOTIFY, BlindNotify, NotifyTerminated,
            TooBrief, Refuse, Unheard, serverVars, vars
      <3> QED BY <1>1, <3>1, <3>2, <3>3, <3>4 DEF Next, Server
    <2>2. lease \in Nat
      BY <1>1 DEF TypeOK
    <2> QED BY <2>1, <2>2
  <1>2. TypeOK /\ ToldInv /\ [Next]_vars =>
          [Life!Saying("terminating") => lease' <= lease]_vars
    BY <1>1
  <1> QED BY <1>2, TypeInit, ToldInit, TypeStep, ToldInvStep, PTL DEF Spec, NoRevival

-----------------------------------------------------------------------------
\* The application is told one life, whatever the server and the timers do.
THEOREM TellsOneLife == Spec => ImplementsDialogLife
  <1>1. Init => told = <<>>
    BY DEF Init
  <1>2. ASSUME TypeOK, ToldInv, [Next]_vars
        PROVE  [Life!Next]_told
    <2>e. ASSUME NEW event \in Life!Events, told' = Append(told, event),
                 ~Life!Saying("terminated"),
                 event = "connecting" => told = <<>>,
                 event = "connected" => told = <<"connecting">>,
                 event = "terminating" => ~Life!Saying("terminating")
          PROVE  [Life!Next]_told
      BY <2>e DEF Life!Next
    <2>1. CASE Started_2_InProgress_X_oRegister
      <3>1. told' = Append(told, "connecting") /\ told = <<>>
        BY <1>2, <2>1 DEF Started_2_InProgress_X_oRegister, ToldInv
      <3> QED BY <2>e, <3>1, SaysNothing DEF Life!Events
    <2>2. CASE InProgress_2_Connected_X_2xx
      <3>1. CASE life = "initial"
        <4>1. told' = Append(told, "connected") /\ state = "InProgress" /\ ~removing
          BY <2>2, <3>1 DEF InProgress_2_Connected_X_2xx, Receive
        <4>2. told = <<"connecting">> /\ ~Life!Saying("terminated")
          BY <1>2, <3>1, <4>1 DEF ToldInv
        <4> QED BY <2>e, <4>1, <4>2 DEF Life!Events
      <3>2. CASE life # "initial"
        BY <2>2, <3>2 DEF InProgress_2_Connected_X_2xx
      <3> QED BY <3>1, <3>2
    <2>3. CASE Any_2_InProgress_X_hangup \/ Any_2_InProgress_X_shutdown
      <3>1. told' = Append(told, "terminating") /\ state \in {"Started", "Connected"}
        BY <2>3 DEF Any_2_InProgress_X_hangup, Any_2_InProgress_X_shutdown, Removable
      <3>2. ~Life!Saying("terminating") /\ ~Life!Saying("terminated")
        BY <1>2, <3>1 DEF ToldInv
      <3> QED BY <2>e, <3>1, <3>2 DEF Life!Events
    <2>4. ASSUME End, state # "Terminated"
          PROVE  [Life!Next]_told
      <3>1. told' = Append(told, "terminated") /\ ~Life!Saying("terminated")
        BY <1>2, <2>4 DEF End, ToldInv
      <3> QED BY <2>e, <3>1 DEF Life!Events
    <2>5. CASE Any_2_Terminated_X_shutdown_timedout
      <3>1. End /\ state # "Terminated"
        BY <1>2, <2>5 DEF Any_2_Terminated_X_shutdown_timedout, ToldInv, Off
      <3> QED BY <2>4, <3>1
    <2>6. CASE InProgress_2_Terminated_X_hangup \/ Any_2_Terminated_X_transportError
      BY <2>4, <2>6 DEF InProgress_2_Terminated_X_hangup, Any_2_Terminated_X_transportError
    <2>7. CASE InProgress_2_Terminated_X_2xx \/ Any_2_Terminated_X_Error
      BY <2>4, <2>7 DEF InProgress_2_Terminated_X_2xx, Any_2_Terminated_X_Error, Receive
    <2>8. CASE InProgress_2_InProgress_X_401_407_421_494
      <3>1. UNCHANGED told \/ (End /\ state # "Terminated")
        BY <2>8 DEF InProgress_2_InProgress_X_401_407_421_494, Receive
      <3> QED BY <2>4, <3>1
    <2>9. CASE Notify
      <3>1. UNCHANGED told \/ (End /\ state # "Terminated")
        BY <2>9
        DEF Notify, Connected_2_Connected_X_NOTIFY, BlindNotify, NotifyTerminated, Notified
      <3> QED BY <2>4, <3>1
    <2>10. CASE \/ Connected_2_InProgress_X_oRegister \/ TimerRefresh
                \/ InProgress_2_InProgress_X_1xx \/ InProgress_2_InProgress_X_423
      BY <2>10
      DEF Connected_2_InProgress_X_oRegister, TimerRefresh, InProgress_2_InProgress_X_1xx,
          InProgress_2_InProgress_X_423
    <2>11. CASE Server \/ Tick \/ UNCHANGED vars
      BY <2>11 DEF Server, Grant, TooBrief, Refuse, Unheard, Tick, vars, dialogVars
    <2> QED
      BY <1>2, <2>1, <2>2, <2>3, <2>5, <2>6, <2>7, <2>8, <2>9, <2>10, <2>11
      DEF Next, Application, Response, Timer
  <1> QED
    BY <1>1, <1>2, TypeInit, ToldInit, TypeStep, ToldInvStep, PTL
    DEF Spec, ImplementsDialogLife, Life!Spec
=============================================================================
