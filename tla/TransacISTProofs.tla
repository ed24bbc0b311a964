--------------------------- MODULE TransacISTProofs ---------------------------
(***************************************************************************)
(* Theorems about the INVITE server transaction, for every bound on the    *)
(* counters and whether or not a send may fail.  The types alone are not   *)
(* inductive: a handler repeats the last response, which must be one       *)
(* (LastByState).  MissingAckReported rests on what the dialog heard while *)
(* the transaction was alive (HeardByState).                               *)
(***************************************************************************)
EXTENDS TransacIST, TLAPS

\* The response kept for repetition, and what may be on the wire, by state.
LastByState ==
    /\ state = "Started" => sent = {}
    /\ state = "Proceeding" => last = "1xx" /\ sent \subseteq {"1xx"}
    /\ state = "Completed" => last = "3456" /\ "2xx" \notin sent
    /\ state = "Accepted" => last = "2xx" /\ "3456" \notin sent
    /\ state = "Confirmed" => "2xx" \notin sent

IInv == TypeOK /\ LastByState /\ OneFinal

\* What the dialog heard of the ACK.
HeardByState ==
    /\ state # "Terminated" => why = "none" /\ told["transport_error"] = 0
    /\ state \in {"Started", "Proceeding"} => told["ACK"] = 0 /\ ~acked
    /\ state = "Accepted" => (acked <=> told["ACK"] > 0)

AInv == IInv /\ HeardByState /\ MissingAckReported

-----------------------------------------------------------------------------
\* The destructor only ever takes timers away.
LEMMA DestroyedSubset ==
    ASSUME NEW T \in SUBSET Timers PROVE Destroyed(T) \in SUBSET Timers
  BY DEF Destroyed

\* Delivering an event keeps the counters counters, and touches one of them.
LEMMA DeliverCounts ==
    ASSUME TypeOK, NEW e \in Events, Deliver(e)
    PROVE  /\ told' \in [Events -> 0..MaxTold]
           /\ told'[e] \in Nat /\ told'[e] > 0
           /\ \A f \in Events \ {e} : told'[f] = told[f]
  BY MaxToldAssumption DEF TypeOK, Deliver

\* The end of a handler leaves the FSM in one of its states.
LEMMA LeaveType ==
    ASSUME TypeOK, NEW to \in States, NEW T \in SUBSET Timers,
           NEW ok \in BOOLEAN, NEW reason \in Reasons, Leave(to, T, ok, reason)
    PROVE  /\ state' \in {to, "Terminated"} /\ state' \in States
           /\ armed' \in SUBSET Timers /\ why' \in Reasons
           /\ state' # "Terminated" => armed' = T /\ why' = why
           /\ state' = "Terminated" /\ to # "Terminated" => why' = reason
  <1>1. CASE ok /\ to # "Terminated"
    BY <1>1 DEF Leave, TypeOK
  <1>2. CASE ~(ok /\ to # "Terminated")
    BY <1>2, DestroyedSubset DEF Leave, States
  <1> QED BY <1>1, <1>2

\* So does a handler that sends, and it sends nothing but its response.
LEMMA SendType ==
    ASSUME TypeOK, NEW r, NEW to \in States, NEW T \in SUBSET Timers,
           NEW reason \in Reasons, Send(r, to, T, reason)
    PROVE  /\ state' \in {to, "Terminated"} /\ state' \in States
           /\ armed' \in SUBSET Timers /\ why' \in Reasons
           /\ sent' \in {sent, sent \cup {r}}
           /\ state' # "Terminated" => armed' = T /\ why' = why
           /\ state' = "Terminated" /\ to # "Terminated" => why' = reason
  <1>1. PICK ok \in BOOLEAN : /\ sent' \in {sent, sent \cup {r}}
                              /\ Leave(to, T, ok, reason)
    BY DEF Send, SendResults
  <1> QED BY <1>1, LeaveType

-----------------------------------------------------------------------------
\* The types and the last response are inductive together.
LEMMA IInvStep == IInv /\ [IstNext]_istVars => IInv'
  <1> SUFFICES ASSUME IInv, [IstNext]_istVars PROVE IInv'
    OBVIOUS
  <1>0. TypeOK /\ LastByState
    BY DEF IInv
  <1> USE DEF IInv, TypeOK, LastByState, OneFinal
  <1>1. CASE Started_2_Proceeding_X_INVITE
    <2>1. PICK ok \in BOOLEAN, reason \in Reasons : Leave("Proceeding", armed, ok, reason)
      BY <1>1 DEF Started_2_Proceeding_X_INVITE, Reasons
    <2>2. state' \in {"Proceeding", "Terminated"} /\ armed' \in SUBSET Timers /\ why' \in Reasons
      BY <1>0, <2>1, LeaveType DEF States
    <2>3. told' \in [Events -> 0..MaxTold]
      BY <1>0, <1>1, DeliverCounts DEF Started_2_Proceeding_X_INVITE, Events
    <2> QED BY <1>0, <1>1, <2>2, <2>3 DEF Started_2_Proceeding_X_INVITE, States, Responses
  <1>2. CASE INVITE
    <2>1. PICK in \in {"Proceeding", "Completed", "Accepted"} : Repeated(in)
      BY <1>2 DEF INVITE, Proceeding_2_Proceeding_X_INVITE, Completed_2_Completed_INVITE,
                  Accepted_2_Accepted_INVITE
    <2>2. /\ state' \in {in, "Terminated"} /\ state' \in States /\ armed' \in SUBSET Timers
          /\ why' \in Reasons /\ sent' \in {sent, sent \cup {last}}
      BY <1>0, <2>1, SendType DEF Repeated, States, Reasons
    <2> QED BY <1>0, <2>1, <2>2 DEF Repeated, Responses
  <1>3. CASE Proceeding_2_Proceeding_X_1xx
    <2>1. /\ state' \in {"Proceeding", "Terminated"} /\ armed' \in SUBSET Timers
          /\ why' \in Reasons /\ sent' \in {sent, sent \cup {"1xx"}}
      BY <1>0, <1>3, SendType DEF Proceeding_2_Proceeding_X_1xx, States, Reasons
    <2> QED BY <1>0, <1>3, <2>1 DEF Proceeding_2_Proceeding_X_1xx, Responses, States
  <1>4. CASE Proceeding_2_Completed_X_300_to_699
    <2> DEFINE timers == armed \cup {"H"} \cup (IF reliable THEN {} ELSE {"G"})
    <2>1. timers \in SUBSET Timers
      BY <1>0 DEF Timers
    <2>2. Send("3456", "Completed", timers, "tu")
      BY <1>4 DEF Proceeding_2_Completed_X_300_to_699
    <2>3. /\ state' \in {"Completed", "Terminated"} /\ armed' \in SUBSET Timers
          /\ why' \in Reasons /\ sent' \in {sent, sent \cup {"3456"}}
      BY <1>0, <2>1, <2>2, SendType DEF States, Reasons
    <2> QED BY <1>0, <1>4, <2>3 DEF Proceeding_2_Completed_X_300_to_699, Responses, States
  <1>5. CASE Proceeding_2_Accepted_X_2xx
    <2>1. armed \cup {"X", "L"} \in SUBSET Timers
      BY <1>0 DEF Timers
    <2>2. /\ state' \in {"Accepted", "Terminated"} /\ armed' \in SUBSET Timers
          /\ why' \in Reasons /\ sent' \in {sent, sent \cup {"2xx"}}
      BY <1>0, <1>5, <2>1, SendType DEF Proceeding_2_Accepted_X_2xx, States, Reasons
    <2> QED BY <1>0, <1>5, <2>2 DEF Proceeding_2_Accepted_X_2xx, Responses, States
  <1>6. CASE Accepted_2_Accepted_2xx
    <2>1. /\ state' \in {"Accepted", "Terminated"} /\ armed' \in SUBSET Timers
          /\ why' \in Reasons /\ sent' \in {sent, sent \cup {"2xx"}}
      BY <1>0, <1>6, SendType DEF Accepted_2_Accepted_2xx, States, Reasons
    <2> QED BY <1>0, <1>6, <2>1 DEF Accepted_2_Accepted_2xx, Responses, States
  <1>7. CASE Completed_2_Completed_timerG
    <2>1. armed \cup {"G"} \in SUBSET Timers
      BY <1>0 DEF Timers
    <2>2. /\ state' \in {"Completed", "Terminated"} /\ armed' \in SUBSET Timers
          /\ why' \in Reasons /\ sent' \in {sent, sent \cup {"3456"}}
      BY <1>0, <1>7, <2>1, SendType DEF Completed_2_Completed_timerG, States, Reasons
    <2> QED BY <1>0, <1>7, <2>2 DEF Completed_2_Completed_timerG, Fires, Responses, States
  <1>8. CASE Completed_2_Terminated_timerH \/ Accepted_2_Terminated_timerL
    <2>1. PICK reason \in Reasons : Leave("Terminated", armed, TRUE, reason)
      BY <1>8 DEF Completed_2_Terminated_timerH, Accepted_2_Terminated_timerL, Reasons
    <2>2. state' = "Terminated" /\ armed' \in SUBSET Timers /\ why' \in Reasons
      BY <1>0, <2>1, LeaveType DEF States
    <2>3. told' \in [Events -> 0..MaxTold]
      BY <1>0, <1>8, DeliverCounts
      DEF Completed_2_Terminated_timerH, Accepted_2_Terminated_timerL, Events
    <2> QED BY <1>0, <1>8, <2>2, <2>3
        DEF Completed_2_Terminated_timerH, Accepted_2_Terminated_timerL, Fires, States
  <1>9. CASE Confirmed_2_Terminated_timerI \/ Any_2_Terminated_X_cancel
    <2>1. PICK reason \in Reasons : Leave("Terminated", armed, TRUE, reason)
      BY <1>9 DEF Confirmed_2_Terminated_timerI, Any_2_Terminated_X_cancel, Reasons
    <2>2. state' = "Terminated" /\ armed' \in SUBSET Timers /\ why' \in Reasons
      BY <1>0, <2>1, LeaveType DEF States
    <2> QED BY <1>0, <1>9, <2>2
        DEF Confirmed_2_Terminated_timerI, Any_2_Terminated_X_cancel, Fires, States
  <1>10. CASE Completed_2_Confirmed_ACK
    <2>0. PICK i \in Scheduled("I") : Leave("Confirmed", (armed \ {"G"}) \cup i, TRUE, "none")
      BY <1>10 DEF Completed_2_Confirmed_ACK
    <2>1. (armed \ {"G"}) \cup i \in SUBSET Timers
      BY <1>0 DEF Timers, Scheduled
    <2>2. state' \in {"Confirmed", "Terminated"} /\ armed' \in SUBSET Timers /\ why' \in Reasons
      BY <1>0, <2>0, <2>1, LeaveType DEF States, Reasons
    <2> QED BY <1>0, <1>10, <2>2 DEF Completed_2_Confirmed_ACK, States
  <1>11. CASE Accepted_2_Accepted_iACK
    <2>1. armed \ {"X"} \in SUBSET Timers
      BY <1>0
    <2>2. state' \in {"Accepted", "Terminated"} /\ armed' \in SUBSET Timers /\ why' \in Reasons
      BY <1>0, <1>11, <2>1, LeaveType DEF Accepted_2_Accepted_iACK, States, Reasons
    <2>3. told' \in [Events -> 0..MaxTold]
      BY <1>0, <1>11, DeliverCounts DEF Accepted_2_Accepted_iACK, Events
    <2> QED BY <1>0, <1>11, <2>2, <2>3 DEF Accepted_2_Accepted_iACK, States
  <1>12. CASE Accepted_2_Accepted_timerX
    BY <1>0, <1>12 DEF Accepted_2_Accepted_timerX, Fires, SendResults, Responses, Timers
  <1>13. CASE TimerThread
    BY <1>0, <1>13 DEF TimerThread, Dequeue, TimerIgnored, Fires
  <1>14. CASE UNCHANGED istVars
    BY <1>0, <1>14 DEF istVars
  <1> QED
    BY <1>1, <1>2, <1>3, <1>4, <1>5, <1>6, <1>7, <1>8, <1>9, <1>10, <1>11, <1>12, <1>13, <1>14
    DEF IstNext, ACK, DialogResponse, TimerHandler

\* A transaction just created is well typed and has sent nothing.
LEMMA IInvInit == IstInit => IInv
  <1> SUFFICES ASSUME IstInit PROVE IInv
    OBVIOUS
  <1>1. told \in [Events -> 0..MaxTold]
    BY MaxToldAssumption DEF IstInit
  <1> QED BY <1>1 DEF IstInit, IInv, TypeOK, LastByState, OneFinal, States, Reasons

\* The types are right in every state; what is repeated is always a response.
THEOREM TypeCorrect == IstSpec => []TypeOK
  <1>1. IInv => TypeOK
    BY DEF IInv
  <1> QED BY <1>1, IInvInit, IInvStep, PTL DEF IstSpec

\* One INVITE never gets both a success and a failure, whatever the user, the
\* caller's CANCEL and the timers do, and in whatever order.
THEOREM OneFinalResponse == IstSpec => []OneFinal
  <1>1. IInv => OneFinal
    BY DEF IInv
  <1> QED BY <1>1, IInvInit, IInvStep, PTL DEF IstSpec

-----------------------------------------------------------------------------
\* The timers a state waits for, and the one it must not have any more.
TimersByState == Watchdog /\ ResponsesCease

\* No step strands the FSM without the timers its state waits for, or starts
\* timer G again once the ACK is there.
LEMMA TimersStep == TypeOK /\ TimersByState /\ [IstNext]_istVars => TimersByState'
  <1> SUFFICES ASSUME TypeOK, TimersByState, [IstNext]_istVars PROVE TimersByState'
    OBVIOUS
  <1> USE DEF TimersByState, Watchdog, ResponsesCease, Pending
  <1>1. CASE Started_2_Proceeding_X_INVITE
    <2>1. state' \in {"Proceeding", "Terminated"}
      BY <1>1 DEF Started_2_Proceeding_X_INVITE, Leave
    <2> QED BY <2>1
  <1>2. CASE INVITE
    <2>1. PICK in \in {"Proceeding", "Completed", "Accepted"} : Repeated(in)
      BY <1>2 DEF INVITE, Proceeding_2_Proceeding_X_INVITE, Completed_2_Completed_INVITE,
                  Accepted_2_Accepted_INVITE
    <2>2. state' = "Terminated" \/ (state' = in /\ armed' = armed)
      BY <2>1 DEF Repeated, Send, Leave
    <2> QED BY <2>1, <2>2 DEF Repeated
  <1>3. CASE Proceeding_2_Proceeding_X_1xx
    <2>1. state' \in {"Proceeding", "Terminated"}
      BY <1>3 DEF Proceeding_2_Proceeding_X_1xx, Send, Leave
    <2> QED BY <2>1
  <1>4. CASE Proceeding_2_Completed_X_300_to_699
    <2>1. \/ state' = "Terminated"
          \/ state' = "Completed" /\ "H" \in armed' /\ (reliable \/ "G" \in armed')
      BY <1>4 DEF Proceeding_2_Completed_X_300_to_699, Send, Leave
    <2> QED BY <1>4, <2>1 DEF Proceeding_2_Completed_X_300_to_699
  <1>5. CASE Proceeding_2_Accepted_X_2xx
    <2>1. state' = "Terminated" \/ (state' = "Accepted" /\ {"L", "X"} \subseteq armed')
      BY <1>5 DEF Proceeding_2_Accepted_X_2xx, Send, Leave
    <2> QED BY <2>1
  <1>6. CASE Accepted_2_Accepted_2xx
    <2>1. state' = "Terminated" \/ (state' = "Accepted" /\ armed' = armed)
      BY <1>6 DEF Accepted_2_Accepted_2xx, Send, Leave
    <2> QED BY <1>6, <2>1 DEF Accepted_2_Accepted_2xx
  <1>7. CASE Completed_2_Completed_timerG
    <2>1. state' = "Terminated" \/ (state' = "Completed" /\ armed' = armed \cup {"G"})
      BY <1>7 DEF Completed_2_Completed_timerG, Send, Leave
    <2> QED BY <1>7, <2>1 DEF Completed_2_Completed_timerG, Fires
  <1>8. CASE \/ Completed_2_Terminated_timerH \/ Accepted_2_Terminated_timerL
             \/ Confirmed_2_Terminated_timerI \/ Any_2_Terminated_X_cancel
    <2>1. state' = "Terminated"
      BY <1>8 DEF Completed_2_Terminated_timerH, Accepted_2_Terminated_timerL,
                  Confirmed_2_Terminated_timerI, Any_2_Terminated_X_cancel, Leave
    <2> QED BY <2>1
  <1>9. CASE Completed_2_Confirmed_ACK
    <2>0. PICK i \in Scheduled("I") : Leave("Confirmed", (armed \ {"G"}) \cup i, TRUE, "none")
      BY <1>9 DEF Completed_2_Confirmed_ACK
    <2>1. "G" \notin i /\ (~reliable => "I" \in i) /\ reliable' = reliable
      BY <1>9 DEF Completed_2_Confirmed_ACK, Scheduled
    <2>2. /\ state' \in {"Confirmed", "Terminated"}
          /\ state' = "Confirmed" => armed' = (armed \ {"G"}) \cup i
      BY <2>0 DEF Leave
    <2> QED BY <2>1, <2>2
  <1>10. CASE Accepted_2_Accepted_iACK
    <2>1. /\ acked' = TRUE /\ late' = late
          /\ \/ state' = "Terminated"
             \/ state = "Accepted" /\ state' = "Accepted" /\ armed' = armed \ {"X"}
      BY <1>10 DEF Accepted_2_Accepted_iACK, Leave
    <2> QED BY <2>1
  <1>11. CASE Accepted_2_Accepted_timerX
    BY <1>11 DEF Accepted_2_Accepted_timerX, Fires
  <1>12. CASE TimerThread
    <2>1. CASE \E t \in Timers : Dequeue(t)
      BY <2>1 DEF Dequeue
    <2>2. CASE \E t \in Timers : TimerIgnored(t)
      BY <2>2 DEF TimerIgnored, Fires, Expects, Timers
    <2> QED BY <1>12, <2>1, <2>2 DEF TimerThread
  <1>13. CASE UNCHANGED istVars
    BY <1>13 DEF istVars
  <1> QED
    BY <1>1, <1>2, <1>3, <1>4, <1>5, <1>6, <1>7, <1>8, <1>9, <1>10, <1>11, <1>12, <1>13
    DEF IstNext, ACK, DialogResponse, TimerHandler

\* Every wait of the transaction is watched by a timer, and a final response
\* that is not acknowledged yet is due to be repeated.
THEOREM AlwaysWatched == IstSpec => []Watchdog
  <1>1. IstInit => TimersByState
    BY DEF IstInit, TimersByState, Watchdog, ResponsesCease
  <1>2. IInv => TypeOK
    BY DEF IInv
  <1>3. TimersByState => Watchdog
    BY DEF TimersByState
  <1> QED BY <1>1, <1>2, <1>3, IInvInit, IInvStep, TimersStep, PTL DEF IstSpec

\* A failure response that was acknowledged is not scheduled any more.
THEOREM ResponsesDoCease == IstSpec => []ResponsesCease
  <1>1. IstInit => TimersByState
    BY DEF IstInit, TimersByState, Watchdog, ResponsesCease
  <1>2. IInv => TypeOK
    BY DEF IInv
  <1>3. TimersByState => ResponsesCease
    BY DEF TimersByState
  <1> QED BY <1>1, <1>2, <1>3, IInvInit, IInvStep, TimersStep, PTL DEF IstSpec
-----------------------------------------------------------------------------
\* A step that leaves the transaction alive, or ends it without a timer, and
\* that tells the dialog nothing of the ACK, keeps what the dialog has heard.
LEMMA Unheard ==
    ASSUME AInv, UNCHANGED acked,
           told'["ACK"] = told["ACK"], told'["transport_error"] = told["transport_error"],
           \/ state' = "Terminated" /\ why' # "timer"
           \/ /\ state' # "Terminated" /\ state # "Terminated" /\ why' = why
              /\ state' = "Accepted" => state \in {"Proceeding", "Accepted"}
              /\ state' \in {"Started", "Proceeding"} => state \in {"Started", "Proceeding"}
    PROVE  HeardByState' /\ MissingAckReported'
  <1>1. told["ACK"] \in Nat
    BY MaxToldAssumption DEF AInv, IInv, TypeOK, Events
  <1> QED BY <1>1 DEF AInv, HeardByState, MissingAckReported

\* The dialog hears of the ACK in Accepted, and of its absence at the end.
LEMMA HeardStep == AInv /\ [IstNext]_istVars => AInv'
  <1> SUFFICES ASSUME AInv, [IstNext]_istVars PROVE AInv'
    OBVIOUS
  <1>0. IInv /\ IInv' /\ TypeOK /\ LastByState
    BY IInvStep DEF AInv, IInv
  <1>t. told["ACK"] \in Nat /\ told["transport_error"] \in Nat
    BY <1>0, MaxToldAssumption DEF TypeOK, Events
  <1> SUFFICES HeardByState' /\ MissingAckReported'
    BY <1>0 DEF AInv
  <1>1. CASE Started_2_Proceeding_X_INVITE
    <2>1. told'["ACK"] = told["ACK"] /\ told'["transport_error"] = told["transport_error"]
      BY <1>0, <1>1, DeliverCounts DEF Started_2_Proceeding_X_INVITE, Events
    <2>2. /\ state = "Started" /\ UNCHANGED acked
          /\ \/ state' = "Terminated" /\ why' # "timer"
             \/ state' = "Proceeding" /\ why' = why
      BY <1>1 DEF Started_2_Proceeding_X_INVITE, Leave
    <2> QED BY <2>1, <2>2, Unheard
  <1>2. CASE INVITE \/ DialogResponse \/ Completed_2_Completed_timerG
    <2>1. UNCHANGED <<told, acked>>
      BY <1>2
      DEF INVITE, Proceeding_2_Proceeding_X_INVITE, Completed_2_Completed_INVITE,
          Accepted_2_Accepted_INVITE, Repeated, DialogResponse, Proceeding_2_Proceeding_X_1xx,
          Proceeding_2_Completed_X_300_to_699, Proceeding_2_Accepted_X_2xx,
          Accepted_2_Accepted_2xx, Completed_2_Completed_timerG
    <2>2. \/ state' = "Terminated" /\ why' \in {"tu", "send"}
          \/ /\ why' = why /\ state' \in {"Proceeding", "Completed", "Accepted"}
             /\ state \in {"Proceeding", state'}
      BY <1>2
      DEF INVITE, Proceeding_2_Proceeding_X_INVITE, Completed_2_Completed_INVITE,
          Accepted_2_Accepted_INVITE, Repeated, DialogResponse, Proceeding_2_Proceeding_X_1xx,
          Proceeding_2_Completed_X_300_to_699, Proceeding_2_Accepted_X_2xx,
          Accepted_2_Accepted_2xx, Completed_2_Completed_timerG, Send, Leave
    <2> QED BY <2>1, <2>2, Unheard
  <1>3. CASE Completed_2_Terminated_timerH \/ Confirmed_2_Terminated_timerI
    <2>1. /\ state \in {"Completed", "Confirmed"} /\ state' = "Terminated" /\ sent' = sent
      BY <1>3 DEF Completed_2_Terminated_timerH, Confirmed_2_Terminated_timerI, Leave
    <2>2. "2xx" \notin sent
      BY <1>0, <2>1 DEF LastByState
    <2> QED BY <2>1, <2>2 DEF HeardByState, MissingAckReported
  <1>4. CASE Accepted_2_Terminated_timerL
    <2>1. state = "Accepted" /\ state' = "Terminated"
      BY <1>4 DEF Accepted_2_Terminated_timerL, Leave
    <2>2. (acked <=> told["ACK"] > 0) /\ told["transport_error"] = 0
      BY <2>1 DEF AInv, HeardByState
    <2>3. CASE acked
      <3>1. told' = told
        BY <1>4, <2>3 DEF Accepted_2_Terminated_timerL
      <3> QED BY <1>t, <2>1, <2>2, <2>3, <3>1 DEF HeardByState, MissingAckReported
    <2>4. CASE ~acked
      <3>1. told'["transport_error"] > 0 /\ told'["ACK"] = told["ACK"]
        BY <1>0, <1>4, <2>4, DeliverCounts DEF Accepted_2_Terminated_timerL, Events
      <3> QED BY <1>t, <2>1, <2>2, <2>4, <3>1 DEF HeardByState, MissingAckReported
    <2> QED BY <2>3, <2>4
  <1>5. CASE Any_2_Terminated_X_cancel
    <2>1. state' = "Terminated" /\ why' = "cancel"
      BY <1>5 DEF Any_2_Terminated_X_cancel, Leave
    <2> QED BY <2>1 DEF HeardByState, MissingAckReported
  <1>6. CASE Completed_2_Confirmed_ACK
    <2>1. /\ state = "Completed" /\ UNCHANGED <<told, acked>>
          /\ state' = "Confirmed" /\ why' = why
      BY <1>6 DEF Completed_2_Confirmed_ACK, Leave
    <2> QED BY <2>1, Unheard
  <1>7. CASE Accepted_2_Accepted_iACK
    <2>1. told'["ACK"] > 0 /\ told'["transport_error"] = told["transport_error"]
      BY <1>0, <1>7, DeliverCounts DEF Accepted_2_Accepted_iACK, Events
    <2>2. /\ state = "Accepted" /\ acked' = TRUE
          /\ \/ state' = "Terminated" /\ why' = "dialog"
             \/ state' = "Accepted" /\ why' = why
      BY <1>7 DEF Accepted_2_Accepted_iACK, Leave
    <2> QED BY <2>1, <2>2 DEF AInv, HeardByState, MissingAckReported
  <1>8. CASE Accepted_2_Accepted_timerX
    <2>1. state = "Accepted" /\ state' = state /\ why' = why /\ UNCHANGED <<told, acked>>
      BY <1>8 DEF Accepted_2_Accepted_timerX
    <2> QED BY <2>1, Unheard
  <1>9. CASE TimerThread \/ UNCHANGED istVars
    BY <1>9 DEF AInv, HeardByState, MissingAckReported, TimerThread, Dequeue, TimerIgnored,
                istVars
  <1> QED
    BY <1>1, <1>2, <1>3, <1>4, <1>5, <1>6, <1>7, <1>8, <1>9
    DEF IstNext, ACK, TimerHandler

\* When the transaction runs out of time the dialog has heard either the ACK of
\* its 2xx or that there is none.
THEOREM AckOrAlarm == IstSpec => []MissingAckReported
  <1>1. IstInit => AInv
    BY IInvInit DEF IstInit, AInv, HeardByState, MissingAckReported, Events
  <1>2. AInv => MissingAckReported
    BY DEF AInv
  <1> QED BY <1>1, <1>2, HeardStep, PTL DEF IstSpec
=============================================================================
