------------------------------ MODULE InviteProofs ------------------------------
(***************************************************************************)
(* Theorems about an INVITE, for every bound on the counters: about the    *)
(* client transaction alone, whose sends may fail, and then about the      *)
(* exchange with its server transaction, whatever the network loses,       *)
(* repeats or reorders.                                                    *)
(***************************************************************************)
EXTENDS TransacICT, InviteTransac, TLAPS

-----------------------------------------------------------------------------
(***************************************************************************)
(* The client transaction.  OutcomeOnce and AckOnlyForFailure are not      *)
(* inductive: what was told must first be tied to the state of the FSM     *)
(* (ToldByState).                                                          *)
(***************************************************************************)

\* What the dialog was told, state by state.
Untold == /\ told["2xx"] = 0 /\ told["3456"] = 0 /\ told["timedout"] = 0
          /\ "ACK" \notin sent

ToldByState ==
    /\ state \in {"Started", "Calling", "Proceeding"} => Untold
    /\ state = "Accepted" => told["2xx"] > 0 /\ told["3456"] = 0 /\ told["timedout"] = 0
                             /\ "ACK" \notin sent
    /\ state = "Completed" => told["2xx"] = 0 /\ told["3456"] = 1 /\ told["timedout"] = 0
                              /\ "ACK" \in sent

IInv == TypeOK /\ ToldByState /\ OutcomeOnce /\ AckOnlyForFailure

-----------------------------------------------------------------------------
\* The destructor only ever takes timers away.
LEMMA DestroyedSubset ==
    ASSUME NEW T \in SUBSET Timers PROVE Destroyed(T) \in SUBSET Timers
  BY DEF Destroyed

\* Delivering an event keeps the counters counters.
LEMMA DeliverType ==
    ASSUME TypeOK, NEW e \in Events, Deliver(e)
    PROVE  told' \in [Events -> 0..MaxTold]
  BY MaxToldAssumption DEF TypeOK, Deliver

\* The end of a handler leaves the FSM in one of its states.
LEMMA LeaveType ==
    ASSUME TypeOK, NEW to \in States, NEW T \in SUBSET Timers,
           NEW ok \in BOOLEAN, NEW reason \in Reasons, Leave(to, T, ok, reason)
    PROVE  /\ state' \in {to, "Terminated"} /\ state' \in States
           /\ armed' \in SUBSET Timers /\ why' \in Reasons
  <1>1. CASE ok /\ to # "Terminated"
    BY <1>1 DEF Leave, TypeOK
  <1>2. CASE ~(ok /\ to # "Terminated")
    BY <1>2, DestroyedSubset DEF Leave, States
  <1> QED BY <1>1, <1>2

\* The type invariant of the transaction is inductive.
LEMMA TypeStep == TypeOK /\ [IctNext]_ictVars => TypeOK'
  <1> SUFFICES ASSUME TypeOK, [IctNext]_ictVars PROVE TypeOK'
    OBVIOUS
  <1> USE DEF TypeOK
  <1>1. CASE Started_2_Calling_X_send
    BY <1>1 DEF Started_2_Calling_X_send, States, Timers, SendResults
  <1>2. CASE Calling_2_Calling_X_timerA
    BY <1>2 DEF Calling_2_Calling_X_timerA, Fires, Timers, SendResults
  <1>3. CASE Calling_2_Terminated_X_timerB
    <2>1. state' \in States /\ armed' \in SUBSET Timers /\ why' \in Reasons
      BY <1>3, LeaveType DEF Calling_2_Terminated_X_timerB, States, Reasons
    <2>2. told' \in [Events -> 0..MaxTold]
      BY <1>3, DeliverType DEF Calling_2_Terminated_X_timerB, Events
    <2> QED BY <1>3, <2>1, <2>2 DEF Calling_2_Terminated_X_timerB, Fires
  <1>4. CASE Completed_2_Terminated_X_timerD
    <2>1. state' \in States /\ armed' \in SUBSET Timers /\ why' \in Reasons
      BY <1>4, LeaveType DEF Completed_2_Terminated_X_timerD, States, Reasons
    <2> QED BY <1>4, <2>1 DEF Completed_2_Terminated_X_timerD, Fires
  <1>5. CASE Accepted_2_Terminated_X_timerM
    <2>1. state' \in States /\ armed' \in SUBSET Timers /\ why' \in Reasons
      BY <1>5, LeaveType DEF Accepted_2_Terminated_X_timerM, States, Reasons
    <2> QED BY <1>5, <2>1 DEF Accepted_2_Terminated_X_timerM, Fires
  <1>6. CASE Calling_2_Proceeding_X_1xx
    <2>1. state' \in States /\ armed' \in SUBSET Timers /\ why' \in Reasons
      BY <1>6, LeaveType DEF Calling_2_Proceeding_X_1xx, States, Reasons
    <2>2. told' \in [Events -> 0..MaxTold]
      BY <1>6, DeliverType DEF Calling_2_Proceeding_X_1xx, Events
    <2> QED BY <1>6, <2>1, <2>2 DEF Calling_2_Proceeding_X_1xx
  <1>7. CASE Proceeding_2_Proceeding_X_1xx
    <2>1. state' \in States /\ armed' \in SUBSET Timers /\ why' \in Reasons
      BY <1>7, LeaveType DEF Proceeding_2_Proceeding_X_1xx, States, Reasons
    <2>2. told' \in [Events -> 0..MaxTold]
      BY <1>7, DeliverType DEF Proceeding_2_Proceeding_X_1xx, Events
    <2> QED BY <1>7, <2>1, <2>2 DEF Proceeding_2_Proceeding_X_1xx
  <1>8. CASE Calling_2_Accepted_X_2xx \/ Proceeding_2_Accepted_X_2xx
    <2> DEFINE again == RetransmissionTimers \cup {"B"}
    <2>1. again \subseteq Timers
      BY DEF RetransmissionTimers, Timers
    <2>2. PICK ok \in BOOLEAN : Leave("Accepted", armed \cup {"M"} \cup again, ok, "dialog")
      BY <1>8 DEF Calling_2_Accepted_X_2xx, Proceeding_2_Accepted_X_2xx, Accept
    <2>3. armed \cup {"M"} \cup again \in SUBSET Timers
      BY <2>1 DEF Timers
    <2>4. state' \in States /\ armed' \in SUBSET Timers /\ why' \in Reasons
      BY <2>2, <2>3, LeaveType DEF States, Reasons
    <2>5. told' \in [Events -> 0..MaxTold]
      BY <1>8, DeliverType
      DEF Calling_2_Accepted_X_2xx, Proceeding_2_Accepted_X_2xx, Accept, Events
    <2> QED BY <1>8, <2>1, <2>4, <2>5 DEF Calling_2_Accepted_X_2xx,
        Proceeding_2_Accepted_X_2xx, Accept
  <1>9. CASE Accepted_2_Accepted_X_2xx
    <2>1. told' \in [Events -> 0..MaxTold]
      BY <1>9, DeliverType DEF Accepted_2_Accepted_X_2xx, Events
    <2> QED BY <1>9, <2>1 DEF Accepted_2_Accepted_X_2xx
  <1>10. CASE Calling_2_Completed_X_300_to_699 \/ Proceeding_2_Completed_X_300_to_699
    <2> DEFINE timers(d) == (armed \ (RetransmissionTimers \cup {"B"})) \cup d
    <2>1. \A d \in Scheduled("D") : timers(d) \in SUBSET Timers
      BY DEF Timers, Scheduled
    <2>2. PICK d \in Scheduled("D"), ok \in BOOLEAN, reason \in Reasons :
             Leave("Completed", timers(d), ok, reason)
      BY <1>10
      DEF Calling_2_Completed_X_300_to_699, Proceeding_2_Completed_X_300_to_699, Fail, Reasons
    <2>3. state' \in States /\ armed' \in SUBSET Timers /\ why' \in Reasons
      BY <2>1, <2>2, LeaveType DEF States
    <2>4. told' \in [Events -> 0..MaxTold]
      BY <1>10, DeliverType
      DEF Calling_2_Completed_X_300_to_699, Proceeding_2_Completed_X_300_to_699, Fail, Events
    <2>5. sent' \subseteq {"INVITE", "ACK"}
      BY <1>10 DEF Calling_2_Completed_X_300_to_699, Proceeding_2_Completed_X_300_to_699, Fail
    <2> QED BY <1>10, <2>3, <2>4, <2>5 DEF Calling_2_Completed_X_300_to_699,
        Proceeding_2_Completed_X_300_to_699, Fail
  <1>11. CASE Completed_2_Completed_X_300_to_699
    <2>1. state' \in States /\ armed' \in SUBSET Timers /\ why' \in Reasons
      BY <1>11, LeaveType
      DEF Completed_2_Completed_X_300_to_699, States, Reasons, SendResults
    <2> QED BY <1>11, <2>1 DEF Completed_2_Completed_X_300_to_699
  <1>12. CASE Any_2_Terminated_X_cancel
    <2>1. state' \in States /\ armed' \in SUBSET Timers /\ why' \in Reasons
      BY <1>12, LeaveType DEF Any_2_Terminated_X_cancel, States, Reasons
    <2> QED BY <1>12, <2>1 DEF Any_2_Terminated_X_cancel
  <1>13. CASE TimerThread
    BY <1>13 DEF TimerThread, Dequeue, TimerIgnored, OrphanFires, DanglingCallback, Fires
  <1>14. CASE UNCHANGED ictVars
    BY <1>14 DEF ictVars
  <1> QED
    BY <1>1, <1>2, <1>3, <1>4, <1>5, <1>6, <1>7, <1>8, <1>9, <1>10, <1>11, <1>12, <1>13, <1>14
    DEF IctNext, Response, TimerHandler

\* A transaction just created is well typed.
LEMMA TypeInit == IctInit => TypeOK
  <1> SUFFICES ASSUME IctInit PROVE TypeOK
    OBVIOUS
  <1>1. told \in [Events -> 0..MaxTold]
    BY MaxToldAssumption DEF IctInit
  <1> QED BY <1>1 DEF IctInit, TypeOK, States, Reasons

\* The types are right in every state, whatever the bound on the counters.
THEOREM TypeCorrect == IctSpec => []TypeOK
  BY TypeInit, TypeStep, PTL DEF IctSpec

-----------------------------------------------------------------------------
\* What a delivery does to each counter.
LEMMA DeliverCounts ==
    ASSUME TypeOK, NEW e \in Events, Deliver(e)
    PROVE  /\ told'[e] \in Nat /\ told'[e] > 0
           /\ told[e] = 0 => told'[e] = 1
           /\ \A f \in Events \ {e} : told'[f] = told[f]
  BY MaxToldAssumption DEF TypeOK, Deliver

\* Every step keeps the dialog's knowledge and the state of the FSM together,
\* and with them the one verdict and the ACK.
LEMMA ToldStep == IInv /\ [IctNext]_ictVars => IInv'
  <1> SUFFICES ASSUME IInv, [IctNext]_ictVars PROVE IInv'
    OBVIOUS
  <1>0. TypeOK /\ TypeOK'
    BY TypeStep DEF IInv
  <1>t. /\ told["1xx"] \in Nat /\ told["2xx"] \in Nat
        /\ told["3456"] \in Nat /\ told["timedout"] \in Nat
    BY <1>0, MaxToldAssumption DEF TypeOK, Events
  <1> SUFFICES ToldByState' /\ OutcomeOnce' /\ AckOnlyForFailure'
    BY <1>0 DEF IInv
  <1> USE DEF IInv, ToldByState, Untold, OutcomeOnce, AckOnlyForFailure
  <1>1. CASE Started_2_Calling_X_send
    BY <1>0, <1>1, <1>t DEF Started_2_Calling_X_send, SendResults
  <1>2. CASE Calling_2_Calling_X_timerA
    BY <1>0, <1>2, <1>t DEF Calling_2_Calling_X_timerA, SendResults
  <1>3. CASE Calling_2_Terminated_X_timerB
    <2>1. /\ told'["timedout"] > 0 /\ told'["timedout"] \in Nat
          /\ told["timedout"] = 0 => told'["timedout"] = 1
          /\ told'["2xx"] = told["2xx"] /\ told'["3456"] = told["3456"]
      BY <1>0, <1>3, DeliverCounts DEF Calling_2_Terminated_X_timerB, Events
    <2>2. state' = "Terminated" /\ sent' = sent /\ state = "Calling"
      BY <1>3 DEF Calling_2_Terminated_X_timerB, Leave
    <2> QED BY <2>1, <2>2, <1>t
  <1>4. CASE \/ Completed_2_Terminated_X_timerD \/ Accepted_2_Terminated_X_timerM
             \/ Any_2_Terminated_X_cancel
    <2>1. state' = "Terminated" /\ sent' = sent /\ told' = told
      BY <1>4 DEF Completed_2_Terminated_X_timerD, Accepted_2_Terminated_X_timerM,
                  Any_2_Terminated_X_cancel, Leave
    <2> QED BY <2>1, <1>t
  <1>5. CASE Calling_2_Proceeding_X_1xx \/ Proceeding_2_Proceeding_X_1xx
    <2>1. told'["timedout"] = told["timedout"] /\ told'["2xx"] = told["2xx"]
          /\ told'["3456"] = told["3456"]
      BY <1>0, <1>5, DeliverCounts
      DEF Calling_2_Proceeding_X_1xx, Proceeding_2_Proceeding_X_1xx, Events
    <2>2. /\ state \in {"Calling", "Proceeding"} /\ state' \in {"Proceeding", "Terminated"}
          /\ sent' = sent
      BY <1>5 DEF Calling_2_Proceeding_X_1xx, Proceeding_2_Proceeding_X_1xx, Leave
    <2> QED BY <2>1, <2>2, <1>t
  <1>6. CASE Calling_2_Accepted_X_2xx \/ Proceeding_2_Accepted_X_2xx
    <2>1. /\ told'["2xx"] > 0 /\ told'["2xx"] \in Nat /\ (told["2xx"] = 0 => told'["2xx"] = 1)
          /\ told'["timedout"] = told["timedout"] /\ told'["3456"] = told["3456"]
      BY <1>0, <1>6, DeliverCounts
      DEF Calling_2_Accepted_X_2xx, Proceeding_2_Accepted_X_2xx, Accept, Events
    <2>2. /\ state \in {"Calling", "Proceeding"} /\ state' \in {"Accepted", "Terminated"}
          /\ sent' = sent
      BY <1>6 DEF Calling_2_Accepted_X_2xx, Proceeding_2_Accepted_X_2xx, Accept, Leave
    <2> QED BY <2>1, <2>2, <1>t
  <1>7. CASE Accepted_2_Accepted_X_2xx
    <2>1. /\ told'["2xx"] > 0 /\ told'["2xx"] \in Nat /\ (told["2xx"] = 0 => told'["2xx"] = 1)
          /\ told'["timedout"] = told["timedout"] /\ told'["3456"] = told["3456"]
      BY <1>0, <1>7, DeliverCounts DEF Accepted_2_Accepted_X_2xx, Events
    <2>2. state = "Accepted" /\ state' = "Accepted" /\ sent' = sent
      BY <1>7 DEF Accepted_2_Accepted_X_2xx
    <2> QED BY <2>1, <2>2, <1>t
  <1>8. CASE Calling_2_Completed_X_300_to_699 \/ Proceeding_2_Completed_X_300_to_699
    <2>1. CASE /\ sent' = sent \cup {"ACK"} /\ Deliver("3456")
               /\ state' \in {"Completed", "Terminated"}
      <3>1. /\ told'["3456"] > 0 /\ told'["3456"] \in Nat
            /\ told["3456"] = 0 => told'["3456"] = 1
            /\ told'["timedout"] = told["timedout"] /\ told'["2xx"] = told["2xx"]
        BY <1>0, <2>1, DeliverCounts DEF Events
      <3>2. state \in {"Calling", "Proceeding"}
        BY <1>8 DEF Calling_2_Completed_X_300_to_699, Proceeding_2_Completed_X_300_to_699, Fail
      <3> QED BY <2>1, <3>1, <3>2, <1>t
    <2>2. CASE sent' = sent /\ told' = told /\ state' = "Terminated"
      BY <2>2, <1>t
    <2> QED BY <1>8, <2>1, <2>2 DEF Calling_2_Completed_X_300_to_699,
        Proceeding_2_Completed_X_300_to_699, Fail, Leave
  <1>9. CASE Completed_2_Completed_X_300_to_699
    <2>1. /\ state = "Completed" /\ state' \in {"Completed", "Terminated"}
          /\ told' = told /\ sent' \in {sent, sent \cup {"ACK"}}
      BY <1>9 DEF Completed_2_Completed_X_300_to_699, Leave
    <2> QED BY <2>1, <1>t
  <1>10. CASE TimerThread
    BY <1>10, <1>t DEF TimerThread, Dequeue, TimerIgnored, OrphanFires, DanglingCallback
  <1>11. CASE UNCHANGED ictVars
    BY <1>11, <1>t DEF ictVars
  <1> QED
    BY <1>1, <1>2, <1>3, <1>4, <1>5, <1>6, <1>7, <1>8, <1>9, <1>10, <1>11
    DEF IctNext, Response, TimerHandler

\* The dialog gets one verdict, and a failure or a timeout once only, however
\* responses, timers and cancellations interleave.
THEOREM OneVerdict == IctSpec => []OutcomeOnce
  <1>1. IctInit => IInv
    BY TypeInit DEF IctInit, IInv, ToldByState, Untold, OutcomeOnce, AckOnlyForFailure, Events
  <1>2. IInv => OutcomeOnce
    BY DEF IInv
  <1> QED BY <1>1, <1>2, ToldStep, PTL DEF IctSpec

\* The transaction acknowledges the failures it passed up, and nothing else.
THEOREM AckExactlyForFailure == IctSpec => []AckOnlyForFailure
  <1>1. IctInit => IInv
    BY TypeInit DEF IctInit, IInv, ToldByState, Untold, OutcomeOnce, AckOnlyForFailure, Events
  <1>2. IInv => AckOnlyForFailure
    BY DEF IInv
  <1> QED BY <1>1, <1>2, ToldStep, PTL DEF IctSpec

-----------------------------------------------------------------------------
\* No step strands the FSM without the timer its state waits for.
LEMMA WatchdogStep == TypeOK /\ Watchdog /\ [IctNext]_ictVars => Watchdog'
  <1> SUFFICES ASSUME TypeOK, Watchdog, [IctNext]_ictVars PROVE Watchdog'
    OBVIOUS
  <1> USE DEF Watchdog, Pending
  <1>1. CASE Started_2_Calling_X_send
    BY <1>1 DEF Started_2_Calling_X_send
  <1>2. CASE Calling_2_Calling_X_timerA
    BY <1>2 DEF Calling_2_Calling_X_timerA, Fires
  <1>3. CASE \/ Calling_2_Terminated_X_timerB \/ Completed_2_Terminated_X_timerD
             \/ Accepted_2_Terminated_X_timerM \/ Any_2_Terminated_X_cancel
    <2>1. state' = "Terminated"
      BY <1>3 DEF Calling_2_Terminated_X_timerB, Completed_2_Terminated_X_timerD,
                  Accepted_2_Terminated_X_timerM, Any_2_Terminated_X_cancel, Leave
    <2> QED BY <2>1
  <1>4. CASE Calling_2_Proceeding_X_1xx \/ Proceeding_2_Proceeding_X_1xx
    <2>1. state' \in {"Proceeding", "Terminated"}
      BY <1>4 DEF Calling_2_Proceeding_X_1xx, Proceeding_2_Proceeding_X_1xx, Leave
    <2> QED BY <2>1
  <1>5. CASE Calling_2_Accepted_X_2xx \/ Proceeding_2_Accepted_X_2xx
    <2>1. state' = "Terminated" \/ (state' = "Accepted" /\ "M" \in armed')
      BY <1>5 DEF Calling_2_Accepted_X_2xx, Proceeding_2_Accepted_X_2xx, Accept, Leave
    <2> QED BY <2>1
  <1>6. CASE Accepted_2_Accepted_X_2xx
    BY <1>6 DEF Accepted_2_Accepted_X_2xx
  <1>7. CASE Calling_2_Completed_X_300_to_699 \/ Proceeding_2_Completed_X_300_to_699
    <2>1. reliable' = reliable
      BY <1>7
      DEF Calling_2_Completed_X_300_to_699, Proceeding_2_Completed_X_300_to_699, Fail
    <2>2. PICK d \in Scheduled("D") :
             state' = "Terminated" \/ (state' = "Completed" /\ d \subseteq armed')
      BY <1>7
      DEF Calling_2_Completed_X_300_to_699, Proceeding_2_Completed_X_300_to_699, Fail, Leave
    <2>3. ~reliable => "D" \in d
      BY DEF Scheduled
    <2> QED BY <2>1, <2>2, <2>3
  <1>8. CASE Completed_2_Completed_X_300_to_699
    <2>1. /\ state = "Completed" /\ late' = late /\ reliable' = reliable
          /\ state' = "Terminated" \/ (state' = "Completed" /\ armed' = armed)
      BY <1>8 DEF Completed_2_Completed_X_300_to_699, Leave
    <2> QED BY <2>1
  <1>9. CASE TimerThread
    <2>1. CASE \E t \in Timers : Dequeue(t)
      BY <2>1 DEF Dequeue
    <2>2. CASE \E t \in Timers : TimerIgnored(t)
      BY <2>2 DEF TimerIgnored, Fires, Expects, Timers
    <2>3. CASE \E t \in Timers : OrphanFires(t) \/ DanglingCallback(t)
      BY <2>3 DEF OrphanFires, DanglingCallback
    <2> QED BY <1>9, <2>1, <2>2, <2>3 DEF TimerThread
  <1>10. CASE UNCHANGED ictVars
    BY <1>10 DEF ictVars
  <1> QED
    BY <1>1, <1>2, <1>3, <1>4, <1>5, <1>6, <1>7, <1>8, <1>9, <1>10
    DEF IctNext, Response, TimerHandler

\* A transaction that waits in Calling, Completed or Accepted always has the
\* timer that ends the wait pending or under way.
THEOREM AlwaysWatched == IctSpec => []Watchdog
  <1>1. IctInit => Watchdog
    BY DEF IctInit, Watchdog
  <1> QED BY <1>1, TypeInit, TypeStep, WatchdogStep, PTL DEF IctSpec

-----------------------------------------------------------------------------
\* A step that does not deliver a provisional response leaves its counter.
LEMMA ProvisionalStep ==
    IInv /\ [IctNext]_ictVars =>
      (told["2xx"] + told["3456"] + told["timedout"] > 0 => told'["1xx"] = told["1xx"])
  <1> SUFFICES ASSUME IInv, [IctNext]_ictVars,
                      told["2xx"] + told["3456"] + told["timedout"] > 0
               PROVE  told'["1xx"] = told["1xx"]
    OBVIOUS
  <1>0. TypeOK /\ state \notin {"Calling", "Proceeding"}
    BY DEF IInv, ToldByState, Untold
  <1>1. CASE Accepted_2_Accepted_X_2xx
    BY <1>0, <1>1, DeliverCounts DEF Accepted_2_Accepted_X_2xx, Events
  <1>2. CASE told' = told
    BY <1>2
  <1>3. IctNext /\ ~Accepted_2_Accepted_X_2xx => told' = told
    BY <1>0
    DEF IctNext, Response, TimerHandler, TimerThread, Started_2_Calling_X_send,
        Calling_2_Calling_X_timerA, Calling_2_Terminated_X_timerB,
        Completed_2_Terminated_X_timerD, Accepted_2_Terminated_X_timerM,
        Calling_2_Proceeding_X_1xx, Proceeding_2_Proceeding_X_1xx,
        Calling_2_Accepted_X_2xx, Proceeding_2_Accepted_X_2xx, Accept,
            Calling_2_Completed_X_300_to_699, Proceeding_2_Completed_X_300_to_699, Fail,
        Completed_2_Completed_X_300_to_699, Any_2_Terminated_X_cancel,
        Dequeue, TimerIgnored, OrphanFires, DanglingCallback
  <1> QED BY <1>1, <1>2, <1>3 DEF ictVars

\* A provisional response after the final one never reaches the dialog.
THEOREM NoLateProvisional == IctSpec => NoProvisionalAfterFinal
  <1>1. IctInit => IInv
    BY TypeInit DEF IctInit, IInv, ToldByState, Untold, OutcomeOnce, AckOnlyForFailure, Events
  <1> QED BY <1>1, ToldStep, ProvisionalStep, PTL DEF IctSpec, NoProvisionalAfterFinal

-----------------------------------------------------------------------------
(***************************************************************************)
(* Refinement.  The reason a transaction ended is recorded with its end,   *)
(* so a transaction that has not ended has not been dropped (Undropped).   *)
(***************************************************************************)
Undropped == state # "Terminated" => why = "none"

RInv == IInv /\ Undropped

\* The end of a handler records a reason exactly when the FSM ends.
LEMMA UndroppedStep == RInv /\ [IctNext]_ictVars => Undropped'
  BY DEF RInv, Undropped, IctNext, Response, TimerHandler, TimerThread, Started_2_Calling_X_send,
        Calling_2_Calling_X_timerA, Calling_2_Terminated_X_timerB,
        Completed_2_Terminated_X_timerD, Accepted_2_Terminated_X_timerM,
        Calling_2_Proceeding_X_1xx, Proceeding_2_Proceeding_X_1xx,
        Calling_2_Accepted_X_2xx, Proceeding_2_Accepted_X_2xx, Accept,
            Accepted_2_Accepted_X_2xx, Calling_2_Completed_X_300_to_699,
                Proceeding_2_Completed_X_300_to_699, Fail,
        Completed_2_Completed_X_300_to_699, Any_2_Terminated_X_cancel,
        Dequeue, TimerIgnored, OrphanFires, DanglingCallback, Leave, ictVars

\* Every step of the transaction is one of ClientTransac, or a stutter.
LEMMA RefinementStep ==
    ASSUME RInv, [IctNext]_ictVars
    PROVE  [Abstract!Next]_(Abstract!abstractVars)
  <1>0. TypeOK /\ ToldByState /\ Undropped
    BY DEF RInv, IInv
  <1>t. /\ told["1xx"] \in Nat /\ told["2xx"] \in Nat
        /\ told["3456"] \in Nat /\ told["timedout"] \in Nat
    BY <1>0, MaxToldAssumption DEF TypeOK, Events
  <1> USE DEF Abstract!Next, Abstract!abstractVars, Abstract!Begin, Abstract!Conclude,
              Abstract!Close, Abstract!Drop, Phase, Verdict
  <1>1. CASE Started_2_Calling_X_send
    BY <1>1 DEF Started_2_Calling_X_send
  <1>2. CASE Calling_2_Calling_X_timerA \/ TimerThread \/ UNCHANGED ictVars
    BY <1>2 DEF Calling_2_Calling_X_timerA, TimerThread, Dequeue, TimerIgnored,
                OrphanFires, DanglingCallback, ictVars
  <1>3. CASE Calling_2_Terminated_X_timerB
    <2>1. /\ told'["timedout"] > 0 /\ told'["timedout"] \in Nat
          /\ told["timedout"] = 0 => told'["timedout"] = 1
          /\ told'["2xx"] = told["2xx"] /\ told'["3456"] = told["3456"]
      BY <1>0, <1>3, DeliverCounts DEF Calling_2_Terminated_X_timerB, Events
    <2>2. state = "Calling" /\ state' = "Terminated" /\ why' = "timer"
      BY <1>3 DEF Calling_2_Terminated_X_timerB, Leave
    <2> QED BY <1>0, <1>t, <2>1, <2>2 DEF ToldByState, Untold, Undropped
  <1>4. CASE Completed_2_Terminated_X_timerD \/ Accepted_2_Terminated_X_timerM
    <2>1. /\ state \in {"Completed", "Accepted"} /\ state' = "Terminated"
          /\ why' = "timer" /\ told' = told
      BY <1>4 DEF Completed_2_Terminated_X_timerD, Accepted_2_Terminated_X_timerM, Leave
    <2> QED BY <1>0, <1>t, <2>1 DEF ToldByState, Undropped
  <1>5. CASE Any_2_Terminated_X_cancel
    <2>1. /\ state \notin {"Started", "Terminated"} /\ state' = "Terminated"
          /\ why' = "cancel" /\ told' = told
      BY <1>5 DEF Any_2_Terminated_X_cancel, Leave
    <2> QED BY <2>1
  <1>6. CASE Calling_2_Proceeding_X_1xx \/ Proceeding_2_Proceeding_X_1xx
    <2>1. /\ told'["timedout"] = told["timedout"] /\ told'["2xx"] = told["2xx"]
          /\ told'["3456"] = told["3456"]
      BY <1>0, <1>6, DeliverCounts
      DEF Calling_2_Proceeding_X_1xx, Proceeding_2_Proceeding_X_1xx, Events
    <2>2. /\ state \in {"Calling", "Proceeding"}
          /\ \/ state' = "Proceeding" /\ why' = why
             \/ state' = "Terminated" /\ why' = "dialog"
      BY <1>6 DEF Calling_2_Proceeding_X_1xx, Proceeding_2_Proceeding_X_1xx, Leave
    <2> QED BY <2>1, <2>2
  <1>7. CASE Calling_2_Accepted_X_2xx \/ Proceeding_2_Accepted_X_2xx
    <2>1. told'["2xx"] > 0 /\ told'["2xx"] \in Nat
      BY <1>0, <1>7, DeliverCounts
      DEF Calling_2_Accepted_X_2xx, Proceeding_2_Accepted_X_2xx, Accept, Events
    <2>2. /\ state \in {"Calling", "Proceeding"}
          /\ \/ state' = "Accepted" /\ why' = why
             \/ state' = "Terminated" /\ why' = "dialog"
      BY <1>7 DEF Calling_2_Accepted_X_2xx, Proceeding_2_Accepted_X_2xx, Accept, Leave
    <2> QED BY <1>0, <1>t, <2>1, <2>2 DEF ToldByState, Untold, Undropped
  <1>8. CASE Accepted_2_Accepted_X_2xx
    <2>1. told'["2xx"] > 0 /\ told'["2xx"] \in Nat
      BY <1>0, <1>8, DeliverCounts DEF Accepted_2_Accepted_X_2xx, Events
    <2>2. state = "Accepted" /\ state' = state /\ why' = why /\ told["2xx"] > 0
      BY <1>0, <1>8 DEF Accepted_2_Accepted_X_2xx, ToldByState
    <2> QED BY <1>t, <2>1, <2>2
  <1>9. CASE Calling_2_Completed_X_300_to_699 \/ Proceeding_2_Completed_X_300_to_699
    <2>1. state \in {"Calling", "Proceeding"} /\ Fail
      BY <1>9 DEF Calling_2_Completed_X_300_to_699, Proceeding_2_Completed_X_300_to_699
    <2>2. CASE Deliver("3456")
      <3>1. /\ told'["3456"] > 0 /\ told'["3456"] \in Nat
            /\ told["3456"] = 0 => told'["3456"] = 1
            /\ told'["2xx"] = told["2xx"]
        BY <1>0, <2>2, DeliverCounts DEF Events
      <3>2. \/ state' = "Completed" /\ why' = why
            \/ state' = "Terminated" /\ why' \in {"dialog", "send"}
        BY <2>1 DEF Fail, Leave
      <3> QED BY <1>0, <1>t, <2>1, <3>1, <3>2 DEF ToldByState, Untold, Undropped
    <2>3. CASE ~Deliver("3456")
      <3>1. told' = told /\ state' = "Terminated" /\ why' = "send"
        BY <2>1, <2>3 DEF Fail, Leave
      <3> QED BY <2>1, <3>1
    <2> QED BY <2>2, <2>3
  <1>10. CASE Completed_2_Completed_X_300_to_699
    <2>1. /\ state = "Completed" /\ told' = told
          /\ \/ state' = "Completed" /\ why' = why
             \/ state' = "Terminated" /\ why' = "send"
      BY <1>10 DEF Completed_2_Completed_X_300_to_699, Leave
    <2> QED BY <2>1
  <1> QED
    BY <1>1, <1>2, <1>3, <1>4, <1>5, <1>6, <1>7, <1>8, <1>9, <1>10
    DEF IctNext, Response, TimerHandler

\* The INVITE client transaction implements ClientTransac, sends failing or not:
\* it goes away without a verdict only when the dialog or the transport gave up.
THEOREM Implements == IctSpec => ImplementsClientTransac
  <1>1. IctInit => RInv
    BY TypeInit
    DEF IctInit, RInv, IInv, Undropped, ToldByState, Untold, OutcomeOnce, AckOnlyForFailure,
        Events
  <1>2. RInv /\ [IctNext]_ictVars => RInv'
    BY ToldStep, UndroppedStep DEF RInv
  <1>3. IctInit => Abstract!Init
    BY DEF IctInit, Abstract!Init, Phase, Verdict, Events
  <1>4. RInv /\ [IctNext]_ictVars => [Abstract!Next]_(Abstract!abstractVars)
    BY RefinementStep
  <1> QED BY <1>1, <1>2, <1>3, <1>4, PTL DEF IctSpec, ImplementsClientTransac, Abstract!Spec

-----------------------------------------------------------------------------
(***************************************************************************)
(* The INVITE transactions.  An ACK is the caller's word only because of a *)
(* chain of reasons: what is on either wire, owed or counted has its       *)
(* reason on the other side, and the answer, once given, stands.           *)
(***************************************************************************)
CallerTypes == /\ cState \in Client!States
               /\ cTold \in [Client!Events -> 0..MaxHeard]

\* What the caller was told, by the state of its FSM; a waiting one, nothing final.
CallerWaits == cState \in {"Started", "Calling", "Proceeding"}
CallerInv == /\ CallerWaits => /\ cTold["2xx"] = 0 /\ cTold["3456"] = 0
                               /\ cTold["timedout"] = 0
             /\ cState = "Accepted" => cTold["2xx"] > 0
             /\ cState = "Completed" => cTold["3456"] > 0

\* The callee's answer, by the state of its FSM.
CalleeInv == /\ sState \in Server!States
             /\ sState \in {"Started", "Proceeding"} => sLast \notin {"2xx", "3456"}
             /\ sState = "Accepted" => sLast = "2xx"
             /\ sState \in {"Completed", "Confirmed"} => sLast = "3456"

\* What comes from the callee, and what the caller was told, is the callee's answer.
AnswerTravels == \A r \in {"2xx", "3456"} : r \in toClient \/ cTold[r] > 0 => sLast = r

\* An ACK is owed or sent only by a caller who was told the answer.
AckTravels == /\ owed => cTold["2xx"] > 0
              /\ "ACK" \in toServer => cTold["2xx"] > 0 \/ cTold["3456"] > 0

InviteInv == /\ CallerTypes /\ CallerInv /\ CalleeInv
             /\ AnswerTravels /\ AckTravels /\ AckMeansTold

-----------------------------------------------------------------------------
LEMMA CallerDelivers ==
    ASSUME CallerTypes, NEW e \in Client!Events, Client!Deliver(e)
    PROVE  /\ cTold' \in [Client!Events -> 0..MaxHeard]
           /\ \A f \in Client!Events \ {e} : cTold'[f] = cTold[f]
           /\ cTold'[e] > 0
  BY BoundsAssumption DEF CallerTypes, Client!Deliver

\* A step of the caller is harmless if it is told no more than what is on its way.
LEMMA CallerSide ==
    ASSUME InviteInv, UNCHANGED serverVars, toClient' \subseteq toClient,
           CallerTypes', CallerInv', AckTravels',
           \A r \in {"2xx", "3456"} : cTold'[r] > 0 => cTold[r] > 0 \/ r \in toClient,
           \A r \in {"2xx", "3456"} : cTold[r] > 0 => cTold'[r] > 0
    PROVE  InviteInv'
  <1>1. UNCHANGED <<sState, sLast, sAcked>>
    BY DEF serverVars
  <1>2. CalleeInv' /\ AnswerTravels'
    BY <1>1 DEF InviteInv, CalleeInv, AnswerTravels
  <1>3. AckMeansTold'
    BY <1>1 DEF InviteInv, AckMeansTold
  <1> QED BY <1>2, <1>3 DEF InviteInv

\* A step of the callee is harmless if its answer, once given, stands, and is what it sends.
LEMMA CalleeSide ==
    ASSUME InviteInv, UNCHANGED <<cState, cTold>>, CalleeInv', AckTravels', AckMeansTold',
           sLast \in {"2xx", "3456"} => sLast' = sLast,
           \A r \in {"2xx", "3456"} : r \in toClient' => r \in toClient \/ sLast' = r
    PROVE  InviteInv'
  <1>1. CallerTypes' /\ CallerInv'
    BY DEF InviteInv, CallerTypes, CallerInv, CallerWaits
  <1>2. AnswerTravels'
    BY DEF InviteInv, AnswerTravels
  <1> QED BY <1>1, <1>2 DEF InviteInv

\* The same for a step that takes no ACK and keeps what it has taken.
LEMMA CalleeElsewhere ==
    ASSUME InviteInv, UNCHANGED <<cState, cTold, owed, sAcked>>, toServer' \subseteq toServer,
           CalleeInv', sState' = "Confirmed" => sState = "Confirmed",
           sLast \in {"2xx", "3456"} => sLast' = sLast,
           \A r \in {"2xx", "3456"} : r \in toClient' => r \in toClient \/ sLast' = r
    PROVE  InviteInv'
  <1>1. AckTravels' /\ AckMeansTold'
    BY DEF InviteInv, AckTravels, AckMeansTold
  <1> QED BY <1>1, CalleeSide

\* The caller's transaction starts, or is told something provisional: nothing final.
LEMMA CallerQuiet ==
    ASSUME InviteInv, ClientStart \/ Client1xx
    PROVE  /\ InviteInv'
           /\ UNCHANGED <<sLast, cTold["2xx"], cTold["3456"], cTold["timedout"]>>
  <1>1. CallerTypes /\ CallerInv /\ AckTravels
    BY DEF InviteInv
  <1>2. CASE ClientStart
    <2>1. /\ UNCHANGED <<serverVars, toClient, owed, cTold>>
          /\ cState' = "Calling" /\ cState = "Started"
          /\ "ACK" \in toServer' => "ACK" \in toServer
      BY <1>2 DEF ClientStart, ClientAlone, Client!Started_2_Calling_X_send,
            Client!SendResults
    <2>2. CallerTypes' /\ CallerInv' /\ AckTravels'
      BY <1>1, <2>1
      DEF CallerTypes, CallerInv, CallerWaits, AckTravels, Client!States
    <2> QED BY <2>1, <2>2, CallerSide DEF serverVars
  <1>3. CASE Client1xx
    <2>1. /\ UNCHANGED <<serverVars, owed, toServer>> /\ toClient' \subseteq toClient
          /\ Client!Deliver("1xx")
          /\ CallerWaits /\ cState' = "Proceeding"
      BY <1>3 DEF Client1xx, FromServer, Client!Calling_2_Proceeding_X_1xx,
            Client!Proceeding_2_Proceeding_X_1xx, Client!Leave, CallerWaits
    <2>2. /\ cTold' \in [Client!Events -> 0..MaxHeard]
          /\ UNCHANGED <<cTold["2xx"], cTold["3456"], cTold["timedout"]>>
      BY <1>1, <2>1, CallerDelivers DEF Client!Events
    <2>3. CallerTypes' /\ CallerInv' /\ AckTravels'
      BY <1>1, <2>1, <2>2
      DEF CallerTypes, CallerInv, CallerWaits, AckTravels, Client!States
    <2> QED BY <2>1, <2>2, <2>3, CallerSide DEF serverVars
  <1> QED BY <1>2, <1>3

\* The caller is told the answer that has arrived.
LEMMA CallerIsTold ==
    ASSUME InviteInv, Client2xx \/ Client3456
    PROVE  /\ InviteInv'
           /\ UNCHANGED <<sLast, cTold["timedout"]>>
           /\ \/ UNCHANGED cTold /\ cTold["3456"] > 0
              \/ \E r \in {"2xx", "3456"} :
                    /\ r \in toClient /\ cTold'[r] > 0
                    /\ \A f \in Client!Events \ {r} : cTold'[f] = cTold[f]
                    /\ CallerWaits \/ (r = "2xx" /\ cTold["2xx"] > 0)
  <1>1. CallerTypes /\ CallerInv /\ AckTravels
    BY DEF InviteInv
  <1>2. CASE Client2xx
    <2>1. /\ UNCHANGED <<serverVars, toServer>> /\ toClient' \subseteq toClient
          /\ Client!Deliver("2xx") /\ "2xx" \in toClient
          /\ CallerWaits \/ cState = "Accepted"
          /\ cState' = "Accepted"
      BY <1>2 DEF Client2xx, FromServer, Client!Calling_2_Accepted_X_2xx,
            Client!Proceeding_2_Accepted_X_2xx, Client!Accepted_2_Accepted_X_2xx,
            Client!Accept, Client!Leave, CallerWaits
    <2>2. /\ cTold' \in [Client!Events -> 0..MaxHeard] /\ cTold'["2xx"] > 0
          /\ \A f \in Client!Events \ {"2xx"} : cTold'[f] = cTold[f]
      BY <1>1, <2>1, CallerDelivers DEF Client!Events
    <2>3. cTold'["3456"] = cTold["3456"] /\ cTold'["timedout"] = cTold["timedout"]
      BY <2>2 DEF Client!Events
    <2>4. CallerTypes' /\ CallerInv' /\ AckTravels'
      BY <1>1, <2>1, <2>2, <2>3
      DEF CallerTypes, CallerInv, CallerWaits, AckTravels, Client!States
    <2>5. InviteInv'
      BY <2>1, <2>2, <2>3, <2>4, CallerSide
    <2> QED BY <1>1, <2>1, <2>2, <2>3, <2>5 DEF CallerInv, serverVars
  <1>3. CASE Client3456
    <2>1. /\ UNCHANGED <<serverVars, owed>> /\ toClient' \subseteq toClient
          /\ "3456" \in toClient /\ cState' = "Completed"
          /\ \/ CallerWaits /\ Client!Deliver("3456")
             \/ cState = "Completed" /\ UNCHANGED cTold
      BY <1>3
      DEF Client3456, FromServer, Client!Calling_2_Completed_X_300_to_699,
          Client!Proceeding_2_Completed_X_300_to_699, Client!Fail,
          Client!Completed_2_Completed_X_300_to_699, Client!Leave, CallerWaits
    <2>2. /\ cTold' \in [Client!Events -> 0..MaxHeard] /\ cTold'["3456"] > 0
          /\ \A f \in Client!Events \ {"3456"} : cTold'[f] = cTold[f]
      BY <1>1, <2>1, CallerDelivers DEF CallerTypes, CallerInv, Client!Events
    <2>3. cTold'["2xx"] = cTold["2xx"] /\ cTold'["timedout"] = cTold["timedout"]
      BY <2>2 DEF Client!Events
    <2>4. CallerTypes' /\ CallerInv' /\ AckTravels'
      BY <1>1, <2>1, <2>2, <2>3
      DEF CallerTypes, CallerInv, CallerWaits, AckTravels, Client!States
    <2>5. InviteInv'
      BY <2>1, <2>2, <2>3, <2>4, CallerSide
    <2> QED BY <1>1, <2>1, <2>2, <2>3, <2>5 DEF CallerInv, serverVars
  <1> QED BY <1>2, <1>3

\* The caller's timers: one of them ends its wait with a timeout.
LEMMA CallerTimes ==
    ASSUME InviteInv, ClientTimer
    PROVE  /\ InviteInv'
           /\ UNCHANGED <<sLast, cTold["2xx"], cTold["3456"]>>
           /\ \/ UNCHANGED cTold
              \/ CallerWaits /\ cTold'["timedout"] > 0
  <1>1. CallerTypes /\ CallerInv /\ AckTravels
    BY DEF InviteInv
  <1>2. UNCHANGED <<serverVars, toClient, owed, sLast>>
    BY DEF ClientTimer, ClientAlone, serverVars
  <1>3. CASE \/ Client!Completed_2_Terminated_X_timerD
             \/ Client!Accepted_2_Terminated_X_timerM
             \/ Client!Calling_2_Calling_X_timerA
             \/ \E t \in Client!Timers :
                   Client!Dequeue(t) \/ Client!TimerIgnored(t)
    <2>1. /\ UNCHANGED cTold
          /\ cState' = cState \/ cState' = "Terminated"
          /\ "ACK" \in toServer' => "ACK" \in toServer
      BY <1>3
      DEF Client!Completed_2_Terminated_X_timerD, Client!Leave,
          Client!Accepted_2_Terminated_X_timerM, Client!Calling_2_Calling_X_timerA,
          Client!SendResults, Client!Dequeue, Client!TimerIgnored
    <2>2. CallerTypes' /\ CallerInv' /\ AckTravels'
      BY <1>1, <1>2, <2>1
      DEF CallerTypes, CallerInv, CallerWaits, AckTravels, Client!States
    <2> QED BY <1>2, <2>1, <2>2, CallerSide
  <1>4. CASE Client!Calling_2_Terminated_X_timerB
    <2>1. /\ CallerWaits /\ Client!Deliver("timedout") /\ cState' = "Terminated"
          /\ toServer' = toServer
      BY <1>4
      DEF Client!Calling_2_Terminated_X_timerB, Client!Leave, CallerWaits
    <2>2. /\ cTold' \in [Client!Events -> 0..MaxHeard] /\ cTold'["timedout"] > 0
          /\ cTold'["2xx"] = cTold["2xx"] /\ cTold'["3456"] = cTold["3456"]
      BY <1>1, <2>1, CallerDelivers DEF Client!Events
    <2>3. CallerTypes' /\ CallerInv' /\ AckTravels'
      BY <1>1, <1>2, <2>1, <2>2
      DEF CallerTypes, CallerInv, CallerWaits, AckTravels, Client!States
    <2> QED BY <1>2, <2>1, <2>2, <2>3, CallerSide
  <1> QED BY <1>3, <1>4 DEF ClientTimer, Client!TimerHandler

\* The caller's dialog sends the ACK it owes.
LEMMA CallerAcks ==
    ASSUME InviteInv, DialogAck
    PROVE  InviteInv' /\ UNCHANGED <<sLast, cTold>>
  <1>1. /\ UNCHANGED <<cState, cTold, serverVars, toClient>>
        /\ owed /\ ~owed'
    BY DEF DialogAck, clientVars
  <1>2. CallerTypes' /\ CallerInv' /\ AckTravels'
    BY <1>1 DEF InviteInv, CallerTypes, CallerInv, CallerWaits, AckTravels
  <1> QED BY <1>1, <1>2, CallerSide DEF serverVars

-----------------------------------------------------------------------------
\* The INVITE arrives, once more or for the first time.
LEMMA CalleeIsInvited ==
    ASSUME InviteInv, ServerInvite
    PROVE  /\ InviteInv' /\ UNCHANGED cTold
           /\ sLast' = sLast \/ (sLast \notin {"2xx", "3456"} /\ sLast' \notin {"2xx", "3456"})
  <1>1. /\ UNCHANGED <<cState, cTold, owed>> /\ toServer' \subseteq toServer
        /\ sState' # "Terminated"
    BY DEF ServerInvite, clientVars, FromClient
  <1>2. CASE Server!Started_2_Proceeding_X_INVITE
    <2>1. /\ sState = "Started" /\ sState' = "Proceeding" /\ sLast' = "1xx"
          /\ toClient' = toClient \cup {"1xx"} /\ sAcked' = sAcked
      BY <1>1, <1>2 DEF Server!Started_2_Proceeding_X_INVITE, Server!Leave
    <2>2. CalleeInv' /\ sLast \notin {"2xx", "3456"}
      BY <2>1 DEF InviteInv, CalleeInv, Server!States
    <2> QED BY <1>1, <2>1, <2>2, CalleeElsewhere
  <1>3. CASE Server!INVITE
    <2>1. /\ UNCHANGED <<sState, sLast, sAcked>> /\ toClient' = toClient \cup {sLast}
      BY <1>1, <1>3
      DEF Server!INVITE, Server!Proceeding_2_Proceeding_X_INVITE,
          Server!Completed_2_Completed_INVITE, Server!Accepted_2_Accepted_INVITE,
          Server!Repeated, Server!Send, Server!SendResults,
          Server!Leave
    <2>2. CalleeInv'
      BY <2>1 DEF InviteInv, CalleeInv
    <2> QED BY <1>1, <2>1, <2>2, CalleeElsewhere
  <1> QED BY <1>2, <1>3 DEF ServerInvite

\* The ACK arrives; by then the caller was told the answer the callee has given.
LEMMA CalleeIsAcked ==
    ASSUME InviteInv, ServerAck
    PROVE  InviteInv' /\ UNCHANGED <<cTold, sLast>>
  <1>1. /\ UNCHANGED <<cState, cTold, owed>> /\ toServer' \subseteq toServer
        /\ "ACK" \in toServer /\ sState' # "Terminated"
    BY DEF ServerAck, clientVars, FromClient
  <1>2. /\ UNCHANGED <<sLast, toClient>>
        /\ \/ sState = "Completed" /\ sState' = "Confirmed" /\ sAcked' = sAcked
           \/ sState = "Accepted" /\ sState' = "Accepted"
    BY <1>1 DEF ServerAck, Server!ACK, Server!Completed_2_Confirmed_ACK,
          Server!Accepted_2_Accepted_iACK, Server!Leave
  <1>3. cTold["2xx"] > 0 \/ cTold["3456"] > 0
    BY <1>1 DEF InviteInv, AckTravels
  <1>4. /\ sState = "Completed" => cTold["3456"] > 0
        /\ sState = "Accepted" => cTold["2xx"] > 0
    BY <1>3 DEF InviteInv, CalleeInv, AnswerTravels
  <1>5. CalleeInv' /\ AckTravels'
    BY <1>1, <1>2 DEF InviteInv, CalleeInv, AckTravels, Server!States
  <1>6. AckMeansTold'
    BY <1>1, <1>2, <1>4 DEF InviteInv, AckMeansTold
  <1> QED BY <1>1, <1>2, <1>5, <1>6, CalleeSide

\* The callee's dialog rings, answers or leaves: the answer is given once.
LEMMA CalleeSpeaks ==
    ASSUME InviteInv, ServerRings \/ ServerAnswers \/ ServerLeaves
    PROVE  /\ InviteInv' /\ UNCHANGED cTold
           /\ \/ sLast' = sLast
              \/ sLast \notin {"2xx", "3456"} /\ sLast' \in {"1xx", "2xx", "3456"}
  <1>1. UNCHANGED <<cState, cTold, owed, toServer>>
    BY DEF ServerRings, ServerAnswers, ServerLeaves, ServerAlone,
           clientVars
  <1>2. CASE ServerRings
    <2>1. /\ sState = "Proceeding" /\ sState' = "Proceeding" /\ sLast' = "1xx"
          /\ toClient' = toClient \cup {"1xx"} /\ sAcked' = sAcked
      BY <1>2 DEF ServerRings, Server!Proceeding_2_Proceeding_X_1xx,
            Server!Send, Server!SendResults, Server!Leave
    <2>2. CalleeInv' /\ sLast \notin {"2xx", "3456"}
      BY <2>1 DEF InviteInv, CalleeInv
    <2> QED BY <1>1, <2>1, <2>2, CalleeElsewhere
  <1>3. CASE ServerAnswers
    <2>1. /\ sState = "Proceeding" /\ sAcked' = sAcked /\ toClient' = toClient \cup {sLast'}
          /\ \/ sLast' = "2xx" /\ sState' = "Accepted"
             \/ sLast' = "3456" /\ sState' = "Completed"
      BY <1>3
      DEF ServerAnswers, Server!Proceeding_2_Accepted_X_2xx,
          Server!Proceeding_2_Completed_X_300_to_699, Server!Send,
          Server!SendResults, Server!Leave
    <2>2. CalleeInv' /\ sLast \notin {"2xx", "3456"}
      BY <2>1 DEF InviteInv, CalleeInv, Server!States
    <2> QED BY <1>1, <2>1, <2>2, CalleeElsewhere
  <1>4. CASE ServerLeaves
    <2>1. UNCHANGED <<sLast, toClient, sAcked>> /\ sState' = "Terminated"
      BY <1>4 DEF ServerLeaves, Server!Any_2_Terminated_X_cancel,
            Server!Leave
    <2>2. CalleeInv'
      BY <2>1 DEF CalleeInv, Server!States
    <2> QED BY <1>1, <2>1, <2>2, CalleeElsewhere
  <1> QED BY <1>2, <1>3, <1>4

\* The callee's timers repeat the answer, or end the transaction.
LEMMA CalleeTimes ==
    ASSUME InviteInv,
           \/ \E t \in Server!Timers : ServerDequeue(t) \/ ServerIgnores(t)
           \/ ServerRepeats \/ ServerEnds
    PROVE  InviteInv' /\ UNCHANGED <<cTold, sLast>>
  <1>1. UNCHANGED <<cState, cTold, owed, toServer>>
    BY DEF ServerDequeue, ServerIgnores, ServerRepeats, ServerEnds,
           ServerAlone, clientVars
  <1>2. CASE \E t \in Server!Timers : ServerDequeue(t) \/ ServerIgnores(t)
    <2>1. UNCHANGED <<sState, sLast, sAcked, toClient>>
      BY <1>2 DEF ServerDequeue, ServerIgnores, Server!Dequeue,
            Server!TimerIgnored
    <2>2. CalleeInv'
      BY <2>1 DEF InviteInv, CalleeInv
    <2> QED BY <1>1, <2>1, <2>2, CalleeElsewhere
  <1>3. CASE ServerRepeats
    <2>1. UNCHANGED <<sState, sLast, sAcked>> /\ toClient' = toClient \cup {sLast}
      BY <1>3
      DEF ServerRepeats, Server!Completed_2_Completed_timerG, Server!Send,
          Server!Accepted_2_Accepted_timerX, Server!SendResults,
          Server!Leave
    <2>2. CalleeInv'
      BY <2>1 DEF InviteInv, CalleeInv
    <2> QED BY <1>1, <2>1, <2>2, CalleeElsewhere
  <1>4. CASE ServerEnds
    <2>1. UNCHANGED <<sLast, sAcked, toClient>> /\ sState' = "Terminated"
      BY <1>4
      DEF ServerEnds, Server!Completed_2_Terminated_timerH,
          Server!Confirmed_2_Terminated_timerI, Server!Accepted_2_Terminated_timerL,
          Server!Leave
    <2>2. CalleeInv'
      BY <2>1 DEF CalleeInv, Server!States
    <2> QED BY <1>1, <2>1, <2>2, CalleeElsewhere
  <1> QED BY <1>2, <1>3, <1>4

\* The network only takes away; nobody else does anything.
LEMMA NobodyActs ==
    ASSUME InviteInv, Lose \/ UNCHANGED vars
    PROVE  InviteInv' /\ UNCHANGED <<cTold, sLast>>
  <1>1. /\ UNCHANGED <<cState, cTold, sState, sLast, sAcked, owed>>
        /\ toServer' \subseteq toServer /\ toClient' \subseteq toClient
    BY DEF Lose, vars, clientVars, serverVars
  <1>2. CalleeInv'
    BY <1>1 DEF InviteInv, CalleeInv
  <1> QED BY <1>1, <1>2, CalleeElsewhere

LEMMA ExchangeKeeps == InviteInv /\ [Next]_(vars) => InviteInv'
  BY CallerQuiet, CallerIsTold, CallerTimes, CallerAcks, CalleeIsInvited, CalleeIsAcked,
     CalleeSpeaks, CalleeTimes, NobodyActs
  DEF Next

LEMMA ExchangeBegins == Init => InviteInv
  BY BoundsAssumption
  DEF Init, Client!IctInit, Server!IstInit, InviteInv, CallerTypes, CallerInv,
      CallerWaits, CalleeInv, AnswerTravels, AckTravels, AckMeansTold,
      Client!States, Client!Events, Server!States

\* Whatever is lost, repeated or late: an ACK that the callee's transaction counts is from
\* a caller whose dialog was told that very answer (tsip_transac_ict.c, tsip_transac_ist.c
\* and send_ACK of the INVITE dialog).
THEOREM AckIsMeant == Spec => []AckMeansTold
  <1>1. InviteInv => AckMeansTold
    BY DEF InviteInv
  <1> QED BY <1>1, ExchangeBegins, ExchangeKeeps, PTL DEF Spec

-----------------------------------------------------------------------------
\* Nothing that counts for Exchange.
LEMMA VerdictStays ==
    ASSUME sLast' = sLast \/ (sLast \notin {"2xx", "3456"} /\ sLast' \notin {"2xx", "3456"}),
           cTold'["2xx"] > 0 <=> cTold["2xx"] > 0,
           cTold'["3456"] > 0 <=> cTold["3456"] > 0,
           cTold'["timedout"] > 0 <=> cTold["timedout"] > 0
    PROVE  UNCHANGED Contract!exchangeVars
  BY DEF Contract!exchangeVars

LEMMA ExchangeStep ==
    ASSUME InviteInv, [Next]_(vars)
    PROVE  [Contract!Next]_(Contract!exchangeVars)
  <1>1. CASE ClientStart \/ Client1xx
    BY <1>1, CallerQuiet, VerdictStays
  <1>2. CASE Client2xx \/ Client3456
    <2>1. UNCHANGED <<sLast, cTold["timedout"]>>
      BY <1>2, CallerIsTold
    <2>2. CASE UNCHANGED cTold
      BY <2>1, <2>2, VerdictStays
    <2>3. CASE ~UNCHANGED cTold
      <3>1. PICK r \in {"2xx", "3456"} :
               /\ r \in toClient /\ cTold'[r] > 0
               /\ \A f \in Client!Events \ {r} : cTold'[f] = cTold[f]
               /\ CallerWaits \/ (r = "2xx" /\ cTold["2xx"] > 0)
        BY <1>2, <2>3, CallerIsTold
      <3>2. sLast = r
        BY <3>1 DEF InviteInv, AnswerTravels
      <3>3. CASE CallerWaits
        <4>1. cTold["2xx"] = 0 /\ cTold["3456"] = 0 /\ cTold["timedout"] = 0
          BY <3>3 DEF InviteInv, CallerInv
        <4>2. \A f \in {"2xx", "3456"} : f # r => cTold'[f] = 0
          BY <3>1, <4>1 DEF Client!Events
        <4>3. {sLast'} \cap {"2xx", "3456"} = {sLast} \cap {"2xx", "3456"}
          BY <2>1
        <4>4. r \in {sLast} \cap {"2xx", "3456"}
          BY <3>1, <3>2
        <4> QED BY <3>1, <4>1, <4>2, <4>3, <4>4
            DEF Contract!Next, Contract!Conclude, Contract!Verdicts
      <3>4. CASE r = "2xx" /\ cTold["2xx"] > 0
        <4>1. cTold'["3456"] = cTold["3456"] /\ cTold'["timedout"] = cTold["timedout"]
          BY <3>1, <3>4 DEF Client!Events
        <4> QED BY <2>1, <3>1, <3>4, <4>1, VerdictStays
      <3> QED BY <3>1, <3>3, <3>4
    <2> QED BY <2>2, <2>3
  <1>3. CASE ClientTimer
    <2>1. UNCHANGED <<sLast, cTold["2xx"], cTold["3456"]>>
      BY <1>3, CallerTimes
    <2>2. CASE UNCHANGED cTold
      BY <2>1, <2>2, VerdictStays
    <2>3. CASE CallerWaits /\ cTold'["timedout"] > 0
      <3>1. cTold["2xx"] = 0 /\ cTold["3456"] = 0 /\ cTold["timedout"] = 0
        BY <2>3 DEF InviteInv, CallerInv
      <3> QED BY <2>1, <2>3, <3>1
          DEF Contract!Next, Contract!Conclude, Contract!Verdicts
    <2> QED BY <1>3, <2>2, <2>3, CallerTimes
  <1>4. CASE DialogAck
    BY <1>4, CallerAcks, VerdictStays
  <1>5. CASE ServerInvite
    BY <1>5, CalleeIsInvited, VerdictStays
  <1>6. CASE ServerAck
    BY <1>6, CalleeIsAcked, VerdictStays
  <1>7. CASE ServerRings \/ ServerAnswers \/ ServerLeaves
    <2>1. /\ UNCHANGED cTold
          /\ \/ sLast' = sLast
             \/ sLast \notin {"2xx", "3456"} /\ sLast' \in {"1xx", "2xx", "3456"}
      BY <1>7, CalleeSpeaks
    <2>2. CASE sLast \notin {"2xx", "3456"} /\ sLast' \in {"2xx", "3456"}
      <3>1. /\ {sLast} \cap {"2xx", "3456"} = {}
            /\ {sLast'} \cap {"2xx", "3456"} = {} \cup {sLast'}
        BY <2>2
      <3> QED BY <2>1, <2>2, <3>1 DEF Contract!Next, Contract!Answer
    <2>3. CASE ~(sLast \notin {"2xx", "3456"} /\ sLast' \in {"2xx", "3456"})
      BY <2>1, <2>3, VerdictStays
    <2> QED BY <2>2, <2>3
  <1>8. CASE \/ \E t \in Server!Timers :
                   ServerDequeue(t) \/ ServerIgnores(t)
             \/ ServerRepeats \/ ServerEnds
    <2>1. UNCHANGED <<cTold, sLast>>
      BY <1>8, CalleeTimes
    <2> QED BY <2>1, VerdictStays
  <1>9. CASE Lose \/ UNCHANGED vars
    <2>1. UNCHANGED <<cTold, sLast>>
      BY <1>9, NobodyActs
    <2> QED BY <2>1, VerdictStays
  <1> QED BY <1>1, <1>2, <1>3, <1>4, <1>5, <1>6, <1>7, <1>8, <1>9 DEF Next

\* The two transactions, with what their dialogs do, and the network between them implement
\* Exchange: the caller's dialog is told the answer of the callee's dialog or of a timeout,
\* and one of them, once, however many copies of the answer arrive.
THEOREM ImplementsTheExchange == Spec => ImplementsExchange
  <1>1. Init => Contract!Init
    BY DEF Init, Contract!Init, Client!IctInit, Server!IstInit,
           Client!Events
  <1>2. InviteInv /\ [Next]_(vars)
            => [Contract!Next]_(Contract!exchangeVars)
    BY ExchangeStep
  <1> QED BY <1>1, <1>2, ExchangeBegins, ExchangeKeeps, PTL
      DEF Spec, ImplementsExchange, Contract!Spec
=============================================================================
