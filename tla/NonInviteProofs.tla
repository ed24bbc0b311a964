---------------------------- MODULE NonInviteProofs ----------------------------
(***************************************************************************)
(* Theorems about a non-INVITE request, for every bound on the counters:   *)
(* about the client transaction alone, whose sends may fail, and then      *)
(* about the exchange with its server transaction, whatever the network    *)
(* loses, repeats or reorders.                                             *)
(***************************************************************************)
EXTENDS TransacNICT, NonInviteTransac, TLAPS

-----------------------------------------------------------------------------
(***************************************************************************)
(* The client transaction.  What the dialog was told is tied to the state  *)
(* of the FSM (ToldByState), and the timer that repeats the request to the *)
(* transport: a stream has none, so cancelling RetransmissionTimers always *)
(* cancels timer E (StreamNeverRepeats).                                   *)
(***************************************************************************)

Untold == told["final"] = 0 /\ told["timedout"] = 0 /\ told["transport_error"] = 0

ToldByState ==
    /\ state \in {"Started", "Trying", "Proceeding"} => Untold
    /\ state = "Completed" => /\ told["final"] = 1 /\ told["timedout"] = 0
                              /\ told["transport_error"] = 0

StreamNeverRepeats == /\ state = "Started" => Pending = {}
                      /\ reliable => "E" \notin Pending

IInv == TypeOK /\ ToldByState /\ OutcomeOnce

-----------------------------------------------------------------------------
\* The destructor only ever takes timers away, and a transport has no other
\* retransmission timer than E.
LEMMA TimerSets ==
    /\ RetransmissionTimers \subseteq {"E"}
    /\ ~reliable => RetransmissionTimers = {"E"}
    /\ armed \subseteq Timers => Destroyed(armed) \subseteq Timers
    /\ Destroyed(armed) \subseteq armed
  BY DEF RetransmissionTimers, Destroyed

\* Delivering an event keeps the counters counters, and touches one of them.
LEMMA DeliverCounts ==
    ASSUME TypeOK, NEW e \in Events, Deliver(e)
    PROVE  /\ told' \in [Events -> 0..MaxTold]
           /\ told'[e] \in Nat /\ told'[e] > 0
           /\ told[e] = 0 => told'[e] = 1
           /\ \A f \in Events \ {e} : told'[f] = told[f]
  BY MaxToldAssumption DEF TypeOK, Deliver

\* The counters, by name.
LEMMA Counters ==
    TypeOK => told["final"] \in Nat /\ told["timedout"] \in Nat /\ told["transport_error"] \in Nat
  BY MaxToldAssumption DEF TypeOK, Events

\* The type invariant of the transaction is inductive.
LEMMA TypeStep == TypeOK /\ [NictNext]_nictVars => TypeOK'
  <1> SUFFICES ASSUME TypeOK, [NictNext]_nictVars PROVE TypeOK'
    OBVIOUS
  <1> USE TimerSets DEF TypeOK
  <1>1. CASE Started_2_Trying_X_send
    <2>1. RetransmissionTimers' \subseteq {"E"}
      BY DEF RetransmissionTimers
    <2> QED BY <1>1, <2>1 DEF Started_2_Trying_X_send, States, Timers, SendResults
  <1>2. CASE Trying_2_Trying_X_timerE \/ Proceeding_2_Proceeding_X_timerE
    BY <1>2 DEF Trying_2_Trying_X_timerE, Proceeding_2_Proceeding_X_timerE, Repeat, Fires,
                Timers, SendResults
  <1>3. CASE Trying_2_Terminated_X_timerF
    BY <1>3, DeliverCounts
    DEF Trying_2_Terminated_X_timerF, End, Fires, States, Events, Reasons
  <1>4. CASE Proceeding_2_Terminated_X_timerF
    BY <1>4, DeliverCounts
    DEF Proceeding_2_Terminated_X_timerF, End, Fires, States, Events, Reasons
  <1>5. CASE Completed_2_Terminated_X_timerK \/ Any_2_Terminated_X_cancel
    BY <1>5 DEF Completed_2_Terminated_X_timerK, Any_2_Terminated_X_cancel, End, Fires,
                States, Reasons
  <1>6. CASE Trying_2_Proceedding_X_1xx \/ Proceeding_2_Proceeding_X_1xx
    BY <1>6, DeliverCounts
    DEF Trying_2_Proceedding_X_1xx, Proceeding_2_Proceeding_X_1xx, States, Events
  <1>7. CASE Trying_2_Completed_X_200_to_699 \/ Proceeding_2_Completed_X_200_to_699
    <2>1. \A k \in Scheduled("K") : k \subseteq Timers
      BY DEF Scheduled, Timers
    <2> QED BY <1>7, <2>1, DeliverCounts
        DEF Trying_2_Completed_X_200_to_699, Proceeding_2_Completed_X_200_to_699, Finish,
            States, Events, Timers
  <1>8. CASE TimerThread
    BY <1>8 DEF TimerThread, Dequeue, TimerIgnored, Fires
  <1>9. CASE UNCHANGED nictVars
    BY <1>9 DEF nictVars
  <1> QED
    BY <1>1, <1>2, <1>3, <1>4, <1>5, <1>6, <1>7, <1>8, <1>9
    DEF NictNext, Response, TimerHandler

\* A transaction just created is well typed.
LEMMA TypeInit == NictInit => TypeOK
  <1> SUFFICES ASSUME NictInit PROVE TypeOK
    OBVIOUS
  <1>1. told \in [Events -> 0..MaxTold]
    BY MaxToldAssumption DEF NictInit
  <1> QED BY <1>1 DEF NictInit, TypeOK, States, Reasons

\* The types are right in every state, whatever the bound on the counters.
THEOREM TypeCorrect == NictSpec => []TypeOK
  BY TypeInit, TypeStep, PTL DEF NictSpec

-----------------------------------------------------------------------------
\* Every step keeps what the dialog knows and the state of the FSM together,
\* and with them the one verdict.
LEMMA ToldStep == IInv /\ [NictNext]_nictVars => IInv'
  <1> SUFFICES ASSUME IInv, [NictNext]_nictVars PROVE IInv'
    OBVIOUS
  <1>0. TypeOK /\ TypeOK'
    BY TypeStep DEF IInv
  <1>t. told["final"] \in Nat /\ told["timedout"] \in Nat /\ told["transport_error"] \in Nat
    BY <1>0, Counters
  <1> SUFFICES ToldByState' /\ OutcomeOnce'
    BY <1>0 DEF IInv
  <1> USE DEF IInv, ToldByState, Untold, OutcomeOnce
  <1>1. CASE Started_2_Trying_X_send
    BY <1>1 DEF Started_2_Trying_X_send
  <1>2. CASE Trying_2_Trying_X_timerE \/ Proceeding_2_Proceeding_X_timerE
    BY <1>2 DEF Trying_2_Trying_X_timerE, Proceeding_2_Proceeding_X_timerE, Repeat
  <1>3. CASE Trying_2_Terminated_X_timerF \/ Proceeding_2_Terminated_X_timerF
    <2>1. PICK e \in {"timedout", "transport_error"} : Deliver(e)
      BY <1>3 DEF Trying_2_Terminated_X_timerF, Proceeding_2_Terminated_X_timerF
    <2>2. state \in {"Trying", "Proceeding"} /\ state' = "Terminated"
      BY <1>3 DEF Trying_2_Terminated_X_timerF, Proceeding_2_Terminated_X_timerF, End
    <2>3. CASE e = "timedout"
      <3>1. /\ told'["timedout"] = 1 /\ told'["final"] = 0 /\ told'["transport_error"] = 0
        BY <1>0, <2>1, <2>2, <2>3, DeliverCounts DEF Events
      <3> QED BY <3>1, <2>2
    <2>4. CASE e = "transport_error"
      <3>1. /\ told'["timedout"] = 0 /\ told'["final"] = 0 /\ told'["transport_error"] = 1
        BY <1>0, <2>1, <2>2, <2>4, DeliverCounts DEF Events
      <3> QED BY <3>1, <2>2
    <2> QED BY <2>3, <2>4
  <1>4. CASE Completed_2_Terminated_X_timerK \/ Any_2_Terminated_X_cancel
    <2>1. state' = "Terminated" /\ told' = told
      BY <1>4 DEF Completed_2_Terminated_X_timerK, Any_2_Terminated_X_cancel, End
    <2> QED BY <2>1
  <1>5. CASE Trying_2_Proceedding_X_1xx \/ Proceeding_2_Proceeding_X_1xx
    <2>1. /\ told'["final"] = told["final"] /\ told'["timedout"] = told["timedout"]
          /\ told'["transport_error"] = told["transport_error"]
      BY <1>0, <1>5, DeliverCounts
      DEF Trying_2_Proceedding_X_1xx, Proceeding_2_Proceeding_X_1xx, Events
    <2>2. state \in {"Trying", "Proceeding"} /\ state' = "Proceeding"
      BY <1>5 DEF Trying_2_Proceedding_X_1xx, Proceeding_2_Proceeding_X_1xx
    <2> QED BY <2>1, <2>2
  <1>6. CASE Trying_2_Completed_X_200_to_699 \/ Proceeding_2_Completed_X_200_to_699
    <2>1. state \in {"Trying", "Proceeding"} /\ state' = "Completed" /\ Deliver("final")
      BY <1>6
      DEF Trying_2_Completed_X_200_to_699, Proceeding_2_Completed_X_200_to_699, Finish
    <2>2. told'["final"] = 1 /\ told'["timedout"] = 0 /\ told'["transport_error"] = 0
      BY <1>0, <2>1, DeliverCounts DEF Events
    <2> QED BY <2>1, <2>2
  <1>7. CASE TimerThread
    BY <1>7 DEF TimerThread, Dequeue, TimerIgnored
  <1>8. CASE UNCHANGED nictVars
    BY <1>8 DEF nictVars
  <1> QED
    BY <1>1, <1>2, <1>3, <1>4, <1>5, <1>6, <1>7, <1>8 DEF NictNext, Response, TimerHandler

\* A transaction just created has told its dialog nothing.
LEMMA ToldInit == NictInit => IInv
  BY TypeInit DEF NictInit, IInv, ToldByState, Untold, OutcomeOnce, Events

\* The dialog gets one verdict, also when a timer F that was on its way when
\* the first response cancelled it ends the transaction later.
THEOREM OneVerdict == NictSpec => []OutcomeOnce
  <1>1. IInv => OutcomeOnce
    BY DEF IInv
  <1> QED BY <1>1, ToldInit, ToldStep, PTL DEF NictSpec

-----------------------------------------------------------------------------
\* No step strands the FSM without the timer its state waits for.
LEMMA WatchdogStep == TypeOK /\ Watchdog /\ [NictNext]_nictVars => Watchdog'
  <1> SUFFICES ASSUME TypeOK, Watchdog, [NictNext]_nictVars PROVE Watchdog'
    OBVIOUS
  <1> USE DEF Watchdog, Pending
  <1>1. CASE Started_2_Trying_X_send
    BY <1>1 DEF Started_2_Trying_X_send
  <1>2. CASE Trying_2_Trying_X_timerE \/ Proceeding_2_Proceeding_X_timerE
    BY <1>2 DEF Trying_2_Trying_X_timerE, Proceeding_2_Proceeding_X_timerE, Repeat, Fires
  <1>3. CASE \/ Trying_2_Terminated_X_timerF \/ Proceeding_2_Terminated_X_timerF
             \/ Completed_2_Terminated_X_timerK \/ Any_2_Terminated_X_cancel
    <2>1. state' = "Terminated"
      BY <1>3 DEF Trying_2_Terminated_X_timerF, Proceeding_2_Terminated_X_timerF,
                  Completed_2_Terminated_X_timerK, Any_2_Terminated_X_cancel, End
    <2> QED BY <2>1
  <1>4. CASE Trying_2_Proceedding_X_1xx \/ Proceeding_2_Proceeding_X_1xx
    <2>1. state' = "Proceeding"
      BY <1>4 DEF Trying_2_Proceedding_X_1xx, Proceeding_2_Proceeding_X_1xx
    <2> QED BY <2>1
  <1>5. CASE Trying_2_Completed_X_200_to_699 \/ Proceeding_2_Completed_X_200_to_699
    <2>1. /\ state' = "Completed" /\ reliable' = reliable
          /\ \E k \in Scheduled("K") : k \subseteq armed'
      BY <1>5
      DEF Trying_2_Completed_X_200_to_699, Proceeding_2_Completed_X_200_to_699, Finish
    <2> QED BY <2>1 DEF Scheduled
  <1>6. CASE TimerThread
    <2>1. CASE \E t \in Timers : Dequeue(t)
      BY <2>1 DEF Dequeue
    <2>2. CASE \E t \in Timers : TimerIgnored(t)
      BY <2>2 DEF TimerIgnored, Fires, Expects, Timers
    <2> QED BY <1>6, <2>1, <2>2 DEF TimerThread
  <1>7. CASE UNCHANGED nictVars
    BY <1>7 DEF nictVars
  <1> QED
    BY <1>1, <1>2, <1>3, <1>4, <1>5, <1>6, <1>7 DEF NictNext, Response, TimerHandler

\* A transaction that waits in Trying or Completed always has the timer that
\* ends the wait pending or under way, but for a timer K of length zero, which a
\* stream may have taken from it.
THEOREM AlwaysWatched == NictSpec => []Watchdog
  <1>1. NictInit => Watchdog
    BY DEF NictInit, Watchdog
  <1> QED BY <1>1, TypeInit, TypeStep, WatchdogStep, PTL DEF NictSpec

-----------------------------------------------------------------------------
\* No step repeats the request of a transaction on a stream, or of one that has
\* its final answer.
LEMMA RepeatStep ==
    /\ TypeOK /\ StreamNeverRepeats /\ NoRetransmissionAfterFinal /\ [NictNext]_nictVars
    => StreamNeverRepeats' /\ NoRetransmissionAfterFinal'
  <1> SUFFICES ASSUME TypeOK, StreamNeverRepeats, NoRetransmissionAfterFinal, [NictNext]_nictVars
               PROVE  StreamNeverRepeats' /\ NoRetransmissionAfterFinal'
    OBVIOUS
  <1> USE DEF StreamNeverRepeats, NoRetransmissionAfterFinal, Pending
  <1>1. CASE Started_2_Trying_X_send
    <2>1. reliable' => RetransmissionTimers' = {}
      BY DEF RetransmissionTimers
    <2> QED BY <1>1, <2>1 DEF Started_2_Trying_X_send
  <1>2. CASE Trying_2_Trying_X_timerE \/ Proceeding_2_Proceeding_X_timerE
    BY <1>2 DEF Trying_2_Trying_X_timerE, Proceeding_2_Proceeding_X_timerE, Repeat, Fires
  <1>3. CASE \/ Trying_2_Terminated_X_timerF \/ Proceeding_2_Terminated_X_timerF
             \/ Completed_2_Terminated_X_timerK \/ Any_2_Terminated_X_cancel
    <2>1. /\ state' = "Terminated" /\ armed' \subseteq armed /\ late' \subseteq late
          /\ reliable' = reliable
      BY <1>3, TimerSets
      DEF Trying_2_Terminated_X_timerF, Proceeding_2_Terminated_X_timerF,
          Completed_2_Terminated_X_timerK, Any_2_Terminated_X_cancel, End, Fires
    <2> QED BY <2>1
  <1>4. CASE Trying_2_Proceedding_X_1xx \/ Proceeding_2_Proceeding_X_1xx
    BY <1>4 DEF Trying_2_Proceedding_X_1xx, Proceeding_2_Proceeding_X_1xx
  <1>5. CASE Trying_2_Completed_X_200_to_699 \/ Proceeding_2_Completed_X_200_to_699
    <2>1. /\ state' = "Completed" /\ late' = late /\ reliable' = reliable
          /\ armed' \subseteq (armed \ RetransmissionTimers) \cup {"K"}
      BY <1>5
      DEF Scheduled, Trying_2_Completed_X_200_to_699, Proceeding_2_Completed_X_200_to_699, Finish
    <2>2. reliable \in BOOLEAN
      BY DEF TypeOK
    <2> QED BY <2>1, <2>2, TimerSets
  <1>6. CASE TimerThread
    BY <1>6 DEF TimerThread, Dequeue, TimerIgnored, Fires
  <1>7. CASE UNCHANGED nictVars
    BY <1>7 DEF nictVars
  <1> QED
    BY <1>1, <1>2, <1>3, <1>4, <1>5, <1>6, <1>7 DEF NictNext, Response, TimerHandler

\* A request that has its final answer is not repeated, on any transport and
\* although a late timer E starts itself anew in Proceeding.
THEOREM NotRepeated == NictSpec => []NoRetransmissionAfterFinal
  <1>1. NictInit => StreamNeverRepeats /\ NoRetransmissionAfterFinal
    BY DEF NictInit, StreamNeverRepeats, NoRetransmissionAfterFinal, Pending
  <1> QED BY <1>1, TypeInit, TypeStep, RepeatStep, PTL DEF NictSpec

-----------------------------------------------------------------------------
(***************************************************************************)
(* Refinement.  A transaction that has not ended has not been dropped.     *)
(***************************************************************************)
Undropped == state # "Terminated" => why = "none"

RInv == IInv /\ Undropped

\* A reason is recorded exactly when the FSM ends.
LEMMA UndroppedStep == Undropped /\ [NictNext]_nictVars => Undropped'
  BY DEF Undropped, NictNext, Response, TimerHandler, TimerThread, Started_2_Trying_X_send,
         Trying_2_Trying_X_timerE, Proceeding_2_Proceeding_X_timerE, Repeat,
         Trying_2_Terminated_X_timerF, Proceeding_2_Terminated_X_timerF,
         Completed_2_Terminated_X_timerK, Trying_2_Proceedding_X_1xx,
         Proceeding_2_Proceeding_X_1xx, Trying_2_Completed_X_200_to_699,
         Proceeding_2_Completed_X_200_to_699, Finish, Any_2_Terminated_X_cancel, End,
         Dequeue, TimerIgnored, nictVars

\* Every step of the transaction is one of ClientTransac, or a stutter.
LEMMA RefinementStep ==
    ASSUME RInv, [NictNext]_nictVars
    PROVE  [Abstract!Next]_(Abstract!abstractVars)
  <1>0. TypeOK /\ ToldByState /\ Undropped
    BY DEF RInv, IInv
  <1> USE DEF Abstract!Next, Abstract!abstractVars, Abstract!Begin, Abstract!Conclude,
              Abstract!Close, Abstract!Drop, Phase, Verdict
  <1>1. CASE Started_2_Trying_X_send
    BY <1>1 DEF Started_2_Trying_X_send
  <1>2. CASE \/ Trying_2_Trying_X_timerE \/ Proceeding_2_Proceeding_X_timerE
             \/ TimerThread \/ UNCHANGED nictVars
    BY <1>2 DEF Trying_2_Trying_X_timerE, Proceeding_2_Proceeding_X_timerE, Repeat,
                TimerThread, Dequeue, TimerIgnored, nictVars
  <1>3. CASE Trying_2_Terminated_X_timerF \/ Proceeding_2_Terminated_X_timerF
    <2>1. PICK e \in {"timedout", "transport_error"} : Deliver(e)
      BY <1>3 DEF Trying_2_Terminated_X_timerF, Proceeding_2_Terminated_X_timerF
    <2>2. /\ state \in {"Trying", "Proceeding"} /\ state' = "Terminated" /\ why' = "timer"
      BY <1>3 DEF Trying_2_Terminated_X_timerF, Proceeding_2_Terminated_X_timerF, End
    <2>3. told["final"] = 0 /\ told["timedout"] = 0 /\ told["transport_error"] = 0
      BY <1>0, <2>2 DEF ToldByState, Untold
    <2>4. /\ told'["final"] = 0
          /\ told'["timedout"] + told'["transport_error"] = 1
      BY <1>0, <2>1, <2>3, DeliverCounts DEF Events
    <2> QED BY <1>0, <2>2, <2>3, <2>4 DEF Undropped
  <1>4. CASE Completed_2_Terminated_X_timerK
    <2>1. state = "Completed" /\ state' = "Terminated" /\ why' = "timer" /\ told' = told
      BY <1>4 DEF Completed_2_Terminated_X_timerK, End
    <2> QED BY <1>0, <2>1 DEF ToldByState, Undropped
  <1>5. CASE Any_2_Terminated_X_cancel
    <2>1. /\ state \notin {"Started", "Terminated"} /\ state' = "Terminated"
          /\ why' = "cancel" /\ told' = told
      BY <1>5 DEF Any_2_Terminated_X_cancel, End
    <2> QED BY <2>1
  <1>6. CASE Trying_2_Proceedding_X_1xx \/ Proceeding_2_Proceeding_X_1xx
    <2>1. /\ told'["final"] = told["final"] /\ told'["timedout"] = told["timedout"]
          /\ told'["transport_error"] = told["transport_error"]
      BY <1>0, <1>6, DeliverCounts
      DEF Trying_2_Proceedding_X_1xx, Proceeding_2_Proceeding_X_1xx, Events
    <2>2. state \in {"Trying", "Proceeding"} /\ state' = "Proceeding" /\ why' = why
      BY <1>6 DEF Trying_2_Proceedding_X_1xx, Proceeding_2_Proceeding_X_1xx
    <2> QED BY <2>1, <2>2
  <1>7. CASE Trying_2_Completed_X_200_to_699 \/ Proceeding_2_Completed_X_200_to_699
    <2>1. /\ state \in {"Trying", "Proceeding"} /\ state' = "Completed"
          /\ Deliver("final") /\ why' = why
      BY <1>7
      DEF Trying_2_Completed_X_200_to_699, Proceeding_2_Completed_X_200_to_699, Finish
    <2>2. told["final"] = 0 /\ told["timedout"] = 0 /\ told["transport_error"] = 0
      BY <1>0, <2>1 DEF ToldByState, Untold
    <2>3. told'["final"] > 0
      BY <1>0, <2>1, DeliverCounts DEF Events
    <2> QED BY <1>0, <2>1, <2>2, <2>3 DEF Undropped
  <1> QED
    BY <1>1, <1>2, <1>3, <1>4, <1>5, <1>6, <1>7 DEF NictNext, Response, TimerHandler

\* The non-INVITE client transaction implements ClientTransac: it goes away
\* without a verdict only when its dialog cancels it.
THEOREM Implements == NictSpec => ImplementsClientTransac
  <1>1. NictInit => RInv
    BY ToldInit DEF NictInit, RInv, Undropped
  <1>2. RInv /\ [NictNext]_nictVars => RInv'
    BY ToldStep, UndroppedStep DEF RInv
  <1>3. NictInit => Abstract!Init
    BY DEF NictInit, Abstract!Init, Phase, Verdict, Events
  <1>4. RInv /\ [NictNext]_nictVars => [Abstract!Next]_(Abstract!abstractVars)
    BY RefinementStep
  <1> QED BY <1>1, <1>2, <1>3, <1>4, PTL DEF NictSpec, ImplementsClientTransac, Abstract!Spec

-----------------------------------------------------------------------------
(***************************************************************************)
(* Neither HandledOnce nor AnswerKept is inductive: what the server was    *)
(* told and what it answered are tied to the state of its FSM and to the   *)
(* dialogs that have left, and so is what is on the wire; what the client  *)
(* was told, to the state of its own.                                      *)
(***************************************************************************)
Types == /\ cState \in Client!States /\ cTold \in [Client!Events -> 0..MaxHeard]
         /\ sState \in {"Started", "Trying", "Proceeding", "Completed", "Terminated"}
         /\ sTold \in Nat /\ left \in Nat

\* Each dialog that left has handled the request, and the one that has not, too.
ToldByDialogs == /\ sTold <= left + 1
                 /\ sState = "Started" \/ Gone => sTold <= left

\* There is no final answer before Completed, and it stands from there on.
AnswerByState ==
    /\ sState \in {"Started", "Trying", "Proceeding"} => sLast \notin Server!Finals
    /\ sState = "Completed" => /\ sLast \in Server!Finals
                               /\ ~sReliable => "J" \in sArmed \cup sLate

\* Only who has ended has left, and only who has left is followed by another.
LeftByState == /\ sState # "Terminated" => sWhy = "none"
               /\ Gone \/ earlier # {} => left > 0

\* The final answers of the server side so far.
Given == earlier \cup ({sLast} \cap Server!Finals)

\* What the network brings the client has its reason on the server's side.
WireIsTrue == /\ toClient \cap Server!Finals \subseteq Given
              /\ refusal => left > 0

ServerInv == ToldByDialogs /\ AnswerByState /\ LeftByState /\ WireIsTrue

\* A client that waits was told nothing that ends its wait.
Waiting == cState \in {"Started", "Trying", "Proceeding"}
ClientInv == Waiting => /\ heard = "none" /\ cTold["final"] = 0
                        /\ cTold["timedout"] = 0 /\ cTold["transport_error"] = 0

ExchangeInv == Types /\ ServerInv /\ ClientInv

-----------------------------------------------------------------------------
\* One event more was delivered to the client's dialog, and no other.
LEMMA ClientDelivers ==
    ASSUME Types, NEW e \in Client!Events, Client!Deliver(e)
    PROVE  /\ cTold' \in [Client!Events -> 0..MaxHeard]
           /\ \A f \in Client!Events \ {e} : cTold'[f] = cTold[f]
           /\ cTold'[e] > 0 /\ cTold'[e] \in Nat
  BY BoundsAssumption DEF Types, Client!Deliver

\* The client's side: it waits, is told, or has ended.
LEMMA ClientStep ==
    ASSUME ExchangeInv, [Next]_vars
    PROVE  /\ cState' \in Client!States /\ cTold' \in [Client!Events -> 0..MaxHeard]
           /\ ClientInv'
  <1> USE DEF ExchangeInv, Types, ClientInv, Waiting, Client!States
  <1>1. CASE ClientStart
    BY <1>1 DEF ClientStart, Client!Started_2_Trying_X_send, ClientAlone
  <1>2. CASE ClientTimer
    <2>1. heard' = heard
      BY <1>2 DEF ClientTimer, ClientAlone
    <2>2. CASE \/ Client!Trying_2_Trying_X_timerE \/ Client!Proceeding_2_Proceeding_X_timerE
               \/ Client!TimerThread
      BY <2>1, <2>2 DEF Client!Trying_2_Trying_X_timerE, Client!Proceeding_2_Proceeding_X_timerE,
            Client!Repeat, Client!TimerThread, Client!Dequeue, Client!TimerIgnored
    <2>3. CASE Client!Trying_2_Terminated_X_timerF \/ Client!Proceeding_2_Terminated_X_timerF
      <3>1. PICK e \in {"timedout", "transport_error"} : Client!Deliver(e)
        BY <2>3 DEF Client!Trying_2_Terminated_X_timerF, Client!Proceeding_2_Terminated_X_timerF
      <3>2. cState' = "Terminated"
        BY <2>3 DEF Client!Trying_2_Terminated_X_timerF, Client!Proceeding_2_Terminated_X_timerF,
              Client!End
      <3>3. cTold' \in [Client!Events -> 0..MaxHeard]
        BY <3>1, ClientDelivers DEF Client!Events
      <3> QED BY <3>2, <3>3
    <2>4. CASE Client!Completed_2_Terminated_X_timerK
      BY <2>4 DEF Client!Completed_2_Terminated_X_timerK, Client!End
    <2> QED BY <1>2, <2>2, <2>3, <2>4 DEF ClientTimer, Client!TimerHandler
  <1>3. CASE Client1xx
    <2>1. /\ heard' = heard /\ Client!Deliver("1xx") /\ Waiting /\ cState' = "Proceeding"
      BY <1>3 DEF Client1xx, Client!Trying_2_Proceedding_X_1xx,
            Client!Proceeding_2_Proceeding_X_1xx
    <2>2. /\ cTold' \in [Client!Events -> 0..MaxHeard]
          /\ cTold'["final"] = cTold["final"] /\ cTold'["timedout"] = cTold["timedout"]
          /\ cTold'["transport_error"] = cTold["transport_error"]
      BY <2>1, ClientDelivers DEF Client!Events
    <2> QED BY <2>1, <2>2
  <1>4. CASE ClientFinal
    <2>1. Client!Deliver("final") /\ cState' = "Completed"
      BY <1>4 DEF ClientFinal, Client!Trying_2_Completed_X_200_to_699,
            Client!Proceeding_2_Completed_X_200_to_699, Client!Finish
    <2>2. cTold' \in [Client!Events -> 0..MaxHeard]
      BY <2>1, ClientDelivers DEF Client!Events
    <2> QED BY <2>1, <2>2
  <1>5. CASE ServerRequest \/ ServerAgain \/ ServerRefuses \/ Lose
    BY <1>5 DEF ServerRequest, ServerAgain, ServerRefuses, Lose, clientVars
  <1>6. CASE ServerAnswer \/ ServerTimer \/ ServerLeaves
    BY <1>6 DEF ServerAnswer, ServerTimer, ServerLeaves, ServerAlone, clientVars
  <1>7. CASE UNCHANGED vars
    BY <1>7 DEF vars, clientVars
  <1> QED BY <1>1, <1>2, <1>3, <1>4, <1>5, <1>6, <1>7 DEF Next

-----------------------------------------------------------------------------
ServerTypes == /\ sState \in {"Started", "Trying", "Proceeding", "Completed", "Terminated"}
               /\ sTold \in Nat /\ left \in Nat

\* A step of the client or of the network only takes from the client's wire.
LEMMA ServerUntouched ==
    ASSUME ServerTypes, ServerInv, UNCHANGED <<serverVars, dialogVars>>,
           toClient' \subseteq toClient, refusal' => refusal \/ left > 0
    PROVE  ServerTypes' /\ ServerInv'
  BY DEF ServerTypes, ServerInv, ToldByDialogs, AnswerByState, LeftByState, Given, WireIsTrue,
         Gone, serverVars, dialogVars

\* The request, for the first time or again: no answer is given by it.
LEMMA ServerHandles ==
    ASSUME ServerTypes, ServerInv, ServerRequest
    PROVE  /\ ServerTypes' /\ ServerInv' /\ Given' = Given
           /\ UNCHANGED <<heard, cTold>> /\ left' \in {left, left + 1}
  <1> USE DEF ServerTypes, ServerInv, ToldByDialogs, AnswerByState, LeftByState, Given,
              WireIsTrue, Gone
  <1>0. UNCHANGED <<earlier, refusal, heard, cTold>> /\ left' \in {left, left + 1}
    BY DEF ServerRequest, clientVars
  <1>1. CASE Server!Started_2_Trying_X_request
    <2>1. /\ UNCHANGED <<sLast, toClient, sLate>>
          /\ sTold' \in Nat /\ sTold' <= sTold + 1 /\ sState = "Started" /\ sWhy = "none"
          /\ \/ sState' = "Trying" /\ sWhy' = "none" /\ left' = left
             \/ sState' = "Terminated" /\ sWhy' = "dialog" /\ left' = left + 1
      BY <1>1, BoundsAssumption
      DEF ServerRequest, Server!Started_2_Trying_X_request, Server!Leave
    <2>2. sTold <= left
      BY <2>1
    <2>3. ToldByDialogs' /\ ServerTypes'
      <3>1. CASE sState' = "Trying" /\ sWhy' = "none" /\ left' = left
        BY <2>1, <2>2, <3>1
      <3>2. CASE sState' = "Terminated" /\ sWhy' = "dialog" /\ left' = left + 1
        BY <2>1, <2>2, <3>2
      <3> QED BY <2>1, <3>1, <3>2
    <2>4. left' >= left /\ (sWhy' = "dialog" => left' > 0)
      BY <2>1
    <2>5. AnswerByState' /\ LeftByState'
      BY <1>0, <2>1, <2>4
    <2>6. WireIsTrue' /\ Given' = Given
      BY <1>0, <2>1, <2>4
    <2> QED BY <1>0, <2>3, <2>5, <2>6
  <1>2. CASE Server!Request
    <2>1. /\ UNCHANGED <<sState, sReliable, sArmed, sLate, sLast, sTold, sWhy>>
          /\ sState \in {"Trying", "Proceeding", "Completed"}
          /\ toClient' \subseteq toClient \cup {sLast}
      BY <1>2
      DEF Server!Request, Server!Trying_2_Trying_X_request,
          Server!Proceeding_2_Proceeding_X_request, Server!Completed_2_Completed_X_request,
          Server!Repeated, Server!Sends, Server!SendResults, Server!nistVars
    <2>2. left' = left
      BY <2>1 DEF ServerRequest
    <2> QED BY <1>0, <2>1, <2>2
  <1> QED BY <1>1, <1>2 DEF ServerRequest

\* Another dialog gets the request, and what its predecessor answered stays answered.
LEMMA ServerStartsAnew ==
    ASSUME ServerTypes, ServerInv, ServerAgain
    PROVE  /\ ServerTypes' /\ ServerInv' /\ Given' = Given
           /\ UNCHANGED <<heard, cTold>> /\ left > 0 /\ left' > 0
  <1>1. /\ UNCHANGED <<toClient, refusal, heard, cTold>> /\ Gone
        /\ sTold' \in Nat /\ sTold' <= sTold + 1
        /\ \/ sState' = "Trying" /\ sWhy' = "none" /\ left' = left
           \/ sState' = "Terminated" /\ sWhy' = "dialog" /\ left' = left + 1
        /\ sLast' = "none" /\ earlier' = Given
    BY BoundsAssumption DEF ServerAgain, ServerTypes, clientVars, Given
  <1>2. Given' = Given /\ "none" \notin Server!Finals
    BY <1>1 DEF Given, Server!Finals
  <1>3. left > 0 /\ left' > 0 /\ left' \in Nat
    BY <1>1 DEF ServerTypes, ServerInv, LeftByState
  <1>4. ToldByDialogs'
    <2>1. sTold <= left
      BY <1>1 DEF ServerInv, ToldByDialogs
    <2>2. CASE sState' = "Trying" /\ sWhy' = "none" /\ left' = left
      BY <1>1, <2>1, <2>2 DEF ServerTypes, ToldByDialogs, Gone
    <2>3. CASE sState' = "Terminated" /\ sWhy' = "dialog" /\ left' = left + 1
      BY <1>1, <2>1, <2>3 DEF ServerTypes, ToldByDialogs
    <2> QED BY <1>1, <2>2, <2>3
  <1>5. AnswerByState' /\ LeftByState' /\ WireIsTrue'
    BY <1>1, <1>2, <1>3 DEF ServerInv, AnswerByState, LeftByState, WireIsTrue
  <1> QED BY <1>1, <1>2, <1>3, <1>4, <1>5 DEF ServerTypes, ServerInv

\* The dialog answers, from a state without a final answer.
LEMMA ServerSpeaks ==
    ASSUME ServerTypes, ServerInv, ServerAnswer
    PROVE  /\ ServerTypes' /\ ServerInv'
           /\ UNCHANGED <<left, heard, cTold>>
           /\ \/ Given' = Given
              \/ /\ Given = {} \/ left > 0
                 /\ \E a \in Server!Finals : Given' = Given \cup {a}
  <1> USE DEF ServerTypes, ServerInv, ToldByDialogs, AnswerByState, LeftByState, WireIsTrue,
              Gone, Given
  <1>1. UNCHANGED <<left, earlier, refusal, heard, cTold>>
    BY DEF ServerAnswer, ServerAlone, clientVars, dialogVars
  <1>2. CASE \/ Server!Trying_2_Proceeding_X_send_1xx \/ Server!Proceeding_2_Proceeding_X_send_1xx
    <2>1. /\ UNCHANGED <<sLate, sTold, sWhy>> /\ sLast' = "1xx" /\ sLast' \notin Server!Finals
          /\ sState \in {"Trying", "Proceeding"} /\ sState' = "Proceeding"
          /\ toClient' = toClient \cup {"1xx"}
      BY <1>2
      DEF Server!Trying_2_Proceeding_X_send_1xx, Server!Proceeding_2_Proceeding_X_send_1xx,
          Server!Sends, Server!SendResults, Server!Leave, Server!Finals
    <2> QED BY <1>1, <2>1
  <1>3. CASE \/ Server!Trying_2_Completed_X_send_200_to_699
             \/ Server!Proceeding_2_Completed_X_send_200_to_699
    <2>1. /\ UNCHANGED <<sReliable, sLate, sTold, sWhy>> /\ sLast' \in Server!Finals
          /\ sState \in {"Trying", "Proceeding"} /\ sState' = "Completed"
          /\ \E j \in Server!Scheduled("J") : j \subseteq sArmed'
          /\ toClient' = toClient \cup {sLast'}
      BY <1>3
      DEF Server!Trying_2_Completed_X_send_200_to_699, Server!Sends,
          Server!Proceeding_2_Completed_X_send_200_to_699, Server!Finish, Server!SendResults,
          Server!Leave
    <2>2. ~sReliable => "J" \in sArmed'
      BY <2>1 DEF Server!Scheduled
    <2>3. Given = earlier /\ Given' = earlier \cup {sLast'}
      BY <1>1, <2>1
    <2> QED BY <1>1, <2>1, <2>2, <2>3
  <1> QED BY <1>2, <1>3 DEF ServerAnswer, Server!DialogResponse

\* A timer or the dialog ends the transaction, or a timer only gets on its way.
LEMMA ServerGoes ==
    ASSUME ServerTypes, ServerInv, ServerTimer \/ ServerLeaves
    PROVE  /\ ServerTypes' /\ ServerInv' /\ Given' = Given
           /\ UNCHANGED <<heard, cTold>> /\ left' \in {left, left + 1}
  <1> USE DEF ServerTypes, ServerInv, ToldByDialogs, AnswerByState, LeftByState, WireIsTrue,
              Gone, Given
  <1>1. UNCHANGED <<earlier, refusal, heard, cTold>>
    BY DEF ServerTimer, ServerLeaves, ServerAlone, clientVars, dialogVars
  <1>2. CASE ServerTimer
    <2>0. left' = left
      BY <1>2 DEF ServerTimer, ServerAlone, dialogVars
    <2>1. CASE Server!Completed_2_Terminated_X_tirmerJ
      <3>1. /\ sState = "Completed" /\ sState' = "Terminated" /\ sWhy' = "timer"
            /\ UNCHANGED <<sLast, toClient, sTold>>
        BY <2>1 DEF Server!Completed_2_Terminated_X_tirmerJ, Server!Leave
      <3> QED BY <1>1, <2>0, <3>1
    <2>2. CASE Server!TimerThread
      <3>1. PICK t \in Server!Timers : Server!Dequeue(t) \/ Server!TimerIgnored(t)
        BY <2>2 DEF Server!TimerThread
      <3>2. UNCHANGED <<sState, sReliable, sLast, toClient, sTold, sWhy>>
        BY <3>1 DEF Server!Dequeue, Server!TimerIgnored
      <3>3. sState = "Completed" /\ ~sReliable => "J" \in sArmed' \cup sLate'
        BY <3>1 DEF Server!Dequeue, Server!TimerIgnored
      <3> QED BY <1>1, <2>0, <3>2, <3>3
    <2> QED BY <1>2, <2>1, <2>2 DEF ServerTimer
  <1>3. CASE ServerLeaves
    <2>1. /\ sState \notin {"Started", "Terminated"} /\ sState' = "Terminated"
          /\ sWhy' = "cancel" /\ UNCHANGED <<sLast, toClient, sTold>> /\ left' = left + 1
      BY <1>3 DEF ServerLeaves, Server!Any_2_Terminated_X_cancel, Server!Leave
    <2> QED BY <1>1, <2>1
  <1> QED BY <1>2, <1>3

LEMMA ServerStep ==
    ASSUME ExchangeInv, [Next]_vars
    PROVE  ServerTypes' /\ ServerInv'
  <1>0. ServerTypes /\ ServerInv
    BY DEF ExchangeInv, Types, ServerTypes
  <1>1. CASE ClientStart \/ ClientTimer
    BY <1>0, <1>1, ServerUntouched DEF ClientStart, ClientTimer, ClientAlone
  <1>2. CASE Client1xx \/ ClientFinal
    <2>1. UNCHANGED <<serverVars, dialogVars>>
      BY <1>2 DEF Client1xx, ClientFinal
    <2>2. toClient' \subseteq toClient
      BY <1>2 DEF Client1xx, ClientFinal, FromServer
    <2>3. refusal' => refusal
      BY <1>2 DEF Client1xx, ClientFinal
    <2> QED BY <1>0, <2>1, <2>2, <2>3, ServerUntouched
  <1>3. CASE ServerRequest \/ ServerAgain
    BY <1>0, <1>3, ServerHandles, ServerStartsAnew
  <1>4. CASE ServerRefuses
    <2>1. left > 0
      BY <1>0, <1>4 DEF ServerRefuses, ServerInv, LeftByState
    <2> QED BY <1>0, <1>4, <2>1, ServerUntouched DEF ServerRefuses
  <1>5. CASE ServerAnswer
    BY <1>0, <1>5, ServerSpeaks
  <1>6. CASE ServerTimer \/ ServerLeaves
    BY <1>0, <1>6, ServerGoes
  <1>7. CASE Lose
    BY <1>0, <1>7, ServerUntouched DEF Lose
  <1>8. CASE UNCHANGED vars
    BY <1>0, <1>8, ServerUntouched DEF vars
  <1> QED BY <1>1, <1>2, <1>3, <1>4, <1>5, <1>6, <1>7, <1>8 DEF Next

LEMMA ExchangeKeeps == ExchangeInv /\ [Next]_vars => ExchangeInv'
  BY ClientStep, ServerStep DEF ExchangeInv, Types, ServerTypes

LEMMA ExchangeBegins == Init => ExchangeInv
  BY BoundsAssumption
  DEF Init, Client!NictInit, Server!NistInit, ExchangeInv, Types, ServerInv, ToldByDialogs,
      AnswerByState, LeftByState, WireIsTrue, Given, Gone, ClientInv, Waiting, Client!States,
      Client!Events, Server!Finals

\* However often the request is sent, repeated or duplicated on its way, one dialog handles
\* it once (tsip_transac_nist.c): it is handled again only by a dialog made for it after
\* another one has left (tsip_dialog_layer.c:573-648), once for each that has.
THEOREM RequestHandledOnce == Spec => []HandledOnce
  <1>1. ExchangeInv => HandledOnce
    BY DEF ExchangeInv, Types, ServerInv, ToldByDialogs, HandledOnce
  <1> QED BY <1>1, ExchangeBegins, ExchangeKeeps, PTL DEF Spec

\* Whatever is lost or repeated: once there is a final response, a repeated request is
\* answered with it, and where it may be repeated timer J watches as long as it is.
THEOREM TheAnswerIsKept == Spec => []AnswerKept
  <1>1. ExchangeInv => AnswerKept
    BY DEF ExchangeInv, ServerInv, AnswerByState, AnswerKept, Server!FinalAnswerStands, Server!Watchdog
  <1> QED BY <1>1, ExchangeBegins, ExchangeKeeps, PTL DEF Spec

-----------------------------------------------------------------------------
(***************************************************************************)
(* Refinement: a step of the two transactions and the network is one of    *)
(* Exchange, or changes nothing of it.                                     *)
(***************************************************************************)
Timedout == cTold["timedout"] + cTold["transport_error"] > 0

\* The timeouts the client's dialog was told of, as numbers.
LEMMA VerdictCounters ==
    Types => /\ cTold["final"] \in Nat /\ cTold["timedout"] \in Nat
             /\ cTold["transport_error"] \in Nat
  BY BoundsAssumption DEF Types, Client!Events

\* As long as it was told nothing that ends its wait, the verdict stays.
LEMMA VerdictStays ==
    ASSUME Given' = Given, UNCHANGED heard, Timedout' = Timedout, (left' > 0) = (left > 0)
    PROVE  UNCHANGED Contract!exchangeVars
  BY DEF Contract!exchangeVars, Timedout, Given

LEMMA ExchangeStep ==
    ASSUME ExchangeInv, [Next]_vars
    PROVE  [Contract!Next]_(Contract!exchangeVars)
  <1>0. ServerTypes /\ ServerInv /\ ClientInv /\ Types
    BY DEF ExchangeInv, Types, ServerTypes
  <1>1. CASE ClientStart
    BY <1>1, VerdictStays
    DEF ClientStart, Client!Started_2_Trying_X_send, ClientAlone, serverVars, dialogVars,
        Timedout, Given
  <1>2. CASE ClientTimer
    <2>1. UNCHANGED <<Given, left, heard>>
      BY <1>2 DEF ClientTimer, ClientAlone, serverVars, dialogVars, Given
    <2>2. CASE cTold' = cTold
      BY <2>1, <2>2, VerdictStays DEF Timedout
    <2>3. CASE Client!Trying_2_Terminated_X_timerF \/ Client!Proceeding_2_Terminated_X_timerF
      <3>1. PICK e \in {"timedout", "transport_error"} : Client!Deliver(e)
        BY <2>3 DEF Client!Trying_2_Terminated_X_timerF, Client!Proceeding_2_Terminated_X_timerF
      <3>2. Waiting
        BY <2>3 DEF Client!Trying_2_Terminated_X_timerF, Client!Proceeding_2_Terminated_X_timerF,
              Waiting
      <3>3. ~Timedout /\ heard = "none"
        BY <1>0, <3>2 DEF ClientInv, Timedout
      <3>4. Timedout'
        <4>1. e \in Client!Events /\ cTold'[e] > 0 /\ cTold'[e] \in Nat
          BY <1>0, <3>1, ClientDelivers DEF Client!Events
        <4>2. cTold'["timedout"] \in Nat /\ cTold'["transport_error"] \in Nat
          BY <1>0, ClientStep, BoundsAssumption DEF Client!Events
        <4> QED BY <3>1, <4>1, <4>2 DEF Timedout
      <3> QED BY <2>1, <3>3, <3>4
          DEF Contract!Next, Contract!Conclude, Contract!Verdicts, Timedout, Given
    <2>4. CASE ~(Client!Trying_2_Terminated_X_timerF \/ Client!Proceeding_2_Terminated_X_timerF)
      <3>1. cTold' = cTold
        BY <1>2, <2>4
        DEF ClientTimer, Client!TimerHandler, Client!TimerThread, Client!Dequeue,
            Client!TimerIgnored, Client!Trying_2_Trying_X_timerE,
            Client!Proceeding_2_Proceeding_X_timerE, Client!Repeat,
            Client!Completed_2_Terminated_X_timerK
      <3> QED BY <2>2, <3>1
    <2> QED BY <2>3, <2>4
  <1>3. CASE Client1xx
    <2>1. Client!Deliver("1xx") /\ UNCHANGED <<Given, left, heard>>
      BY <1>3 DEF Client1xx, Client!Trying_2_Proceedding_X_1xx,
            Client!Proceeding_2_Proceeding_X_1xx, serverVars, dialogVars, Given
    <2>2. Timedout' = Timedout
      BY <1>0, <2>1, ClientDelivers DEF Client!Events, Timedout
    <2> QED BY <2>1, <2>2, VerdictStays
  <1>4. CASE ClientFinal
    <2>1. /\ Client!Deliver("final") /\ Waiting /\ UNCHANGED <<Given, left>>
          /\ \/ heard' \in Server!Finals /\ heard' \in toClient
             \/ heard' = "refused" /\ refusal
      BY <1>4 DEF ClientFinal, FromServer, Client!Trying_2_Completed_X_200_to_699,
            Client!Proceeding_2_Completed_X_200_to_699, Client!Finish, Waiting, serverVars,
            dialogVars, Given
    <2>2. heard = "none" /\ ~Timedout
      BY <1>0, <2>1 DEF ClientInv, Timedout
    <2>3. ~Timedout'
      <3>1. /\ cTold'["timedout"] = cTold["timedout"]
            /\ cTold'["transport_error"] = cTold["transport_error"]
        BY <1>0, <2>1, ClientDelivers DEF Client!Events
      <3> QED BY <2>2, <3>1 DEF Timedout
    <2>4. heard' \in Given \/ (heard' = "refused" /\ left > 0)
      BY <1>0, <2>1 DEF ServerInv, WireIsTrue
    <2> QED BY <2>1, <2>2, <2>3, <2>4
        DEF Contract!Next, Contract!Conclude, Contract!Verdicts, Timedout, Given
  <1>5. CASE ServerRequest \/ ServerTimer \/ ServerLeaves
    <2>1. /\ Given' = Given /\ UNCHANGED <<heard, cTold>>
          /\ left \in Nat /\ left' \in {left, left + 1}
      BY <1>0, <1>5, ServerHandles, ServerGoes DEF ServerTypes
    <2>2. (left' > 0) = (left > 0) \/ left' > 0
      BY <2>1
    <2> QED BY <2>1, <2>2
        DEF Contract!Next, Contract!Withdraw, Contract!exchangeVars, Given
  <1>6. CASE ServerAgain
    <2>1. Given' = Given /\ UNCHANGED <<heard, cTold>> /\ left > 0 /\ left' > 0
      BY <1>0, <1>6, ServerStartsAnew
    <2> QED BY <2>1, VerdictStays DEF Timedout
  <1>7. CASE ServerAnswer
    <2>1. /\ UNCHANGED <<left, heard, cTold>>
          /\ \/ Given' = Given
             \/ /\ Given = {} \/ left > 0
                /\ \E a \in Server!Finals : Given' = Given \cup {a}
      BY <1>0, <1>7, ServerSpeaks
    <2>2. CASE Given' = Given
      BY <2>1, <2>2, VerdictStays DEF Timedout
    <2>3. CASE Given' # Given
      BY <2>1, <2>3 DEF Contract!Next, Contract!Answer, Given
    <2> QED BY <2>2, <2>3
  <1>8. CASE ServerRefuses \/ Lose \/ UNCHANGED vars
    BY <1>8, VerdictStays
    DEF ServerRefuses, Lose, vars, clientVars, serverVars, dialogVars, Timedout, Given
  <1> QED BY <1>1, <1>2, <1>3, <1>4, <1>5, <1>6, <1>7, <1>8 DEF Next

\* The two transactions, the dialogs of the server side and the network between them
\* implement Exchange: the client's dialog is told, once, a final response that a dialog of
\* the server side gave, or of a timeout; until a dialog has left there is one such response,
\* and it is not refused.
THEOREM ImplementsTheExchange == Spec => ImplementsExchange
  <1>1. Init => Contract!Init
    BY DEF Init, Contract!Init, Client!NictInit, Server!NistInit, Client!Events, Server!Finals
  <1>2. ExchangeInv /\ [Next]_vars => [Contract!Next]_(Contract!exchangeVars)
    BY ExchangeStep
  <1> QED BY <1>1, <1>2, ExchangeBegins, ExchangeKeeps, PTL DEF Spec, ImplementsExchange, Contract!Spec
=============================================================================
