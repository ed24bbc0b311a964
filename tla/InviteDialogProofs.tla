--------------------------- MODULE InviteDialogProofs ---------------------------
(***************************************************************************)
(* Theorems about a call.  Whatever the two dialogs do, each step moves a  *)
(* side along its life in one of a few ways (Moves), and what its          *)
(* application was told follows from its state (Order).                    *)
(***************************************************************************)
EXTENDS InviteDialog, SequenceTheorems, TLAPS

Words == {"connecting", "connected", "terminating", "terminated"}

\* What the application was told, by the state of the FSM.
Order(p) ==
    /\ state[p] = "Started" => told[p] = <<>>
    /\ state[p] \in {"Outgoing", "Ringing"} => told[p] = <<"connecting">>
    /\ Told(p, "terminated") => state[p] = "Terminated"
    /\ shutdown[p] => Alive(p)

\* The caller is told that it is connected by a 2xx, which the callee sends
\* when it picks up.
PickedUp ==
    \/ exchange["caller"]["INVITE"] = "2xx"
    \/ ack # "none"
    \/ Told("caller", "connected")

Inv == /\ TypeOK
       /\ \A p \in Sides : Order(p)
       /\ PickedUp => Told("callee", "connected")

-----------------------------------------------------------------------------
(***************************************************************************)
(* Types.                                                                  *)
(***************************************************************************)
LEMMA TypeInit == Init => TypeOK
  <1> SUFFICES ASSUME Init PROVE TypeOK
    OBVIOUS
  <1>1. <<>> \in Seq(Words)
    BY EmptySeq
  <1>2. told \in [Sides -> Seq(Words)]
    BY <1>1 DEF Init
  <1> QED BY <1>2 DEF Init, TypeOK, Words, States, Progress, Final

LEMMA PeerSide == \A p \in Sides : Peer(p) \in Sides
  BY DEF Sides, Peer

LEMMA TellType ==
    ASSUME TypeOK, NEW p \in Sides, NEW event \in Words, Tell(p, event)
    PROVE  told' \in [Sides -> Seq(Words)]
  <1>1. told \in [Sides -> Seq(Words)]
    BY DEF TypeOK, Words
  <1>2. Append(told[p], event) \in Seq(Words)
    BY <1>1, AppendProperties
  <1> QED BY <1>1, <1>2 DEF Tell

LEMMA PutType ==
    ASSUME TypeOK, NEW p \in Sides, NEW m \in Methods, NEW progress \in Progress,
           Put(p, m, progress)
    PROVE  exchange' \in [Sides -> [Methods -> Progress]]
  BY DEF TypeOK, Put

LEMMA SendType ==
    ASSUME TypeOK, NEW p \in Sides, NEW m \in Methods
    PROVE  Sending(p, m) \in Progress
  BY DEF TypeOK, Sending, Progress

LEMMA EndType ==
    ASSUME TypeOK, NEW p \in Sides, NEW failing \in BOOLEAN, End(p, failing),
           exchange' \in [Sides -> [Methods -> Progress]],
           ack' \in {"none", "awaited", "sent", "got"}
    PROVE  TypeOK'
  <1>1. told' \in [Sides -> Seq(Words)]
    BY TellType DEF End, Words
  <1> QED BY <1>1 DEF End, Goto, TypeOK, Words, States

\* An answer without consequence.
LEMMA IgnoreType ==
    ASSUME TypeOK, NEW p \in Sides, NEW m \in Methods, Ignore(p, m)
    PROVE  TypeOK'
  <1>1. exchange' \in [Sides -> [Methods -> Progress]]
    BY PutType DEF Ignore, Progress
  <1> QED BY <1>1 DEF Ignore, TypeOK

LEMMA Names == "caller" \in Sides /\ "callee" \in Sides /\ Methods = {"INVITE", "CANCEL", "BYE", "REFRESH"}
  BY DEF Sides, Methods

\* What the applications and the stacks do keeps the types.
LEMMA ApplicationType == ASSUME TypeOK, Application PROVE TypeOK'
  <1> USE Names
  <1>1. CASE Started_2_Outgoing_X_oINVITE
    <2>1. told' \in [Sides -> Seq(Words)]
      BY <1>1, TellType DEF Started_2_Outgoing_X_oINVITE, Words
    <2>2. exchange' \in [Sides -> [Methods -> Progress]]
      BY <1>1, SendType, PutType DEF Started_2_Outgoing_X_oINVITE, Send
    <2> QED BY <1>1, <2>1, <2>2 DEF Started_2_Outgoing_X_oINVITE, Goto, TypeOK, Words, States
  <1>2. CASE Ringing_2_Connected_X_Accept
    <2>1. told' \in [Sides -> Seq(Words)]
      BY <1>2, TellType DEF Ringing_2_Connected_X_Accept, Words
    <2>2. exchange' \in [Sides -> [Methods -> Progress]]
      BY <1>2, PutType DEF Ringing_2_Connected_X_Accept, Progress, Final
    <2> QED BY <1>2, <2>1, <2>2 DEF Ringing_2_Connected_X_Accept, Goto, Arm, TypeOK, Words, States
  <1>3. CASE Ringing_2_Terminated_X_Reject
    <2>1. exchange' \in [Sides -> [Methods -> Progress]]
      BY <1>3, PutType DEF Ringing_2_Terminated_X_Reject, Progress, Final
    <2> QED BY <1>3, <2>1, EndType DEF Ringing_2_Terminated_X_Reject, TypeOK
  <1>4. CASE Outgoing_2_Cancelling_X_oCANCEL
    <2>1. told' \in [Sides -> Seq(Words)]
      BY <1>4, TellType DEF Outgoing_2_Cancelling_X_oCANCEL, Words
    <2>2. exchange' \in [Sides -> [Methods -> Progress]]
      BY <1>4, SendType, PutType DEF Outgoing_2_Cancelling_X_oCANCEL, Send
    <2> QED BY <1>4, <2>1, <2>2 DEF Outgoing_2_Cancelling_X_oCANCEL, Goto, TypeOK, Words, States
  <1>5. ASSUME NEW p \in Sides, Any_2_Trying_X_oBYE(p) PROVE TypeOK'
    <2>1. told' \in [Sides -> Seq(Words)]
      BY <1>5, TellType DEF Any_2_Trying_X_oBYE, Words
    <2>2. exchange' \in [Sides -> [Methods -> Progress]]
      BY <1>5, SendType, PutType DEF Any_2_Trying_X_oBYE, Send
    <2> QED BY <1>5, <2>1, <2>2 DEF Any_2_Trying_X_oBYE, Goto, TypeOK, Words, States
  <1>6. ASSUME NEW p \in Sides, Any_2_Trying_X_shutdown(p) PROVE TypeOK'
    <2>1. told' \in [Sides -> Seq(Words)]
      BY <1>6, TellType DEF Any_2_Trying_X_shutdown, Words
    <2>2. exchange' \in [Sides -> [Methods -> Progress]]
      <3>1. Send(p, "BYE") \/ Send(p, "CANCEL") \/ UNCHANGED exchange
        BY <1>6 DEF Any_2_Trying_X_shutdown
      <3> QED BY <3>1, SendType, PutType DEF Send, TypeOK
    <2> QED BY <1>6, <2>1, <2>2 DEF Any_2_Trying_X_shutdown, Goto, TypeOK, Words, States
  <1> QED BY <1>1, <1>2, <1>3, <1>4, <1>5, <1>6 DEF Application

\* Every response keeps the types.
LEMMA ResponseType == ASSUME TypeOK, NEW p \in Sides, Response(p) PROVE TypeOK'
  <1> USE Names
  <1>1. ASSUME Answered PROVE exchange' \in [Sides -> [Methods -> Progress]]
    BY <1>1, PutType DEF Answered, Progress
  <1>2. CASE Outgoing_2_Connected_X_i2xxINVITE
    <2>1. told' \in [Sides -> Seq(Words)]
      BY <1>2, TellType DEF Outgoing_2_Connected_X_i2xxINVITE, Words
    <2> QED BY <1>1, <1>2, <2>1
            DEF Outgoing_2_Connected_X_i2xxINVITE, Answered, Goto, Arm, TypeOK, Words, States
  <1>3. CASE Any_2_Any_X_i2xxINVITE
    BY <1>1, <1>3 DEF Any_2_Any_X_i2xxINVITE, Answered, Arm, TypeOK
  <1>4. CASE Outgoing_2_Terminated_X_i300_to_i699INVITE
    <2>1. CASE state["caller"] \in {"Outgoing", "Cancelling"}
      <3>1. Put("caller", "INVITE", "idle") /\ End("caller", FALSE) /\ UNCHANGED ack
        BY <1>4, <2>1 DEF Outgoing_2_Terminated_X_i300_to_i699INVITE
      <3>2. exchange' \in [Sides -> [Methods -> Progress]]
        BY <3>1, PutType DEF Progress
      <3> QED BY <3>1, <3>2, EndType DEF TypeOK
    <2>2. CASE state["caller"] \notin {"Outgoing", "Cancelling"}
      BY <1>4, <2>2, IgnoreType DEF Outgoing_2_Terminated_X_i300_to_i699INVITE
    <2> QED BY <2>1, <2>2
  <1>5. CASE Cancelling_2_Cancelling_X_i2xx
    BY <1>5, IgnoreType DEF Cancelling_2_Cancelling_X_i2xx
  <1>6. CASE Cancelling_2_Terminated_X_i300_to_699
    <2>1. CASE state["caller"] = "Cancelling"
      <3>1. Put("caller", "CANCEL", "idle") /\ End("caller", FALSE) /\ UNCHANGED ack
        BY <1>6, <2>1 DEF Cancelling_2_Terminated_X_i300_to_699
      <3>2. exchange' \in [Sides -> [Methods -> Progress]]
        BY <3>1, PutType DEF Progress
      <3> QED BY <3>1, <3>2, EndType DEF TypeOK
    <2>2. CASE state["caller"] # "Cancelling"
      BY <1>6, <2>2, IgnoreType DEF Cancelling_2_Terminated_X_i300_to_699
    <2> QED BY <2>1, <2>2
  <1>7. CASE Any_2_Any_X_i2xxUPDATE(p)
    <2>1. exchange' \in [Sides -> [Methods -> Progress]]
      BY <1>7, PutType DEF Any_2_Any_X_i2xxUPDATE, Progress
    <2> QED BY <1>7, <2>1 DEF Any_2_Any_X_i2xxUPDATE, Arm, TypeOK
  <1>8. CASE UnusableAnswer(p)
    <2>1. PICK m \in {"INVITE", "REFRESH"} :
            /\ exchange' = [exchange EXCEPT ![p][m] = "idle", ![p]["BYE"] = Sending(p, "BYE")]
            /\ End(p, TRUE) /\ UNCHANGED ack
      BY <1>8 DEF UnusableAnswer
    <2>2. exchange' \in [Sides -> [Methods -> Progress]]
      BY <2>1, SendType DEF TypeOK, Progress
    <2> QED BY <2>1, <2>2, EndType DEF TypeOK
  <1>9. CASE Any_2_Any_X_i401_407_Challenge(p)
    <2>1. PICK m \in {"INVITE", "REFRESH", "BYE"} :
            /\ \/ Put(p, m, "idle") /\ End(p, TRUE)
               \/ /\ challenged' = [challenged EXCEPT ![p] = TRUE]
                  /\ Put(p, m, "sent")
                  /\ UNCHANGED <<timers, state, life, armed, shutdown, told, asked, failed>>
            /\ UNCHANGED ack
      BY <1>9 DEF Any_2_Any_X_i401_407_Challenge
    <2>2. exchange' \in [Sides -> [Methods -> Progress]]
      BY <2>1, PutType DEF Progress
    <2>3. CASE End(p, TRUE)
      BY <2>1, <2>2, <2>3, EndType DEF TypeOK
    <2>4. CASE /\ challenged' = [challenged EXCEPT ![p] = TRUE]
               /\ UNCHANGED <<timers, state, life, armed, shutdown, told, asked, failed>>
      BY <2>1, <2>2, <2>4 DEF TypeOK
    <2> QED BY <2>1, <2>3, <2>4
  <1>10. CASE Any_2_Terminated_X_2xxTOi6xxBYE(p)
    <2>1. exchange' \in [Sides -> [Methods -> Progress]]
      BY <1>10, PutType DEF Any_2_Terminated_X_2xxTOi6xxBYE, Progress
    <2> QED BY <1>10, <2>1, EndType DEF Any_2_Terminated_X_2xxTOi6xxBYE, TypeOK
  <1>11. CASE RefusedRefresh(p)
    BY <1>11, IgnoreType DEF RefusedRefresh
  <1> QED BY <1>2, <1>3, <1>4, <1>5, <1>6, <1>7, <1>8, <1>9, <1>10, <1>11 DEF Response

\* Every request keeps the types.
LEMMA RequestType == ASSUME TypeOK, NEW p \in Sides, Request(p) PROVE TypeOK'
  <1> USE Names, PeerSide
  <1>1. CASE Started_2_Ringing_X_iINVITE
    <2>1. told' \in [Sides -> Seq(Words)]
      BY <1>1, TellType DEF Started_2_Ringing_X_iINVITE, Words
    <2>2. exchange' \in [Sides -> [Methods -> Progress]]
      BY <1>1, PutType DEF Started_2_Ringing_X_iINVITE, Progress
    <2> QED BY <1>1, <2>1, <2>2 DEF Started_2_Ringing_X_iINVITE, Goto, TypeOK, Words, States
  <1>2. CASE Started_2_Terminated_X_iINVITE
    <2>1. exchange' \in [Sides -> [Methods -> Progress]]
      BY <1>2, PutType DEF Started_2_Terminated_X_iINVITE, Progress, Final
    <2> QED BY <1>2, <2>1, EndType DEF Started_2_Terminated_X_iINVITE, TypeOK
  <1>3. CASE Ringing_2_Terminated_X_iCANCEL
    <2>1. exchange' \in [Sides -> [Methods -> Progress]]
      BY <1>3 DEF Ringing_2_Terminated_X_iCANCEL, TypeOK, Progress, Final
    <2> QED BY <1>3, <2>1, EndType DEF Ringing_2_Terminated_X_iCANCEL, TypeOK
  <1>4. CASE Any_2_Terminated_X_iBYE(p)
    <2>1. exchange' \in [Sides -> [Methods -> Progress]]
      BY <1>4, PutType DEF Any_2_Terminated_X_iBYE, Progress, Final
    <2> QED BY <1>4, <2>1, EndType DEF Any_2_Terminated_X_iBYE, TypeOK
  <1>5. CASE Connected_2_Connected_X_iINVITEorUPDATE(p)
    <2>1. CASE End(Peer(p), TRUE) /\ UNCHANGED exchange
      BY <1>5, <2>1, EndType DEF Connected_2_Connected_X_iINVITEorUPDATE, TypeOK
    <2>2. CASE /\ Put(p, "REFRESH", "2xx") /\ Arm(Peer(p))
               /\ UNCHANGED <<timers, state, life, challenged, shutdown, told, asked, failed>>
      <3>1. exchange' \in [Sides -> [Methods -> Progress]]
        BY <2>2, PutType DEF Progress, Final
      <3> QED BY <1>5, <2>2, <3>1 DEF Connected_2_Connected_X_iINVITEorUPDATE, Arm, TypeOK
    <2> QED BY <1>5, <2>1, <2>2 DEF Connected_2_Connected_X_iINVITEorUPDATE
  <1>6. CASE NoDialog(p)
    <2>1. exchange' \in [Sides -> [Methods -> Progress]]
      BY <1>6, PutType DEF NoDialog, Progress, Final
    <2> QED BY <1>6, <2>1 DEF NoDialog, TypeOK
  <1> QED BY <1>1, <1>2, <1>3, <1>4, <1>5, <1>6 DEF Request

\* Every step keeps the types.
LEMMA TypeStep == ASSUME TypeOK, [Next]_vars PROVE TypeOK'
  <1> USE Names, PeerSide
  <1>1. CASE Application
    BY <1>1, ApplicationType
  <1>2. ASSUME NEW p \in Sides, Response(p) \/ Request(p) PROVE TypeOK'
    BY <1>2, ResponseType, RequestType
  <1>3. CASE Any_2_Any_X_i1xx \/ Connected_2_Connected_X_iACK
    BY <1>3 DEF Any_2_Any_X_i1xx, Connected_2_Connected_X_iACK, TypeOK
  <1>4. CASE AckMissing
    BY <1>4, EndType DEF AckMissing, TypeOK
  <1>5. CASE AckLost
    <2>1. exchange' \in [Sides -> [Methods -> Progress]]
      BY <1>5, PutType DEF AckLost, Progress, Final
    <2> QED BY <1>5, <2>1 DEF AckLost, TypeOK
  <1>6. ASSUME NEW p \in Sides, SessionTimer(p) PROVE TypeOK'
    <2>1. exchange' \in [Sides -> [Methods -> Progress]]
      <3>1. Send(p, "REFRESH") \/ Send(p, "BYE") \/ UNCHANGED exchange
        BY <1>6 DEF SessionTimer, Connected_2_Connected_X_timerRefresh, Connected_2_Trying_X_timerRefresh
      <3> QED BY <3>1, SendType, PutType DEF Send, TypeOK
    <2>2. CASE Connected_2_Connected_X_timerRefresh(p)
      BY <2>1, <2>2 DEF Connected_2_Connected_X_timerRefresh, RunsOut, TypeOK
    <2>3. CASE Connected_2_Trying_X_timerRefresh(p)
      BY <2>1, <2>3 DEF Connected_2_Trying_X_timerRefresh, RunsOut, Goto, TypeOK, States
    <2> QED BY <1>6, <2>2, <2>3 DEF SessionTimer
  <1>7. ASSUME NEW p \in Sides,
               shutdown_timedout(p) \/ TimesOut(p) \/ Any_2_Terminated_X_transportError(p)
        PROVE  TypeOK'
    BY <1>7, EndType DEF shutdown_timedout, TimesOut, Any_2_Terminated_X_transportError, TypeOK
  <1>8. ASSUME NEW p \in Sides, Challenge(p) \/ Lose(p) \/ Gone(p) PROVE TypeOK'
    <2>1. \E m \in Methods, progress \in Progress : Put(p, m, progress)
      BY <1>8 DEF Challenge, Lose, Gone, Progress
    <2>2. exchange' \in [Sides -> [Methods -> Progress]]
      BY <2>1, PutType
    <2> QED BY <1>8, <2>2 DEF Challenge, Lose, Gone, TypeOK
  <1>9. CASE UNCHANGED vars
    BY <1>9 DEF vars, TypeOK
  <1> QED BY <1>1, <1>2, <1>3, <1>4, <1>5, <1>6, <1>7, <1>8, <1>9 DEF Next

-----------------------------------------------------------------------------
(***************************************************************************)
(* How a step moves a side along its life.                                 *)
(***************************************************************************)
Said(p, event) == told'[p] = Append(told[p], event)

Stays(p) == /\ told'[p] = told[p] /\ shutdown'[p] = shutdown[p]
            /\ state'[p] = state[p] \/ (state[p] = "Connected" /\ state'[p] = "Trying")

Opens(p) == /\ state[p] = "Started" /\ state'[p] \in {"Outgoing", "Ringing"}
            /\ Said(p, "connecting") /\ shutdown'[p] = shutdown[p]

Connects(p) == /\ state[p] \in {"Outgoing", "Ringing"} /\ state'[p] = "Connected"
               /\ Said(p, "connected") /\ shutdown'[p] = shutdown[p]

Leaves(p) == /\ Alive(p) /\ state'[p] \in {"Cancelling", "Trying"}
             /\ Said(p, "terminating")

Ends(p) == /\ state[p] # "Terminated" /\ state'[p] = "Terminated"
           /\ Said(p, "terminated") /\ ~shutdown'[p]

Moves(p) == Stays(p) \/ Opens(p) \/ Connects(p) \/ Leaves(p) \/ Ends(p)

LEMMA TellSays ==
    ASSUME TypeOK, NEW p \in Sides, NEW event, Tell(p, event), NEW q \in Sides
    PROVE  IF q = p THEN Said(p, event) ELSE told'[q] = told[q]
  BY DEF Tell, Said, TypeOK

\* A side that ends is the only one that moves.
LEMMA EndMoves ==
    ASSUME TypeOK, NEW p \in Sides, NEW failing, End(p, failing), state[p] # "Terminated",
           NEW q \in Sides
    PROVE  Moves(q)
  <1>1. IF q = p THEN Said(p, "terminated") ELSE told'[q] = told[q]
    BY TellSays DEF End
  <1>2. CASE q = p
    BY <1>1, <1>2 DEF End, Goto, TypeOK, Moves, Ends
  <1>3. CASE q # p
    BY <1>1, <1>3 DEF End, Goto, TypeOK, Moves, Stays
  <1> QED BY <1>2, <1>3

LEMMA SameStays ==
    ASSUME UNCHANGED <<state, told, shutdown>>, NEW q \in Sides
    PROVE  Moves(q)
  BY DEF Moves, Stays

LEMMA ApplicationMoves == ASSUME Inv, Application, NEW q \in Sides PROVE Moves(q)
  <1> USE Names DEF Inv
  <1>1. CASE Started_2_Outgoing_X_oINVITE
    <2>1. IF q = "caller" THEN Said(q, "connecting") ELSE told'[q] = told[q]
      BY <1>1, TellSays DEF Started_2_Outgoing_X_oINVITE
    <2> QED BY <1>1, <2>1 DEF Started_2_Outgoing_X_oINVITE, Goto, TypeOK, Moves, Opens, Stays
  <1>2. CASE Ringing_2_Connected_X_Accept
    <2>1. IF q = "callee" THEN Said(q, "connected") ELSE told'[q] = told[q]
      BY <1>2, TellSays DEF Ringing_2_Connected_X_Accept
    <2> QED BY <1>2, <2>1 DEF Ringing_2_Connected_X_Accept, Goto, TypeOK, Moves, Connects, Stays
  <1>3. CASE Ringing_2_Terminated_X_Reject
    BY <1>3, EndMoves DEF Ringing_2_Terminated_X_Reject
  <1>4. CASE Outgoing_2_Cancelling_X_oCANCEL
    <2>1. IF q = "caller" THEN Said(q, "terminating") ELSE told'[q] = told[q]
      BY <1>4, TellSays DEF Outgoing_2_Cancelling_X_oCANCEL
    <2> QED BY <1>4, <2>1
            DEF Outgoing_2_Cancelling_X_oCANCEL, Goto, TypeOK, Moves, Leaves, Stays, Alive
  <1>5. ASSUME NEW p \in Sides, Any_2_Trying_X_oBYE(p) PROVE Moves(q)
    <2>1. IF q = p THEN Said(p, "terminating") ELSE told'[q] = told[q]
      BY <1>5, TellSays DEF Any_2_Trying_X_oBYE
    <2> QED BY <1>5, <2>1 DEF MayAsk, Any_2_Trying_X_oBYE, Goto, TypeOK, Moves, Leaves, Stays
  <1>6. ASSUME NEW p \in Sides, Any_2_Trying_X_shutdown(p) PROVE Moves(q)
    <2>1. IF q = p THEN Said(p, "terminating") ELSE told'[q] = told[q]
      BY <1>6, TellSays DEF Any_2_Trying_X_shutdown
    <2> QED BY <1>6, <2>1 DEF MayAsk, Any_2_Trying_X_shutdown, Goto, TypeOK, Moves, Leaves, Stays
  <1> QED BY <1>1, <1>2, <1>3, <1>4, <1>5, <1>6 DEF Application

LEMMA ResponseMoves == ASSUME Inv, NEW p \in Sides, Response(p), NEW q \in Sides PROVE Moves(q)
  <1> USE Names DEF Inv
  <1>1. CASE Outgoing_2_Connected_X_i2xxINVITE
    <2>1. IF q = "caller" THEN Said(q, "connected") ELSE told'[q] = told[q]
      BY <1>1, TellSays DEF Outgoing_2_Connected_X_i2xxINVITE
    <2> QED BY <1>1, <2>1
            DEF Outgoing_2_Connected_X_i2xxINVITE, Goto, TypeOK, Moves, Connects, Stays
  <1>2. CASE \/ Any_2_Any_X_i2xxINVITE \/ Cancelling_2_Cancelling_X_i2xx
             \/ Any_2_Any_X_i2xxUPDATE(p) \/ RefusedRefresh(p)
    BY <1>2, SameStays
       DEF Any_2_Any_X_i2xxINVITE, Cancelling_2_Cancelling_X_i2xx, Any_2_Any_X_i2xxUPDATE,
           RefusedRefresh, Ignore
  <1>3. CASE Outgoing_2_Terminated_X_i300_to_i699INVITE
    BY <1>3, EndMoves, SameStays DEF Outgoing_2_Terminated_X_i300_to_i699INVITE, Ignore
  <1>4. CASE Cancelling_2_Terminated_X_i300_to_699
    BY <1>4, EndMoves, SameStays DEF Cancelling_2_Terminated_X_i300_to_699, Ignore
  <1>5. CASE UnusableAnswer(p)
    BY <1>5, EndMoves DEF UnusableAnswer, Receive, Alive
  <1>6. CASE Any_2_Any_X_i401_407_Challenge(p)
    BY <1>6, EndMoves, SameStays DEF Any_2_Any_X_i401_407_Challenge, Receive, Alive
  <1>7. CASE Any_2_Terminated_X_2xxTOi6xxBYE(p)
    BY <1>7, EndMoves DEF Any_2_Terminated_X_2xxTOi6xxBYE, Receive, Alive
  <1> QED BY <1>1, <1>2, <1>3, <1>4, <1>5, <1>6, <1>7 DEF Response

LEMMA RequestMoves == ASSUME Inv, NEW p \in Sides, Request(p), NEW q \in Sides PROVE Moves(q)
  <1> USE Names, PeerSide DEF Inv
  <1>1. CASE Started_2_Ringing_X_iINVITE
    <2>1. IF q = "callee" THEN Said(q, "connecting") ELSE told'[q] = told[q]
      BY <1>1, TellSays DEF Started_2_Ringing_X_iINVITE
    <2> QED BY <1>1, <2>1 DEF Started_2_Ringing_X_iINVITE, Goto, TypeOK, Moves, Opens, Stays
  <1>2. CASE Started_2_Terminated_X_iINVITE
    BY <1>2, EndMoves DEF Started_2_Terminated_X_iINVITE
  <1>3. CASE Ringing_2_Terminated_X_iCANCEL
    BY <1>3, EndMoves DEF Ringing_2_Terminated_X_iCANCEL
  <1>4. CASE Any_2_Terminated_X_iBYE(p)
    BY <1>4, EndMoves DEF Any_2_Terminated_X_iBYE, Alive
  <1>5. CASE Connected_2_Connected_X_iINVITEorUPDATE(p)
    BY <1>5, EndMoves, SameStays DEF Connected_2_Connected_X_iINVITEorUPDATE
  <1>6. CASE NoDialog(p)
    BY <1>6, SameStays DEF NoDialog
  <1> QED BY <1>1, <1>2, <1>3, <1>4, <1>5, <1>6 DEF Request

\* Every step moves each side in one of the ways, or not at all.
LEMMA StepMoves == ASSUME Inv, [Next]_vars, NEW q \in Sides PROVE Moves(q)
  <1> USE Names, PeerSide DEF Inv
  <1>1. CASE Application
    BY <1>1, ApplicationMoves
  <1>2. ASSUME NEW p \in Sides, Response(p) \/ Request(p) PROVE Moves(q)
    BY <1>2, ResponseMoves, RequestMoves
  <1>3. CASE \/ Any_2_Any_X_i1xx \/ Connected_2_Connected_X_iACK \/ AckLost
    BY <1>3, SameStays DEF Any_2_Any_X_i1xx, Connected_2_Connected_X_iACK, AckLost
  <1>4. CASE AckMissing
    BY <1>4, EndMoves DEF AckMissing, Alive
  <1>5. ASSUME NEW p \in Sides, SessionTimer(p) PROVE Moves(q)
    <2>1. UNCHANGED <<told, shutdown>> /\ (UNCHANGED state \/ (state[p] = "Connected" /\ Goto(p, "Trying")))
      BY <1>5 DEF SessionTimer, Connected_2_Connected_X_timerRefresh, Connected_2_Trying_X_timerRefresh
    <2> QED BY <2>1 DEF Goto, TypeOK, Moves, Stays
  <1>6. ASSUME NEW p \in Sides,
               shutdown_timedout(p) \/ TimesOut(p) \/ Any_2_Terminated_X_transportError(p)
        PROVE  Moves(q)
    <2>1. Alive(p) /\ End(p, TRUE)
      BY <1>6 DEF shutdown_timedout, TimesOut, Any_2_Terminated_X_transportError, Receive, Order
    <2> QED BY <2>1, EndMoves DEF Alive
  <1>7. ASSUME NEW p \in Sides, Challenge(p) \/ Lose(p) \/ Gone(p) PROVE Moves(q)
    BY <1>7, SameStays DEF Challenge, Lose, Gone
  <1>8. CASE UNCHANGED vars
    BY <1>8, SameStays DEF vars
  <1> QED BY <1>1, <1>2, <1>3, <1>4, <1>5, <1>6, <1>7, <1>8 DEF Next

-----------------------------------------------------------------------------
(***************************************************************************)
(* What the application is told.                                           *)
(***************************************************************************)
\* What was told stays told, and the new event is told.
LEMMA AppendSays ==
    ASSUME NEW S, NEW s \in Seq(S), NEW e \in S, NEW x
    PROVE  (\E i \in DOMAIN Append(s, e) : Append(s, e)[i] = x)
             <=> (x = e \/ \E i \in DOMAIN s : s[i] = x)
  <1>1. /\ Len(s) \in Nat /\ DOMAIN s = 1..Len(s)
        /\ DOMAIN Append(s, e) = 1..(Len(s) + 1)
        /\ Append(s, e)[Len(s) + 1] = e
        /\ \A i \in 1..Len(s) : Append(s, e)[i] = s[i]
    OBVIOUS
  <1>2. ASSUME x = e
        PROVE  \E i \in DOMAIN Append(s, e) : Append(s, e)[i] = x
    BY <1>1, <1>2
  <1>3. ASSUME NEW i \in DOMAIN s, s[i] = x
        PROVE  \E j \in DOMAIN Append(s, e) : Append(s, e)[j] = x
    BY <1>1, <1>3
  <1>4. ASSUME NEW i \in DOMAIN Append(s, e), Append(s, e)[i] = x
        PROVE  x = e \/ \E j \in DOMAIN s : s[j] = x
    BY <1>1, <1>4
  <1> QED BY <1>1, <1>2, <1>3, <1>4

LEMMA SaidTells ==
    ASSUME TypeOK, NEW p \in Sides, NEW event \in Words, Said(p, event), NEW x
    PROVE  Told(p, x)' <=> (x = event \/ Told(p, x))
  <1>1. told[p] \in Seq(Words)
    BY DEF TypeOK, Words
  <1> QED BY <1>1, AppendSays DEF Said, Told

\* One that has not been told anything, or only one thing.
LEMMA FewTold ==
    ASSUME TypeOK, NEW p \in Sides
    PROVE  /\ told[p] = <<>> => \A x : ~Told(p, x)
           /\ told[p] = <<"connecting">> => \A x : Told(p, x) => x = "connecting"
  BY DEF Told

LEMMA InvInit == Init => Inv
  <1> SUFFICES ASSUME Init PROVE Inv
    OBVIOUS
  <1>1. TypeOK
    BY TypeInit
  <1>2. \A p \in Sides : told[p] = <<>> /\ \A x : ~Told(p, x)
    BY <1>1, FewTold DEF Init
  <1>3. \A p \in Sides : Order(p)
    BY <1>2 DEF Init, Order
  <1>4. ~PickedUp
    BY <1>2, Names DEF Init, PickedUp
  <1> QED BY <1>1, <1>3, <1>4 DEF Inv

\* The state of the FSM follows what the application is told.
LEMMA OrderStep == ASSUME Inv, NEW p \in Sides, Moves(p), TypeOK' PROVE Order(p)'
  <1>1. TypeOK /\ Order(p)
    BY DEF Inv
  <1>2. CASE Stays(p)
    BY <1>1, <1>2 DEF Order, Stays, Told, Alive
  <1>3. CASE Opens(p)
    <2>1. told[p] = <<>> /\ \A x : ~Told(p, x)
      BY <1>1, <1>3, FewTold DEF Order, Opens
    <2>2. told'[p] = <<"connecting">>
      BY <1>3, <2>1 DEF Opens, Said
    <2>3. ~Told(p, "terminated")'
      BY <1>1, <1>3, <2>1, SaidTells DEF Opens, Words
    <2> QED BY <1>1, <1>3, <2>2, <2>3 DEF Opens, Order, Alive
  <1>4. CASE Connects(p)
    <2>1. ~Told(p, "terminated")'
      BY <1>1, <1>4, SaidTells DEF Connects, Words, Order
    <2> QED BY <1>1, <1>4, <2>1 DEF Connects, Order, Alive
  <1>5. CASE Leaves(p)
    <2>1. ~Told(p, "terminated")'
      BY <1>1, <1>5, SaidTells DEF Leaves, Words, Order, Alive
    <2> QED BY <1>1, <1>5, <2>1 DEF Leaves, Order, Alive
  <1>6. CASE Ends(p)
    BY <1>6 DEF Ends, Order
  <1> QED BY <1>2, <1>3, <1>4, <1>5, <1>6 DEF Moves

\* Nothing that was told is untold.
LEMMA ToldGrows == ASSUME Inv, NEW p \in Sides, Moves(p), NEW x PROVE Told(p, x) => Told(p, x)'
  <1>1. TypeOK
    BY DEF Inv
  <1>2. CASE Stays(p)
    BY <1>2 DEF Stays, Told
  <1>3. ASSUME NEW event \in Words, Said(p, event)
        PROVE  Told(p, x) => Told(p, x)'
    BY <1>1, <1>3, SaidTells
  <1> QED BY <1>2, <1>3 DEF Moves, Opens, Connects, Leaves, Ends, Words

-----------------------------------------------------------------------------
(***************************************************************************)
(* Who is connected.                                                       *)
(***************************************************************************)
\* Nothing answers the INVITE with a 2xx, and the caller does not connect.
Unanswered == /\ exchange'["caller"]["INVITE"] # "2xx" /\ ack' = "none"
              /\ state'["caller"] = "Connected" => state["caller"] = "Connected"

LEMMA PutUnanswered ==
    ASSUME Inv, ~PickedUp, NEW p \in Sides, NEW m \in Methods, NEW progress, Put(p, m, progress),
           m = "INVITE" => progress # "2xx"
    PROVE  exchange'["caller"]["INVITE"] # "2xx"
  BY Names DEF Inv, TypeOK, PickedUp, Put

LEMMA EndUnanswered ==
    ASSUME TypeOK, NEW p \in Sides, NEW failing, End(p, failing)
    PROVE  state'["caller"] = "Connected" => state["caller"] = "Connected"
  BY Names DEF End, Goto, TypeOK

LEMMA ApplicationUnanswered ==
    ASSUME Inv, ~PickedUp, Application, ~Ringing_2_Connected_X_Accept
    PROVE  Unanswered
  <1> USE Names DEF Inv, Unanswered
  <1>0. ack = "none" /\ exchange["caller"]["INVITE"] # "2xx"
    BY DEF PickedUp
  <1>1. CASE Started_2_Outgoing_X_oINVITE
    BY <1>0, <1>1, PutUnanswered DEF Started_2_Outgoing_X_oINVITE, Send, Sending, Goto, TypeOK
  <1>2. CASE Ringing_2_Terminated_X_Reject
    BY <1>0, <1>2, PutUnanswered, EndUnanswered DEF Ringing_2_Terminated_X_Reject
  <1>3. CASE Outgoing_2_Cancelling_X_oCANCEL
    BY <1>0, <1>3, PutUnanswered DEF Outgoing_2_Cancelling_X_oCANCEL, Send, Goto, TypeOK
  <1>4. ASSUME NEW p \in Sides, Any_2_Trying_X_oBYE(p) PROVE Unanswered
    BY <1>0, <1>4, PutUnanswered DEF Any_2_Trying_X_oBYE, Send, Goto, TypeOK
  <1>5. ASSUME NEW p \in Sides, Any_2_Trying_X_shutdown(p) PROVE Unanswered
    <2>1. Send(p, "BYE") \/ Send(p, "CANCEL") \/ UNCHANGED exchange
      BY <1>5 DEF Any_2_Trying_X_shutdown
    <2>2. exchange'["caller"]["INVITE"] # "2xx"
      BY <1>0, <2>1, PutUnanswered DEF Send
    <2> QED BY <1>0, <1>5, <2>2 DEF Any_2_Trying_X_shutdown, Goto, TypeOK
  <1> QED BY <1>1, <1>2, <1>3, <1>4, <1>5 DEF Application

LEMMA ResponseUnanswered ==
    ASSUME Inv, ~PickedUp, NEW p \in Sides, Response(p)
    PROVE  Unanswered
  <1> USE Names DEF Inv, Unanswered
  <1>0. ack = "none" /\ exchange["caller"]["INVITE"] # "2xx"
    BY DEF PickedUp
  <1>1. ~Outgoing_2_Connected_X_i2xxINVITE /\ ~Any_2_Any_X_i2xxINVITE
    BY <1>0 DEF Outgoing_2_Connected_X_i2xxINVITE, Any_2_Any_X_i2xxINVITE, Receive
  <1>2. ASSUME NEW q \in Sides, NEW m \in Methods, Ignore(q, m) PROVE Unanswered
    BY <1>0, <1>2, PutUnanswered DEF Ignore
  <1>3. CASE Outgoing_2_Terminated_X_i300_to_i699INVITE
    BY <1>0, <1>2, <1>3, PutUnanswered, EndUnanswered DEF Outgoing_2_Terminated_X_i300_to_i699INVITE
  <1>4. CASE Cancelling_2_Cancelling_X_i2xx \/ RefusedRefresh(p)
    BY <1>2, <1>4 DEF Cancelling_2_Cancelling_X_i2xx, RefusedRefresh
  <1>5. CASE Cancelling_2_Terminated_X_i300_to_699
    BY <1>0, <1>2, <1>5, PutUnanswered, EndUnanswered DEF Cancelling_2_Terminated_X_i300_to_699
  <1>6. CASE Any_2_Any_X_i2xxUPDATE(p)
    BY <1>0, <1>6, PutUnanswered DEF Any_2_Any_X_i2xxUPDATE
  <1>7. CASE UnusableAnswer(p)
    <2>1. PICK m \in {"INVITE", "REFRESH"} :
            /\ exchange' = [exchange EXCEPT ![p][m] = "idle", ![p]["BYE"] = Sending(p, "BYE")]
            /\ End(p, TRUE) /\ UNCHANGED ack
      BY <1>7 DEF UnusableAnswer
    <2>2. exchange'["caller"]["INVITE"] # "2xx"
      BY <1>0, <2>1 DEF TypeOK
    <2> QED BY <1>0, <2>1, <2>2, EndUnanswered
  <1>8. CASE Any_2_Any_X_i401_407_Challenge(p)
    <2>1. PICK m \in {"INVITE", "REFRESH", "BYE"} :
            /\ \/ Put(p, m, "idle") /\ End(p, TRUE)
               \/ Put(p, m, "sent") /\ UNCHANGED state
            /\ UNCHANGED ack
      BY <1>8 DEF Any_2_Any_X_i401_407_Challenge
    <2>2. exchange'["caller"]["INVITE"] # "2xx"
      BY <2>1, PutUnanswered
    <2> QED BY <1>0, <2>1, <2>2, EndUnanswered
  <1>9. CASE Any_2_Terminated_X_2xxTOi6xxBYE(p)
    BY <1>0, <1>9, PutUnanswered, EndUnanswered DEF Any_2_Terminated_X_2xxTOi6xxBYE
  <1> QED BY <1>1, <1>3, <1>4, <1>5, <1>6, <1>7, <1>8, <1>9 DEF Response

LEMMA RequestUnanswered ==
    ASSUME Inv, ~PickedUp, NEW p \in Sides, Request(p)
    PROVE  Unanswered
  <1> USE Names, PeerSide DEF Inv, Unanswered
  <1>0. ack = "none" /\ exchange["caller"]["INVITE"] # "2xx"
    BY DEF PickedUp
  <1>1. CASE Started_2_Ringing_X_iINVITE
    BY <1>0, <1>1, PutUnanswered DEF Started_2_Ringing_X_iINVITE, Goto, TypeOK
  <1>2. CASE Started_2_Terminated_X_iINVITE
    BY <1>0, <1>2, PutUnanswered, EndUnanswered DEF Started_2_Terminated_X_iINVITE
  <1>3. CASE Ringing_2_Terminated_X_iCANCEL
    <2>1. exchange'["caller"]["INVITE"] # "2xx"
      BY <1>3 DEF Ringing_2_Terminated_X_iCANCEL, TypeOK
    <2> QED BY <1>0, <1>3, <2>1, EndUnanswered DEF Ringing_2_Terminated_X_iCANCEL
  <1>4. CASE Any_2_Terminated_X_iBYE(p)
    BY <1>0, <1>4, PutUnanswered, EndUnanswered DEF Any_2_Terminated_X_iBYE
  <1>5. CASE Connected_2_Connected_X_iINVITEorUPDATE(p)
    BY <1>0, <1>5, PutUnanswered, EndUnanswered DEF Connected_2_Connected_X_iINVITEorUPDATE
  <1>6. CASE NoDialog(p)
    BY <1>0, <1>6, PutUnanswered DEF NoDialog
  <1> QED BY <1>1, <1>2, <1>3, <1>4, <1>5, <1>6 DEF Request

\* Until the callee picks up, nothing else does.
LEMMA StepUnanswered ==
    ASSUME Inv, ~PickedUp, [Next]_vars, ~Ringing_2_Connected_X_Accept
    PROVE  Unanswered
  <1> USE Names, PeerSide DEF Inv, Unanswered
  <1>0. ack = "none" /\ exchange["caller"]["INVITE"] # "2xx"
    BY DEF PickedUp
  <1>1. CASE Application
    BY <1>1, ApplicationUnanswered
  <1>2. ASSUME NEW p \in Sides, Response(p) \/ Request(p) PROVE Unanswered
    BY <1>2, ResponseUnanswered, RequestUnanswered
  <1>3. CASE Any_2_Any_X_i1xx
    BY <1>0, <1>3 DEF Any_2_Any_X_i1xx
  <1>4. ~Connected_2_Connected_X_iACK /\ ~AckMissing /\ ~AckLost
    BY <1>0 DEF Connected_2_Connected_X_iACK, AckMissing, AckLost
  <1>5. ASSUME NEW p \in Sides, SessionTimer(p) PROVE Unanswered
    <2>1. Send(p, "REFRESH") \/ Send(p, "BYE") \/ UNCHANGED exchange
      BY <1>5 DEF SessionTimer, Connected_2_Connected_X_timerRefresh, Connected_2_Trying_X_timerRefresh
    <2>2. exchange'["caller"]["INVITE"] # "2xx"
      BY <1>0, <2>1, PutUnanswered DEF Send
    <2>3. UNCHANGED ack /\ (UNCHANGED state \/ Goto(p, "Trying"))
      BY <1>5 DEF SessionTimer, Connected_2_Connected_X_timerRefresh, Connected_2_Trying_X_timerRefresh
    <2> QED BY <1>0, <2>2, <2>3 DEF Goto, TypeOK
  <1>6. ASSUME NEW p \in Sides,
               shutdown_timedout(p) \/ TimesOut(p) \/ Any_2_Terminated_X_transportError(p)
        PROVE  Unanswered
    BY <1>0, <1>6, EndUnanswered DEF shutdown_timedout, TimesOut, Any_2_Terminated_X_transportError
  <1>7. ASSUME NEW p \in Sides, Challenge(p) \/ Lose(p) \/ Gone(p) PROVE Unanswered
    <2>1. \E m \in Methods, progress \in {"401", "lost", "sent", "idle"} : Put(p, m, progress)
      BY <1>7 DEF Challenge, Lose, Gone
    <2>2. exchange'["caller"]["INVITE"] # "2xx"
      BY <2>1, PutUnanswered
    <2> QED BY <1>0, <1>7, <2>2 DEF Challenge, Lose, Gone
  <1>8. CASE UNCHANGED vars
    BY <1>0, <1>8 DEF vars
  <1> QED BY <1>1, <1>2, <1>3, <1>4, <1>5, <1>6, <1>7, <1>8 DEF Next

\* The callee has picked up before the caller hears of it.
LEMMA PickedUpStep ==
    ASSUME Inv, [Next]_vars, PickedUp'
    PROVE  Told("callee", "connected")'
  <1> USE Names
  <1>0. TypeOK
    BY DEF Inv
  <1>1. Moves("caller") /\ Moves("callee")
    BY StepMoves
  <1>2. CASE PickedUp
    BY <1>1, <1>2, ToldGrows DEF Inv
  <1>3. CASE Ringing_2_Connected_X_Accept
    <2>1. Said("callee", "connected")
      BY <1>0, <1>3, TellSays DEF Ringing_2_Connected_X_Accept
    <2> QED BY <1>0, <2>1, SaidTells DEF Words
  <1>4. CASE ~PickedUp /\ ~Ringing_2_Connected_X_Accept
    <2>1. Unanswered
      BY <1>4, StepUnanswered
    <2>2. ~Told("caller", "connected")
      BY <1>4 DEF PickedUp
    <2>3. ~Connects("caller")
      BY <2>1 DEF Unanswered, Connects
    <2>4. CASE Stays("caller")
      BY <2>1, <2>2, <2>4 DEF Stays, Told, Unanswered, PickedUp
    <2>5. ASSUME NEW event \in Words \ {"connected"}, Said("caller", event)
          PROVE  FALSE
      <3>1. ~Told("caller", "connected")'
        BY <1>0, <2>2, <2>5, SaidTells
      <3> QED BY <2>1, <3>1 DEF Unanswered, PickedUp
    <2> QED BY <1>1, <2>3, <2>4, <2>5 DEF Moves, Opens, Leaves, Ends, Words
  <1> QED BY <1>2, <1>3, <1>4

LEMMA InvStep == ASSUME Inv, [Next]_vars PROVE Inv'
  <1>1. TypeOK'
    BY TypeStep DEF Inv
  <1>2. \A p \in Sides : Order(p)'
    BY <1>1, StepMoves, OrderStep
  <1>3. PickedUp' => Told("callee", "connected")'
    BY PickedUpStep
  <1> QED BY <1>1, <1>2, <1>3 DEF Inv, Sides

LEMMA AlwaysInv == Spec => []Inv
  <1>1. Init => Inv
    BY InvInit
  <1>2. Inv /\ [Next]_vars => Inv'
    BY InvStep
  <1> QED BY <1>1, <1>2, PTL DEF Spec

-----------------------------------------------------------------------------
(***************************************************************************)
(* The theorems.                                                           *)
(***************************************************************************)
\* The types are right in every state: TypeOK.
THEOREM TypeCorrect == Spec => []TypeOK
  <1>1. Inv => TypeOK
    BY DEF Inv
  <1> QED BY <1>1, AlwaysInv, PTL

\* The caller is told that it is connected only after the callee was:
\* ConnectedTogether.
THEOREM ConnectedAfterCallee == Spec => []ConnectedTogether
  <1>1. Inv => ConnectedTogether
    BY DEF Inv, PickedUp, ConnectedTogether
  <1> QED BY <1>1, AlwaysInv, PTL

\* A step of the call is a step of the life of each side, or none.
LEMMA LifeStep ==
    ASSUME Inv, NEW p \in Sides, Moves(p), told'[p] # told[p]
    PROVE  \E event \in Words :
             /\ told'[p] = Append(told[p], event)
             /\ ~Told(p, "terminated")
             /\ event = "connecting" => told[p] = <<>>
             /\ event = "connected" => told[p] = <<"connecting">>
  <1>1. TypeOK /\ Order(p)
    BY DEF Inv
  <1>2. CASE Opens(p)
    BY <1>1, <1>2, FewTold DEF Opens, Said, Order, Words
  <1>3. CASE Connects(p)
    BY <1>1, <1>3, FewTold DEF Connects, Said, Order, Words
  <1>4. CASE Leaves(p)
    BY <1>1, <1>4 DEF Leaves, Said, Order, Words, Alive
  <1>5. CASE Ends(p)
    BY <1>1, <1>5 DEF Ends, Said, Order, Words
  <1> QED BY <1>2, <1>3, <1>4, <1>5 DEF Moves, Stays

\* The events each application is told are those of one life: ImplementsDialogLife.
THEOREM TellsOneLife == Spec => ImplementsDialogLife
  <1>1. Init => told["caller"] = <<>> /\ told["callee"] = <<>>
    BY Names DEF Init
  <1>2. Inv /\ [Next]_vars => [CallerLife!Next]_(told["caller"])
    <2> SUFFICES ASSUME Inv, [Next]_vars, told'["caller"] # told["caller"]
                 PROVE  CallerLife!Next
      OBVIOUS
    <2> QED BY Names, StepMoves, LifeStep
            DEF CallerLife!Next, CallerLife!Saying, CallerLife!Events, Words, Told
  <1>3. Inv /\ [Next]_vars => [CalleeLife!Next]_(told["callee"])
    <2> SUFFICES ASSUME Inv, [Next]_vars, told'["callee"] # told["callee"]
                 PROVE  CalleeLife!Next
      OBVIOUS
    <2> QED BY Names, StepMoves, LifeStep
            DEF CalleeLife!Next, CalleeLife!Saying, CalleeLife!Events, Words, Told
  <1> QED BY <1>1, <1>2, <1>3, AlwaysInv, PTL
          DEF Spec, ImplementsDialogLife, CallerLife!Spec, CalleeLife!Spec
=============================================================================
