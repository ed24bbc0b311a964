---------------------------- MODULE DialogLayerProofs ----------------------------
(***************************************************************************)
(* For every number of dialogs, of whatever sorts, and of stops: the first *)
(* phase of the shutdown reaches everyone it is meant for, the last phase  *)
(* ends everyone it is meant for, and the signal of the disconnection      *)
(* reaches everyone if everyone reacts.                                    *)
(***************************************************************************)
EXTENDS DialogLayer, FiniteSetTheorems, TLAPS

\* What the walk does not have to come to any more.
Settled(d) == state[d] \in {"Leaving", "gone"}

\* A busy dialog was born, is under way, and is one the first phase is for.
BusyIsMeant == \A d \in busy : /\ state[d] \notin {"unborn", "Started"}
                               /\ \/ state[d] = "gone"
                                  \/ /\ sort[d].kind \notin {"REGISTER", "OPTIONS"}
                                     /\ ~sort[d].silent

\* The walk of the first phase stands before everyone it still has to come to.
WalkIsBefore == pc = "phase1" => \A d \in busy : Settled(d) \/ (at # Nobody /\ at <= d)

\* After it, it has come to everyone.
WalkIsOver == pc \notin {"running", "phase1"} => \A d \in busy : Settled(d)

Shape == /\ sort \in [Dialogs -> [kind : Kinds, silent : BOOLEAN]]
         /\ state \in [Dialogs -> {"unborn", "Started", "InProgress", "Connected",
                                  "Leaving", "gone"}]
         /\ at \in Dialogs \cup {Nobody}
         /\ busy \subseteq Dialogs

IInv == Shape /\ BusyIsMeant /\ WalkIsBefore /\ WalkIsOver

-----------------------------------------------------------------------------
\* Where a walk goes: to the next item of the list, or to nobody behind its end.
LEMMA GoesToNext ==
    ASSUME NEW n \in Dialogs \cup {Nobody}, GoTo(n)
    PROVE  /\ at' \in Dialogs \cup {Nobody}
           /\ \A d \in Dialogs : d \in Listed' /\ d > n => at' # Nobody /\ at' <= d
  <1>1. Listed' \subseteq Dialogs
    BY DEF Listed
  <1>2. CASE \A d \in Listed' : d <= n
    BY <1>1, <1>2, MaxDialogsAssumption DEF GoTo, Dialogs, Nobody
  <1>3. CASE ~\A d \in Listed' : d <= n
    <2>1. /\ at' \in Listed' /\ at' > n
          /\ \A d \in Listed' : d > n => at' <= d
      BY <1>3 DEF GoTo
    <2>2. n \in Nat /\ at' \in Nat
      BY <1>1, <2>1, MaxDialogsAssumption DEF Dialogs, Nobody
    <2>3. at' # Nobody
      BY <2>1, <2>2 DEF Nobody
    <2> QED BY <1>1, <2>1, <2>3
  <1> QED BY <1>2, <1>3

LEMMA GoesSomewhere ==
    ASSUME NEW n \in Dialogs \cup {Nobody}, GoTo(n)
    PROVE  at' = Nobody \/ at' \in Listed'
  <1>1. CASE \A d \in Listed' : d <= n
    BY <1>1 DEF GoTo
  <1>2. CASE ~\A d \in Listed' : d <= n
    BY <1>2 DEF GoTo
  <1> QED BY <1>1, <1>2

\* Who has not been asked to leave is on the list.
LEMMA BusyIsListed ==
    ASSUME IInv, NEW d \in busy, ~Settled(d)
    PROVE  d \in Listed /\ d \in Dialogs
  BY DEF IInv, Shape, BusyIsMeant, Settled, Listed

\* A step that ends a dialog, or lets one that was under way go on, and that leaves
\* the walk where it is, disturbs nothing.
LEMMA OthersDisturbNothing ==
    ASSUME IInv, NEW d \in Dialogs, NEW after \in {"Started", "InProgress", "Connected", "gone"},
           state' = [state EXCEPT ![d] = after],
           after = "Started" => state[d] = "unborn",
           after = "InProgress" => state[d] \in {"Started", "Connected"},
           after = "Connected" => state[d] = "InProgress",
           sort' \in [Dialogs -> [kind : Kinds, silent : BOOLEAN]],
           \A e \in Dialogs : state[e] # "unborn" /\ state'[e] # "gone" => sort'[e] = sort[e],
           UNCHANGED <<at, busy>>,
           pc' = "phase1" <=> pc = "phase1",
           pc' = "running" <=> pc = "running"
    PROVE  IInv'
  <1>1. Shape'
    BY DEF IInv, Shape
  <1>2. BusyIsMeant'
    BY DEF IInv, Shape, BusyIsMeant
  <1>3. \A e \in busy : Settled(e) => Settled(e)'
    BY DEF IInv, Shape, Settled
  <1>4. WalkIsBefore'
    BY <1>3 DEF IInv, WalkIsBefore
  <1>5. WalkIsOver'
    BY <1>3 DEF IInv, WalkIsOver
  <1> QED BY <1>1, <1>2, <1>4, <1>5 DEF IInv

\* Who is asked to leave does, or ends, unless it has nothing to leave.
LEMMA Visited ==
    ASSUME IInv, NEW eligible \in BOOLEAN, Visit(eligible)
    PROVE  /\ at \in Dialogs /\ at \in Listed
           /\ Shape' /\ BusyIsMeant'
           /\ \A d \in busy : Settled(d) => Settled(d)'
           /\ \A d \in Dialogs : d # at => state'[d] = state[d]
           /\ eligible /\ at \in busy => state'[at] \in {"Leaving", "gone"}
           /\ state'[at] = "gone" /\ state[at] # "gone" => GoTo(Nobody)
           /\ state'[at] # "gone" => GoTo(at)
           /\ busy' = busy /\ pc' = pc
  <1> USE DEF IInv
  <1>1. at \in Listed /\ at \in Dialogs /\ at \in Dialogs \cup {Nobody} /\ state[at] # "gone"
    BY DEF Visit, Listed
  <1>2. busy' = busy /\ pc' = pc
    BY DEF Visit
  <1>3. CASE ~eligible
    <2>1. UNCHANGED <<sort, state>> /\ GoTo(at)
      BY <1>3 DEF Visit
    <2>2. at' \in Dialogs \cup {Nobody}
      BY <2>1, <1>1, GoesToNext
    <2> QED BY <1>1, <1>2, <1>3, <2>1, <2>2 DEF Shape, BusyIsMeant, Settled
  <1>4. CASE eligible
    <2>1. PICK after \in AfterShutdown(at) :
             /\ state' = [state EXCEPT ![at] = after]
             /\ sort' = IF after = "gone" THEN [sort EXCEPT ![at] = NoSort] ELSE sort
             /\ IF after = "gone" THEN GoTo(Nobody) ELSE GoTo(at)
      BY <1>4 DEF Visit
    <2>2. after \in {"Leaving", "gone"} \/ (after = state[at] /\ Ignores(at))
      BY DEF AfterShutdown
    <2>3. at' \in Dialogs \cup {Nobody}
      BY <2>1, <1>1, GoesToNext
    <2>4. NoSort \in [kind : Kinds, silent : BOOLEAN]
      BY DEF NoSort, Kinds
    <2>5. Shape'
      BY <1>1, <1>2, <2>1, <2>2, <2>3, <2>4 DEF Shape
    <2>6. BusyIsMeant'
      BY <1>1, <1>2, <2>1, <2>2 DEF Shape, BusyIsMeant
    <2>7. at \in busy => after \in {"Leaving", "gone"}
      BY <1>1, <2>2 DEF BusyIsMeant, Ignores
    <2>8. \A d \in busy : Settled(d) => Settled(d)'
      BY <1>1, <2>1, <2>7 DEF Shape, Settled
    <2>9. at \in busy => state'[at] \in {"Leaving", "gone"}
      BY <1>1, <2>1, <2>7 DEF Shape
    <2> QED BY <1>1, <1>2, <2>1, <2>2, <2>5, <2>6, <2>8, <2>9 DEF Shape
  <1> QED BY <1>3, <1>4

\* A step of the shutdown that only moves on after the first phase.
LEMMA MovesOn ==
    ASSUME IInv, UNCHANGED <<sort, state, busy>>, at' \in Dialogs \cup {Nobody},
           pc \notin {"running", "phase1"}, pc' # "phase1"
    PROVE  IInv'
  BY DEF IInv, Shape, BusyIsMeant, WalkIsBefore, WalkIsOver, Settled

-----------------------------------------------------------------------------
LEMMA Initially == Init => IInv
  BY DEF Init, IInv, Shape, BusyIsMeant, WalkIsBefore, WalkIsOver, NoSort, Kinds, Nobody

LEMMA StopStep == IInv /\ Stop => IInv'
  <1> SUFFICES ASSUME IInv, Stop PROVE IInv'
    OBVIOUS
  <1>1. /\ UNCHANGED <<sort, state>>
        /\ busy' = {d \in Listed \ Registers : /\ ~sort[d].silent
                                               /\ state[d] # "Started" /\ ~Ignores(d)}
    BY DEF Stop
  <1>2. Listed' = Listed /\ Listed \subseteq Dialogs /\ Registers \subseteq Listed
    BY <1>1 DEF Listed, Registers
  <1>3. BusyIsMeant'
    BY <1>1 DEF BusyIsMeant, Listed, Registers, Ignores
  <1>4. at' \in Dialogs \cup {Nobody}
    <2>1. CASE GoTo(Nobody)
      BY <2>1, GoesToNext
    <2>2. CASE at' = at
      BY <2>2 DEF IInv, Shape
    <2> QED BY <2>1, <2>2 DEF Stop
  <1>5. Shape'
    BY <1>1, <1>2, <1>4 DEF IInv, Shape
  <1>6. CASE pc' = "phase1"
    <2>1. GoTo(Nobody)
      BY <1>6 DEF Stop
    <2>2. \A d \in Dialogs : d \in Listed => at' # Nobody /\ at' <= d
      BY <2>1, <1>2, GoesToNext, MaxDialogsAssumption DEF Dialogs, Nobody
    <2>3. busy' \subseteq Listed /\ busy' \subseteq Dialogs
      BY <1>1, <1>2
    <2> QED BY <1>3, <1>5, <1>6, <2>2, <2>3 DEF IInv, WalkIsBefore, WalkIsOver
  <1>7. CASE pc' # "phase1"
    <2>1. Listed \ Registers = {}
      BY <1>2, <1>7 DEF Stop
    <2>2. busy' = {}
      BY <1>1, <2>1
    <2> QED BY <1>3, <1>5, <1>7, <2>2 DEF IInv, WalkIsBefore, WalkIsOver
  <1> QED BY <1>6, <1>7

LEMMA Phase1Step == IInv /\ Phase1 => IInv'
  <1> SUFFICES ASSUME IInv, Phase1 PROVE IInv'
    OBVIOUS
  <1> DEFINE eligible == sort[at].kind # "REGISTER" /\ ~sort[at].silent
  <1>1. pc = "phase1" /\ Visit(eligible)
    BY DEF Phase1
  <1>2. eligible \in BOOLEAN
    OBVIOUS
  <1> HIDE DEF eligible
  <1>3. /\ at \in Dialogs /\ at \in Listed
        /\ Shape' /\ BusyIsMeant'
        /\ \A d \in busy : Settled(d) => Settled(d)'
        /\ \A d \in Dialogs : d # at => state'[d] = state[d]
        /\ eligible /\ at \in busy => state'[at] \in {"Leaving", "gone"}
        /\ state'[at] = "gone" /\ state[at] # "gone" => GoTo(Nobody)
        /\ state'[at] # "gone" => GoTo(at)
        /\ busy' = busy /\ pc' = pc
    BY <1>1, <1>2, Visited
  <1>4. at \in busy => eligible
    BY <1>3 DEF IInv, BusyIsMeant, Listed, eligible
  <1>5. ASSUME NEW d \in busy, ~Settled(d)'
        PROVE  at' # Nobody /\ at' <= d
    <2>1. ~Settled(d) /\ d # at
      <3>1. state'[d] \notin {"Leaving", "gone"}
        BY <1>5 DEF Settled
      <3> QED BY <1>3, <1>4, <1>5, <3>1
    <2>2. d \in Dialogs /\ d \in Listed /\ at <= d
      BY <1>1, <2>1, BusyIsListed DEF IInv, WalkIsBefore
    <2>3. d \in Listed'
      BY <1>3, <2>1, <2>2 DEF Listed
    <2>4. d > at /\ d > Nobody /\ Nobody \in Dialogs \cup {Nobody}
      BY <1>3, <2>1, <2>2, MaxDialogsAssumption DEF Dialogs, Nobody
    <2>5. CASE state'[at] = "gone"
      <3>1. GoTo(Nobody)
        BY <1>3, <2>5 DEF Listed
      <3> QED BY <3>1, <2>2, <2>3, <2>4, GoesToNext
    <2>6. CASE state'[at] # "gone"
      <3>1. GoTo(at)
        BY <1>3, <2>6
      <3> QED BY <3>1, <1>3, <2>2, <2>3, <2>4, GoesToNext
    <2> QED BY <2>5, <2>6
  <1>6. WalkIsBefore'
    BY <1>3, <1>5 DEF WalkIsBefore
  <1>7. WalkIsOver'
    BY <1>1, <1>3 DEF WalkIsOver
  <1> QED BY <1>3, <1>6, <1>7 DEF IInv

LEMMA LaterVisit ==
    ASSUME IInv, NEW eligible \in BOOLEAN, Visit(eligible), pc \notin {"running", "phase1"}
    PROVE  IInv'
  <1>1. /\ Shape' /\ BusyIsMeant'
        /\ \A d \in busy : Settled(d) => Settled(d)'
        /\ busy' = busy /\ pc' = pc
    BY Visited
  <1> QED BY <1>1 DEF IInv, WalkIsBefore, WalkIsOver

LEMMA ShutdownStep == IInv /\ Shutdown => IInv'
  <1> SUFFICES ASSUME IInv, Shutdown PROVE IInv'
    OBVIOUS
  <1>1. CASE Phase1
    BY <1>1, Phase1Step
  <1>2. CASE Phase1Ends
    <2>1. \A d \in busy : Settled(d)
      BY <1>2 DEF Phase1Ends, Leave, IInv, WalkIsBefore
    <2>2. UNCHANGED <<sort, state, at, busy>> /\ pc' \in {"doze1", "awake1"}
      BY <1>2 DEF Phase1Ends, Leave, walkVars
    <2> QED BY <2>1, <2>2 DEF IInv, Shape, BusyIsMeant, WalkIsBefore, WalkIsOver, Settled
  <1>3. CASE Phase2Begins
    <2>1. at' \in Dialogs \cup {Nobody}
      BY <1>3, GoesToNext DEF Phase2Begins
    <2> QED BY <1>3, <2>1, MovesOn DEF Phase2Begins
  <1>4. CASE Phase2
    <2>1. (sort[at].kind = "REGISTER") \in BOOLEAN
      OBVIOUS
    <2> QED BY <1>4, <2>1, LaterVisit DEF Phase2
  <1>5. CASE Phase2Ends
    BY <1>5, MovesOn DEF Phase2Ends, Leave, walkVars, IInv, Shape
  <1>6. CASE Phase3Begins
    <2>1. at' \in Dialogs \cup {Nobody}
      BY <1>6, GoesToNext DEF Phase3Begins
    <2> QED BY <1>6, <2>1, MovesOn DEF Phase3Begins
  <1>7. CASE Phase3
    <2>1. sort[at].silent \in BOOLEAN
      <3>1. at \in Dialogs
        BY <1>7 DEF Phase3, Visit, Listed
      <3> QED BY <3>1 DEF IInv, Shape
    <2> QED BY <1>7, <2>1, LaterVisit DEF Phase3
  <1>8. CASE Phase3Lost
    <2>1. at' \in Dialogs \cup {Nobody}
      BY <1>8 DEF Phase3Lost, Listed
    <2> QED BY <1>8, <2>1, MovesOn DEF Phase3Lost, walkVars
  <1>9. CASE Phase3Ends
    BY <1>9, MovesOn DEF Phase3Ends, Leave, walkVars, IInv, Shape
  <1>10. CASE FallsAsleep
    BY <1>10, MovesOn DEF FallsAsleep, walkVars, IInv, Shape
  <1>11. CASE TimesOut
    BY <1>11, MovesOn DEF TimesOut, walkVars, IInv, Shape
  <1> QED BY <1>1, <1>2, <1>3, <1>4, <1>5, <1>6, <1>7, <1>8, <1>9, <1>10, <1>11 DEF Shutdown

\* A dialog that is removed, by whoever removes it.
LEMMA RemoveStep ==
    ASSUME IInv, NEW d \in Dialogs, Remove(d)
    PROVE  IInv'
  <1>1. NoSort \in [kind : Kinds, silent : BOOLEAN]
    BY DEF NoSort, Kinds
  <1>2. sort' \in [Dialogs -> [kind : Kinds, silent : BOOLEAN]]
    BY <1>1 DEF Remove, IInv, Shape
  <1>3. \A e \in Dialogs : state[e] # "unborn" /\ state'[e] # "gone" => sort'[e] = sort[e]
    BY DEF Remove, IInv, Shape
  <1>4. (pc' = "phase1" <=> pc = "phase1") /\ (pc' = "running" <=> pc = "running")
    BY DEF Remove
  <1>5. state' = [state EXCEPT ![d] = "gone"] /\ UNCHANGED <<at, busy>>
    BY DEF Remove
  <1> QED BY <1>2, <1>3, <1>4, <1>5, OthersDisturbNothing

LEMMA DialogStep ==
    ASSUME IInv, NEW d \in Dialogs, New(d) \/ Begins(d) \/ Succeeds(d) \/ Ends(d)
    PROVE  IInv'
  <1>1. CASE New(d)
    <2>1. PICK s \in Sorts : sort' = [sort EXCEPT ![d] = s]
      BY <1>1 DEF New
    <2>2. sort' \in [Dialogs -> [kind : Kinds, silent : BOOLEAN]]
      BY <2>1, SortsAssumption DEF IInv, Shape
    <2>3. state[d] = "unborn" /\ state' = [state EXCEPT ![d] = "Started"]
      BY <1>1 DEF New
    <2>4. \A e \in Dialogs : state[e] # "unborn" /\ state'[e] # "gone" => sort'[e] = sort[e]
      BY <2>1, <2>3 DEF IInv, Shape
    <2> QED BY <1>1, <2>2, <2>3, <2>4, OthersDisturbNothing DEF New, stopVars, walkVars
  <1>2. CASE Begins(d)
    BY <1>2, OthersDisturbNothing DEF Begins, stopVars, walkVars, IInv, Shape
  <1>3. CASE Succeeds(d)
    BY <1>3, OthersDisturbNothing DEF Succeeds, stopVars, walkVars, IInv, Shape
  <1>4. CASE Ends(d)
    BY <1>4, RemoveStep DEF Ends
  <1> QED BY <1>1, <1>2, <1>3, <1>4

LEMMA StepKeeps == IInv /\ [Next]_vars => IInv'
  <1> SUFFICES ASSUME IInv, [Next]_vars PROVE IInv'
    OBVIOUS
  <1>1. CASE \E d \in Dialogs : New(d) \/ Begins(d) \/ Succeeds(d) \/ Ends(d)
    BY <1>1, DialogStep
  <1>2. CASE Stop
    BY <1>2, StopStep
  <1>3. CASE Shutdown
    BY <1>3, ShutdownStep
  <1>4. CASE Restart
    BY <1>4 DEF Restart, walkVars, IInv, Shape, BusyIsMeant, WalkIsBefore, WalkIsOver, Settled
  <1>5. CASE Disconnected
    BY <1>5 DEF Disconnected, stopVars, walkVars, IInv, Shape, BusyIsMeant, WalkIsBefore,
                WalkIsOver, Settled
  <1>6. CASE Signal
    <2>1. PICK d \in Listed : IF Hears(d) THEN Remove(d) ELSE UNCHANGED <<sort, state, stopVars>>
      BY <1>6 DEF Signal
    <2>2. d \in Dialogs
      BY DEF Listed
    <2>3. CASE Remove(d)
      BY <2>2, <2>3, RemoveStep
    <2>4. CASE UNCHANGED <<sort, state, stopVars>>
      BY <2>4 DEF stopVars, walkVars, IInv, Shape, BusyIsMeant, WalkIsBefore, WalkIsOver, Settled
    <2> QED BY <2>1, <2>3, <2>4
  <1>7. CASE UNCHANGED vars
    BY <1>7 DEF vars, stopVars, walkVars, IInv, Shape, BusyIsMeant, WalkIsBefore, WalkIsOver,
                Settled
  <1> QED BY <1>1, <1>2, <1>3, <1>4, <1>5, <1>6, <1>7 DEF Next

\* However many dialogs there are, of whatever sorts, and however they come and end
\* beside the walk (tsip_dialog_layer_shutdownAll, phases 1 and 2): when the
\* registrations are given up, everyone else that was up has been asked to leave.
THEOREM RegistrationsComeLast == Spec => []RegistrationsLast
  <1>1. Init => IInv
    BY Initially
  <1>2. IInv /\ [Next]_vars => IInv'
    BY StepKeeps
  <1>3. IInv => RegistrationsLast
    BY DEF IInv, WalkIsOver, RegistrationsLast, Settled
  <1> QED BY <1>1, <1>2, <1>3, PTL DEF Spec

-----------------------------------------------------------------------------
(***************************************************************************)
(* The third phase.  What it is for stays what it was, and the walk stands *)
(* before it, until it is gone.                                            *)
(***************************************************************************)
Doomed(d) == sort[d].silent /\ ~Ignores(d) /\ EndsAtOnce(d)

QuietIsMeant == quiet \subseteq Dialogs /\ \A d \in quiet : state[d] # "unborn"

\* The item is on the list, as long as no other thread frees it.
LastWalk == pc = "phase3" /\ ~torn =>
               /\ at = Nobody \/ at \in Listed
               /\ \A d \in quiet : \/ state[d] = "gone"
                                   \/ Doomed(d) /\ at # Nobody /\ at <= d

LastWalkIsOver == pc = "done" /\ ~torn => \A d \in quiet : state[d] = "gone"

QuietInv == QuietIsMeant /\ LastWalk /\ LastWalkIsOver

(***************************************************************************)
(* The disconnection.  Who is meant by it is older than who is not, and it *)
(* goes on for at least as many turns as are left of them.                 *)
(***************************************************************************)
BornInOrder == \A d, e \in Dialogs : e < d /\ state[d] # "unborn" => state[e] # "unborn"

AlarmIsMeant == alarmed \subseteq Dialogs /\ \A d \in alarmed : state[d] # "unborn"

OldestFirst == signals > 0 => \A d \in alarmed, e \in Listed \ alarmed : d < e

TurnsSuffice == signals > 0 /\ ~deaf => Cardinality(alarmed \cap Listed) <= signals

AlarmInv == /\ signals \in Nat /\ BornInOrder /\ AlarmIsMeant /\ OldestFirst /\ TurnsSuffice

\* What a step does to the dialogs: one of them is born, goes on or ends, or none does.
Born(c) == /\ state[c] = "unborn" /\ \A e \in 1..(c - 1) : state[e] # "unborn"
           /\ state' = [state EXCEPT ![c] = "Started"]
           /\ \E s \in Sorts : sort' = [sort EXCEPT ![c] = s]

GoesOn(c) == /\ state[c] \notin {"unborn", "gone"} /\ sort' = sort
             /\ \E after \in {"InProgress", "Connected", "Leaving"} :
                   state' = [state EXCEPT ![c] = after]

EndsNow(c) == /\ state[c] \notin {"unborn", "gone"}
              /\ state' = [state EXCEPT ![c] = "gone"]
              /\ sort' = [sort EXCEPT ![c] = NoSort]

\* The walk changes the item it stands on, if any.
LEMMA VisitEffect ==
    ASSUME Shape, NEW eligible \in BOOLEAN, Visit(eligible)
    PROVE  UNCHANGED <<sort, state>> \/ GoesOn(at) \/ EndsNow(at)
  <1>1. at \in Dialogs /\ state[at] \notin {"unborn", "gone"}
    BY DEF Visit, Listed
  <1>2. CASE ~eligible
    BY <1>2 DEF Visit
  <1>3. CASE eligible
    <2>1. PICK after \in AfterShutdown(at) :
             /\ state' = [state EXCEPT ![at] = after]
             /\ sort' = IF after = "gone" THEN [sort EXCEPT ![at] = NoSort] ELSE sort
      BY <1>3 DEF Visit
    <2>2. after \in {state[at], "Leaving", "gone"}
      BY DEF AfterShutdown
    <2>3. CASE after = state[at]
      <3>1. state' = state /\ sort' = sort
        BY <1>1, <2>1, <2>3 DEF Shape
      <3> QED BY <3>1
    <2>4. CASE after = "Leaving"
      BY <1>1, <2>1, <2>4 DEF GoesOn
    <2>5. CASE after = "gone"
      BY <1>1, <2>1, <2>5 DEF EndsNow
    <2> QED BY <2>2, <2>3, <2>4, <2>5
  <1> QED BY <1>2, <1>3

LEMMA Effect ==
    ASSUME Shape, [Next]_vars
    PROVE  \/ UNCHANGED <<sort, state>>
           \/ \E c \in Dialogs : Born(c) \/ GoesOn(c) \/ EndsNow(c)
  <1>1. ASSUME NEW d \in Dialogs, New(d)
        PROVE  Born(d)
    BY <1>1 DEF New, Born
  <1>2. ASSUME NEW d \in Dialogs, Begins(d) \/ Succeeds(d)
        PROVE  GoesOn(d)
    BY <1>2 DEF Begins, Succeeds, GoesOn
  <1>3. ASSUME NEW d \in Dialogs, Ends(d)
        PROVE  EndsNow(d)
    BY <1>3 DEF Ends, Remove, EndsNow
  <1>4. CASE Phase1 \/ Phase2 \/ Phase3
    <2>1. PICK eligible \in BOOLEAN : Visit(eligible)
      <3>1. CASE Phase1
        BY <3>1 DEF Phase1
      <3>2. CASE Phase2
        BY <3>2 DEF Phase2
      <3>3. CASE Phase3
        <4>1. sort[at].silent \in BOOLEAN
          BY <3>3 DEF Phase3, Visit, Listed, Shape
        <4> QED BY <3>3, <4>1 DEF Phase3
      <3> QED BY <1>4, <3>1, <3>2, <3>3
    <2>2. at \in Dialogs
      BY <2>1 DEF Visit, Listed
    <2> QED BY <2>1, <2>2, VisitEffect
  <1>5. CASE \/ Stop \/ Phase1Ends \/ Phase2Begins \/ Phase2Ends \/ Phase3Begins
             \/ Phase3Lost \/ Phase3Ends \/ FallsAsleep \/ TimesOut \/ Restart \/ Disconnected
    BY <1>5 DEF Stop, Phase1Ends, Phase2Begins, Phase2Ends, Phase3Begins, Phase3Lost,
                Phase3Ends, FallsAsleep, TimesOut, Restart, Disconnected, Leave
  <1>6. CASE Signal
    <2>1. PICK d \in Listed : IF Hears(d) THEN Remove(d) ELSE UNCHANGED <<sort, state, stopVars>>
      BY <1>6 DEF Signal
    <2> QED BY <2>1 DEF Remove, EndsNow, Listed
  <1>7. CASE UNCHANGED vars
    BY <1>7 DEF vars
  <1> QED BY <1>1, <1>2, <1>3, <1>4, <1>5, <1>6, <1>7 DEF Next, Shutdown

\* Nobody is reborn, and what the last phase ends stays what it can end.
LEMMA Ages ==
    ASSUME Shape, [Next]_vars, NEW d \in Dialogs
    PROVE  /\ state[d] # "unborn" => state'[d] # "unborn"
           /\ state[d] = "gone" => state'[d] = "gone"
           /\ state[d] \notin {"unborn", "gone"} /\ Doomed(d) => state'[d] = "gone" \/ Doomed(d)'
  <1> USE DEF Shape, Doomed, Ignores, EndsAtOnce
  <1>1. CASE UNCHANGED <<sort, state>>
    BY <1>1
  <1>2. ASSUME NEW c \in Dialogs, Born(c) \/ GoesOn(c) \/ EndsNow(c), c # d
        PROVE  state'[d] = state[d] /\ sort'[d] = sort[d]
    BY <1>2 DEF Born, GoesOn, EndsNow
  <1>3. CASE Born(d)
    BY <1>3 DEF Born
  <1>4. CASE GoesOn(d)
    BY <1>4 DEF GoesOn
  <1>5. CASE EndsNow(d)
    BY <1>5 DEF EndsNow
  <1> QED BY <1>1, <1>2, <1>3, <1>4, <1>5, Effect

-----------------------------------------------------------------------------
\* Beside the walk of the last phase nobody takes anyone from before it, and nobody
\* frees the item it stands on without a trace.
LEMMA BesideLastWalk ==
    ASSUME Shape, QuietInv, [Next]_vars, pc = "phase3", ~torn',
           ~torn, UNCHANGED <<pc, at, quiet>>, at \in Listed => at \in Listed'
    PROVE  LastWalk'
  <1>1. at = Nobody \/ at \in Listed'
    BY DEF QuietInv, LastWalk
  <1>2. ASSUME NEW d \in quiet
        PROVE  state'[d] = "gone" \/ (Doomed(d)' /\ at # Nobody /\ at <= d)
    <2>1. d \in Dialogs /\ state[d] # "unborn"
      BY DEF QuietInv, QuietIsMeant
    <2>2. state[d] = "gone" \/ (Doomed(d) /\ at # Nobody /\ at <= d)
      BY DEF QuietInv, LastWalk
    <2> QED BY <2>1, <2>2, Ages
  <1> QED BY <1>1, <1>2 DEF LastWalk

\* One turn of the last loop: a doomed item ends, and the walk starts anew.
LEMMA LastVisit ==
    ASSUME IInv, QuietInv, [Next]_vars, Phase3, ~torn
    PROVE  LastWalk'
  <1> DEFINE eligible == sort[at].silent
  <1>1. /\ pc = "phase3" /\ pc' = "phase3" /\ at \in Listed /\ at \in Dialogs
        /\ quiet' = quiet
    BY DEF Phase3, Visit, Listed
  <1>2. eligible \in BOOLEAN
    BY <1>1 DEF IInv, Shape
  <1>3. /\ Visit(eligible)
        /\ \A d \in Dialogs : d # at => state'[d] = state[d]
        /\ state'[at] = "gone" /\ state[at] # "gone" => GoTo(Nobody)
        /\ state'[at] # "gone" => GoTo(at)
    BY <1>2, Visited DEF Phase3
  <1>4. Doomed(at) => state'[at] = "gone"
    <2>1. Doomed(at) => AfterShutdown(at) = {"gone"}
      BY DEF Doomed, AfterShutdown
    <2> QED BY <1>1, <1>3, <2>1 DEF Doomed, Visit, IInv, Shape
  <1> HIDE DEF eligible
  <1>5. state[at] # "gone"
    BY <1>1 DEF Listed
  <1>6. \E n \in Dialogs \cup {Nobody} :
           /\ GoTo(n)
           /\ n = Nobody \/ n = at
    <2>1. CASE state'[at] = "gone"
      BY <1>3, <1>5, <2>1
    <2>2. CASE state'[at] # "gone"
      BY <1>1, <1>3, <2>2
    <2> QED BY <2>1, <2>2
  <1>7. PICK n \in Dialogs \cup {Nobody} :
           /\ GoTo(n)
           /\ n = Nobody \/ n = at
    BY <1>6
  <1>8. at' = Nobody \/ at' \in Listed'
    BY <1>7, GoesSomewhere
  <1>9. ASSUME NEW d \in quiet, state'[d] # "gone"
        PROVE  Doomed(d)' /\ at' # Nobody /\ at' <= d
    <2>1. d \in Dialogs /\ state[d] \notin {"unborn", "gone"}
      BY <1>9, Ages DEF QuietInv, QuietIsMeant, IInv
    <2>2. Doomed(d) /\ at <= d
      BY <1>1, <2>1 DEF QuietInv, LastWalk
    <2>3. Doomed(d)' /\ d # at
      BY <1>4, <1>9, <2>1, <2>2, Ages DEF IInv
    <2>4. d \in Listed'
      BY <1>3, <2>1, <2>3 DEF Listed
    <2>5. d > at /\ d > Nobody
      BY <1>1, <2>1, <2>2, <2>3, MaxDialogsAssumption DEF Dialogs, Nobody
    <2>6. d > n
      BY <1>7, <2>5
    <2> QED BY <1>7, <2>1, <2>3, <2>4, <2>6, GoesToNext
  <1> QED BY <1>1, <1>8, <1>9 DEF LastWalk

\* The last phase begins before all those it is for.
LEMMA LastWalkBegins ==
    ASSUME IInv, Phase3Begins
    PROVE  LastWalk' /\ QuietIsMeant'
  <1>1. /\ UNCHANGED <<sort, state>> /\ GoTo(Nobody)
        /\ quiet' = {d \in Listed : sort[d].silent /\ ~Ignores(d) /\ EndsAtOnce(d)}
    BY DEF Phase3Begins
  <1>2. Listed' = Listed /\ Listed \subseteq Dialogs
    BY <1>1 DEF Listed
  <1>3. at' = Nobody \/ at' \in Listed'
    BY <1>1, GoesSomewhere
  <1>4. ASSUME NEW d \in quiet'
        PROVE  /\ d \in Dialogs /\ state'[d] # "unborn"
               /\ Doomed(d)' /\ at' # Nobody /\ at' <= d
    <2>1. d \in Listed /\ d \in Dialogs /\ Doomed(d)
      BY <1>1, <1>2 DEF Doomed
    <2>2. Doomed(d)' /\ state'[d] # "unborn"
      BY <1>1, <2>1 DEF Doomed, Ignores, EndsAtOnce, Listed
    <2>3. d \in Listed' /\ d > Nobody /\ Nobody \in Dialogs \cup {Nobody}
      BY <1>2, <2>1, MaxDialogsAssumption DEF Dialogs, Nobody
    <2> QED BY <1>1, <2>1, <2>2, <2>3, GoesToNext
  <1> QED BY <1>3, <1>4 DEF LastWalk, QuietIsMeant

\* Another thread that ends the item of the last walk tears it.
LEMMA RemoveTears ==
    ASSUME NEW d \in Dialogs, Remove(d), pc = "phase3", ~torn', Shape
    PROVE  /\ ~torn /\ UNCHANGED <<pc, at, quiet>>
           /\ at \in Listed => at \in Listed'
  BY DEF Remove, Shape, Listed

\* A step beside the walks: the shutdown stays where it is, or only the last phase, of
\* which nothing is left to do, moves on.
LEMMA QuietAges ==
    ASSUME IInv, QuietInv, [Next]_vars, quiet' = quiet
    PROVE  /\ QuietIsMeant'
           /\ \A d \in quiet : state[d] = "gone" => state'[d] = "gone"
  <1>1. \A d \in quiet : /\ d \in Dialogs /\ state[d] # "unborn"
                         /\ state'[d] # "unborn"
                         /\ state[d] = "gone" => state'[d] = "gone"
    BY Ages DEF IInv, QuietInv, QuietIsMeant
  <1> QED BY <1>1 DEF QuietInv, QuietIsMeant

LEMMA QuietElsewhere ==
    ASSUME IInv, QuietInv, [Next]_vars, UNCHANGED <<pc, quiet, torn>>, pc # "phase3"
    PROVE  QuietInv'
  BY QuietAges DEF QuietInv, LastWalk, LastWalkIsOver

\* Another thread than the one that shuts down.
LEMMA QuietBeside ==
    ASSUME IInv, QuietInv, [Next]_vars, UNCHANGED <<pc, at, quiet, torn>>,
           pc = "phase3" => (at \in Listed => at \in Listed')
    PROVE  QuietInv'
  <1>1. CASE pc # "phase3"
    BY <1>1, QuietElsewhere
  <1>2. CASE pc = "phase3"
    <2>1. LastWalk'
      <3>1. CASE torn'
        BY <3>1 DEF LastWalk
      <3>2. CASE ~torn'
        BY <1>2, <3>2, BesideLastWalk DEF IInv
      <3> QED BY <3>1, <3>2
    <2> QED BY <1>2, <2>1, QuietAges DEF QuietInv, LastWalkIsOver
  <1> QED BY <1>1, <1>2

LEMMA QuietRemove ==
    ASSUME IInv, QuietInv, [Next]_vars, NEW d \in Dialogs, Remove(d)
    PROVE  QuietInv'
  <1>1. /\ quiet' = quiet
        /\ pc' = "phase3" <=> pc = "phase3"
        /\ pc' = "done" <=> pc = "done"
    <2> DEFINE woken == inprogress /\ LastOne
    <2>1. pc' = IF woken
                THEN CASE pc = "asleep1" -> "awake1" [] pc = "asleep2" -> "awake2" [] OTHER -> pc
                ELSE pc
      BY DEF Remove
    <2> HIDE DEF woken
    <2>2. quiet' = quiet
      BY DEF Remove
    <2> QED BY <2>1, <2>2
  <1>2. torn => torn'
    BY DEF Remove
  <1>3. LastWalk'
    <2>1. CASE pc # "phase3" \/ torn'
      BY <1>1, <2>1 DEF LastWalk
    <2>2. CASE pc = "phase3" /\ ~torn'
      BY <2>2, RemoveTears, BesideLastWalk DEF IInv
    <2> QED BY <2>1, <2>2
  <1>4. LastWalkIsOver'
    BY <1>1, <1>2, QuietAges DEF QuietInv, LastWalkIsOver
  <1> QED BY <1>1, <1>3, <1>4, QuietAges DEF QuietInv

\* A step of the shutdown that is neither in the last phase nor at its ends.
LEMMA QuietWalk ==
    ASSUME IInv, QuietInv, [Next]_vars, UNCHANGED <<quiet, torn>>,
           pc \notin {"phase3", "done"}, pc' \notin {"phase3", "done"}
    PROVE  QuietInv'
  BY QuietAges DEF QuietInv, LastWalk, LastWalkIsOver

LEMMA QuietShutdown ==
    ASSUME IInv, QuietInv, [Next]_vars, Shutdown
    PROVE  QuietInv'
  <1>1. CASE Phase1 \/ Phase2
    BY <1>1, QuietWalk DEF Phase1, Phase2, Visit
  <1>2. CASE Phase1Ends \/ Phase2Begins \/ Phase2Ends \/ FallsAsleep \/ TimesOut
    BY <1>2, QuietWalk DEF Phase1Ends, Phase2Begins, Phase2Ends, FallsAsleep, TimesOut, Leave,
                           walkVars
  <1>3. CASE Phase3Begins
    BY <1>3, LastWalkBegins DEF Phase3Begins, QuietInv, LastWalkIsOver
  <1>4. CASE Phase3
    <2>1. quiet' = quiet /\ pc' = "phase3" /\ torn' = torn
      BY <1>4 DEF Phase3, Visit
    <2>2. LastWalk'
      BY <1>4, <2>1, LastVisit DEF LastWalk
    <2> QED BY <2>1, <2>2, QuietAges DEF QuietInv, LastWalkIsOver
  <1>5. CASE Phase3Lost
    <2>1. torn /\ UNCHANGED <<pc, torn, quiet>> /\ pc = "phase3"
      BY <1>5 DEF Phase3Lost, QuietInv, LastWalk, walkVars
    <2> QED BY <2>1, QuietAges DEF QuietInv, LastWalk, LastWalkIsOver
  <1>6. CASE Phase3Ends
    <2>1. UNCHANGED <<quiet, torn>> /\ pc = "phase3" /\ at = Nobody /\ pc' = "done"
      BY <1>6 DEF Phase3Ends, Leave, walkVars
    <2> QED BY <2>1, QuietAges DEF QuietInv, LastWalk, LastWalkIsOver
  <1> QED BY <1>1, <1>2, <1>3, <1>4, <1>5, <1>6 DEF Shutdown

LEMMA QuietStop ==
    ASSUME IInv, QuietInv, [Next]_vars, Stop
    PROVE  QuietInv'
  <1>1. /\ UNCHANGED <<sort, state, quiet>>
        /\ pc' \in {"phase1", "phase2", "done"}
        /\ pc' = "done" => Listed = {}
    BY DEF Stop
  <1>2. Listed = {} => \A d \in quiet : state[d] = "gone"
    BY DEF QuietInv, QuietIsMeant, Listed
  <1> QED BY <1>1, <1>2, QuietAges DEF QuietInv, LastWalk, LastWalkIsOver

LEMMA QuietStep == IInv /\ QuietInv /\ [Next]_vars => QuietInv'
  <1> SUFFICES ASSUME IInv, QuietInv, [Next]_vars PROVE QuietInv'
    OBVIOUS
  <1>1. ASSUME NEW d \in Dialogs, New(d) \/ Begins(d) \/ Succeeds(d)
        PROVE  QuietInv'
    <2>1. UNCHANGED <<pc, at, quiet, torn>>
      BY <1>1 DEF New, Begins, Succeeds, stopVars, walkVars
    <2>2. at \in Listed => at \in Listed'
      BY <1>1 DEF New, Begins, Succeeds, Listed, IInv, Shape
    <2> QED BY <2>1, <2>2, QuietBeside
  <1>2. ASSUME NEW d \in Dialogs, Ends(d)
        PROVE  QuietInv'
    BY <1>2, QuietRemove DEF Ends
  <1>3. CASE Stop
    BY <1>3, QuietStop
  <1>4. CASE Shutdown
    BY <1>4, QuietShutdown
  <1>5. CASE Restart
    BY <1>5, QuietAges DEF Restart, walkVars, QuietInv, LastWalk, LastWalkIsOver
  <1>6. CASE Disconnected
    BY <1>6, QuietBeside DEF Disconnected, stopVars, walkVars, Listed
  <1>7. CASE Signal
    <2>1. PICK d \in Listed : IF Hears(d) THEN Remove(d) ELSE UNCHANGED <<sort, state, stopVars>>
      BY <1>7 DEF Signal
    <2>2. d \in Dialogs
      BY DEF Listed
    <2>3. CASE Remove(d)
      BY <2>2, <2>3, QuietRemove
    <2>4. CASE UNCHANGED <<sort, state, stopVars>>
      BY <2>4, QuietBeside DEF stopVars, walkVars, Listed
    <2> QED BY <2>1, <2>3, <2>4
  <1>8. CASE UNCHANGED vars
    BY <1>8, QuietBeside DEF vars, stopVars, walkVars, Listed
  <1> QED BY <1>1, <1>2, <1>3, <1>4, <1>5, <1>6, <1>7, <1>8 DEF Next

\* However many dialogs there are (tsip_dialog_layer_shutdownAll, phase 3): when a stop is
\* over, whoever was to be ended silently by the last walk is gone, although the walk
\* takes no lock and starts anew behind every dialog it ends.
THEOREM SilentOnesAreGone == Spec => []SilentGone
  <1>1. Init => IInv /\ QuietInv
    BY Initially DEF Init, QuietInv, QuietIsMeant, LastWalk, LastWalkIsOver
  <1>2. IInv /\ QuietInv /\ [Next]_vars => IInv' /\ QuietInv'
    BY StepKeeps, QuietStep
  <1>3. QuietInv => SilentGone
    BY DEF QuietInv, LastWalkIsOver, SilentGone, Listed
  <1> QED BY <1>1, <1>2, <1>3, PTL DEF Spec

-----------------------------------------------------------------------------
LEMMA ListedIsFinite == IsFiniteSet(Listed)
  <1>1. IsFiniteSet(Dialogs)
    BY MaxDialogsAssumption, FS_Interval DEF Dialogs
  <1> QED BY <1>1, FS_Subset DEF Listed

\* Among whom is on the list, only who is born now is new.
LEMMA OnlyTheBornAreNew ==
    ASSUME Shape, [Next]_vars, NEW d \in Listed', d \notin Listed
    PROVE  d \in Dialogs /\ Born(d)
  <1>1. d \in Dialogs /\ state'[d] \notin {"unborn", "gone"}
    BY DEF Listed
  <1>2. state[d] = "unborn"
    BY <1>1, Ages DEF Listed
  <1>3. PICK c \in Dialogs : Born(c) \/ GoesOn(c) \/ EndsNow(c)
    BY <1>1, <1>2, Effect
  <1>4. c = d
    BY <1>1, <1>2, <1>3 DEF Born, GoesOn, EndsNow, Shape
  <1> QED BY <1>1, <1>2, <1>3, <1>4 DEF GoesOn, EndsNow

\* The numbers of the dialogs are their ages.
LEMMA BirthsInOrder == Shape /\ BornInOrder /\ [Next]_vars => BornInOrder'
  <1> SUFFICES ASSUME Shape, BornInOrder, [Next]_vars,
                      NEW d \in Dialogs, NEW e \in Dialogs, e < d, state'[d] # "unborn"
               PROVE  state'[e] # "unborn"
    BY DEF BornInOrder
  <1>1. CASE state[d] # "unborn"
    BY <1>1, Ages DEF BornInOrder
  <1>2. CASE state[d] = "unborn"
    <2>1. PICK c \in Dialogs : Born(c) \/ GoesOn(c) \/ EndsNow(c)
      BY <1>2, Effect
    <2>2. c = d
      BY <1>2, <2>1 DEF Born, GoesOn, EndsNow, Shape
    <2>3. Born(d)
      BY <1>2, <2>1, <2>2 DEF GoesOn, EndsNow
    <2>4. e \in 1..(d - 1)
      BY MaxDialogsAssumption DEF Dialogs
    <2> QED BY <2>3, <2>4, Ages DEF Born
  <1> QED BY <1>1, <1>2

\* As long as the disconnection says nothing, nobody younger than the alarmed is born,
\* and no alarmed one comes back.
LEMMA AlarmAges ==
    ASSUME Shape, AlarmInv, [Next]_vars, alarmed' = alarmed
    PROVE  /\ AlarmIsMeant'
           /\ alarmed \cap Listed' \subseteq alarmed \cap Listed
           /\ Cardinality(alarmed \cap Listed') <= Cardinality(alarmed \cap Listed)
           /\ \A d \in alarmed, e \in Listed' \ alarmed :
                  (\A f \in Listed \ alarmed : d < f) => d < e
  <1>1. AlarmIsMeant'
    <2>1. \A d \in alarmed : d \in Dialogs /\ state[d] # "unborn" /\ state'[d] # "unborn"
      BY Ages DEF AlarmInv, AlarmIsMeant
    <2> QED BY <2>1 DEF AlarmIsMeant
  <1>2. alarmed \cap Listed' \subseteq alarmed \cap Listed
    BY OnlyTheBornAreNew DEF Born, AlarmInv, AlarmIsMeant
  <1>3. Cardinality(alarmed \cap Listed') <= Cardinality(alarmed \cap Listed)
    <2>1. IsFiniteSet(alarmed \cap Listed)
      BY ListedIsFinite, FS_Subset
    <2> QED BY <1>2, <2>1, FS_Subset
  <1>4. ASSUME NEW d \in alarmed, NEW e \in Listed' \ alarmed,
               \A f \in Listed \ alarmed : d < f
        PROVE  d < e
    <2>1. CASE e \in Listed
      BY <1>4, <2>1
    <2>2. CASE e \notin Listed
      <3>1. e \in Dialogs /\ state[e] = "unborn"
        BY <2>2, OnlyTheBornAreNew DEF Born
      <3>2. d \in Dialogs /\ state[d] # "unborn"
        BY DEF AlarmInv, AlarmIsMeant
      <3>3. ~(e < d) /\ e # d
        BY <3>1, <3>2 DEF AlarmInv, BornInOrder
      <3> QED BY <3>1, <3>2, <3>3, MaxDialogsAssumption DEF Dialogs
    <2> QED BY <2>1, <2>2
  <1> QED BY <1>1, <1>2, <1>3, <1>4

LEMMA AlarmElsewhere ==
    ASSUME Shape, AlarmInv, [Next]_vars, UNCHANGED alarmVars
    PROVE  AlarmInv'
  <1>1. BornInOrder' /\ AlarmIsMeant' /\ signals' \in Nat
    BY BirthsInOrder, AlarmAges DEF AlarmInv, alarmVars
  <1>2. OldestFirst'
    BY AlarmAges DEF AlarmInv, alarmVars, OldestFirst
  <1>3. TurnsSuffice'
    <2> SUFFICES ASSUME signals > 0, ~deaf
                 PROVE  Cardinality(alarmed \cap Listed') <= signals
      BY DEF TurnsSuffice, alarmVars
    <2>1. Cardinality(alarmed \cap Listed) <= signals
      BY DEF AlarmInv, TurnsSuffice
    <2>2. Cardinality(alarmed \cap Listed') <= Cardinality(alarmed \cap Listed)
      BY AlarmAges DEF alarmVars
    <2>3. Cardinality(alarmed \cap Listed) \in Nat /\ Cardinality(alarmed \cap Listed') \in Nat
      <3>1. IsFiniteSet(alarmed \cap Listed)
        BY ListedIsFinite, FS_Subset
      <3>2. IsFiniteSet(alarmed \cap Listed')
        BY <3>1, AlarmAges, FS_Subset DEF alarmVars
      <3> QED BY <3>1, <3>2, FS_CardinalityType
    <2> QED BY <2>1, <2>2, <2>3 DEF AlarmInv
  <1> QED BY <1>1, <1>2, <1>3 DEF AlarmInv

\* A turn of the disconnection that someone reacts to takes one of the alarmed, as long
\* as any is left.
LEMMA OneLess ==
    ASSUME Shape, AlarmInv, signals > 0, NEW d \in Listed, \A e \in Listed : d <= e, Remove(d)
    PROVE  /\ Listed' = Listed \ {d}
           /\ \/ alarmed \cap Listed' = {}
              \/ /\ Cardinality(alarmed \cap Listed) \in Nat
                 /\ Cardinality(alarmed \cap Listed) > 1
                 /\ Cardinality(alarmed \cap Listed') = Cardinality(alarmed \cap Listed) - 1
  <1>1. Listed' = Listed \ {d} /\ Listed \subseteq Dialogs
    BY DEF Remove, Shape, Listed
  <1>2. ASSUME NEW x \in alarmed \cap Listed'
        PROVE  /\ Cardinality(alarmed \cap Listed) \in Nat
               /\ Cardinality(alarmed \cap Listed) > 1
               /\ Cardinality(alarmed \cap Listed') = Cardinality(alarmed \cap Listed) - 1
    <2>1. d \in alarmed
      <3>1. x \in Listed /\ x \in alarmed /\ d <= x
        BY <1>1
      <3>2. x \in Dialogs /\ d \in Dialogs
        BY <1>1, <3>1
      <3>3. x \in Int /\ d \in Int
        BY <3>2, MaxDialogsAssumption DEF Dialogs
      <3>4. d \notin alarmed => x < d
        BY <3>1 DEF AlarmInv, OldestFirst
      <3> QED BY <3>1, <3>3, <3>4
    <2> DEFINE S == alarmed \cap Listed
    <2>2. IsFiniteSet(S) /\ d \in S /\ alarmed \cap Listed' = S \ {d}
      BY <1>1, <2>1, ListedIsFinite, FS_Subset
    <2> HIDE DEF S
    <2>3. Cardinality(S \ {d}) = Cardinality(S) - 1 /\ IsFiniteSet(S \ {d})
      BY <2>2, FS_RemoveElement
    <2>4. Cardinality(S) \in Nat /\ Cardinality(S \ {d}) \in Nat
      BY <2>2, <2>3, FS_CardinalityType
    <2>5. Cardinality(S \ {d}) # 0
      BY <1>2, <2>2, <2>3, FS_EmptySet
    <2>6. Cardinality(S) > 1
      BY <2>3, <2>4, <2>5
    <2> QED BY <2>2, <2>3, <2>4, <2>6 DEF S
  <1> QED BY <1>1, <1>2

\* What a turn of the disconnection is.
LEMMA Turn ==
    ASSUME Signal, signals \in Nat
    PROVE  /\ signals > 0 /\ signals' = Left /\ Left \in Nat
           /\ alarmed' = IF Left = 0 THEN {} ELSE alarmed
           /\ Left # 0 => Left = signals - 1
           /\ \E d \in Listed :
                 /\ \A e \in Listed : d <= e
                 /\ Remove(d) \/ (UNCHANGED <<sort, state, stopVars>> /\ (deaf' \/ Left = 0))
                 /\ Left # 0 /\ ~deaf' => ~deaf
  <1>1. /\ Left \in Nat
        /\ Left # 0 => Left = signals - 1
        /\ Left > 0 <=> Left # 0
    BY DEF Signal, Left
  <1>2. PICK d \in Listed :
           /\ \A e \in Listed : d <= e
           /\ IF Hears(d) THEN Remove(d) ELSE UNCHANGED <<sort, state, stopVars>>
           /\ deaf' <=> (Left > 0 /\ (deaf \/ ~Hears(d)))
    BY Zenon DEF Signal
  <1>3. Remove(d) \/ (UNCHANGED <<sort, state, stopVars>> /\ (deaf' \/ Left = 0))
    <2>1. CASE Hears(d)
      BY <1>2, <2>1
    <2>2. CASE ~Hears(d)
      BY <1>1, <1>2, <2>2
    <2> QED BY <2>1, <2>2
  <1>4. Left # 0 /\ ~deaf' => ~deaf
    BY <1>1, <1>2
  <1> QED BY <1>1, <1>2, <1>3, <1>4 DEF Signal

LEMMA AlarmSignal ==
    ASSUME Shape, AlarmInv, [Next]_vars, Signal
    PROVE  AlarmInv'
  <1> HIDE DEF AlarmInv
  <1>1. signals \in Nat
    BY DEF AlarmInv
  <1>2. /\ signals > 0 /\ signals' = Left /\ Left \in Nat
        /\ alarmed' = IF Left = 0 THEN {} ELSE alarmed
        /\ Left # 0 => Left = signals - 1
    BY <1>1, Turn
  <1>3. BornInOrder'
    BY BirthsInOrder DEF AlarmInv
  <1>4. CASE Left = 0
    BY <1>2, <1>3, <1>4 DEF AlarmInv, AlarmIsMeant, OldestFirst, TurnsSuffice
  <1>5. CASE Left # 0
    <2>1. alarmed' = alarmed /\ signals' = signals - 1
      BY <1>2, <1>5
    <2>2. AlarmIsMeant'
      BY <2>1, AlarmAges
    <2>3. OldestFirst'
      BY <1>2, <2>1, AlarmAges DEF OldestFirst, AlarmInv
    <2>4. ASSUME ~deaf'
          PROVE  Cardinality(alarmed \cap Listed') <= signals - 1
      <3>1. PICK d \in Listed :
               /\ \A e \in Listed : d <= e
               /\ Remove(d) \/ (UNCHANGED <<sort, state, stopVars>> /\ (deaf' \/ Left = 0))
               /\ Left # 0 /\ ~deaf' => ~deaf
        BY <1>1, Turn
      <3>2. Remove(d) /\ ~deaf
        BY <1>5, <2>4, <3>1
      <3>3. Cardinality(alarmed \cap Listed) <= signals
        BY <1>2, <3>2 DEF AlarmInv, TurnsSuffice
      <3>4. CASE alarmed \cap Listed' = {}
        BY <1>1, <1>2, <3>4, FS_EmptySet
      <3>5. CASE alarmed \cap Listed' # {}
        <4>1. /\ Cardinality(alarmed \cap Listed) \in Nat
              /\ Cardinality(alarmed \cap Listed') = Cardinality(alarmed \cap Listed) - 1
          BY <1>2, <3>1, <3>2, <3>5, OneLess
        <4> QED BY <1>1, <3>3, <4>1
      <3> QED BY <3>4, <3>5
    <2> QED BY <1>2, <1>3, <2>1, <2>2, <2>3, <2>4 DEF AlarmInv, TurnsSuffice
  <1> QED BY <1>4, <1>5

LEMMA AlarmStep == Shape /\ AlarmInv /\ [Next]_vars => AlarmInv'
  <1> SUFFICES ASSUME Shape, AlarmInv, [Next]_vars PROVE AlarmInv'
    OBVIOUS
  <1>1. ASSUME NEW d \in Dialogs, New(d) \/ Begins(d) \/ Succeeds(d) \/ Ends(d)
        PROVE  UNCHANGED alarmVars
    BY <1>1 DEF New, Begins, Succeeds, Ends
  <1>2. CASE Shutdown
    BY <1>2, AlarmElsewhere DEF Shutdown, Phase1, Phase2, Phase3, Visit, Phase1Ends, Phase2Ends,
          Phase3Ends, Leave, Phase2Begins, Phase3Begins, Phase3Lost, FallsAsleep, TimesOut,
          alarmVars
  <1>3. CASE Stop \/ Restart \/ UNCHANGED vars
    BY <1>3, AlarmElsewhere DEF Stop, Restart, vars
  <1>4. CASE Disconnected
    <2>1. /\ UNCHANGED <<sort, state>>
          /\ signals' = Cardinality(Listed) /\ alarmed' = Listed
      BY <1>4 DEF Disconnected
    <2>2. Listed' = Listed /\ Listed \subseteq Dialogs
      BY <2>1 DEF Listed
    <2>3. Cardinality(Listed) \in Nat
      BY ListedIsFinite, FS_CardinalityType
    <2>4. AlarmIsMeant'
      BY <2>1, <2>2 DEF AlarmIsMeant, Listed
    <2>5. OldestFirst'
      BY <2>1, <2>2 DEF OldestFirst
    <2>6. TurnsSuffice'
      <3>1. alarmed' \cap Listed' = Listed
        BY <2>1, <2>2
      <3> QED BY <2>1, <2>3, <3>1 DEF TurnsSuffice
    <2> QED BY <2>1, <2>3, <2>4, <2>5, <2>6, BirthsInOrder DEF AlarmInv
  <1>5. CASE Signal
    BY <1>5, AlarmSignal
  <1> QED BY <1>1, <1>2, <1>3, <1>4, <1>5, AlarmElsewhere DEF Next

\* The last turn, if it is reacted to as all the others were, leaves none of them.
LEMMA LastTurn ==
    ASSUME Shape, AlarmInv, [Next]_vars, signals > 0, signals' = 0, ~deaf, state' # state
    PROVE  alarmed \cap Listed' = {}
  <1>1. Signal
    <2>1. signals' # signals
      BY DEF AlarmInv
    <2>2. ASSUME NEW d \in Dialogs, New(d) \/ Begins(d) \/ Succeeds(d) \/ Ends(d)
          PROVE  FALSE
      BY <2>1, <2>2 DEF New, Begins, Succeeds, Ends, alarmVars
    <2>3. ~Shutdown
      BY <2>1 DEF Shutdown, Phase1, Phase2, Phase3, Visit, Phase1Ends, Phase2Ends, Phase3Ends,
                  Leave, Phase2Begins, Phase3Begins, Phase3Lost, FallsAsleep, TimesOut, alarmVars
    <2>4. ~Stop /\ ~Restart /\ ~Disconnected /\ ~UNCHANGED vars
      BY <2>1 DEF Stop, Restart, Disconnected, Locked, vars, alarmVars
    <2> QED BY <2>2, <2>3, <2>4 DEF Next
  <1>2. PICK d \in Listed :
           /\ \A e \in Listed : d <= e
           /\ Remove(d) \/ (UNCHANGED <<sort, state, stopVars>> /\ (deaf' \/ Left = 0))
    BY <1>1, Turn DEF AlarmInv
  <1>3. Remove(d)
    BY <1>2
  <1>4. CASE Listed' = {}
    BY <1>4
  <1>5. CASE Listed' # {}
    <2>1. signals = 1
      BY <1>1, <1>5 DEF Signal, Left, AlarmInv
    <2>2. Cardinality(alarmed \cap Listed) <= 1
      BY <2>1 DEF AlarmInv, TurnsSuffice
    <2> QED BY <1>2, <1>3, <2>2, OneLess
  <1> QED BY <1>4, <1>5

\* However many dialogs there are (tsip_dialog_layer_signal_stack_disconnected): if every
\* dialog that is told of the disconnection ends of it, all those that were on the list
\* when it began are gone with the last one, although the loop only counts, and tells
\* whoever stands first while other dialogs come and go.
THEOREM TheSignalReachesEveryone == Spec => SignalReachesAll
  <1>1. Init => IInv /\ AlarmInv
    BY Initially DEF Init, AlarmInv, BornInOrder, AlarmIsMeant, OldestFirst, TurnsSuffice
  <1>2. IInv /\ AlarmInv /\ [Next]_vars => IInv' /\ AlarmInv'
    BY StepKeeps, AlarmStep DEF IInv
  <1>3. IInv /\ AlarmInv /\ [Next]_vars
           => [signals > 0 /\ signals' = 0 /\ ~deaf /\ state' # state
                  => alarmed \cap Listed' = {}]_vars
    BY LastTurn DEF IInv
  <1> QED BY <1>1, <1>2, <1>3, PTL DEF Spec, SignalReachesAll
=============================================================================
