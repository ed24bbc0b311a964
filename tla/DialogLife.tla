------------------------------- MODULE DialogLife -------------------------------
(***************************************************************************)
(* What a dialog promises the application, whatever its kind: the dialog   *)
(* events of its session arrive in the order of a life.  A dialog may be   *)
(* over without ever having connected, or without having said that it was  *)
(* terminating; nothing follows the end.  That it is terminating a dialog  *)
(* says once, or, where the kind of dialog repeats it, at every request to *)
(* leave.                                                                  *)
(***************************************************************************)
EXTENDS Sequences

CONSTANT Repeats   \* whether this kind of dialog says again that it is terminating

VARIABLE told    \* the dialog events of the session so far (tsip_event_dialog)

Events == {"connecting", "connected", "terminating", "terminated"}

Saying(event) == \E i \in DOMAIN told : told[i] = event

Next == \E event \in Events :
          /\ told' = Append(told, event)
          /\ ~Saying("terminated")
          /\ event = "connecting" => told = <<>>
          /\ event = "connected" => told = <<"connecting">>
          /\ event = "terminating" => Repeats \/ ~Saying("terminating")

Spec == told = <<>> /\ [][Next]_told
=============================================================================
