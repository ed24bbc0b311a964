---------------------------- MODULE ClientTransac ----------------------------
(***************************************************************************)
(* What a SIP client transaction promises to its user (the dialog that     *)
(* created it): one request goes out, the user is given at most one        *)
(* verdict on it - a success response, a failure response or a timeout -   *)
(* and the transaction only goes away once the verdict is known or the     *)
(* user, or the transport, gave up.  Implemented by TransacICT and TransacNICT.        *)
(***************************************************************************)
CONSTANT Verdicts  \* what the user can be told to end its wait

VARIABLES phase,     \* "idle" before the request, "open", then "closed"
          verdict,   \* what the user was told last, "none" before
          dropped    \* the user, or the transport, gave up

abstractVars == <<phase, verdict, dropped>>

Init == phase = "idle" /\ verdict = "none" /\ dropped = FALSE

Begin == /\ phase = "idle" /\ phase' = "open"
         /\ UNCHANGED <<verdict, dropped>>

\* The one verdict; the transaction may go away in the same step.
Conclude == /\ phase = "open" /\ verdict = "none"
            /\ verdict' \in Verdicts
            /\ phase' \in {"open", "closed"}
            /\ dropped' \in {dropped, phase' = "closed"}

Close == /\ phase = "open" /\ verdict # "none"
         /\ phase' = "closed"
         /\ UNCHANGED <<verdict, dropped>>

\* The only end without a verdict is that somebody gave up.
Drop == /\ phase = "open"
        /\ phase' = "closed" /\ dropped' = TRUE
        /\ UNCHANGED verdict

Next == Begin \/ Conclude \/ Close \/ Drop

Spec == Init /\ [][Next]_abstractVars
=============================================================================
