------------------------------- MODULE Exchange -------------------------------
(***************************************************************************)
(* What a client transaction and a server transaction promise together,    *)
(* whatever the network loses, repeats or reorders: the verdict the client *)
(* side is given is an answer the server side gave.  A verdict without an  *)
(* answer is a timeout, or, once the server side has left the exchange, a  *)
(* refusal.  A server side that has left may meet the request again and    *)
(* answer it anew; until then its first answer is its only one.            *)
(* Implemented by InviteTransac and NonInviteTransac.                      *)
(***************************************************************************)
CONSTANT Answers   \* what the user of the server transaction can answer

VARIABLES answers,    \* the final answers of the server side so far
          withdrawn,  \* the server side left, answered or not
          verdict     \* what the client side was told, "none" before

exchangeVars == <<answers, withdrawn, verdict>>

Init == answers = {} /\ withdrawn = FALSE /\ verdict = "none"

Answer == /\ answers = {} \/ withdrawn
          /\ \E a \in Answers : answers' = answers \cup {a}
          /\ UNCHANGED <<withdrawn, verdict>>

Withdraw == /\ withdrawn' = TRUE
            /\ UNCHANGED <<answers, verdict>>

Verdicts == {"timeout"} \cup answers \cup {r \in {"refused"} : withdrawn}

Conclude == /\ verdict = "none"
            /\ verdict' \in Verdicts
            /\ UNCHANGED <<answers, withdrawn>>

Next == Answer \/ Withdraw \/ Conclude

Spec == Init /\ [][Next]_exchangeVars
=============================================================================
