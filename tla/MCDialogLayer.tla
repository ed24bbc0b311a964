------------------------------ MODULE MCDialogLayer ------------------------------
(***************************************************************************)
(* The dialog layer with one sort of dialog for every way of taking a      *)
(* shutdown and a transport error.                                         *)
(***************************************************************************)
EXTENDS DialogLayer

MCSorts == {[kind |-> "REGISTER", silent |-> FALSE],
            [kind |-> "SUBSCRIBE", silent |-> FALSE],
            [kind |-> "SUBSCRIBE", silent |-> TRUE],
            [kind |-> "INVITE", silent |-> FALSE],
            [kind |-> "MESSAGE", silent |-> FALSE]}
=============================================================================
