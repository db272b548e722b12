---------------------------- MODULE MessageStream ----------------------------
(***************************************************************************)
(* What a TCP session promises the callback of nb_tcp_session_new: the     *)
(* peer's messages, whole, in order and once, however the bytes arrive.    *)
(* The modules that work with whole messages (TcpServer) rely on this.     *)
(***************************************************************************)
EXTENDS Naturals

VARIABLES arrived,      \* messages that have arrived whole
          handled,      \* messages handed to the callback
          open          \* whether more may be handled

vars == <<arrived, handled, open>>

Init ==
    /\ arrived = 0
    /\ handled = 0
    /\ open = TRUE

Arrive ==
    /\ arrived' \in Nat
    /\ arrived' > arrived
    /\ UNCHANGED <<handled, open>>

Handle ==
    /\ open = TRUE
    /\ handled < arrived
    /\ handled' = handled + 1
    /\ UNCHANGED <<arrived, open>>

Close ==
    /\ open = TRUE
    /\ open' = FALSE
    /\ UNCHANGED <<arrived, handled>>

Next == Arrive \/ Handle \/ Close

Spec == Init /\ [][Next]_vars
=============================================================================
