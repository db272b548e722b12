-------------------------------- MODULE Relay --------------------------------
(***************************************************************************)
(* What the TCP server promises its users: a relay between client sessions *)
(* and one upstream link at a time.  Each session's messages are taken in  *)
(* order and once; a message is relayed whole on the current link or lost, *)
(* and it is lost only when there is no link, or together with the link:   *)
(* the loss cuts the link, so nothing follows it there.                    *)
(***************************************************************************)
EXTENDS Naturals, Sequences

CONSTANT Sessions       \* the client sessions

VARIABLES link,         \* state of the current link, see LinkStates
          taken,        \* per session, how many messages have been taken
          log           \* per link there has been, the messages relayed on it

vars == <<link, taken, log>>

(***************************************************************************)
(* "down": no link; "up"; "closing": the peer has closed its side; "cut":  *)
(* no byte can be written any more.                                        *)
(***************************************************************************)
LinkStates == {"down", "up", "closing", "cut"}

Message == Sessions \X (Nat \ {0})

TypeOK ==
    /\ link \in LinkStates
    /\ taken \in [Sessions -> Nat]
    /\ log \in Seq(Seq(Message))

Init ==
    /\ link = "down"
    /\ taken = [s \in Sessions |-> 0]
    /\ log = <<>>

Take(s) == taken' = [taken EXCEPT ![s] = @ + 1]

Establish ==
    /\ link = "down"
    /\ link' \in LinkStates \ {"down"}
    /\ log' = Append(log, <<>>)
    /\ UNCHANGED taken

Degrade ==
    /\ \/ link = "up" /\ link' \in {"closing", "cut"}
       \/ link = "closing" /\ link' = "cut"
    /\ UNCHANGED <<taken, log>>

Teardown ==
    /\ link \in {"closing", "cut"}
    /\ link' = "down"
    /\ UNCHANGED <<taken, log>>

Forward(s) ==
    /\ link \in {"up", "closing"}
    /\ Take(s)
    /\ log' = [log EXCEPT ![Len(log)] = Append(@, <<s, taken[s] + 1>>)]
    /\ UNCHANGED link

Lose(s) ==
    /\ link' = IF link = "down" THEN "down" ELSE "cut"
    /\ Take(s)
    /\ UNCHANGED log

Next ==
    \/ Establish
    \/ Degrade
    \/ Teardown
    \/ \E s \in Sessions : Forward(s) \/ Lose(s)

Spec == Init /\ [][Next]_vars
=============================================================================
