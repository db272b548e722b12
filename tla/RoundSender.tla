----------------------------- MODULE RoundSender -----------------------------
(***************************************************************************)
(* What tcp_client promises the server: rounds of messages, in order, over *)
(* one connection after the other.  When a connection breaks, a message    *)
(* may be cut off at its end, and the round that was being sent starts     *)
(* again on the next; a round that was sent whole is never sent again.     *)
(***************************************************************************)
EXTENDS Naturals, Sequences

CONSTANTS NumRounds,    \* rounds to send
          NumPerRound   \* messages of a round

VARIABLES up,           \* the newest connection can be used
          round,        \* rounds sent whole
          pos,          \* messages of the next round sent on this connection
          out           \* per connection there has been, the messages sent

vars == <<up, round, pos, out>>

Seqs == 0 .. NumRounds * NumPerRound - 1

TypeOK ==
    /\ up \in BOOLEAN
    /\ round \in 0 .. NumRounds
    /\ pos \in 0 .. NumPerRound - 1
    /\ out \in Seq(Seq([seq : Seqs, whole : BOOLEAN]))

Init ==
    /\ up = FALSE
    /\ round = 0
    /\ pos = 0
    /\ out = <<>>

Connect ==
    /\ ~up
    /\ up' = TRUE
    /\ out' = Append(out, <<>>)
    /\ UNCHANGED <<round, pos>>

Current == round * NumPerRound + pos

Put(whole) ==
    out' = [out EXCEPT ![Len(out)] = Append(@, [seq |-> Current, whole |-> whole])]

Send ==
    /\ up
    /\ round < NumRounds
    /\ Put(TRUE)
    /\ IF pos + 1 = NumPerRound
       THEN pos' = 0 /\ round' = round + 1
       ELSE pos' = pos + 1 /\ UNCHANGED round
    /\ UNCHANGED up

(* Seen between two writes, or by a write that takes nothing ... *)
Drop ==
    /\ up
    /\ up' = FALSE
    /\ pos' = 0
    /\ UNCHANGED <<round, out>>

(* ... or that takes a part of the message. *)
CutOff ==
    /\ up
    /\ round < NumRounds
    /\ Put(FALSE)
    /\ up' = FALSE
    /\ pos' = 0
    /\ UNCHANGED round

Break == Drop \/ CutOff

Next == Connect \/ Send \/ Break

Spec == Init /\ [][Next]_vars
=============================================================================
