--------------------------- MODULE ThreadPipeline ---------------------------
(***************************************************************************)
(* app/thread: a producer and a consumer thread, the bounded channel       *)
(* between them and the pool their blocks come from.                       *)
(*                                                                         *)
(* Channel and pool are a library's.  The program ignores the result of    *)
(* muggle_channel_write and the NULL of an empty pool.  Whether a write to *)
(* a full channel waits or is refused is a parameter here.                 *)
(***************************************************************************)
EXTENDS Naturals, Sequences

CONSTANTS NumRounds,    \* args->round_num
          NumPerRound,  \* args->num_per_round
          FullPolicies, \* of a full channel, "wait" or "refuse"
          Null          \* the NULL that ends the consumer

ASSUME ThreadAssumption ==
    /\ {NumRounds, NumPerRound} \subseteq Nat \ {0}
    /\ FullPolicies \subseteq {"wait", "refuse"}
    /\ Null \notin Nat

VARIABLES full_policy,
          ppc,          \* where the main thread is
          seq,          \* messages the producer is done with
          chan,         \* the channel: message numbers, and Null
          free,         \* free blocks of the pool
          lost,         \* blocks of refused messages
          cpc,          \* where the consumer is
          taken,        \* messages the consumer has read
          recs          \* per message, the actions recorded

vars == <<full_policy, ppc, seq, chan, free, lost, cpc, taken, recs>>

NumMsgs == NumRounds * NumPerRound

Msgs == 0 .. NumMsgs - 1

Actions == {"producer.prepare", "producer.push_begin", "producer.push_end", "consumer.rcv"}

(* Mutant: as many blocks as the channel has places. *)
pool_size_of_channel == NumPerRound * 8

PoolSize == NumPerRound * 16

ChanSize == NumPerRound * 8

TypeOK ==
    /\ full_policy \in FullPolicies
    /\ ppc \in {"prepare", "push", "end", "stop", "join", "done", "crashed"}
    /\ seq \in 0 .. NumMsgs
    /\ chan \in Seq(Msgs \cup {Null})
    /\ free \in 0 .. PoolSize
    /\ lost \in 0 .. PoolSize
    /\ cpc \in {"read", "handle", "exited"}
    /\ taken \in Seq(Msgs)
    /\ recs \in [Msgs -> SUBSET Actions]

Init ==
    /\ full_policy \in FullPolicies
    /\ ppc = "prepare"
    /\ seq = 0
    /\ chan = <<>>
    /\ free = PoolSize
    /\ lost = 0
    /\ cpc = "read"
    /\ taken = <<>>
    /\ recs = [m \in Msgs |-> {}]

Record(m, actions) == recs' = [recs EXCEPT ![m] = @ \cup actions]

-----------------------------------------------------------------------------
RecordedBefore == {"producer.prepare", "producer.push_begin"}

(* producer: a block, the message copied into it ... *)
Prepare ==
    /\ ppc = "prepare"
    /\ free > 0
    /\ free' = free - 1
    /\ Record(seq, RecordedBefore)
    /\ ppc' = "push"
    /\ UNCHANGED <<full_policy, seq, chan, lost, cpc, taken>>

(* ... or NULL from an empty pool, and memcpy writes there. *)
CopyToNull ==
    /\ ppc = "prepare"
    /\ free = 0
    /\ Record(seq, {"producer.prepare"})
    /\ ppc' = "crashed"
    /\ UNCHANGED <<full_policy, seq, chan, free, lost, cpc, taken>>

(* muggle_channel_write, for a message or the final NULL. *)
Write(m) ==
    /\ Len(chan) < ChanSize
    /\ chan' = Append(chan, m)

Refused ==
    /\ full_policy = "refuse"
    /\ Len(chan) = ChanSize
    /\ UNCHANGED chan

(* A refused message's block is never freed. *)
Push ==
    /\ ppc = "push"
    /\ \/ Write(seq) /\ UNCHANGED lost
       \/ Refused /\ lost' = lost + 1
    /\ ppc' = "end"
    /\ UNCHANGED <<full_policy, seq, free, cpc, taken, recs>>

(* Mutant: the last message is left out. *)
next_message_last == IF seq + 2 >= NumMsgs THEN "stop" ELSE "prepare"

NextMessage == IF seq + 1 = NumMsgs THEN "stop" ELSE "prepare"

PushEnd ==
    /\ ppc = "end"
    /\ Record(seq, {"producer.push_end"})
    /\ seq' = seq + 1
    /\ ppc' = NextMessage
    /\ UNCHANGED <<full_policy, chan, free, lost, cpc, taken>>

(* Mutant: nothing tells the consumer to end. *)
stop_without_null == UNCHANGED chan

WriteNull == Write(Null) \/ Refused

(* run: the NULL, then muggle_thread_join. *)
Stop ==
    /\ ppc = "stop"
    /\ WriteNull
    /\ ppc' = "join"
    /\ UNCHANGED <<full_policy, seq, free, lost, cpc, taken, recs>>

Join ==
    /\ ppc = "join"
    /\ cpc = "exited"
    /\ ppc' = "done"
    /\ UNCHANGED <<full_policy, seq, chan, free, lost, cpc, taken, recs>>

-----------------------------------------------------------------------------
(* consumer: the busy read of the channel waits for something to be there. *)
Read ==
    /\ cpc = "read"
    /\ chan # <<>>
    /\ chan' = Tail(chan)
    /\ IF Head(chan) = Null
       THEN cpc' = "exited" /\ UNCHANGED taken
       ELSE cpc' = "handle" /\ taken' = Append(taken, Head(chan))
    /\ UNCHANGED <<full_policy, ppc, seq, free, lost, recs>>

(* Mutant: the block is not given back. *)
free_forgotten == UNCHANGED free

Free == free' = free + 1

Handle ==
    /\ cpc = "handle"
    /\ Record(taken[Len(taken)], {"consumer.rcv"})
    /\ Free
    /\ cpc' = "read"
    /\ UNCHANGED <<full_policy, ppc, seq, chan, lost, taken>>

(* The process is gone with the consumer when the main thread crashes. *)
Running == ppc # "crashed"

(* It has ended, or no NULL comes and join waits for good: see JoinReturns. *)
Quiet ==
    /\ \/ ppc \in {"done", "crashed"}
       \/ ppc = "join" /\ cpc = "read" /\ chan = <<>>
    /\ UNCHANGED vars

Next ==
    \/ Prepare
    \/ CopyToNull
    \/ Push
    \/ PushEnd
    \/ Stop
    \/ Join
    \/ Running /\ Read
    \/ Running /\ Handle
    \/ Quiet

Spec == Init /\ [][Next]_vars

(* Both threads run. *)
FairSpec ==
    /\ Spec
    /\ WF_vars(Prepare \/ CopyToNull \/ Push \/ PushEnd \/ Stop \/ Join)
    /\ WF_vars(Running /\ (Read \/ Handle))

-----------------------------------------------------------------------------
(* Messages in the channel: nothing comes after the NULL. *)
Waiting == Len(chan) - (IF chan # <<>> /\ chan[Len(chan)] = Null THEN 1 ELSE 0)

(* Blocks in the hands of the producer, the channel and the consumer. *)
InUse == (IF ppc = "push" THEN 1 ELSE 0) + Waiting + (IF cpc = "handle" THEN 1 ELSE 0)

(***************************************************************************)
(* Every block is free, in use, or was lost with a refused message.        *)
(***************************************************************************)
BlocksAccounted == free + InUse + lost = PoolSize

(***************************************************************************)
(* The pool, twice as large as the channel, is never empty when a message  *)
(* needs a block, as long as the channel refuses nothing.                  *)
(***************************************************************************)
PoolSuffices == lost = 0 => ~(ppc = "prepare" /\ free = 0) /\ ppc # "crashed"

(***************************************************************************)
(* The consumer gets the messages in order and once, and when run() has    *)
(* joined it, all that were not refused: nothing is behind the NULL.       *)
(***************************************************************************)
InOrder ==
    /\ \A i, j \in DOMAIN taken : i < j => taken[i] < taken[j]
    /\ ppc = "done" => Len(taken) + lost = NumMsgs /\ chan = <<>>

(***************************************************************************)
(* "wait consumer exit": run() joins the consumer in the end, unless the   *)
(* channel may refuse the NULL that tells the consumer to exit.            *)
(***************************************************************************)
JoinReturns == full_policy = "wait" ~> ppc = "done"
=============================================================================
