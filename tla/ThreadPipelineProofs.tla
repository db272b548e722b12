------------------------- MODULE ThreadPipelineProofs -------------------------
(***************************************************************************)
(* Proofs about ThreadPipeline, for every number of rounds and messages,   *)
(* and for a full channel that waits as for one that refuses.              *)
(***************************************************************************)
EXTENDS ThreadPipeline, SequenceTheorems, TLAPS

(* Messages that were given to the channel, or refused by it. *)
Pushed == seq + (IF ppc = "end" THEN 1 ELSE 0)

(* Where each thread is in its loop. *)
PlaceInv ==
    /\ ppc \in {"prepare", "push", "end", "crashed"} <=> seq < NumMsgs
    /\ ppc = "done" => cpc = "exited"
    /\ cpc = "exited" => ppc \in {"join", "done"} /\ chan = <<>>
    /\ cpc = "handle" => taken # <<>>

(* The NULL is written last, and once. *)
ChanInv ==
    /\ Len(chan) <= ChanSize
    /\ \A i \in 1 .. Len(chan) :
          chan[i] = Null => i = Len(chan) /\ ppc \in {"join", "done"}

(* Every message pushed is in one place. *)
CountInv ==
    /\ Len(taken) + Waiting + lost = Pushed
    /\ BlocksAccounted
    /\ ppc = "crashed" => lost # 0

(* The messages taken, those in the channel and those to come are in order. *)
OrderInv ==
    /\ \A i, j \in 1 .. Len(taken) : i < j => taken[i] < taken[j]
    /\ \A i \in 1 .. Len(taken) : taken[i] < Pushed
    /\ \A i \in 1 .. Len(chan) : chan[i] # Null =>
          /\ chan[i] < Pushed
          /\ \A j \in 1 .. Len(taken) : taken[j] < chan[i]
          /\ \A j \in 1 .. Len(chan) : i < j /\ chan[j] # Null => chan[i] < chan[j]

IInv == TypeOK /\ PlaceInv /\ ChanInv /\ CountInv /\ OrderInv

-----------------------------------------------------------------------------
LEMMA ConstantFacts ==
    /\ NumPerRound \in Nat /\ NumPerRound > 0
    /\ NumMsgs \in Nat /\ NumMsgs > 0
    /\ Msgs \subseteq Nat /\ \A m \in Msgs : m < NumMsgs
    /\ \A m \in Nat : m < NumMsgs => m \in Msgs
    /\ Null \notin Nat
    /\ PoolSize \in Nat /\ ChanSize \in Nat /\ PoolSize = 2 * ChanSize /\ ChanSize >= 8
<1>1. NumRounds \in Nat /\ NumRounds > 0 /\ NumPerRound \in Nat /\ NumPerRound > 0
  BY ThreadAssumption
<1>2. \A a, b \in Nat : a > 0 /\ b > 0 => a * b \in Nat /\ a * b > 0
  OBVIOUS
<1>3. NumMsgs \in Nat /\ NumMsgs > 0
  BY <1>1, <1>2 DEF NumMsgs
<1>4. PoolSize \in Nat /\ ChanSize \in Nat /\ PoolSize = 2 * ChanSize /\ ChanSize >= 8
  BY <1>1 DEF PoolSize, ChanSize
<1> QED
  BY <1>1, <1>3, <1>4, ThreadAssumption DEF Msgs

(* The state of the channel and the counts, as numbers. *)
LEMMA StateFacts ==
  ASSUME TypeOK
  PROVE  /\ Len(chan) \in Nat /\ Len(taken) \in Nat
         /\ seq \in Nat /\ free \in Nat /\ lost \in Nat
         /\ seq <= NumMsgs
         /\ \A i \in 1 .. Len(chan) : chan[i] \in Msgs \cup {Null}
         /\ \A i \in 1 .. Len(taken) : taken[i] \in Nat
         /\ Waiting \in Nat /\ Waiting <= Len(chan)
<1> USE ConstantFacts DEF TypeOK
<1>1. Len(chan) \in Nat /\ Len(taken) \in Nat
  OBVIOUS
<1>2. seq \in Nat /\ free \in Nat /\ lost \in Nat /\ seq <= NumMsgs
  OBVIOUS
<1>3. \A i \in 1 .. Len(chan) : chan[i] \in Msgs \cup {Null}
  OBVIOUS
<1>4. \A i \in 1 .. Len(taken) : taken[i] \in Nat
  <2>1. \A i \in 1 .. Len(taken) : taken[i] \in Msgs
    OBVIOUS
  <2> QED
    BY <2>1
<1>5. Waiting \in Nat /\ Waiting <= Len(chan)
  <2>1. chan # <<>> => Len(chan) > 0
    BY <1>1, EmptySeq
  <2> QED
    BY <1>1, <2>1 DEF Waiting
<1> QED
  BY <1>1, <1>2, <1>3, <1>4, <1>5

LEMMA InitIInv == Init => IInv
<1> SUFFICES ASSUME Init PROVE IInv
  OBVIOUS
<1> USE ConstantFacts DEF Init
<1>1. Len(chan) = 0 /\ Len(taken) = 0 /\ Waiting = 0 /\ Pushed = 0
  BY DEF Waiting, Pushed
<1>2. TypeOK
  <2>1. chan \in Seq(Msgs \cup {Null}) /\ taken \in Seq(Msgs)
    BY EmptySeq
  <2>2. recs \in [Msgs -> SUBSET Actions]
    OBVIOUS
  <2> QED
    BY <2>1, <2>2 DEF TypeOK
<1>3. PlaceInv /\ ChanInv /\ OrderInv
  BY <1>1 DEF PlaceInv, ChanInv, OrderInv
<1>4. CountInv
  BY <1>1 DEF CountInv, BlocksAccounted, InUse
<1> QED
  BY <1>2, <1>3, <1>4 DEF IInv

-----------------------------------------------------------------------------
(* What is at the end of the channel after a write, and after a read. *)
LEMMA WriteFacts ==
  ASSUME TypeOK, NEW m \in Msgs \cup {Null}, Write(m)
  PROVE  /\ chan' \in Seq(Msgs \cup {Null})
         /\ Len(chan') = Len(chan) + 1
         /\ \A i \in 1 .. Len(chan) : chan'[i] = chan[i]
         /\ chan'[Len(chan) + 1] = m
         /\ Len(chan') <= ChanSize
BY StateFacts, ConstantFacts DEF TypeOK, Write

LEMMA ReadFacts ==
  ASSUME TypeOK, chan # <<>>, chan' = Tail(chan)
  PROVE  /\ chan' \in Seq(Msgs \cup {Null})
         /\ Len(chan) > 0 /\ Len(chan') = Len(chan) - 1
         /\ \A i \in 1 .. Len(chan') : chan'[i] = chan[i + 1]
         /\ Head(chan) = chan[1]
BY StateFacts, HeadTailProperties, EmptySeq DEF TypeOK

(* A write adds a message to those that wait; a read removes one. *)
LEMMA WaitingWrite ==
  ASSUME TypeOK, ChanInv, NEW m \in Msgs \cup {Null}, Write(m),
         ppc \notin {"join", "done"}
  PROVE  Waiting' = IF m = Null THEN Waiting ELSE Waiting + 1
<1>1. Len(chan) \in Nat /\ (chan # <<>> => chan[Len(chan)] # Null)
  BY StateFacts, EmptySeq DEF TypeOK, ChanInv
<1>2. Len(chan') = Len(chan) + 1 /\ chan'[Len(chan')] = m /\ chan' # <<>>
  BY <1>1, WriteFacts, EmptySeq
<1> QED
  BY <1>1, <1>2 DEF Waiting

LEMMA WaitingRead ==
  ASSUME TypeOK, ChanInv, chan' \in Seq(Msgs \cup {Null}),
         Len(chan) > 0, Len(chan') = Len(chan) - 1,
         \A i \in 1 .. Len(chan') : chan'[i] = chan[i + 1]
  PROVE  /\ Waiting' = IF chan[1] = Null THEN Waiting ELSE Waiting - 1
         /\ chan[1] = Null => chan' = <<>>
<1>1. Len(chan) \in Nat
  BY StateFacts
<1>2. CASE Len(chan) = 1
  <2>1. chan' = <<>> /\ Len(chan') = 0 /\ chan # <<>>
    BY <1>1, <1>2, EmptySeq
  <2>2. Waiting' = 0
    BY <2>1 DEF Waiting
  <2>3. Waiting = 1 - (IF chan[1] = Null THEN 1 ELSE 0)
    BY <1>2, <2>1 DEF Waiting
  <2>4. chan[1] = Null => Waiting = 0
    BY <2>3
  <2>5. chan[1] # Null => Waiting = 1
    BY <2>3
  <2>6. Waiting' = IF chan[1] = Null THEN Waiting ELSE Waiting - 1
    BY <2>2, <2>4, <2>5
  <2> QED
    BY <2>1, <2>6
<1>3. CASE Len(chan) > 1
  <2>1. Len(chan') \in Nat /\ Len(chan') >= 1 /\ Len(chan') + 1 = Len(chan)
    BY <1>1, <1>3
  <2>2. chan'[Len(chan')] = chan[Len(chan)]
    BY <1>1, <2>1
  <2>3. chan' # <<>> /\ chan # <<>>
    BY <2>1, EmptySeq
  <2>4. chan[1] # Null
    <3>1. 1 \in 1 .. Len(chan) /\ 1 # Len(chan)
      BY <1>3, <1>1
    <3> QED
      BY <3>1 DEF ChanInv
  <2>5. Waiting' = Waiting - 1
    <3> DEFINE last == chan[Len(chan)]
    <3>1. Waiting' = Len(chan') - (IF last = Null THEN 1 ELSE 0)
      BY <2>2, <2>3 DEF Waiting
    <3>2. Waiting = Len(chan) - (IF last = Null THEN 1 ELSE 0)
      BY <2>3 DEF Waiting
    <3> HIDE DEF last
    <3> QED
      BY <2>1, <3>1, <3>2, <1>1
  <2> QED
    BY <1>1, <2>4, <2>5
<1> QED
  BY <1>1, <1>2, <1>3

-----------------------------------------------------------------------------
(* The parts that speak of the channel and of the messages taken. *)
LEMMA ChannelFrame ==
  ASSUME IInv, UNCHANGED <<chan, taken, Pushed>>,
         ppc \in {"join", "done"} => ppc' \in {"join", "done"}
  PROVE  ChanInv' /\ OrderInv' /\ Waiting' = Waiting
BY DEF IInv, ChanInv, OrderInv, Waiting

LEMMA PrepareStep == IInv /\ Prepare => IInv'
<1> SUFFICES ASSUME IInv, Prepare PROVE IInv'
  OBVIOUS
<1>1. UNCHANGED Pushed
  BY DEF Prepare, Pushed
<1>2. ChanInv' /\ OrderInv' /\ Waiting' = Waiting
  BY <1>1, ChannelFrame DEF Prepare
<1>3. TypeOK'
  <2>1. recs' \in [Msgs -> SUBSET Actions]
    BY DEF IInv, TypeOK, Prepare, Record, RecordedBefore, Actions
  <2> QED
    BY <2>1, ConstantFacts DEF IInv, TypeOK, Prepare
<1>4. PlaceInv'
  BY DEF IInv, PlaceInv, Prepare
<1>5. CountInv'
  <2>1. /\ ppc = "prepare" /\ ppc' = "push" /\ free' = free - 1
        /\ cpc' = cpc /\ lost' = lost /\ taken' = taken
        /\ Waiting' = Waiting /\ Pushed' = Pushed
    BY <1>1, <1>2, Zenon DEF Prepare
  <2>2. PICK w \in Nat, f \in Nat, l \in Nat : w = Waiting /\ f = free /\ l = lost
    BY StateFacts, Zenon DEF IInv
  <2>3. PICK c \in Nat : c = IF cpc = "handle" THEN 1 ELSE 0
    OBVIOUS
  <2>4. InUse = 0 + w + c /\ InUse' = 1 + w + c
    BY <2>1, <2>2, <2>3 DEF InUse
  <2>5. free + InUse + lost = PoolSize
    BY DEF IInv, CountInv, BlocksAccounted
  <2>6. free' + InUse' + lost' = PoolSize
    BY <2>1, <2>2, <2>4, <2>5
  <2>7. Len(taken)' + Waiting' + lost' = Pushed'
    BY <2>1, Zenon DEF IInv, CountInv
  <2> QED
    BY <2>1, <2>6, <2>7 DEF CountInv, BlocksAccounted
<1> QED
  BY <1>2, <1>3, <1>4, <1>5 DEF IInv

(* A pool that is empty has lost blocks: the rest of it exceeds the channel. *)
LEMMA PoolEnough == IInv => PoolSuffices
<1> SUFFICES ASSUME IInv, lost = 0 PROVE ~(ppc = "prepare" /\ free = 0) /\ ppc # "crashed"
  BY DEF PoolSuffices
<1>1. /\ Waiting \in Nat /\ Waiting <= Len(chan) /\ Len(chan) \in Nat
      /\ Len(chan) <= ChanSize
  BY StateFacts DEF IInv, ChanInv
<1>2. ppc = "prepare" => free + Waiting + 1 >= PoolSize
  BY <1>1, StateFacts, ConstantFacts DEF IInv, CountInv, BlocksAccounted, InUse
<1>3. ppc = "prepare" => free # 0
  BY <1>1, <1>2, ConstantFacts
<1> QED
  BY <1>3 DEF IInv, CountInv

LEMMA CopyToNullStep == IInv /\ CopyToNull => IInv'
<1> SUFFICES ASSUME IInv, CopyToNull PROVE IInv'
  OBVIOUS
<1>1. UNCHANGED Pushed
  BY DEF CopyToNull, Pushed
<1>2. ChanInv' /\ OrderInv' /\ Waiting' = Waiting
  BY <1>1, ChannelFrame DEF CopyToNull
<1>3. TypeOK'
  <2>1. recs' \in [Msgs -> SUBSET Actions]
    BY DEF IInv, TypeOK, CopyToNull, Record, Actions
  <2> QED
    BY <2>1 DEF IInv, TypeOK, CopyToNull
<1>4. PlaceInv'
  BY DEF IInv, PlaceInv, CopyToNull
<1>5. CountInv'
  BY <1>1, <1>2, PoolEnough
     DEF IInv, CountInv, BlocksAccounted, InUse, CopyToNull, PoolSuffices
<1> QED
  BY <1>2, <1>3, <1>4, <1>5 DEF IInv

LEMMA PushEndStep == IInv /\ PushEnd => IInv'
<1> SUFFICES ASSUME IInv, PushEnd PROVE IInv'
  OBVIOUS
<1>1. /\ seq \in Nat /\ seq < NumMsgs /\ seq' = seq + 1
      /\ ppc' = IF seq + 1 = NumMsgs THEN "stop" ELSE "prepare"
  BY StateFacts DEF IInv, PlaceInv, PushEnd, NextMessage
<1>2. UNCHANGED Pushed
  BY <1>1 DEF PushEnd, Pushed
<1>3. ChanInv' /\ OrderInv' /\ Waiting' = Waiting
  BY <1>2, ChannelFrame DEF PushEnd
<1>4. TypeOK'
  <2>1. recs' \in [Msgs -> SUBSET Actions]
    BY DEF IInv, TypeOK, PushEnd, Record, Actions
  <2> QED
    BY <1>1, <2>1, ConstantFacts DEF IInv, TypeOK, PushEnd
<1>5. PlaceInv'
  BY <1>1, ConstantFacts DEF IInv, PlaceInv, PushEnd
<1>6. CountInv'
  BY <1>1, <1>2, <1>3 DEF IInv, CountInv, BlocksAccounted, InUse, PushEnd
<1> QED
  BY <1>3, <1>4, <1>5, <1>6 DEF IInv

LEMMA JoinStep == IInv /\ Join => IInv'
<1> SUFFICES ASSUME IInv, Join PROVE IInv'
  OBVIOUS
<1>1. UNCHANGED Pushed
  BY DEF Join, Pushed
<1>2. ChanInv' /\ OrderInv' /\ Waiting' = Waiting
  BY <1>1, ChannelFrame DEF Join
<1>3. TypeOK' /\ PlaceInv'
  BY DEF IInv, TypeOK, PlaceInv, Join
<1>4. CountInv'
  BY <1>1, <1>2 DEF IInv, CountInv, BlocksAccounted, InUse, Join
<1> QED
  BY <1>2, <1>3, <1>4 DEF IInv

LEMMA HandleStep == IInv /\ Handle => IInv'
<1> SUFFICES ASSUME IInv, Handle PROVE IInv'
  OBVIOUS
<1>1. UNCHANGED Pushed
  BY DEF Handle, Pushed
<1>2. ChanInv' /\ OrderInv' /\ Waiting' = Waiting
  BY <1>1, ChannelFrame DEF Handle
<1>3. free' = free + 1 /\ cpc = "handle" /\ cpc' = "read"
  BY DEF Handle, Free
<1>4. CountInv'
  <2>1. InUse' = InUse - 1 /\ InUse \in Nat
    BY <1>2, <1>3, StateFacts DEF IInv, InUse, Handle
  <2>2. BlocksAccounted'
    <3>1. free + InUse + lost = PoolSize /\ lost' = lost
      BY DEF IInv, CountInv, BlocksAccounted, Handle
    <3> QED
      BY <1>3, <2>1, <3>1, StateFacts, ConstantFacts DEF IInv, BlocksAccounted
  <2> QED
    BY <1>1, <1>2, <2>2 DEF IInv, CountInv, Handle
<1>5. free' <= PoolSize
  <2>1. free + InUse + lost = PoolSize /\ InUse >= 1 /\ InUse \in Nat
    BY <1>3, StateFacts DEF IInv, CountInv, BlocksAccounted, InUse
  <2> HIDE DEF InUse
  <2> QED
    BY <1>3, <2>1, StateFacts, ConstantFacts DEF IInv
<1>6. TypeOK'
  <2>1. recs' \in [Msgs -> SUBSET Actions]
    BY DEF IInv, TypeOK, Handle, Record, Actions
  <2> QED
    BY <1>3, <1>5, <2>1, StateFacts, ConstantFacts DEF IInv, TypeOK, Handle
<1>7. PlaceInv'
  BY DEF IInv, PlaceInv, Handle
<1> QED
  BY <1>2, <1>4, <1>6, <1>7 DEF IInv

(* A message, or the NULL, behind what is in the channel. *)
LEMMA ChannelWrite ==
  ASSUME IInv, NEW m \in {seq, Null}, Write(m), ppc \notin {"join", "done"},
         UNCHANGED taken,
         IF m = Null THEN ppc' = "join" /\ Pushed' = Pushed
         ELSE m \in Msgs /\ m = Pushed /\ Pushed' = Pushed + 1
  PROVE  ChanInv' /\ OrderInv' /\ chan' \in Seq(Msgs \cup {Null})
<1>1. /\ Len(chan) \in Nat /\ chan' \in Seq(Msgs \cup {Null})
      /\ Len(chan') = Len(chan) + 1 /\ Len(chan') <= ChanSize
      /\ \A i \in 1 .. Len(chan) : chan'[i] = chan[i] /\ chan[i] # Null
      /\ chan'[Len(chan) + 1] = m
      /\ \A i \in 1 .. Len(chan') : i \in 1 .. Len(chan) \/ i = Len(chan) + 1
  <2>1. m \in Msgs \cup {Null}
    OBVIOUS
  <2>2. Len(chan) \in Nat
    BY StateFacts DEF IInv
  <2>3. \A i \in 1 .. Len(chan) : chan[i] # Null
    BY DEF IInv, ChanInv
  <2> QED
    BY <2>1, <2>2, <2>3, WriteFacts DEF IInv
<1>2. ChanInv'
  BY <1>1 DEF ChanInv
<1>3. Pushed \in Nat /\ \A i \in 1 .. Len(chan) : chan[i] \in Nat
  <2>1. \A i \in 1 .. Len(chan) : chan[i] \in Msgs
    BY <1>1, StateFacts DEF IInv
  <2>2. Pushed \in Nat
    BY StateFacts DEF IInv, Pushed
  <2> QED
    BY <2>1, <2>2, ConstantFacts
<1>4. /\ \A i \in 1 .. Len(taken) : taken[i] \in Nat /\ taken[i] < Pushed
      /\ Len(taken) \in Nat
  BY StateFacts DEF IInv, OrderInv
<1>5. OrderInv'
  <2>1. Pushed' >= Pushed /\ Pushed' \in Nat
    BY <1>3
  <2>2. \A i, j \in 1 .. Len(taken') : i < j => taken'[i] < taken'[j]
    BY DEF IInv, OrderInv
  <2>3. \A i \in 1 .. Len(taken') : taken'[i] < Pushed'
    BY <1>3, <1>4, <2>1
  <2>4. ASSUME NEW i \in 1 .. Len(chan'), chan'[i] # Null
        PROVE  /\ chan'[i] < Pushed'
               /\ \A j \in 1 .. Len(taken') : taken'[j] < chan'[i]
               /\ \A j \in 1 .. Len(chan') :
                     i < j /\ chan'[j] # Null => chan'[i] < chan'[j]
    <3>1. CASE i \in 1 .. Len(chan)
      <4>1. /\ chan'[i] = chan[i] /\ chan[i] \in Nat /\ chan[i] < Pushed
            /\ \A j \in 1 .. Len(taken) : taken[j] < chan[i]
            /\ \A j \in 1 .. Len(chan) : i < j => chan[i] < chan[j]
        BY <1>1, <1>3, <3>1 DEF IInv, OrderInv
      <4>2. ASSUME NEW j \in 1 .. Len(chan'), i < j, chan'[j] # Null
            PROVE  chan'[i] < chan'[j]
        <5>1. CASE j \in 1 .. Len(chan)
          BY <1>1, <4>1, <4>2, <5>1
        <5>2. CASE j = Len(chan) + 1
          BY <1>1, <4>1, <4>2, <5>2
        <5> QED
          BY <1>1, <5>1, <5>2
      <4> QED
        BY <4>1, <4>2, <1>3, <2>1
    <3>2. CASE i = Len(chan) + 1
      <4>1. chan'[i] = m /\ m = Pushed /\ Pushed' = Pushed + 1
        BY <1>1, <2>4, <3>2
      <4>2. \A j \in 1 .. Len(chan') : ~(i < j)
        BY <1>1, <3>2
      <4> QED
        BY <1>3, <1>4, <4>1, <4>2
    <3> QED
      BY <1>1, <3>1, <3>2
  <2> QED
    BY <2>2, <2>3, <2>4 DEF OrderInv
<1> QED
  BY <1>1, <1>2, <1>5

LEMMA PushStep == IInv /\ Push => IInv'
<1> SUFFICES ASSUME IInv, Push PROVE IInv'
  OBVIOUS
<1>1. /\ seq \in Nat /\ seq < NumMsgs /\ seq \in Msgs /\ seq # Null
      /\ ppc = "push" /\ ppc' = "end" /\ Pushed = seq /\ Pushed' = seq + 1
  BY StateFacts, ConstantFacts DEF IInv, PlaceInv, Push, Pushed
<1>2. InUse = 1 + Waiting + (IF cpc = "handle" THEN 1 ELSE 0)
  BY <1>1 DEF InUse
<1>3. InUse' = 0 + Waiting' + (IF cpc = "handle" THEN 1 ELSE 0)
  BY <1>1 DEF InUse, Push
<1>4. /\ Waiting \in Nat /\ free \in Nat /\ lost \in Nat /\ Len(taken) \in Nat
      /\ free + InUse + lost = PoolSize
      /\ Len(taken) + Waiting + lost = Pushed
  BY StateFacts DEF IInv, CountInv, BlocksAccounted
<1>5. PlaceInv'
  BY <1>1 DEF IInv, PlaceInv, Push
<1>6. CASE Write(seq) /\ UNCHANGED lost
  <2>1. ChanInv' /\ OrderInv' /\ chan' \in Seq(Msgs \cup {Null})
    BY <1>1, <1>6, ChannelWrite DEF Push
  <2>2. Waiting' = Waiting + 1
    BY <1>1, <1>6, WaitingWrite DEF IInv
  <2>3. CountInv'
    <3>1. Len(taken') + Waiting' + lost' = Pushed'
      BY <1>1, <1>4, <1>6, <2>2 DEF Push
    <3>2. BlocksAccounted'
      BY <1>2, <1>3, <1>4, <1>6, <2>2 DEF BlocksAccounted, Push
    <3> QED
      BY <1>1, <3>1, <3>2 DEF CountInv
  <2>4. TypeOK'
    BY <1>6, <2>1 DEF IInv, TypeOK, Push
  <2> QED
    BY <1>5, <2>1, <2>3, <2>4 DEF IInv
<1>7. CASE Refused /\ lost' = lost + 1
  <2>1. chan' = chan /\ taken' = taken
    BY <1>7 DEF Refused, Push
  <2>2. ChanInv' /\ OrderInv' /\ Waiting' = Waiting
    <3>1. ChanInv' /\ Waiting' = Waiting
      BY <1>1, <2>1 DEF IInv, ChanInv, Waiting
    <3>2. \A n \in Nat : n < Pushed => n < Pushed'
      BY <1>1
    <3>3. /\ \A i \in 1 .. Len(taken) : taken[i] \in Nat
          /\ \A i \in 1 .. Len(chan) : chan[i] # Null => chan[i] \in Nat
      BY StateFacts, ConstantFacts DEF IInv
    <3>4. OrderInv'
      BY <2>1, <3>2, <3>3 DEF IInv, OrderInv
    <3> QED
      BY <3>1, <3>4
  <2>3. CountInv'
    <3>1. Len(taken') + Waiting' + lost' = Pushed'
      BY <1>1, <1>4, <1>7, <2>1, <2>2
    <3>2. BlocksAccounted'
      BY <1>2, <1>3, <1>4, <1>7, <2>2 DEF BlocksAccounted, Push
    <3> QED
      BY <1>1, <3>1, <3>2 DEF CountInv
  <2>4. lost' \in 0 .. PoolSize
    BY <1>2, <1>4, <1>7, ConstantFacts
  <2>5. TypeOK'
    BY <2>1, <2>4 DEF IInv, TypeOK, Push
  <2> QED
    BY <1>5, <2>2, <2>3, <2>5 DEF IInv
<1> QED
  BY <1>6, <1>7 DEF Push

LEMMA StopStep == IInv /\ Stop => IInv'
<1> SUFFICES ASSUME IInv, Stop PROVE IInv'
  OBVIOUS
<1>1. ppc = "stop" /\ ppc' = "join" /\ Pushed' = Pushed /\ cpc # "exited"
  BY DEF IInv, PlaceInv, Stop, Pushed
<1>2. ChanInv' /\ OrderInv' /\ Waiting' = Waiting /\ chan' \in Seq(Msgs \cup {Null})
  <2>1. CASE Write(Null)
    BY <1>1, <2>1, ChannelWrite, WaitingWrite DEF IInv, Stop
  <2>2. CASE Refused
    BY <1>1, <2>2, ChannelFrame DEF IInv, TypeOK, Stop, Refused
  <2> QED
    BY <2>1, <2>2 DEF Stop, WriteNull
<1>3. TypeOK' /\ PlaceInv'
  BY <1>1, <1>2 DEF IInv, TypeOK, PlaceInv, Stop
<1>4. CountInv'
  BY <1>1, <1>2 DEF IInv, CountInv, BlocksAccounted, InUse, Stop
<1> QED
  BY <1>2, <1>3, <1>4 DEF IInv

LEMMA ReadStep == IInv /\ Read => IInv'
<1> SUFFICES ASSUME IInv, Read PROVE IInv'
  OBVIOUS
<1>1. /\ chan' \in Seq(Msgs \cup {Null})
      /\ Len(chan) \in Nat /\ Len(chan) > 0 /\ Len(chan') = Len(chan) - 1
      /\ \A i \in 1 .. Len(chan') : chan'[i] = chan[i + 1]
      /\ Head(chan) = chan[1] /\ chan[1] \in Msgs \cup {Null}
  BY ReadFacts, StateFacts DEF IInv, Read
<1>2. /\ Waiting' = IF chan[1] = Null THEN Waiting ELSE Waiting - 1
      /\ chan[1] = Null => chan' = <<>>
  BY <1>1, WaitingRead DEF IInv
<1>3. UNCHANGED <<ppc, seq, free, lost, recs, full_policy, Pushed>>
      /\ cpc = "read" /\ ChanSize \in Nat
  BY ConstantFacts DEF Read, Pushed
<1>4. \A i \in 1 .. Len(chan') : i + 1 \in 1 .. Len(chan)
  BY <1>1
<1>5. ChanInv'
  <2>1. Len(chan') <= ChanSize
    BY <1>1, <1>3 DEF IInv, ChanInv
  <2>2. ASSUME NEW i \in 1 .. Len(chan'), chan'[i] = Null
        PROVE  i = Len(chan') /\ ppc' \in {"join", "done"}
    <3>1. i + 1 = Len(chan) /\ ppc \in {"join", "done"}
      BY <1>1, <1>4, <2>2 DEF IInv, ChanInv
    <3> QED
      BY <1>1, <1>3, <3>1
  <2> QED
    BY <2>1, <2>2 DEF ChanInv
<1>6. /\ free \in Nat /\ lost \in Nat /\ Len(taken) \in Nat /\ Waiting \in Nat
      /\ Len(taken) + Waiting + lost = Pushed
      /\ free + InUse + lost = PoolSize
  BY StateFacts DEF IInv, CountInv, BlocksAccounted
<1>7. CASE chan[1] = Null
  <2>1. taken' = taken /\ cpc' = "exited" /\ chan' = <<>> /\ Len(chan') = 0
    BY <1>1, <1>2, <1>7, EmptySeq DEF Read
  <2>2. ppc \in {"join", "done"}
    BY <1>1, <1>7 DEF IInv, ChanInv
  <2>3. OrderInv'
    BY <1>3, <2>1 DEF IInv, OrderInv
  <2>4. TypeOK' /\ PlaceInv'
    BY <1>1, <1>3, <2>1, <2>2 DEF IInv, TypeOK, PlaceInv
  <2>5. CountInv'
    <3>1. InUse' = InUse
      BY <1>2, <1>3, <1>7, <2>1 DEF InUse
    <3> QED
      BY <1>2, <1>3, <1>7, <2>1, <3>1 DEF IInv, CountInv, BlocksAccounted
  <2> QED
    BY <1>5, <2>3, <2>4, <2>5 DEF IInv
<1>8. CASE chan[1] # Null
  <2>1. /\ taken' = Append(taken, chan[1]) /\ cpc' = "handle"
        /\ chan[1] \in Msgs /\ chan[1] \in Nat /\ chan[1] < Pushed
        /\ taken \in Seq(Msgs)
        /\ \A j \in 1 .. Len(taken) : taken[j] < chan[1]
    <3>1. 1 \in 1 .. Len(chan)
      BY <1>1
    <3> QED
      BY <1>1, <1>8, <3>1, ConstantFacts DEF Read, IInv, TypeOK, OrderInv
  <2>2. /\ taken' \in Seq(Msgs) /\ Len(taken') = Len(taken) + 1
        /\ \A j \in 1 .. Len(taken) : taken'[j] = taken[j]
        /\ taken'[Len(taken) + 1] = chan[1]
        /\ \A j \in 1 .. Len(taken') : j \in 1 .. Len(taken) \/ j = Len(taken) + 1
    BY <1>6, <2>1
  <2>3. taken' # <<>>
    BY <1>6, <2>2, EmptySeq
  <2>4. TypeOK' /\ PlaceInv'
    BY <1>1, <1>3, <2>1, <2>2, <2>3 DEF IInv, TypeOK, PlaceInv
  <2>5. CountInv'
    <3>1. Waiting' = Waiting - 1
      BY <1>2, <1>8
    <3>2. InUse' = InUse
      BY <1>3, <1>6, <2>1, <3>1 DEF InUse
    <3>3. Len(taken') + Waiting' + lost' = Pushed'
      BY <1>3, <1>6, <2>2, <3>1
    <3> QED
      BY <1>3, <3>2, <3>3 DEF IInv, CountInv, BlocksAccounted
  <2>6. OrderInv'
    <3>1. \A i, j \in 1 .. Len(taken') : i < j => taken'[i] < taken'[j]
      <4> SUFFICES ASSUME NEW i \in 1 .. Len(taken'), NEW j \in 1 .. Len(taken'), i < j
                   PROVE  taken'[i] < taken'[j]
        OBVIOUS
      <4>1. i \in 1 .. Len(taken) /\ taken'[i] = taken[i]
        BY <1>6, <2>2
      <4>2. CASE j \in 1 .. Len(taken)
        BY <2>2, <4>1, <4>2 DEF IInv, OrderInv
      <4>3. CASE j = Len(taken) + 1
        BY <2>1, <2>2, <4>1, <4>3
      <4> QED
        BY <2>2, <4>2, <4>3
    <3>2. \A i \in 1 .. Len(taken') : taken'[i] < Pushed'
      BY <1>3, <2>1, <2>2 DEF IInv, OrderInv
    <3>3. ASSUME NEW i \in 1 .. Len(chan'), chan'[i] # Null
          PROVE  /\ chan'[i] < Pushed'
                 /\ \A j \in 1 .. Len(taken') : taken'[j] < chan'[i]
                 /\ \A j \in 1 .. Len(chan') :
                       i < j /\ chan'[j] # Null => chan'[i] < chan'[j]
      <4>1. /\ chan'[i] = chan[i + 1] /\ i + 1 \in 1 .. Len(chan) /\ chan[i + 1] # Null
            /\ chan[i + 1] < Pushed /\ 1 \in 1 .. Len(chan) /\ 1 < i + 1
            /\ \A j \in 1 .. Len(taken) : taken[j] < chan[i + 1]
        BY <1>1, <1>4, <3>3 DEF IInv, OrderInv
      <4>2. chan[1] < chan[i + 1]
        BY <1>8, <4>1 DEF IInv, OrderInv
      <4>3. \A j \in 1 .. Len(taken') : taken'[j] < chan'[i]
        BY <2>2, <4>1, <4>2
      <4>4. ASSUME NEW j \in 1 .. Len(chan'), i < j, chan'[j] # Null
            PROVE  chan'[i] < chan'[j]
        <5>1. chan'[j] = chan[j + 1] /\ j + 1 \in 1 .. Len(chan) /\ i + 1 < j + 1
          BY <1>1, <1>4, <4>4
        <5> QED
          BY <4>1, <4>4, <5>1 DEF IInv, OrderInv
      <4> QED
        BY <1>3, <4>1, <4>3, <4>4
    <3> QED
      BY <3>1, <3>2, <3>3 DEF OrderInv
  <2> QED
    BY <1>5, <2>4, <2>5, <2>6 DEF IInv
<1> QED
  BY <1>7, <1>8

-----------------------------------------------------------------------------
LEMMA NextIInv == IInv /\ [Next]_vars => IInv'
<1> SUFFICES ASSUME IInv, [Next]_vars PROVE IInv'
  OBVIOUS
<1>1. CASE UNCHANGED vars
  BY <1>1 DEF vars, IInv, TypeOK, PlaceInv, ChanInv, CountInv, OrderInv,
              Pushed, Waiting, BlocksAccounted, InUse
<1> QED
  BY <1>1, PrepareStep, CopyToNullStep, PushStep, PushEndStep, StopStep, JoinStep,
     ReadStep, HandleStep DEF Next, Quiet

LEMMA Inductive == Spec => []IInv
BY InitIInv, NextIInv, PTL DEF Spec

(***************************************************************************)
(* The variables keep their types: in particular consumer() never gives    *)
(* back more blocks than the pool of run() has.                            *)
(***************************************************************************)
THEOREM ThreadTypeCorrect == Spec => []TypeOK
<1>1. IInv => TypeOK
  BY DEF IInv
<1> QED
  BY <1>1, Inductive, PTL

(* No block of the pool is forgotten but those of refused messages. *)
THEOREM BlocksAccountedHolds == Spec => []BlocksAccounted
<1>1. IInv => BlocksAccounted
  BY DEF IInv, CountInv
<1> QED
  BY <1>1, Inductive, PTL

(***************************************************************************)
(* Twice the capacity of the channel is enough for the pool of run(), for  *)
(* any num_per_round, when the channel refuses nothing.                    *)
(***************************************************************************)
THEOREM PoolSufficesHolds == Spec => []PoolSuffices
BY PoolEnough, Inductive, PTL

(***************************************************************************)
(* The consumer takes the messages in order, each once, and has taken all  *)
(* that were not refused when run() has joined it.                         *)
(***************************************************************************)
THEOREM InOrderHolds == Spec => []InOrder
<1>1. IInv => InOrder
  <2> SUFFICES ASSUME IInv PROVE InOrder
    OBVIOUS
  <2>1. ASSUME ppc = "done" PROVE Len(taken) + lost = NumMsgs /\ chan = <<>>
    <3>1. chan = <<>> /\ seq = NumMsgs /\ Pushed = seq /\ Waiting = 0
      <4>1. chan = <<>> /\ Waiting = 0
        BY <2>1, EmptySeq DEF IInv, PlaceInv, Waiting
      <4>2. seq = NumMsgs
        BY <2>1, StateFacts, ConstantFacts DEF IInv, PlaceInv
      <4>3. Pushed = seq
        BY <2>1, StateFacts DEF IInv, Pushed
      <4> QED
        BY <4>1, <4>2, <4>3
    <3> QED
      BY <3>1, StateFacts DEF IInv, CountInv
  <2>2. DOMAIN taken = 1 .. Len(taken)
    BY DEF IInv, TypeOK
  <2> QED
    BY <2>1, <2>2 DEF IInv, OrderInv, InOrder
<1> QED
  BY <1>1, Inductive, PTL
=============================================================================
