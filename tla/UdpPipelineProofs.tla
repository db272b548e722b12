-------------------------- MODULE UdpPipelineProofs --------------------------
(***************************************************************************)
(* Proofs about UdpPipeline, for every number of rounds and messages,      *)
(* every size of a message and whatever the network does with datagrams.   *)
(***************************************************************************)
EXTENDS UdpPipeline, TLAPS

(* The first message of the round that has not been sent on this try. *)
Frontier ==
    IF pos = Idle THEN round_index * NumPerRound
    ELSE Current + (IF sent THEN 1 ELSE 0)

(* Where udp_client_on_timer is. *)
PlaceInv ==
    /\ phase = "bind" => st = "unused" /\ round_index = 0
    /\ pos # Idle => phase \in {"run", "crashed"} /\ round_index < NumRounds
    /\ sent => /\ pos # Idle /\ phase = "run" /\ st = "live"
               /\ ClientDatagram(Current) \in net

(***************************************************************************)
(* Until a sendto fails, no message from Frontier on has left a trace but  *)
(* a record of its beginning.                                              *)
(***************************************************************************)
FreshInv ==
    ~Failed =>
        /\ \A d \in net : d.msg < Frontier
        /\ \A m \in Msgs : m >= Frontier =>
              ~Has(m, "upstream.rcv") /\ ~Has(m, "client.snd_end")

(* What the records say of a datagram on its way. *)
TraceInv ==
    \A d \in net :
        /\ d.msg \in Msgs => Has(d.msg, "client.snd_begin")
        /\ d.msg \in Msgs /\ d.to = "upstream" =>
              Has(d.msg, "server.rcv") /\ Has(d.msg, "server.snd_begin")
        /\ d.msg \in Msgs /\ d.to = "server" => d.from = "client"

(* An event that is in a pair has a record. *)
Reflexive(order) ==
    \A p \in order : <<p[1], p[1]>> \in order /\ <<p[2], p[2]>> \in order

IInv ==
    /\ TypeOK
    /\ \A m \in Msgs \cup {Answer} : Reflexive(recs[m])
    /\ PlaceInv
    /\ FreshInv
    /\ TraceInv
    /\ RecordsTruthful
    /\ LatencyNotNegative

-----------------------------------------------------------------------------
LEMMA ConstantFacts ==
    /\ NumRounds \in Nat /\ NumRounds > 0
    /\ NumPerRound \in Nat /\ NumPerRound > 0
    /\ MsgSize \in Nat /\ MsgSize > 0
    /\ BufSize \in Nat /\ BufSize > 0
    /\ NumRounds * NumPerRound \in Nat
<1>1. \A a, b \in Nat : a * b \in Nat
  OBVIOUS
<1> QED
  BY <1>1, PipelineAssumption

LEMMA ProductNat ==
  ASSUME NEW m \in Nat, NEW n \in Nat
  PROVE  m * n \in Nat
OBVIOUS

(* A message of a round that is left has a number below the last one's. *)
LEMMA SeqRange ==
  ASSUME NEW r \in Nat, NEW p \in Nat, r < NumRounds, p < NumPerRound
  PROVE  /\ r * NumPerRound + p \in Msgs
         /\ r * NumPerRound \in Nat
<1> DEFINE rest == NumRounds - (r + 1)
<1>1. rest \in Nat /\ NumRounds = r + 1 + rest
  BY ConstantFacts
<1>2. r * NumPerRound \in Nat /\ rest * NumPerRound \in Nat
  BY <1>1, ConstantFacts, ProductNat
<1>3. NumRounds * NumPerRound = r * NumPerRound + NumPerRound + rest * NumPerRound
  BY <1>1, ConstantFacts
<1> HIDE DEF rest
<1> QED
  BY <1>2, <1>3, ConstantFacts DEF Msgs

LEMMA NextRound ==
  ASSUME NEW r \in Nat
  PROVE  (r + 1) * NumPerRound = r * NumPerRound + NumPerRound
BY ConstantFacts

(* The message that on_timer is at. *)
LEMMA CurrentFacts ==
  ASSUME TypeOK, PlaceInv, pos # Idle
  PROVE  /\ Current \in Msgs /\ Current \in Nat /\ Current \in InRound
         /\ round_index \in Nat /\ pos \in Nat /\ pos < NumPerRound
         /\ round_index * NumPerRound \in Nat
         /\ Frontier = Current + (IF sent THEN 1 ELSE 0)
<1>1. /\ round_index \in Nat /\ pos \in Nat
      /\ round_index < NumRounds /\ pos < NumPerRound
  BY ConstantFacts DEF TypeOK, PlaceInv, Idle
<1>2. Current \in Msgs /\ round_index * NumPerRound \in Nat
  BY <1>1, SeqRange DEF Current
<1>3. Current \in Nat
  BY <1>1, <1>2 DEF Current
<1>4. Current \in InRound
  BY <1>1, <1>2, <1>3, NextRound, ConstantFacts DEF InRound, Current
<1> QED
  BY <1>1, <1>2, <1>3, <1>4 DEF Frontier

LEMMA FrontierNat ==
  ASSUME TypeOK, PlaceInv
  PROVE  Frontier \in Nat
<1>1. CASE pos = Idle
  <2>1. round_index \in Nat
    BY ConstantFacts DEF TypeOK
  <2> QED
    BY <1>1, <2>1, ConstantFacts, ProductNat DEF Frontier
<1>2. CASE pos # Idle
  BY <1>2, CurrentFacts
<1> QED
  BY <1>1, <1>2

-----------------------------------------------------------------------------
(* What NETBENCH_RECORD does to the order of a message's records. *)
LEMMA AfterFacts ==
  ASSUME NEW order \in SUBSET (Events \X Events), Reflexive(order),
         NEW a \in Actions, NEW size \in 1 .. MsgSize
  PROVE  LET new == After(order, a, size)
         IN  /\ new \in SUBSET (Events \X Events)
             /\ Reflexive(new)
             /\ \A b \in Actions :
                   (\E p \in new : p[2].action = b) <=>
                      (\E p \in order : p[2].action = b) \/ b = a
             /\ \A b, c \in Actions :
                   /\ b # c
                   /\ \A p \in order : ~(p[1].action = c /\ p[2].action = b)
                   /\ b = a => ~ \E p \in order : p[2].action = c
                   => \A p \in new : ~(p[1].action = c /\ p[2].action = b)
<1> DEFINE e == [action |-> a, size |-> size]
           others == {p \in order : p[1] # e /\ p[2] # e}
           new == After(order, a, size)
<1>1. e \in Events /\ e.action = a
  BY DEF Events
<1>2. new = others \cup {<<p[1], e>> : p \in others} \cup {<<e, e>>}
  BY DEF After
<1>3. \A p \in order : p[1] \in Events /\ p[2] \in Events /\ p = <<p[1], p[2]>>
  OBVIOUS
<1>4. \A p \in others : p \in order /\ p[1] # e /\ p[2] # e
  OBVIOUS
<1>5. \A p \in order : p[1] # e /\ p[2] # e => p \in others
  OBVIOUS
<1>6. \A p \in others : <<p[1], p[1]>> \in others /\ <<p[2], p[2]>> \in others
  BY <1>3, <1>4, <1>5 DEF Reflexive
<1> HIDE DEF e, others, new
<1>7. \A p : p \in new <=>
          \/ p \in others
          \/ \E q \in others : p = <<q[1], e>>
          \/ p = <<e, e>>
  BY <1>2
<1>8. new \in SUBSET (Events \X Events)
  <2> SUFFICES ASSUME NEW p \in new PROVE p \in Events \X Events
    OBVIOUS
  <2>1. CASE p \in others
    BY <2>1, <1>4
  <2>2. ASSUME NEW q \in others, p = <<q[1], e>> PROVE p \in Events \X Events
    BY <2>2, <1>1, <1>3, <1>4
  <2>3. CASE p = <<e, e>>
    BY <2>3, <1>1
  <2> QED
    BY <1>7, <2>1, <2>2, <2>3
<1>9. Reflexive(new)
  <2> SUFFICES ASSUME NEW p \in new
               PROVE  <<p[1], p[1]>> \in new /\ <<p[2], p[2]>> \in new
    BY DEF Reflexive
  <2>1. <<e, e>> \in new
    BY <1>7
  <2>2. CASE p \in others
    BY <2>2, <1>6, <1>7
  <2>3. ASSUME NEW q \in others, p = <<q[1], e>>
        PROVE  <<p[1], p[1]>> \in new /\ <<p[2], p[2]>> \in new
    <3>1. p[1] = q[1] /\ p[2] = e
      BY <2>3
    <3>2. <<q[1], q[1]>> \in new
      BY <1>6, <1>7
    <3> QED
      BY <2>1, <3>1, <3>2
  <2>4. CASE p = <<e, e>>
    BY <2>1, <2>4
  <2> QED
    BY <1>7, <2>2, <2>3, <2>4
<1>10. ASSUME NEW b \in Actions
       PROVE  (\E p \in new : p[2].action = b) <=>
                 (\E p \in order : p[2].action = b) \/ b = a
  <2>1. CASE b = a
    <3>1. <<e, e>> \in new
      BY <1>7
    <3>2. <<e, e>>[2].action = b
      BY <2>1, <1>1
    <3> QED
      BY <2>1, <3>1, <3>2
  <2>2. ASSUME b # a, NEW p \in order, p[2].action = b
        PROVE  \E q \in new : q[2].action = b
    <3>1. p[2] # e /\ <<p[2], p[2]>> \in order
      BY <1>1, <2>2 DEF Reflexive
    <3>2. <<p[2], p[2]>> \in others /\ <<p[2], p[2]>>[2] = p[2]
      BY <1>5, <3>1
    <3> QED
      BY <1>7, <2>2, <3>2
  <2>3. ASSUME b # a, NEW p \in new, p[2].action = b
        PROVE  p \in order
    <3>1. ~ \E q \in others : p = <<q[1], e>>
      BY <1>1, <2>3
    <3>2. p # <<e, e>>
      BY <1>1, <2>3
    <3> QED
      BY <1>4, <1>7, <3>1, <3>2
  <2> QED
    BY <2>1, <2>2, <2>3
<1>11. ASSUME NEW b \in Actions, NEW c \in Actions, b # c,
              \A p \in order : ~(p[1].action = c /\ p[2].action = b),
              b = a => ~ \E p \in order : p[2].action = c,
              NEW p \in new, p[1].action = c, p[2].action = b
       PROVE  FALSE
  <2>1. CASE p \in others
    BY <1>4, <1>11, <2>1
  <2>2. ASSUME NEW q \in others, p = <<q[1], e>> PROVE FALSE
    <3>1. b = a /\ q[1].action = c
      BY <1>1, <1>11, <2>2
    <3>2. <<q[1], q[1]>> \in order /\ <<q[1], q[1]>>[2] = q[1]
      BY <1>4, <1>6
    <3> QED
      BY <1>11, <3>1, <3>2
  <2>3. CASE p = <<e, e>>
    BY <1>11, <2>3
  <2> QED
    BY <1>7, <2>1, <2>2, <2>3
<1> QED
  BY <1>8, <1>9, <1>10, <1>11 DEF new

(* A step that adds records of these actions to message m, and no other. *)
Added(m, actions) ==
    /\ recs' \in [Msgs \cup {Answer} -> SUBSET (Events \X Events)]
    /\ \A n \in Msgs \cup {Answer} : Reflexive(recs'[n])
    /\ \A n \in Msgs \cup {Answer} : n # m => recs'[n] = recs[n]
    /\ \A b \in Actions : Has(m, b)' <=> Has(m, b) \/ b \in actions
    /\ \A b, c \in Actions :
          /\ b # c
          /\ Precedes(m, b, c)
          /\ b \in actions => c \notin actions /\ ~Has(m, c)
          => Precedes(m, b, c)'

LEMMA RecordAdds ==
  ASSUME TypeOK, \A n \in Msgs \cup {Answer} : Reflexive(recs[n]),
         NEW m \in Msgs \cup {Answer}, NEW a \in Actions, NEW size \in 1 .. MsgSize,
         Record(m, a, size)
  PROVE  Added(m, {a})
<1> DEFINE new == After(recs[m], a, size)
<1>1. recs[m] \in SUBSET (Events \X Events) /\ Reflexive(recs[m])
  BY DEF TypeOK
<1>2. recs' = [recs EXCEPT ![m] = new]
  BY DEF Record
<1>3. /\ new \in SUBSET (Events \X Events)
      /\ Reflexive(new)
      /\ \A b \in Actions :
            (\E p \in new : p[2].action = b) <=>
               (\E p \in recs[m] : p[2].action = b) \/ b = a
      /\ \A b, c \in Actions :
            /\ b # c
            /\ \A p \in recs[m] : ~(p[1].action = c /\ p[2].action = b)
            /\ b = a => ~ \E p \in recs[m] : p[2].action = c
            => \A p \in new : ~(p[1].action = c /\ p[2].action = b)
  BY <1>1, AfterFacts
<1> HIDE DEF new
<1>4. recs'[m] = new /\ \A n \in Msgs \cup {Answer} : n # m => recs'[n] = recs[n]
  BY <1>2 DEF TypeOK
<1>5. recs' \in [Msgs \cup {Answer} -> SUBSET (Events \X Events)]
  BY <1>2, <1>3 DEF TypeOK
<1>6. \A n \in Msgs \cup {Answer} : Reflexive(recs'[n])
  BY <1>3, <1>4
<1>7. \A b \in Actions : Has(m, b)' <=> Has(m, b) \/ b \in {a}
  BY <1>3, <1>4 DEF Has
<1>8. \A b, c \in Actions :
          /\ b # c
          /\ Precedes(m, b, c)
          /\ b \in {a} => c \notin {a} /\ ~Has(m, c)
          => Precedes(m, b, c)'
  BY <1>3, <1>4 DEF Precedes, Has
<1> QED
  BY <1>4, <1>5, <1>6, <1>7, <1>8 DEF Added

LEMMA ForwardAdds ==
  ASSUME TypeOK, \A n \in Msgs \cup {Answer} : Reflexive(recs[n]),
         NEW d \in Datagrams, ForwardTo(d)
  PROVE  Added(d.msg, {"server.rcv", "server.snd_begin"})
<1> DEFINE m == d.msg
           size == NumBytes(d)
           mid == After(recs[m], "server.rcv", size)
           new == After(mid, "server.snd_begin", size)
<1>1. /\ m \in Msgs \cup {Answer} /\ size \in 1 .. MsgSize
      /\ recs[m] \in SUBSET (Events \X Events) /\ Reflexive(recs[m])
      /\ "server.rcv" \in Actions /\ "server.snd_begin" \in Actions
  BY ConstantFacts DEF TypeOK, Datagrams, NumBytes, Actions
<1>2. recs' = [recs EXCEPT ![m] = new]
  BY DEF ForwardTo
<1> HIDE DEF m, size
<1>3. /\ mid \in SUBSET (Events \X Events)
      /\ Reflexive(mid)
      /\ \A b \in Actions :
            (\E p \in mid : p[2].action = b) <=>
               (\E p \in recs[m] : p[2].action = b) \/ b = "server.rcv"
      /\ \A b, c \in Actions :
            /\ b # c
            /\ \A p \in recs[m] : ~(p[1].action = c /\ p[2].action = b)
            /\ b = "server.rcv" => ~ \E p \in recs[m] : p[2].action = c
            => \A p \in mid : ~(p[1].action = c /\ p[2].action = b)
  BY <1>1, AfterFacts
<1> HIDE DEF mid
<1>4. /\ new \in SUBSET (Events \X Events)
      /\ Reflexive(new)
      /\ \A b \in Actions :
            (\E p \in new : p[2].action = b) <=>
               (\E p \in mid : p[2].action = b) \/ b = "server.snd_begin"
      /\ \A b, c \in Actions :
            /\ b # c
            /\ \A p \in mid : ~(p[1].action = c /\ p[2].action = b)
            /\ b = "server.snd_begin" => ~ \E p \in mid : p[2].action = c
            => \A p \in new : ~(p[1].action = c /\ p[2].action = b)
  BY <1>1, <1>3, AfterFacts
<1> HIDE DEF new
<1>5. recs'[m] = new /\ \A n \in Msgs \cup {Answer} : n # m => recs'[n] = recs[n]
  BY <1>1, <1>2 DEF TypeOK
<1>6. recs' \in [Msgs \cup {Answer} -> SUBSET (Events \X Events)]
  BY <1>2, <1>4 DEF TypeOK
<1>7. \A n \in Msgs \cup {Answer} : Reflexive(recs'[n])
  BY <1>4, <1>5
<1>8. \A b \in Actions : Has(m, b)' <=> Has(m, b) \/ b \in {"server.rcv", "server.snd_begin"}
  BY <1>3, <1>4, <1>5 DEF Has
<1>9. ASSUME NEW b \in Actions, NEW c \in Actions, b # c, Precedes(m, b, c),
             b \in {"server.rcv", "server.snd_begin"} =>
                c \notin {"server.rcv", "server.snd_begin"} /\ ~Has(m, c)
      PROVE  Precedes(m, b, c)'
  <2>1. \A p \in mid : ~(p[1].action = c /\ p[2].action = b)
    BY <1>3, <1>9 DEF Precedes, Has
  <2>2. b = "server.snd_begin" => ~ \E p \in mid : p[2].action = c
    BY <1>3, <1>9 DEF Has
  <2>3. \A p \in new : ~(p[1].action = c /\ p[2].action = b)
    BY <1>4, <1>9, <2>1, <2>2
  <2> QED
    BY <1>5, <2>3 DEF Precedes
<1>10. Added(m, {"server.rcv", "server.snd_begin"})
  BY <1>5, <1>6, <1>7, <1>8, <1>9 DEF Added
<1> QED
  BY <1>10 DEF m

-----------------------------------------------------------------------------
LEMMA InitIInv == Init => IInv
<1> SUFFICES ASSUME Init PROVE IInv
  OBVIOUS
<1> USE ConstantFacts DEF Init
<1>1. TypeOK
  <2>1. recs \in [Msgs \cup {Answer} -> SUBSET (Events \X Events)]
    OBVIOUS
  <2>2. pos \in Idle .. NumPerRound - 1 /\ round_index \in 0 .. NumRounds
    BY DEF Idle
  <2>3. serv \in [Programs -> {"unused", "queued", "live"}]
    OBVIOUS
  <2>4. net \subseteq Datagrams
    OBVIOUS
  <2> QED
    BY <2>1, <2>2, <2>3, <2>4 DEF TypeOK
<1>2. \A m \in Msgs \cup {Answer} : recs[m] = {}
  OBVIOUS
<1>3. \A m \in Msgs : \A a : ~Has(m, a)
  BY <1>2 DEF Has
<1>4. \A m \in Msgs : \A a, b : Precedes(m, a, b)
  BY <1>2 DEF Precedes
<1>5. PlaceInv /\ FreshInv /\ TraceInv
  BY <1>3 DEF PlaceInv, FreshInv, TraceInv, Idle
<1>6. RecordsTruthful /\ LatencyNotNegative
  BY <1>3, <1>4 DEF RecordsTruthful, LatencyNotNegative
<1> QED
  BY <1>1, <1>2, <1>5, <1>6 DEF IInv, Reflexive

(* A step that records and sends nothing. *)
LEMMA QuietStep ==
  ASSUME IInv, TypeOK', PlaceInv', UNCHANGED <<net, recs>>,
         Failed => Failed',
         Failed' => UNCHANGED InRound,
         ~Failed' => Frontier' >= Frontier /\ Frontier' \in Nat
  PROVE  IInv'
<1>1. \A m \in Msgs \cup {Answer} : Reflexive(recs'[m])
  BY DEF IInv
<1>2. \A m, a : Has(m, a)' <=> Has(m, a)
  BY DEF Has
<1>3. \A m, a, b : Precedes(m, a, b)' <=> Precedes(m, a, b)
  BY DEF Precedes
<1>4. TraceInv' /\ RecordsTruthful'
  BY <1>2 DEF IInv, TraceInv, RecordsTruthful
<1>5. FreshInv'
  <2> SUFFICES ASSUME ~Failed'
               PROVE  /\ \A d \in net' : d.msg < Frontier'
                      /\ \A m \in Msgs : m >= Frontier' =>
                            ~Has(m, "upstream.rcv")' /\ ~Has(m, "client.snd_end")'
    BY DEF FreshInv
  <2>1. ~Failed /\ Frontier \in Nat /\ Frontier' \in Nat /\ Frontier' >= Frontier
    BY FrontierNat DEF IInv
  <2>2. \A d \in net : d.msg \in Int
    BY ConstantFacts DEF IInv, TypeOK, Datagrams, Msgs, Answer
  <2>3. \A m \in Msgs : m \in Nat
    BY ConstantFacts DEF Msgs
  <2> QED
    BY <1>2, <2>1, <2>2, <2>3 DEF IInv, FreshInv
<1>6. LatencyNotNegative'
  <2> SUFFICES ASSUME NEW m \in Msgs, ~(Failed' /\ m \in InRound')
               PROVE  /\ Precedes(m, "client.snd_begin", "upstream.rcv")'
                      /\ Precedes(m, "client.snd_begin", "client.snd_end")'
    BY DEF LatencyNotNegative
  <2>1. ~(Failed /\ m \in InRound)
    OBVIOUS
  <2> QED
    BY <1>3, <2>1 DEF IInv, LatencyNotNegative
<1> QED
  BY <1>1, <1>4, <1>5, <1>6 DEF IInv

LEMMA AddedFacts ==
  ASSUME NEW m \in Msgs \cup {Answer}, NEW actions, Added(m, actions)
  PROVE  /\ \A n \in Msgs, b \in Actions : Has(n, b) => Has(n, b)'
         /\ \A n \in Msgs, b \in Actions :
               Has(n, b)' => Has(n, b) \/ (n = m /\ b \in actions)
         /\ \A n \in Msgs : n # m => \A b, c : Precedes(n, b, c)' <=> Precedes(n, b, c)
<1>1. \A n \in Msgs : n # m => recs'[n] = recs[n]
  BY DEF Added
<1>2. \A n \in Msgs : n # m => \A b : Has(n, b)' <=> Has(n, b)
  BY <1>1 DEF Has
<1>3. \A n \in Msgs : n # m => \A b, c : Precedes(n, b, c)' <=> Precedes(n, b, c)
  BY <1>1 DEF Precedes
<1> QED
  BY <1>2, <1>3 DEF Added

(* The beginning of a message is recorded before anything else of this try. *)
LEMMA BeginStep ==
  ASSUME IInv, TypeOK', PlaceInv', pos # Idle, ~sent,
         NEW c \in Msgs, c = Current, Record(c, "client.snd_begin", MsgSize),
         UNCHANGED round_index,
         \/ Failed' /\ UNCHANGED net
         \/ /\ ~Failed /\ ~Failed' /\ Frontier' = c + 1
            /\ net' = net \cup {ClientDatagram(c)}
  PROVE  IInv'
<1>1. c \in InRound /\ Frontier = c /\ c \in Nat /\ InRound' = InRound
  BY CurrentFacts DEF IInv, InRound
<1>2. Added(c, {"client.snd_begin"})
  BY <1>1, RecordAdds, ConstantFacts DEF IInv, Actions
<1>3. /\ \A n \in Msgs, b \in Actions : Has(n, b) => Has(n, b)'
      /\ \A n \in Msgs, b \in Actions :
            Has(n, b)' => Has(n, b) \/ (n = c /\ b \in {"client.snd_begin"})
      /\ \A n \in Msgs : n # c => \A a, b : Precedes(n, a, b)' <=> Precedes(n, a, b)
  BY <1>1, <1>2, AddedFacts
<1>4. Has(c, "client.snd_begin")'
  BY <1>2 DEF Added, Actions
<1>5. \A d \in net : d \in net'
  OBVIOUS
<1>6. TraceInv'
  <2> SUFFICES ASSUME NEW d \in net'
               PROVE  /\ d.msg \in Msgs => Has(d.msg, "client.snd_begin")'
                      /\ d.msg \in Msgs /\ d.to = "upstream" =>
                            Has(d.msg, "server.rcv")' /\ Has(d.msg, "server.snd_begin")'
                      /\ d.msg \in Msgs /\ d.to = "server" => d.from = "client"
    BY DEF TraceInv
  <2>1. CASE d \in net
    BY <1>3, <2>1 DEF IInv, TraceInv, Actions
  <2>2. CASE d = ClientDatagram(c)
    <3>1. d.msg = c /\ d.to = "server" /\ d.from = "client"
      BY <2>2 DEF ClientDatagram
    <3> QED
      BY <1>4, <3>1
  <2> QED
    BY <2>1, <2>2
<1>7. RecordsTruthful'
  <2> SUFFICES ASSUME NEW m \in Msgs
               PROVE  /\ Has(m, "client.snd_end")' => ClientDatagram(m) \in net'
                      /\ Has(m, "server.rcv")' => Has(m, "client.snd_begin")'
                      /\ Has(m, "upstream.rcv")' =>
                            Has(m, "server.rcv")' /\ Has(m, "server.snd_begin")'
    BY DEF RecordsTruthful, ClientDatagram
  <2> QED
    BY <1>3, <1>5 DEF IInv, RecordsTruthful, Actions
<1>8. LatencyNotNegative'
  <2> SUFFICES ASSUME NEW m \in Msgs, ~(Failed' /\ m \in InRound)
               PROVE  /\ Precedes(m, "client.snd_begin", "upstream.rcv")'
                      /\ Precedes(m, "client.snd_begin", "client.snd_end")'
    BY <1>1 DEF LatencyNotNegative
  <2>1. CASE m # c
    <3>1. ~(Failed /\ m \in InRound)
      OBVIOUS
    <3> QED
      BY <1>3, <2>1, <3>1 DEF IInv, LatencyNotNegative
  <2>2. CASE m = c
    <3>1. ~Failed /\ m >= Frontier
      BY <1>1, <2>2
    <3>2. ~Has(m, "upstream.rcv") /\ ~Has(m, "client.snd_end")
      BY <3>1 DEF IInv, FreshInv
    <3>3. /\ Precedes(m, "client.snd_begin", "upstream.rcv")
          /\ Precedes(m, "client.snd_begin", "client.snd_end")
      BY <3>1 DEF IInv, LatencyNotNegative
    <3> QED
      BY <1>2, <2>2, <3>2, <3>3 DEF Added, Actions
  <2> QED
    BY <2>1, <2>2
<1>9. FreshInv'
  <2>1. CASE Failed'
    BY <2>1 DEF FreshInv
  <2>2. CASE ~Failed /\ ~Failed' /\ Frontier' = c + 1
             /\ net' = net \cup {ClientDatagram(c)}
    <3>1. \A d \in net' : d.msg < Frontier'
      <4>1. \A d \in net : d.msg < c /\ d.msg \in Int
        BY <1>1, <2>2, ConstantFacts DEF IInv, FreshInv, TypeOK, Datagrams, Msgs, Answer
      <4>2. ClientDatagram(c).msg = c
        BY DEF ClientDatagram
      <4> QED
        BY <1>1, <2>2, <4>1, <4>2
    <3>2. ASSUME NEW m \in Msgs, m >= Frontier'
          PROVE  ~Has(m, "upstream.rcv")' /\ ~Has(m, "client.snd_end")'
      <4>1. m \in Nat /\ m >= Frontier
        BY <1>1, <2>2, <3>2, ConstantFacts DEF Msgs
      <4>2. ~Has(m, "upstream.rcv") /\ ~Has(m, "client.snd_end")
        BY <2>2, <4>1 DEF IInv, FreshInv
      <4> QED
        BY <1>3, <4>2 DEF Actions
    <3> QED
      BY <3>1, <3>2 DEF FreshInv
  <2> QED
    BY <2>1, <2>2
<1> QED
  BY <1>2, <1>6, <1>7, <1>8, <1>9 DEF IInv, Added

LEMMA SendBeginStep ==
  ASSUME IInv, TypeOK', PlaceInv', SendBegin
  PROVE  IInv'
<1>1. /\ pos # Idle /\ ~sent /\ Record(Current, "client.snd_begin", MsgSize)
      /\ UNCHANGED round_index
  BY DEF SendBegin
<1>2. PICK c \in Msgs : c = Current
  BY <1>1, CurrentFacts DEF IInv
<1>3. Record(c, "client.snd_begin", MsgSize)
  BY <1>1, <1>2
<1>4. CASE Sendto
  <2>1. ~Failed /\ ~Failed' /\ pos' = pos /\ sent' /\ net' = net \cup {ClientDatagram(c)}
    BY <1>2, <1>4 DEF Sendto, Failed
  <2>2. Frontier' = c + 1
    BY <1>1, <1>2, <2>1 DEF Frontier, Current
  <2> QED
    BY <1>1, <1>2, <1>3, <2>1, <2>2, BeginStep
<1>5. CASE SendFailed
  <2>1. Failed' /\ UNCHANGED net
    BY <1>5 DEF SendFailed, Failed
  <2> QED
    BY <1>1, <1>2, <1>3, <2>1, BeginStep
<1> QED
  BY <1>4, <1>5 DEF SendBegin

LEMMA CrashStep ==
  ASSUME IInv, TypeOK', PlaceInv', Crash
  PROVE  IInv'
<1>1. /\ pos # Idle /\ Record(Current, "client.snd_begin", MsgSize)
      /\ UNCHANGED <<round_index, net>> /\ Failed'
  BY DEF Crash, Failed
<1>2. ~sent
  BY DEF Crash, IInv, PlaceInv
<1>3. PICK c \in Msgs : c = Current
  BY <1>1, CurrentFacts DEF IInv
<1>4. Record(c, "client.snd_begin", MsgSize)
  BY <1>1, <1>3
<1> QED
  BY <1>1, <1>2, <1>3, <1>4, BeginStep

(***************************************************************************)
(* A step that adds records of what happened after the beginning of a      *)
(* message, and perhaps a datagram.                                        *)
(***************************************************************************)
LEMMA LaterStep ==
  ASSUME IInv, TypeOK', PlaceInv', UNCHANGED st,
         ~Failed => Frontier' = Frontier,
         Failed => UNCHANGED InRound,
         NEW m \in Msgs \cup {Answer}, NEW actions \in SUBSET (Actions \ {"client.snd_begin"}),
         Added(m, actions),
         m \in Msgs /\ ~Failed => m < Frontier,
         m \in Msgs => Has(m, "client.snd_begin"),
         "client.snd_end" \in actions => ClientDatagram(m) \in net,
         m \in Msgs /\ "upstream.rcv" \in actions =>
            Has(m, "server.rcv") /\ Has(m, "server.snd_begin"),
         net \subseteq net',
         \A d \in net' \ net :
            /\ d.msg = m /\ d.to = "upstream"
            /\ {"server.rcv", "server.snd_begin"} \subseteq actions
  PROVE  IInv'
<1> DEFINE later == Actions \ {"client.snd_begin"}
<1>1. /\ \A n \in Msgs, b \in Actions : Has(n, b) => Has(n, b)'
      /\ \A n \in Msgs, b \in Actions :
            Has(n, b)' => Has(n, b) \/ (n = m /\ b \in actions)
      /\ \A n \in Msgs : n # m => \A b, c : Precedes(n, b, c)' <=> Precedes(n, b, c)
  BY AddedFacts
<1>2. \A b \in actions : b \in Actions /\ Has(m, b)'
  BY DEF Added
<1>3. \A b \in later : Precedes(m, "client.snd_begin", b) =>
                            Precedes(m, "client.snd_begin", b)'
  BY DEF Added, Actions
<1>4. TraceInv'
  <2> SUFFICES ASSUME NEW d \in net'
               PROVE  /\ d.msg \in Msgs => Has(d.msg, "client.snd_begin")'
                      /\ d.msg \in Msgs /\ d.to = "upstream" =>
                            Has(d.msg, "server.rcv")' /\ Has(d.msg, "server.snd_begin")'
                      /\ d.msg \in Msgs /\ d.to = "server" => d.from = "client"
    BY DEF TraceInv
  <2>1. CASE d \in net
    BY <1>1, <2>1 DEF IInv, TraceInv, Actions
  <2>2. CASE d \notin net
    <3>1. d.msg = m /\ d.to = "upstream"
          /\ Has(m, "server.rcv")' /\ Has(m, "server.snd_begin")'
      BY <1>2, <2>2
    <3> QED
      BY <1>1, <3>1 DEF Actions
  <2> QED
    BY <2>1, <2>2
<1>5. RecordsTruthful'
  <2> SUFFICES ASSUME NEW n \in Msgs
               PROVE  /\ Has(n, "client.snd_end")' => ClientDatagram(n) \in net'
                      /\ Has(n, "server.rcv")' => Has(n, "client.snd_begin")'
                      /\ Has(n, "upstream.rcv")' =>
                            Has(n, "server.rcv")' /\ Has(n, "server.snd_begin")'
    BY DEF RecordsTruthful, ClientDatagram
  <2>1. /\ Has(n, "client.snd_end") => ClientDatagram(n) \in net
        /\ Has(n, "server.rcv") => Has(n, "client.snd_begin")
        /\ Has(n, "upstream.rcv") => Has(n, "server.rcv") /\ Has(n, "server.snd_begin")
    BY DEF IInv, RecordsTruthful
  <2> QED
    BY <1>1, <2>1 DEF Actions
<1>6. FreshInv'
  <2> SUFFICES ASSUME ~Failed'
               PROVE  /\ \A d \in net' : d.msg < Frontier'
                      /\ \A n \in Msgs : n >= Frontier' =>
                            ~Has(n, "upstream.rcv")' /\ ~Has(n, "client.snd_end")'
    BY DEF FreshInv
  <2>1. ~Failed /\ Frontier' = Frontier /\ Frontier \in Nat
    BY FrontierNat DEF IInv, Failed
  <2>2. m < Frontier
    BY <2>1, ConstantFacts DEF Msgs, Answer
  <2>3. \A d \in net' : d.msg < Frontier'
    BY <2>1, <2>2 DEF IInv, FreshInv
  <2>4. ASSUME NEW n \in Msgs, n >= Frontier'
        PROVE  ~Has(n, "upstream.rcv")' /\ ~Has(n, "client.snd_end")'
    <3>1. n # m
      BY <2>1, <2>2, <2>4, ConstantFacts DEF Msgs
    <3>2. ~Has(n, "upstream.rcv") /\ ~Has(n, "client.snd_end")
      BY <2>1, <2>4 DEF IInv, FreshInv
    <3> QED
      BY <1>1, <3>1, <3>2 DEF Actions
  <2> QED
    BY <2>3, <2>4
<1>7. LatencyNotNegative'
  <2> SUFFICES ASSUME NEW n \in Msgs, ~(Failed' /\ n \in InRound')
               PROVE  /\ Precedes(n, "client.snd_begin", "upstream.rcv")'
                      /\ Precedes(n, "client.snd_begin", "client.snd_end")'
    BY DEF LatencyNotNegative
  <2>1. ~(Failed /\ n \in InRound)
    BY DEF Failed
  <2>2. /\ Precedes(n, "client.snd_begin", "upstream.rcv")
        /\ Precedes(n, "client.snd_begin", "client.snd_end")
    BY <2>1 DEF IInv, LatencyNotNegative
  <2> QED
    BY <1>1, <1>3, <2>2 DEF Actions
<1> QED
  BY <1>4, <1>5, <1>6, <1>7 DEF IInv, Added

LEMMA SendEndStep ==
  ASSUME IInv, TypeOK', PlaceInv', SendEnd
  PROVE  IInv'
<1>1. /\ pos # Idle /\ sent /\ st = "live" /\ ~sent' /\ ~Failed
      /\ ClientDatagram(Current) \in net
      /\ UNCHANGED <<st, net>> /\ NextMessage
      /\ Record(Current, "client.snd_end", MsgSize)
  BY DEF SendEnd, IInv, PlaceInv, Failed
<1>2. /\ Current \in Msgs /\ round_index \in Nat /\ pos \in Nat
      /\ round_index * NumPerRound \in Nat /\ Current \in Nat
      /\ Frontier = Current + 1
  BY <1>1, CurrentFacts DEF IInv
<1>3. PICK c \in Msgs : c = Current
  BY <1>2
<1>4. Added(c, {"client.snd_end"})
  BY <1>1, <1>3, RecordAdds, ConstantFacts DEF IInv, Actions
<1>5. Frontier' = Frontier
  <2>1. CASE pos + 1 = NumPerRound
    <3>1. pos' = Idle /\ round_index' = round_index + 1
      BY <1>1, <2>1 DEF NextMessage
    <3>2. Frontier' = (round_index + 1) * NumPerRound
      BY <3>1 DEF Frontier
    <3>3. (round_index + 1) * NumPerRound = round_index * NumPerRound + NumPerRound
      BY <1>2, NextRound
    <3> QED
      BY <1>2, <2>1, <3>2, <3>3, ConstantFacts DEF Current
  <2>2. CASE pos + 1 # NumPerRound
    <3>1. pos' = pos + 1 /\ round_index' = round_index
      BY <1>1, <2>2 DEF NextMessage
    <3>2. pos' # Idle
      BY <1>2, <3>1 DEF Idle
    <3>3. Frontier' = round_index * NumPerRound + (pos + 1)
      BY <1>1, <1>2, <3>1, <3>2 DEF Frontier, Current
    <3> QED
      BY <1>2, <3>3 DEF Current
  <2> QED
    BY <2>1, <2>2
<1>6. ClientDatagram(c) \in net /\ Has(c, "client.snd_begin")
  <2>1. ClientDatagram(c) \in net /\ ClientDatagram(c).msg = c
    BY <1>1, <1>3 DEF ClientDatagram
  <2> QED
    BY <2>1 DEF IInv, TraceInv
<1>7. c < Frontier
  BY <1>2, <1>3
<1>8. {"client.snd_end"} \in SUBSET (Actions \ {"client.snd_begin"})
  BY DEF Actions
<1> QED
  BY <1>1, <1>4, <1>5, <1>6, <1>7, <1>8, LaterStep

LEMMA ServerStep ==
  ASSUME IInv, TypeOK', PlaceInv', NEW d \in net, server_on_message(d)
  PROVE  IInv'
<1>1. /\ d \in Datagrams /\ d.msg \in Msgs \cup {Answer} /\ d.to = "server"
      /\ NumBytes(d) \in 1 .. MsgSize
      /\ UNCHANGED <<serv, clientvars>>
  BY ConstantFacts DEF server_on_message, IInv, TypeOK, Datagrams, NumBytes
<1>2. Frontier' = Frontier /\ UNCHANGED InRound /\ UNCHANGED st
  BY <1>1 DEF Frontier, Current, InRound, clientvars
<1>3. /\ ~Failed => d.msg < Frontier
      /\ d.msg \in Msgs => Has(d.msg, "client.snd_begin") /\ d.from = "client"
  BY <1>1 DEF IInv, FreshInv, TraceInv
<1>4. CASE FromOther(d) /\ ForwardTo(d)
  <2>1. Added(d.msg, {"server.rcv", "server.snd_begin"})
    BY <1>1, <1>4, ForwardAdds DEF IInv
  <2>2. net \subseteq net' /\ \A e \in net' \ net : e.msg = d.msg /\ e.to = "upstream"
    BY <1>4 DEF ForwardTo, ServerDatagram
  <2>3. {"server.rcv", "server.snd_begin"} \in SUBSET (Actions \ {"client.snd_begin"})
    BY DEF Actions
  <2> QED
    BY <1>1, <1>2, <1>3, <2>1, <2>2, <2>3, LaterStep
<1>5. CASE ~FromOther(d) /\ Record(d.msg, "server.rcv", NumBytes(d)) /\ UNCHANGED net
  <2>1. Added(d.msg, {"server.rcv"})
    BY <1>1, <1>5, RecordAdds DEF IInv, Actions
  <2>2. {"server.rcv"} \in SUBSET (Actions \ {"client.snd_begin"})
    BY DEF Actions
  <2> QED
    BY <1>1, <1>2, <1>3, <1>5, <2>1, <2>2, LaterStep
<1> QED
  BY <1>4, <1>5 DEF server_on_message

LEMMA UpstreamStep ==
  ASSUME IInv, TypeOK', PlaceInv', NEW d \in net, upstream_on_message(d)
  PROVE  IInv'
<1>1. /\ d \in Datagrams /\ d.msg \in Msgs \cup {Answer} /\ d.to = "upstream"
      /\ NumBytes(d) \in 1 .. MsgSize
      /\ UNCHANGED <<serv, clientvars, net>>
      /\ Record(d.msg, "upstream.rcv", NumBytes(d))
  BY ConstantFacts DEF upstream_on_message, IInv, TypeOK, Datagrams, NumBytes
<1>2. Frontier' = Frontier /\ UNCHANGED InRound /\ UNCHANGED st
  BY <1>1 DEF Frontier, Current, InRound, clientvars
<1>3. /\ ~Failed => d.msg < Frontier
      /\ d.msg \in Msgs => /\ Has(d.msg, "client.snd_begin")
                           /\ Has(d.msg, "server.rcv")
                           /\ Has(d.msg, "server.snd_begin")
  BY <1>1 DEF IInv, FreshInv, TraceInv
<1>4. Added(d.msg, {"upstream.rcv"})
  BY <1>1, RecordAdds DEF IInv, Actions
<1>5. {"upstream.rcv"} \in SUBSET (Actions \ {"client.snd_begin"})
  BY DEF Actions
<1> QED
  BY <1>1, <1>2, <1>3, <1>4, <1>5, LaterStep

LEMMA ReplyStep ==
  ASSUME IInv, TypeOK', PlaceInv', Reply
  PROVE  IInv'
<1> DEFINE reply == [from |-> "upstream", to |-> "server", msg |-> Answer,
                     size |-> 1, len |-> 1]
<1>1. net' = net \cup {reply} /\ UNCHANGED <<serv, clientvars, recs>>
  BY DEF Reply
<1>2. /\ \A m, a : Has(m, a)' <=> Has(m, a)
      /\ \A m, a, b : Precedes(m, a, b)' <=> Precedes(m, a, b)
  BY <1>1 DEF Has, Precedes
<1>3. Frontier' = Frontier /\ (Failed' <=> Failed) /\ InRound' = InRound
  BY <1>1 DEF Frontier, Current, Failed, InRound, clientvars
<1>4. reply.msg = Answer /\ Answer \notin Msgs /\ Answer < Frontier
  BY FrontierNat, ConstantFacts DEF IInv, Msgs, Answer
<1> HIDE DEF reply
<1>5. FreshInv' /\ TraceInv'
  BY <1>1, <1>2, <1>3, <1>4 DEF IInv, FreshInv, TraceInv
<1>6. RecordsTruthful'
  BY <1>1, <1>2 DEF IInv, RecordsTruthful, ClientDatagram
<1>7. LatencyNotNegative'
  BY <1>2, <1>3 DEF IInv, LatencyNotNegative
<1> QED
  BY <1>1, <1>5, <1>6, <1>7 DEF IInv, Reflexive

-----------------------------------------------------------------------------
LEMMA TypeStep == TypeOK /\ PlaceInv /\ [Next]_vars => TypeOK'
<1> SUFFICES ASSUME TypeOK, PlaceInv, [Next]_vars PROVE TypeOK'
  OBVIOUS
<1> USE ConstantFacts DEF TypeOK
<1>1. ASSUME NEW p \in Programs, nb_udp_bind(p) PROVE TypeOK'
  BY <1>1 DEF nb_udp_bind, clientvars
<1>2. ASSUME NEW p \in Programs, udp_server_on_add_ctx(p) PROVE TypeOK'
  BY <1>2 DEF udp_server_on_add_ctx, clientvars
<1>3. CASE client_run
  <2>1. 0 \in 0 .. NumRounds
    OBVIOUS
  <2>2. TypeOK'
    BY <1>3, <2>1 DEF client_run
  <2> QED
    BY <2>2
<1>4. CASE udp_client_on_add_ctx
  BY <1>4 DEF udp_client_on_add_ctx
<1>5. CASE Release
  BY <1>5 DEF Release
<1>6. CASE ExitLoop
  BY <1>6 DEF ExitLoop
<1>7. CASE StartRound
  BY <1>7 DEF StartRound, Idle
<1>8. ASSUME NEW m \in Msgs \cup {Answer}, NEW a \in Actions,
             NEW size \in 1 .. MsgSize, Record(m, a, size)
      PROVE  recs' \in [Msgs \cup {Answer} -> SUBSET (Events \X Events)]
  BY <1>8 DEF Record, After, Events
<1>9. /\ \A m \in Msgs : ClientDatagram(m) \in Datagrams
      /\ MsgSize \in 1 .. MsgSize
      /\ \A d \in Datagrams : NumBytes(d) \in 1 .. MsgSize /\ ServerDatagram(d) \in Datagrams
  BY DEF ClientDatagram, ServerDatagram, NumBytes, Datagrams, Programs
<1>10. CASE SendBegin
  <2>1. Current \in Msgs
    BY <1>10, CurrentFacts DEF SendBegin
  <2>2. recs' \in [Msgs \cup {Answer} -> SUBSET (Events \X Events)]
    BY <1>8, <1>9, <1>10, <2>1 DEF SendBegin, Actions
  <2>3. CASE Sendto
    BY <1>9, <1>10, <2>1, <2>2, <2>3 DEF SendBegin, Sendto
  <2>4. CASE SendFailed
    BY <1>10, <2>2, <2>4 DEF SendBegin, SendFailed, Idle
  <2> QED
    BY <1>10, <2>3, <2>4 DEF SendBegin
<1>11. CASE Crash
  <2>1. Current \in Msgs
    BY <1>11, CurrentFacts DEF Crash
  <2>2. recs' \in [Msgs \cup {Answer} -> SUBSET (Events \X Events)]
    BY <1>8, <1>9, <1>11, <2>1 DEF Crash, Actions
  <2> QED
    BY <1>11, <2>2 DEF Crash
<1>12. CASE SendEnd
  <2>1. Current \in Msgs /\ round_index < NumRounds /\ pos < NumPerRound
    BY <1>12, CurrentFacts DEF SendEnd, PlaceInv
  <2>2. recs' \in [Msgs \cup {Answer} -> SUBSET (Events \X Events)]
    BY <1>8, <1>9, <1>12, <2>1 DEF SendEnd, Actions
  <2>3. pos' \in Idle .. NumPerRound - 1 /\ round_index' \in 0 .. NumRounds
    BY <1>12, <2>1 DEF SendEnd, NextMessage, Idle
  <2> QED
    BY <1>12, <2>2, <2>3 DEF SendEnd
<1>13. ASSUME NEW d \in net, server_on_message(d) PROVE TypeOK'
  <2>1. d \in Datagrams /\ d.msg \in Msgs \cup {Answer}
    BY DEF Datagrams
  <2>2. CASE ForwardTo(d)
    <3>1. recs' \in [Msgs \cup {Answer} -> SUBSET (Events \X Events)]
      BY <1>9, <2>1, <2>2 DEF ForwardTo, After, Events, Actions
    <3> QED
      BY <1>9, <1>13, <2>1, <2>2, <3>1 DEF server_on_message, ForwardTo, clientvars
  <2>3. CASE Record(d.msg, "server.rcv", NumBytes(d)) /\ UNCHANGED net
    BY <1>8, <1>9, <1>13, <2>1, <2>3 DEF server_on_message, clientvars, Actions
  <2> QED
    BY <1>13, <2>2, <2>3 DEF server_on_message
<1>14. ASSUME NEW d \in net, upstream_on_message(d) PROVE TypeOK'
  <2>1. d \in Datagrams /\ d.msg \in Msgs \cup {Answer}
    BY DEF Datagrams
  <2> QED
    BY <1>8, <1>9, <1>14, <2>1 DEF upstream_on_message, clientvars, Actions
<1>15. CASE Reply
  BY <1>15 DEF Reply, Datagrams, Programs, clientvars
<1>16. CASE UNCHANGED vars
  BY <1>16 DEF vars, clientvars
<1> QED
  BY <1>1, <1>2, <1>3, <1>4, <1>5, <1>6, <1>7, <1>10, <1>11, <1>12, <1>13, <1>14, <1>15,
     <1>16 DEF Next, server_run, upstream_run, Programs

LEMMA PlaceStep == TypeOK /\ PlaceInv /\ [Next]_vars => PlaceInv'
<1> SUFFICES ASSUME TypeOK, PlaceInv, [Next]_vars PROVE PlaceInv'
  OBVIOUS
<1>1. ASSUME NEW p \in Programs, nb_udp_bind(p) \/ udp_server_on_add_ctx(p)
      PROVE  PlaceInv'
  BY <1>1 DEF nb_udp_bind, udp_server_on_add_ctx, clientvars, PlaceInv, Current
<1>2. CASE client_run
  BY <1>2 DEF client_run, PlaceInv
<1>3. CASE udp_client_on_add_ctx \/ Release \/ ExitLoop \/ StartRound
  BY <1>3 DEF udp_client_on_add_ctx, Release, ExitLoop, StartRound, LoopIdle, PlaceInv, Idle
<1>4. CASE SendBegin
  BY <1>4 DEF SendBegin, Sendto, SendFailed, PlaceInv, Current
<1>5. CASE Crash
  BY <1>5 DEF Crash, PlaceInv
<1>6. CASE SendEnd
  BY <1>6 DEF SendEnd, NextMessage, PlaceInv, Idle
<1>7. ASSUME NEW d \in net, server_on_message(d) \/ upstream_on_message(d)
      PROVE  PlaceInv'
  <2>1. net \subseteq net' /\ UNCHANGED clientvars
    BY <1>7 DEF server_on_message, upstream_on_message, ForwardTo
  <2> QED
    BY <2>1 DEF clientvars, PlaceInv, Current, ClientDatagram
<1>8. CASE Reply
  <2>1. net \subseteq net' /\ UNCHANGED clientvars
    BY <1>8 DEF Reply
  <2> QED
    BY <2>1 DEF clientvars, PlaceInv, Current, ClientDatagram
<1>9. CASE UNCHANGED vars
  BY <1>9 DEF vars, clientvars, PlaceInv, Current, ClientDatagram
<1> QED
  BY <1>1, <1>2, <1>3, <1>4, <1>5, <1>6, <1>7, <1>8, <1>9
     DEF Next, server_run, upstream_run, Programs

LEMMA NextIInv == IInv /\ [Next]_vars => IInv'
<1> SUFFICES ASSUME IInv, [Next]_vars PROVE IInv'
  OBVIOUS
<1>1. TypeOK' /\ PlaceInv'
  BY TypeStep, PlaceStep DEF IInv
<1>2. Frontier \in Nat
  BY FrontierNat DEF IInv
<1>3. CASE /\ UNCHANGED <<net, recs, round_index, pos, sent>>
           /\ Failed <=> Failed'
  <2>1. Frontier' = Frontier /\ InRound' = InRound
    BY <1>3 DEF Frontier, Current, InRound
  <2> QED
    BY <1>1, <1>2, <1>3, <2>1, QuietStep
<1>4. ASSUME NEW p \in Programs, nb_udp_bind(p) \/ udp_server_on_add_ctx(p)
      PROVE  IInv'
  BY <1>3, <1>4 DEF nb_udp_bind, udp_server_on_add_ctx, clientvars, Failed
<1>5. CASE client_run
  <2>1. st = "unused" /\ round_index = 0
    BY <1>5 DEF client_run, IInv, PlaceInv
  <2> QED
    BY <1>3, <1>5, <2>1 DEF client_run, Failed
<1>6. CASE udp_client_on_add_ctx \/ Release \/ ExitLoop
  BY <1>3, <1>6 DEF udp_client_on_add_ctx, Release, ExitLoop, Failed
<1>7. CASE StartRound
  <2>1. /\ pos = Idle /\ ~sent /\ pos' = 0 /\ ~sent' /\ round_index < NumRounds
        /\ UNCHANGED <<net, recs, round_index, st>>
    BY <1>7 DEF StartRound, LoopIdle, IInv, PlaceInv
  <2>2. round_index * NumPerRound \in Nat
    BY <2>1, SeqRange, ConstantFacts DEF IInv, TypeOK
  <2>3. Frontier' = Frontier
    BY <2>1, <2>2 DEF Frontier, Current, Idle
  <2> QED
    BY <1>1, <1>2, <2>1, <2>3, QuietStep DEF InRound, Failed
<1>8. CASE SendBegin
  BY <1>1, <1>8, SendBeginStep
<1>9. CASE Crash
  BY <1>1, <1>9, CrashStep
<1>10. CASE SendEnd
  BY <1>1, <1>10, SendEndStep
<1>11. ASSUME NEW d \in net, server_on_message(d) PROVE IInv'
  BY <1>1, <1>11, ServerStep
<1>12. ASSUME NEW d \in net, upstream_on_message(d) PROVE IInv'
  BY <1>1, <1>12, UpstreamStep
<1>13. CASE Reply
  BY <1>1, <1>13, ReplyStep
<1>14. CASE UNCHANGED vars
  BY <1>3, <1>14 DEF vars, clientvars, Failed
<1> QED
  BY <1>4, <1>5, <1>6, <1>7, <1>8, <1>9, <1>10, <1>11, <1>12, <1>13, <1>14
     DEF Next, server_run, upstream_run, Programs

LEMMA Inductive == Spec => []IInv
<1> QED
  BY InitIInv, NextIInv, PTL DEF Spec

-----------------------------------------------------------------------------
(* The state of the three programs and of the network has its type. *)
THEOREM UdpTypeCorrect == Spec => []TypeOK
<1>1. IInv => TypeOK
  BY DEF IInv
<1> QED
  BY <1>1, Inductive, PTL

(***************************************************************************)
(* What the records say has happened has happened, and everything before   *)
(* it too: whatever the network loses, repeats or reorders.                *)
(***************************************************************************)
THEOREM RecordsTruthfulHolds == Spec => []RecordsTruthful
<1>1. IInv => RecordsTruthful
  BY DEF IInv
<1> QED
  BY <1>1, Inductive, PTL

(***************************************************************************)
(* Outside the round whose sendto failed the analysis takes no time of     *)
(* receiving that is before the time of sending.                           *)
(***************************************************************************)
THEOREM LatencyNotNegativeHolds == Spec => []LatencyNotNegative
<1>1. IInv => LatencyNotNegative
  BY DEF IInv
<1> QED
  BY <1>1, Inductive, PTL

(* The client sends no message twice: a round is retried on a dead socket. *)
THEOREM NoRepeatHolds == Spec => NoRepeat
<1>1. ASSUME IInv, [Next]_vars
      PROVE  [~sent /\ sent' => ClientDatagram(Current) \notin net]_vars
  <2> SUFFICES ASSUME Next, ~sent, sent', ClientDatagram(Current) \in net
               PROVE  FALSE
    BY <1>1
  <2>1. SendBegin /\ st = "live" /\ pos # Idle /\ Current \in Msgs /\ Current \in Nat
        /\ Frontier = Current
    <3>1. SendBegin /\ Sendto
      BY DEF Next, server_run, upstream_run, nb_udp_bind, udp_server_on_add_ctx, client_run,
             udp_client_on_add_ctx, Release, ExitLoop, StartRound, SendBegin, SendFailed,
             Crash, SendEnd, server_on_message, upstream_on_message, Reply, clientvars
    <3>2. st = "live" /\ pos # Idle
      BY <3>1 DEF SendBegin, Sendto
    <3> QED
      BY <1>1, <3>1, <3>2, CurrentFacts DEF IInv
  <2>2. ~Failed
    BY <2>1 DEF Failed
  <2>3. ClientDatagram(Current).msg < Frontier
    BY <1>1, <2>2 DEF IInv, FreshInv
  <2> QED
    BY <2>1, <2>3 DEF ClientDatagram
<1> QED
  BY <1>1, Inductive, PTL DEF Spec, NoRepeat

(* A datagram is as long as its header says, when it fits the buffers. *)
LengthInv == \A d \in net : d.len = d.size

(***************************************************************************)
(* The assertion of the on_message callbacks holds for every message size  *)
(* up to the size of the buffer.                                           *)
(***************************************************************************)
THEOREM AssertLengthFits == MsgSize <= BufSize => (Spec => []AssertLength)
<1> SUFFICES ASSUME MsgSize <= BufSize PROVE Spec => []AssertLength
  OBVIOUS
<1>1. Init => LengthInv
  BY DEF Init, LengthInv
<1>2. TypeOK /\ LengthInv /\ [Next]_vars => LengthInv'
  <2> SUFFICES ASSUME TypeOK, LengthInv, [Next]_vars, NEW d \in net', d \notin net
               PROVE  d.len = d.size
    BY DEF LengthInv
  <2>1. ASSUME NEW e \in net PROVE NumBytes(e) = e.size
    BY <2>1, ConstantFacts DEF TypeOK, Datagrams, LengthInv, NumBytes
  <2>2. CASE SendBegin
    BY <2>2 DEF SendBegin, Sendto, SendFailed, ClientDatagram
  <2>3. ASSUME NEW e \in net, server_on_message(e) PROVE d.len = d.size
    BY <2>1, <2>3 DEF server_on_message, ForwardTo, ServerDatagram
  <2>4. CASE Reply
    BY <2>4 DEF Reply
  <2> QED
    BY <2>2, <2>3, <2>4
       DEF Next, server_run, upstream_run, nb_udp_bind, udp_server_on_add_ctx, client_run,
           udp_client_on_add_ctx, Release, ExitLoop, StartRound, Crash, SendEnd,
           upstream_on_message, vars
<1>3. TypeOK /\ LengthInv => AssertLength
  BY ConstantFacts DEF TypeOK, Datagrams, LengthInv, NumBytes, AssertLength
<1> QED
  BY <1>1, <1>2, <1>3, UdpTypeCorrect, PTL DEF Spec
=============================================================================
