-------------------------- MODULE TcpPipelineProofs --------------------------
(***************************************************************************)
(* Proofs about TcpPipeline, for every number of rounds, messages,         *)
(* connections of the client and links of the server.                      *)
(***************************************************************************)
EXTENDS TcpPipeline, FiniteSetTheorems, TLAPS

Frame   == [seq : Msgs, whole : BOOLEAN]
Place   == Conns \X Nat
Actions == {"client.snd_begin", "client.snd_end", "upstream.rcv"}

(* The variables have their types, as far as the proofs need them. *)
PipelineTypeOK ==
    /\ up \in BOOLEAN
    /\ round \in 0 .. NumRounds
    /\ pos \in 0 .. NumPerRound - 1
    /\ out \in Seq(Seq(Frame))
    /\ Len(out) \in 0 .. MaxConn
    /\ cur \in Msgs
    /\ taken \in [Conns -> Nat]
    /\ log \in Seq(Seq(Place))
    /\ handled \in [Links -> Nat]
    /\ parsing \in Links \cup {NoLink}
    /\ batch \in Nat
    /\ recs \in [Msgs -> Seq(Actions)]

(***************************************************************************)
(* A message that was begun is the one the client will write next, on the  *)
(* connection that was up then.                                            *)
(***************************************************************************)
ClientInv ==
    /\ up => out # <<>>
    /\ stage = "begun" => up /\ round < NumRounds /\ cur = Client!Current

(* The frames that were written on connection s. *)
Written(s) == IF s \in DOMAIN out THEN Len(out[s]) ELSE 0

(***************************************************************************)
(* The server has taken frames that were written, and what it relays names *)
(* them: a frame is at one place of one link at most.                      *)
(***************************************************************************)
ServerInv ==
    /\ link # "down" => log # <<>>
    /\ \A s \in Conns : taken[s] <= Written(s)
    /\ \A k \in DOMAIN log : \A i \in DOMAIN log[k] :
          log[k][i][2] \in 1 .. taken[log[k][i][1]]
    /\ \A k, l \in DOMAIN log : \A i \in DOMAIN log[k], j \in DOMAIN log[l] :
          log[k][i] = log[l][j] => k = l /\ i = j

(* The upstream handles what is on the link, the batch it has read first. *)
UpstreamInv ==
    /\ arrived = OnLinks
    /\ \A k \in Links : handled[k] <= Len(OnLink(k))
    /\ parsing # NoLink =>
          handled[parsing] < batch /\ batch <= Len(OnLink(parsing))

(* The frames of message m, one for each try that got to the socket ... *)
FramesOf(m) ==
    {p \in Place : /\ p[1] \in DOMAIN out /\ p[2] \in DOMAIN out[p[1]]
                   /\ out[p[1]][p[2]].seq = m}

(* ... and those of them that the upstream has handled. *)
HandledOf(m) ==
    {p \in FramesOf(m) :
        \E k \in Links : \E i \in 1 .. handled[k] :
            k \in DOMAIN log /\ i \in DOMAIN log[k] /\ log[k][i] = p}

(***************************************************************************)
(* Each frame was begun, a message that is begun and not yet written once  *)
(* more; and each receipt is that of a frame of its own.                   *)
(***************************************************************************)
CountInv ==
    \A m \in Msgs :
        /\ IsFiniteSet(FramesOf(m))
        /\ Cardinality(FramesOf(m)) + (IF stage = "begun" /\ cur = m THEN 1 ELSE 0)
              <= Count(m, "client.snd_begin")
        /\ Count(m, "upstream.rcv") <= Cardinality(HandledOf(m))

IInv == PipelineTypeOK /\ ClientInv /\ ServerInv /\ UpstreamInv /\ CountInv

-----------------------------------------------------------------------------
LEMMA ConstantFacts ==
    /\ NumRounds \in Nat /\ NumRounds > 0
    /\ NumPerRound \in Nat /\ NumPerRound > 0
    /\ MaxConn \in Nat /\ MaxConn > 0
    /\ MaxLink \in Nat /\ MaxLink > 0
    /\ NoLink \notin Links
    /\ NumRounds * NumPerRound \in Nat
BY PipelineAssumption, UpstreamAssumption

(* A message of a round that is left has a number below the last one's. *)
LEMMA SeqRange ==
  ASSUME NEW r \in Nat, NEW p \in Nat, r < NumRounds, p < NumPerRound
  PROVE  r * NumPerRound + p \in Msgs
<1>1. PICK n \in Nat, q \in Nat : n = NumPerRound /\ q = NumRounds
  BY ConstantFacts
<1>2. r * n + p \in Nat /\ r * n + p < q * n
  BY <1>1, SMT
<1>3. r * n + p \in 0 .. q * n - 1
  BY <1>1, <1>2, SMT
<1> QED
  BY <1>1, <1>3, ConstantFacts DEF Msgs

LEMMA ZeroMsg == 0 \in Msgs
BY SeqRange, ConstantFacts

LEMMA AppendFacts ==
  ASSUME NEW S, NEW s \in Seq(S), NEW e \in S, NEW t, t = Append(s, e)
  PROVE  /\ DOMAIN s = 1 .. Len(s) /\ Len(s) \in Nat
         /\ t \in Seq(S)
         /\ Len(t) = Len(s) + 1 /\ DOMAIN t = 1 .. Len(t)
         /\ t[Len(s) + 1] = e
         /\ \A i \in DOMAIN s : i \in DOMAIN t /\ t[i] = s[i]
OBVIOUS

(* The last sequence of a sequence of sequences gets one element more. *)
LEMMA PutFacts ==
  ASSUME NEW S, NEW t \in Seq(Seq(S)), t # <<>>, NEW e \in S,
         NEW u, u = [t EXCEPT ![Len(t)] = Append(@, e)]
  PROVE  /\ Len(t) \in DOMAIN t /\ DOMAIN t = 1 .. Len(t) /\ DOMAIN u = DOMAIN t
         /\ u \in Seq(Seq(S)) /\ Len(u) = Len(t)
         /\ \A k \in DOMAIN t :
               /\ t[k] \in Seq(S) /\ u[k] \in Seq(S)
               /\ DOMAIN t[k] = 1 .. Len(t[k]) /\ DOMAIN u[k] = 1 .. Len(u[k])
               /\ Len(t[k]) \in Nat
               /\ Len(u[k]) = IF k = Len(t) THEN Len(t[k]) + 1 ELSE Len(t[k])
               /\ \A i \in DOMAIN t[k] : i \in DOMAIN u[k] /\ u[k][i] = t[k][i]
         /\ u[Len(t)][Len(t[Len(t)]) + 1] = e
<1>1. Len(t) \in Nat /\ DOMAIN t = 1 .. Len(t) /\ Len(t) # 0
  OBVIOUS
<1>2. Len(t) \in DOMAIN t
  BY <1>1
<1>3. PICK n \in DOMAIN t : n = Len(t)
  BY <1>2
<1>4. PICK s \in Seq(S) : s = t[n]
  BY <1>3
<1>5. PICK a : a = Append(s, e)
  OBVIOUS
<1>6. /\ DOMAIN s = 1 .. Len(s) /\ Len(s) \in Nat
      /\ a \in Seq(S)
      /\ Len(a) = Len(s) + 1 /\ DOMAIN a = 1 .. Len(a)
      /\ a[Len(s) + 1] = e
      /\ \A i \in DOMAIN s : i \in DOMAIN a /\ a[i] = s[i]
  BY <1>5, AppendFacts
<1>8. u = [t EXCEPT ![n] = a]
  BY <1>3, <1>4, <1>5
<1>9. u \in Seq(Seq(S)) /\ Len(u) = Len(t) /\ DOMAIN u = DOMAIN t
  BY <1>6, <1>8
<1>10. ASSUME NEW k \in DOMAIN t
       PROVE  /\ t[k] \in Seq(S) /\ u[k] \in Seq(S)
              /\ DOMAIN t[k] = 1 .. Len(t[k]) /\ DOMAIN u[k] = 1 .. Len(u[k])
              /\ Len(t[k]) \in Nat
              /\ Len(u[k]) = IF k = n THEN Len(t[k]) + 1 ELSE Len(t[k])
              /\ \A i \in DOMAIN t[k] : i \in DOMAIN u[k] /\ u[k][i] = t[k][i]
  <2>1. CASE k = n
    <3>1. t[k] = s /\ u[k] = a
      BY <1>4, <1>8, <2>1
    <3> QED
      BY <1>6, <2>1, <3>1
  <2>2. CASE k # n
    <3>1. u[k] = t[k] /\ t[k] \in Seq(S)
      BY <1>8, <2>2
    <3> QED
      BY <2>2, <3>1
  <2> QED
    BY <2>1, <2>2
<1>11. u[n][Len(s) + 1] = e
  BY <1>4, <1>6, <1>8
<1> QED
  BY <1>1, <1>2, <1>3, <1>4, <1>9, <1>10, <1>11

Times(b, s) == Cardinality({i \in DOMAIN s : s[i] = b})

(* A record more is one more of its own kind. *)
LEMMA TimesAppend ==
  ASSUME NEW s \in Seq(Actions), NEW a \in Actions, NEW b,
         NEW t, t = Append(s, a)
  PROVE  /\ Times(b, s) \in Nat
         /\ a = b => Times(b, t) = Times(b, s) + 1
         /\ a # b => Times(b, t) = Times(b, s)
<1> DEFINE I == {i \in DOMAIN s : s[i] = b}
           J == {i \in DOMAIN t : t[i] = b}
           n == Len(s) + 1
<1>0. Times(b, s) = Cardinality(I) /\ Times(b, t) = Cardinality(J)
  BY DEF Times
<1>1. /\ DOMAIN s = 1 .. Len(s) /\ Len(s) \in Nat
      /\ DOMAIN t = 1 .. Len(s) + 1
      /\ t[Len(s) + 1] = a
      /\ \A i \in 1 .. Len(s) : t[i] = s[i]
  BY AppendFacts
<1>2. IsFiniteSet(I) /\ Cardinality(I) \in Nat
  <2>1. IsFiniteSet(1 .. Len(s)) /\ I \in SUBSET (1 .. Len(s))
    BY <1>1, FS_Interval
  <2> QED
    BY <2>1, FS_Subset, FS_CardinalityType
<1>3. n \notin I
  BY <1>1
<1>4. CASE a = b
  <2>1. J = I \cup {n}
    BY <1>1, <1>4
  <2> HIDE DEF I, J
  <2> QED
    BY <1>0, <1>2, <1>3, <1>4, <2>1, FS_AddElement
<1>5. CASE a # b
  <2>1. J = I
    BY <1>1, <1>5
  <2> HIDE DEF I, J
  <2> QED
    BY <1>0, <1>2, <1>5, <2>1
<1> QED
  BY <1>4, <1>5

LEMMA OnLinkFacts ==
  ASSUME PipelineTypeOK
  PROVE  /\ DOMAIN log = 1 .. Len(log) /\ Len(log) \in Nat
         /\ \A k : Len(OnLink(k)) \in Nat
         /\ \A k \in DOMAIN log : /\ OnLink(k) = log[k]
                                  /\ log[k] \in Seq(Place)
                                  /\ DOMAIN log[k] = 1 .. Len(log[k])
                                  /\ Len(log[k]) \in Nat
                                  /\ \A i \in DOMAIN log[k] : log[k][i] \in Place
BY DEF PipelineTypeOK, OnLink

LEMMA WrittenFacts ==
  ASSUME PipelineTypeOK
  PROVE  /\ DOMAIN out = 1 .. Len(out) /\ Len(out) \in Nat
         /\ \A s : Written(s) \in Nat
         /\ \A s \in DOMAIN out : /\ s \in Conns
                                  /\ out[s] \in Seq(Frame)
                                  /\ DOMAIN out[s] = 1 .. Written(s)
                                  /\ \A i \in DOMAIN out[s] : out[s][i] \in Frame
<1>1. DOMAIN out = 1 .. Len(out) /\ Len(out) \in Nat /\ Len(out) <= MaxConn
  BY ConstantFacts DEF PipelineTypeOK
<1>2. ASSUME NEW s \in DOMAIN out
      PROVE  /\ s \in Conns
             /\ out[s] \in Seq(Frame)
             /\ DOMAIN out[s] = 1 .. Len(out[s]) /\ Len(out[s]) \in Nat
             /\ \A i \in DOMAIN out[s] : out[s][i] \in Frame
  BY <1>1, ConstantFacts DEF PipelineTypeOK, Conns
<1> QED
  BY <1>1, <1>2 DEF Written

(* A message that the server has taken was written. *)
LEMMA RelayedIsFrame ==
  ASSUME PipelineTypeOK, ServerInv,
         NEW k \in DOMAIN log, NEW i \in DOMAIN log[k],
         NEW m, m = out[log[k][i][1]][log[k][i][2]].seq
  PROVE  log[k][i] \in FramesOf(m) /\ m \in Msgs
<1>1. PICK p \in Place : p = log[k][i]
  BY OnLinkFacts
<1>2. /\ p[1] \in Conns /\ p[2] \in 1 .. taken[p[1]] /\ taken[p[1]] \in Nat
      /\ taken[p[1]] <= Written(p[1]) /\ Written(p[1]) \in Nat
  BY <1>1, WrittenFacts DEF PipelineTypeOK, ServerInv, Place
<1>3. p[1] \in DOMAIN out
  BY <1>2 DEF Written
<1>4. p[2] \in DOMAIN out[p[1]] /\ out[p[1]][p[2]] \in Frame
  BY <1>2, <1>3, WrittenFacts
<1> QED
  BY <1>1, <1>3, <1>4 DEF FramesOf, Frame

(* What was relayed stays where it is, and what was handled stays handled. *)
LogKept ==
    \A k \in DOMAIN log : /\ k \in DOMAIN log'
                          /\ \A i \in DOMAIN log[k] :
                                i \in DOMAIN log'[k] /\ log'[k][i] = log[k][i]

LEMMA HandledGrows ==
  ASSUME NEW m, FramesOf(m) \subseteq FramesOf(m)', LogKept,
         \A k \in Links : handled[k] \in Nat /\ handled'[k] \in Nat /\ handled[k] <= handled'[k]
  PROVE  HandledOf(m) \subseteq HandledOf(m)'
<1> SUFFICES ASSUME NEW p \in HandledOf(m) PROVE p \in HandledOf(m)'
  OBVIOUS
<1>1. p \in FramesOf(m) /\ p \in FramesOf(m)'
  BY DEF HandledOf
<1>2. PICK k \in Links : \E i \in 1 .. handled[k] :
          k \in DOMAIN log /\ i \in DOMAIN log[k] /\ log[k][i] = p
  BY DEF HandledOf
<1>3. PICK i \in 1 .. handled[k] :
          k \in DOMAIN log /\ i \in DOMAIN log[k] /\ log[k][i] = p
  BY <1>2
<1>4. i \in 1 .. handled'[k]
  OBVIOUS
<1>5. k \in DOMAIN log' /\ i \in DOMAIN log'[k] /\ log'[k][i] = p
  BY <1>3 DEF LogKept
<1> QED
  BY <1>1, <1>4, <1>5 DEF HandledOf

LEMMA CountNat ==
  ASSUME PipelineTypeOK, NEW m \in Msgs, NEW b
  PROVE  Count(m, b) \in Nat
<1> DEFINE I == {i \in DOMAIN recs[m] : recs[m][i] = b}
<1>1. recs[m] \in Seq(Actions)
  BY DEF PipelineTypeOK
<1>2. IsFiniteSet(DOMAIN recs[m]) /\ I \in SUBSET DOMAIN recs[m]
  BY <1>1, FS_Interval
<1> QED
  BY <1>2, FS_Subset, FS_CardinalityType DEF Count

(* A step that writes no frame and records nothing. *)
LEMMA CountKept ==
  ASSUME PipelineTypeOK, CountInv, LogKept, UNCHANGED recs,
         \A m : FramesOf(m)' = FramesOf(m),
         \A k \in Links : handled'[k] \in Nat /\ handled[k] <= handled'[k],
         stage' = "begun" => stage = "begun" /\ cur' = cur
  PROVE  CountInv'
<1> SUFFICES ASSUME NEW m \in Msgs
             PROVE  /\ IsFiniteSet(FramesOf(m)')
                    /\ Cardinality(FramesOf(m)')
                          + (IF stage' = "begun" /\ cur' = m THEN 1 ELSE 0)
                          <= Count(m, "client.snd_begin")'
                    /\ Count(m, "upstream.rcv")' <= Cardinality(HandledOf(m)')
  BY DEF CountInv
<1>1. /\ IsFiniteSet(FramesOf(m))
      /\ Cardinality(FramesOf(m)) + (IF stage = "begun" /\ cur = m THEN 1 ELSE 0)
            <= Count(m, "client.snd_begin")
      /\ Count(m, "upstream.rcv") <= Cardinality(HandledOf(m))
      /\ Count(m, "client.snd_begin")' = Count(m, "client.snd_begin")
      /\ Count(m, "upstream.rcv")' = Count(m, "upstream.rcv")
      /\ FramesOf(m)' = FramesOf(m)
  BY DEF CountInv, Count
<1>2. Cardinality(FramesOf(m)) \in Nat
  BY <1>1, FS_CardinalityType
<1>3. HandledOf(m) \subseteq HandledOf(m)' /\ HandledOf(m)' \subseteq FramesOf(m)'
  BY <1>1, HandledGrows DEF PipelineTypeOK, HandledOf
<1>4. /\ Cardinality(HandledOf(m)) <= Cardinality(HandledOf(m)')
      /\ Cardinality(HandledOf(m)) \in Nat /\ Cardinality(HandledOf(m)') \in Nat
  <2>1. IsFiniteSet(HandledOf(m)')
    BY <1>1, <1>3, FS_Subset
  <2>2. IsFiniteSet(HandledOf(m))
    BY <1>3, <2>1, FS_Subset
  <2> QED
    BY <1>3, <2>1, <2>2, FS_Subset, FS_CardinalityType
<1>5. Count(m, "client.snd_begin") \in Nat /\ Count(m, "upstream.rcv") \in Nat
  BY CountNat
<1> QED
  BY <1>1, <1>2, <1>4, <1>5

-----------------------------------------------------------------------------
(* The client is somewhere else; what it wrote stays as it is. *)
LEMMA OutSame ==
  ASSUME UNCHANGED out
  PROVE  \A m : FramesOf(m)' = FramesOf(m) /\ Written(m)' = Written(m)
BY DEF FramesOf, Written

LEMMA LogSame ==
  ASSUME UNCHANGED log
  PROVE  LogKept /\ \A k : OnLink(k)' = OnLink(k)
BY DEF LogKept, OnLink

(* The server and the upstream do not look at what the client is doing. *)
LEMMA ServerKept ==
  ASSUME PipelineTypeOK, ServerInv, UNCHANGED <<link, taken, log>>,
         \A s \in Conns : Written(s) <= Written(s)' /\ Written(s)' \in Nat
  PROVE  ServerInv'
<1>1. \A s \in Conns : taken[s] <= Written(s)'
  BY WrittenFacts DEF PipelineTypeOK, ServerInv
<1> QED
  BY <1>1 DEF ServerInv

LEMMA UpstreamKept ==
  ASSUME UpstreamInv, UNCHANGED <<log, arrived, handled, parsing, batch>>
  PROVE  UpstreamInv'
BY LogSame DEF UpstreamInv, OnLinks

LEMMA ConnectStep ==
  ASSUME IInv, ClientConnect
  PROVE  IInv'
<1> USE DEF IInv
<1>1. /\ out' = Append(out, <<>>) /\ out \in Seq(Seq(Frame)) /\ <<>> \in Seq(Frame)
      /\ UNCHANGED <<stage, cur, round, pos, servervars, vars, recs>>
      /\ stage = "idle" /\ up' = TRUE /\ Len(out) < MaxConn
  BY DEF PipelineTypeOK, ClientConnect, Client!Connect
<1>2. /\ DOMAIN out = 1 .. Len(out) /\ Len(out) \in Nat
      /\ out' \in Seq(Seq(Frame))
      /\ Len(out') = Len(out) + 1 /\ DOMAIN out' = 1 .. Len(out) + 1
      /\ out'[Len(out) + 1] = <<>>
      /\ \A s \in DOMAIN out : s \in DOMAIN out' /\ out'[s] = out[s]
  BY <1>1, AppendFacts
<1>3. PipelineTypeOK'
  BY <1>1, <1>2, ConstantFacts DEF PipelineTypeOK, servervars, vars
<1>4. ClientInv'
  BY <1>1, <1>2 DEF ClientInv
<1>5. \A m : FramesOf(m)' = FramesOf(m)
  <2>1. \A s \in DOMAIN out' : s \in DOMAIN out \/ DOMAIN out'[s] = {}
    BY <1>2
  <2> QED
    BY <1>2, <2>1 DEF FramesOf
<1>6. ServerInv'
  <2>1. \A s \in Conns : Written(s) <= Written(s)' /\ Written(s)' \in Nat
    <3> SUFFICES ASSUME NEW s \in Conns PROVE Written(s) <= Written(s)' /\ Written(s)' \in Nat
      OBVIOUS
    <3>1. Written(s) \in Nat
      BY WrittenFacts
    <3>2. CASE s \in DOMAIN out
      BY <1>2, <3>1, <3>2 DEF Written
    <3>3. CASE s \notin DOMAIN out
      <4>1. Written(s) = 0 /\ Written(s)' = 0
        BY <1>2, <3>3 DEF Written
      <4> QED
        BY <4>1
    <3> QED
      BY <3>2, <3>3
  <2> QED
    BY <1>1, <2>1, ServerKept DEF servervars
<1>7. UpstreamInv'
  BY <1>1, UpstreamKept DEF servervars, vars
<1>8. CountInv'
  BY <1>1, <1>5, LogSame, CountKept DEF PipelineTypeOK, servervars, vars
<1> QED
  BY <1>3, <1>4, <1>6, <1>7, <1>8

(* A frame is put at the end of the newest connection. *)
LEMMA PutFrame ==
  ASSUME PipelineTypeOK, out # <<>>, NEW f \in Frame,
         out' = [out EXCEPT ![Len(out)] = Append(@, f)]
  PROVE  /\ out' \in Seq(Seq(Frame)) /\ Len(out') = Len(out)
         /\ \A s \in Conns : Written(s) <= Written(s)' /\ Written(s)' \in Nat
         /\ \A m : m # f.seq => FramesOf(m)' = FramesOf(m)
         /\ \E p : p \notin FramesOf(f.seq) /\ FramesOf(f.seq)' = FramesOf(f.seq) \cup {p}
<1>1. PICK t \in Seq(Seq(Frame)) : t = out
  BY DEF PipelineTypeOK
<1>2. PICK u : u = [t EXCEPT ![Len(t)] = Append(@, f)]
  OBVIOUS
<1>3. out' = u
  BY <1>1, <1>2
<1>4. /\ Len(t) \in DOMAIN t /\ DOMAIN t = 1 .. Len(t) /\ DOMAIN u = DOMAIN t
      /\ u \in Seq(Seq(Frame)) /\ Len(u) = Len(t)
      /\ \A k \in DOMAIN t :
            /\ t[k] \in Seq(Frame) /\ u[k] \in Seq(Frame)
            /\ DOMAIN t[k] = 1 .. Len(t[k]) /\ DOMAIN u[k] = 1 .. Len(u[k])
            /\ Len(t[k]) \in Nat
            /\ Len(u[k]) = IF k = Len(t) THEN Len(t[k]) + 1 ELSE Len(t[k])
            /\ \A i \in DOMAIN t[k] : i \in DOMAIN u[k] /\ u[k][i] = t[k][i]
      /\ u[Len(t)][Len(t[Len(t)]) + 1] = f
  BY <1>1, <1>2, PutFacts
<1>5. PICK n \in DOMAIN t : n = Len(t)
  BY <1>4
<1>6. PICK l \in Nat : l = Len(t[n])
  BY <1>4
<1>7. \A s \in Conns : Written(s) <= Written(s)' /\ Written(s)' \in Nat
  BY <1>1, <1>3, <1>4 DEF Written
<1>8. n \in Conns
  BY <1>1, WrittenFacts
<1>9. ASSUME NEW m
      PROVE  FramesOf(m)' = IF m = f.seq THEN FramesOf(m) \cup {<<n, l + 1>>}
                            ELSE FramesOf(m)
  <2>1. ASSUME NEW p \in Place
        PROVE  p \in FramesOf(m)' <=> p \in FramesOf(m) \/ (p = <<n, l + 1>> /\ f.seq = m)
    <3>1. PICK k \in Conns, i \in Nat : p = <<k, i>>
      BY DEF Place
    <3>2. p \in FramesOf(m) <=> k \in DOMAIN t /\ i \in DOMAIN t[k] /\ t[k][i].seq = m
      BY <1>1, <3>1 DEF FramesOf
    <3>3. p \in FramesOf(m)' <=> k \in DOMAIN t /\ i \in DOMAIN u[k] /\ u[k][i].seq = m
      BY <1>3, <1>4, <3>1 DEF FramesOf
    <3>4. CASE k = n /\ i = l + 1
      <4>1. i \notin DOMAIN t[k] /\ i \in DOMAIN u[k] /\ u[k][i] = f
        BY <1>4, <1>5, <1>6, <3>4
      <4> QED
        BY <3>1, <3>2, <3>3, <3>4, <4>1
    <3>5. CASE ~(k = n /\ i = l + 1)
      <4>1. ASSUME k \in DOMAIN t PROVE i \in DOMAIN u[k] <=> i \in DOMAIN t[k]
        BY <1>4, <1>5, <1>6, <3>5, <4>1
      <4>2. k \in DOMAIN t /\ i \in DOMAIN t[k] => u[k][i] = t[k][i]
        BY <1>4
      <4> QED
        BY <3>1, <3>2, <3>3, <3>5, <4>1, <4>2
    <3> QED
      BY <3>4, <3>5
  <2>2. <<n, l + 1>> \in Place /\ FramesOf(m) \subseteq Place /\ FramesOf(m)' \subseteq Place
    BY <1>8 DEF Place, FramesOf
  <2>3. CASE m = f.seq
    BY <2>1, <2>2, <2>3
  <2>4. CASE m # f.seq
    BY <2>1, <2>2, <2>4
  <2> QED
    BY <2>3, <2>4
<1>10. <<n, l + 1>> \notin FramesOf(f.seq)
  <2>1. l + 1 \notin DOMAIN t[n]
    BY <1>4, <1>5, <1>6
  <2> QED
    BY <1>1, <2>1 DEF FramesOf
<1> QED
  BY <1>1, <1>3, <1>4, <1>7, <1>9, <1>10

(* The frame is the message that was begun: one more try got to the socket. *)
LEMMA CountPut ==
  ASSUME PipelineTypeOK, CountInv, stage = "begun", stage' = "written",
         UNCHANGED <<log, handled, recs>>, NEW f \in Frame, f.seq = cur,
         \A m : m # f.seq => FramesOf(m)' = FramesOf(m),
         \E p : p \notin FramesOf(f.seq) /\ FramesOf(f.seq)' = FramesOf(f.seq) \cup {p}
  PROVE  CountInv'
<1> SUFFICES ASSUME NEW m \in Msgs
             PROVE  /\ IsFiniteSet(FramesOf(m)')
                    /\ Cardinality(FramesOf(m)') <= Count(m, "client.snd_begin")'
                    /\ Count(m, "upstream.rcv")' <= Cardinality(HandledOf(m)')
                    /\ Cardinality(FramesOf(m)') \in Nat
  BY DEF CountInv
<1>1. /\ IsFiniteSet(FramesOf(m))
      /\ Cardinality(FramesOf(m)) + (IF cur = m THEN 1 ELSE 0)
            <= Count(m, "client.snd_begin")
      /\ Count(m, "upstream.rcv") <= Cardinality(HandledOf(m))
      /\ Count(m, "client.snd_begin")' = Count(m, "client.snd_begin")
      /\ Count(m, "upstream.rcv")' = Count(m, "upstream.rcv")
  BY DEF CountInv, Count
<1>2. Cardinality(FramesOf(m)) \in Nat
  BY <1>1, FS_CardinalityType
<1>3. /\ FramesOf(m) \subseteq FramesOf(m)' /\ IsFiniteSet(FramesOf(m)')
      /\ Cardinality(FramesOf(m)') \in Nat
      /\ Cardinality(FramesOf(m)') <= Count(m, "client.snd_begin")
  <2>1. CASE m = f.seq
    <3>1. PICK p : p \notin FramesOf(m) /\ FramesOf(m)' = FramesOf(m) \cup {p}
      BY <2>1
    <3>2. IsFiniteSet(FramesOf(m)') /\ Cardinality(FramesOf(m)') = Cardinality(FramesOf(m)) + 1
      BY <1>1, <3>1, FS_AddElement
    <3> QED
      BY <1>1, <1>2, <2>1, <3>1, <3>2, FS_CardinalityType
  <2>2. CASE m # f.seq
    <3>1. FramesOf(m)' = FramesOf(m)
      BY <2>2
    <3> QED
      BY <1>1, <1>2, <2>2, <3>1
  <2> QED
    BY <2>1, <2>2
<1>4. HandledOf(m) \subseteq HandledOf(m)' /\ HandledOf(m)' \subseteq FramesOf(m)'
  BY <1>3, LogSame, HandledGrows DEF PipelineTypeOK, HandledOf
<1>5. /\ Cardinality(HandledOf(m)) <= Cardinality(HandledOf(m)')
      /\ Cardinality(HandledOf(m)) \in Nat /\ Cardinality(HandledOf(m)') \in Nat
  <2>1. IsFiniteSet(HandledOf(m)')
    BY <1>3, <1>4, FS_Subset
  <2>2. IsFiniteSet(HandledOf(m))
    BY <1>4, <2>1, FS_Subset
  <2> QED
    BY <1>4, <2>1, <2>2, FS_Subset, FS_CardinalityType
<1>6. Count(m, "client.snd_begin") \in Nat /\ Count(m, "upstream.rcv") \in Nat
  BY CountNat
<1> QED
  BY <1>1, <1>3, <1>5, <1>6

LEMMA CurrentIsMsg ==
  ASSUME PipelineTypeOK, round < NumRounds
  PROVE  Client!Current \in Msgs
<1>1. round \in Nat /\ pos \in Nat /\ pos < NumPerRound
  BY ConstantFacts DEF PipelineTypeOK
<1>2. round * NumPerRound + pos \in Msgs
  BY <1>1, SeqRange
<1> QED
  BY <1>2 DEF Client!Current

(* What Send and CutOff have in common. *)
LEMMA PutStep ==
  ASSUME IInv, Write, NEW b \in BOOLEAN, Client!Put(b)
  PROVE  /\ ServerInv' /\ UpstreamInv' /\ CountInv'
         /\ out' \in Seq(Seq(Frame)) /\ Len(out') = Len(out) /\ out' # <<>>
<1> USE DEF IInv
<1>1. /\ stage = "begun" /\ stage' = "written" /\ out # <<>>
      /\ cur = Client!Current /\ cur \in Msgs
      /\ UNCHANGED <<cur, servervars, vars, recs>>
  BY DEF Write, ClientInv, PipelineTypeOK
<1>2. PICK f \in Frame : f.seq = cur /\ f = [seq |-> cur, whole |-> b]
  BY <1>1 DEF Frame
<1>3. out' = [out EXCEPT ![Len(out)] = Append(@, f)]
  BY <1>1, <1>2 DEF Client!Put
<1>4. /\ out' \in Seq(Seq(Frame)) /\ Len(out') = Len(out)
      /\ \A s \in Conns : Written(s) <= Written(s)' /\ Written(s)' \in Nat
      /\ \A m : m # f.seq => FramesOf(m)' = FramesOf(m)
      /\ \E p : p \notin FramesOf(f.seq) /\ FramesOf(f.seq)' = FramesOf(f.seq) \cup {p}
  BY <1>1, <1>3, PutFrame
<1>5. out' # <<>>
  BY <1>1, <1>4 DEF PipelineTypeOK
<1>6. ServerInv'
  BY <1>1, <1>4, ServerKept DEF servervars
<1>7. UpstreamInv'
  BY <1>1, UpstreamKept DEF servervars, vars
<1>8. CountInv'
  BY <1>1, <1>2, <1>4, CountPut DEF servervars, vars
<1> QED
  BY <1>4, <1>5, <1>6, <1>7, <1>8

(* A connection that broke: only the client knows. *)
LEMMA DropStep ==
  ASSUME IInv, Client!Drop, UNCHANGED <<cur, servervars, vars, recs>>,
         stage' # "begun"
  PROVE  IInv'
<1> USE DEF IInv, servervars, vars
<1>1. up' = FALSE /\ pos' = 0 /\ UNCHANGED <<round, out>>
  BY DEF Client!Drop
<1>2. PipelineTypeOK'
  <2>1. pos' \in 0 .. NumPerRound - 1
    BY <1>1, ConstantFacts
  <2> QED
    BY <1>1, <2>1 DEF PipelineTypeOK
<1>3. ClientInv'
  BY <1>1 DEF ClientInv
<1>4. ServerInv' /\ UpstreamInv'
  BY <1>1, OutSame, WrittenFacts, ServerKept, UpstreamKept
<1>5. CountInv'
  BY <1>1, OutSame, LogSame, CountKept DEF PipelineTypeOK
<1> QED
  BY <1>2, <1>3, <1>4, <1>5

LEMMA WriteStep ==
  ASSUME IInv, Write
  PROVE  IInv'
<1> USE DEF IInv
<1>1. stage' = "written" /\ UNCHANGED <<cur, servervars, vars, recs>>
  BY DEF Write
<1>2. CASE Client!Drop
  BY <1>1, <1>2, DropStep
<1>3. CASE Client!Send
  <2>1. Client!Put(TRUE)
    BY <1>3 DEF Client!Send
  <2>2. /\ ServerInv' /\ UpstreamInv' /\ CountInv'
        /\ out' \in Seq(Seq(Frame)) /\ Len(out') = Len(out) /\ out' # <<>>
    BY <2>1, PutStep
  <2>3. up' = up /\ round' \in 0 .. NumRounds /\ pos' \in 0 .. NumPerRound - 1
    BY <1>3, ConstantFacts DEF Client!Send, PipelineTypeOK
  <2>4. PipelineTypeOK'
    BY <1>1, <2>2, <2>3 DEF PipelineTypeOK, servervars, vars
  <2> QED
    BY <1>1, <2>2, <2>4 DEF ClientInv
<1>4. CASE Client!CutOff
  <2>1. Client!Put(FALSE)
    BY <1>4 DEF Client!CutOff
  <2>2. /\ ServerInv' /\ UpstreamInv' /\ CountInv'
        /\ out' \in Seq(Seq(Frame)) /\ Len(out') = Len(out) /\ out' # <<>>
    BY <2>1, PutStep
  <2>3. up' = FALSE /\ round' = round /\ pos' \in 0 .. NumPerRound - 1
    BY <1>4, ConstantFacts DEF Client!CutOff
  <2>4. PipelineTypeOK'
    BY <1>1, <2>2, <2>3 DEF PipelineTypeOK, servervars, vars
  <2> QED
    BY <1>1, <2>2, <2>4 DEF ClientInv
<1> QED
  BY <1>2, <1>3, <1>4 DEF Write, Client!Break

(* One record more, of one message. *)
LEMMA RecordFacts ==
  ASSUME PipelineTypeOK, NEW c \in Msgs, NEW a \in Actions, Record(c, a)
  PROVE  /\ recs' \in [Msgs -> Seq(Actions)]
         /\ \A m \in Msgs : \A b : Count(m, b) \in Nat
         /\ \A m \in Msgs : Count(m, "client.snd_begin")' =
               IF m = c /\ a = "client.snd_begin" THEN Count(m, "client.snd_begin") + 1
               ELSE Count(m, "client.snd_begin")
         /\ \A m \in Msgs : Count(m, "upstream.rcv")' =
               IF m = c /\ a = "upstream.rcv" THEN Count(m, "upstream.rcv") + 1
               ELSE Count(m, "upstream.rcv")
<1>1. PICK s \in Seq(Actions) : s = recs[c]
  BY DEF PipelineTypeOK
<1>2. PICK t : t = Append(s, a)
  OBVIOUS
<1>3. t \in Seq(Actions)
  BY <1>2, AppendFacts
<1>4. recs' = [recs EXCEPT ![c] = t] /\ recs \in [Msgs -> Seq(Actions)]
  BY <1>1, <1>2 DEF Record, PipelineTypeOK
<1>5. recs' \in [Msgs -> Seq(Actions)]
  BY <1>3, <1>4
<1>6. \A m \in Msgs : \A b : Count(m, b) \in Nat
  BY CountNat
<1>7. ASSUME NEW m \in Msgs, NEW b
      PROVE  Times(b, recs'[m]) = IF m = c /\ a = b THEN Count(m, b) + 1 ELSE Count(m, b)
  <2>1. Count(m, b) = Times(b, recs[m])
    BY DEF Count, Times
  <2>2. CASE m = c
    <3>1. recs'[m] = t /\ recs[m] = s
      BY <1>1, <1>4, <2>2
    <3>2. /\ a = b => Times(b, t) = Times(b, s) + 1
          /\ a # b => Times(b, t) = Times(b, s)
      BY <1>2, TimesAppend
    <3> QED
      BY <2>1, <2>2, <3>1, <3>2
  <2>3. CASE m # c
    BY <1>4, <2>1, <2>3
  <2> QED
    BY <2>2, <2>3
<1>8. \A m \in Msgs : /\ Count(m, "client.snd_begin")' = Times("client.snd_begin", recs'[m])
                      /\ Count(m, "upstream.rcv")' = Times("upstream.rcv", recs'[m])
  BY DEF Count, Times
<1> QED
  BY <1>5, <1>6, <1>7, <1>8

(* The client writes down what it begins, and what it has ended. *)
LEMMA CountClient ==
  ASSUME PipelineTypeOK, CountInv, NEW c \in Msgs, NEW a \in Actions, Record(c, a),
         a # "upstream.rcv", UNCHANGED <<out, log, handled>>,
         stage' = "begun" => stage # "begun" /\ cur' = c /\ a = "client.snd_begin"
  PROVE  CountInv'
<1> SUFFICES ASSUME NEW m \in Msgs
             PROVE  /\ IsFiniteSet(FramesOf(m)')
                    /\ Cardinality(FramesOf(m)')
                          + (IF stage' = "begun" /\ cur' = m THEN 1 ELSE 0)
                          <= Count(m, "client.snd_begin")'
                    /\ Count(m, "upstream.rcv")' <= Cardinality(HandledOf(m)')
  BY DEF CountInv
<1>1. /\ IsFiniteSet(FramesOf(m))
      /\ Cardinality(FramesOf(m)) + (IF stage = "begun" /\ cur = m THEN 1 ELSE 0)
            <= Count(m, "client.snd_begin")
      /\ Count(m, "upstream.rcv") <= Cardinality(HandledOf(m))
      /\ FramesOf(m)' = FramesOf(m) /\ HandledOf(m)' = HandledOf(m)
  BY OutSame DEF CountInv, HandledOf
<1>2. Cardinality(FramesOf(m)) \in Nat
  BY <1>1, FS_CardinalityType
<1>3. /\ Count(m, "client.snd_begin") \in Nat /\ Count(m, "upstream.rcv") \in Nat
      /\ Count(m, "client.snd_begin")' =
            IF m = c /\ a = "client.snd_begin" THEN Count(m, "client.snd_begin") + 1
            ELSE Count(m, "client.snd_begin")
      /\ Count(m, "upstream.rcv")' = Count(m, "upstream.rcv")
  BY RecordFacts
<1>4. CASE stage' = "begun" /\ cur' = m
  BY <1>1, <1>2, <1>3, <1>4
<1>5. CASE ~(stage' = "begun" /\ cur' = m)
  BY <1>1, <1>2, <1>3, <1>5
<1> QED
  BY <1>4, <1>5

LEMMA BeginStep ==
  ASSUME IInv, SendBegin
  PROVE  IInv'
<1> USE DEF IInv, servervars, vars
<1>1. PICK c \in Msgs : c = Client!Current
  BY CurrentIsMsg DEF SendBegin
<1>2. /\ up /\ stage = "idle" /\ round < NumRounds /\ stage' = "begun" /\ cur' = c
      /\ Record(c, "client.snd_begin")
      /\ UNCHANGED <<up, round, pos, out, servervars, vars>>
  BY <1>1 DEF SendBegin, ThisMessage, Record
<1>3. recs' \in [Msgs -> Seq(Actions)]
  BY <1>2, RecordFacts DEF Actions
<1>4. PipelineTypeOK'
  BY <1>2, <1>3 DEF PipelineTypeOK
<1>5. ClientInv'
  BY <1>1, <1>2 DEF ClientInv, Client!Current
<1>6. ServerInv' /\ UpstreamInv'
  BY <1>2, OutSame, WrittenFacts, ServerKept, UpstreamKept
<1>7. CountInv'
  BY <1>2, CountClient DEF Actions
<1> QED
  BY <1>4, <1>5, <1>6, <1>7

LEMMA EndStep ==
  ASSUME IInv, SendEnd
  PROVE  IInv'
<1> USE DEF IInv, servervars, vars
<1>1. PICK c \in Msgs : c = cur
  BY DEF PipelineTypeOK
<1>2. /\ stage' = "idle" /\ Record(c, "client.snd_end")
      /\ UNCHANGED <<up, round, pos, out, cur, servervars, vars>>
  BY <1>1 DEF SendEnd, Record
<1>3. recs' \in [Msgs -> Seq(Actions)]
  BY <1>2, RecordFacts DEF Actions
<1>4. PipelineTypeOK'
  BY <1>2, <1>3 DEF PipelineTypeOK
<1>5. ClientInv'
  BY <1>2 DEF ClientInv
<1>6. ServerInv' /\ UpstreamInv'
  BY <1>2, OutSame, WrittenFacts, ServerKept, UpstreamKept
<1>7. CountInv'
  BY <1>2, CountClient DEF Actions
<1> QED
  BY <1>4, <1>5, <1>6, <1>7

-----------------------------------------------------------------------------
(* The server takes no more than the whole frames, which were written. *)
LEMMA WholeWritten ==
  ASSUME PipelineTypeOK, NEW s \in Conns
  PROVE  Whole(s) \in Nat /\ Whole(s) <= Written(s)
<1>1. CASE s \in DOMAIN out
  <2> DEFINE W == {i \in DOMAIN out[s] : out[s][i].whole}
  <2>1. DOMAIN out[s] = 1 .. Written(s) /\ Written(s) \in Nat
    BY <1>1, WrittenFacts
  <2>2. IsFiniteSet(1 .. Written(s)) /\ Cardinality(1 .. Written(s)) = Written(s)
    BY <2>1, FS_Interval
  <2>3. IsFiniteSet(W) /\ Cardinality(W) <= Written(s) /\ Cardinality(W) \in Nat
    <3>1. W \in SUBSET (1 .. Written(s))
      BY <2>1
    <3> HIDE DEF W
    <3> QED
      BY <2>2, <3>1, FS_Subset, FS_CardinalityType
  <2> QED
    BY <1>1, <2>3 DEF Whole
<1>2. CASE s \notin DOMAIN out
  BY <1>2 DEF Whole, Written
<1> QED
  BY <1>1, <1>2

LEMMA IntervalOrder ==
  ASSUME NEW a \in Nat, NEW b \in Nat, 1 .. a \subseteq 1 .. b
  PROVE  a <= b
<1>1. a = 0 \/ a \in 1 .. b
  OBVIOUS
<1> QED
  BY <1>1

(* What is kept on a log is not less than there was. *)
LEMMA LinksGrow ==
  ASSUME PipelineTypeOK, PipelineTypeOK', LogKept, NEW k
  PROVE  /\ Len(OnLink(k)) <= Len(OnLink(k))'
         /\ Len(OnLink(k)) \in Nat /\ Len(OnLink(k))' \in Nat
<1>1. Len(OnLink(k)) \in Nat /\ Len(OnLink(k))' \in Nat
  BY DEF PipelineTypeOK, OnLink
<1>2. CASE k \in DOMAIN log
  <2>1. k \in DOMAIN log' /\ DOMAIN log[k] \subseteq DOMAIN log'[k]
    BY <1>2 DEF LogKept
  <2>2. /\ OnLink(k) = log[k] /\ OnLink(k)' = log'[k]
        /\ DOMAIN log[k] = 1 .. Len(log[k]) /\ DOMAIN log'[k] = 1 .. Len(log'[k])
    BY <1>2, <2>1 DEF PipelineTypeOK, OnLink
  <2> QED
    BY <1>1, <2>1, <2>2, IntervalOrder
<1>3. CASE k \notin DOMAIN log
  BY <1>1, <1>3 DEF OnLink
<1> QED
  BY <1>1, <1>2, <1>3

(* What the server writes has arrived, and nothing else but its own state changes. *)
ServerLeaves ==
    /\ arrived' = OnLinks'
    /\ UNCHANGED <<clientvars, loopvars, handled, parsing, batch, recs>>

(* Whatever the server does, it is not the client's nor the upstream's business. *)
LEMMA ServerStep ==
  ASSUME IInv, ServerLeaves, LogKept,
         taken' \in [Conns -> Nat], log' \in Seq(Seq(Place)), ServerInv'
  PROVE  IInv'
<1> USE DEF IInv, ServerLeaves, clientvars
<1>1. PipelineTypeOK'
  BY DEF PipelineTypeOK
<1>2. ClientInv'
  BY DEF ClientInv, Client!Current
<1>3. UpstreamInv'
  <2>1. \A k : Len(OnLink(k)) <= Len(OnLink(k))' /\ Len(OnLink(k))' \in Nat
    BY <1>1, LinksGrow
  <2>2. ASSUME NEW k \in Links PROVE handled[k] <= Len(OnLink(k))'
    BY <2>1, OnLinkFacts DEF UpstreamInv, PipelineTypeOK
  <2>3. ASSUME parsing # NoLink PROVE batch <= Len(OnLink(parsing))'
    BY <2>1, <2>3, OnLinkFacts DEF UpstreamInv, PipelineTypeOK
  <2> QED
    BY <2>2, <2>3 DEF ServerLeaves, UpstreamInv, OnLink
<1>4. CountInv'
  BY OutSame, CountKept DEF PipelineTypeOK
<1> QED
  BY <1>1, <1>2, <1>3, <1>4

(* The message is put on the link under the number it was taken with. *)
LEMMA ForwardStep ==
  ASSUME IInv, NEW s \in Conns, ServerTakes(s), Server!Forward(s)
  PROVE  IInv' /\ ServerLeaves /\ LogKept
<1> USE DEF IInv
<1>1. /\ taken[s] \in Nat /\ taken[s] + 1 <= Written(s)
      /\ taken' = [taken EXCEPT ![s] = taken[s] + 1] /\ taken \in [Conns -> Nat]
      /\ log # <<>> /\ link' = link
      /\ ServerLeaves
  <2>1. taken \in [Conns -> Nat] /\ taken[s] \in Nat
    BY DEF PipelineTypeOK
  <2>2. taken[s] + 1 <= Written(s)
    BY <2>1, WholeWritten, WrittenFacts DEF ServerTakes
  <2>3. taken' = [taken EXCEPT ![s] = taken[s] + 1] /\ log # <<>> /\ link' = link
    BY DEF ServerTakes, Server!Forward, Server!Take, ServerInv
  <2>4. ServerLeaves
    BY DEF ServerTakes, Server!Forward, ServerLeaves
  <2> QED
    BY <2>1, <2>2, <2>3, <2>4, Zenon
<1>2. PICK n \in Nat : n = taken[s] + 1
  BY <1>1
<1>3. PICK e \in Place : e = <<s, n>>
  BY DEF Place
<1>4. PICK t \in Seq(Seq(Place)) : t = log
  BY DEF PipelineTypeOK
<1>5. PICK u : u = [t EXCEPT ![Len(t)] = Append(@, e)]
  OBVIOUS
<1>6. log' = u
  BY <1>2, <1>3, <1>4, <1>5 DEF Server!Forward
<1>7. /\ Len(t) \in DOMAIN t /\ DOMAIN t = 1 .. Len(t) /\ DOMAIN u = DOMAIN t
      /\ u \in Seq(Seq(Place)) /\ Len(u) = Len(t)
      /\ \A k \in DOMAIN t :
            /\ t[k] \in Seq(Place) /\ u[k] \in Seq(Place)
            /\ DOMAIN t[k] = 1 .. Len(t[k]) /\ DOMAIN u[k] = 1 .. Len(u[k])
            /\ Len(t[k]) \in Nat
            /\ Len(u[k]) = IF k = Len(t) THEN Len(t[k]) + 1 ELSE Len(t[k])
            /\ \A i \in DOMAIN t[k] : i \in DOMAIN u[k] /\ u[k][i] = t[k][i]
      /\ u[Len(t)][Len(t[Len(t)]) + 1] = e
  BY <1>1, <1>4, <1>5, PutFacts
<1>8. LogKept
  BY <1>4, <1>6, <1>7 DEF LogKept
<1>9. taken' \in [Conns -> Nat] /\ log' \in Seq(Seq(Place))
  BY <1>1, <1>2, <1>6, <1>7
<1>10. ASSUME NEW k \in DOMAIN u, NEW i \in DOMAIN u[k]
       PROVE  \/ k \in DOMAIN t /\ i \in DOMAIN t[k] /\ u[k][i] = t[k][i]
              \/ k = Len(t) /\ i = Len(t[Len(t)]) + 1 /\ u[k][i] = e
  <2>1. k \in DOMAIN t
    BY <1>7
  <2>2. CASE i \in DOMAIN t[k]
    BY <1>7, <2>1, <2>2
  <2>3. CASE i \notin DOMAIN t[k]
    BY <1>7, <2>1, <2>3
  <2> QED
    BY <2>2, <2>3
<1>11. \A k \in DOMAIN t : \A i \in DOMAIN t[k] :
          /\ t[k][i] \in Place /\ t[k][i][2] \in 1 .. taken[t[k][i][1]]
          /\ t[k][i] # e
  <2> SUFFICES ASSUME NEW k \in DOMAIN t, NEW i \in DOMAIN t[k]
               PROVE  /\ t[k][i] \in Place /\ t[k][i][2] \in 1 .. taken[t[k][i][1]]
                      /\ t[k][i] # e
    OBVIOUS
  <2>1. t[k][i] \in Place /\ t[k][i][2] \in 1 .. taken[t[k][i][1]]
    BY <1>4, <1>7 DEF ServerInv
  <2>2. e[1] = s /\ e[2] = taken[s] + 1
    BY <1>2, <1>3
  <2> QED
    BY <1>1, <2>1, <2>2
<1>12. ServerInv'
  <2>1. (link # "down" => log # <<>>)'
    BY <1>1, <1>4, <1>6, <1>7
  <2>2. (\A c \in Conns : taken[c] <= Written(c))'
    <3>1. \A c \in Conns : Written(c)' = Written(c)
      BY <1>1, OutSame DEF ServerLeaves, clientvars
    <3> QED
      BY <1>1, <3>1 DEF ServerInv
  <2>3. ASSUME NEW k \in DOMAIN u, NEW i \in DOMAIN u[k]
        PROVE  u[k][i][2] \in 1 .. taken'[u[k][i][1]]
    <3>1. CASE k \in DOMAIN t /\ i \in DOMAIN t[k] /\ u[k][i] = t[k][i]
      <4>1. PICK p \in Place : p = t[k][i] /\ p[2] \in 1 .. taken[p[1]]
        BY <1>11, <3>1
      <4>2. /\ p[1] \in Conns /\ taken[p[1]] \in Nat /\ taken'[p[1]] \in Nat
            /\ taken[p[1]] <= taken'[p[1]]
        BY <1>1, <1>9 DEF Place
      <4>3. p[2] \in 1 .. taken'[p[1]]
        BY <4>1, <4>2
      <4> QED
        BY <3>1, <4>1, <4>3
    <3>2. CASE u[k][i] = e
      <4>1. e[1] = s /\ e[2] = n /\ taken'[s] = n /\ n \in 1 .. n
        BY <1>1, <1>2, <1>3
      <4> QED
        BY <3>2, <4>1
    <3> QED
      BY <1>10, <3>1, <3>2
  <2>4. ASSUME NEW k \in DOMAIN u, NEW l \in DOMAIN u,
               NEW i \in DOMAIN u[k], NEW j \in DOMAIN u[l], u[k][i] = u[l][j]
        PROVE  k = l /\ i = j
    <3>1. CASE /\ k \in DOMAIN t /\ i \in DOMAIN t[k] /\ u[k][i] = t[k][i]
               /\ l \in DOMAIN t /\ j \in DOMAIN t[l] /\ u[l][j] = t[l][j]
      <4>1. \A a, b \in DOMAIN t : \A x \in DOMAIN t[a], y \in DOMAIN t[b] :
                t[a][x] = t[b][y] => a = b /\ x = y
        BY <1>4 DEF ServerInv
      <4>2. t[k][i] = t[l][j]
        BY <2>4, <3>1
      <4> QED
        BY <3>1, <4>1, <4>2
    <3>2. CASE u[k][i] = e /\ u[l][j] = e
      <4>1. k = Len(t) /\ i = Len(t[Len(t)]) + 1
        BY <1>10, <1>11, <3>2
      <4>2. l = Len(t) /\ j = Len(t[Len(t)]) + 1
        BY <1>10, <1>11, <3>2
      <4> QED
        BY <4>1, <4>2
    <3> QED
      BY <1>10, <1>11, <2>4, <3>1, <3>2
  <2> QED
    BY <1>6, <2>1, <2>2, <2>3, <2>4 DEF ServerInv
<1> QED
  BY <1>1, <1>8, <1>9, <1>12, ServerStep

LEMMA LoseStep ==
  ASSUME IInv, NEW s \in Conns, ServerTakes(s), Server!Lose(s)
  PROVE  IInv' /\ ServerLeaves /\ LogKept
<1> USE DEF IInv
<1>1. /\ taken[s] \in Nat /\ taken[s] + 1 <= Written(s)
      /\ taken' = [taken EXCEPT ![s] = taken[s] + 1] /\ taken \in [Conns -> Nat]
      /\ log' = log /\ (link' # "down" => link # "down")
      /\ ServerLeaves
  BY WholeWritten, WrittenFacts
     DEF ServerLeaves, ServerTakes, Server!Lose, Server!Take, PipelineTypeOK, ServerInv
<1>2. taken' \in [Conns -> Nat] /\ \A c \in Conns : taken[c] <= taken'[c]
  BY <1>1
<1>3. ServerInv'
  <2>1. (\A c \in Conns : taken[c] <= Written(c))'
    <3>1. \A c \in Conns : Written(c)' = Written(c)
      BY <1>1, OutSame DEF ServerLeaves, clientvars
    <3> QED
      BY <1>1, <3>1 DEF ServerInv
  <2>2. ASSUME NEW k \in DOMAIN log, NEW i \in DOMAIN log[k]
        PROVE  log[k][i][2] \in 1 .. taken'[log[k][i][1]]
    <3>1. PICK p \in Place : p = log[k][i] /\ p[2] \in 1 .. taken[p[1]]
      BY OnLinkFacts DEF ServerInv
    <3>2. p[1] \in Conns /\ taken[p[1]] \in Nat /\ taken'[p[1]] \in Nat
      BY <1>1, <1>2 DEF Place
    <3>3. p[2] \in 1 .. taken'[p[1]]
      BY <1>2, <3>1, <3>2
    <3> QED
      BY <3>1, <3>3
  <2> QED
    BY <1>1, <2>1, <2>2 DEF ServerInv
<1> QED
  BY <1>1, <1>2, <1>3, LogSame, ServerStep DEF PipelineTypeOK

(* A new link carries nothing yet; the end of one leaves what it carried. *)
LEMMA ServerLinkStep ==
  ASSUME IInv, ServerLink
  PROVE  IInv' /\ ServerLeaves /\ LogKept
<1> USE DEF IInv
<1>1. ServerLeaves /\ UNCHANGED taken
  BY DEF ServerLeaves, ServerLink, Server!Establish, Server!Degrade, Server!Teardown
<1>2. \A c \in Conns : Written(c)' = Written(c)
  BY <1>1, OutSame DEF ServerLeaves, clientvars
<1>3. CASE UNCHANGED log /\ (link' # "down" => link # "down")
  <2>1. ServerInv'
    BY <1>1, <1>2, <1>3 DEF ServerInv
  <2> QED
    BY <1>1, <1>3, <2>1, LogSame, ServerStep DEF PipelineTypeOK
<1>4. CASE Server!Establish
  <2>1. log' = Append(log, <<>>) /\ log \in Seq(Seq(Place)) /\ <<>> \in Seq(Place)
    BY <1>4 DEF Server!Establish, PipelineTypeOK
  <2>2. /\ DOMAIN log = 1 .. Len(log) /\ Len(log) \in Nat
        /\ log' \in Seq(Seq(Place))
        /\ Len(log') = Len(log) + 1 /\ DOMAIN log' = 1 .. Len(log')
        /\ log'[Len(log) + 1] = <<>>
        /\ \A k \in DOMAIN log : k \in DOMAIN log' /\ log'[k] = log[k]
    BY <2>1, AppendFacts
  <2>3. LogKept
    BY <2>2 DEF LogKept
  <2>4. \A k \in DOMAIN log' : \A i \in DOMAIN log'[k] : k \in DOMAIN log /\ log'[k] = log[k]
    BY <2>2
  <2>5. log' # <<>>
    BY <2>2
  <2>6. ServerInv'
    BY <1>1, <1>2, <2>4, <2>5 DEF ServerInv
  <2> QED
    BY <1>1, <2>2, <2>3, <2>6, ServerStep DEF PipelineTypeOK
<1>5. CASE Server!Degrade \/ Server!Teardown
  BY <1>3, <1>5 DEF Server!Degrade, Server!Teardown
<1> QED
  BY <1>4, <1>5 DEF ServerLink

-----------------------------------------------------------------------------
(* What a callback of the upstream leaves alone, and what it may read. *)
LEMMA UpstreamStep ==
  ASSUME IInv, UNCHANGED <<clientvars, servervars, recs, arrived, handled>>,
         \/ UNCHANGED <<parsing, batch>>
         \/ /\ parsing' \in Links /\ batch' \in Nat
            /\ handled[parsing'] < batch' /\ batch' <= Len(OnLink(parsing'))
  PROVE  IInv'
<1> USE DEF IInv, clientvars, servervars
<1>1. PipelineTypeOK'
  BY DEF PipelineTypeOK
<1>2. ClientInv'
  BY DEF ClientInv, Client!Current
<1>3. ServerInv'
  BY OutSame, WrittenFacts, ServerKept
<1>4. UpstreamInv'
  BY LogSame DEF UpstreamInv, OnLinks
<1>5. CountInv'
  BY OutSame, LogSame, CountKept DEF PipelineTypeOK
<1> QED
  BY <1>1, <1>2, <1>3, <1>4, <1>5

LEMMA CallbackStep ==
  ASSUME IInv, NEW k \in Links, UpstreamCallback(k)
  PROVE  IInv'
<1>1. UNCHANGED <<clientvars, servervars, recs>>
  BY DEF UpstreamCallback
<1>2. CASE tcp_upstream_on_message(k)
  <2>1. /\ batch' \in handled[k] + 1 .. Len(OnLink(k)) /\ parsing' = k
        /\ UNCHANGED <<arrived, handled>>
    BY <1>2 DEF tcp_upstream_on_message, IInv, UpstreamInv, OnLinks
  <2>2. handled[k] \in Nat /\ Len(OnLink(k)) \in Nat
    BY OnLinkFacts DEF IInv, PipelineTypeOK
  <2>3. batch' \in Nat /\ handled[k] < batch' /\ batch' <= Len(OnLink(k))
    BY <2>1, <2>2
  <2> QED
    BY <1>1, <2>1, <2>3, UpstreamStep
<1>3. CASE \/ tcp_upstream_on_connect(k)
           \/ tcp_upstream_on_close(k)
           \/ tcp_upstream_on_release(k)
  BY <1>1, <1>3, UpstreamStep
     DEF tcp_upstream_on_connect, tcp_upstream_on_close,
         tcp_upstream_on_release
<1> QED
  BY <1>2, <1>3 DEF UpstreamCallback

(***************************************************************************)
(* The message that is handled is a frame, and one that was not handled    *)
(* before: no other place of a link names it.                              *)
(***************************************************************************)
LEMMA HandleStep ==
  ASSUME IInv, NEW k \in Links, UpstreamHandles(k)
  PROVE  IInv'
<1> USE DEF IInv
<1>1. /\ k \in DOMAIN log /\ parsing = k /\ UNCHANGED <<clientvars, servervars, arrived, batch>>
      /\ handled' = [handled EXCEPT ![k] = @ + 1]
      /\ parsing' = IF handled[k] + 1 = batch THEN NoLink ELSE k
      /\ Record(NextOnLink(k), "upstream.rcv")
  BY DEF UpstreamHandles, tcp_upstream_handle_message, LastOfBatch
<1>2. /\ handled[k] \in Nat /\ batch \in Nat /\ handled[k] < batch
      /\ batch <= Len(log[k]) /\ Len(log[k]) \in Nat /\ DOMAIN log[k] = 1 .. Len(log[k])
  BY <1>1, OnLinkFacts, ConstantFacts DEF UpstreamInv, PipelineTypeOK
<1>3. PICK n \in Nat : n = handled[k] + 1 /\ n \in DOMAIN log[k]
  BY <1>2
<1>4. PICK c : c = NextOnLink(k)
  OBVIOUS
<1>5. PICK p : p = log[k][n]
  OBVIOUS
<1>6. c \in Msgs /\ p \in FramesOf(c)
  BY <1>1, <1>3, <1>4, <1>5, RelayedIsFrame DEF NextOnLink
<1>7. Record(c, "upstream.rcv")
  BY <1>1, <1>4
<1>8. /\ recs' \in [Msgs -> Seq(Actions)]
      /\ \A m \in Msgs : \A b : Count(m, b) \in Nat
      /\ \A m \in Msgs : Count(m, "client.snd_begin")' = Count(m, "client.snd_begin")
      /\ \A m \in Msgs : Count(m, "upstream.rcv")' =
            IF m = c THEN Count(m, "upstream.rcv") + 1 ELSE Count(m, "upstream.rcv")
  BY <1>6, <1>7, RecordFacts DEF Actions
<1>9. /\ handled' \in [Links -> Nat] /\ parsing' \in Links \cup {NoLink}
      /\ \A l \in Links : handled[l] \in Nat /\ handled'[l] \in Nat
      /\ \A l \in Links : handled[l] <= handled'[l]
      /\ handled'[k] = n /\ \A l \in Links : l # k => handled'[l] = handled[l]
  BY <1>1, <1>3 DEF PipelineTypeOK
<1>10. PipelineTypeOK'
  BY <1>1, <1>8, <1>9 DEF PipelineTypeOK, clientvars, servervars
<1>11. ClientInv'
  BY <1>1 DEF ClientInv, clientvars, Client!Current
<1>12. ServerInv'
  BY <1>1, OutSame, WrittenFacts, ServerKept DEF clientvars, servervars
<1>13. UpstreamInv'
  <2>1. \A l : OnLink(l)' = OnLink(l)
    BY <1>1, LogSame DEF servervars
  <2>2. OnLink(k) = log[k]
    BY <1>1 DEF OnLink
  <2>3. ASSUME NEW l \in Links PROVE handled'[l] <= Len(OnLink(l))'
    BY <1>2, <1>3, <1>9, <2>1, <2>2 DEF UpstreamInv
  <2>4. ASSUME parsing' # NoLink
        PROVE  handled'[parsing'] < batch' /\ batch' <= Len(OnLink(parsing'))
    BY <1>1, <1>2, <1>3, <1>9, <2>2, <2>4
  <2>5. (parsing # NoLink => handled[parsing] < batch /\ batch <= Len(OnLink(parsing)))'
    BY <1>1, <2>1, <2>4 DEF OnLink, servervars
  <2>6. (arrived = OnLinks)'
    BY <1>1, <2>1 DEF UpstreamInv, OnLinks
  <2> QED
    BY <2>3, <2>5, <2>6 DEF UpstreamInv
<1>14. CountInv'
  <2> SUFFICES ASSUME NEW m \in Msgs
               PROVE  /\ IsFiniteSet(FramesOf(m)')
                      /\ Cardinality(FramesOf(m)')
                            + (IF stage' = "begun" /\ cur' = m THEN 1 ELSE 0)
                            <= Count(m, "client.snd_begin")'
                      /\ Count(m, "upstream.rcv")' <= Cardinality(HandledOf(m)')
    BY DEF CountInv
  <2>1. /\ IsFiniteSet(FramesOf(m))
        /\ Cardinality(FramesOf(m)) + (IF stage = "begun" /\ cur = m THEN 1 ELSE 0)
              <= Count(m, "client.snd_begin")
        /\ Count(m, "upstream.rcv") <= Cardinality(HandledOf(m))
        /\ FramesOf(m)' = FramesOf(m)
        /\ UNCHANGED <<stage, cur>>
    BY <1>1, OutSame DEF CountInv, clientvars
  <2>2. LogKept
    BY <1>1, LogSame DEF servervars
  <2>3. HandledOf(m) \subseteq HandledOf(m)' /\ HandledOf(m)' \subseteq FramesOf(m)'
    BY <1>9, <2>1, <2>2, HandledGrows DEF HandledOf
  <2>4. IsFiniteSet(HandledOf(m)') /\ IsFiniteSet(HandledOf(m))
    BY <2>1, <2>3, FS_Subset
  <2>5. /\ Cardinality(HandledOf(m)) <= Cardinality(HandledOf(m)')
        /\ Cardinality(HandledOf(m)) \in Nat /\ Cardinality(HandledOf(m)') \in Nat
    BY <2>3, <2>4, FS_Subset, FS_CardinalityType
  <2>6. Count(m, "upstream.rcv") \in Nat
    BY <1>8
  <2>7. Count(m, "upstream.rcv")' <= Cardinality(HandledOf(m)')
    <3>1. CASE m = c
      <4>1. p \notin HandledOf(m)
        <5> SUFFICES ASSUME NEW l \in Links, NEW i \in 1 .. handled[l],
                            l \in DOMAIN log, i \in DOMAIN log[l], log[l][i] = p
                     PROVE  FALSE
          BY DEF HandledOf
        <5>1. l = k /\ i = n
          BY <1>1, <1>3, <1>5 DEF ServerInv
        <5> QED
          BY <1>2, <1>3, <5>1
      <4>2. p \in HandledOf(m)'
        <5>1. /\ p \in FramesOf(m)' /\ k \in DOMAIN log' /\ n \in DOMAIN log'[k]
              /\ log'[k][n] = p /\ n \in 1 .. handled'[k]
          BY <1>1, <1>2, <1>3, <1>5, <1>6, <1>9, <2>1, <3>1 DEF servervars
        <5> QED
          BY <5>1 DEF HandledOf
      <4>3. PICK H : H = HandledOf(m)
        OBVIOUS
      <4>4. PICK H2 : H2 = HandledOf(m)'
        OBVIOUS
      <4>5. IsFiniteSet(H \cup {p}) /\ Cardinality(H \cup {p}) = Cardinality(H) + 1
        BY <2>4, <4>1, <4>3, FS_AddElement
      <4>6. H \cup {p} \subseteq H2 /\ IsFiniteSet(H2)
        BY <2>3, <2>4, <4>2, <4>3, <4>4
      <4>7. Cardinality(H \cup {p}) <= Cardinality(H2)
        BY <4>6, FS_Subset
      <4>8. Cardinality(HandledOf(m)) + 1 <= Cardinality(HandledOf(m)')
        BY <4>3, <4>4, <4>5, <4>7
      <4> QED
        BY <1>8, <2>1, <2>5, <2>6, <3>1, <4>8
    <3>2. CASE m # c
      BY <1>8, <2>1, <2>5, <2>6, <3>2
    <3> QED
      BY <3>1, <3>2
  <2> QED
    BY <1>8, <2>1, <2>7
<1> QED
  BY <1>10, <1>11, <1>12, <1>13, <1>14

-----------------------------------------------------------------------------
LEMMA InitInv == PipeInit => IInv
<1> SUFFICES ASSUME PipeInit PROVE IInv
  OBVIOUS
<1> USE DEF PipeInit, Client!Init, Server!Init, Init, Start
<1>1. PipelineTypeOK
  <2>1. round \in 0 .. NumRounds /\ pos \in 0 .. NumPerRound - 1 /\ Len(out) \in 0 .. MaxConn
    BY ConstantFacts
  <2>2. out \in Seq(Seq(Frame)) /\ log \in Seq(Seq(Place)) /\ recs \in [Msgs -> Seq(Actions)]
    OBVIOUS
  <2>3. taken \in [Conns -> Nat] /\ handled \in [Links -> Nat]
    OBVIOUS
  <2> QED
    BY <2>1, <2>2, <2>3, ZeroMsg DEF PipelineTypeOK
<1>2. ClientInv
  BY DEF ClientInv
<1>3. ServerInv
  BY DEF ServerInv, Written
<1>4. UpstreamInv
  BY DEF UpstreamInv, OnLinks, OnLink
<1>5. CountInv
  <2> SUFFICES ASSUME NEW m \in Msgs
               PROVE  /\ IsFiniteSet(FramesOf(m)) /\ Cardinality(FramesOf(m)) = 0
                      /\ stage # "begun"
                      /\ Count(m, "client.snd_begin") \in Nat
                      /\ Count(m, "upstream.rcv") = 0
                      /\ Cardinality(HandledOf(m)) = 0
    BY DEF CountInv
  <2>1. FramesOf(m) = {} /\ HandledOf(m) = {}
    BY DEF FramesOf, HandledOf
  <2>2. {i \in DOMAIN recs[m] : recs[m][i] = "upstream.rcv"} = {}
    OBVIOUS
  <2> QED
    BY <1>1, <2>1, <2>2, CountNat, FS_EmptySet DEF Count
<1> QED
  BY <1>1, <1>2, <1>3, <1>4, <1>5 DEF IInv

LEMMA NextInv == IInv /\ [PipeNext]_pipevars => IInv'
<1> SUFFICES ASSUME IInv, [PipeNext]_pipevars PROVE IInv'
  OBVIOUS
<1>1. CASE ClientConnect
  BY <1>1, ConnectStep
<1>2. CASE ClientLost
  BY <1>2, DropStep DEF ClientLost
<1>3. CASE SendBegin
  BY <1>3, BeginStep
<1>4. CASE Write
  BY <1>4, WriteStep
<1>5. CASE SendEnd
  BY <1>5, EndStep
<1>6. ASSUME NEW s \in Conns, ServerTakes(s) PROVE IInv'
  BY <1>6, ForwardStep, LoseStep DEF ServerTakes
<1>7. CASE ServerLink
  BY <1>7, ServerLinkStep
<1>8. CASE UpstreamRun
  BY <1>8, UpstreamStep DEF UpstreamRun, run
<1>9. ASSUME NEW k \in Links, UpstreamCallback(k) PROVE IInv'
  BY <1>9, CallbackStep
<1>10. ASSUME NEW k \in Links, UpstreamHandles(k) PROVE IInv'
  BY <1>10, HandleStep
<1>11. ASSUME NEW k \in Links, NEW how \in {"eof", "reset"}, LinkEnds(k, how) PROVE IInv'
  BY <1>11, UpstreamStep DEF LinkEnds, PeerClose
<1>12. CASE UNCHANGED pipevars
  BY <1>12, UpstreamStep DEF pipevars, vars
<1> QED
  BY <1>1, <1>2, <1>3, <1>4, <1>5, <1>6, <1>7, <1>8, <1>9, <1>10, <1>11, <1>12 DEF PipeNext

(* Each receipt is that of a frame, and each frame was begun once. *)
LEMMA InvOncePerTry == IInv => OncePerTry
<1> SUFFICES ASSUME IInv, NEW m \in Msgs
             PROVE  Count(m, "upstream.rcv") <= Count(m, "client.snd_begin")
  BY DEF OncePerTry
<1> USE DEF IInv
<1>1. /\ IsFiniteSet(FramesOf(m))
      /\ Cardinality(FramesOf(m)) + (IF stage = "begun" /\ cur = m THEN 1 ELSE 0)
            <= Count(m, "client.snd_begin")
      /\ Count(m, "upstream.rcv") <= Cardinality(HandledOf(m))
  BY DEF CountInv
<1>2. /\ Cardinality(HandledOf(m)) <= Cardinality(FramesOf(m))
      /\ Cardinality(HandledOf(m)) \in Nat /\ Cardinality(FramesOf(m)) \in Nat
  <2>1. HandledOf(m) \subseteq FramesOf(m)
    BY DEF HandledOf
  <2>2. IsFiniteSet(HandledOf(m)) /\ Cardinality(HandledOf(m)) <= Cardinality(FramesOf(m))
    BY <1>1, <2>1, FS_Subset
  <2> QED
    BY <1>1, <2>2, FS_CardinalityType
<1>3. Count(m, "client.snd_begin") \in Nat /\ Count(m, "upstream.rcv") \in Nat
  BY CountNat
<1> QED
  BY <1>1, <1>2, <1>3

(***************************************************************************)
(* End to end, whatever breaks and however often a round is sent again:    *)
(* upstream.rcv of a message is recorded at most once for each             *)
(* client.snd_begin of it, and never before.                               *)
(***************************************************************************)
THEOREM OncePerTryHolds == PipeSpec => []OncePerTry
BY InitInv, NextInv, InvOncePerTry, PTL DEF PipeSpec

-----------------------------------------------------------------------------
(***************************************************************************)
(* The upstream alone, as TcpUpstream specifies it: what it promises does  *)
(* not rest on what the server sends.                                      *)
(***************************************************************************)
(* The link being parsed has a message left that has arrived. *)
AloneParse ==
    /\ \A k \in Links : handled[k] <= arrived[k]
    /\ parsing # NoLink =>
          /\ handled[parsing] < batch
          /\ batch <= arrived[parsing]

AloneType == TypeOK /\ AloneParse

AloneInv == AloneType /\ SessionOwned

LEMMA AloneInit == Init => AloneInv
BY UpstreamAssumption
   DEF Init, Start, AloneInv, AloneType, TypeOK, AloneParse, SessionOwned

-----------------------------------------------------------------------------
LEMMA MessageType ==
  ASSUME AloneType, NEW k \in Links, tcp_upstream_on_message(k)
  PROVE  AloneType'
<1>1. /\ batch' \in Nat
      /\ handled[k] < batch' /\ batch' <= arrived[k]
      /\ batch' \in 0 .. MaxMsg
  BY UpstreamAssumption DEF AloneType, TypeOK, tcp_upstream_on_message
<1>2. TypeOK'
  BY <1>1 DEF AloneType, TypeOK, tcp_upstream_on_message, loopvars
<1>3. AloneParse'
  BY <1>1 DEF AloneType, AloneParse, tcp_upstream_on_message
<1> QED
  BY <1>2, <1>3 DEF AloneType

LEMMA HandleMessageType ==
  ASSUME AloneType, NEW k \in Links, tcp_upstream_handle_message(k)
  PROVE  AloneType'
<1>1. /\ parsing = k /\ k # NoLink
      /\ handled[k] \in Nat /\ batch \in Nat /\ arrived[k] \in 0 .. MaxMsg
      /\ handled[k] < batch /\ batch <= arrived[k]
  BY UpstreamAssumption DEF AloneType, TypeOK, AloneParse, tcp_upstream_handle_message
<1>2. handled[k] + 1 \in 0 .. MaxMsg /\ handled[k] + 1 <= arrived[k]
  BY <1>1, UpstreamAssumption
<1>3. TypeOK'
  BY <1>2 DEF AloneType, TypeOK, tcp_upstream_handle_message, loopvars
<1>4. AloneParse'
  BY <1>1, <1>2 DEF AloneType, TypeOK, AloneParse, tcp_upstream_handle_message,
                    LastOfBatch
<1> QED
  BY <1>3, <1>4 DEF AloneType

LEMMA PeerSendType ==
  ASSUME AloneType, NEW k \in Links, PeerSend(k)
  PROVE  AloneType'
<1>1. arrived[k] \in 0 .. MaxMsg /\ arrived[k] + 1 \in 0 .. MaxMsg
  BY UpstreamAssumption DEF AloneType, TypeOK, PeerSend
<1>2. TypeOK'
  BY <1>1 DEF AloneType, TypeOK, PeerSend, loopvars
<1>3. AloneParse'
  BY <1>1, UpstreamAssumption DEF AloneType, TypeOK, AloneParse, PeerSend
<1> QED
  BY <1>2, <1>3 DEF AloneType

(* The other steps leave the messages alone. *)
LEMMA OtherType ==
  ASSUME AloneType,
         UNCHANGED <<arrived, handled, parsing, batch>>,
         phase' \in {"listen", "run"},
         st' \in [Links -> {"unused", "live", "closed", "released"}],
         sock' \in [Links -> {"open", "eof", "reset", "shut"}],
         session' \subseteq Links
  PROVE  AloneType'
BY DEF AloneType, TypeOK, AloneParse

LEMMA AloneTypeStep ==
  ASSUME AloneType, [Next]_vars
  PROVE  AloneType'
<1>1. ASSUME run \/ Retry \/ Quiet \/ UNCHANGED vars
      PROVE  AloneType'
  BY <1>1, OtherType DEF run, Retry, Quiet, vars, loopvars, AloneType, TypeOK
<1>2. ASSUME NEW k \in Links, tcp_upstream_on_connect(k)
      PROVE  AloneType'
  BY <1>2, OtherType DEF tcp_upstream_on_connect, AloneType, TypeOK
<1>3. ASSUME NEW k \in Links,
             tcp_upstream_on_close(k) \/ tcp_upstream_on_release(k)
      PROVE  AloneType'
  BY <1>3, OtherType DEF tcp_upstream_on_close, tcp_upstream_on_release,
                         DeleteSession, AloneType, TypeOK
<1>4. ASSUME NEW k \in Links, NEW how \in {"eof", "reset"}, PeerClose(k, how)
      PROVE  AloneType'
  BY <1>4, OtherType DEF PeerClose, AloneType, TypeOK
<1> QED
  BY <1>1, <1>2, <1>3, <1>4, MessageType, HandleMessageType, PeerSendType
     DEF Next, Callback

-----------------------------------------------------------------------------
LEMMA AloneOwnedStep ==
  ASSUME AloneInv, [Next]_vars
  PROVE  SessionOwned'
<1> USE DEF AloneInv, AloneType, TypeOK, SessionOwned
<1>1. ASSUME run \/ Retry \/ Quiet \/ UNCHANGED vars
      PROVE  SessionOwned'
  BY <1>1 DEF run, Retry, Quiet, vars, loopvars
<1>2. ASSUME NEW k \in Links, tcp_upstream_on_connect(k)
      PROVE  SessionOwned'
  BY <1>2 DEF tcp_upstream_on_connect, LoopIdle
<1>3. ASSUME NEW k \in Links, tcp_upstream_on_message(k)
      PROVE  SessionOwned'
  BY <1>3 DEF tcp_upstream_on_message, loopvars
<1>4. ASSUME NEW k \in Links, tcp_upstream_handle_message(k)
      PROVE  SessionOwned'
  BY <1>4 DEF tcp_upstream_handle_message, loopvars
<1>5. ASSUME NEW k \in Links, tcp_upstream_on_close(k)
      PROVE  SessionOwned'
  BY <1>5 DEF tcp_upstream_on_close, LoopIdle
<1>6. ASSUME NEW k \in Links, tcp_upstream_on_release(k)
      PROVE  SessionOwned'
  BY <1>6 DEF tcp_upstream_on_release, LoopIdle, DeleteSession
<1>7. ASSUME NEW k \in Links, PeerSend(k)
      PROVE  SessionOwned'
  BY <1>7 DEF PeerSend, loopvars
<1>8. ASSUME NEW k \in Links, NEW how \in {"eof", "reset"}, PeerClose(k, how)
      PROVE  SessionOwned'
  BY <1>8 DEF PeerClose
<1> QED
  BY <1>1, <1>2, <1>3, <1>4, <1>5, <1>6, <1>7, <1>8 DEF Next, Callback

LEMMA AloneCorrect == Spec => []AloneInv
<1>1. AloneInv /\ [Next]_vars => AloneInv'
  BY AloneTypeStep, AloneOwnedStep DEF AloneInv
<1> QED
  BY <1>1, AloneInit, PTL DEF Spec

(***************************************************************************)
(* Whatever the servers do, the variables of the program keep their types. *)
(***************************************************************************)
THEOREM UpstreamTypeCorrect == Spec => []TypeOK
<1>1. AloneInv => TypeOK
  BY DEF AloneInv, AloneType
<1> QED
  BY <1>1, AloneCorrect, PTL

(***************************************************************************)
(* The loop never parses for a context that is closed, and on_release      *)
(* leaves no session behind.                                               *)
(***************************************************************************)
THEOREM SessionOwnedHolds == Spec => []SessionOwned
<1>1. AloneInv => SessionOwned
  BY DEF AloneInv
<1> QED
  BY <1>1, AloneCorrect, PTL

-----------------------------------------------------------------------------
LEMMA StreamsInit == Init => \A k \in Links : Stream(k)!Init
BY DEF Init, Start, Stream!Init

LEMMA StreamStep ==
  ASSUME AloneInv, [Next]_vars, NEW k \in Links
  PROVE  Stream(k)!Next \/ UNCHANGED Stream(k)!vars
<1> USE DEF AloneInv, AloneType, TypeOK, Stream!vars
<1>1. ASSUME run \/ Retry \/ Quiet \/ UNCHANGED vars
      PROVE  UNCHANGED Stream(k)!vars
  BY <1>1 DEF run, Retry, Quiet, vars, loopvars
<1>2. ASSUME NEW l \in Links, tcp_upstream_on_connect(l)
      PROVE  UNCHANGED Stream(k)!vars
  BY <1>2 DEF tcp_upstream_on_connect
<1>3. ASSUME NEW l \in Links, tcp_upstream_on_message(l)
      PROVE  UNCHANGED Stream(k)!vars
  BY <1>3 DEF tcp_upstream_on_message, loopvars
<1>4. ASSUME NEW l \in Links, tcp_upstream_handle_message(l)
      PROVE  Stream(k)!Next \/ UNCHANGED Stream(k)!vars
  <2>1. /\ handled[l] < arrived[l]
        /\ st[l] = "live"
    BY <1>4, UpstreamAssumption
       DEF AloneParse, SessionOwned, tcp_upstream_handle_message
  <2>2. CASE l = k
    BY <1>4, <2>1, <2>2
       DEF tcp_upstream_handle_message, loopvars, Stream!Next, Stream!Handle
  <2>3. CASE l # k
    BY <1>4, <2>3 DEF tcp_upstream_handle_message, loopvars
  <2> QED
    BY <2>2, <2>3
<1>5. ASSUME NEW l \in Links, tcp_upstream_on_close(l)
      PROVE  Stream(k)!Next \/ UNCHANGED Stream(k)!vars
  BY <1>5 DEF tcp_upstream_on_close, Stream!Next, Stream!Close
<1>6. ASSUME NEW l \in Links, tcp_upstream_on_release(l)
      PROVE  UNCHANGED Stream(k)!vars
  BY <1>6 DEF tcp_upstream_on_release
<1>7. ASSUME NEW l \in Links, PeerSend(l)
      PROVE  Stream(k)!Next \/ UNCHANGED Stream(k)!vars
  <2>1. /\ arrived[l] \in Nat
        /\ arrived'[k] = IF l = k THEN arrived[k] + 1 ELSE arrived[k]
    BY <1>7, UpstreamAssumption DEF PeerSend
  <2>2. CASE l = k
    BY <1>7, <2>1, <2>2 DEF PeerSend, loopvars, Stream!Next, Stream!Arrive
  <2>3. CASE l # k
    BY <1>7, <2>1, <2>3 DEF PeerSend, loopvars
  <2> QED
    BY <2>2, <2>3
<1>8. ASSUME NEW l \in Links, NEW how \in {"eof", "reset"}, PeerClose(l, how)
      PROVE  UNCHANGED Stream(k)!vars
  BY <1>8 DEF PeerClose
<1> QED
  BY <1>1, <1>2, <1>3, <1>4, <1>5, <1>6, <1>7, <1>8 DEF Next, Callback

(***************************************************************************)
(* Every link is a MessageStream: what arrives on it is recorded in order, *)
(* once, and before its close, although all links share one loop.          *)
(***************************************************************************)
THEOREM StreamsHold == Spec => StreamsSpec
<1>1. AloneInv /\ [Next]_vars
        => [\A k \in Links : Stream(k)!Next \/ UNCHANGED Stream(k)!vars]_vars
  BY StreamStep
<1> QED
  BY <1>1, StreamsInit, AloneCorrect, PTL DEF Spec, StreamsSpec

-----------------------------------------------------------------------------
(***************************************************************************)
(* The upstream in the pipeline, where the server decides what arrives.    *)
(***************************************************************************)
LoopTypeOK ==
    /\ st \in [Links -> {"unused", "live", "closed", "released"}]
    /\ sock \in [Links -> {"open", "eof", "reset", "shut"}]
    /\ session \subseteq Links

PipeInv == IInv /\ LoopTypeOK /\ SessionOwned

(* The client does not touch the upstream, and the server only what has arrived. *)
LEMMA OthersSteps ==
  ASSUME IInv,
         \/ ClientConnect \/ ClientLost \/ SendBegin \/ Write \/ SendEnd
         \/ \E s \in Conns : ServerTakes(s)
         \/ ServerLink
         \/ UNCHANGED pipevars
  PROVE  /\ UNCHANGED <<loopvars, handled, parsing, batch>>
         /\ \/ UNCHANGED arrived
            \/ LogKept /\ arrived = OnLinks /\ arrived' = OnLinks'
<1>1. CASE ClientConnect \/ ClientLost \/ SendBegin \/ Write \/ SendEnd \/ UNCHANGED pipevars
  BY <1>1 DEF ClientConnect, ClientLost, SendBegin, Write, SendEnd, pipevars, vars
<1>2. ASSUME NEW s \in Conns, ServerTakes(s)
      PROVE  ServerLeaves /\ LogKept
  BY <1>2, ForwardStep, LoseStep DEF ServerTakes
<1>3. ASSUME ServerLink
      PROVE  ServerLeaves /\ LogKept
  BY <1>3, ServerLinkStep
<1>4. arrived = OnLinks
  BY DEF IInv, UpstreamInv
<1>5. CASE ServerLeaves /\ LogKept
  BY <1>4, <1>5 DEF ServerLeaves
<1> QED
  BY <1>1, <1>2, <1>3, <1>5

LEMMA PipeOwnedStep ==
  ASSUME PipeInv, [PipeNext]_pipevars
  PROVE  LoopTypeOK' /\ SessionOwned'
<1> USE DEF PipeInv, LoopTypeOK, SessionOwned
<1>1. ASSUME UNCHANGED <<loopvars, parsing>>
      PROVE  LoopTypeOK' /\ SessionOwned'
  BY <1>1 DEF loopvars
<1>2. CASE UpstreamRun
  BY <1>2 DEF UpstreamRun, run
<1>3. ASSUME NEW k \in Links, UpstreamCallback(k)
      PROVE  LoopTypeOK' /\ SessionOwned'
  <2>1. CASE tcp_upstream_on_connect(k)
    BY <2>1 DEF tcp_upstream_on_connect, LoopIdle
  <2>2. CASE tcp_upstream_on_message(k)
    BY <2>2 DEF tcp_upstream_on_message, loopvars
  <2>3. CASE tcp_upstream_on_close(k)
    BY <2>3 DEF tcp_upstream_on_close, LoopIdle
  <2>4. CASE tcp_upstream_on_release(k)
    BY <2>4 DEF tcp_upstream_on_release, LoopIdle, DeleteSession
  <2> QED
    BY <1>3, <2>1, <2>2, <2>3, <2>4 DEF UpstreamCallback
<1>4. ASSUME NEW k \in Links, UpstreamHandles(k)
      PROVE  LoopTypeOK' /\ SessionOwned'
  BY <1>4 DEF UpstreamHandles, tcp_upstream_handle_message, loopvars
<1>5. ASSUME NEW k \in Links, NEW how \in {"eof", "reset"}, LinkEnds(k, how)
      PROVE  LoopTypeOK' /\ SessionOwned'
  BY <1>5 DEF LinkEnds, PeerClose
<1> QED
  BY <1>1, <1>2, <1>3, <1>4, <1>5, OthersSteps DEF PipeNext

LEMMA PipeStreamStep ==
  ASSUME PipeInv, PipeInv', [PipeNext]_pipevars, NEW k \in Links
  PROVE  Stream(k)!Next \/ UNCHANGED Stream(k)!vars
<1> USE DEF Stream!vars
<1>1. ASSUME LogKept, arrived = OnLinks, arrived' = OnLinks',
             UNCHANGED <<loopvars, handled>>
      PROVE  Stream(k)!Next \/ UNCHANGED Stream(k)!vars
  <2>1. /\ arrived[k] \in Nat /\ arrived'[k] \in Nat
        /\ arrived[k] <= arrived'[k]
    BY <1>1, LinksGrow DEF PipeInv, IInv, OnLinks
  <2> QED
    BY <1>1, <2>1 DEF loopvars, Stream!Next, Stream!Arrive
<1>2. ASSUME UNCHANGED <<st, arrived, handled>>
      PROVE  UNCHANGED Stream(k)!vars
  BY <1>2
<1>3. ASSUME NEW l \in Links, UpstreamCallback(l)
      PROVE  Stream(k)!Next \/ UNCHANGED Stream(k)!vars
  <2>1. CASE tcp_upstream_on_connect(l)
    BY <2>1 DEF tcp_upstream_on_connect, PipeInv, LoopTypeOK
  <2>2. CASE tcp_upstream_on_message(l)
    BY <2>2 DEF tcp_upstream_on_message, loopvars
  <2>3. CASE tcp_upstream_on_close(l)
    BY <2>3 DEF tcp_upstream_on_close, PipeInv, LoopTypeOK, Stream!Next, Stream!Close
  <2>4. CASE tcp_upstream_on_release(l)
    BY <2>4 DEF tcp_upstream_on_release, PipeInv, LoopTypeOK
  <2> QED
    BY <1>3, <2>1, <2>2, <2>3, <2>4 DEF UpstreamCallback
<1>4. ASSUME NEW l \in Links, UpstreamHandles(l)
      PROVE  Stream(k)!Next \/ UNCHANGED Stream(k)!vars
  <2>1. tcp_upstream_handle_message(l) /\ parsing = l /\ parsing # NoLink
    BY <1>4, UpstreamAssumption DEF UpstreamHandles, tcp_upstream_handle_message
  <2>2. st[l] = "live" /\ handled \in [Links -> Nat]
    BY <2>1 DEF PipeInv, SessionOwned, IInv, PipelineTypeOK
  <2>3. handled[l] < arrived[l]
    <3>1. /\ handled[l] < batch /\ batch <= Len(OnLink(l)) /\ arrived[l] = Len(OnLink(l))
      BY <2>1 DEF PipeInv, IInv, UpstreamInv, OnLinks
    <3>2. handled[l] \in Nat /\ batch \in Nat /\ Len(OnLink(l)) \in Nat
      BY <2>2, OnLinkFacts DEF PipeInv, IInv, PipelineTypeOK
    <3> QED
      BY <3>1, <3>2
  <2>4. CASE l = k
    BY <2>1, <2>2, <2>3, <2>4
       DEF tcp_upstream_handle_message, loopvars, Stream!Next, Stream!Handle
  <2>5. CASE l # k
    BY <2>1, <2>2, <2>5 DEF tcp_upstream_handle_message, loopvars
  <2> QED
    BY <2>4, <2>5
<1>5. ASSUME NEW l \in Links, NEW how \in {"eof", "reset"}, LinkEnds(l, how)
      PROVE  UNCHANGED Stream(k)!vars
  BY <1>5 DEF LinkEnds, PeerClose
<1>6. CASE UpstreamRun
  BY <1>6 DEF UpstreamRun, run
<1> QED
  BY <1>1, <1>2, <1>3, <1>4, <1>5, <1>6, OthersSteps DEF PipeInv, PipeNext, loopvars

LEMMA PipeCorrect == PipeSpec => []PipeInv
<1>1. PipeInit => PipeInv
  BY InitInv, UpstreamAssumption
     DEF PipeInit, Init, Start, PipeInv, LoopTypeOK, SessionOwned
<1>2. PipeInv /\ [PipeNext]_pipevars => PipeInv'
  BY NextInv, PipeOwnedStep DEF PipeInv
<1> QED
  BY <1>1, <1>2, PTL DEF PipeSpec

(***************************************************************************)
(* Behind tcp_server, too, no callback of the upstream runs for a context  *)
(* without a session, or for one that is closed.                           *)
(***************************************************************************)
THEOREM PipeSessionOwned == PipeSpec => []SessionOwned
<1>1. PipeInv => SessionOwned
  BY DEF PipeInv
<1> QED
  BY <1>1, PipeCorrect, PTL

(***************************************************************************)
(* Every link is a MessageStream of what tcp_server has written whole on   *)
(* its connections, through any loss of them.                              *)
(***************************************************************************)
THEOREM PipeStreams == PipeSpec => StreamsSpec
<1>1. PipeInit => \A k \in Links : Stream(k)!Init
  BY StreamsInit DEF PipeInit
<1>2. PipeInv /\ PipeInv' /\ [PipeNext]_pipevars
        => [\A k \in Links : Stream(k)!Next \/ UNCHANGED Stream(k)!vars]_vars
  BY PipeStreamStep
<1> QED
  BY <1>1, <1>2, PipeCorrect, PTL DEF PipeSpec, StreamsSpec
=============================================================================
