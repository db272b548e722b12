----------------------- MODULE ClientArithmeticProofs -----------------------
(***************************************************************************)
(* Proofs about what tcp_client and udp_client compute: the payloads of    *)
(* PayloadLayout, for every number of sizes, messages and rounds and every *)
(* width of uint32_t, and the clock of RoundTimer, for every interval and  *)
(* resolution.                                                             *)
(***************************************************************************)
EXTENDS PayloadLayout, RoundTimer, TLAPS

(***************************************************************************)
(* The clock.                                                              *)
(***************************************************************************)
ClockTypeOK ==
    /\ client \in {"tcp_client", "udp_client"}
    /\ gap \in Int
    /\ last_sub \in 0 .. TicksPerMs - 1
    /\ since \in Int
    /\ set \subseteq {"forward", "back"}

(***************************************************************************)
(* As long as the clock is not set forward it shows no more time than has  *)
(* passed since last_ts, and no less as long as it is not set back.  Only  *)
(* tcp_client ever waits for a last_ts that lies ahead.                    *)
(***************************************************************************)
ClockInv ==
    /\ "forward" \notin set => gap <= since
    /\ "back" \notin set => gap >= since
    /\ client = "udp_client" => since >= 0

LEMMA ClockFacts ==
    /\ {Wrap, TicksPerMs} \subseteq Nat \ {0}
    /\ {IntervalMs, CliWaitMs, MaxGap, MaxBack} \subseteq Nat
BY TimerAssumption

LEMMA ClockInit == TimerInit => ClockTypeOK /\ ClockInv
<1> SUFFICES ASSUME TimerInit
             PROVE  ClockTypeOK /\ ClockInv
  OBVIOUS
<1>1. TicksPerMs \in Nat /\ CliWaitMs \in Nat
  BY ClockFacts
<1>2. CliWaitMs * TicksPerMs \in Nat
  BY <1>1
<1>3. -Wait \in Int /\ (client = "udp_client" => -Wait >= 0)
  BY <1>2 DEF Wait, TimerInit
<1> QED
  BY <1>3 DEF ClockTypeOK, ClockInv, TimerInit

LEMMA ClockNext ==
  ASSUME ClockTypeOK, ClockInv, [TimerNext]_timervars
  PROVE  ClockTypeOK' /\ ClockInv'
<1> USE DEF ClockTypeOK, ClockInv
<1>1. CASE Tick
  BY <1>1 DEF Tick
<1>2. CASE SetClock
  <2>1. gap' \in Int
    BY <1>2, ClockFacts DEF SetClock
  <2>2. CASE gap' < gap
    BY <1>2, <2>1, <2>2 DEF SetClock
  <2>3. CASE gap' > gap
    BY <1>2, <2>1, <2>3 DEF SetClock
  <2> QED
    BY <1>2, <2>1, <2>2, <2>3 DEF SetClock
<1>3. CASE StartRound
  <2>1. \A a \in Int : a % TicksPerMs \in 0 .. TicksPerMs - 1
    BY ClockFacts
  <2>2. last_sub' \in 0 .. TicksPerMs - 1
    BY <1>3, <2>1, ClockFacts DEF StartRound
  <2> QED
    BY <1>3, <2>2 DEF StartRound
<1>4. CASE UNCHANGED timervars
  BY <1>4 DEF timervars, clockvars
<1> QED
  BY <1>1, <1>2, <1>3, <1>4
     DEF TimerNext, NotDue, Completed

(* Truncated to milliseconds, and cut to 32 bits, a time gets no longer. *)
LEMMA Truncated ==
  ASSUME NEW T \in Nat \ {0}, NEW M \in Nat \ {0}, NEW n \in Nat, NEW a \in Int
  PROVE  /\ a \div T >= n => a >= n * T
         /\ a >= 0 /\ (a \div T) % M >= n => a >= n * T
<1>1. a \div T \in Int /\ a >= (a \div T) * T
  BY Z3
<1>2. \A d \in Int : d >= n => d * T >= n * T
  BY Z3
<1>3. a >= 0 => a \div T >= 0
  BY Z3
<1>4. \A d \in Nat : d % M <= d /\ d % M \in Nat
  BY Z3
<1>5. n * T \in Int /\ (a \div T) * T \in Int
  BY <1>1
<1> QED
  BY <1>1, <1>2, <1>3, <1>4, <1>5

LEMMA ClockInTime ==
  ASSUME ClockTypeOK, ClockInv, StartRound,
         "forward" \notin set, client = "udp_client" => "back" \notin set
  PROVE  InTime
<1> DEFINE a == last_sub + gap
<1>1. /\ a \in Int /\ TicksPerMs \in Nat \ {0} /\ IntervalMs \in Nat
      /\ Wrap \in Nat \ {0}
  BY ClockFacts DEF ClockTypeOK
<1>2. a >= IntervalMs * TicksPerMs
  <2>1. CASE client = "udp_client"
    <3>1. a >= 0
      BY <2>1, ClockFacts DEF ClockTypeOK, ClockInv
    <3>2. (a \div TicksPerMs) % Wrap >= IntervalMs
      BY <2>1 DEF StartRound, Due, elapsed_ms, Difference
    <3> QED
      BY <1>1, <3>1, <3>2, Truncated
  <2>2. CASE client # "udp_client"
    <3>1. a \div TicksPerMs >= IntervalMs
      BY <2>2 DEF StartRound, Due, elapsed_ms, Difference
    <3> QED
      BY <1>1, <3>1, Truncated
  <2> QED
    BY <2>1, <2>2
<1>3. (IntervalMs - 1) * TicksPerMs = IntervalMs * TicksPerMs - TicksPerMs
  BY <1>1
<1>4. IntervalMs * TicksPerMs \in Int
  BY <1>1
<1>5. gap <= since /\ last_sub <= TicksPerMs - 1
  BY DEF ClockInv, ClockTypeOK
<1> QED
  BY <1>1, <1>2, <1>3, <1>4, <1>5 DEF InTime, ClockTypeOK

(***************************************************************************)
(* --round.interval and --cli.wait: no round starts a millisecond early    *)
(* unless the clock was set since the one before, for tcp_client forward.  *)
(***************************************************************************)
THEOREM PacedHolds == TimerSpec => Paced
<1> DEFINE I == ClockTypeOK /\ ClockInv
<1>1. TimerInit => I
  BY ClockInit
<1>2. I /\ [TimerNext]_timervars => I'
  BY ClockNext
<1>3. I => (StartRound =>
               \/ InTime
               \/ "forward" \in set
               \/ client = "udp_client" /\ "back" \in set)
  BY ClockInTime
<1> QED
  BY <1>1, <1>2, <1>3, PTL DEF TimerSpec, Paced

-----------------------------------------------------------------------------
(***************************************************************************)
(* The payloads.                                                           *)
(***************************************************************************)
Total == num_per_round * round_num

Phases == {"main", "fill", "send", "done", "crashed"}

Keys == [size : Nat, id : Nat]

LayoutTypeOK ==
    /\ program \in {"tcp_client", "udp_client"}
    /\ arg \in Nat
    /\ num_per_round \in 1 .. MaxNumPer
    /\ round_num \in 1 .. MaxRounds
    /\ phase \in Phases
    /\ run_index \in 0 .. Runs
    /\ phase \in {"fill", "send"} => run_index # 0 /\ ~TooSmall(msg_size)
    /\ i \in Nat
    /\ phase = "send" => i <= Total
    /\ sent \in Seq(Keys)

LEMMA LayoutFacts ==
    /\ Modulus \in Nat \ {0} /\ NumSizes \in 1 .. 7
    /\ MaxNumPer \in Nat \ {0} /\ MaxRounds \in Nat \ {0}
    /\ SizeArgs \subseteq Nat
BY LayoutAssumption

(* The sizes of the array grow, and none is too small for header and data. *)
LEMMA SizesDiffer ==
  ASSUME NEW j \in 1 .. NumSizes, NEW k \in 1 .. NumSizes
  PROVE  /\ msg_size_arr[j] \in Nat
         /\ msg_size_arr[j] >= Fields
         /\ msg_size_arr[j] = msg_size_arr[k] => j = k
<1>1. j \in 1 .. 7 /\ k \in 1 .. 7
  BY LayoutFacts
<1>2. /\ msg_size_arr[j] = <<4, 8, 16, 32, 64, 128, 256>>[j]
      /\ msg_size_arr[k] = <<4, 8, 16, 32, 64, 128, 256>>[k]
  BY DEF msg_size_arr
<1> QED
  BY <1>1, <1>2, SMTT(30) DEF Fields

LEMMA SizeFacts ==
  ASSUME LayoutTypeOK, NEW k \in 1 .. Runs
  PROVE  /\ SizeOf(k) \in Nat
         /\ arg = 0 => k \in 1 .. NumSizes /\ ~TooSmall(SizeOf(k))
         /\ \A j \in 1 .. Runs : SizeOf(j) = SizeOf(k) => j = k
<1>1. CASE arg = 0
  <2>1. Runs = NumSizes /\ \A j : SizeOf(j) = msg_size_arr[j]
    BY <1>1 DEF Runs, SizeOf
  <2>2. msg_size_arr[k] \in Nat /\ msg_size_arr[k] >= Fields
    BY <2>1, SizesDiffer
  <2>3. ~(msg_size_arr[k] < Fields)
    BY <2>2 DEF Fields
  <2> QED
    BY <2>1, <2>2, <2>3, SizesDiffer DEF TooSmall
<1>2. CASE arg # 0
  BY <1>2 DEF Runs, SizeOf, LayoutTypeOK
<1> QED
  BY <1>1, <1>2

LEMMA TotalFacts ==
  ASSUME LayoutTypeOK
  PROVE  /\ num_per_round \in Nat \ {0} /\ round_num \in Nat \ {0}
         /\ Total \in Nat \ {0}
<1>1. num_per_round \in Nat \ {0} /\ round_num \in Nat \ {0}
  BY LayoutFacts DEF LayoutTypeOK
<1>2. \A a, b \in Nat \ {0} : a * b \in Nat \ {0}
  BY Z3
<1> QED
  BY <1>1, <1>2 DEF Total

(* The round and the place in it are those of the message's number. *)
LEMMA RoundOf ==
  ASSUME NEW m \in Nat, NEW n \in Nat \ {0}, NEW r \in Nat
  PROVE  /\ m \div n \in Nat /\ m % n \in 0 .. n - 1
         /\ (m \div n) * n + (m % n) = m
         /\ m \div n < r <=> m < n * r
<1>1. /\ m \div n \in Nat /\ m % n \in 0 .. n - 1
      /\ (m \div n) * n + (m % n) = m
  BY Z3
<1>2. ASSUME NEW d \in Nat, NEW e \in 0 .. n - 1, d * n + e = m
      PROVE  d < r <=> m < n * r
  <2>1. d < r => (d + 1) * n <= n * r
    BY Z3
  <2>2. (d + 1) * n = d * n + n
    BY Z3
  <2>3. ~(d < r) => d * n >= n * r
    BY Z3
  <2>4. d * n \in Nat /\ n * r \in Nat
    OBVIOUS
  <2> QED
    BY <1>2, <2>1, <2>2, <2>3, <2>4
<1> QED
  BY <1>1, <1>2

LEMMA NoWrapFacts == \A x \in Nat : x < Modulus => uint32(x) = x
<1>1. \A m \in Nat \ {0}, x \in Nat : x < m => x % m = x
  BY Z3
<1> QED
  BY <1>1, LayoutFacts DEF uint32

(* on_timer goes on as long as there are messages left. *)
LEMMA MessagesLeft ==
  ASSUME LayoutTypeOK
  PROVE  round_index < round_num <=> i < Total
BY TotalFacts, RoundOf DEF LayoutTypeOK, round_index, Total

(* The sequence on_timer asserts is the number of the message. *)
LEMMA SequenceIs ==
  ASSUME LayoutTypeOK, i < Modulus
  PROVE  Sequence = i
<1> DEFINE a == round_index * num_per_round
           b == i % num_per_round
<1>1. a \in Nat /\ b \in Nat /\ a + b = i /\ i \in Nat
  <2>1. i \in Nat /\ num_per_round \in Nat \ {0} /\ 0 \in Nat
    BY TotalFacts DEF LayoutTypeOK
  <2>2. /\ round_index \in Nat /\ b \in 0 .. num_per_round - 1
        /\ a + b = i
    BY <2>1, RoundOf DEF round_index
  <2> QED
    BY <2>1, <2>2
<1>2. a < Modulus
  BY <1>1, LayoutFacts
<1>3. uint32(a) = a
  BY <1>1, <1>2, NoWrapFacts
<1> HIDE DEF a, b
<1>4. uint32(a + b) = i
  BY <1>1, NoWrapFacts
<1>5. Sequence = uint32(uint32(a) + b)
  BY DEF Sequence, a, b
<1> QED
  BY <1>3, <1>4, <1>5

-----------------------------------------------------------------------------
LEMMA LayoutInit == Init => LayoutTypeOK
<1> SUFFICES ASSUME Init PROVE LayoutTypeOK
  OBVIOUS
<1>1. Runs \in Nat
  BY LayoutFacts DEF Runs
<1> QED
  BY <1>1, LayoutFacts DEF Init, LayoutTypeOK, Phases

LEMMA LayoutNext == LayoutTypeOK /\ [Next]_vars => LayoutTypeOK'
<1> SUFFICES ASSUME LayoutTypeOK, [Next]_vars PROVE LayoutTypeOK'
  OBVIOUS
<1>1. UNCHANGED args
  BY DEF Next, StartRun, ExitMain, FillMessage, EnterLoop, SendMessage, ExitLoop,
         Ended, vars
<1>2. /\ UNCHANGED <<program, arg, num_per_round, round_num>>
      /\ Runs' = Runs /\ Total' = Total /\ \A k : SizeOf(k)' = SizeOf(k)
      /\ Runs \in Nat /\ Total \in Nat
  BY <1>1, TotalFacts, LayoutFacts DEF args, Runs, Total, SizeOf
<1>3. CASE StartRun
  <2>1. run_index' \in 1 .. Runs
    BY <1>2, <1>3 DEF StartRun, LayoutTypeOK
  <2>2. phase' \in {"main", "fill"}
    BY <1>3 DEF StartRun
  <2>3. phase' = "fill" => ~TooSmall(msg_size)'
    BY <1>2, <1>3 DEF StartRun, TooSmall, msg_size
  <2> QED
    BY <1>2, <1>3, <2>1, <2>2, <2>3 DEF StartRun, LayoutTypeOK, Phases
<1>4. ASSUME UNCHANGED run_index
      PROVE  TooSmall(msg_size)' = TooSmall(msg_size)
  BY <1>2, <1>4 DEF TooSmall, msg_size
<1>5. CASE ExitMain \/ FillMessage \/ EnterLoop
  BY <1>2, <1>4, <1>5
     DEF ExitMain, FillMessage, EnterLoop, LayoutTypeOK, Phases
<1>6. CASE SendMessage
  <2>1. i < Total
    BY <1>6, MessagesLeft DEF SendMessage
  <2>2. [size |-> msg_size, id |-> Sequence] \in Keys
    <3>1. msg_size \in Nat
      BY <1>6, SizeFacts DEF SendMessage, LayoutTypeOK, msg_size
    <3>2. \A m \in Nat \ {0}, x \in Int : x % m \in Nat
      BY Z3
    <3>3. uint32(round_index * num_per_round) + (i % num_per_round) \in Int
      <4>1. i \in Nat /\ num_per_round \in Nat \ {0} /\ 0 \in Nat
        BY TotalFacts DEF LayoutTypeOK
      <4>2. round_index \in Nat /\ i % num_per_round \in Nat
        BY <4>1, RoundOf DEF round_index
      <4>3. uint32(round_index * num_per_round) \in Nat
        BY <3>2, <4>1, <4>2, LayoutFacts DEF uint32
      <4> QED
        BY <4>2, <4>3
    <3>4. Sequence \in Nat
      BY <3>2, <3>3, LayoutFacts DEF Sequence, uint32
    <3> QED
      BY <3>1, <3>4 DEF Keys
  <2>3. sent' \in Seq(Keys)
    BY <1>6, <2>2 DEF SendMessage, Recorded, LayoutTypeOK
  <2>4. i + 1 \in Nat /\ i + 1 <= Total
    BY <1>2, <2>1 DEF LayoutTypeOK
  <2> QED
    BY <1>2, <1>4, <1>6, <2>3, <2>4 DEF SendMessage, LayoutTypeOK
<1>7. CASE ExitLoop
  BY <1>2, <1>4, <1>7 DEF ExitLoop, LayoutTypeOK, Phases
<1>8. CASE UNCHANGED vars
  BY <1>2, <1>4, <1>8 DEF vars, LayoutTypeOK
<1> QED
  BY <1>3, <1>5, <1>6, <1>7, <1>8 DEF Next, Ended

(***************************************************************************)
(* Whatever is written behind the buffer: the variables keep their types.  *)
(***************************************************************************)
THEOREM LayoutTypeCorrect == Spec => []LayoutTypeOK
BY LayoutInit, LayoutNext, PTL DEF Spec

-----------------------------------------------------------------------------
(* The messages of one run can be numbered in a uint32_t. *)
NumbersFit == MaxNumPer * MaxRounds <= Modulus

Key(k, m) == [size |-> SizeOf(k), id |-> m]

(* Message m of run k has been sent, or run k was refused for its size. *)
Past(k, m) ==
    \/ k < run_index
    \/ /\ k = run_index
       /\ \/ phase \in {"main", "done"}
          \/ phase = "send" /\ m < i

(***************************************************************************)
(* The records are those of the messages sent, one for each; a run over    *)
(* the array leaves none out.                                              *)
(***************************************************************************)
KeyInv ==
    /\ phase = "done" => run_index = Runs
    /\ \A j \in DOMAIN sent : \E k \in 1 .. Runs : \E m \in 0 .. Total - 1 :
          Past(k, m) /\ sent[j] = Key(k, m)
    /\ arg = 0 =>
          \A k \in 1 .. Runs : \A m \in 0 .. Total - 1 :
             Past(k, m) => \E j \in DOMAIN sent : sent[j] = Key(k, m)
    /\ \A j, l \in DOMAIN sent : sent[j] = sent[l] => j = l

LEMMA TotalFits ==
  ASSUME NumbersFit, LayoutTypeOK
  PROVE  Total <= Modulus
<1>1. /\ num_per_round \in Nat /\ round_num \in Nat /\ MaxRounds \in Nat
      /\ MaxNumPer \in Nat /\ Modulus \in Nat
      /\ num_per_round <= MaxNumPer /\ round_num <= MaxRounds
  BY LayoutFacts DEF LayoutTypeOK
<1>2. \A a, b, c, d \in Nat : a <= c /\ b <= d => a * b <= c * b /\ c * b <= c * d
  BY Z3
<1>3. \A a, b \in Nat : a * b \in Nat
  BY Z3
<1> QED
  BY <1>1, <1>2, <1>3 DEF Total, NumbersFit

LEMMA ArgsKept ==
  ASSUME UNCHANGED args
  PROVE  /\ UNCHANGED <<program, arg, num_per_round, round_num>>
         /\ Runs' = Runs /\ Total' = Total
         /\ \A k, m : Key(k, m)' = Key(k, m)
BY DEF args, Runs, Total, SizeOf, Key

LEMMA KeyInit == Init => KeyInv
<1> SUFFICES ASSUME Init PROVE KeyInv
  OBVIOUS
<1>1. \A k \in 1 .. Runs : \A m \in 0 .. Total - 1 : ~Past(k, m)
  BY LayoutFacts DEF Init, Past, Runs
<1>2. sent = <<>> /\ phase = "main"
  BY DEF Init
<1> QED
  BY <1>1, <1>2 DEF KeyInv

(* A step that sends nothing keeps what is past, or adds a refused run. *)
LEMMA KeyFrame ==
  ASSUME LayoutTypeOK, KeyInv, UNCHANGED <<args, sent>>,
         \A k \in 1 .. Runs : \A m \in 0 .. Total - 1 : Past(k, m) => Past(k, m)',
         arg = 0 => \A k \in 1 .. Runs : \A m \in 0 .. Total - 1 :
                       Past(k, m)' => Past(k, m),
         phase' = "done" => run_index' = Runs
  PROVE  KeyInv'
<1>1. /\ Runs' = Runs /\ Total' = Total /\ arg' = arg /\ sent' = sent
      /\ \A k, m : Key(k, m)' = Key(k, m)
  BY ArgsKept
<1>2. \A j \in DOMAIN sent : \E k \in 1 .. Runs : \E m \in 0 .. Total - 1 :
         Past(k, m)' /\ sent[j] = Key(k, m)
  BY DEF KeyInv
<1>3. arg = 0 =>
         \A k \in 1 .. Runs : \A m \in 0 .. Total - 1 :
             Past(k, m)' => \E j \in DOMAIN sent : sent[j] = Key(k, m)
  BY DEF KeyInv
<1>4. \A j, l \in DOMAIN sent : sent[j] = sent[l] => j = l
  BY DEF KeyInv
<1> QED
  BY <1>1, <1>2, <1>3, <1>4 DEF KeyInv

LEMMA KeySend ==
  ASSUME NumbersFit, LayoutTypeOK, KeyInv, SendMessage
  PROVE  KeyInv'
<1>0. run_index \in 1 .. Runs /\ i \in 0 .. Total - 1
  BY MessagesLeft, TotalFacts DEF SendMessage, LayoutTypeOK
<1> PICK r \in 1 .. Runs : r = run_index
  BY <1>0
<1> PICK n \in 0 .. Total - 1 : n = i
  BY <1>0
<1> DEFINE key == Key(r, n)
<1>1. /\ phase = "send" /\ phase' = "send"
      /\ run_index = r /\ run_index' = r /\ i = n /\ i' = n + 1
  BY DEF SendMessage
<1>2. Sequence = n
  <2>1. i < Modulus
    BY <1>1, TotalFits, TotalFacts, LayoutFacts
  <2> QED
    BY <1>1, <2>1, SequenceIs
<1>3. sent' = Append(sent, key) /\ sent \in Seq(Keys)
  BY <1>1, <1>2 DEF SendMessage, Recorded, LayoutTypeOK, Key, msg_size
<1>4. /\ Runs' = Runs /\ Total' = Total /\ arg' = arg
      /\ \A k, m : Key(k, m)' = Key(k, m)
  BY ArgsKept DEF SendMessage
<1>5. \A k \in 1 .. Runs : \A m \in 0 .. Total - 1 :
         Past(k, m)' <=> Past(k, m) \/ (k = r /\ m = n)
  BY <1>1 DEF Past
<1>6. \A j \in DOMAIN sent : sent[j] # key
  <2> SUFFICES ASSUME NEW j \in DOMAIN sent, sent[j] = key PROVE FALSE
    OBVIOUS
  <2>1. PICK k \in 1 .. Runs : \E m \in 0 .. Total - 1 :
           Past(k, m) /\ sent[j] = Key(k, m)
    BY DEF KeyInv
  <2>2. PICK m \in 0 .. Total - 1 : Past(k, m) /\ sent[j] = Key(k, m)
    BY <2>1
  <2>3. SizeOf(k) = SizeOf(r) /\ m = n
    BY <2>2 DEF Key
  <2>4. k = r
    BY <1>1, <2>3, SizeFacts
  <2> QED
    BY <1>1, <2>2, <2>3, <2>4 DEF Past
<1>7. /\ DOMAIN sent' = DOMAIN sent \cup {Len(sent) + 1}
      /\ \A j \in DOMAIN sent : sent'[j] = sent[j]
      /\ sent'[Len(sent) + 1] = key
      /\ Len(sent) + 1 \notin DOMAIN sent
  BY <1>3
<1> HIDE DEF key
<1>8. \A j \in DOMAIN sent' : \E k \in 1 .. Runs : \E m \in 0 .. Total - 1 :
         Past(k, m)' /\ sent'[j] = Key(k, m)
  <2>1. Past(r, n)'
    BY <1>1, <1>5
  <2>2. key = Key(r, n)
    BY DEF key
  <2>3. \A j \in DOMAIN sent : \E k \in 1 .. Runs : \E m \in 0 .. Total - 1 :
           Past(k, m)' /\ sent[j] = Key(k, m)
    BY <1>5 DEF KeyInv
  <2> QED
    BY <1>1, <1>7, <2>1, <2>2, <2>3
<1>9. arg = 0 =>
         \A k \in 1 .. Runs : \A m \in 0 .. Total - 1 :
             Past(k, m)' => \E j \in DOMAIN sent' : sent'[j] = Key(k, m)
  <2> SUFFICES ASSUME arg = 0, NEW k \in 1 .. Runs, NEW m \in 0 .. Total - 1,
                      Past(k, m)'
               PROVE  \E j \in DOMAIN sent' : sent'[j] = Key(k, m)
    OBVIOUS
  <2>1. CASE Past(k, m)
    <3>1. PICK j \in DOMAIN sent : sent[j] = Key(k, m)
      BY <2>1 DEF KeyInv
    <3> QED
      BY <1>7, <3>1
  <2>2. CASE k = r /\ m = n
    BY <1>7, <2>2 DEF key
  <2> QED
    BY <1>5, <2>1, <2>2
<1>10. \A j, l \in DOMAIN sent' : sent'[j] = sent'[l] => j = l
  BY <1>6, <1>7 DEF KeyInv
<1> QED
  BY <1>1, <1>4, <1>8, <1>9, <1>10 DEF KeyInv

LEMMA KeyNext ==
  ASSUME NumbersFit, LayoutTypeOK, KeyInv, [Next]_vars
  PROVE  KeyInv'
<1>1. Runs \in Nat /\ Total \in Nat /\ run_index \in 0 .. Runs
  BY TotalFacts, LayoutFacts DEF LayoutTypeOK, Runs
<1>2. CASE StartRun
  <2>1. \A k \in 1 .. Runs : \A m \in 0 .. Total - 1 :
           Past(k, m) => Past(k, m)'
    BY <1>1, <1>2 DEF StartRun, Past
  <2>2. ASSUME arg = 0 PROVE phase' = "fill"
    <3>1. run_index' \in 1 .. Runs /\ run_index' = run_index + 1
      BY <1>1, <1>2 DEF StartRun
    <3>2. ~TooSmall(SizeOf(run_index + 1))
      BY <2>2, <3>1, SizeFacts
    <3>3. TooSmall(SizeOf(run_index')) = TooSmall(SizeOf(run_index + 1))
      BY <3>1
    <3> QED
      BY <1>2, <3>2, <3>3 DEF StartRun
  <2>3. arg = 0 => \A k \in 1 .. Runs : \A m \in 0 .. Total - 1 :
                      Past(k, m)' => Past(k, m)
    BY <1>1, <1>2, <2>2 DEF StartRun, Past
  <2>4. phase' # "done" /\ UNCHANGED <<args, sent>>
    BY <1>2 DEF StartRun
  <2> QED
    BY <2>1, <2>3, <2>4, KeyFrame
<1>3. CASE ExitMain \/ FillMessage \/ EnterLoop
  <2>1. \A k \in 1 .. Runs : \A m \in 0 .. Total - 1 :
           Past(k, m)' <=> Past(k, m)
    BY <1>1, <1>3 DEF ExitMain, FillMessage, EnterLoop, Past
  <2>2. phase' = "done" => run_index' = Runs
    BY <1>3 DEF ExitMain, FillMessage, EnterLoop
  <2>3. UNCHANGED <<args, sent>>
    BY <1>3 DEF ExitMain, FillMessage, EnterLoop
  <2> QED
    BY <2>1, <2>2, <2>3, KeyFrame
<1>4. CASE SendMessage
  BY <1>4, KeySend
<1>5. CASE ExitLoop
  <2>1. i = Total
    <3>1. i \in Nat /\ i <= Total
      BY <1>5 DEF ExitLoop, LayoutTypeOK
    <3>2. round_index \in Nat /\ round_num \in Nat
      BY <3>1, TotalFacts, RoundOf DEF round_index
    <3>3. ~(round_index < round_num)
      BY <1>5, <3>2 DEF ExitLoop
    <3> QED
      BY <1>1, <3>1, <3>3, MessagesLeft
  <2>2. \A k \in 1 .. Runs : \A m \in 0 .. Total - 1 :
           Past(k, m)' <=> Past(k, m)
    BY <1>1, <1>5, <2>1 DEF ExitLoop, Past
  <2>3. phase' # "done" /\ UNCHANGED <<args, sent>>
    BY <1>5 DEF ExitLoop
  <2> QED
    BY <2>2, <2>3, KeyFrame
<1>6. CASE UNCHANGED vars
  <2>1. \A k, m : Past(k, m)' <=> Past(k, m)
    BY <1>6 DEF vars, Past
  <2>2. /\ UNCHANGED <<args, sent>>
        /\ phase' = "done" => run_index' = Runs
    BY <1>6 DEF vars, KeyInv
  <2> QED
    BY <2>1, <2>2, KeyFrame
<1> QED
  BY <1>2, <1>3, <1>4, <1>5, <1>6 DEF Next, Ended

LEMMA KeysAreUnique ==
  ASSUME LayoutTypeOK, KeyInv
  PROVE  KeysUnique
<1>1. \A j, k \in DOMAIN sent : sent[j] = sent[k] => j = k
  BY DEF KeyInv
<1>2. ASSUME phase = "done", arg = 0
      PROVE  Range(sent) = [size : Range(msg_size_arr), id : 0 .. Total - 1]
  <2>1. Runs = NumSizes /\ \A k : SizeOf(k) = msg_size_arr[k]
    BY <1>2 DEF Runs, SizeOf
  <2>2. \A x : x \in Range(msg_size_arr) <=>
                  \E k \in 1 .. NumSizes : x = msg_size_arr[k]
    BY DEF Range, msg_size_arr
  <2>3. \A k \in 1 .. Runs : \A m \in 0 .. Total - 1 : Past(k, m)
    BY <1>2, LayoutFacts, <2>1 DEF KeyInv, Past
  <2>4. ASSUME NEW x \in Range(sent)
        PROVE  x \in [size : Range(msg_size_arr), id : 0 .. Total - 1]
    <3>1. PICK j \in DOMAIN sent : x = sent[j]
      BY DEF Range
    <3>2. PICK k \in 1 .. Runs : \E m \in 0 .. Total - 1 : sent[j] = Key(k, m)
      BY DEF KeyInv
    <3>3. PICK m \in 0 .. Total - 1 : sent[j] = Key(k, m)
      BY <3>2
    <3>4. SizeOf(k) \in Range(msg_size_arr)
      BY <2>1, <2>2
    <3> QED
      BY <3>1, <3>3, <3>4 DEF Key
  <2>5. ASSUME NEW x \in [size : Range(msg_size_arr), id : 0 .. Total - 1]
        PROVE  x \in Range(sent)
    <3>1. x = [size |-> x.size, id |-> x.id] /\ x.id \in 0 .. Total - 1
          /\ x.size \in Range(msg_size_arr)
      OBVIOUS
    <3>2. PICK k \in 1 .. NumSizes : x.size = msg_size_arr[k]
      BY <2>2, <3>1
    <3>3. x = Key(k, x.id)
      BY <2>1, <3>1, <3>2 DEF Key
    <3>4. \E j \in DOMAIN sent : sent[j] = Key(k, x.id)
      BY <1>2, <2>1, <2>3, <3>1 DEF KeyInv
    <3> QED
      BY <3>3, <3>4 DEF Range
  <2> QED
    BY <2>4, <2>5
<1> QED
  BY <1>1, <1>2 DEF KeysUnique, Total

(***************************************************************************)
(* The analysis tells messages apart by size and sequence: no pair of them *)
(* is sent twice, and a run over the array sends them all.                 *)
(***************************************************************************)
THEOREM KeysUniqueHolds == NumbersFit /\ Spec => []KeysUnique
<1> DEFINE I == NumbersFit /\ LayoutTypeOK /\ KeyInv
<1>1. NumbersFit /\ Init => I
  BY LayoutInit, KeyInit
<1>2. I /\ [Next]_vars => I'
  BY LayoutNext, KeyNext DEF NumbersFit
<1>3. I => KeysUnique
  BY KeysAreUnique
<1> QED
  BY <1>1, <1>2, <1>3, PTL DEF Spec

-----------------------------------------------------------------------------
(* Message m lies where on_timer looks for it. *)
Placed(m) ==
    /\ {m * msg_size, m * msg_size + 3} \subseteq DOMAIN mem
    /\ mem[m * msg_size] = 1
    /\ mem[m * msg_size + 3] = m

(***************************************************************************)
(* Where the products fit, run() has laid out the messages up to i, and    *)
(* on_timer finds all of them.                                             *)
(***************************************************************************)
PlacedInv ==
    phase \in {"fill", "send"} /\ Fits =>
        \A m \in 0 .. (IF phase = "send" THEN Total ELSE i) - 1 : Placed(m)

LEMMA Room ==
  ASSUME NEW s \in Nat, s >= 4, NEW n \in Nat \ {0}, NEW r \in Nat \ {0}
  PROVE  /\ s * n * r \in Nat /\ s * n * r >= n * r
         /\ \A m \in 0 .. n * r - 1 : m * s + s <= s * n * r
<1>1. \A a, b, c \in Nat : a * b * c = a * (b * c) /\ b * c \in Nat /\ a * b \in Nat
  BY Z3
<1>2. \A a, b \in Nat : a >= 4 => a * b >= b
  BY Z3
<1>3. \A a, b, m \in Nat : m < b => m * a + a <= a * b
  BY Z3
<1>4. s * n * r = s * (n * r) /\ n * r \in Nat /\ s * (n * r) \in Nat
  BY <1>1
<1> QED
  BY <1>2, <1>3, <1>4

LEMMA Apart ==
  ASSUME NEW s \in Nat, s >= 4, NEW l \in Nat, NEW m \in Nat, l < m
  PROVE  l * s \in Nat /\ m * s \in Nat /\ l * s + 4 <= m * s
<1>1. \A a, b, c \in Nat : b < c => b * a + a <= c * a /\ b * a \in Nat /\ c * a \in Nat
  BY Z3
<1> QED
  BY <1>1

LEMMA FitFacts ==
  ASSUME LayoutTypeOK, phase \in {"fill", "send"}, Fits
  PROVE  /\ msg_size \in Nat /\ msg_size >= 4
         /\ Count = Total /\ Total < Modulus
         /\ BufferSize \in Nat /\ BufferSize < Modulus
         /\ \A m \in 0 .. Total - 1 : m * msg_size + msg_size <= BufferSize
<1>1. msg_size \in Nat /\ ~TooSmall(msg_size)
  BY SizeFacts DEF LayoutTypeOK, msg_size
<1>2. msg_size >= 4
  BY <1>1 DEF TooSmall, Fits, Fields, LayoutTypeOK
<1>3. /\ msg_size * num_per_round * round_num \in Nat
      /\ msg_size * num_per_round * round_num >= Total
      /\ \A m \in 0 .. Total - 1 :
            m * msg_size + msg_size <= msg_size * num_per_round * round_num
  BY <1>1, <1>2, TotalFacts, Room DEF Total
<1>4. msg_size * num_per_round * round_num < Modulus
  BY DEF Fits
<1>5. BufferSize = msg_size * num_per_round * round_num
  BY <1>3, <1>4, NoWrapFacts DEF BufferSize
<1>6. Total < Modulus
  BY <1>3, <1>4, TotalFacts, LayoutFacts
<1>7. Count = Total
  BY <1>6, TotalFacts, NoWrapFacts DEF Count, Total
<1> QED
  BY <1>1, <1>2, <1>3, <1>4, <1>5, <1>6, <1>7

(* What a message puts into memory, and that it disturbs nothing below. *)
LEMMA LaidFacts ==
  ASSUME NEW a \in Nat, NEW v, NEW u, NEW n, mem' = Laid(a, <<1, v, u, n>>)
  PROVE  /\ {a, a + 3} \subseteq DOMAIN mem'
         /\ mem'[a] = 1 /\ mem'[a + 3] = n
         /\ \A b \in Nat : b \in DOMAIN mem /\ b < a =>
               b \in DOMAIN mem' /\ mem'[b] = mem[b]
<1>1. a \in a .. a + 3 /\ a + 3 \in a .. a + 3 /\ a - a + 1 = 1 /\ a + 3 - a + 1 = 4
  OBVIOUS
<1>2. \A b \in Nat : b < a => b \notin a .. a + 3
  OBVIOUS
<1>3. <<1, v, u, n>>[1] = 1 /\ <<1, v, u, n>>[4] = n
  OBVIOUS
<1> DEFINE fields == <<1, v, u, n>>
<1>4. mem' = [b \in DOMAIN mem \cup (a .. a + 3) |->
                 IF b \in a .. a + 3 THEN fields[b - a + 1] ELSE mem[b]]
  BY DEF Laid, Fields
<1> HIDE DEF fields
<1>5. mem'[a] = fields[1] /\ mem'[a + 3] = fields[4]
  BY <1>1, <1>4
<1> QED
  BY <1>1, <1>2, <1>3, <1>4, <1>5 DEF fields

LEMMA LayoutKept ==
  ASSUME UNCHANGED <<args, run_index>>
  PROVE  msg_size' = msg_size /\ Fits' = Fits /\ Total' = Total
BY DEF args, msg_size, SizeOf, Fits, Total

LEMMA PlacedFill ==
  ASSUME LayoutTypeOK, PlacedInv, FillMessage
  PROVE  PlacedInv'
<1> SUFFICES ASSUME phase' \in {"fill", "send"}, Fits'
             PROVE  \A m \in 0 .. i' - 1 : Placed(m)'
  BY DEF PlacedInv, FillMessage
<1>1. /\ msg_size' = msg_size /\ Fits /\ phase = "fill"
      /\ mem' = Laid(FillAt, <<1, uint32(msg_size + Modulus - Header), UserId, i>>)
      /\ i' = i + 1 /\ i \in Nat
  BY LayoutKept DEF FillMessage, LayoutTypeOK
<1> PICK s \in Nat : s = msg_size /\ s >= 4
  BY <1>1, FitFacts
<1> PICK n \in Nat : n = i
  BY <1>1
<1>2. n * s \in Nat
  OBVIOUS
<1>3. /\ {n * s, n * s + 3} \subseteq DOMAIN mem'
      /\ mem'[n * s] = 1 /\ mem'[n * s + 3] = n
      /\ \A b \in Nat : b \in DOMAIN mem /\ b < n * s =>
               b \in DOMAIN mem' /\ mem'[b] = mem[b]
  BY <1>1, <1>2, LaidFacts DEF FillAt
<1>4. ASSUME NEW m \in 0 .. n - 1
      PROVE  Placed(m)'
  <2>1. /\ {m * s, m * s + 3} \subseteq DOMAIN mem
        /\ mem[m * s] = 1 /\ mem[m * s + 3] = m
    BY <1>1 DEF PlacedInv, Placed
  <2>2. m * s \in Nat /\ m * s + 4 <= n * s
    BY Apart
  <2>3. m * s + 3 \in Nat /\ m * s < n * s /\ m * s + 3 < n * s
    BY <1>2, <2>2
  <2> QED
    BY <1>1, <1>3, <2>1, <2>2, <2>3 DEF Placed
<1>5. Placed(n)'
  BY <1>1, <1>3 DEF Placed
<1>6. i' - 1 = n
  BY <1>1
<1>7. \A m \in 0 .. n : m \in 0 .. n - 1 \/ m = n
  OBVIOUS
<1> QED
  BY <1>4, <1>5, <1>6, <1>7

LEMMA PlacedNext ==
  ASSUME LayoutTypeOK, PlacedInv, [Next]_vars
  PROVE  PlacedInv'
<1>1. CASE StartRun
  BY <1>1 DEF StartRun, PlacedInv
<1>2. CASE FillMessage
  BY <1>2, PlacedFill
<1>3. CASE ExitMain \/ ExitLoop
  BY <1>3 DEF ExitMain, ExitLoop, PlacedInv
<1>4. CASE EnterLoop \/ SendMessage \/ UNCHANGED vars
  <2>1. /\ UNCHANGED <<args, run_index, mem>>
        /\ phase' \in {"fill", "send"} => phase \in {"fill", "send"}
    BY <1>4 DEF EnterLoop, SendMessage, vars
  <2>2. msg_size' = msg_size /\ Fits' = Fits /\ Total' = Total
    BY <2>1, LayoutKept
  <2>3. \A m : Placed(m)' = Placed(m)
    BY <2>1, <2>2 DEF Placed
  <2>4. CASE EnterLoop
    <3>1. Fits => i = Total
      BY <2>4, FitFacts DEF EnterLoop
    <3> QED
      BY <2>2, <2>3, <2>4, <3>1 DEF EnterLoop, PlacedInv
  <2>5. CASE SendMessage
    BY <2>2, <2>3, <2>5 DEF SendMessage, PlacedInv
  <2>6. CASE UNCHANGED vars
    BY <2>2, <2>3, <2>6 DEF vars, PlacedInv
  <2> QED
    BY <1>4, <2>4, <2>5, <2>6
<1> QED
  BY <1>1, <1>2, <1>3, <1>4 DEF Next, Ended

LEMMA SendsPlaced ==
  ASSUME LayoutTypeOK, phase = "send", i < Total, Fits
  PROVE  SendAt = i * msg_size /\ Sequence = i
<1>1. /\ msg_size \in Nat /\ msg_size >= 4 /\ Total < Modulus
      /\ i * msg_size + msg_size <= BufferSize /\ BufferSize < Modulus
      /\ i \in Nat
  BY FitFacts, TotalFacts DEF LayoutTypeOK
<1>2. i < Modulus
  BY <1>1, TotalFacts, LayoutFacts
<1> DEFINE r == round_index
           b == i % num_per_round
<1>3. /\ num_per_round \in Nat \ {0} /\ r \in Nat /\ b \in Nat
      /\ r * num_per_round + b = i
  <2>1. i \in Nat /\ num_per_round \in Nat \ {0} /\ 0 \in Nat
    BY TotalFacts DEF LayoutTypeOK
  <2>2. /\ round_index \in Nat /\ b \in 0 .. num_per_round - 1
        /\ r * num_per_round + b = i
    BY <2>1, RoundOf DEF round_index
  <2> QED
    BY <2>1, <2>2
<1> HIDE DEF r, b
<1>4. \A x, y, z, w \in Nat : (x * y + w) * z = x * y * z + w * z
                              /\ x * y * z \in Nat /\ w * z \in Nat
  BY Z3
<1>5. /\ i * msg_size = r * num_per_round * msg_size + b * msg_size
      /\ r * num_per_round * msg_size \in Nat /\ b * msg_size \in Nat
  BY <1>1, <1>3, <1>4
<1>6. BufferSize \in Nat /\ Modulus \in Nat
  BY FitFacts, LayoutFacts
<1>7. r * num_per_round * msg_size < Modulus
  BY <1>1, <1>5, <1>6
<1>8. uint32(r * num_per_round * msg_size) = r * num_per_round * msg_size
  BY <1>5, <1>7, NoWrapFacts
<1> QED
  BY <1>2, <1>5, <1>8, SequenceIs DEF SendAt, r, b

LEMMA AssertionHolds ==
  ASSUME LayoutTypeOK, PlacedInv
  PROVE  AssertSequence
<1>1. ASSUME phase = "fill", i < Count, Fits
      PROVE  InBuffer
  <2>1. /\ i \in 0 .. Total - 1 /\ msg_size \in Nat /\ msg_size >= 4
        /\ i * msg_size + msg_size <= BufferSize
    BY <1>1, FitFacts, TotalFacts DEF LayoutTypeOK
  <2>2. i * msg_size \in Nat
    BY <2>1
  <2>3. BufferSize \in Nat
    BY <1>1, FitFacts
  <2> QED
    BY <2>1, <2>2, <2>3 DEF InBuffer, FillAt, Fields
<1>2. ASSUME phase = "send", round_index < round_num, Fits
      PROVE  Written(SendAt) = {1} /\ Written(SendAt + 3) = {Sequence}
  <2>1. i < Total /\ i \in 0 .. Total - 1
    BY <1>2, MessagesLeft, TotalFacts DEF LayoutTypeOK
  <2>2. Placed(i)
    BY <1>2, <2>1 DEF PlacedInv
  <2>3. SendAt = i * msg_size /\ Sequence = i
    BY <1>2, <2>1, SendsPlaced
  <2> QED
    BY <2>2, <2>3 DEF Placed, Written
<1> QED
  BY <1>1, <1>2 DEF AssertSequence

(***************************************************************************)
(* on_timer's assertions hold, and run() stays in its buffer, for every    *)
(* size and number of messages whose product does not wrap.                *)
(***************************************************************************)
THEOREM AssertSequenceHolds == Spec => []AssertSequence
<1>1. Init => LayoutTypeOK /\ PlacedInv
  BY LayoutInit DEF Init, PlacedInv
<1>2. LayoutTypeOK /\ PlacedInv /\ [Next]_vars => (LayoutTypeOK /\ PlacedInv)'
  BY LayoutNext, PlacedNext
<1>3. LayoutTypeOK /\ PlacedInv => AssertSequence
  BY AssertionHolds
<1> QED
  BY <1>1, <1>2, <1>3, PTL DEF Spec

=============================================================================
