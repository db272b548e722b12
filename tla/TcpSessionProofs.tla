--------------------------- MODULE TcpSessionProofs ---------------------------
(***************************************************************************)
(* Proofs about TcpSession, for every size of the buffer, of a read and of *)
(* the messages, every limit and every way to cut the stream into reads.   *)
(***************************************************************************)
EXTENDS TcpSession, FiniteSetTheorems, TLAPS

(* What Init chooses, and no step changes. *)
StreamInv ==
    /\ ends[0] = 0
    /\ \A i, j \in 0 .. NumMsgs : i < j => ends[i] < ends[j]
    /\ \A i \in 1 .. NumMsgs : Size(i) \in HdrSize .. MaxSize

(* The number of callbacks is the place of the reader in the stream. *)
FramingInv == Len(calls) \in 0 .. NumMsgs /\ Framing

(* The context is flagged only when its socket is of no use any more. *)
EndInv ==
    /\ pc \in {"read", "closed"} => (finished <=> pc = "closed")
    /\ finished => sock # "open"

(* No message that has come whole waits in the buffer. *)
NothingWhole == Len(calls) < NumMsgs => ends[Len(calls) + 1] > sent

(***************************************************************************)
(* A stream that ended in order was read to its end when the context was   *)
(* flagged, and parsed to its end when nb_tcp_session_on_msg returned.     *)
(***************************************************************************)
DrainInv ==
    finished /\ sock = "eof" => /\ got = sent
                                /\ pc \in {"poll", "closed"} => NothingWhole

IInv == TypeOK /\ StreamInv /\ FramingInv /\ BufferBound /\ EndInv /\ DrainInv

-----------------------------------------------------------------------------
LEMMA ConstantFacts ==
    /\ NumMsgs \in Nat /\ NumMsgs > 0
    /\ HdrSize \in Nat /\ HdrSize > 0
    /\ RecvUnit \in Nat /\ RecvUnit > 0
    /\ BufSize \in Nat /\ BufSize >= 2 * RecvUnit
    /\ MaxSize \in Nat
    /\ Limits \subseteq Nat
BY SessionAssumption

(* The ends of the messages, as numbers. *)
LEMMA EndsFacts ==
  ASSUME TypeOK, StreamInv
  PROVE  /\ \A i \in 0 .. NumMsgs : ends[i] \in Nat /\ ends[i] <= StreamEnd
         /\ \A i \in 1 .. NumMsgs : /\ i - 1 \in 0 .. NumMsgs
                                    /\ Size(i) \in Nat /\ Size(i) >= HdrSize
                                    /\ ends[i] = ends[i - 1] + Size(i)
         /\ StreamEnd \in Nat
         /\ sent \in Nat /\ got \in Nat /\ used \in Nat
         /\ used <= got /\ got <= sent /\ sent <= StreamEnd
<1> USE ConstantFacts DEF TypeOK, StreamInv
<1>1. \A i \in 0 .. NumMsgs : ends[i] \in Nat
  OBVIOUS
<1>2. NumMsgs \in 0 .. NumMsgs /\ StreamEnd \in Nat
  BY <1>1 DEF StreamEnd
<1>3. ASSUME NEW i \in 0 .. NumMsgs PROVE ends[i] <= StreamEnd
  <2>1. CASE i = NumMsgs
    BY <2>1, <1>2 DEF StreamEnd
  <2>2. CASE i < NumMsgs
    BY <2>2, <1>1, <1>2 DEF StreamEnd
  <2> QED
    BY <2>1, <2>2
<1>4. ASSUME NEW i \in 1 .. NumMsgs
      PROVE  /\ i - 1 \in 0 .. NumMsgs
             /\ Size(i) \in Nat /\ Size(i) >= HdrSize
             /\ ends[i] = ends[i - 1] + Size(i)
  <2>1. i - 1 \in 0 .. NumMsgs /\ i \in 0 .. NumMsgs
    OBVIOUS
  <2>2. ends[i - 1] \in Nat /\ ends[i] \in Nat
    BY <1>1, <2>1
  <2>3. Size(i) \in HdrSize .. MaxSize
    OBVIOUS
  <2>4. Size(i) \in Nat /\ Size(i) >= HdrSize
    BY <2>3
  <2>5. ends[i] = ends[i - 1] + Size(i)
    <3>1. PICK a \in Nat, b \in Nat : a = ends[i - 1] /\ b = ends[i]
      BY <2>2, Zenon
    <3>2. Size(i) = b - a
      BY <3>1, Zenon DEF Size
    <3>3. b = a + (b - a)
      OBVIOUS
    <3> QED
      BY <3>1, <3>2, <3>3, Zenon
  <2> QED
    BY <2>1, <2>4, <2>5
<1>5. sent \in Nat /\ sent <= StreamEnd
  BY <1>2
<1>6. got \in Nat /\ got <= sent
  BY <1>5
<1>7. used \in Nat /\ used <= got
  BY <1>6
<1> QED
  BY <1>1, <1>2, <1>3, <1>4, <1>5, <1>6, <1>7

(* Where a message begins is where it is in the stream. *)
LEMMA EndsInjective ==
  ASSUME TypeOK, StreamInv, NEW i \in 0 .. NumMsgs, NEW j \in 0 .. NumMsgs,
         ends[i] <= ends[j]
  PROVE  i <= j
<1>1. ends[i] \in Nat /\ ends[j] \in Nat
  BY EndsFacts
<1>2. ~(j < i)
  BY <1>1 DEF StreamInv
<1> QED
  BY <1>2, ConstantFacts

(* The message at the reader is the one after those handed over. *)
LEMMA NextAtHeader ==
  ASSUME IInv, NEW i \in 1 .. NumMsgs, AtHeader(i)
  PROVE  i = Len(calls) + 1 /\ ends[i - 1] = used
<1>1. /\ ends[i - 1] = ends[Len(calls)]
      /\ i - 1 \in 0 .. NumMsgs
      /\ Len(calls) \in 0 .. NumMsgs
  BY EndsFacts DEF IInv, FramingInv, Framing, AtHeader
<1>2. ends[i - 1] \in Nat /\ TypeOK /\ StreamInv
  BY <1>1, EndsFacts DEF IInv
<1>3. i - 1 <= Len(calls) /\ Len(calls) <= i - 1
  BY <1>1, <1>2, EndsInjective
<1> QED
  BY <1>1, <1>3, ConstantFacts DEF AtHeader

-----------------------------------------------------------------------------
LEMMA InitIInv == Init => IInv
<1> SUFFICES ASSUME Init PROVE IInv
  OBVIOUS
<1> USE ConstantFacts DEF Init
<1>1. StreamInv
  BY DEF StreamInv
<1>2. TypeOK
  <2>1. ends \in [0 .. NumMsgs -> Nat]
    <3>1. \A i \in 0 .. NumMsgs : ends[i] \in Nat
      OBVIOUS
    <3> QED
      BY <3>1
  <2>2. 0 \in 0 .. NumMsgs /\ NumMsgs \in 0 .. NumMsgs
    OBVIOUS
  <2>3. StreamEnd \in Nat
    BY <2>1, <2>2 DEF StreamEnd
  <2>4. 0 \in 0 .. StreamEnd /\ 0 \in 0 .. 0
    BY <2>3
  <2>5. calls \in Seq([from : Nat, size : Nat])
    OBVIOUS
  <2> QED
    BY <2>1, <2>4, <2>5 DEF TypeOK
<1>3. FramingInv
  <2>1. Len(calls) = 0 /\ DOMAIN calls = {}
    OBVIOUS
  <2> QED
    BY <2>1 DEF FramingInv, Framing
<1>4. BufferBound /\ EndInv /\ DrainInv
  BY DEF BufferBound, MayBeFull, Room, EndInv, DrainInv
<1> QED
  BY <1>1, <1>2, <1>3, <1>4 DEF IInv

(* The parts that speak of the buffer and the callbacks depend on these. *)
LEMMA FramingFrame ==
  ASSUME IInv, UNCHANGED <<params, used, calls>>
  PROVE  StreamInv' /\ FramingInv'
BY DEF IInv, StreamInv, FramingInv, Framing, Size, params

(* Between two calls the buffer is as it was, or there is no next call. *)
LEMMA BufferFrame ==
  ASSUME IInv, UNCHANGED <<params, got, used>>,
         UNCHANGED <<pc, finished>> \/ pc' # "poll" \/ finished'
  PROVE  BufferBound'
BY DEF IInv, BufferBound, Longest, MayBeFull, Room, params

LEMMA ArriveStep == IInv /\ Arrive => IInv'
<1> SUFFICES ASSUME IInv, Arrive PROVE IInv'
  OBVIOUS
<1>1. StreamInv' /\ FramingInv'
  BY FramingFrame DEF Arrive
<1>2. TypeOK'
  BY EndsFacts DEF IInv, TypeOK, Arrive, params, StreamEnd
<1>3. BufferBound' /\ EndInv' /\ DrainInv'
  BY BufferFrame DEF IInv, Arrive, EndInv, DrainInv
<1> QED
  BY <1>1, <1>2, <1>3 DEF IInv

LEMMA ReadSomeStep == IInv /\ ReadSome => IInv'
<1> SUFFICES ASSUME IInv, ReadSome PROVE IInv'
  OBVIOUS
<1>1. StreamInv' /\ FramingInv'
  BY FramingFrame DEF ReadSome
<1>2. PICK n \in 1 .. RecvUnit : got + n <= sent /\ got' = got + n
  BY DEF ReadSome
<1>3. n \in Nat /\ n <= RecvUnit /\ got \in Nat /\ used \in Nat /\ used <= got /\ sent \in Nat
  BY EndsFacts, ConstantFacts DEF IInv
<1>4. TypeOK'
  BY <1>2, <1>3 DEF IInv, TypeOK, ReadSome, params, StreamEnd
<1>5. BufferBound'
  BY <1>2, <1>3, ConstantFacts DEF ReadSome, MayHaveRoom, Room, BufferBound
<1>6. EndInv' /\ DrainInv'
  BY DEF IInv, ReadSome, EndInv, DrainInv
<1> QED
  BY <1>1, <1>4, <1>5, <1>6 DEF IInv

LEMMA HandleStep == IInv /\ HandleMessage => IInv'
<1> SUFFICES ASSUME IInv, HandleMessage PROVE IInv'
  OBVIOUS
<1>1. PICK i \in 1 .. NumMsgs :
          /\ AtHeader(i) /\ ~TooLong(i) /\ Readable(i)
          /\ calls' = Append(calls, [from |-> used, size |-> Size(i)])
          /\ used' = used + Size(i)
  BY DEF HandleMessage, ReaderMove
<1>2. /\ i = Len(calls) + 1 /\ ends[i - 1] = used
      /\ Size(i) \in Nat /\ ends[i] = used + Size(i)
      /\ used \in Nat /\ got \in Nat /\ used <= got /\ Len(calls) \in Nat
  BY <1>1, NextAtHeader, EndsFacts, ConstantFacts DEF IInv, FramingInv
<1>3. used' \in Nat /\ used' <= got
  BY <1>1, <1>2 DEF Readable
<1>4. /\ [from |-> used, size |-> Size(i)] \in [from : Nat, size : Nat]
      /\ calls \in Seq([from : Nat, size : Nat])
  BY <1>2 DEF IInv, TypeOK
<1>5. /\ calls' \in Seq([from : Nat, size : Nat])
      /\ Len(calls') = i
      /\ \A j \in 1 .. Len(calls) : calls'[j] = calls[j]
      /\ calls'[i] = [from |-> used, size |-> Size(i)]
      /\ DOMAIN calls' = 1 .. i /\ DOMAIN calls = 1 .. Len(calls)
  BY <1>1, <1>2, <1>4
<1>6. TypeOK'
  BY <1>3, <1>5 DEF IInv, TypeOK, HandleMessage, params, StreamEnd
<1>7. StreamInv'
  BY DEF IInv, StreamInv, Size, HandleMessage, params
<1>8. FramingInv'
  <2>1. i \in 0 .. NumMsgs /\ UNCHANGED <<ends, msg_len_limit>>
    BY ConstantFacts DEF HandleMessage, params
  <2>2. used' = ends'[Len(calls')]
    BY <1>1, <1>2, <1>5, <2>1
  <2>3. ASSUME NEW j \in DOMAIN calls'
        PROVE  /\ calls'[j] = [from |-> ends[j - 1], size |-> Size(j)]
               /\ msg_len_limit > 0 => Size(j) <= msg_len_limit
    <3>1. CASE j = i
      <4>1. msg_len_limit \in Nat
        BY ConstantFacts DEF IInv, TypeOK
      <4> QED
        BY <3>1, <4>1, <1>1, <1>2, <1>5 DEF TooLong
    <3>2. CASE j # i
      <4>1. j \in 1 .. Len(calls)
        BY <3>2, <1>2, <1>5
      <4> QED
        BY <4>1, <1>5 DEF IInv, FramingInv, Framing
    <3> QED
      BY <3>1, <3>2
  <2> QED
    BY <1>5, <2>1, <2>2, <2>3 DEF FramingInv, Framing, Size
<1>9. BufferBound'
  BY <1>1, <1>2, <1>3, ConstantFacts DEF IInv, BufferBound, HandleMessage, AtHeader
<1>10. EndInv' /\ DrainInv'
  BY <1>1 DEF IInv, HandleMessage, EndInv, DrainInv, AtHeader
<1> QED
  BY <1>6, <1>7, <1>8, <1>9, <1>10 DEF IInv

(* A loop that ends leaves less than a message, or less than its header. *)
LEMMA LessThanLongest ==
  ASSUME IInv, ParseDone
  PROVE  Longest \in Nat /\ got - used < Longest
<1>1. /\ got \in Nat /\ used \in Nat /\ used <= got /\ got <= StreamEnd /\ StreamEnd \in Nat
      /\ Len(calls) \in 0 .. NumMsgs /\ used = ends[Len(calls)]
  BY EndsFacts DEF IInv, FramingInv, Framing
<1>2. /\ Longest \in Nat /\ Longest >= HdrSize
      /\ msg_len_limit \in Nat
      /\ \A n \in HdrSize .. MaxSize : ~(msg_len_limit > 0 /\ n > msg_len_limit) => n <= Longest
  <2>1. msg_len_limit \in Nat /\ MaxSize >= HdrSize
    BY SessionAssumption DEF IInv, TypeOK
  <2> QED
    BY <2>1, ConstantFacts DEF Longest
<1>3. CASE Len(calls) = NumMsgs
  BY <1>1, <1>2, <1>3, ConstantFacts DEF StreamEnd
<1>4. CASE Len(calls) < NumMsgs
  <2>1. PICK i \in 1 .. NumMsgs : i = Len(calls) + 1 /\ i - 1 = Len(calls)
    BY <1>1, <1>4, ConstantFacts
  <2>2. Size(i) \in HdrSize .. MaxSize /\ Size(i) \in Nat /\ ends[i - 1] = used
    BY <2>1, <1>1, EndsFacts DEF IInv, StreamInv
  <2>3. got - used >= HdrSize => ~TooLong(i) /\ ~(got - used >= Size(i))
    BY <2>2 DEF ParseDone, AtHeader, Readable
  <2>4. got - used >= HdrSize => Size(i) <= Longest
    BY <2>2, <2>3, <1>2 DEF TooLong
  <2> QED
    BY <2>2, <2>3, <2>4, <1>1, <1>2, ConstantFacts
<1> QED
  BY <1>1, <1>3, <1>4, ConstantFacts

LEMMA ParseDoneStep == IInv /\ ParseDone => IInv'
<1> SUFFICES ASSUME IInv, ParseDone PROVE IInv'
  OBVIOUS
<1>1. StreamInv' /\ FramingInv'
  BY FramingFrame DEF ParseDone
<1>2. TypeOK'
  BY DEF IInv, TypeOK, ParseDone, params, StreamEnd
<1>3. ASSUME sent = got PROVE NothingWhole
  <2> SUFFICES ASSUME Len(calls) < NumMsgs PROVE ends[Len(calls) + 1] > sent
    BY DEF NothingWhole
  <2> DEFINE i == Len(calls) + 1
  <2>1. i \in 1 .. NumMsgs /\ i - 1 = Len(calls)
    BY ConstantFacts DEF IInv, FramingInv
  <2>2. /\ Size(i) \in Nat /\ Size(i) >= HdrSize
        /\ ends[i] = used + Size(i) /\ ends[i - 1] = used
        /\ used \in Nat /\ got \in Nat
    BY <2>1, EndsFacts DEF IInv, FramingInv, Framing
  <2>3. AtHeader(i) => ~Readable(i)
    BY <2>1 DEF ParseDone
  <2>4. ~(got - used >= Size(i))
    BY <2>2, <2>3, ConstantFacts DEF AtHeader, Readable, ParseDone
  <2> HIDE DEF i
  <2>5. ends[i] > sent
    BY <2>2, <2>4, <1>3
  <2> QED
    BY <2>5 DEF i
<1>4. EndInv' /\ DrainInv'
  BY <1>3 DEF IInv, EndInv, DrainInv, NothingWhole, ParseDone, params
<1>5. /\ got \in Nat /\ used \in Nat /\ Longest \in Nat
      /\ got - used < Longest
  BY LessThanLongest, EndsFacts DEF IInv
<1>6. Longest' = Longest /\ got' = got /\ used' = used
  BY DEF Longest, ParseDone, params
<1>7. (Longest - 1) + 2 * RecvUnit <= BufSize => BufSize - (got - used) >= 2 * RecvUnit
  BY <1>5, ConstantFacts
<1>8. BufferBound'
  BY <1>5, <1>6, <1>7, ConstantFacts DEF IInv, BufferBound, MayBeFull, Room
<1> QED
  BY <1>1, <1>2, <1>4, <1>8 DEF IInv

LEMMA NextIInv == IInv /\ [Next]_vars => IInv'
<1> SUFFICES ASSUME IInv, [Next]_vars PROVE IInv'
  OBVIOUS
<1>1. CASE Arrive
  BY <1>1, ArriveStep
<1>2. CASE ReadSome
  BY <1>2, ReadSomeStep
<1>3. CASE HandleMessage
  BY <1>3, HandleStep
<1>4. CASE ParseDone
  BY <1>4, ParseDoneStep
<1>5. ASSUME UNCHANGED <<params, sent, got, used, calls>>,
             UNCHANGED <<pc, finished>> \/ pc' # "poll" \/ finished',
             TypeOK', EndInv', DrainInv'
      PROVE  IInv'
  <2>1. StreamInv' /\ FramingInv' /\ BufferBound'
    BY <1>5, FramingFrame, BufferFrame
  <2> QED
    BY <1>5, <2>1 DEF IInv
<1>6. ASSUME NEW how \in {"eof", "reset"}, PeerClose(how)
      PROVE  IInv'
  <2>1. TypeOK' /\ EndInv'
    BY <1>6 DEF IInv, TypeOK, EndInv, PeerClose, params, StreamEnd
  <2>2. DrainInv'
    BY <1>6 DEF IInv, EndInv, DrainInv, PeerClose
  <2> QED
    BY <1>6, <2>1, <2>2, <1>5 DEF PeerClose
<1>7. CASE nb_tcp_session_on_msg
  <2>1. TypeOK' /\ EndInv' /\ DrainInv'
    BY <1>7 DEF IInv, TypeOK, EndInv, DrainInv, nb_tcp_session_on_msg, params, StreamEnd
  <2> QED
    BY <1>7, <2>1, <1>5 DEF nb_tcp_session_on_msg
<1>8. CASE ReadNone
  <2>1. TypeOK' /\ EndInv' /\ DrainInv'
    BY <1>8 DEF IInv, TypeOK, EndInv, DrainInv, ReadNone, EndOfRead, params, StreamEnd
  <2> QED
    BY <1>8, <2>1, <1>5 DEF ReadNone, EndOfRead
<1>9. CASE BufferFull
  <2>1. TypeOK' /\ EndInv' /\ DrainInv'
    BY <1>9 DEF IInv, TypeOK, EndInv, DrainInv, BufferFull, params, StreamEnd
  <2> QED
    BY <1>9, <2>1, <1>5 DEF BufferFull
<1>10. CASE RejectMessage
  <2>1. TypeOK' /\ EndInv' /\ DrainInv'
    BY <1>10 DEF IInv, TypeOK, EndInv, DrainInv, RejectMessage, Reject, params, StreamEnd
  <2> QED
    BY <1>10, <2>1, <1>5 DEF RejectMessage, Reject
<1>11. CASE Close
  <2>1. TypeOK' /\ EndInv' /\ DrainInv'
    BY <1>11 DEF IInv, TypeOK, EndInv, DrainInv, NothingWhole, Close, params, StreamEnd
  <2> QED
    BY <1>11, <2>1, <1>5 DEF Close
<1>12. CASE UNCHANGED vars
  <2>1. TypeOK' /\ EndInv' /\ DrainInv'
    BY <1>12 DEF IInv, TypeOK, EndInv, DrainInv, NothingWhole, vars, params, StreamEnd
  <2> QED
    BY <1>12, <2>1, <1>5 DEF vars
<1> QED
  BY <1>1, <1>2, <1>3, <1>4, <1>6, <1>7, <1>8, <1>9, <1>10, <1>11, <1>12
     DEF Next, Quiet

LEMMA Inductive == Spec => []IInv
BY InitIInv, NextIInv, PTL DEF Spec

(***************************************************************************)
(* The reader and the writer of the bytes buffer keep their order: used    *)
(* never passes got, and neither passes what the peer has sent.            *)
(***************************************************************************)
THEOREM SessionTypeCorrect == Spec => []TypeOK
<1>1. IInv => TypeOK
  BY DEF IInv
<1> QED
  BY <1>1, Inductive, PTL

(***************************************************************************)
(* However the stream is cut into reads, nb_tcp_session_on_msg hands over  *)
(* its messages one by one, none of them longer than msg_len_limit.        *)
(***************************************************************************)
THEOREM FramingHolds == Spec => []Framing
<1>1. IInv => Framing
  BY DEF IInv, FramingInv
<1> QED
  BY <1>1, Inductive, PTL

(***************************************************************************)
(* The reads of nb_tcp_session_on_msg never overfill the bytes buffer, and *)
(* one that can hold a message and two reads never stalls the session.     *)
(***************************************************************************)
THEOREM BufferBoundHolds == Spec => []BufferBound
<1>1. IInv => BufferBound
  BY DEF IInv
<1> QED
  BY <1>1, Inductive, PTL

-----------------------------------------------------------------------------
Whole == {i \in 1 .. NumMsgs : ends[i] <= sent}

LEMMA ArrivedCount ==
  ASSUME TypeOK, StreamInv
  PROVE  Arrived \in Nat /\ Arrived = Cardinality(Whole) /\ IsFiniteSet(Whole)
<1>1. IsFiniteSet(1 .. NumMsgs)
  BY FS_Interval, ConstantFacts
<1>2. Whole \in SUBSET (1 .. NumMsgs)
  BY DEF Whole
<1>3. IsFiniteSet(Whole)
  BY <1>1, <1>2, FS_Subset
<1> QED
  BY <1>3, FS_CardinalityType DEF Arrived, Whole

(* Message n and all before it have arrived; and no other has. *)
LEMMA ArrivedBound ==
  ASSUME TypeOK, StreamInv, NEW n \in 0 .. NumMsgs, ends[n] <= sent
  PROVE  /\ Arrived >= n
         /\ (n < NumMsgs => ends[n + 1] > sent) => Arrived = n
<1>1. n \in Nat /\ n <= NumMsgs /\ Cardinality(1 .. n) = n
  <2>1. n \in Nat /\ n <= NumMsgs
    BY ConstantFacts
  <2> QED
    BY <2>1, FS_Interval
<1>2. 1 .. n \subseteq Whole
  <2> SUFFICES ASSUME NEW i \in 1 .. n PROVE i \in 1 .. NumMsgs /\ ends[i] <= sent
    BY DEF Whole
  <2>1. i \in 1 .. NumMsgs /\ i \in 0 .. NumMsgs /\ i <= n
    BY <1>1, ConstantFacts
  <2>2. ends[i] \in Nat /\ ends[n] \in Nat /\ sent \in Nat
    BY <2>1, EndsFacts
  <2>3. ends[i] <= ends[n]
    <3>1. CASE i = n
      BY <3>1, <2>2
    <3>2. CASE i < n
      BY <3>2, <2>1, <2>2 DEF StreamInv
    <3> QED
      BY <3>1, <3>2, <2>1, <1>1
  <2> QED
    BY <2>1, <2>2, <2>3
<1>3. Arrived >= n
  BY <1>1, <1>2, ArrivedCount, FS_Subset
<1>4. ASSUME n < NumMsgs => ends[n + 1] > sent
      PROVE  Whole \subseteq 1 .. n
  <2> SUFFICES ASSUME NEW i \in 1 .. NumMsgs, ends[i] <= sent, ~(i <= n) PROVE FALSE
    BY <1>1, ConstantFacts DEF Whole
  <2>1. n < NumMsgs /\ n + 1 \in 0 .. NumMsgs /\ i \in 0 .. NumMsgs /\ n + 1 <= i
    BY <1>1, ConstantFacts
  <2>2. ends[i] \in Nat /\ ends[n + 1] \in Nat /\ sent \in Nat
    BY <2>1, EndsFacts
  <2>3. ends[i] <= ends[n + 1]
    BY <2>1, <2>2, <1>4
  <2>4. i <= n + 1
    BY <2>1, <2>3, EndsInjective
  <2>5. i = n + 1
    BY <2>1, <2>4, <1>1
  <2> QED
    BY <2>5, <2>2, <2>1, <1>4
<1> QED
  BY <1>1, <1>2, <1>3, <1>4, ArrivedCount

(* The messages handed over have arrived. *)
LEMMA HandledArrived ==
  ASSUME IInv
  PROVE  /\ Len(calls) \in 0 .. NumMsgs /\ ends[Len(calls)] <= sent
         /\ Arrived >= Len(calls)
<1>1. Len(calls) \in 0 .. NumMsgs /\ ends[Len(calls)] <= sent
  BY EndsFacts DEF IInv, FramingInv, Framing
<1> QED
  BY <1>1, ArrivedBound DEF IInv

(***************************************************************************)
(* Every message that came before an orderly end is handed over before the *)
(* context is closed: on_msg parses after the read that met the end.       *)
(***************************************************************************)
THEOREM DrainedBeforeCloseHolds == Spec => []DrainedBeforeClose
<1>1. IInv => DrainedBeforeClose
  <2> SUFFICES ASSUME IInv, pc = "closed", sock = "eof" PROVE Len(calls) = Arrived
    BY DEF DrainedBeforeClose
  <2>1. NothingWhole
    BY DEF IInv, EndInv, DrainInv, TypeOK
  <2> QED
    BY <2>1, HandledArrived, ArrivedBound DEF IInv, NothingWhole
<1> QED
  BY <1>1, Inductive, PTL

-----------------------------------------------------------------------------
(* What the refinement needs to know of the two states of a step. *)
Counted ==
    /\ Arrived \in Nat
    /\ Arrived = Cardinality(Whole)
    /\ IsFiniteSet(Whole)
    /\ Arrived >= Len(calls)
    /\ sent \in Nat
    /\ \A i \in 1 .. NumMsgs : ends[i] \in Nat

LEMMA CountedHolds == IInv => Counted
<1> SUFFICES ASSUME IInv PROVE Counted
  OBVIOUS
<1>1. \A i \in 1 .. NumMsgs : ends[i] \in Nat
  BY EndsFacts, ConstantFacts DEF IInv
<1> QED
  BY <1>1, ArrivedCount, HandledArrived, EndsFacts DEF IInv, Counted

LEMMA RefineInit == Init => M!Init
<1> SUFFICES ASSUME Init PROVE M!Init
  OBVIOUS
<1>1. IInv
  BY InitIInv
<1>2. 0 \in 0 .. NumMsgs /\ Len(calls) = 0 /\ ends[0] <= sent
  BY ConstantFacts DEF Init
<1>3. ends[1] > sent
  <2>1. 1 \in 0 .. NumMsgs /\ ends[1] \in Nat
    BY <1>1, ConstantFacts, EndsFacts DEF IInv
  <2> QED
    BY <2>1, ConstantFacts DEF Init
<1>4. Arrived = 0
  BY <1>1, <1>2, <1>3, ArrivedBound DEF IInv
<1> QED
  BY <1>2, <1>4 DEF M!Init, Init

LEMMA RefineArrive == Counted /\ Counted' /\ Arrive => [M!Next]_M!vars
<1> SUFFICES ASSUME Counted, Counted', Arrive PROVE [M!Next]_M!vars
  OBVIOUS
<1>1. Arrived \in Nat /\ Arrived' \in Nat
  BY DEF Counted
<1>2. Arrived' >= Arrived
  <2>1. Whole \subseteq Whole'
    <3> SUFFICES ASSUME NEW i \in 1 .. NumMsgs, ends[i] <= sent PROVE ends'[i] <= sent'
      BY DEF Whole
    <3>1. ends[i] \in Nat /\ sent \in Nat /\ sent' \in Nat
      BY DEF Counted
    <3> QED
      BY <3>1 DEF Arrive, params
  <2> QED
    BY <2>1, FS_Subset DEF Counted
<1>3. UNCHANGED <<Len(calls), ~finished \/ pc = "parse">>
  BY DEF Arrive
<1> QED
  BY <1>1, <1>2, <1>3 DEF M!Next, M!Arrive, M!vars

LEMMA RefineHandle == IInv /\ Counted /\ Counted' /\ HandleMessage => M!Handle
<1> SUFFICES ASSUME IInv, Counted, Counted', HandleMessage PROVE M!Handle
  OBVIOUS
<1>1. PICK i \in 1 .. NumMsgs :
          AtHeader(i) /\ calls' = Append(calls, [from |-> used, size |-> Size(i)])
  BY DEF HandleMessage
<1>2. calls \in Seq([from : Nat, size : Nat])
  BY DEF IInv, TypeOK
<1>3. Len(calls') = Len(calls) + 1 /\ Len(calls) \in Nat
  BY <1>1, <1>2
<1>4. UNCHANGED Arrived
  BY DEF HandleMessage, Arrived, params
<1>5. Arrived' >= Len(calls') /\ Arrived \in Nat
  BY DEF Counted
<1>6. Len(calls) < Arrived
  BY <1>3, <1>4, <1>5
<1> QED
  BY <1>1, <1>3, <1>4, <1>6 DEF M!Handle, AtHeader, HandleMessage

LEMMA RefineNext == IInv /\ Counted /\ Counted' /\ [Next]_vars => [M!Next]_M!vars
<1> SUFFICES ASSUME IInv, Counted, Counted', [Next]_vars PROVE [M!Next]_M!vars
  OBVIOUS
<1>1. CASE Arrive
  BY <1>1, RefineArrive
<1>2. CASE HandleMessage
  BY <1>2, RefineHandle DEF M!Next
<1>3. ASSUME UNCHANGED <<params, sent, calls>> PROVE UNCHANGED <<Arrived, Len(calls)>>
  BY <1>3 DEF Arrived, params
<1>4. ASSUME UNCHANGED <<params, sent, calls>>,
             \/ UNCHANGED <<finished, pc>>
             \/ UNCHANGED finished /\ pc # "parse" /\ pc' # "parse"
             \/ finished = FALSE /\ finished' = FALSE
             \/ finished = FALSE /\ pc' = "parse"
      PROVE  UNCHANGED M!vars
  BY <1>3, <1>4 DEF M!vars
<1>5. ASSUME UNCHANGED <<params, sent, calls>>, pc = "parse", finished' = TRUE, pc' # "parse"
      PROVE  M!Next
  BY <1>3, <1>5 DEF M!Next, M!Close
<1> USE DEF IInv, TypeOK, EndInv
<1>6. ASSUME NEW how \in {"eof", "reset"}, PeerClose(how)
      PROVE  UNCHANGED M!vars
  BY <1>6, <1>4 DEF PeerClose
<1>7. CASE nb_tcp_session_on_msg
  BY <1>7, <1>4 DEF nb_tcp_session_on_msg
<1>8. CASE ReadSome
  BY <1>8, <1>4 DEF ReadSome
<1>9. CASE ReadNone
  BY <1>9, <1>4 DEF ReadNone, EndOfRead
<1>10. CASE BufferFull
  BY <1>10, <1>4 DEF BufferFull
<1>11. CASE RejectMessage
  <2>1. PICK i \in 1 .. NumMsgs : AtHeader(i)
    BY <1>11 DEF RejectMessage
  <2> QED
    BY <1>11, <2>1, <1>5 DEF RejectMessage, Reject, AtHeader
<1>12. CASE ParseDone
  BY <1>12, <1>4, <1>5 DEF ParseDone
<1>13. CASE Close
  BY <1>13, <1>4 DEF Close
<1>14. CASE UNCHANGED vars
  BY <1>14, <1>4 DEF vars
<1> QED
  BY <1>1, <1>2, <1>6, <1>7, <1>8, <1>9, <1>10, <1>11, <1>12, <1>13, <1>14
     DEF Next, Quiet

(***************************************************************************)
(* The session keeps the promise of MessageStream, which TcpServer and     *)
(* TcpUpstream rely on: whole messages, in order, once, and none after the *)
(* context was flagged and parsed.                                         *)
(***************************************************************************)
THEOREM StreamRefined == Spec => StreamSpec
BY RefineInit, RefineNext, CountedHolds, Inductive, PTL DEF Spec, StreamSpec, M!Spec
=============================================================================
