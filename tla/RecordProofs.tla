---------------------------- MODULE RecordProofs -----------------------------
(***************************************************************************)
(* Proofs about the records of messages, on both sides of their files.     *)
(* First RecordLog, which writes them, for any number of processes with    *)
(* any threads, every capacity of a ring and any number of records and     *)
(* starts; then LatencyAnalysis, which evaluates them, for any record      *)
(* files and any number of runs of the scripts.                            *)
(***************************************************************************)
EXTENDS RecordLog, LatencyAnalysis, SequenceTheorems, FunctionTheorems, FiniteSetTheorems, TLAPS

Early == {"off", "args", "log", "check", "over"}

(***************************************************************************)
(* The file and its head.  A process that is to write the head is alone    *)
(* past the look at the path, and the file is then empty; a file that      *)
(* stays empty has such a process.                                         *)
(***************************************************************************)
FileInv ==
    /\ \A p \in Procs : pc[p] \notin Early \cup {"open"} => exists
    /\ \A p \in Procs : pc[p] = "open" /\ ~need_write_head[p] => exists
    /\ disk # <<>> => exists

HeadInv ==
    in_turn =>
        /\ \A i \in DOMAIN disk : disk[i] = <<"head">> <=> i = 1
        /\ exists => \/ disk # <<>>
                     \/ \E p \in Procs : pc[p] = "head" /\ need_write_head[p]
        /\ \A p \in Procs : HeadToCome(p) =>
              /\ disk = <<>>
              /\ pc[p] = "open" => ~exists
              /\ \A q \in Procs : q # p => pc[q] \in Early

(* What a thread has committed and its ring does not hold is in the file. *)
RingOf(p, t) ==
    /\ Len(ring[p][t]) <= committed[p][t]
    /\ \A k \in 1 .. Len(ring[p][t]) :
          ring[p][t][k] = [proc |-> p, start |-> starts[p], thread |-> t,
                           n |-> committed[p][t] - Len(ring[p][t]) + k, whole |-> TRUE]
    /\ NumbersUpTo(disk, Len(disk), p, starts[p], t) =
          1 .. committed[p][t] - Len(ring[p][t])
    /\ \A start \in Nat : start > starts[p] =>
          NumbersUpTo(disk, Len(disk), p, start, t) = {}

RingInv == \A p \in Procs, t \in Threads : RingOf(p, t)

(* A thread that has been cleaned up, or has not begun, has nothing on its way. *)
DoneOf(p, t) ==
    /\ pc[p] \notin {"off", "run", "over"} \/ t \notin ThreadsOf(p) =>
          slot[p][t] = "none" /\ committed[p][t] = 0
    /\ pc[p] \notin {"off", "run", "over"} => t \notin cleaned[p]
    /\ t \in cleaned[p] => slot[p][t] = "none" /\ ring[p][t] = <<>>
    /\ pc[p] = "over" => ring[p][t] = <<>>

DoneInv == \A p \in Procs, t \in Threads : DoneOf(p, t)

(* A slot is there because the ring had room and the thread a record to come. *)
SlotInv ==
    /\ \A p \in Procs, t \in Threads : slot[p][t] # "none" =>
          committed[p][t] < NumRecs /\ Len(ring[p][t]) < Capacity
    /\ \A p \in Procs : pc[p] # "off" => starts[p] > 0

IInv ==
    /\ TypeOK
    /\ SlotInv
    /\ FileInv
    /\ HeadInv
    /\ RingInv
    /\ DoneInv
    /\ WrittenInOrder

-----------------------------------------------------------------------------
LEMMA ConstantFacts ==
    /\ Main \in Threads /\ Single \subseteq Procs
    /\ Capacity \in Nat /\ Capacity > 0
    /\ NumRecs \in Nat /\ NumRecs > 0
    /\ MaxStarts \in Nat /\ MaxStarts > 0
BY RecordAssumption

(* What one more line adds to the numbers of a thread. *)
AddedBy(x, p, start, t) ==
    {n \in 1 .. NumRecs : \E whole \in BOOLEAN :
        x = <<"record", [proc |-> p, start |-> start, thread |-> t,
                        n |-> n, whole |-> whole]>>}

LEMMA AppendLine ==
  ASSUME NEW lines \in Seq(Lines), NEW x \in Lines
  PROVE  LET more == Append(lines, x)
         IN  /\ more \in Seq(Lines) /\ more # <<>> /\ Len(more) = Len(lines) + 1
             /\ DOMAIN more = 1 .. Len(lines) + 1
             /\ more[Len(lines) + 1] = x
             /\ \A i \in 1 .. Len(lines) : more[i] = lines[i]
BY AppendProperties

LEMMA AppendBefore ==
  ASSUME TypeOK, NEW x \in Lines, disk' = Append(disk, x), NEW k \in 0 .. Len(disk)
  PROVE  \A p, start, t :
            NumbersUpTo(disk', k, p, start, t) = NumbersUpTo(disk, k, p, start, t)
<1> TAKE p, start, t
<1>1. \A i \in 1 .. k : disk'[i] = disk[i]
  BY AppendLine DEF TypeOK
<1>2. \A n : (\E i \in 1 .. k, whole \in BOOLEAN :
                disk'[i] = <<"record", [proc |-> p, start |-> start, thread |-> t,
                                       n |-> n, whole |-> whole]>>)
         <=> (\E i \in 1 .. k, whole \in BOOLEAN :
                disk[i] = <<"record", [proc |-> p, start |-> start, thread |-> t,
                                      n |-> n, whole |-> whole]>>)
  BY <1>1, Zenon
<1> QED
  BY <1>2, Zenon DEF NumbersUpTo

LEMMA AppendCount ==
  ASSUME NEW lines \in Seq(Lines), NEW x \in Lines, NEW p, NEW start, NEW t
  PROVE  NumbersUpTo(Append(lines, x), Len(lines) + 1, p, start, t) =
            NumbersUpTo(lines, Len(lines), p, start, t) \cup AddedBy(x, p, start, t)
<1> DEFINE len == Len(lines)
           more == Append(lines, x)
<1>1. /\ len \in Nat
      /\ \A i \in 1 .. len : more[i] = lines[i]
      /\ more[len + 1] = x
  BY AppendLine
<1> HIDE DEF len, more
<1>2. \A i : i \in 1 .. len + 1 <=> i \in 1 .. len \/ i = len + 1
  BY <1>1
<1>3. NumbersUpTo(more, len + 1, p, start, t) =
         NumbersUpTo(lines, len, p, start, t) \cup AddedBy(x, p, start, t)
  BY <1>1, <1>2 DEF NumbersUpTo, AddedBy
<1> QED
  BY <1>3 DEF len, more

LEMMA DiskCount ==
  ASSUME TypeOK, NEW x \in Lines, disk' = Append(disk, x)
  PROVE  \A p, start, t : NumbersUpTo(disk', Len(disk'), p, start, t) =
            NumbersUpTo(disk, Len(disk), p, start, t) \cup AddedBy(x, p, start, t)
<1> DEFINE more == Append(disk, x)
<1> TAKE p, start, t
<1>1. disk \in Seq(Lines)
  BY DEF TypeOK
<1>2. Len(disk') = Len(disk) + 1 /\ disk' = more
  BY <1>1, AppendLine
<1>3. NumbersUpTo(more, Len(disk) + 1, p, start, t) =
         NumbersUpTo(disk, Len(disk), p, start, t) \cup AddedBy(x, p, start, t)
  BY <1>1, AppendCount
<1> HIDE DEF more
<1>4. NumbersUpTo(disk', Len(disk'), p, start, t) =
         NumbersUpTo(more, Len(disk) + 1, p, start, t)
  BY <1>2, Zenon DEF NumbersUpTo
<1> QED
  BY <1>3, <1>4

(* The head, and a record, as lines of the file. *)
LEMMA HeadLine == <<"head">> \in Lines
BY DEF Lines

LEMMA RecordLine ==
  ASSUME NEW r \in Records
  PROVE  /\ <<"record", r>> \in Lines
         /\ <<"record", r>> # <<"head">>
         /\ <<"record", r>>[2] = r
<1>1. <<"record", r>>[1] = "record" /\ <<"head">>[1] = "head"
  OBVIOUS
<1>2. <<"record", r>> # <<"head">>
  BY <1>1
<1> QED
  BY <1>2 DEF Lines

LEMMA Shift ==
  ASSUME NEW c \in Nat, NEW l \in Nat, NEW k \in Nat
  PROVE  /\ (c + 1) - (l + 1) + k = c - l + k
         /\ (c + 1) - (l + 1) = c - l
         /\ l <= c => l + 1 <= c + 1
OBVIOUS

(* A value of one thread is set. *)
LEMMA SetOne ==
  ASSUME NEW S, NEW f \in [Procs -> [Threads -> S]],
         NEW p \in Procs, NEW t \in Threads, NEW v \in S
  PROVE  /\ [f EXCEPT ![p][t] = v] \in [Procs -> [Threads -> S]]
         /\ \A q \in Procs, u \in Threads :
               [f EXCEPT ![p][t] = v][q][u] = IF q = p /\ u = t THEN v ELSE f[q][u]
OBVIOUS

-----------------------------------------------------------------------------
LEMMA InitIInv == Init => IInv
<1> SUFFICES ASSUME Init PROVE IInv
  OBVIOUS
<1> USE ConstantFacts DEF Init, NoThreads
<1>1. TypeOK
  <2>1. <<>> \in Seq(Records) /\ <<>> \in Seq(Lines) /\ Len(<<>>) = 0
    OBVIOUS
  <2>2. ring \in [Procs -> [Threads -> Seq(Records)]]
    BY <2>1
  <2>3. \A p \in Procs, t \in Threads : Len(ring[p][t]) <= Capacity
    OBVIOUS
  <2>4. /\ slot \in [Procs -> [Threads -> {"none", "prepared", "filled"}]]
        /\ committed \in [Procs -> [Threads -> 0 .. NumRecs]]
        /\ cleaned \in [Procs -> SUBSET Threads]
    OBVIOUS
  <2>5. /\ pc \in [Procs -> Steps]
        /\ starts \in [Procs -> 0 .. MaxStarts]
        /\ log_ctx \in [Procs -> {"none", "live", "cleaned"}]
    BY DEF Steps
  <2>6. /\ need_write_head \in [Procs -> BOOLEAN]
        /\ disk \in Seq(Lines) /\ exists \in BOOLEAN /\ in_turn \in BOOLEAN
    BY <2>1
  <2> QED
    BY <2>2, <2>3, <2>4, <2>5, <2>6 DEF TypeOK
<1>2. FileInv /\ HeadInv /\ SlotInv
  BY DEF FileInv, HeadInv, HeadToCome, Early, SlotInv
<1>3. RingInv
  <2> SUFFICES ASSUME NEW p \in Procs, NEW t \in Threads PROVE RingOf(p, t)
    BY DEF RingInv
  <2>1. \A start : NumbersUpTo(disk, Len(disk), p, start, t) = {}
    BY DEF NumbersUpTo
  <2>2. ring[p][t] = <<>> /\ committed[p][t] = 0 /\ Len(<<>>) = 0
    OBVIOUS
  <2> QED
    BY <2>1, <2>2 DEF RingOf
<1>4. DoneInv /\ WrittenInOrder
  BY DEF DoneInv, DoneOf, WrittenInOrder
<1> QED
  BY <1>1, <1>2, <1>3, <1>4 DEF IInv

-----------------------------------------------------------------------------
LEMMA TypeStep == TypeOK /\ SlotInv /\ [Next]_vars => TypeOK'
<1> SUFFICES ASSUME TypeOK, SlotInv, [Next]_vars PROVE TypeOK'
  OBVIOUS
<1> USE ConstantFacts DEF TypeOK, Goto, GiveUp, Steps, starting, file, rings
<1>1. ASSUME NEW p \in Procs, Start(p) PROVE TypeOK'
  <2>1. <<>> \in Seq(Records) /\ Len(<<>>) = 0
    OBVIOUS
  <2>2. ring' \in [Procs -> [Threads -> Seq(Records)]]
    BY <1>1, <2>1 DEF Start
  <2>3. \A q \in Procs, t \in Threads : Len(ring'[q][t]) <= Capacity
    BY <1>1, <2>1 DEF Start
  <2>4. starts' \in [Procs -> 0 .. MaxStarts]
    BY <1>1 DEF Start
  <2> QED
    BY <1>1, <2>2, <2>3, <2>4 DEF Start
<1>2. ASSUME NEW p \in Procs, nb_parse_args(p) \/ nb_log_init(p) PROVE TypeOK'
  BY <1>2 DEF nb_parse_args, nb_log_init
<1>3. ASSUME NEW p \in Procs, CheckPath(p) \/ nb_record_open_file(p) PROVE TypeOK'
  BY <1>3 DEF CheckPath, nb_record_open_file
<1>4. ASSUME NEW p \in Procs, WriteHead(p) PROVE TypeOK'
  <2>1. disk' \in Seq(Lines)
    BY <1>4, HeadLine, AppendLine DEF WriteHead
  <2> QED
    BY <1>4, <2>1 DEF WriteHead
<1>5. ASSUME NEW p \in Procs, muggle_ma_ring_backend_run(p) \/ muggle_socket_lib_init(p)
      PROVE  TypeOK'
  BY <1>5 DEF muggle_ma_ring_backend_run, muggle_socket_lib_init
<1>6. ASSUME NEW p \in Procs, Exit(p) \/ Kill(p) PROVE TypeOK'
  BY <1>6 DEF Exit, Kill
<1>7. ASSUME NEW p \in Procs, NEW t \in Threads, nb_record_prepare(p, t) \/ Fill(p, t)
      PROVE  TypeOK'
  <2>1. slot' \in [Procs -> [Threads -> {"none", "prepared", "filled"}]]
    <3>1. PICK v \in {"none", "prepared", "filled"} : slot' = [slot EXCEPT ![p][t] = v]
      BY <1>7 DEF nb_record_prepare, Fill
    <3> QED
      BY <3>1, SetOne
  <2> QED
    BY <1>7, <2>1 DEF nb_record_prepare, Fill
<1>8. ASSUME NEW p \in Procs, NEW t \in Threads, nb_record_cleanup_thread_ctx(p, t)
      PROVE  TypeOK'
  BY <1>8 DEF nb_record_cleanup_thread_ctx
<1>9. ASSUME NEW p \in Procs, NEW t \in Threads, nb_record_commit(p, t) PROVE TypeOK'
  <2> DEFINE r == [proc |-> p, start |-> starts[p], thread |-> t,
                   n |-> committed[p][t] + 1, whole |-> slot[p][t] = "filled"]
  <2>1. /\ committed[p][t] + 1 \in 0 .. NumRecs /\ committed[p][t] + 1 \in 1 .. NumRecs
        /\ Len(ring[p][t]) + 1 <= Capacity
        /\ starts[p] \in 1 .. MaxStarts
    <3>1. pc[p] = "run" /\ slot[p][t] = "filled"
      BY <1>9 DEF nb_record_commit, MayCommit
    <3>2. committed[p][t] < NumRecs /\ Len(ring[p][t]) < Capacity /\ starts[p] > 0
      BY <3>1 DEF SlotInv
    <3>3. committed[p][t] \in 0 .. NumRecs /\ starts[p] \in 0 .. MaxStarts
          /\ Len(ring[p][t]) \in Nat
      OBVIOUS
    <3> QED
      BY <3>2, <3>3
  <2>2. slot' \in [Procs -> [Threads -> {"none", "prepared", "filled"}]]
    BY <1>9, SetOne DEF nb_record_commit
  <2>3. committed' \in [Procs -> [Threads -> 0 .. NumRecs]]
    BY <1>9, <2>1, SetOne DEF nb_record_commit
  <2>4. r \in Records
    BY <2>1 DEF Records
  <2> HIDE DEF r
  <2>5. /\ Append(ring[p][t], r) \in Seq(Records)
        /\ Len(Append(ring[p][t], r)) = Len(ring[p][t]) + 1
    BY <2>4, AppendProperties
  <2>6. ring' = [ring EXCEPT ![p][t] = Append(ring[p][t], r)]
    BY <1>9 DEF nb_record_commit, r
  <2>7. /\ ring' \in [Procs -> [Threads -> Seq(Records)]]
        /\ \A q \in Procs, u \in Threads : Len(ring'[q][u]) <= Capacity
    BY <2>1, <2>5, <2>6, SetOne
  <2> QED
    BY <1>9, <2>2, <2>3, <2>7 DEF nb_record_commit
<1>10. ASSUME NEW p \in Procs, NEW t \in Threads, nb_ts_record_callback(p, t) PROVE TypeOK'
  <2>1. /\ Tail(ring[p][t]) \in Seq(Records)
        /\ Len(Tail(ring[p][t])) = Len(ring[p][t]) - 1
        /\ ring[p][t][1] \in Records
    BY <1>10, HeadTailProperties DEF nb_ts_record_callback, Pending
  <2>2. ring' = [ring EXCEPT ![p][t] = Tail(ring[p][t])]
    BY <1>10 DEF nb_ts_record_callback, TakeSlot
  <2>3. /\ ring' \in [Procs -> [Threads -> Seq(Records)]]
        /\ \A q \in Procs, u \in Threads : Len(ring'[q][u]) <= Capacity
    BY <2>1, <2>2, SetOne
  <2>4. disk' \in Seq(Lines)
    BY <1>10, <2>1, RecordLine, AppendLine DEF nb_ts_record_callback
  <2> QED
    BY <1>10, <2>3, <2>4 DEF nb_ts_record_callback
<1>11. CASE UNCHANGED vars
  BY <1>11 DEF vars
<1> QED
  BY <1>1, <1>2, <1>3, <1>4, <1>5, <1>6, <1>7, <1>8, <1>9, <1>10, <1>11
     DEF Next, MainStep, ThreadStep, Quiet, ThreadsOf

LEMMA SlotStep == TypeOK /\ SlotInv /\ [Next]_vars => SlotInv'
<1> SUFFICES ASSUME TypeOK, SlotInv, [Next]_vars PROVE SlotInv'
  OBVIOUS
<1> USE DEF TypeOK, SlotInv, Goto, GiveUp, starting, file, rings
<1>1. ASSUME NEW p \in Procs, Start(p) PROVE SlotInv'
  <2>1. \A q \in Procs : q # p => /\ slot'[q] = slot[q] /\ committed'[q] = committed[q]
                                 /\ ring'[q] = ring[q] /\ starts'[q] = starts[q]
                                 /\ pc'[q] = pc[q]
    BY <1>1 DEF Start
  <2>2. (\A t \in Threads : slot'[p][t] = "none") /\ starts'[p] > 0
    BY <1>1, ConstantFacts DEF Start
  <2> QED
    BY <2>1, <2>2
<1>2. ASSUME NEW p \in Procs, MainStep(p) \/ Kill(p) PROVE SlotInv'
  <2>1. UNCHANGED <<slot, committed, ring, starts>>
    BY <1>2 DEF MainStep, Kill, nb_parse_args, nb_log_init, CheckPath, nb_record_open_file,
                WriteHead, muggle_ma_ring_backend_run, muggle_socket_lib_init, Exit
  <2>2. \A q \in Procs : pc'[q] # "off" => pc[q] # "off"
    BY <1>2 DEF MainStep, Kill, nb_parse_args, nb_log_init, CheckPath, nb_record_open_file,
                WriteHead, muggle_ma_ring_backend_run, muggle_socket_lib_init, Exit
  <2> QED
    BY <2>1, <2>2
<1>3. ASSUME NEW p \in Procs, NEW t \in Threads, nb_record_prepare(p, t) PROVE SlotInv'
  BY <1>3 DEF nb_record_prepare
<1>4. ASSUME NEW p \in Procs, NEW t \in Threads, Fill(p, t) PROVE SlotInv'
  BY <1>4 DEF Fill
<1>5. ASSUME NEW p \in Procs, NEW t \in Threads, nb_record_commit(p, t) PROVE SlotInv'
  <2>1. /\ slot' = [slot EXCEPT ![p][t] = "none"] /\ UNCHANGED <<pc, starts>>
        /\ \A q \in Procs, u \in Threads : ~(q = p /\ u = t) =>
              committed'[q][u] = committed[q][u] /\ ring'[q][u] = ring[q][u]
    BY <1>5 DEF nb_record_commit
  <2> QED
    BY <2>1
<1>6. ASSUME NEW p \in Procs, NEW t \in Threads,
             nb_record_cleanup_thread_ctx(p, t)
      PROVE  SlotInv'
  BY <1>6 DEF nb_record_cleanup_thread_ctx
<1>7. ASSUME NEW p \in Procs, NEW t \in Threads, nb_ts_record_callback(p, t)
      PROVE  SlotInv'
  <2>1. /\ UNCHANGED <<pc, starts, slot, committed>>
        /\ ring' = [ring EXCEPT ![p][t] = Tail(ring[p][t])] /\ ring[p][t] # <<>>
    BY <1>7 DEF nb_ts_record_callback, Pending, TakeSlot
  <2>2. ring[p][t] \in Seq(Records)
    OBVIOUS
  <2>3. Len(Tail(ring[p][t])) = Len(ring[p][t]) - 1 /\ Len(ring[p][t]) \in Nat
    BY <2>1, <2>2, HeadTailProperties
  <2>4. \A q \in Procs, u \in Threads :
           ring'[q][u] = IF q = p /\ u = t THEN Tail(ring[p][t]) ELSE ring[q][u]
    BY <2>1
  <2>5. \A q \in Procs, u \in Threads : Len(ring[q][u]) < Capacity => Len(ring'[q][u]) < Capacity
    <3> TAKE q \in Procs, u \in Threads
    <3>1. CASE q = p /\ u = t
      <4>1. ring'[q][u] = Tail(ring[p][t]) /\ ring[q][u] = ring[p][t]
        BY <2>4, <3>1
      <4>2. Len(ring'[q][u]) = Len(ring[q][u]) - 1 /\ Len(ring[q][u]) \in Nat
        BY <2>3, <4>1
      <4> QED
        BY <4>2, ConstantFacts
    <3>2. CASE ~(q = p /\ u = t)
      BY <2>4, <3>2
    <3> QED
      BY <3>1, <3>2
  <2> QED
    BY <2>1, <2>5
<1>8. CASE UNCHANGED vars
  BY <1>8 DEF vars
<1> HIDE DEF TypeOK, SlotInv
<1> QED
  BY <1>1, <1>2, <1>3, <1>4, <1>5, <1>6, <1>7, <1>8, ConstantFacts
     DEF Next, ThreadStep, Quiet, ThreadsOf

-----------------------------------------------------------------------------
LEMMA FileStep == TypeOK /\ FileInv /\ [Next]_vars => FileInv'
<1> SUFFICES ASSUME TypeOK, FileInv, [Next]_vars PROVE FileInv'
  OBVIOUS
<1> USE DEF TypeOK, FileInv, Early, Goto, GiveUp, starting, file, rings
<1>1. ASSUME NEW p \in Procs, Start(p) PROVE FileInv'
  BY <1>1 DEF Start
<1>2. ASSUME NEW p \in Procs, nb_parse_args(p) \/ nb_log_init(p) PROVE FileInv'
  BY <1>2 DEF nb_parse_args, nb_log_init
<1>3. ASSUME NEW p \in Procs, CheckPath(p) PROVE FileInv'
  BY <1>3 DEF CheckPath
<1>4. ASSUME NEW p \in Procs, nb_record_open_file(p) PROVE FileInv'
  BY <1>4 DEF nb_record_open_file
<1>5. ASSUME NEW p \in Procs, WriteHead(p) PROVE FileInv'
  BY <1>5 DEF WriteHead
<1>6. ASSUME NEW p \in Procs, muggle_ma_ring_backend_run(p) \/ muggle_socket_lib_init(p)
      PROVE  FileInv'
  BY <1>6 DEF muggle_ma_ring_backend_run, muggle_socket_lib_init
<1>7. ASSUME NEW p \in Procs, Exit(p) \/ Kill(p) PROVE FileInv'
  BY <1>7 DEF Exit, Kill
<1>8. ASSUME NEW p \in Procs, NEW t \in Threads, ThreadStep(p, t) PROVE FileInv'
  BY <1>8 DEF ThreadStep, nb_record_prepare, Fill, nb_record_commit,
              nb_record_cleanup_thread_ctx
<1>9. ASSUME NEW p \in Procs, NEW t \in Threads, nb_ts_record_callback(p, t) PROVE FileInv'
  <2>1. exists /\ UNCHANGED <<pc, need_write_head, exists>>
    BY <1>9 DEF nb_ts_record_callback
  <2> QED
    BY <2>1
<1>10. CASE UNCHANGED vars
  BY <1>10 DEF vars
<1> HIDE DEF TypeOK, FileInv
<1> QED
  BY <1>1, <1>2, <1>3, <1>4, <1>5, <1>6, <1>7, <1>8, <1>9, <1>10, ConstantFacts
     DEF Next, MainStep, Quiet, ThreadsOf

(* A step that leaves the file and the way of processes to the head alone. *)
LEMMA HeadKept ==
  ASSUME HeadInv, UNCHANGED <<disk, exists>>, in_turn' => in_turn,
         \A q \in Procs : HeadToCome(q)' => HeadToCome(q) /\ pc'[q] = pc[q],
         in_turn' => \A q \in Procs :
            pc[q] = "head" /\ need_write_head[q] => pc'[q] = "head" /\ need_write_head'[q],
         \A q \in Procs : pc[q] \in Early => pc'[q] \in Early
  PROVE  HeadInv'
BY DEF HeadInv

LEMMA HeadStep == TypeOK /\ FileInv /\ HeadInv /\ [Next]_vars => HeadInv'
<1> SUFFICES ASSUME TypeOK, FileInv, HeadInv, [Next]_vars PROVE HeadInv'
  OBVIOUS
<1> USE DEF TypeOK, Early, Goto, GiveUp, starting, file, rings
<1>1. ASSUME NEW p \in Procs, Start(p) PROVE HeadInv'
  BY <1>1, HeadKept DEF Start, HeadToCome
<1>2. ASSUME NEW p \in Procs, nb_parse_args(p) \/ nb_log_init(p) PROVE HeadInv'
  BY <1>2, HeadKept DEF nb_parse_args, nb_log_init, HeadToCome
<1>3. ASSUME NEW p \in Procs, CheckPath(p) PROVE HeadInv'
  <2> SUFFICES ASSUME in_turn' PROVE HeadInv'
    BY DEF HeadInv
  <2>1. /\ in_turn /\ UNCHANGED <<disk, exists>>
        /\ \A q \in Procs : ~HeadToCome(q)
        /\ pc'[p] = "open" /\ need_write_head'[p] = ~exists
        /\ \A q \in Procs : q # p => /\ pc'[q] = pc[q]
                                    /\ need_write_head'[q] = need_write_head[q]
    BY <1>3 DEF CheckPath
  <2>2. \A q \in Procs : HeadToCome(q)' => q = p /\ ~exists
    BY <2>1 DEF HeadToCome
  <2>3. ~exists => disk = <<>> /\ \A q \in Procs : pc[q] \in Early
    BY <2>1 DEF FileInv, HeadToCome
  <2>4. exists => disk # <<>>
    BY <2>1 DEF HeadInv, HeadToCome
  <2> QED
    BY <2>1, <2>2, <2>3, <2>4 DEF HeadInv
<1>4. ASSUME NEW p \in Procs, nb_record_open_file(p) PROVE HeadInv'
  <2>1. /\ pc[p] = "open" /\ UNCHANGED <<disk, need_write_head, in_turn>>
        /\ \A q \in Procs : q # p => pc'[q] = pc[q]
    BY <1>4 DEF nb_record_open_file
  <2>2. CASE pc'[p] = "over" /\ UNCHANGED exists
    BY <2>1, <2>2, HeadKept DEF HeadToCome
  <2>3. CASE pc'[p] = "head" /\ exists'
    <3> SUFFICES ASSUME in_turn' PROVE HeadInv'
      BY DEF HeadInv
    <3>1. CASE need_write_head[p]
      <4>1. HeadToCome(p)
        BY <2>1, <3>1 DEF HeadToCome
      <4>2. disk = <<>> /\ \A q \in Procs : q # p => pc[q] \in Early
        BY <2>1, <4>1 DEF HeadInv
      <4>3. \A q \in Procs : q # p => ~HeadToCome(q)'
        BY <2>1, <4>2 DEF HeadToCome
      <4> QED
        BY <2>1, <2>3, <3>1, <4>2, <4>3 DEF HeadInv
    <3>2. CASE ~need_write_head[p]
      <4>1. exists
        BY <2>1, <3>2 DEF FileInv
      <4>2. \A q \in Procs : ~HeadToCome(q)
        BY <2>1, <3>2 DEF HeadInv, HeadToCome
      <4>3. \A q \in Procs : ~HeadToCome(q)'
        BY <2>1, <3>2, <4>2 DEF HeadToCome
      <4>4. disk # <<>>
        BY <2>1, <4>1, <4>2 DEF HeadInv, HeadToCome
      <4> QED
        BY <2>1, <4>3, <4>4 DEF HeadInv
    <3> QED
      BY <3>1, <3>2
  <2> QED
    BY <1>4, <2>2, <2>3 DEF nb_record_open_file
<1>5. ASSUME NEW p \in Procs, WriteHead(p) PROVE HeadInv'
  <2>1. /\ pc[p] = "head" /\ pc'[p] = "backend"
        /\ UNCHANGED <<exists, need_write_head, in_turn>>
        /\ \A q \in Procs : q # p => pc'[q] = pc[q]
    BY <1>5 DEF WriteHead
  <2>2. CASE need_write_head[p]
    <3> SUFFICES ASSUME in_turn' PROVE HeadInv'
      BY DEF HeadInv
    <3>1. HeadToCome(p)
      BY <2>1, <2>2 DEF HeadToCome
    <3>2. disk = <<>> /\ \A q \in Procs : q # p => pc[q] \in Early
      BY <2>1, <3>1 DEF HeadInv
    <3>3. disk' = Append(<<>>, <<"head">>)
      BY <1>5, <2>2, <3>2 DEF WriteHead, HeadNeeded
    <3>4. disk' # <<>> /\ \A i \in DOMAIN disk' : disk'[i] = <<"head">> <=> i = 1
      BY <3>3
    <3>5. \A q \in Procs : ~HeadToCome(q)'
      BY <2>1, <3>2 DEF HeadToCome
    <3> QED
      BY <3>4, <3>5 DEF HeadInv
  <2>3. CASE ~need_write_head[p]
    <3>1. UNCHANGED disk
      BY <1>5, <2>3 DEF WriteHead, HeadNeeded
    <3> QED
      BY <2>1, <2>3, <3>1, HeadKept DEF HeadToCome
  <2> QED
    BY <2>2, <2>3
<1>6. ASSUME NEW p \in Procs, muggle_ma_ring_backend_run(p) \/ muggle_socket_lib_init(p)
      PROVE  HeadInv'
  BY <1>6, HeadKept DEF muggle_ma_ring_backend_run, muggle_socket_lib_init, HeadToCome
<1>7. ASSUME NEW p \in Procs, Exit(p) \/ Kill(p) PROVE HeadInv'
  <2>1. /\ UNCHANGED <<disk, exists, need_write_head>>
        /\ pc'[p] \in {"off", "over"}
        /\ in_turn' => in_turn
        /\ in_turn' => ~(pc[p] = "head" /\ need_write_head[p])
        /\ \A q \in Procs : q # p => pc'[q] = pc[q]
    <3>1. CASE Exit(p)
      BY <3>1 DEF Exit
    <3>2. CASE Kill(p)
      BY <3>2 DEF Kill
    <3> QED
      BY <1>7, <3>1, <3>2
  <2> QED
    BY <2>1, HeadKept DEF HeadToCome
<1>8. ASSUME NEW p \in Procs, NEW t \in Threads, ThreadStep(p, t) PROVE HeadInv'
  BY <1>8, HeadKept DEF ThreadStep, nb_record_prepare, Fill, nb_record_commit,
              nb_record_cleanup_thread_ctx, HeadToCome
<1>9. ASSUME NEW p \in Procs, NEW t \in Threads, nb_ts_record_callback(p, t) PROVE HeadInv'
  <2> SUFFICES ASSUME in_turn' PROVE HeadInv'
    BY DEF HeadInv
  <2>1. /\ exists /\ in_turn /\ UNCHANGED <<pc, need_write_head, exists>>
        /\ pc[p] \notin Early \cup {"open", "head"}
        /\ ring[p][t] # <<>> /\ disk' = Append(disk, <<"record", ring[p][t][1]>>)
    BY <1>9 DEF nb_ts_record_callback, Pending, FileInv
  <2>2. \A q \in Procs : ~HeadToCome(q)
    BY <2>1 DEF HeadInv, HeadToCome
  <2>3. disk # <<>> /\ \A i \in DOMAIN disk : disk[i] = <<"head">> <=> i = 1
    BY <2>1, <2>2 DEF HeadInv, HeadToCome
  <2>4. ring[p][t][1] \in Records
    BY <2>1
  <2>5. /\ disk' # <<>> /\ DOMAIN disk' = 1 .. Len(disk) + 1
        /\ disk'[Len(disk) + 1] # <<"head">>
        /\ \A i \in 1 .. Len(disk) : disk'[i] = disk[i]
    <3> DEFINE line == <<"record", ring[p][t][1]>>
    <3>1. line \in Lines /\ line # <<"head">>
      BY <2>4, RecordLine
    <3> HIDE DEF line
    <3>2. disk' = Append(disk, line)
      BY <2>1 DEF line
    <3> QED
      BY <3>1, <3>2, AppendLine
  <2>6. Len(disk) \in Nat /\ Len(disk) > 0 /\ DOMAIN disk = 1 .. Len(disk)
    BY <2>3, EmptySeq
  <2>7. ASSUME NEW i \in DOMAIN disk' PROVE disk'[i] = <<"head">> <=> i = 1
    <3>1. CASE i \in 1 .. Len(disk)
      BY <2>3, <2>5, <2>6, <3>1
    <3>2. CASE i = Len(disk) + 1
      BY <2>5, <2>6, <3>2
    <3> QED
      BY <2>5, <2>6, <3>1, <3>2
  <2>8. \A q \in Procs : ~HeadToCome(q)'
    BY <2>1, <2>2 DEF HeadToCome
  <2> QED
    BY <2>5, <2>7, <2>8 DEF HeadInv
<1>10. CASE UNCHANGED vars
  BY <1>10, HeadKept DEF vars, HeadToCome
<1> HIDE DEF TypeOK
<1> QED
  BY <1>1, <1>2, <1>3, <1>4, <1>5, <1>6, <1>7, <1>8, <1>9, <1>10, ConstantFacts
     DEF Next, MainStep, Quiet, ThreadsOf

-----------------------------------------------------------------------------
(* The main thread of a process leaves the rings alone, and writes no record. *)
LEMMA MainKeeps ==
  ASSUME TypeOK, NEW p \in Procs, MainStep(p) \/ Kill(p)
  PROVE  /\ UNCHANGED <<starts, slot, committed, ring, cleaned>>
         /\ UNCHANGED disk \/ disk' = Append(disk, <<"head">>)
         /\ \A q \in Procs : q # p => pc'[q] = pc[q]
         /\ pc'[p] \in {"off", "run"} => pc'[p] = "off" \/ pc[p] = "socket"
         /\ pc'[p] = "over" => pc[p] \notin {"off", "run", "over"} \/ Exit(p)
         /\ pc'[p] \notin {"off", "run", "over"} => pc[p] \notin {"off", "run", "over"}
<1> USE DEF TypeOK, Goto, GiveUp, starting, file, rings
<1>1. CASE nb_parse_args(p) \/ nb_log_init(p)
  BY <1>1 DEF nb_parse_args, nb_log_init
<1>2. CASE CheckPath(p) \/ nb_record_open_file(p)
  BY <1>2 DEF CheckPath, nb_record_open_file
<1>3. CASE WriteHead(p)
  BY <1>3 DEF WriteHead
<1>4. CASE muggle_ma_ring_backend_run(p) \/ muggle_socket_lib_init(p)
  BY <1>4 DEF muggle_ma_ring_backend_run, muggle_socket_lib_init
<1>5. CASE Exit(p)
  BY <1>5 DEF Exit
<1>6. CASE Kill(p)
  BY <1>6 DEF Kill
<1> QED
  BY <1>1, <1>2, <1>3, <1>4, <1>5, <1>6 DEF MainStep

(* The head is no record of anybody. *)
LEMMA HeadAdds ==
  ASSUME TypeOK, disk' = Append(disk, <<"head">>)
  PROVE  \A p, start, t :
            NumbersUpTo(disk', Len(disk'), p, start, t) =
               NumbersUpTo(disk, Len(disk), p, start, t)
<1> TAKE p, start, t
<1>1. \A n, whole : <<"head">> # <<"record", [proc |-> p, start |-> start, thread |-> t,
                                              n |-> n, whole |-> whole]>>
  OBVIOUS
<1>2. AddedBy(<<"head">>, p, start, t) = {}
  BY <1>1 DEF AddedBy
<1> DEFINE line == <<"head">>
<1>3. line \in Lines /\ disk' = Append(disk, line) /\ AddedBy(line, p, start, t) = {}
  BY <1>2, HeadLine
<1> HIDE DEF line
<1>4. NumbersUpTo(disk', Len(disk'), p, start, t) =
         NumbersUpTo(disk, Len(disk), p, start, t) \cup AddedBy(line, p, start, t)
  BY <1>3, DiskCount
<1> QED
  BY <1>3, <1>4

LEMMA RecordAdds ==
  ASSUME TypeOK, NEW r \in Records, disk' = Append(disk, <<"record", r>>)
  PROVE  \A p, start, t :
            NumbersUpTo(disk', Len(disk'), p, start, t) =
               NumbersUpTo(disk, Len(disk), p, start, t)
                  \cup (IF r.proc = p /\ r.start = start /\ r.thread = t THEN {r.n} ELSE {})
<1> TAKE p, start, t
<1> DEFINE added == AddedBy(<<"record", r>>, p, start, t)
<1>1. added = {n \in 1 .. NumRecs : \E whole \in BOOLEAN :
                 r = [proc |-> p, start |-> start, thread |-> t, n |-> n, whole |-> whole]}
  BY DEF AddedBy
<1>2. added = IF r.proc = p /\ r.start = start /\ r.thread = t THEN {r.n} ELSE {}
  <2>1. CASE r.proc = p /\ r.start = start /\ r.thread = t
    <3>1. r.n \in 1 .. NumRecs /\ r.whole \in BOOLEAN
      BY DEF Records
    <3>2. r = [proc |-> p, start |-> start, thread |-> t, n |-> r.n, whole |-> r.whole]
      BY <2>1 DEF Records
    <3>3. r.n \in added
      BY <1>1, <3>1, <3>2
    <3>4. \A n \in added : n = r.n
      BY <1>1
    <3> HIDE DEF added
    <3> QED
      BY <2>1, <3>3, <3>4
  <2>2. CASE ~(r.proc = p /\ r.start = start /\ r.thread = t)
    <3>1. \A n \in added : FALSE
      BY <1>1, <2>2
    <3> HIDE DEF added
    <3> QED
      BY <2>2, <3>1
  <2> QED
    BY <2>1, <2>2
<1> DEFINE line == <<"record", r>>
<1>3. line \in Lines /\ disk' = Append(disk, line) /\ AddedBy(line, p, start, t) = added
  BY RecordLine
<1> HIDE DEF line
<1>4. NumbersUpTo(disk', Len(disk'), p, start, t) =
         NumbersUpTo(disk, Len(disk), p, start, t) \cup AddedBy(line, p, start, t)
  BY <1>3, DiskCount
<1> HIDE DEF added
<1> QED
  BY <1>2, <1>3, <1>4

(* A step that writes no record and leaves the rings alone. *)
LEMMA RingsStay ==
  ASSUME TypeOK, RingInv, UNCHANGED <<starts, committed, ring>>,
         UNCHANGED disk \/ disk' = Append(disk, <<"head">>)
  PROVE  RingInv'
<1>1. \A p, start, t : NumbersUpTo(disk', Len(disk'), p, start, t) =
                          NumbersUpTo(disk, Len(disk), p, start, t)
  BY HeadAdds
<1> QED
  BY <1>1 DEF RingInv, RingOf

LEMMA RingStep == TypeOK /\ SlotInv /\ RingInv /\ [Next]_vars => RingInv'
<1> SUFFICES ASSUME TypeOK, SlotInv, RingInv, [Next]_vars PROVE RingInv'
  OBVIOUS
<1> USE DEF starting, file, rings
<1>1. ASSUME NEW p \in Procs, Start(p) PROVE RingInv'
  <2> SUFFICES ASSUME NEW q \in Procs, NEW u \in Threads PROVE RingOf(q, u)'
    BY DEF RingInv
  <2>1. UNCHANGED disk /\ RingOf(q, u)
    BY <1>1 DEF Start, RingInv
  <2>2. CASE q # p
    <3>1. ring'[q][u] = ring[q][u] /\ committed'[q][u] = committed[q][u]
          /\ starts'[q] = starts[q]
      BY <1>1, <2>2 DEF Start, TypeOK
    <3> QED
      BY <2>1, <3>1 DEF RingOf
  <2>3. CASE q = p
    <3>1. /\ ring'[q][u] = <<>> /\ committed'[q][u] = 0
          /\ starts'[q] \in Nat /\ starts'[q] > starts[q] /\ starts[q] \in Nat
      BY <1>1, <2>3, ConstantFacts DEF Start, TypeOK
    <3>2. \A start \in Nat : start > starts[q] => NumbersUpTo(disk, Len(disk), q, start, u) = {}
      BY <2>1 DEF RingOf
    <3>3. /\ NumbersUpTo(disk', Len(disk'), q, starts'[q], u) = {}
          /\ \A start \in Nat : start > starts'[q] =>
                NumbersUpTo(disk', Len(disk'), q, start, u) = {}
      BY <2>1, <3>1, <3>2
    <3>4. Len(ring'[q][u]) = 0 /\ 1 .. 0 - 0 = {}
      BY <3>1
    <3> QED
      BY <3>1, <3>3, <3>4 DEF RingOf
  <2> QED
    BY <2>2, <2>3
<1>2. ASSUME NEW p \in Procs, MainStep(p) \/ Kill(p) PROVE RingInv'
  BY <1>2, MainKeeps, RingsStay
<1>3. ASSUME NEW p \in Procs, NEW t \in Threads,
             nb_record_prepare(p, t) \/ Fill(p, t) \/ nb_record_cleanup_thread_ctx(p, t)
      PROVE  RingInv'
  BY <1>3, RingsStay DEF nb_record_prepare, Fill, nb_record_cleanup_thread_ctx
<1>4. ASSUME NEW p \in Procs, NEW t \in Threads, nb_record_commit(p, t) PROVE RingInv'
  <2> SUFFICES ASSUME NEW q \in Procs, NEW u \in Threads PROVE RingOf(q, u)'
    BY DEF RingInv
  <2> DEFINE r == [proc |-> p, start |-> starts[p], thread |-> t,
                   n |-> committed[p][t] + 1, whole |-> slot[p][t] = "filled"]
             len == Len(ring[p][t])
  <2>1. UNCHANGED <<disk, starts>> /\ RingOf(q, u)
    BY <1>4 DEF nb_record_commit, RingInv
  <2>2. CASE ~(q = p /\ u = t)
    <3>1. ring'[q][u] = ring[q][u] /\ committed'[q][u] = committed[q][u]
      BY <1>4, <2>2 DEF nb_record_commit, TypeOK
    <3> QED
      BY <2>1, <3>1 DEF RingOf
  <2>3. CASE q = p /\ u = t
    <3>1. pc[p] = "run" /\ slot[p][t] = "filled"
      BY <1>4 DEF nb_record_commit, MayCommit
    <3>2. /\ committed[p][t] \in Nat /\ len \in Nat /\ starts[p] \in 1 .. MaxStarts
          /\ committed[p][t] + 1 \in 1 .. NumRecs /\ ring[p][t] \in Seq(Records)
      <4>1. committed[p][t] < NumRecs /\ starts[p] > 0
        BY <3>1 DEF SlotInv
      <4>2. /\ committed[p][t] \in 0 .. NumRecs /\ starts[p] \in 0 .. MaxStarts
            /\ ring[p][t] \in Seq(Records)
        BY DEF TypeOK
      <4> QED
        BY <4>1, <4>2, ConstantFacts
    <3>3. r = [proc |-> p, start |-> starts[p], thread |-> t,
               n |-> committed[p][t] + 1, whole |-> TRUE] /\ r \in Records
      BY <3>1, <3>2 DEF Records
    <3>4. ring'[p][t] = Append(ring[p][t], r) /\ committed'[p][t] = committed[p][t] + 1
      BY <1>4 DEF nb_record_commit, TypeOK
    <3> HIDE DEF r
    <3>5. /\ Len(ring'[p][t]) = len + 1
          /\ \A k \in 1 .. len : ring'[p][t][k] = ring[p][t][k]
          /\ ring'[p][t][len + 1] = r
      BY <3>2, <3>3, <3>4, AppendProperties
    <3> HIDE DEF len
    <3>6. /\ len <= committed[p][t]
          /\ \A k \in 1 .. len :
                ring[p][t][k] = [proc |-> p, start |-> starts[p], thread |-> t,
                                 n |-> committed[p][t] - len + k, whole |-> TRUE]
      BY <2>1, <2>3 DEF RingOf, len
    <3>7. ASSUME NEW k \in 1 .. len + 1
          PROVE  ring'[p][t][k] = [proc |-> p, start |-> starts[p], thread |-> t,
                                   n |-> (committed[p][t] + 1) - (len + 1) + k, whole |-> TRUE]
      <4>1. (committed[p][t] + 1) - (len + 1) + k = committed[p][t] - len + k
        <5>1. k \in Nat
          BY <3>2
        <5> QED
          BY <3>2, <5>1, Shift
      <4>2. CASE k \in 1 .. len
        BY <3>5, <3>6, <4>1, <4>2
      <4>3. CASE k = len + 1
        <5>1. committed[p][t] - len + k = committed[p][t] + 1
          BY <3>2, <4>3
        <5> QED
          BY <3>3, <3>5, <4>1, <4>3, <5>1
      <4> QED
        BY <3>2, <4>2, <4>3
    <3>8. (committed[p][t] + 1) - (len + 1) = committed[p][t] - len
          /\ len + 1 <= committed[p][t] + 1
      BY <3>2, <3>6, Shift
    <3>9. Len(ring'[p][t]) <= committed'[p][t]
      BY <3>4, <3>5, <3>8
    <3>10. committed'[p][t] - Len(ring'[p][t]) = committed[p][t] - Len(ring[p][t])
      BY <3>4, <3>5, <3>8 DEF len
    <3> QED
      BY <2>1, <2>3, <3>4, <3>5, <3>7, <3>9, <3>10 DEF RingOf
  <2> QED
    BY <2>2, <2>3
<1>5. ASSUME NEW p \in Procs, NEW t \in Threads, nb_ts_record_callback(p, t) PROVE RingInv'
  <2> SUFFICES ASSUME NEW q \in Procs, NEW u \in Threads PROVE RingOf(q, u)'
    BY DEF RingInv
  <2> DEFINE r == ring[p][t][1]
             len == Len(ring[p][t])
  <2>1. UNCHANGED <<starts, committed>> /\ RingOf(q, u) /\ RingOf(p, t)
    BY <1>5 DEF nb_ts_record_callback, RingInv
  <2>2. /\ ring[p][t] \in Seq(Records) /\ len \in Nat /\ len > 0 /\ r \in Records
        /\ committed[p][t] \in Nat /\ starts[p] \in Nat
        /\ committed[p][t] <= NumRecs
    <3>1. ring[p][t] \in Seq(Records) /\ ring[p][t] # <<>>
      BY <1>5 DEF nb_ts_record_callback, Pending, TypeOK
    <3>2. committed[p][t] \in 0 .. NumRecs /\ starts[p] \in 0 .. MaxStarts
      BY DEF TypeOK
    <3> QED
      BY <3>1, <3>2, EmptySeq, ConstantFacts
  <2>3. /\ len <= committed[p][t]
        /\ r = [proc |-> p, start |-> starts[p], thread |-> t,
                n |-> committed[p][t] - len + 1, whole |-> TRUE]
    <3>1. 1 \in 1 .. len
      BY <2>2
    <3> QED
      BY <2>1, <3>1 DEF RingOf
  <2>4. disk' = Append(disk, <<"record", r>>)
    BY <1>5 DEF nb_ts_record_callback
  <2>5. /\ Len(Tail(ring[p][t])) = len - 1
        /\ \A k \in 1 .. len - 1 : Tail(ring[p][t])[k] = ring[p][t][k + 1]
    <3>1. ring[p][t] # <<>>
      BY <1>5 DEF nb_ts_record_callback, Pending
    <3> QED
      BY <2>2, <3>1, HeadTailProperties
  <2>6. ring'[p][t] = Tail(ring[p][t])
    BY <1>5 DEF nb_ts_record_callback, TakeSlot, TypeOK
  <2>7. /\ r.proc = p /\ r.start = starts[p] /\ r.thread = t
        /\ r.n = committed[p][t] - len + 1
    BY <2>3
  <2> HIDE DEF r, len
  <2>8. \A start : NumbersUpTo(disk', Len(disk'), q, start, u) =
           NumbersUpTo(disk, Len(disk), q, start, u)
              \cup (IF p = q /\ starts[p] = start /\ t = u THEN {r.n} ELSE {})
    <3>1. PICK x \in Records : x = r
      BY <2>2
    <3>2. disk' = Append(disk, <<"record", x>>)
      BY <2>4, <3>1
    <3>3. \A p1, start, t1 :
            NumbersUpTo(disk', Len(disk'), p1, start, t1) =
               NumbersUpTo(disk, Len(disk), p1, start, t1)
                  \cup (IF x.proc = p1 /\ x.start = start /\ x.thread = t1 THEN {x.n} ELSE {})
      BY <3>2, RecordAdds
    <3> QED
      BY <2>7, <3>1, <3>3
  <2>9. CASE ~(q = p /\ u = t)
    <3>1. ring'[q][u] = ring[q][u]
      BY <1>5, <2>9 DEF nb_ts_record_callback, TypeOK
    <3>2. \A start : NumbersUpTo(disk', Len(disk'), q, start, u) =
                       NumbersUpTo(disk, Len(disk), q, start, u)
      BY <2>8, <2>9
    <3> QED
      BY <2>1, <3>1, <3>2 DEF RingOf
  <2>10. CASE q = p /\ u = t
    <3>1. Len(ring'[p][t]) = len - 1 /\ len - 1 <= committed[p][t]
      BY <2>2, <2>3, <2>5, <2>6
    <3>2. ASSUME NEW k \in 1 .. len - 1
          PROVE  ring'[p][t][k] = [proc |-> p, start |-> starts[p], thread |-> t,
                                   n |-> committed[p][t] - (len - 1) + k, whole |-> TRUE]
      <4>1. k + 1 \in 1 .. len /\ committed[p][t] - (len - 1) + k = committed[p][t] - len + (k + 1)
        BY <2>2
      <4>2. ring[p][t][k + 1] = [proc |-> p, start |-> starts[p], thread |-> t,
                                 n |-> committed[p][t] - len + (k + 1), whole |-> TRUE]
        BY <2>1, <4>1 DEF RingOf, len
      <4> QED
        BY <2>5, <2>6, <4>1, <4>2
    <3>3. NumbersUpTo(disk', Len(disk'), p, starts[p], t) = 1 .. committed[p][t] - (len - 1)
      <4>1. NumbersUpTo(disk, Len(disk), p, starts[p], t) = 1 .. committed[p][t] - len
        BY <2>1 DEF RingOf, len
      <4>2. NumbersUpTo(disk', Len(disk'), p, starts[p], t) =
               (1 .. committed[p][t] - len) \cup {committed[p][t] - len + 1}
        BY <2>7, <2>8, <2>10, <4>1
      <4> QED
        BY <2>2, <2>3, <4>2
    <3>4. ASSUME NEW start \in Nat, start > starts[p]
          PROVE  NumbersUpTo(disk', Len(disk'), p, start, t) = {}
      <4>1. NumbersUpTo(disk, Len(disk), p, start, t) = {}
        BY <2>1, <3>4 DEF RingOf
      <4>2. starts[p] # start
        BY <2>2, <3>4
      <4> QED
        BY <2>8, <2>10, <4>1, <4>2
    <3> QED
      BY <2>1, <2>10, <3>1, <3>2, <3>3, <3>4 DEF RingOf
  <2> QED
    BY <2>9, <2>10
<1>6. CASE UNCHANGED vars
  BY <1>6, RingsStay DEF vars
<1> QED
  BY <1>1, <1>2, <1>3, <1>4, <1>5, <1>6, ConstantFacts DEF Next, ThreadStep, Quiet, ThreadsOf

-----------------------------------------------------------------------------
LEMMA NothingCommitted ==
  ASSUME TypeOK, RingInv, NEW p \in Procs, NEW t \in Threads, committed[p][t] = 0
  PROVE  ring[p][t] = <<>>
<1>1. ring[p][t] \in Seq(Records) /\ Len(ring[p][t]) <= 0
  BY DEF TypeOK, RingInv, RingOf
<1> QED
  BY <1>1, EmptySeq

LEMMA DoneStep == TypeOK /\ RingInv /\ DoneInv /\ [Next]_vars => DoneInv'
<1> SUFFICES ASSUME TypeOK, RingInv, DoneInv, [Next]_vars PROVE DoneInv'
  OBVIOUS
<1> USE DEF starting, file, rings, Goto, GiveUp
<1>1. ASSUME NEW p \in Procs, Start(p) PROVE DoneInv'
  BY <1>1 DEF Start, TypeOK, DoneInv, DoneOf
<1>2. ASSUME NEW p \in Procs, MainStep(p) \/ Kill(p) PROVE DoneInv'
  <2> SUFFICES ASSUME NEW q \in Procs, NEW u \in Threads PROVE DoneOf(q, u)'
    BY DEF DoneInv
  <2>1. UNCHANGED <<slot, committed, ring, cleaned>> /\ DoneOf(q, u) /\ DoneOf(p, u)
    BY <1>2, MainKeeps DEF DoneInv
  <2>2. CASE q # p
    BY <1>2, <2>1, <2>2, MainKeeps DEF DoneOf, ThreadsOf
  <2>3. CASE q = p
    <3>1. pc'[p] \notin {"off", "run", "over"} => pc[p] \notin {"off", "run", "over"}
      BY <1>2, MainKeeps
    <3>2. ASSUME pc'[p] = "over" PROVE ring[p][u] = <<>>
      <4> SUFFICES ASSUME committed[p][u] # 0 PROVE ring[p][u] = <<>>
        BY NothingCommitted
      <4>1. CASE pc[p] \notin {"off", "run", "over"}
        BY <2>1, <4>1 DEF DoneOf
      <4>2. CASE Exit(p)
        BY <2>1, <4>2 DEF Exit, MayExit, DoneOf
      <4> QED
        BY <1>2, <3>2, <4>1, <4>2, MainKeeps
    <3> QED
      BY <2>1, <2>3, <3>1, <3>2 DEF DoneOf, ThreadsOf
  <2> QED
    BY <2>2, <2>3
<1>3. ASSUME NEW p \in Procs, NEW t \in ThreadsOf(p), nb_record_prepare(p, t) \/ Fill(p, t)
      PROVE  DoneInv'
  <2>1. PICK v \in {"prepared", "filled"} : slot' = [slot EXCEPT ![p][t] = v]
    BY <1>3 DEF nb_record_prepare, Fill
  <2>2. pc[p] = "run" /\ UNCHANGED <<pc, committed, ring, cleaned>>
    BY <1>3 DEF nb_record_prepare, Fill
  <2>3. t \notin cleaned[p]
    BY <1>3, ConstantFacts DEF nb_record_prepare, Fill, DoneInv, DoneOf, ThreadsOf
  <2>4. \A q \in Procs, u \in Threads : ~(q = p /\ u = t) => slot'[q][u] = slot[q][u]
    BY <2>1 DEF TypeOK
  <2> SUFFICES ASSUME NEW q \in Procs, NEW u \in Threads PROVE DoneOf(q, u)'
    BY DEF DoneInv
  <2>5. DoneOf(q, u)
    BY DEF DoneInv
  <2>6. CASE q = p /\ u = t
    BY <1>3, <2>2, <2>3, <2>5, <2>6 DEF DoneOf, ThreadsOf
  <2>7. CASE ~(q = p /\ u = t)
    BY <2>2, <2>4, <2>5, <2>7 DEF DoneOf, ThreadsOf
  <2> QED
    BY <2>6, <2>7
<1>4. ASSUME NEW p \in Procs, NEW t \in ThreadsOf(p), nb_record_commit(p, t) PROVE DoneInv'
  BY <1>4 DEF nb_record_commit, MayCommit, TypeOK, DoneInv, DoneOf
<1>5. ASSUME NEW p \in Procs, NEW t \in ThreadsOf(p), nb_record_cleanup_thread_ctx(p, t)
      PROVE  DoneInv'
  BY <1>5 DEF nb_record_cleanup_thread_ctx, TypeOK, DoneInv, DoneOf
<1>6. ASSUME NEW p \in Procs, NEW t \in ThreadsOf(p), nb_ts_record_callback(p, t)
      PROVE  DoneInv'
  BY <1>6 DEF nb_ts_record_callback, Pending, TypeOK, DoneInv, DoneOf
<1>7. CASE UNCHANGED vars
  BY <1>7 DEF vars, DoneInv, DoneOf, ThreadsOf
<1> QED
  BY <1>1, <1>2, <1>3, <1>4, <1>5, <1>6, <1>7 DEF Next, ThreadStep, Quiet

-----------------------------------------------------------------------------
(* What holds of a line stays when a line is added. *)
LEMMA WrittenKept ==
  ASSUME TypeOK, WrittenInOrder, NEW x \in Lines, disk' = Append(disk, x),
         NEW i \in 1 .. Len(disk), disk[i] # <<"head">>
  PROVE  /\ disk'[i] = disk[i] /\ disk[i][2].whole
         /\ NumbersUpTo(disk', i - 1, disk[i][2].proc, disk[i][2].start, disk[i][2].thread) =
               1 .. disk[i][2].n - 1
<1>1. disk \in Seq(Lines) /\ i \in DOMAIN disk /\ i - 1 \in 0 .. Len(disk)
  BY DEF TypeOK
<1>2. disk'[i] = disk[i]
  BY <1>1, AppendLine
<1>3. \A p, start, t : NumbersUpTo(disk', i - 1, p, start, t) =
                          NumbersUpTo(disk, i - 1, p, start, t)
  BY <1>1, AppendBefore
<1>4. /\ disk[i][2].whole
      /\ NumbersUpTo(disk, i - 1, disk[i][2].proc, disk[i][2].start, disk[i][2].thread) =
            1 .. disk[i][2].n - 1
  BY <1>1 DEF WrittenInOrder
<1> QED
  BY <1>2, <1>3, <1>4

LEMMA WrittenStays == WrittenInOrder /\ UNCHANGED disk => WrittenInOrder'
<1> SUFFICES ASSUME WrittenInOrder, UNCHANGED disk PROVE WrittenInOrder'
  OBVIOUS
<1>1. PICK lines : lines = disk
  OBVIOUS
<1>2. disk' = lines
  BY <1>1
<1> QED
  BY <1>1, <1>2, Zenon DEF WrittenInOrder

LEMMA WrittenStep == TypeOK /\ RingInv /\ WrittenInOrder /\ [Next]_vars => WrittenInOrder'
<1> SUFFICES ASSUME TypeOK, RingInv, WrittenInOrder, [Next]_vars PROVE WrittenInOrder'
  OBVIOUS
<1> USE DEF starting, file, rings
<1>1. ASSUME NEW p \in Procs, Start(p) PROVE WrittenInOrder'
  BY <1>1, WrittenStays DEF Start
<1>2. ASSUME NEW p \in Procs, MainStep(p) \/ Kill(p) PROVE WrittenInOrder'
  <2>1. CASE UNCHANGED disk
    BY <2>1, WrittenStays
  <2>2. CASE disk' = Append(disk, <<"head">>)
    <3> DEFINE line == <<"head">>
    <3>1. line \in Lines /\ disk' = Append(disk, line)
      BY <2>2, HeadLine
    <3> HIDE DEF line
    <3>2. /\ disk \in Seq(Lines) /\ Len(disk) \in Nat /\ DOMAIN disk' = 1 .. Len(disk) + 1
          /\ disk'[Len(disk) + 1] = <<"head">>
          /\ \A i \in 1 .. Len(disk) : disk'[i] = disk[i]
      BY <3>1, AppendLine DEF TypeOK, line
    <3> SUFFICES ASSUME NEW i \in DOMAIN disk', disk'[i] # <<"head">>
                 PROVE  /\ disk'[i][2].whole
                        /\ NumbersUpTo(disk', i - 1, disk'[i][2].proc, disk'[i][2].start,
                                       disk'[i][2].thread) = 1 .. disk'[i][2].n - 1
      BY DEF WrittenInOrder
    <3>3. i \in 1 .. Len(disk) /\ disk[i] # <<"head">>
      BY <3>2
    <3> QED
      BY <3>1, <3>3, WrittenKept
  <2> QED
    BY <1>2, <2>1, <2>2, MainKeeps
<1>3. ASSUME NEW p \in Procs, NEW t \in Threads, ThreadStep(p, t) PROVE WrittenInOrder'
  BY <1>3, WrittenStays DEF ThreadStep, nb_record_prepare, Fill, nb_record_commit,
                            nb_record_cleanup_thread_ctx
<1>4. ASSUME NEW p \in Procs, NEW t \in Threads, nb_ts_record_callback(p, t)
      PROVE  WrittenInOrder'
  <2> DEFINE r == ring[p][t][1]
             line == <<"record", r>>
  <2>1. /\ ring[p][t] \in Seq(Records) /\ ring[p][t] # <<>> /\ RingOf(p, t)
        /\ committed[p][t] \in Nat
    BY <1>4 DEF nb_ts_record_callback, Pending, TypeOK, RingInv
  <2>2. Len(ring[p][t]) \in Nat /\ 1 \in 1 .. Len(ring[p][t])
    BY <2>1, EmptySeq
  <2>3. /\ r \in Records
        /\ r = [proc |-> p, start |-> starts[p], thread |-> t,
                n |-> committed[p][t] - Len(ring[p][t]) + 1, whole |-> TRUE]
        /\ NumbersUpTo(disk, Len(disk), p, starts[p], t) =
              1 .. committed[p][t] - Len(ring[p][t])
        /\ Len(ring[p][t]) <= committed[p][t]
    BY <2>1, <2>2 DEF RingOf
  <2>4. /\ r.proc = p /\ r.start = starts[p] /\ r.thread = t /\ r.whole
        /\ r.n - 1 = committed[p][t] - Len(ring[p][t])
    BY <2>1, <2>2, <2>3
  <2>5. disk' = Append(disk, line)
    BY <1>4 DEF nb_ts_record_callback
  <2>6. line \in Lines /\ line[2] = r
    BY <2>3, RecordLine
  <2> HIDE DEF r, line
  <2>7. /\ disk \in Seq(Lines) /\ Len(disk) \in Nat /\ DOMAIN disk' = 1 .. Len(disk) + 1
        /\ disk'[Len(disk) + 1] = line
        /\ \A i \in 1 .. Len(disk) : disk'[i] = disk[i]
    BY <2>5, <2>6, AppendLine DEF TypeOK
  <2>8. \A q, start, u : NumbersUpTo(disk', Len(disk), q, start, u) =
                            NumbersUpTo(disk, Len(disk), q, start, u)
    BY <2>5, <2>6, <2>7, AppendBefore
  <2> SUFFICES ASSUME NEW i \in DOMAIN disk', disk'[i] # <<"head">>
               PROVE  /\ disk'[i][2].whole
                      /\ NumbersUpTo(disk', i - 1, disk'[i][2].proc, disk'[i][2].start,
                                     disk'[i][2].thread) = 1 .. disk'[i][2].n - 1
    BY DEF WrittenInOrder
  <2>9. CASE i \in 1 .. Len(disk)
    <3>1. disk[i] # <<"head">>
      BY <2>7, <2>9
    <3> QED
      BY <2>5, <2>6, <2>9, <3>1, WrittenKept
  <2>10. CASE i = Len(disk) + 1
    <3>1. disk'[i][2] = r /\ i - 1 = Len(disk)
      BY <2>6, <2>7, <2>10
    <3>2. NumbersUpTo(disk', Len(disk), p, starts[p], t) = 1 .. r.n - 1
      BY <2>3, <2>4, <2>8
    <3> QED
      BY <2>4, <3>1, <3>2
  <2> QED
    BY <2>7, <2>9, <2>10
<1>5. CASE UNCHANGED vars
  BY <1>5, WrittenStays DEF vars
<1> QED
  BY <1>1, <1>2, <1>3, <1>4, <1>5, ConstantFacts DEF Next, Quiet, ThreadsOf

-----------------------------------------------------------------------------
LEMMA NextIInv == IInv /\ [Next]_vars => IInv'
BY TypeStep, SlotStep, FileStep, HeadStep, RingStep, DoneStep, WrittenStep DEF IInv

LEMMA Inductive == Spec => []IInv
BY InitIInv, NextIInv, PTL DEF Spec

(* Every value stays in its type, in particular no ring holds more than it can. *)
THEOREM RecordTypeCorrect == Spec => []TypeOK
<1>1. IInv => TypeOK
  BY DEF IInv
<1> QED
  BY <1>1, Inductive, PTL

(***************************************************************************)
(* The head is the first line and no other, over any number of starts, as  *)
(* long as no process came between the look at the path and the head.      *)
(***************************************************************************)
THEOREM HeadFirstHolds == Spec => []HeadFirst
<1>1. IInv => HeadFirst
  BY DEF IInv, HeadInv, HeadFirst
<1> QED
  BY <1>1, Inductive, PTL

(* A thread's lines are its records, whole and in order, among the others'. *)
THEOREM WrittenInOrderHolds == Spec => []WrittenInOrder
<1>1. IInv => WrittenInOrder
  BY DEF IInv
<1> QED
  BY <1>1, Inductive, PTL

(* What a process recorded is in the file when it has ended by itself. *)
THEOREM NothingLostAtExitHolds == Spec => []NothingLostAtExit
<1>1. IInv => NothingLostAtExit
  <2> SUFFICES ASSUME IInv, NEW p \in Procs, pc[p] = "over", NEW t \in Threads
               PROVE  NumbersUpTo(disk, Len(disk), p, starts[p], t) = 1 .. committed[p][t]
    BY DEF NothingLostAtExit
  <2>1. ring[p][t] = <<>> /\ committed[p][t] \in Nat
    BY DEF IInv, DoneInv, DoneOf, TypeOK
  <2>2. NumbersUpTo(disk, Len(disk), p, starts[p], t) =
           1 .. committed[p][t] - Len(ring[p][t])
    BY DEF IInv, RingInv, RingOf
  <2>3. Len(ring[p][t]) = 0
    BY <2>1
  <2> QED
    BY <2>1, <2>2, <2>3
<1> QED
  BY <1>1, Inductive, PTL

-----------------------------------------------------------------------------
(***************************************************************************)
(* LatencyAnalysis.  The scripts fold and sort lists; the model says the   *)
(* same with ranks, so that no induction over the lists is needed: the     *)
(* n-th of a list is the element with n elements up to it.                 *)
(***************************************************************************)

(***************************************************************************)
(* Ranks.  Where the elements of a finite set are in line, and before[k]   *)
(* has those up to k, each has a rank of its own, and each rank is one's.  *)
(***************************************************************************)
InLine(S, before) ==
    /\ before \in [S -> SUBSET S]
    /\ \A k \in S : k \in before[k]
    /\ \A j, k \in S : j # k => \/ before[j] \subseteq before[k] \ {k}
                                \/ before[k] \subseteq before[j] \ {j}

Ranked(S, before) ==
    /\ Cardinality(S) \in Nat
    /\ \A k \in S : Cardinality(before[k]) \in 1 .. Cardinality(S)
    /\ \A j, k \in S : Cardinality(before[j]) = Cardinality(before[k]) => j = k
    /\ \A n \in 1 .. Cardinality(S) : \E k \in S : Cardinality(before[k]) = n

(* An injection of a finite set into as many numbers leaves none out. *)
LEMMA Ranks ==
  ASSUME NEW S, IsFiniteSet(S), NEW before, InLine(S, before)
  PROVE  Ranked(S, before)
<1> DEFINE rank == [k \in S |-> Cardinality(before[k])]
<1>1. Cardinality(S) \in Nat
  BY FS_CardinalityType
<1>2. ASSUME NEW k \in S
      PROVE  IsFiniteSet(before[k]) /\ Cardinality(before[k]) \in 1 .. Cardinality(S)
  <2>1. before[k] \in SUBSET S /\ k \in before[k]
    BY DEF InLine
  <2>2. IsFiniteSet(before[k]) /\ Cardinality(before[k]) <= Cardinality(S)
    BY <2>1, FS_Subset
  <2>3. Cardinality(before[k]) \in Nat
    BY <2>2, FS_CardinalityType
  <2>4. Cardinality(before[k]) # 0
    <3>1. before[k] # {}
      BY <2>1
    <3> QED
      BY <3>1, <2>2, FS_EmptySet
  <2> QED
    BY <2>2, <2>3, <2>4, <1>1
<1>3. ASSUME NEW j \in S, NEW k \in S, before[j] \subseteq before[k] \ {k}
      PROVE  Cardinality(before[j]) < Cardinality(before[k])
  <2>1. IsFiniteSet(before[k] \ {k}) /\ Cardinality(before[k] \ {k}) = Cardinality(before[k]) - 1
    BY <1>2, FS_RemoveElement DEF InLine
  <2>2. Cardinality(before[j]) <= Cardinality(before[k] \ {k})
    BY <2>1, <1>3, FS_Subset
  <2> QED
    BY <2>1, <2>2, <1>1, <1>2
<1>4. ASSUME NEW j \in S, NEW k \in S, Cardinality(before[j]) = Cardinality(before[k])
      PROVE  j = k
  <2> SUFFICES ASSUME j # k PROVE FALSE
    OBVIOUS
  <2>1. Cardinality(before[j]) \in Int /\ Cardinality(before[k]) \in Int
    BY <1>1, <1>2
  <2>2. \/ Cardinality(before[j]) < Cardinality(before[k])
        \/ Cardinality(before[k]) < Cardinality(before[j])
    BY <1>3 DEF InLine
  <2> QED
    BY <2>1, <2>2, <1>4
<1>5. rank \in [S -> 1 .. Cardinality(S)]
  BY <1>2
<1>6. rank \in Injection(S, 1 .. Cardinality(S))
  <2>1. \A j, k \in S : rank[j] = rank[k] => j = k
    BY <1>4
  <2> HIDE DEF rank
  <2> QED
    BY <1>5, <2>1, Fun_IsInj
<1>7. IsFiniteSet(1 .. Cardinality(S)) /\ Cardinality(1 .. Cardinality(S)) = Cardinality(S)
  BY <1>1, FS_Interval
<1>8. rank \in Surjection(S, 1 .. Cardinality(S))
  <2> HIDE DEF rank
  <2> QED
    BY <1>6, <1>7, FS_Injection
<1>9. \A n \in 1 .. Cardinality(S) : \E k \in S : rank[k] = n
  <2> HIDE DEF rank
  <2> QED
    BY <1>8 DEF Surjection
<1> QED
  BY <1>1, <1>2, <1>4, <1>9 DEF Ranked

(* Numbers up to k, as a function of k. *)
UpTo(S) == [k \in S |-> {j \in S : j <= k}]

(* The rank of a number among those of a finite set. *)
LEMMA UpToRanks ==
  ASSUME NEW S \in SUBSET Int, IsFiniteSet(S)
  PROVE  /\ UpTo(S) \in [S -> SUBSET S]
         /\ \A k \in S : UpTo(S)[k] = {j \in S : j <= k}
         /\ Cardinality(S) \in Nat
         /\ \A k \in S : Cardinality(UpTo(S)[k]) \in 1 .. Cardinality(S)
         /\ \A j, k \in S : Cardinality(UpTo(S)[j]) = Cardinality(UpTo(S)[k]) => j = k
         /\ \A n \in 1 .. Cardinality(S) : \E k \in S : Cardinality(UpTo(S)[k]) = n
<1>1. UpTo(S) \in [S -> SUBSET S] /\ \A k \in S : UpTo(S)[k] = {j \in S : j <= k}
  BY DEF UpTo
<1>2. \A k \in S : k \in Int
  OBVIOUS
<1>3. \A k \in S : k \in UpTo(S)[k]
  BY <1>1, <1>2
<1>4. ASSUME NEW j \in S, NEW k \in S, j < k
      PROVE  UpTo(S)[j] \subseteq UpTo(S)[k] \ {k}
  <2> SUFFICES ASSUME NEW x \in S, x <= j PROVE x <= k /\ x # k
    BY <1>1
  <2> QED
    BY <1>2, <1>4
<1>5. \A j, k \in S : j # k => j < k \/ k < j
  BY <1>2
<1>6. InLine(S, UpTo(S))
  BY <1>1, <1>3, <1>4, <1>5 DEF InLine
<1>7. Ranked(S, UpTo(S))
  BY <1>6, Ranks
<1> QED
  BY <1>1, <1>7 DEF Ranked

(* A finite set of numbers that is not empty has a greatest and a least one. *)
LEMMA LatestIs ==
  ASSUME NEW S \in SUBSET Int, IsFiniteSet(S), S # {}
  PROVE  Latest(S) \in S /\ \A j \in S : j <= Latest(S)
<1>1. Cardinality(S) \in 1 .. Cardinality(S)
  BY UpToRanks, FS_EmptySet
<1>2. PICK k \in S : Cardinality(UpTo(S)[k]) = Cardinality(S)
  BY <1>1, UpToRanks
<1>3. UpTo(S)[k] \in SUBSET S
  BY UpToRanks
<1>4. UpTo(S)[k] = S
  BY <1>2, <1>3, FS_Subset
<1>5. \A j \in S : j <= k
  BY <1>4, UpToRanks
<1>6. Latest(S) = CHOOSE x \in S : \A j \in S : j <= x
  BY DEF Latest
<1> QED
  BY <1>5, <1>6

(* And a least one. *)
LEMMA EarliestIs ==
  ASSUME NEW S \in SUBSET Int, IsFiniteSet(S), S # {}
  PROVE  Earliest(S) \in S /\ \A j \in S : Earliest(S) <= j
<1>1. 1 \in 1 .. Cardinality(S)
  BY UpToRanks, FS_EmptySet
<1>2. PICK k \in S : Cardinality(UpTo(S)[k]) = 1
  BY <1>1, UpToRanks
<1>3. UpTo(S)[k] \in SUBSET S /\ k \in UpTo(S)[k]
  BY UpToRanks
<1>4. IsFiniteSet(UpTo(S)[k])
  BY <1>3, FS_Subset
<1>5. UpTo(S)[k] = {k}
  BY <1>2, <1>3, <1>4, FS_Singleton
<1>6. \A j \in S : k <= j
  BY <1>5, UpToRanks
<1>7. Earliest(S) = CHOOSE x \in S : \A j \in S : x <= j
  BY DEF Earliest
<1> QED
  BY <1>6, <1>7

(* The greatest is the only one that no other exceeds. *)
LEMMA LatestUnique ==
  ASSUME NEW S \in SUBSET Int, IsFiniteSet(S), NEW k \in S, \A j \in S : j <= k
  PROVE  Latest(S) = k
<1>1. Latest(S) \in S /\ k <= Latest(S) /\ Latest(S) <= k
  BY LatestIs
<1>2. Latest(S) \in Int /\ k \in Int
  BY <1>1
<1> QED
  BY <1>1, <1>2

(* InOrder has every element once. *)
LEMMA InOrderBijection ==
  ASSUME NEW S \in SUBSET Int, IsFiniteSet(S)
  PROVE  /\ Cardinality(S) \in Nat
         /\ InOrder(S) \in [1 .. Cardinality(S) -> S]
         /\ \A m, n \in 1 .. Cardinality(S) : InOrder(S)[m] = InOrder(S)[n] => m = n
         /\ \A k \in S : \E n \in 1 .. Cardinality(S) : InOrder(S)[n] = k
<1>1. Cardinality(S) \in Nat
  BY UpToRanks
<1>2. ASSUME NEW n \in 1 .. Cardinality(S)
      PROVE  InOrder(S)[n] \in S /\ Cardinality(UpTo(S)[InOrder(S)[n]]) = n
  <2>1. \E k \in S : Cardinality({j \in S : j <= k}) = n
    <3>1. PICK k \in S : Cardinality(UpTo(S)[k]) = n
      BY UpToRanks
    <3>2. UpTo(S)[k] = {j \in S : j <= k}
      BY UpToRanks
    <3> QED
      BY <3>1, <3>2
  <2>2. InOrder(S)[n] = CHOOSE k \in S : Cardinality({j \in S : j <= k}) = n
    BY DEF InOrder
  <2>3. InOrder(S)[n] \in S /\ Cardinality({j \in S : j <= InOrder(S)[n]}) = n
    BY <2>1, <2>2
  <2>4. PICK k \in S : k = InOrder(S)[n]
    BY <2>3
  <2>5. UpTo(S)[k] = {j \in S : j <= k}
    BY UpToRanks
  <2> QED
    BY <2>3, <2>4, <2>5, Zenon
<1>3. InOrder(S) \in [1 .. Cardinality(S) -> S]
  BY <1>2 DEF InOrder
<1>4. \A m, n \in 1 .. Cardinality(S) : InOrder(S)[m] = InOrder(S)[n] => m = n
  BY <1>2
<1>5. ASSUME NEW k \in S
      PROVE  \E n \in 1 .. Cardinality(S) : InOrder(S)[n] = k
  <2>1. PICK n \in 1 .. Cardinality(S) : n = Cardinality(UpTo(S)[k])
    BY UpToRanks
  <2>2. InOrder(S)[n] \in S /\ Cardinality(UpTo(S)[InOrder(S)[n]]) = Cardinality(UpTo(S)[k])
    BY <1>2, <2>1
  <2>3. \A j \in S : Cardinality(UpTo(S)[j]) = Cardinality(UpTo(S)[k]) => j = k
    BY UpToRanks
  <2>4. InOrder(S)[n] = k
    BY <2>2, <2>3
  <2> QED
    BY <2>4
<1> QED
  BY <1>1, <1>3, <1>4, <1>5

-----------------------------------------------------------------------------
(***************************************************************************)
(* Sorting.  The n-th of the sorted list has n at or before it in its      *)
(* order, none of them greater; the others are not smaller.                *)
(***************************************************************************)
BeforeIn(list) == [k \in DOMAIN list |-> Before(list, k)]

(* A list has as many places as its length. *)
LEMMA ListPlaces ==
  ASSUME NEW S, NEW list \in Seq(S)
  PROVE  IsFiniteSet(DOMAIN list) /\ Cardinality(DOMAIN list) = Len(list)
<1>1. PICK n \in Nat : n = Len(list) /\ DOMAIN list = 1 .. n
  BY LenProperties, Zenon
<1>2. IsFiniteSet(1 .. n) /\ Cardinality(1 .. n) = IF 1 > n THEN 0 ELSE n - 1 + 1
  BY FS_Interval
<1>3. Cardinality(1 .. n) = n
  BY <1>2
<1> QED
  BY <1>1, <1>2, <1>3, Zenon

(* Sorted gives each place to an element of the list. *)
LEMMA SortedIs ==
  ASSUME NEW list \in Seq(Int), NEW n \in 1 .. Len(list)
  PROVE  \E k \in DOMAIN list :
            /\ Sorted(list)[n] = list[k]
            /\ Cardinality(Before(list, k)) = n
<1>1. DOMAIN list = 1 .. Len(list) /\ Len(list) \in Nat /\ \A k \in DOMAIN list : list[k] \in Int
  OBVIOUS
<1>2. IsFiniteSet(DOMAIN list) /\ Cardinality(DOMAIN list) = Len(list)
  BY ListPlaces
<1>3. BeforeIn(list) \in [DOMAIN list -> SUBSET DOMAIN list]
  BY DEF BeforeIn, Before
<1>4. \A k \in DOMAIN list : BeforeIn(list)[k] = Before(list, k)
  BY DEF BeforeIn
<1>5. \A k \in DOMAIN list : k \in Before(list, k)
  BY <1>1 DEF Before
<1>6. ASSUME NEW j \in DOMAIN list, NEW k \in DOMAIN list,
             list[j] < list[k] \/ (list[j] = list[k] /\ j < k)
      PROVE  Before(list, j) \subseteq Before(list, k) \ {k}
  <2> SUFFICES ASSUME NEW x \in DOMAIN list,
                      list[x] < list[j] \/ (list[x] = list[j] /\ x <= j)
               PROVE  /\ list[x] < list[k] \/ (list[x] = list[k] /\ x <= k)
                      /\ x # k
    BY DEF Before
  <2>1. list[x] \in Int /\ list[j] \in Int /\ list[k] \in Int /\ x \in Int /\ j \in Int /\ k \in Int
    BY <1>1
  <2> QED
    BY <2>1, <1>6
<1>7. ASSUME NEW j \in DOMAIN list, NEW k \in DOMAIN list, j # k
      PROVE  \/ Before(list, j) \subseteq Before(list, k) \ {k}
             \/ Before(list, k) \subseteq Before(list, j) \ {j}
  <2>1. \/ list[j] < list[k] \/ (list[j] = list[k] /\ j < k)
        \/ list[k] < list[j] \/ (list[k] = list[j] /\ k < j)
    BY <1>1, <1>7
  <2> QED
    BY <2>1, <1>6
<1>8. \A m \in 1 .. Cardinality(DOMAIN list) :
          \E k \in DOMAIN list : Cardinality(BeforeIn(list)[k]) = m
  <2>1. InLine(DOMAIN list, BeforeIn(list))
    BY <1>3, <1>4, <1>5, <1>7 DEF InLine
  <2>2. Ranked(DOMAIN list, BeforeIn(list))
    BY <1>2, <2>1, Ranks
  <2> QED
    BY <2>2 DEF Ranked
<1>9. \E k \in DOMAIN list : Cardinality(Before(list, k)) = n
  BY <1>2, <1>4, <1>8
<1>10. Sorted(list)[n] = list[CHOOSE k \in DOMAIN list : Cardinality(Before(list, k)) = n]
  BY <1>1 DEF Sorted
<1> QED
  BY <1>9, <1>10

(* How many are up to, and from, the n-th. *)
LEMMA SortedCounts ==
  ASSUME NEW list \in Seq(Int), NEW n \in 1 .. Len(list), NEW q, q = Sorted(list)[n]
  PROVE  /\ Len(list) \in Nat
         /\ \E k \in DOMAIN list : list[k] = q
         /\ Cardinality({j \in DOMAIN list : list[j] <= q}) \in Nat
         /\ Cardinality({j \in DOMAIN list : list[j] >= q}) \in Nat
         /\ Cardinality({j \in DOMAIN list : list[j] <= q}) >= n
         /\ Cardinality({j \in DOMAIN list : list[j] >= q}) >= Len(list) + 1 - n
<1>1. DOMAIN list = 1 .. Len(list) /\ Len(list) \in Nat /\ \A k \in DOMAIN list : list[k] \in Int
  OBVIOUS
<1>2. IsFiniteSet(DOMAIN list) /\ Cardinality(DOMAIN list) = Len(list)
  BY ListPlaces
<1>3. PICK k \in DOMAIN list : q = list[k] /\ Cardinality(Before(list, k)) = n
  BY SortedIs
<1> DEFINE below == {j \in DOMAIN list : list[j] <= q}
           above == {j \in DOMAIN list : list[j] >= q}
           later == DOMAIN list \ (Before(list, k) \ {k})
<1>4. /\ below \in SUBSET DOMAIN list /\ above \in SUBSET DOMAIN list
      /\ Before(list, k) \in SUBSET below /\ later \in SUBSET above
      /\ k \in Before(list, k) /\ Before(list, k) \in SUBSET DOMAIN list
  BY <1>1, <1>3 DEF Before
<1>5. /\ IsFiniteSet(below) /\ IsFiniteSet(above) /\ IsFiniteSet(Before(list, k))
      /\ IsFiniteSet(later)
  <2>1. later \in SUBSET DOMAIN list
    OBVIOUS
  <2> HIDE DEF below, above, later
  <2> QED
    BY <2>1, <1>2, <1>4, FS_Subset
<1>6. Cardinality(below) \in Nat /\ Cardinality(above) \in Nat
  BY <1>5, FS_CardinalityType
<1>7. Cardinality(below) >= n
  <2> HIDE DEF below
  <2> QED
    BY <1>3, <1>4, <1>5, FS_Subset
<1>8. Cardinality(later) = Len(list) - (n - 1)
  <2>1. /\ IsFiniteSet(Before(list, k) \ {k})
        /\ Cardinality(Before(list, k) \ {k}) = n - 1
    BY <1>3, <1>4, <1>5, FS_RemoveElement
  <2>2. Before(list, k) \ {k} \in SUBSET DOMAIN list
    BY <1>4
  <2>3. DOMAIN list \cap (Before(list, k) \ {k}) = Before(list, k) \ {k}
    BY <2>2
  <2>4. Cardinality(later) = Cardinality(DOMAIN list)
                               - Cardinality(DOMAIN list \cap (Before(list, k) \ {k}))
    BY <1>2, <2>1, FS_Difference
  <2> QED
    BY <2>1, <2>3, <2>4, <1>2
<1>9. Cardinality(above) >= Cardinality(later)
  <2> HIDE DEF above, later
  <2> QED
    BY <1>4, <1>5, FS_Subset
<1>10. Cardinality(above) >= Len(list) + 1 - n
  BY <1>1, <1>6, <1>8, <1>9
<1> QED
  BY <1>1, <1>3, <1>6, <1>7, <1>10

-----------------------------------------------------------------------------
(* The quotient and the remainder in Index. *)
LEMMA DivTen ==
  ASSUME NEW m \in Nat
  PROVE  \E d \in Nat, e \in 0 .. 9 : d = m \div 10 /\ e = m % 10 /\ m = 10 * d + e
<1>1. ASSUME NEW n \in Nat \ {0}
      PROVE  /\ m \div n \in Nat /\ m % n \in 0 .. n - 1
             /\ (m \div n) * n + (m % n) = m
  BY Z3
<1>2. PICK n \in Nat \ {0} : n = 10
  OBVIOUS
<1>3. m \div n \in Nat /\ m % n \in 0 .. n - 1 /\ (m \div n) * n + (m % n) = m
  BY <1>1
<1>4. PICK d \in Nat, e \in 0 .. n - 1 : d = m \div n /\ e = m % n
  BY <1>3
<1>5. d * n + e = m
  BY <1>3, <1>4
<1>6. m = 10 * d + e /\ e \in 0 .. 9
  <2>1. d * 10 + e = m
    BY <1>2, <1>5, Zenon
  <2>2. e \in 0 .. 9
    BY <1>2, <1>4
  <2> QED
    BY <2>1, <2>2
<1>7. d = m \div 10 /\ e = m % 10
  BY <1>2, <1>4, Zenon
<1> QED
  BY <1>4, <1>6, <1>7

(* The positions of the deciles. *)
LEMMA IndexBounds ==
  ASSUME NEW p \in 0 .. 9, NEW n \in Nat
  PROVE  /\ Index(p, n) \in Nat
         /\ 10 * Index(p, n) <= p * n + 5 /\ 10 * Index(p, n) >= p * n - 5
<1>1. PICK m \in Nat : m = p * n
  <2>1. p * n \in Nat
    OBVIOUS
  <2> QED
    BY <2>1
<1>3. PICK down \in Nat, rest \in 0 .. 9 :
          down = m \div 10 /\ rest = m % 10 /\ m = 10 * down + rest
  BY DivTen
<1>4. \/ Index(p, n) = down + 1 /\ rest >= 5
      \/ Index(p, n) = down /\ rest <= 5
  BY <1>1, <1>3 DEF Index
<1> QED
  BY <1>1, <1>3, <1>4

(* The list of five latencies: its last decile but one is the fifth. *)
LEMMA FiveInRange == Index(9, 5) = 4
<1>1. 9 * 5 = 45 /\ 45 \div 10 = 4 /\ 45 % 10 = 5 /\ 4 % 2 = 0
  BY Z3
<1>2. <<9, 5>> \notin TiesUp
  <2>1. (9 * 5) % 10 = 5 => RoundsToEven(9, 5)
    BY AnalysisAssumption
  <2> QED
    BY <2>1, <1>1 DEF RoundsToEven
<1> QED
  BY <1>1, <1>2 DEF Index

(* latency_list[i] is out of range for fewer than five latencies only. *)
LEMMA OutOfRangeIs ==
  ASSUME NEW n \in Nat
  PROVE  OutOfRange(n) <=> n < 5
<1>1. ASSUME n < 5 PROVE Index(9, n) >= n
  <2>1. /\ 10 * Index(9, n) >= 9 * n - 5 /\ Index(9, n) \in Nat
    BY IndexBounds
  <2> QED
    BY <2>1, <1>1
<1>2. ASSUME n >= 5, NEW p \in 0 .. 9 PROVE Index(p, n) < n
  <2>1. Index(p, n) \in Nat /\ 10 * Index(p, n) <= p * n + 5
    BY IndexBounds
  <2>2. p * n <= 9 * n /\ (p < 9 => p * n <= 8 * n) /\ p * n \in Nat
    BY Z3
  <2>3. CASE n = 5 /\ p = 9
    BY <2>3, FiveInRange
  <2>4. CASE n = 5 /\ p < 9
    BY <2>1, <2>2, <2>4
  <2>5. CASE n > 5
    BY <2>1, <2>2, <2>5
  <2> QED
    BY <2>3, <2>4, <2>5, <1>2
<1>3. \A p \in 0 .. 9 : Index(p, n) \in Nat
  BY IndexBounds
<1>4. CASE n < 5
  <2>1. 9 \in 0 .. 9 /\ Index(9, n) >= n
    BY <1>1, <1>4
  <2> QED
    BY <2>1, <1>4 DEF OutOfRange
<1>5. CASE n >= 5
  <2>1. \A p \in 0 .. 9 : ~(Index(p, n) >= n)
    BY <1>2, <1>3, <1>5
  <2> QED
    BY <2>1, <1>5 DEF OutOfRange
<1> QED
  BY <1>4, <1>5

(* Numbers of a list, and latencies of a set, that compare to q. *)
ListEqual(list, q) == Cardinality({j \in DOMAIN list : list[j] = q})
ListBelow(list, q) == Cardinality({j \in DOMAIN list : list[j] <= q})
ListAbove(list, q) == Cardinality({j \in DOMAIN list : list[j] >= q})
SetEqual(L, q) == Cardinality({l \in L : l[2] = q})
SetBelow(L, q) == Cardinality({l \in L : l[2] <= q})
SetAbove(L, q) == Cardinality({l \in L : l[2] >= q})

(***************************************************************************)
(* The deciles of a list of at least five numbers, among the numbers of    *)
(* the list: dump_statistics_result.                                       *)
(***************************************************************************)
LEMMA ListDeciles ==
  ASSUME NEW list \in Seq(Int), ~OutOfRange(Len(list)), NEW size, NEW p \in 0 .. 10, NEW q,
         q = Statistics(size, list).quantiles[p]
  PROVE  /\ \E k \in DOMAIN list : list[k] = q
         /\ 10 * ListBelow(list, q) >= p * Len(list) + (IF p = 10 THEN 0 ELSE 5)
         /\ 10 * ListAbove(list, q) >= (10 - p) * Len(list) - 5
<1>1. PICK n \in Nat : n = Len(list)
  OBVIOUS
<1>2. n >= 5
  BY <1>1, OutOfRangeIs
<1>3. PICK rank \in 1 .. n : /\ q = Sorted(list)[rank]
                             /\ 10 * rank >= p * n + (IF p = 10 THEN 0 ELSE 5)
                             /\ 10 * (n + 1 - rank) >= (10 - p) * n - 5
  <2>1. CASE p = 10
    <3>1. n \in 1 .. n /\ q = Sorted(list)[n]
      BY <1>1, <1>2, <2>1 DEF Statistics
    <3> QED
      BY <3>1, <2>1
  <2>2. CASE p < 10
    <3>1. p \in 0 .. 9
      BY <2>2
    <3>2. /\ Index(p, n) \in Nat
          /\ 10 * Index(p, n) <= p * n + 5 /\ 10 * Index(p, n) >= p * n - 5
      BY <3>1, IndexBounds
    <3>7. ~(Index(p, n) >= n)
      BY <1>1, <3>1 DEF OutOfRange
    <3>3. q = Sorted(list)[Index(p, n) + 1]
      BY <1>1, <2>2 DEF Statistics
    <3>4. PICK m \in Nat : m = p * n /\ (10 - p) * n = 10 * n - m
      <4>1. p * n \in Nat /\ (10 - p) * n = 10 * n - p * n
        BY Z3
      <4> QED
        BY <4>1
    <3>5. Index(p, n) + 1 \in 1 .. n
      BY <3>2, <3>7
    <3>6. /\ 10 * (Index(p, n) + 1) >= m + 5
          /\ 10 * (n + 1 - (Index(p, n) + 1)) >= (10 * n - m) - 5
      BY <3>2, <3>4
    <3> QED
      BY <2>2, <3>3, <3>4, <3>5, <3>6
  <2> QED
    BY <2>1, <2>2
<1>4. /\ \E k \in DOMAIN list : list[k] = q
      /\ ListBelow(list, q) \in Nat /\ ListAbove(list, q) \in Nat
      /\ ListBelow(list, q) >= rank /\ ListAbove(list, q) >= n + 1 - rank
  <2>1. /\ \E k \in DOMAIN list : list[k] = q
        /\ ListBelow(list, q) \in Nat /\ ListAbove(list, q) \in Nat
        /\ ListBelow(list, q) >= rank /\ ListAbove(list, q) >= Len(list) + 1 - rank
    <3>1. rank \in 1 .. Len(list) /\ q = Sorted(list)[rank]
      BY <1>1, <1>3, Zenon
    <3> QED
      BY <3>1, SortedCounts, Zenon DEF ListBelow, ListAbove
  <2> QED
    BY <1>1, <2>1, Zenon
<1>5. PICK a \in Nat, b \in Nat : a = ListBelow(list, q) /\ b = ListAbove(list, q)
  BY <1>4
<1>6. 10 * a >= 10 * rank /\ 10 * b >= 10 * (n + 1 - rank)
  BY <1>4, <1>5
<1>7. p * n \in Int /\ (10 - p) * n \in Int
  OBVIOUS
<1>8. /\ 10 * a >= p * n + (IF p = 10 THEN 0 ELSE 5)
      /\ 10 * b >= (10 - p) * n - 5
  BY <1>3, <1>6, <1>7
<1> QED
  BY <1>1, <1>4, <1>5, <1>8

-----------------------------------------------------------------------------
(* A list of n corresponds to a set; and parts of the two to each other. *)
OneToOne(h, n, L) ==
    /\ h \in [1 .. n -> L]
    /\ \A i, j \in 1 .. n : h[i] = h[j] => i = j
    /\ \A l \in L : \E i \in 1 .. n : h[i] = l

SamePart(h, n, K, L, M) ==
    /\ K \in SUBSET (1 .. n) /\ M \in SUBSET L
    /\ \A i \in 1 .. n : i \in K <=> h[i] \in M

(* They are of one size. *)
LEMMA SameCount ==
  ASSUME NEW n \in Nat, NEW L, NEW h, OneToOne(h, n, L),
         NEW K, NEW M, SamePart(h, n, K, L, M)
  PROVE  Cardinality(K) = Cardinality(M)
<1> DEFINE g == [k \in K |-> h[k]]
<1> USE DEF OneToOne, SamePart
<1>1. IsFiniteSet(K)
  <2>1. IsFiniteSet(1 .. n)
    BY FS_Interval
  <2> QED
    BY <2>1, FS_Subset
<1>2. g \in [K -> M] /\ \A k \in K : g[k] = h[k]
  OBVIOUS
<1> HIDE DEF g
<1>3. \A j, k \in K : g[j] = g[k] => j = k
  BY <1>2
<1>4. \A m \in M : \E k \in K : g[k] = m
  BY <1>2
<1>5. g \in Bijection(K, M)
  BY <1>2, <1>3, <1>4, Fun_IsBij
<1>6. ExistsBijection(K, M)
  BY <1>5 DEF ExistsBijection
<1> QED
  BY <1>1, <1>6, FS_Bijection

(* The list of what latencies there are. *)
ListsThem(h, list, L) ==
    /\ OneToOne(h, Len(list), L)
    /\ \A i \in 1 .. Len(list) : h[i][2] = list[i]

(* The list and the set agree on how many satisfy a comparison. *)
LEMMA SameCounts ==
  ASSUME NEW list \in Seq(Int), NEW L, NEW h, ListsThem(h, list, L), NEW v
  PROVE  /\ Cardinality(L) = Len(list)
         /\ ListEqual(list, v) = SetEqual(L, v)
         /\ ListBelow(list, v) = SetBelow(L, v)
         /\ ListAbove(list, v) = SetAbove(L, v)
<1>1. PICK n \in Nat : n = Len(list) /\ DOMAIN list = 1 .. n
  OBVIOUS
<1>2. /\ OneToOne(h, n, L)
      /\ \A i \in 1 .. n : h[i] \in L /\ h[i][2] = list[i]
  BY <1>1 DEF ListsThem, OneToOne
<1>3. Cardinality(L) = n
  <2>1. SamePart(h, n, 1 .. n, L, L)
    BY <1>2 DEF SamePart
  <2>2. Cardinality(1 .. n) = Cardinality(L)
    BY <1>2, <2>1, SameCount
  <2> QED
    BY <2>2, FS_Interval
<1>4. Cardinality({k \in DOMAIN list : list[k] = v}) = Cardinality({l \in L : l[2] = v})
  <2>1. SamePart(h, n, {k \in DOMAIN list : list[k] = v}, L, {l \in L : l[2] = v})
    BY <1>1, <1>2 DEF SamePart
  <2> QED
    BY <1>2, <2>1, SameCount
<1>5. Cardinality({k \in DOMAIN list : list[k] <= v}) = Cardinality({l \in L : l[2] <= v})
  <2>1. SamePart(h, n, {k \in DOMAIN list : list[k] <= v}, L, {l \in L : l[2] <= v})
    BY <1>1, <1>2 DEF SamePart
  <2> QED
    BY <1>2, <2>1, SameCount
<1>6. Cardinality({k \in DOMAIN list : list[k] >= v}) = Cardinality({l \in L : l[2] >= v})
  <2>1. SamePart(h, n, {k \in DOMAIN list : list[k] >= v}, L, {l \in L : l[2] >= v})
    BY <1>1, <1>2 DEF SamePart
  <2> QED
    BY <1>2, <2>1, SameCount
<1> QED
  BY <1>1, <1>3, <1>4, <1>5, <1>6
     DEF ListEqual, SetEqual, ListBelow, SetBelow, ListAbove, SetAbove

(***************************************************************************)
(* What holds of every state of an analysis.                               *)
(***************************************************************************)
AnalysisTypeOK ==
    /\ script \in {"network", "thread"}
    /\ option \in Options
    /\ output \in Outputs
    /\ runs \in Nat \ {0}
    /\ phase \in {"args", "usage", "load", "report", "done", "failed"}
    /\ failure \in {"none", "KeyError", "IndexError", "FileNotFoundError"}
    /\ failure # "none" <=> phase = "failed"
    /\ dirs = [d \in {"input", "output"} |-> dirs[d]]
    /\ loaded \in Seq(Rows)
    /\ handled \in SUBSET (Sizes \X {Reports[1], Reports[2]})

(* The record files are as the programs left them. *)
ProgramsInv == WellFormed([f \in Programs |-> dirs["input"][f]])

(* The script's own files in the input directory. *)
OwnFilesInv ==
    \A f \in DOMAIN dirs["input"] :
        f[1] = "records" =>
            /\ Network /\ output = "input"
            /\ runs > 1 \/ phase \in {"report", "done", "failed"}

(* The rows read so far are those of the files loaded, one file after the other. *)
Placed(off) ==
    /\ off \in [Programs \ to_load -> 0 .. Len(loaded)]
    /\ \A f \in Programs \ to_load : \A j \in DOMAIN dirs["input"][f] :
         off[f] + j \in DOMAIN loaded /\ loaded[off[f] + j] = dirs["input"][f][j]
    /\ \A k \in DOMAIN loaded : \E f \in Programs \ to_load :
         \E j \in DOMAIN dirs["input"][f] : k = off[f] + j

Loading == phase \notin {"args", "usage"}

AllLoaded == phase \in {"report", "done"} \/ failure \in {"IndexError", "FileNotFoundError"}

LoadInv ==
    /\ to_load \in SUBSET Loadable
    /\ ~Loading => loaded = <<>> /\ handled = {}
    /\ Loading => \E off \in [Programs \ to_load -> 0 .. Len(loaded)] : Placed(off)
    /\ AllLoaded => to_load = {}
    /\ handled # {} => AllLoaded

ListOf(done) == cal_latency(done[1], EndOf(done[2]))

Statistic == {Statistics(size, list) : size \in Sizes, list \in Seq(Int)}

RowInv(done) ==
    \E lines \in Seq(Statistic) :
        /\ ReportFile(done[2]) \in DOMAIN dirs[OutDir]
        /\ lines = dirs[OutDir][ReportFile(done[2])]
        /\ \A k \in DOMAIN lines : <<lines[k].size, done[2]>> \in handled
        /\ \E k \in DOMAIN lines :
             /\ lines[k] = Statistics(done[1], ListOf(done))
             /\ \A j \in DOMAIN lines : lines[j].size = done[1] => j = k

HandledInv ==
    /\ \A done \in handled :
         /\ ~OutOfRange(Len(ListOf(done)))
         /\ RowInv(done)
         /\ Network => /\ RecordsFile(done[1], done[2]) \in DOMAIN dirs[OutDir]
                       /\ dirs[OutDir][RecordsFile(done[1], done[2])] = ListOf(done)
         /\ <<done[1], Reports[1]>> \in handled
    /\ phase = "done" => Unhandled = {}

FailsInv ==
    /\ failure = "IndexError" => /\ Unhandled # {}
                                 /\ OutOfRange(Len(cal_latency(NextSize, EndOf(NextReport))))
    /\ failure = "FileNotFoundError" => output = "missing"
    /\ failure = "KeyError" => Network /\ runs > 1 /\ output = "input"

AnalysisInv ==
    /\ AnalysisTypeOK
    /\ ProgramsInv
    /\ OwnFilesInv
    /\ LoadInv
    /\ HandledInv
    /\ FailsInv

-----------------------------------------------------------------------------
(* The latencies of a size and range are a function of the rows read. *)
LEMMA ListFrame ==
  ASSUME loaded' = loaded, NEW size, NEW end_action
  PROVE  cal_latency(size, end_action)' = cal_latency(size, end_action)
<1>1. At(size)' = At(size)
  BY DEF At
<1>2. \A k : Key(k)' = Key(k)
  BY DEF Key
<1>3. Keys(size)' = Keys(size)
  BY <1>1, <1>2 DEF Keys
<1>4. \A k, action : Settings(k, action)' = Settings(k, action)
  BY <1>2 DEF Settings, At
<1>5. Complete(size, end_action)' = Complete(size, end_action)
  BY <1>3, <1>4 DEF Complete
<1>6. \A k, action : Entry(k, action)' = Entry(k, action)
  BY <1>4 DEF Entry
<1>7. \A k : Elapsed(k, end_action)' = Elapsed(k, end_action)
  BY <1>6 DEF Elapsed
<1> QED
  BY <1>5, <1>7 DEF cal_latency

(* ListOf changes only with loaded. *)
LEMMA ListOfFrame ==
  ASSUME loaded' = loaded, NEW done
  PROVE  ListOf(done)' = ListOf(done)
BY ListFrame DEF ListOf, EndOf

(* A step that leaves the reports alone. *)
LEMMA HandledFrame ==
  ASSUME HandledInv, UNCHANGED <<args, dirs, loaded, handled>>, phase' # "done" \/ Unhandled = {}
  PROVE  HandledInv'
<1>1. Reports' = Reports /\ OutDir' = OutDir /\ Network' = Network
  BY DEF args, Reports, OutDir, Network
<1>2. \A done : ListOf(done)' = ListOf(done)
  BY ListOfFrame
<1>3. \A done : RowInv(done)' <=> RowInv(done)
  BY <1>1, <1>2 DEF RowInv
<1>4. Unhandled' = Unhandled
  BY <1>1 DEF Unhandled
<1> QED
  BY <1>1, <1>2, <1>3, <1>4 DEF HandledInv

(* What comes next, and the exception it may end with. *)
LEMMA NextFrame ==
  ASSUME UNCHANGED <<args, loaded, handled>>
  PROVE  /\ Unhandled' = Unhandled
         /\ cal_latency(NextSize, EndOf(NextReport))' = cal_latency(NextSize, EndOf(NextReport))
<1>1. Reports' = Reports
  BY DEF args, Reports, Network
<1>2. Unhandled' = Unhandled
  BY <1>1 DEF Unhandled
<1>3. NextSize' = NextSize
  BY <1>2 DEF NextSize
<1>4. NextReport' = NextReport
  BY <1>1, <1>3 DEF NextReport
<1> QED
  BY <1>2, <1>3, <1>4, ListFrame DEF EndOf

(* A step that neither fails nor writes. *)
LEMMA FailsFrame ==
  ASSUME FailsInv, UNCHANGED <<args, runs, failure, loaded, handled>>
  PROVE  FailsInv'
<1>1. Network' = Network
  BY DEF args, Network
<1> QED
  BY <1>1, NextFrame DEF FailsInv, args

(* A step that writes no file. *)
LEMMA ProgramsFrame ==
  ASSUME dirs' = dirs
  PROVE  /\ Programs' = Programs /\ Loadable' = Loadable
         /\ ProgramsInv => ProgramsInv'
<1>1. Programs' = Programs /\ Loadable' = Loadable
  BY DEF Programs, Loadable, IsRecordFile
<1> QED
  BY <1>1 DEF ProgramsInv

-----------------------------------------------------------------------------
(* Before the first run there are only the files of the programs. *)
LEMMA AnalysisInitInv == AnalysisInit => AnalysisInv
<1> SUFFICES ASSUME AnalysisInit PROVE AnalysisInv
  OBVIOUS
<1> USE DEF AnalysisInit
<1>1. PICK trace \in Traces :
          /\ script = trace.script
          /\ dirs = [d \in {"input", "output"} |-> IF d = "input" THEN trace.files ELSE <<>>]
  OBVIOUS
<1>2. /\ trace.script \in {"network", "thread"}
      /\ \A f \in DOMAIN trace.files : IsRecordFile(f)
      /\ WellFormed(trace.files)
  BY AnalysisAssumption
<1>3. dirs["input"] = trace.files
  BY <1>1
<1>4. AnalysisTypeOK
  BY <1>1, <1>2 DEF AnalysisTypeOK
<1>5. ProgramsInv
  <2>1. /\ \A f \in DOMAIN dirs["input"] : dirs["input"][f] \in Seq(Rows)
        /\ \A f, g \in DOMAIN dirs["input"] :
             \A j \in DOMAIN dirs["input"][f], k \in DOMAIN dirs["input"][g] :
                SameEvent(dirs["input"][f][j], dirs["input"][g][k]) => f = g
    BY <1>2, <1>3 DEF WellFormed
  <2> QED
    BY <2>1 DEF ProgramsInv, WellFormed, Programs
<1>6. OwnFilesInv
  BY <1>2, <1>3 DEF OwnFilesInv, IsRecordFile
<1>7. LoadInv
  BY DEF LoadInv, Loading, AllLoaded
<1>8. HandledInv
  BY DEF HandledInv
<1>9. FailsInv
  BY DEF FailsInv
<1> QED
  BY <1>4, <1>5, <1>6, <1>7, <1>8, <1>9 DEF AnalysisInv

-----------------------------------------------------------------------------
(* Sets of positions. *)
LEMMA Positions ==
  ASSUME AnalysisTypeOK, NEW S \in SUBSET (DOMAIN loaded)
  PROVE  /\ S \in SUBSET Int /\ IsFiniteSet(S)
         /\ \A k \in S : k \in Int /\ loaded[k] \in Rows
<1>1. /\ DOMAIN loaded = 1 .. Len(loaded) /\ Len(loaded) \in Nat
      /\ \A k \in DOMAIN loaded : loaded[k] \in Rows
  BY DEF AnalysisTypeOK
<1>2. IsFiniteSet(1 .. Len(loaded))
  BY <1>1, FS_Interval
<1>3. IsFiniteSet(S)
  BY <1>1, <1>2, FS_Subset
<1> QED
  BY <1>1, <1>3

(* The rows of a message and action. *)
Marks(m, action) ==
    {j \in DOMAIN loaded : Message(loaded[j]) = m /\ loaded[j].action = action}

(* Two rows are of one message if user, number and size are the same. *)
LEMMA SameMessage ==
  ASSUME NEW r \in Rows, NEW s \in Rows
  PROVE  /\ Message(r) = Message(s) <=> r.uid = s.uid /\ r.id = s.id /\ r.size = s.size
         /\ Message(r) \in Messages /\ Message(r).size = r.size
BY DEF Message, Messages, Rows

(* The size, the user and the number are the message. *)
LEMMA SettingsAreMarks ==
  ASSUME AnalysisTypeOK, NEW k \in DOMAIN loaded, NEW action
  PROVE  Settings(k, action) = Marks(Message(loaded[k]), action)
<1>1. \A j \in DOMAIN loaded : loaded[j] \in Rows
  BY DEF AnalysisTypeOK
<1>2. \A j \in DOMAIN loaded :
        Message(loaded[j]) = Message(loaded[k])
            <=> loaded[j].size = loaded[k].size /\ Key(j) = Key(k)
  BY <1>1, SameMessage DEF Key
<1> QED
  BY <1>2 DEF Settings, Marks, At

(* Marks has a last element if it has any. *)
LEMMA MarksFacts ==
  ASSUME AnalysisTypeOK, NEW m, NEW action
  PROVE  /\ Marks(m, action) \in SUBSET DOMAIN loaded
         /\ Marks(m, action) \in SUBSET Int /\ IsFiniteSet(Marks(m, action))
<1>1. Marks(m, action) \in SUBSET DOMAIN loaded
  BY DEF Marks
<1> QED
  BY <1>1, Positions

(* A latency is a whole number. *)
LEMMA ElapsedIs ==
  ASSUME AnalysisTypeOK, NEW size, NEW end_action, NEW k \in Complete(size, end_action)
  PROVE  /\ k \in DOMAIN loaded /\ loaded[k].size = size
         /\ Marks(Message(loaded[k]), "begin") # {}
         /\ Marks(Message(loaded[k]), end_action) # {}
         /\ Elapsed(k, end_action) =
              loaded[Latest(Marks(Message(loaded[k]), end_action))].time
                - loaded[Latest(Marks(Message(loaded[k]), "begin"))].time
         /\ Elapsed(k, end_action) \in Int
<1>1. k \in DOMAIN loaded /\ loaded[k].size = size
  BY DEF Complete, Keys, At
<1>2. PICK m : m = Message(loaded[k])
  OBVIOUS
<1>3. Settings(k, "begin") = Marks(m, "begin") /\ Settings(k, end_action) = Marks(m, end_action)
  BY <1>1, <1>2, SettingsAreMarks
<1>4. Marks(m, "begin") # {} /\ Marks(m, end_action) # {}
  BY <1>3 DEF Complete
<1>5. ASSUME NEW action, Marks(m, action) # {}
      PROVE  loaded[Latest(Marks(m, action))].time \in Nat
  <2>1. Latest(Marks(m, action)) \in Marks(m, action)
    BY <1>5, MarksFacts, LatestIs
  <2>2. Latest(Marks(m, action)) \in DOMAIN loaded
    BY <2>1, MarksFacts
  <2> QED
    <3>1. loaded[Latest(Marks(m, action))] \in Rows
      BY <2>2 DEF AnalysisTypeOK
    <3> QED
      BY <3>1 DEF Rows
<1>6. Elapsed(k, end_action) = loaded[Latest(Marks(m, end_action))].time
                                 - loaded[Latest(Marks(m, "begin"))].time
  BY <1>3 DEF Elapsed, Entry
<1>7. /\ loaded[Latest(Marks(m, end_action))].time \in Nat
      /\ loaded[Latest(Marks(m, "begin"))].time \in Nat
  BY <1>4, <1>5
<1>8. Elapsed(k, end_action) \in Int
  BY <1>6, <1>7
<1> QED
  BY <1>1, <1>2, <1>4, <1>6, <1>8

(* cal_latency has one element for each key of which both entries are set. *)
LEMMA ListIs ==
  ASSUME AnalysisTypeOK, NEW size, NEW end_action, NEW list,
         list = cal_latency(size, end_action)
  PROVE  /\ list \in Seq(Int) /\ Len(list) \in Nat
         /\ \E ks \in [1 .. Len(list) -> Complete(size, end_action)] :
              /\ \A m, n \in 1 .. Len(list) : ks[m] = ks[n] => m = n
              /\ \A k \in Complete(size, end_action) : \E n \in 1 .. Len(list) : ks[n] = k
              /\ \A n \in 1 .. Len(list) : list[n] = Elapsed(ks[n], end_action)
<1>1. PICK C : C = Complete(size, end_action)
  OBVIOUS
<1>2. C \in SUBSET DOMAIN loaded
  BY <1>1, ElapsedIs
<1>3. C \in SUBSET Int /\ IsFiniteSet(C)
  BY <1>2, Positions
<1>4. PICK ks : ks = InOrder(C)
  OBVIOUS
<1>5. PICK n \in Nat : n = Cardinality(C)
  BY <1>3, InOrderBijection
<1>6. /\ ks \in [1 .. n -> C]
      /\ \A i, j \in 1 .. n : ks[i] = ks[j] => i = j
      /\ \A k \in C : \E i \in 1 .. n : ks[i] = k
  BY <1>3, <1>4, <1>5, InOrderBijection
<1>7. list = [i \in 1 .. n |-> Elapsed(ks[i], end_action)]
  BY <1>1, <1>4, <1>5 DEF cal_latency
<1>8. \A i \in 1 .. n : Elapsed(ks[i], end_action) \in Int
  BY <1>1, <1>6, ElapsedIs
<1>9. list \in Seq(Int) /\ Len(list) = n
  BY <1>7, <1>8
<1> QED
  BY <1>1, <1>6, <1>7, <1>9

(* The row of a file, where the script has put it. *)
LEMMA MarkIsTry ==
  ASSUME AnalysisTypeOK, ProgramsInv, to_load = {}, NEW off, Placed(off), NEW m, NEW action
  PROVE  /\ \A k \in Marks(m, action) : \E f \in Programs : \E j \in Tries(f, m, action) :
              k = off[f] + j /\ loaded[k] = dirs["input"][f][j]
         /\ \A f \in Programs : \A j \in Tries(f, m, action) : off[f] + j \in Marks(m, action)
         /\ \A f, g \in Programs : Tries(f, m, action) # {} /\ Tries(g, m, action) # {} => f = g
<1>1. Programs \ to_load = Programs
  OBVIOUS
<1>2. /\ \A f \in Programs : \A j \in DOMAIN dirs["input"][f] :
           off[f] + j \in DOMAIN loaded /\ loaded[off[f] + j] = dirs["input"][f][j]
      /\ \A k \in DOMAIN loaded : \E f \in Programs :
           \E j \in DOMAIN dirs["input"][f] : k = off[f] + j
  BY <1>1 DEF Placed
<1>3. ASSUME NEW k \in Marks(m, action)
      PROVE  \E f \in Programs : \E j \in Tries(f, m, action) :
                k = off[f] + j /\ loaded[k] = dirs["input"][f][j]
  <2>1. k \in DOMAIN loaded /\ Message(loaded[k]) = m /\ loaded[k].action = action
    BY DEF Marks
  <2>2. PICK f \in Programs : \E j \in DOMAIN dirs["input"][f] : k = off[f] + j
    BY <1>2, <2>1
  <2>3. PICK j \in DOMAIN dirs["input"][f] : k = off[f] + j
    BY <2>2
  <2>4. loaded[k] = dirs["input"][f][j]
    BY <1>2, <2>3
  <2>5. j \in Tries(f, m, action)
    BY <2>1, <2>4 DEF Tries
  <2> QED
    BY <2>3, <2>4, <2>5
<1>4. ASSUME NEW f \in Programs, NEW j \in Tries(f, m, action)
      PROVE  off[f] + j \in Marks(m, action)
  <2>1. /\ j \in DOMAIN dirs["input"][f]
        /\ Message(dirs["input"][f][j]) = m /\ dirs["input"][f][j].action = action
    BY DEF Tries
  <2> QED
    BY <1>2, <2>1 DEF Marks
<1>5. ASSUME NEW f \in Programs, NEW g \in Programs,
             Tries(f, m, action) # {}, Tries(g, m, action) # {}
      PROVE  f = g
  <2>1. PICK i : i \in Tries(f, m, action)
    BY <1>5
  <2>2. PICK j : j \in Tries(g, m, action)
    BY <1>5
  <2>3. /\ i \in DOMAIN dirs["input"][f] /\ j \in DOMAIN dirs["input"][g]
        /\ SameEvent(dirs["input"][f][i], dirs["input"][g][j])
    BY <2>1, <2>2 DEF Tries, SameEvent
  <2> QED
    BY <2>3 DEF ProgramsInv, WellFormed
<1> QED
  BY <1>3, <1>4, <1>5

(* The entry that is set last is the last try in the record. *)
LEMMA TimesAre ==
  ASSUME AnalysisTypeOK, ProgramsInv, to_load = {}, NEW off, Placed(off), NEW m, NEW action
  PROVE  /\ Marks(m, action) # {} =>
              Times(m, action) = {loaded[Latest(Marks(m, action))].time}
         /\ Marks(m, action) = {} => Times(m, action) = {}
<1>1. CASE Marks(m, action) = {}
  <2>1. \A f \in Programs : Tries(f, m, action) = {}
    BY <1>1, MarkIsTry
  <2>2. Times(m, action) = {}
    BY <2>1 DEF Times
  <2> QED
    BY <2>2, <1>1
<1>2. CASE Marks(m, action) # {}
  <2>1. PICK k \in Marks(m, action) : k = Latest(Marks(m, action))
                                      /\ \A i \in Marks(m, action) : i <= k
    BY <1>2, MarksFacts, LatestIs
  <2>2. PICK f \in Programs : \E j \in Tries(f, m, action) :
            k = off[f] + j /\ loaded[k] = dirs["input"][f][j]
    BY <2>1, MarkIsTry
  <2>3. PICK j \in Tries(f, m, action) : k = off[f] + j /\ loaded[k] = dirs["input"][f][j]
    BY <2>2
  <2>4. off[f] \in Int
    BY DEF Placed, AnalysisTypeOK
  <2>5. Tries(f, m, action) \in SUBSET Int /\ IsFiniteSet(Tries(f, m, action))
    <3>1. dirs["input"][f] \in Seq(Rows)
      BY DEF ProgramsInv, WellFormed
    <3>2. /\ DOMAIN dirs["input"][f] = 1 .. Len(dirs["input"][f])
          /\ Len(dirs["input"][f]) \in Nat
      BY <3>1
    <3>3. IsFiniteSet(DOMAIN dirs["input"][f])
      BY <3>2, FS_Interval
    <3>4. Tries(f, m, action) \in SUBSET DOMAIN dirs["input"][f]
      BY DEF Tries
    <3>5. IsFiniteSet(Tries(f, m, action))
      BY <3>3, <3>4, FS_Subset
    <3> QED
      BY <3>2, <3>4, <3>5
  <2>6. \A i \in Tries(f, m, action) : i <= j
    <3> SUFFICES ASSUME NEW i \in Tries(f, m, action) PROVE i <= j
      OBVIOUS
    <3>1. off[f] + i <= off[f] + j
      BY <2>1, <2>3, MarkIsTry
    <3>2. i \in Int /\ j \in Int
      BY <2>5
    <3> QED
      BY <3>1, <3>2, <2>4
  <2>7. Latest(Tries(f, m, action)) = j
    BY <2>5, <2>6, LatestUnique
  <2>8. \A g \in Programs : Tries(g, m, action) # {} <=> g = f
    BY <2>3, MarkIsTry
  <2>9. Times(m, action) = {dirs["input"][f][j].time}
    BY <2>7, <2>8 DEF Times
  <2> QED
    BY <2>1, <2>3, <2>9, <1>2
<1> QED
  BY <1>1, <1>2

(* Of each message with a record, one row brings its key. *)
LEMMA KeyOfMessage ==
  ASSUME AnalysisTypeOK, NEW size, NEW end_action
  PROVE  /\ \A j, k \in Complete(size, end_action) :
              Message(loaded[j]) = Message(loaded[k]) => j = k
         /\ \A m \in Messages :
              /\ m.size = size
              /\ Marks(m, "begin") # {} /\ Marks(m, end_action) # {}
              => \E k \in Complete(size, end_action) : Message(loaded[k]) = m
<1>1. \A j \in DOMAIN loaded : loaded[j] \in Rows /\ j \in Int
  BY DEF AnalysisTypeOK
<1>2. ASSUME NEW j \in Complete(size, end_action), NEW k \in Complete(size, end_action),
             Message(loaded[j]) = Message(loaded[k])
      PROVE  j = k
  <2>1. j \in DOMAIN loaded /\ k \in DOMAIN loaded
    BY ElapsedIs
  <2>2. Key(j) = Key(k)
    BY <1>1, <1>2, <2>1, SameMessage DEF Key
  <2>3. j <= k /\ k <= j
    BY <2>2 DEF Complete, Keys
  <2> QED
    BY <1>1, <2>1, <2>3
<1>3. ASSUME NEW m \in Messages, m.size = size,
             Marks(m, "begin") # {}, Marks(m, end_action) # {}
      PROVE  \E k \in Complete(size, end_action) : Message(loaded[k]) = m
  <2>1. PICK S : S = {j \in DOMAIN loaded : Message(loaded[j]) = m}
    OBVIOUS
  <2>2. S \in SUBSET DOMAIN loaded /\ S # {}
    BY <1>3, <2>1 DEF Marks
  <2>3. S \in SUBSET Int /\ IsFiniteSet(S)
    BY <2>2, Positions
  <2>4. PICK k \in S : \A j \in S : k <= j
    BY <2>2, <2>3, EarliestIs
  <2>5. k \in DOMAIN loaded /\ Message(loaded[k]) = m
    BY <2>1, <2>4
  <2>6. loaded[k].size = size
    BY <1>1, <1>3, <2>5, SameMessage
  <2>7. ASSUME NEW j \in At(size), Key(j) = Key(k)
        PROVE  k <= j
    <3>1. j \in DOMAIN loaded /\ loaded[j].size = size
      BY DEF At
    <3>2. Message(loaded[j]) = Message(loaded[k])
      BY <1>1, <2>5, <2>6, <2>7, <3>1, SameMessage DEF Key
    <3> QED
      BY <2>1, <2>4, <2>5, <3>1, <3>2
  <2>8. k \in Keys(size)
    BY <2>5, <2>6, <2>7 DEF Keys, At
  <2>9. \A action : Settings(k, action) = Marks(m, action)
    BY <2>5, SettingsAreMarks
  <2> QED
    BY <1>3, <2>5, <2>8, <2>9 DEF Complete
<1> QED
  BY <1>2, <1>3

(* What it takes to be a latency. *)
LEMMA LatencyIn ==
  ASSUME NEW size, NEW report, NEW l
  PROVE  l \in Latencies(size, report) <=>
            \E m \in Messages : \E end \in Times(m, EndOf(report)) :
               \E begin \in Times(m, "begin") : m.size = size /\ l = <<m, end - begin>>
BY DEF Latencies

(***************************************************************************)
(* The list that cal_latency makes of the rows read holds the latencies    *)
(* that the record files give, each once.                                  *)
(***************************************************************************)
LEMMA ListIsLatencies ==
  ASSUME AnalysisTypeOK, ProgramsInv, to_load = {}, NEW off, Placed(off),
         NEW size, NEW report, NEW list, list = cal_latency(size, EndOf(report))
  PROVE  /\ list \in Seq(Int) /\ Len(list) \in Nat
         /\ \E h : ListsThem(h, list, Latencies(size, report))
<1>1. PICK end_action : end_action = EndOf(report)
  OBVIOUS
<1>2. list \in Seq(Int) /\ Len(list) \in Nat
  BY ListIs
<1>3. PICK n \in Nat : n = Len(list)
  BY <1>2
<1>4. PICK ks \in [1 .. n -> Complete(size, end_action)] :
        /\ \A i, j \in 1 .. n : ks[i] = ks[j] => i = j
        /\ \A k \in Complete(size, end_action) : \E i \in 1 .. n : ks[i] = k
        /\ \A i \in 1 .. n : list[i] = Elapsed(ks[i], end_action)
  BY <1>1, <1>3, ListIs
<1>5. PICK h : h = [i \in 1 .. n |-> <<Message(loaded[ks[i]]), list[i]>>]
  OBVIOUS
<1>6. ASSUME NEW k \in Complete(size, end_action)
      PROVE  /\ Message(loaded[k]) \in Messages /\ Message(loaded[k]).size = size
             /\ \E end \in Times(Message(loaded[k]), end_action) :
                  \E begin \in Times(Message(loaded[k]), "begin") :
                     /\ Elapsed(k, end_action) = end - begin
                     /\ Times(Message(loaded[k]), end_action) = {end}
                     /\ Times(Message(loaded[k]), "begin") = {begin}
  <2>1. PICK m : m = Message(loaded[k])
    OBVIOUS
  <2>2. /\ k \in DOMAIN loaded /\ loaded[k].size = size
        /\ Marks(m, "begin") # {} /\ Marks(m, end_action) # {}
        /\ Elapsed(k, end_action) = loaded[Latest(Marks(m, end_action))].time
                                      - loaded[Latest(Marks(m, "begin"))].time
    BY <2>1, ElapsedIs
  <2>3. /\ Times(m, end_action) = {loaded[Latest(Marks(m, end_action))].time}
        /\ Times(m, "begin") = {loaded[Latest(Marks(m, "begin"))].time}
    BY <2>2, TimesAre
  <2>4. loaded[k] \in Rows
    BY <2>2 DEF AnalysisTypeOK
  <2>5. m \in Messages /\ m.size = size
    BY <2>1, <2>2, <2>4, SameMessage
  <2> QED
    BY <2>1, <2>2, <2>3, <2>5
<1>7. ASSUME NEW i \in 1 .. n
      PROVE  h[i] \in Latencies(size, report)
  <2>1. PICK k \in Complete(size, end_action) : k = ks[i]
    BY <1>4
  <2>2. h[i] = <<Message(loaded[k]), Elapsed(k, end_action)>>
    BY <1>4, <1>5, <2>1
  <2> QED
    BY <1>1, <1>6, <2>2, LatencyIn
<1>8. h \in [1 .. n -> Latencies(size, report)]
  BY <1>5, <1>7
<1>9. ASSUME NEW i \in 1 .. n, NEW j \in 1 .. n, h[i] = h[j]
      PROVE  i = j
  <2>1. Message(loaded[ks[i]]) = Message(loaded[ks[j]])
    BY <1>5, <1>9
  <2>2. ks[i] = ks[j]
    BY <1>4, <2>1, KeyOfMessage
  <2> QED
    BY <1>4, <2>2
<1>10. ASSUME NEW l \in Latencies(size, report)
       PROVE  \E i \in 1 .. n : h[i] = l
  <2>1. PICK m \in Messages : \E end \in Times(m, end_action) :
            \E begin \in Times(m, "begin") : m.size = size /\ l = <<m, end - begin>>
    BY <1>1, LatencyIn
  <2>2. PICK end \in Times(m, end_action) :
            \E begin \in Times(m, "begin") : m.size = size /\ l = <<m, end - begin>>
    BY <2>1
  <2>3. PICK begin \in Times(m, "begin") : m.size = size /\ l = <<m, end - begin>>
    BY <2>2
  <2>4. Marks(m, "begin") # {} /\ Marks(m, end_action) # {}
    BY <2>2, <2>3, TimesAre
  <2>5. PICK k \in Complete(size, end_action) : Message(loaded[k]) = m
    BY <2>3, <2>4, KeyOfMessage
  <2>6. Elapsed(k, end_action) = end - begin
    BY <1>6, <2>2, <2>3, <2>5
  <2>7. PICK i \in 1 .. n : ks[i] = k
    BY <1>4
  <2>8. h[i] = l
    BY <1>4, <1>5, <2>3, <2>5, <2>6, <2>7
  <2> QED
    BY <2>8
<1>11. \A i \in 1 .. n : h[i][2] = list[i]
  BY <1>5
<1>12. ListsThem(h, list, Latencies(size, report))
  BY <1>3, <1>8, <1>9, <1>10, <1>11 DEF ListsThem, OneToOne
<1> QED
  BY <1>2, <1>12

(* parse_args: nothing has been loaded yet. *)
LEMMA ParseArgsInv ==
  ASSUME AnalysisInv, parse_args
  PROVE  AnalysisInv'
<1> USE DEF AnalysisInv, parse_args, args
<1>1. AnalysisTypeOK'
  BY DEF AnalysisTypeOK, Reports, Network
<1>2. Programs' = Programs /\ Loadable' = Loadable /\ ProgramsInv'
  BY ProgramsFrame
<1>3. OwnFilesInv'
  BY DEF OwnFilesInv, Network
<1>4. failure = "none" /\ loaded = <<>> /\ handled = {}
  BY DEF AnalysisTypeOK, LoadInv, Loading
<1>5. LoadInv'
  <2>1. CASE InputGiven
    <3>1. Programs \ Loadable = {} /\ to_load' = Loadable
      BY <2>1 DEF Programs, Loadable, IsRecordFile
    <3>2. PICK off : off = [f \in {} |-> 0]
      OBVIOUS
    <3>3. Programs' \ to_load' = {}
      BY <3>1, <1>2
    <3>4. off \in [Programs' \ to_load' -> 0 .. Len(loaded')]
      BY <3>2, <3>3
    <3>5. Placed(off)'
      BY <3>3, <3>4, <1>4 DEF Placed
    <3> QED
      BY <2>1, <3>1, <3>4, <3>5, <1>2, <1>4 DEF LoadInv, Loading, AllLoaded
  <2>2. CASE ~InputGiven
    BY <2>2, <1>2, <1>4 DEF LoadInv, Loading, AllLoaded
  <2> QED
    BY <2>1, <2>2
<1>6. HandledInv'
  BY HandledFrame
<1>7. FailsInv'
  BY FailsFrame
<1> QED
  BY <1>1, <1>2, <1>3, <1>5, <1>6, <1>7

(* PrepareOutput: all files have been. *)
LEMMA PrepareOutputInv ==
  ASSUME AnalysisInv, PrepareOutput
  PROVE  AnalysisInv'
<1> USE DEF AnalysisInv, PrepareOutput, args
<1>1. AnalysisTypeOK'
  BY DEF AnalysisTypeOK, Reports, Network
<1>2. Programs' = Programs /\ Loadable' = Loadable /\ ProgramsInv'
  BY ProgramsFrame
<1>3. OwnFilesInv'
  BY DEF OwnFilesInv, Network
<1>4. PICK off \in [Programs \ to_load -> 0 .. Len(loaded)] : Placed(off)
  BY DEF LoadInv, Loading
<1>5. Placed(off)'
  BY <1>2, <1>4 DEF Placed
<1>6. LoadInv'
  BY <1>2, <1>4, <1>5 DEF LoadInv, Loading, AllLoaded
<1>7. HandledInv'
  BY HandledFrame
<1>8. FailsInv'
  BY FailsFrame
<1> QED
  BY <1>1, <1>2, <1>3, <1>6, <1>7, <1>8

(* CloseReports: every size read has its rows. *)
LEMMA CloseReportsInv ==
  ASSUME AnalysisInv, CloseReports
  PROVE  AnalysisInv'
<1> USE DEF AnalysisInv, CloseReports, args
<1>1. AnalysisTypeOK'
  BY DEF AnalysisTypeOK, Reports, Network
<1>2. Programs' = Programs /\ Loadable' = Loadable /\ ProgramsInv'
  BY ProgramsFrame
<1>3. OwnFilesInv'
  BY DEF OwnFilesInv, Network
<1>4. PICK off \in [Programs \ to_load -> 0 .. Len(loaded)] : Placed(off)
  BY DEF LoadInv, Loading
<1>5. Placed(off)'
  BY <1>2, <1>4 DEF Placed
<1>6. LoadInv'
  BY <1>2, <1>4, <1>5 DEF LoadInv, Loading, AllLoaded
<1>7. HandledInv'
  BY HandledFrame
<1>8. FailsInv'
  BY FailsFrame
<1> QED
  BY <1>1, <1>2, <1>3, <1>6, <1>7, <1>8

(* RunAgain: the script's own files are there from now on. *)
LEMMA RunAgainInv ==
  ASSUME AnalysisInv, RunAgain
  PROVE  AnalysisInv'
<1> USE DEF AnalysisInv, RunAgain, args
<1>1. AnalysisTypeOK'
  BY DEF AnalysisTypeOK, Reports, Network
<1>2. Programs' = Programs /\ Loadable' = Loadable /\ ProgramsInv'
  BY ProgramsFrame
<1>3. OwnFilesInv'
  BY DEF OwnFilesInv, Network, AnalysisTypeOK
<1>4. LoadInv'
  BY DEF LoadInv, Loading, AllLoaded
<1>5. HandledInv'
  BY DEF HandledInv
<1>6. FailsInv'
  BY DEF FailsInv
<1> QED
  BY <1>1, <1>2, <1>3, <1>4, <1>5, <1>6

(* Nothing changes. *)
LEMMA AnalysisStutterInv ==
  ASSUME AnalysisInv, UNCHANGED analysisvars
  PROVE  AnalysisInv'
<1> USE DEF AnalysisInv, analysisvars, args
<1>1. AnalysisTypeOK'
  BY DEF AnalysisTypeOK, Reports, Network
<1>2. Programs' = Programs /\ Loadable' = Loadable /\ ProgramsInv'
  BY ProgramsFrame
<1>3. OwnFilesInv'
  BY DEF OwnFilesInv, Network
<1>4. LoadInv'
  <2>1. CASE Loading
    <3>1. PICK off \in [Programs \ to_load -> 0 .. Len(loaded)] : Placed(off)
      BY <2>1 DEF LoadInv
    <3>2. Placed(off)'
      BY <1>2, <3>1 DEF Placed
    <3> QED
      BY <2>1, <1>2, <3>1, <3>2 DEF LoadInv, Loading, AllLoaded
  <2>2. CASE ~Loading
    BY <2>2, <1>2 DEF LoadInv, Loading, AllLoaded
  <2> QED
    BY <2>1, <2>2
<1>5. HandledInv'
  BY HandledFrame DEF HandledInv
<1>6. FailsInv'
  BY FailsFrame
<1> QED
  BY <1>1, <1>2, <1>3, <1>4, <1>5, <1>6

(* Two lists one after the other: where the elements of each are. *)
LEMMA Concatenated ==
  ASSUME NEW S, NEW s \in Seq(S), NEW t \in Seq(S), NEW u, u = s \o t
  PROVE  /\ Len(s) \in Nat /\ Len(t) \in Nat /\ Len(u) = Len(s) + Len(t)
         /\ DOMAIN s = 1 .. Len(s) /\ DOMAIN t = 1 .. Len(t) /\ DOMAIN u = 1 .. Len(u)
         /\ \A k \in DOMAIN s : u[k] = s[k]
         /\ \A j \in DOMAIN t : u[Len(s) + j] = t[j]
<1>1. /\ u \in Seq(S) /\ Len(u) = Len(s) + Len(t)
      /\ \A i \in 1 .. Len(s) + Len(t) : u[i] = IF i <= Len(s) THEN s[i] ELSE t[i - Len(s)]
  BY ConcatProperties, Zenon
<1>2. PICK m \in Nat : m = Len(s) /\ DOMAIN s = 1 .. m
  BY LenProperties, Zenon
<1>3. PICK n \in Nat : n = Len(t) /\ DOMAIN t = 1 .. n
  BY LenProperties, Zenon
<1>4. DOMAIN u = 1 .. Len(u)
  BY <1>1, LenProperties, Zenon
<1>5. \A i \in 1 .. m + n : u[i] = IF i <= m THEN s[i] ELSE t[i - m]
  BY <1>1, <1>2, <1>3, Zenon
<1>6. ASSUME NEW k \in DOMAIN s PROVE u[k] = s[k]
  <2>1. k \in 1 .. m + n /\ k <= m
    BY <1>2
  <2> QED
    BY <1>5, <2>1, Zenon
<1>7. ASSUME NEW j \in DOMAIN t PROVE u[m + j] = t[j]
  <2>1. m + j \in 1 .. m + n /\ ~(m + j <= m) /\ (m + j) - m = j
    BY <1>3
  <2> QED
    BY <1>5, <2>1, Zenon
<1> QED
  BY <1>1, <1>2, <1>3, <1>4, <1>6, <1>7, Zenon

(* A file's rows come after those of the files before it. *)
LEMMA LoadFileInv ==
  ASSUME AnalysisInv, load_record_list_dict
  PROVE  AnalysisInv'
<1> USE DEF AnalysisInv, args
<1>0. /\ phase = "load" /\ UNCHANGED <<args, dirs, runs, handled>>
      /\ handled = {} /\ failure = "none"
  BY DEF load_record_list_dict, LoadInv, AllLoaded, AnalysisTypeOK
<1>1. PICK file_1 \in to_load :
        /\ to_load' = to_load \ {file_1}
        /\ IF HasNoSize(file_1)
           THEN Fail("KeyError") /\ UNCHANGED loaded
           ELSE /\ loaded' = IF file_1 \in Programs THEN loaded \o dirs["input"][file_1]
                                                    ELSE loaded
                /\ UNCHANGED <<phase, failure>>
  BY DEF load_record_list_dict
<1>2. Programs' = Programs /\ Loadable' = Loadable /\ ProgramsInv'
  BY <1>0, ProgramsFrame
<1>3. file_1 \in Loadable /\ Programs \in SUBSET Loadable
  BY DEF LoadInv, Programs, Loadable, IsRecordFile
<1>4. \A f \in Programs : dirs["input"][f] \in Seq(Rows)
  BY DEF ProgramsInv, WellFormed
<1>5. AnalysisTypeOK'
  <2>1. loaded' \in Seq(Rows)
    <3>1. loaded \in Seq(Rows)
      BY DEF AnalysisTypeOK
    <3>2. file_1 \in Programs => loaded \o dirs["input"][file_1] \in Seq(Rows)
      BY <3>1, <1>4
    <3>3. loaded' = loaded \/ (file_1 \in Programs /\ loaded' = loaded \o dirs["input"][file_1])
      BY <1>1
    <3> QED
      BY <3>1, <3>2, <3>3
  <2> QED
    BY <2>1, <1>0, <1>1 DEF AnalysisTypeOK, Fail, Reports, Network
<1>6. OwnFilesInv'
  BY <1>0, <1>1 DEF OwnFilesInv, Network, Fail
<1>7. PICK off \in [Programs \ to_load -> 0 .. Len(loaded)] : Placed(off)
  BY <1>0 DEF LoadInv, Loading
<1>8. \E new \in [Programs' \ to_load' -> 0 .. Len(loaded')] : Placed(new)'
  <2>1. CASE file_1 \notin Programs
    <3>1. Programs' \ to_load' = Programs \ to_load /\ loaded' = loaded
      BY <1>1, <1>2, <2>1
    <3>2. Placed(off)'
      BY <3>1, <1>0, <1>7 DEF Placed
    <3> QED
      BY <3>1, <3>2, <1>7
  <2>2. CASE file_1 \in Programs
    <3>0. PICK new : new = [f \in Programs \ to_load' |->
                               IF f = file_1 THEN Len(loaded) ELSE off[f]]
      OBVIOUS
    <3>1. /\ loaded' = loaded \o dirs["input"][file_1]
          /\ Programs \ to_load' = (Programs \ to_load) \cup {file_1}
      BY <1>1, <2>2 DEF HasNoSize
    <3>2. /\ loaded \in Seq(Rows) /\ dirs["input"][file_1] \in Seq(Rows)
          /\ loaded' \in Seq(Rows)
      BY <1>4, <1>5, <2>2 DEF AnalysisTypeOK
    <3>3. /\ Len(loaded) \in Nat /\ Len(dirs["input"][file_1]) \in Nat
          /\ Len(loaded') = Len(loaded) + Len(dirs["input"][file_1])
          /\ DOMAIN loaded = 1 .. Len(loaded)
          /\ DOMAIN dirs["input"][file_1] = 1 .. Len(dirs["input"][file_1])
          /\ DOMAIN loaded' = 1 .. Len(loaded')
          /\ \A k \in DOMAIN loaded : loaded'[k] = loaded[k]
          /\ \A j \in DOMAIN dirs["input"][file_1] :
               loaded'[Len(loaded) + j] = dirs["input"][file_1][j]
      <4>1. PICK s \in Seq(Rows), t \in Seq(Rows), u \in Seq(Rows) :
                s = loaded /\ t = dirs["input"][file_1] /\ u = loaded' /\ u = s \o t
        BY <3>1, <3>2, Zenon
      <4>2. /\ Len(s) \in Nat /\ Len(t) \in Nat /\ Len(u) = Len(s) + Len(t)
            /\ DOMAIN s = 1 .. Len(s) /\ DOMAIN t = 1 .. Len(t) /\ DOMAIN u = 1 .. Len(u)
            /\ \A k \in DOMAIN s : u[k] = s[k]
            /\ \A j \in DOMAIN t : u[Len(s) + j] = t[j]
        BY <4>1, Concatenated
      <4> QED
        BY <4>1, <4>2, Zenon
    <3>4. new \in [Programs \ to_load' -> 0 .. Len(loaded')]
      <4>1. PICK m \in Nat, n \in Nat :
                /\ m = Len(loaded) /\ n = Len(dirs["input"][file_1])
                /\ Len(loaded') = m + n
        BY <3>3, Zenon
      <4>2. off \in [Programs \ to_load -> 0 .. m]
        BY <4>1, Zenon
      <4>3. ASSUME NEW f \in Programs \ to_load'
            PROVE  (IF f = file_1 THEN m ELSE off[f]) \in 0 .. m + n
        <5>1. CASE f = file_1
          BY <4>1, <5>1
        <5>2. CASE f # file_1
          <6>1. f \in Programs \ to_load
            BY <3>1, <5>2, Zenon
          <6>2. off[f] \in 0 .. m
            BY <4>2, <6>1, Zenon
          <6> QED
            BY <4>1, <5>2, <6>2
        <5> QED
          BY <5>1, <5>2
      <4> QED
        BY <3>0, <4>1, <4>3, Zenon
    <3>5. new[file_1] = Len(loaded) /\ \A f \in Programs \ to_load : new[f] = off[f]
      BY <3>0, <3>1, <1>1
    <3>6. ASSUME NEW f \in Programs \ to_load', NEW j \in DOMAIN dirs["input"][f]
          PROVE  new[f] + j \in DOMAIN loaded' /\ loaded'[new[f] + j] = dirs["input"][f][j]
      <4>1. CASE f = file_1
        BY <4>1, <3>3, <3>5
      <4>2. CASE f # file_1
        <5>1. f \in Programs \ to_load
          BY <4>2, <3>1
        <5>2. off[f] + j \in DOMAIN loaded /\ loaded[off[f] + j] = dirs["input"][f][j]
          BY <5>1, <1>7 DEF Placed
        <5> QED
          BY <5>1, <5>2, <3>3, <3>5
      <4> QED
        BY <4>1, <4>2
    <3>7. ASSUME NEW k \in DOMAIN loaded'
          PROVE  \E f \in Programs \ to_load' : \E j \in DOMAIN dirs["input"][f] :
                     k = new[f] + j
      <4>1. CASE k \in DOMAIN loaded
        <5>1. PICK f \in Programs \ to_load : \E j \in DOMAIN dirs["input"][f] : k = off[f] + j
          BY <4>1, <1>7 DEF Placed
        <5>2. f \in Programs \ to_load' /\ new[f] = off[f]
          BY <5>1, <3>1, <3>5
        <5> QED
          BY <5>1, <5>2
      <4>2. CASE k \notin DOMAIN loaded
        <5>1. PICK j \in DOMAIN dirs["input"][file_1] : k = Len(loaded) + j
          <6>1. k - Len(loaded) \in DOMAIN dirs["input"][file_1]
                /\ k = Len(loaded) + (k - Len(loaded))
            BY <4>2, <3>3
          <6> QED
            BY <6>1
        <5>2. file_1 \in Programs \ to_load'
          BY <3>1
        <5> QED
          BY <5>1, <5>2, <3>5
      <4> QED
        BY <4>1, <4>2
    <3>8. Placed(new)'
      BY <3>4, <3>6, <3>7, <1>0, <1>2 DEF Placed
    <3> QED
      BY <3>4, <3>8, <1>2
  <2> QED
    BY <2>1, <2>2
<1>9. LoadInv'
  BY <1>0, <1>1, <1>2, <1>8 DEF LoadInv, Loading, AllLoaded, Fail
<1>10. HandledInv'
  BY <1>0, <1>1 DEF HandledInv, Fail
<1>11. FailsInv'
  <2>1. CASE HasNoSize(file_1)
    <3>1. file_1[1] = "records" /\ file_1 \in DOMAIN dirs["input"]
      BY <1>3, <2>1 DEF HasNoSize, Programs, Loadable, IsRecordFile
    <3>2. Network /\ output = "input" /\ runs > 1
      BY <1>0, <3>1 DEF OwnFilesInv
    <3> QED
      BY <3>2, <2>1, <1>0, <1>1 DEF FailsInv, Fail, Network
  <2>2. CASE ~HasNoSize(file_1)
    BY <2>2, <1>0, <1>1 DEF FailsInv
  <2> QED
    BY <2>1, <2>2
<1> QED
  BY <1>2, <1>5, <1>6, <1>9, <1>10, <1>11

LEMMA FileNames ==
  ASSUME NEW s, NEW r, NEW t, NEW q
  PROVE  /\ ReportFile(r) = ReportFile(q) <=> r = q
         /\ RecordsFile(s, r) = RecordsFile(t, q) <=> s = t /\ r = q
         /\ RecordsFile(s, r) # ReportFile(q)
         /\ ~IsRecordFile(ReportFile(r)) /\ ~IsRecordFile(RecordsFile(s, r))
         /\ ReportFile(r)[1] = "report" /\ RecordsFile(s, r)[1] = "records"
BY DEF ReportFile, RecordsFile, IsRecordFile

(* What is written, and what stays as it was. *)
LEMMA Written ==
  ASSUME AnalysisTypeOK, NEW list, NEW rows, NEW size, NEW report,
         size = NextSize, report = NextReport, Write(list, rows), UNCHANGED args
  PROVE  /\ dirs' = [d \in {"input", "output"} |-> dirs'[d]]
         /\ ReportFile(report) \in DOMAIN dirs'[OutDir]
         /\ dirs'[OutDir][ReportFile(report)] = rows
         /\ Network => /\ RecordsFile(size, report) \in DOMAIN dirs'[OutDir]
                       /\ dirs'[OutDir][RecordsFile(size, report)] = list
         /\ \A f \in DOMAIN dirs[OutDir] :
              f # ReportFile(report) /\ f # RecordsFile(size, report) =>
                 f \in DOMAIN dirs'[OutDir] /\ dirs'[OutDir][f] = dirs[OutDir][f]
         /\ \A f \in DOMAIN dirs'["input"] :
              \/ f \in DOMAIN dirs["input"]
              \/ f = ReportFile(report)
              \/ f = RecordsFile(size, report) /\ Network /\ output = "input"
         /\ \A f \in DOMAIN dirs["input"] :
              f # ReportFile(report) /\ f # RecordsFile(size, report) =>
                 f \in DOMAIN dirs'["input"] /\ dirs'["input"][f] = dirs["input"][f]
<1> DEFINE written == IF Network THEN Put(dirs[OutDir], RecordsFile(size, report), list)
                                 ELSE dirs[OutDir]
<1>1. dirs' = [dirs EXCEPT ![OutDir] = Put(written, ReportFile(report), rows)]
  BY DEF Write
<1>2. OutDir \in {"input", "output"} /\ (OutDir = "input" <=> output = "input")
  BY DEF OutDir
<1>3. /\ dirs'[OutDir] = Put(written, ReportFile(report), rows)
      /\ dirs' = [d \in {"input", "output"} |-> dirs'[d]]
      /\ OutDir # "input" => dirs'["input"] = dirs["input"]
  <2>1. dirs = [d \in {"input", "output"} |-> dirs[d]]
    BY DEF AnalysisTypeOK
  <2>2. PICK o : o = OutDir
    OBVIOUS
  <2>3. PICK new : new = Put(written, ReportFile(report), rows)
    OBVIOUS
  <2>4. dirs' = [dirs EXCEPT ![o] = new] /\ o \in {"input", "output"}
    BY <1>1, <1>2, <2>2, <2>3
  <2>5. /\ dirs'[o] = new
        /\ dirs' = [d \in {"input", "output"} |-> dirs'[d]]
        /\ o # "input" => dirs'["input"] = dirs["input"]
    BY <2>1, <2>4
  <2> QED
    BY <2>2, <2>3, <2>5
<1>4. /\ DOMAIN dirs'[OutDir] = DOMAIN written \cup {ReportFile(report)}
      /\ dirs'[OutDir][ReportFile(report)] = rows
      /\ \A f \in DOMAIN written : f # ReportFile(report) => dirs'[OutDir][f] = written[f]
  <2> HIDE DEF written
  <2> QED
    BY <1>3 DEF Put
<1>5. RecordsFile(size, report) # ReportFile(report)
  BY FileNames
<1>6. Network => /\ DOMAIN written = DOMAIN dirs[OutDir] \cup {RecordsFile(size, report)}
                 /\ written[RecordsFile(size, report)] = list
                 /\ \A f \in DOMAIN dirs[OutDir] : f # RecordsFile(size, report) =>
                       written[f] = dirs[OutDir][f]
  BY DEF Put
<1>7. ~Network => written = dirs[OutDir]
  OBVIOUS
<1> HIDE DEF written
<1>8. /\ ReportFile(report) \in DOMAIN dirs'[OutDir]
      /\ Network => /\ RecordsFile(size, report) \in DOMAIN dirs'[OutDir]
                    /\ dirs'[OutDir][RecordsFile(size, report)] = list
      /\ \A f \in DOMAIN dirs[OutDir] :
              f # ReportFile(report) /\ f # RecordsFile(size, report) =>
                 f \in DOMAIN dirs'[OutDir] /\ dirs'[OutDir][f] = dirs[OutDir][f]
      /\ \A f \in DOMAIN dirs'[OutDir] :
              \/ f \in DOMAIN dirs[OutDir]
              \/ f = ReportFile(report)
              \/ f = RecordsFile(size, report) /\ Network
  <2>1. CASE Network
    BY <2>1, <1>4, <1>5, <1>6
  <2>2. CASE ~Network
    BY <2>2, <1>4, <1>5, <1>7
  <2> QED
    BY <2>1, <2>2
<1>9. CASE output = "input"
  <2>1. OutDir = "input"
    BY <1>2, <1>9
  <2> QED
    BY <1>3, <1>4, <1>8, <1>9, <2>1
<1>10. CASE output # "input"
  <2>1. dirs'["input"] = dirs["input"]
    BY <1>2, <1>3, <1>10
  <2> QED
    BY <1>3, <1>4, <1>8, <2>1
<1> QED
  BY <1>9, <1>10

(* The size and report that come next have no row yet. *)
LEMMA NextIsNew ==
  ASSUME AnalysisTypeOK, Unhandled # {}
  PROVE  /\ NextSize \in Sizes
         /\ NextReport \in {Reports[1], Reports[2]}
         /\ <<NextSize, NextReport>> \notin handled
         /\ NextReport # Reports[1] => <<NextSize, Reports[1]>> \in handled
<1>1. /\ Unhandled \in SUBSET (1 .. Len(loaded)) /\ Len(loaded) \in Nat
      /\ \A k \in 1 .. Len(loaded) : loaded[k] \in Rows
  BY DEF AnalysisTypeOK, Unhandled
<1>2. Unhandled \in SUBSET Int /\ IsFiniteSet(Unhandled)
  <2>1. IsFiniteSet(1 .. Len(loaded))
    BY <1>1, FS_Interval
  <2>2. IsFiniteSet(Unhandled)
    BY <1>1, <2>1, FS_Subset
  <2> QED
    BY <1>1, <2>2
<1>3. PICK k \in Unhandled : k = Earliest(Unhandled)
  BY <1>2, EarliestIs
<1>4. NextSize = loaded[k].size /\ loaded[k] \in Rows
  BY <1>1, <1>3 DEF NextSize
<1>5. <<NextSize, Reports[2]>> \notin handled
  BY <1>3, <1>4 DEF Unhandled
<1> QED
  BY <1>4, <1>5 DEF NextReport, Rows

(* A row that another report or size adds changes nothing of the others. *)
LEMMA RowsKept ==
  ASSUME HandledInv, AnalysisTypeOK, Unhandled # {}, NEW list \in Seq(Int),
         NEW size, NEW report, size = NextSize, report = NextReport,
         list = ListOf(<<size, report>>), ~OutOfRange(Len(list)),
         Write(list, Append(RowsBefore, Statistics(size, list))),
         handled' = handled \cup {<<size, report>>}, UNCHANGED <<args, loaded>>
  PROVE  \A done \in handled' : RowInv(done)'
<1>1. OutDir' = OutDir /\ Reports' = Reports
  BY DEF args, Reports, Network, OutDir
<1>2. \A done : ListOf(done)' = ListOf(done)
  BY ListOfFrame
<1>3. PICK rows : rows = Append(RowsBefore, Statistics(size, list))
  OBVIOUS
<1>4. /\ ReportFile(report) \in DOMAIN dirs'[OutDir]
      /\ dirs'[OutDir][ReportFile(report)] = rows
      /\ \A f \in DOMAIN dirs[OutDir] :
              f # ReportFile(report) /\ f # RecordsFile(size, report) =>
                 f \in DOMAIN dirs'[OutDir] /\ dirs'[OutDir][f] = dirs[OutDir][f]
  <2>1. Write(list, rows)
    BY <1>3
  <2> QED
    BY <2>1, Written
<1>5. /\ size \in Sizes /\ report \in {Reports[1], Reports[2]}
      /\ <<size, report>> \notin handled
  BY NextIsNew
<1>6. PICK last \in Statistic : last = Statistics(size, list) /\ last.size = size
  <2>1. Statistics(size, list) \in Statistic
    BY <1>5 DEF Statistic
  <2>2. Statistics(size, list).size = size
    BY DEF Statistics
  <2> QED
    BY <2>1, <2>2
<1>7. PICK before \in Seq(Statistic) :
        /\ before = RowsBefore
        /\ \A k \in DOMAIN before : <<before[k].size, report>> \in handled
        /\ \A done \in handled : done[2] = report =>
              \E k \in DOMAIN before :
                 /\ before[k] = Statistics(done[1], ListOf(done))
                 /\ \A j \in DOMAIN before : before[j].size = done[1] => j = k
  <2>1. CASE \E done \in handled : done[2] = report
    <3>1. RowsBefore = dirs[OutDir][ReportFile(report)]
      BY <2>1 DEF RowsBefore
    <3>2. \A done \in handled : done[2] = report =>
            /\ RowsBefore \in Seq(Statistic)
            /\ \A k \in DOMAIN RowsBefore : <<RowsBefore[k].size, report>> \in handled
            /\ \E k \in DOMAIN RowsBefore :
                 /\ RowsBefore[k] = Statistics(done[1], ListOf(done))
                 /\ \A j \in DOMAIN RowsBefore : RowsBefore[j].size = done[1] => j = k
      <4> SUFFICES ASSUME NEW done \in handled, done[2] = report
                   PROVE  /\ RowsBefore \in Seq(Statistic)
                          /\ \A k \in DOMAIN RowsBefore :
                               <<RowsBefore[k].size, report>> \in handled
                          /\ \E k \in DOMAIN RowsBefore :
                               /\ RowsBefore[k] = Statistics(done[1], ListOf(done))
                               /\ \A j \in DOMAIN RowsBefore :
                                    RowsBefore[j].size = done[1] => j = k
        OBVIOUS
      <4>1. RowInv(done)
        BY DEF HandledInv
      <4>2. PICK lines \in Seq(Statistic) :
              /\ lines = dirs[OutDir][ReportFile(done[2])]
              /\ \A k \in DOMAIN lines : <<lines[k].size, done[2]>> \in handled
              /\ \E k \in DOMAIN lines :
                   /\ lines[k] = Statistics(done[1], ListOf(done))
                   /\ \A j \in DOMAIN lines : lines[j].size = done[1] => j = k
        BY <4>1 DEF RowInv
      <4>3. lines = RowsBefore
        BY <3>1, <4>2
      <4> QED
        BY <4>2, <4>3
    <3> QED
      BY <2>1, <3>2
  <2>2. CASE \A done \in handled : done[2] # report
    <3>1. RowsBefore = <<>>
      BY <2>2 DEF RowsBefore
    <3>2. <<>> \in Seq(Statistic) /\ DOMAIN <<>> = {}
      OBVIOUS
    <3> QED
      BY <2>2, <3>1, <3>2
  <2> QED
    BY <2>1, <2>2
<1>8. /\ rows \in Seq(Statistic) /\ Len(before) \in Nat
      /\ DOMAIN before = 1 .. Len(before)
      /\ DOMAIN rows = 1 .. Len(before) + 1
      /\ \A k \in DOMAIN before : rows[k] = before[k]
      /\ rows[Len(before) + 1] = last
  BY <1>3, <1>6, <1>7
<1>9. \A k \in DOMAIN rows : <<rows[k].size, report>> \in handled'
  <2> SUFFICES ASSUME NEW k \in DOMAIN rows PROVE <<rows[k].size, report>> \in handled'
    OBVIOUS
  <2>1. CASE k \in DOMAIN before
    BY <2>1, <1>7, <1>8
  <2>2. CASE k = Len(before) + 1
    BY <2>2, <1>6, <1>8
  <2> QED
    BY <2>1, <2>2, <1>8
<1>10. ASSUME NEW done \in handled', done[2] = report
       PROVE  \E k \in DOMAIN rows :
                 /\ rows[k] = Statistics(done[1], ListOf(done))
                 /\ \A j \in DOMAIN rows : rows[j].size = done[1] => j = k
  <2>1. CASE done = <<size, report>>
    <3>1. \A j \in DOMAIN before : rows[j].size # size
      BY <1>5, <1>7, <1>8
    <3>2. Len(before) + 1 \in DOMAIN rows
      BY <1>8
    <3>3. rows[Len(before) + 1] = Statistics(done[1], ListOf(done))
      BY <1>6, <1>8, <2>1
    <3>4. \A j \in DOMAIN rows : j \in DOMAIN before \/ j = Len(before) + 1
      BY <1>8
    <3> QED
      BY <2>1, <3>1, <3>2, <3>3, <3>4
  <2>2. CASE done \in handled /\ done # <<size, report>>
    <3>1. PICK k \in DOMAIN before :
            /\ before[k] = Statistics(done[1], ListOf(done))
            /\ \A j \in DOMAIN before : before[j].size = done[1] => j = k
      BY <1>7, <1>10, <2>2
    <3>2. done[1] # size
      BY <1>10, <2>2 DEF AnalysisTypeOK
    <3>3. \A j \in DOMAIN rows : j \in DOMAIN before \/ j = Len(before) + 1
      BY <1>8
    <3>4. k \in DOMAIN rows /\ rows[k] = before[k]
      BY <1>8
    <3>5. \A j \in DOMAIN rows : rows[j].size = done[1] => j = k
      BY <1>6, <1>8, <3>1, <3>2, <3>3
    <3> QED
      BY <3>1, <3>4, <3>5
  <2> QED
    BY <2>1, <2>2
<1> SUFFICES ASSUME NEW done \in handled' PROVE RowInv(done)'
  OBVIOUS
<1>11. CASE done[2] = report
  <2>1. /\ ReportFile(done[2]) \in DOMAIN dirs'[OutDir]
        /\ rows = dirs'[OutDir][ReportFile(done[2])]
        /\ \A k \in DOMAIN rows : <<rows[k].size, done[2]>> \in handled'
    BY <1>4, <1>9, <1>11
  <2> QED
    BY <1>1, <1>2, <1>8, <1>10, <1>11, <2>1 DEF RowInv
<1>12. CASE done[2] # report
  <2>1. done \in handled
    BY <1>12
  <2>2. PICK lines \in Seq(Statistic) :
          /\ ReportFile(done[2]) \in DOMAIN dirs[OutDir]
          /\ lines = dirs[OutDir][ReportFile(done[2])]
          /\ \A k \in DOMAIN lines : <<lines[k].size, done[2]>> \in handled
          /\ \E k \in DOMAIN lines :
               /\ lines[k] = Statistics(done[1], ListOf(done))
               /\ \A j \in DOMAIN lines : lines[j].size = done[1] => j = k
    <3>1. RowInv(done)
      BY <2>1 DEF HandledInv
    <3> QED
      BY <3>1 DEF RowInv
  <2>3. ReportFile(done[2]) # ReportFile(report)
        /\ ReportFile(done[2]) # RecordsFile(size, report)
    BY <1>12 DEF ReportFile, RecordsFile
  <2>4. /\ ReportFile(done[2]) \in DOMAIN dirs'[OutDir]
        /\ lines = dirs'[OutDir][ReportFile(done[2])]
    BY <1>4, <2>2, <2>3
  <2>5. \A k \in DOMAIN lines : <<lines[k].size, done[2]>> \in handled'
    BY <2>2
  <2> QED
    BY <1>1, <1>2, <2>2, <2>4, <2>5 DEF RowInv
<1> QED
  BY <1>11, <1>12

(* The latencies written before stay in their files. *)
LEMMA RecordsKept ==
  ASSUME HandledInv, AnalysisTypeOK, NEW list, NEW rows, NEW size, NEW report,
         size = NextSize, report = NextReport, <<size, report>> \notin handled,
         Write(list, rows), UNCHANGED args, Network, NEW done \in handled
  PROVE  /\ RecordsFile(done[1], done[2]) \in DOMAIN dirs'[OutDir]
         /\ dirs'[OutDir][RecordsFile(done[1], done[2])] = ListOf(done)
<1>1. /\ RecordsFile(done[1], done[2]) \in DOMAIN dirs[OutDir]
      /\ dirs[OutDir][RecordsFile(done[1], done[2])] = ListOf(done)
  BY DEF HandledInv
<1>2. ~(done[1] = size /\ done[2] = report)
  BY DEF AnalysisTypeOK
<1>3. /\ RecordsFile(done[1], done[2]) # RecordsFile(size, report)
      /\ RecordsFile(done[1], done[2]) # ReportFile(report)
  BY <1>2 DEF RecordsFile, ReportFile
<1>4. \A f \in DOMAIN dirs[OutDir] :
              f # ReportFile(report) /\ f # RecordsFile(size, report) =>
                 f \in DOMAIN dirs'[OutDir] /\ dirs'[OutDir][f] = dirs[OutDir][f]
  BY Written
<1> QED
  BY <1>1, <1>3, <1>4

(* A report to which no row is added. *)
LEMMA RowsUnchanged ==
  ASSUME HandledInv, AnalysisTypeOK, NEW list, NEW rows, NEW size, NEW report,
         size = NextSize, report = NextReport, rows = RowsBefore,
         Write(list, rows), UNCHANGED <<args, loaded, handled>>
  PROVE  \A done \in handled : RowInv(done)'
<1> SUFFICES ASSUME NEW done \in handled PROVE RowInv(done)'
  OBVIOUS
<1>1. OutDir' = OutDir /\ Reports' = Reports
  BY DEF args, Reports, Network, OutDir
<1>2. ListOf(done)' = ListOf(done)
  BY ListOfFrame
<1>3. PICK lines \in Seq(Statistic) :
        /\ ReportFile(done[2]) \in DOMAIN dirs[OutDir]
        /\ lines = dirs[OutDir][ReportFile(done[2])]
        /\ \A k \in DOMAIN lines : <<lines[k].size, done[2]>> \in handled
        /\ \E k \in DOMAIN lines :
             /\ lines[k] = Statistics(done[1], ListOf(done))
             /\ \A j \in DOMAIN lines : lines[j].size = done[1] => j = k
  <2>1. RowInv(done)
    BY DEF HandledInv
  <2> QED
    BY <2>1 DEF RowInv
<1>4. /\ ReportFile(report) \in DOMAIN dirs'[OutDir]
      /\ dirs'[OutDir][ReportFile(report)] = rows
      /\ \A f \in DOMAIN dirs[OutDir] :
              f # ReportFile(report) /\ f # RecordsFile(size, report) =>
                 f \in DOMAIN dirs'[OutDir] /\ dirs'[OutDir][f] = dirs[OutDir][f]
  BY Written
<1>5. /\ ReportFile(done[2]) \in DOMAIN dirs'[OutDir]
      /\ lines = dirs'[OutDir][ReportFile(done[2])]
  <2>1. CASE done[2] = report
    <3>1. rows = dirs[OutDir][ReportFile(report)]
      BY <2>1 DEF RowsBefore
    <3> QED
      BY <1>3, <1>4, <2>1, <3>1
  <2>2. CASE done[2] # report
    <3>1. /\ ReportFile(done[2]) # ReportFile(report)
          /\ ReportFile(done[2]) # RecordsFile(size, report)
      BY <2>2 DEF ReportFile, RecordsFile
    <3> QED
      BY <1>3, <1>4, <3>1
  <2> QED
    BY <2>1, <2>2
<1> QED
  BY <1>1, <1>2, <1>3, <1>5 DEF RowInv

(* A report step that writes changes no record file. *)
LEMMA WriteKeeps ==
  ASSUME AnalysisInv, phase = "report", NEW list, NEW rows,
         Write(list, rows), UNCHANGED <<args, runs, to_load, loaded>>,
         phase' \in {"report", "failed"}
  PROVE  /\ dirs' = [d \in {"input", "output"} |-> dirs'[d]]
         /\ Programs' = Programs
         /\ \A f \in Programs : dirs'["input"][f] = dirs["input"][f]
         /\ ProgramsInv'
         /\ OwnFilesInv'
         /\ to_load' = {}
         /\ \E off \in [Programs' \ to_load' -> 0 .. Len(loaded')] : Placed(off)'
<1> USE DEF AnalysisInv
<1>1. PICK size, report : size = NextSize /\ report = NextReport
  OBVIOUS
<1>2. /\ dirs' = [d \in {"input", "output"} |-> dirs'[d]]
      /\ \A f \in DOMAIN dirs'["input"] :
              \/ f \in DOMAIN dirs["input"]
              \/ f = ReportFile(report)
              \/ f = RecordsFile(size, report) /\ Network /\ output = "input"
      /\ \A f \in DOMAIN dirs["input"] :
              f # ReportFile(report) /\ f # RecordsFile(size, report) =>
                 f \in DOMAIN dirs'["input"] /\ dirs'["input"][f] = dirs["input"][f]
  BY <1>1, Written
<1>3. /\ ~IsRecordFile(ReportFile(report)) /\ ~IsRecordFile(RecordsFile(size, report))
      /\ ReportFile(report)[1] = "report"
  BY DEF ReportFile, RecordsFile, IsRecordFile
<1>4. Programs' = Programs /\ \A f \in Programs : dirs'["input"][f] = dirs["input"][f]
  <2>1. \A f \in Programs : /\ f \in DOMAIN dirs["input"]
                            /\ f # ReportFile(report) /\ f # RecordsFile(size, report)
    BY <1>3 DEF Programs
  <2>2. \A f \in Programs : f \in Programs' /\ dirs'["input"][f] = dirs["input"][f]
    BY <1>2, <2>1 DEF Programs, IsRecordFile
  <2>3. \A f \in Programs' : f \in Programs
    BY <1>2, <1>3 DEF Programs, IsRecordFile
  <2> QED
    BY <2>2, <2>3
<1>5. ProgramsInv'
  <2>1. [f \in Programs' |-> dirs'["input"][f]] = [f \in Programs |-> dirs["input"][f]]
    BY <1>4
  <2> QED
    BY <2>1 DEF ProgramsInv
<1>6. OwnFilesInv'
  <2> SUFFICES ASSUME NEW f \in DOMAIN dirs'["input"], f[1] = "records"
               PROVE  /\ Network' /\ output' = "input"
                      /\ runs' > 1 \/ phase' \in {"report", "done", "failed"}
    BY DEF OwnFilesInv
  <2>1. f # ReportFile(report)
    BY <1>3
  <2>2. Network /\ output = "input"
    BY <1>2, <2>1 DEF OwnFilesInv
  <2> QED
    BY <2>2 DEF Network, args
<1>7. to_load = {} /\ \E off \in [Programs \ to_load -> 0 .. Len(loaded)] : Placed(off)
  BY DEF LoadInv, AllLoaded, Loading
<1>8. PICK off \in [Programs \ to_load -> 0 .. Len(loaded)] : Placed(off)
  BY <1>7
<1>9. Placed(off)'
  BY <1>4, <1>8 DEF Placed
<1> QED
  BY <1>2, <1>4, <1>5, <1>6, <1>7, <1>8, <1>9

(* Report: a row is added, or an exception ends the run. *)
LEMMA ReportInv ==
  ASSUME AnalysisInv, Report
  PROVE  AnalysisInv'
<1>0. /\ phase = "report" /\ Unhandled # {} /\ UNCHANGED <<args, runs, to_load, loaded>>
      /\ failure = "none"
  BY DEF Report, AnalysisInv, AnalysisTypeOK
<1>1. /\ AnalysisTypeOK /\ ProgramsInv /\ OwnFilesInv /\ LoadInv /\ HandledInv /\ FailsInv
  BY DEF AnalysisInv
<1>2. Reports' = Reports /\ Network' = Network
  BY <1>0 DEF args, Reports, Network
<1>3. CASE output = "missing"
  <2>1. /\ phase' = "failed" /\ failure' = "FileNotFoundError"
        /\ UNCHANGED <<dirs, handled>>
    BY <1>3 DEF Report, Fail
  <2>2. AnalysisTypeOK'
    BY <1>0, <1>1, <1>2, <2>1 DEF AnalysisTypeOK, args
  <2>3. Programs' = Programs /\ Loadable' = Loadable /\ ProgramsInv'
    BY <1>1, <2>1, ProgramsFrame
  <2>4. OwnFilesInv'
    BY <1>0, <1>1, <1>2, <2>1 DEF OwnFilesInv, args
  <2>5. LoadInv'
    <3>1. PICK off \in [Programs \ to_load -> 0 .. Len(loaded)] : Placed(off)
      BY <1>0, <1>1 DEF LoadInv, Loading
    <3>2. Placed(off)'
      BY <1>0, <2>1, <2>3, <3>1 DEF Placed
    <3>3. to_load = {}
      BY <1>0, <1>1 DEF LoadInv, AllLoaded
    <3> QED
      BY <1>0, <2>1, <2>3, <3>1, <3>2, <3>3 DEF LoadInv, Loading, AllLoaded
  <2>6. HandledInv'
    BY <1>0, <1>1, <2>1, HandledFrame
  <2>7. FailsInv'
    BY <1>0, <1>3, <2>1 DEF FailsInv, args
  <2> QED
    BY <2>2, <2>3, <2>4, <2>5, <2>6, <2>7 DEF AnalysisInv
<1>4. CASE output # "missing"
  <2>0. dump_statistics_result
    BY <1>4 DEF Report
  <2>1. PICK size, report : size = NextSize /\ report = NextReport
    OBVIOUS
  <2>2. PICK list : list = cal_latency(size, EndOf(report))
    OBVIOUS
  <2>3. list \in Seq(Int)
    BY <1>1, <2>2, ListIs
  <2>4. list = ListOf(<<size, report>>)
    BY <2>2 DEF ListOf
  <2>5. /\ size \in Sizes /\ report \in {Reports[1], Reports[2]}
        /\ <<size, report>> \notin handled
        /\ report # Reports[1] => <<size, Reports[1]>> \in handled
    BY <1>0, <1>1, <2>1, NextIsNew
  <2>6. CASE OutOfRange(Len(list))
    <3>1. PICK rows : rows = RowsBefore
      OBVIOUS
    <3>2. /\ Write(list, rows) /\ phase' = "failed" /\ failure' = "IndexError"
          /\ handled' = handled
      BY <2>0, <2>1, <2>2, <2>6, <3>1 DEF dump_statistics_result, Fail
    <3>3. /\ dirs' = [d \in {"input", "output"} |-> dirs'[d]]
          /\ ProgramsInv' /\ OwnFilesInv' /\ to_load' = {}
          /\ \E off \in [Programs' \ to_load' -> 0 .. Len(loaded')] : Placed(off)'
      BY <1>0, <3>2, WriteKeeps
    <3>4. AnalysisTypeOK'
      BY <1>0, <1>1, <1>2, <3>2, <3>3 DEF AnalysisTypeOK, args
    <3>5. LoadInv'
      BY <3>2, <3>3 DEF LoadInv, Loading, AllLoaded
    <3>6. HandledInv'
      <4>1. \A done \in handled : RowInv(done)'
        BY <1>0, <1>1, <2>1, <2>5, <3>1, <3>2, RowsUnchanged
      <4>2. \A done \in handled : ListOf(done)' = ListOf(done)
        BY <1>0, ListOfFrame
      <4>3. ASSUME NEW done \in handled, Network
            PROVE  /\ RecordsFile(done[1], done[2]) \in DOMAIN dirs'[OutDir]
                   /\ dirs'[OutDir][RecordsFile(done[1], done[2])] = ListOf(done)
        BY <1>0, <1>1, <2>1, <2>5, <3>2, <4>3, RecordsKept
      <4>4. OutDir' = OutDir
        BY <1>0 DEF OutDir, args
      <4> QED
        BY <1>0, <1>1, <1>2, <3>2, <4>1, <4>2, <4>3, <4>4 DEF HandledInv
    <3>7. FailsInv'
      <4>1. /\ Unhandled' = Unhandled
            /\ cal_latency(NextSize, EndOf(NextReport))'
                  = cal_latency(NextSize, EndOf(NextReport))
        BY <1>0, <3>2, NextFrame
      <4> QED
        BY <1>0, <2>1, <2>2, <2>6, <3>2, <4>1 DEF FailsInv
    <3> QED
      BY <3>3, <3>4, <3>5, <3>6, <3>7 DEF AnalysisInv
  <2>7. CASE ~OutOfRange(Len(list))
    <3>1. PICK rows : rows = Append(RowsBefore, Statistics(size, list))
      OBVIOUS
    <3>2. /\ Write(list, rows) /\ UNCHANGED <<phase, failure>>
          /\ handled' = handled \cup {<<size, report>>}
      BY <2>0, <2>1, <2>2, <2>7, <3>1 DEF dump_statistics_result
    <3>3. /\ dirs' = [d \in {"input", "output"} |-> dirs'[d]]
          /\ ProgramsInv' /\ OwnFilesInv' /\ to_load' = {}
          /\ \E off \in [Programs' \ to_load' -> 0 .. Len(loaded')] : Placed(off)'
      BY <1>0, <3>2, WriteKeeps
    <3>4. AnalysisTypeOK'
      BY <1>0, <1>1, <1>2, <2>5, <3>2, <3>3 DEF AnalysisTypeOK, args
    <3>5. LoadInv'
      BY <1>0, <3>2, <3>3 DEF LoadInv, Loading, AllLoaded
    <3>6. HandledInv'
      <4>1. \A done \in handled' : RowInv(done)'
        BY <1>0, <1>1, <2>1, <2>3, <2>4, <2>7, <3>1, <3>2, RowsKept
      <4>2. \A done \in handled' : done \in handled \/ done = <<size, report>>
        BY <3>2
      <4>3. \A done \in handled' : ~OutOfRange(Len(ListOf(done)))
        BY <1>1, <2>4, <2>7, <4>2 DEF HandledInv
      <4>4. \A done \in handled' : ListOf(done)' = ListOf(done)
        BY <1>0, ListOfFrame
      <4>5. \A done \in handled' : <<done[1], Reports[1]>> \in handled'
        BY <1>1, <2>5, <3>2, <4>2 DEF HandledInv
      <4>6. ASSUME NEW done \in handled', Network
            PROVE  /\ RecordsFile(done[1], done[2]) \in DOMAIN dirs'[OutDir]
                   /\ dirs'[OutDir][RecordsFile(done[1], done[2])] = ListOf(done)
        <5>1. CASE done = <<size, report>>
          BY <1>0, <1>1, <2>1, <2>4, <3>2, <4>6, <5>1, Written
        <5>2. CASE done \in handled
          BY <1>0, <1>1, <2>1, <2>5, <3>2, <4>6, <5>2, RecordsKept
        <5> QED
          BY <4>2, <5>1, <5>2
      <4>7. OutDir' = OutDir
        BY <1>0 DEF OutDir, args
      <4> QED
        BY <1>0, <1>2, <3>2, <4>1, <4>3, <4>4, <4>5, <4>6, <4>7 DEF HandledInv
    <3>7. FailsInv'
      BY <1>0, <3>2 DEF FailsInv
    <3> QED
      BY <3>3, <3>4, <3>5, <3>6, <3>7 DEF AnalysisInv
  <2> QED
    BY <2>6, <2>7
<1> QED
  BY <1>3, <1>4

(* Every step keeps the invariant. *)
LEMMA AnalysisNextInv == AnalysisInv /\ [AnalysisNext]_analysisvars => AnalysisInv'
<1> SUFFICES ASSUME AnalysisInv, [AnalysisNext]_analysisvars PROVE AnalysisInv'
  OBVIOUS
<1>1. CASE parse_args
  BY <1>1, ParseArgsInv
<1>2. CASE load_record_list_dict
  BY <1>2, LoadFileInv
<1>3. CASE PrepareOutput
  BY <1>3, PrepareOutputInv
<1>4. CASE Report
  BY <1>4, ReportInv
<1>5. CASE CloseReports
  BY <1>5, CloseReportsInv
<1>6. CASE RunAgain
  BY <1>6, RunAgainInv
<1>7. CASE UNCHANGED analysisvars
  BY <1>7, AnalysisStutterInv
<1> QED
  BY <1>1, <1>2, <1>3, <1>4, <1>5, <1>6, <1>7 DEF AnalysisNext, Finished

(* It holds in every state of an analysis. *)
LEMMA AnalysisInductive == AnalysisSpec => []AnalysisInv
<1>1. AnalysisInit => AnalysisInv
  BY AnalysisInitInv
<1>2. AnalysisInv /\ [AnalysisNext]_analysisvars => AnalysisInv'
  BY AnalysisNextInv
<1> QED
  BY <1>1, <1>2, PTL DEF AnalysisSpec

(* The variables of an analysis keep their types: its rows are rows of the *)
(* programs, whatever other files load_record_list_dict comes across.      *)
THEOREM AnalysisTypeCorrect == AnalysisSpec => []AnalysisTypeOK
<1>1. AnalysisInv => AnalysisTypeOK
  BY DEF AnalysisInv
<1> QED
  BY <1>1, AnalysisInductive, PTL

-----------------------------------------------------------------------------
(* The rows and lists of the reports, with the latencies they stand for. *)
LEMMA HandledFacts ==
  ASSUME AnalysisInv, NEW done \in handled, NEW lines, NEW L,
         lines = dirs[OutDir][ReportFile(done[2])], L = Latencies(done[1], done[2])
  PROVE  \E list \in Seq(Int), k \in DOMAIN lines :
            /\ ~OutOfRange(Len(list))
            /\ RowsFor(done[1], done[2]) = {k}
            /\ lines[k] = Statistics(done[1], list)
            /\ Network => dirs[OutDir][RecordsFile(done[1], done[2])] = list
            /\ \E h : ListsThem(h, list, L)
<1>1. AnalysisTypeOK /\ ProgramsInv /\ HandledInv
  BY DEF AnalysisInv
<1>2. to_load = {} /\ \E off \in [Programs \ to_load -> 0 .. Len(loaded)] : Placed(off)
  <2>1. AllLoaded
    BY DEF AnalysisInv, LoadInv
  <2>2. Loading
    BY <2>1, <1>1 DEF AllLoaded, Loading, AnalysisTypeOK
  <2> QED
    BY <2>1, <2>2 DEF AnalysisInv, LoadInv
<1>3. PICK off : Placed(off)
  BY <1>2
<1>4. PICK list : list = ListOf(done)
  OBVIOUS
<1>5. list = cal_latency(done[1], EndOf(done[2]))
  BY <1>4 DEF ListOf
<1>6. /\ list \in Seq(Int)
      /\ \E h : ListsThem(h, list, L)
  BY <1>1, <1>2, <1>3, <1>5, ListIsLatencies
<1>7. PICK k \in DOMAIN lines :
         /\ lines[k] = Statistics(done[1], ListOf(done))
         /\ \A j \in DOMAIN lines : lines[j].size = done[1] => j = k
  <2>1. RowInv(done)
    BY <1>1 DEF HandledInv
  <2> QED
    BY <2>1 DEF RowInv
<1>8. RowsFor(done[1], done[2]) = {k}
  <2>1. lines[k].size = done[1]
    BY <1>7 DEF Statistics
  <2>2. RowsFor(done[1], done[2]) = {j \in DOMAIN lines : lines[j].size = done[1]}
    BY DEF RowsFor
  <2> QED
    BY <1>7, <2>1, <2>2
<1>9. ~OutOfRange(Len(list))
  BY <1>1, <1>4 DEF HandledInv
<1>10. Network => dirs[OutDir][RecordsFile(done[1], done[2])] = list
  BY <1>1, <1>4 DEF HandledInv
<1> QED
  BY <1>4, <1>6, <1>7, <1>8, <1>9, <1>10

(* The invariant implies the three properties. *)
LEMMA PairOnce == AnalysisInv => EachPairOnce
<1> SUFFICES ASSUME AnalysisInv PROVE EachPairOnce
  OBVIOUS
<1>1. ASSUME phase = "done", NEW r \in AllRows
      PROVE  <<r.size, Reports[1]>> \in handled /\ <<r.size, Reports[2]>> \in handled
  <2>1. /\ Unhandled = {} /\ to_load = {} /\ HandledInv
        /\ \E off \in [Programs \ to_load -> 0 .. Len(loaded)] : Placed(off)
    BY <1>1 DEF AnalysisInv, HandledInv, LoadInv, AllLoaded, Loading
  <2>2. PICK off : Placed(off)
    BY <2>1
  <2>3. PICK f \in Programs : \E j \in DOMAIN dirs["input"][f] : r = dirs["input"][f][j]
    BY DEF AllRows
  <2>4. PICK k \in DOMAIN loaded : loaded[k] = r
    BY <2>1, <2>2, <2>3 DEF Placed
  <2>5. <<r.size, Reports[2]>> \in handled
    BY <2>1, <2>4 DEF Unhandled
  <2>6. \A done \in handled : <<done[1], Reports[1]>> \in handled
    BY <2>1 DEF HandledInv
  <2> QED
    BY <2>5, <2>6
<1>2. ASSUME NEW done \in handled, NEW lines, NEW records, NEW L,
             lines = dirs[OutDir][ReportFile(done[2])], L = Latencies(done[1], done[2]),
             records = dirs[OutDir][RecordsFile(done[1], done[2])]
      PROVE  /\ Cardinality(RowsFor(done[1], done[2])) = 1
             /\ \A k \in RowsFor(done[1], done[2]) : lines[k].n = Cardinality(L)
             /\ Network => \A v : ListEqual(records, v) = SetEqual(L, v)
  <2>1. PICK list \in Seq(Int), k \in DOMAIN lines :
            /\ RowsFor(done[1], done[2]) = {k}
            /\ lines[k] = Statistics(done[1], list)
            /\ Network => dirs[OutDir][RecordsFile(done[1], done[2])] = list
            /\ \E h : ListsThem(h, list, L)
    BY <1>2, HandledFacts
  <2>2. PICK h : ListsThem(h, list, L)
    BY <2>1
  <2>3. Cardinality(RowsFor(done[1], done[2])) = 1
    BY <2>1, FS_Singleton
  <2>4. lines[k].n = Len(list)
    BY <2>1 DEF Statistics
  <2>5. Cardinality(L) = Len(list) /\ \A v : ListEqual(list, v) = SetEqual(L, v)
    BY <2>2, SameCounts
  <2>6. Network => records = list
    BY <1>2, <2>1
  <2> QED
    BY <2>1, <2>3, <2>4, <2>5, <2>6
<1>3. \A r \in AllRows : \A n \in {1, 2} : phase = "done" => <<r.size, Reports[n]>> \in handled
  BY <1>1
<1>4. ASSUME NEW done \in handled
      PROVE  LET latencies == Latencies(done[1], done[2])
                 lines     == dirs[OutDir][ReportFile(done[2])]
                 list      == dirs[OutDir][RecordsFile(done[1], done[2])]
             IN  /\ Cardinality(RowsFor(done[1], done[2])) = 1
                 /\ \A k \in RowsFor(done[1], done[2]) : lines[k].n = Cardinality(latencies)
                 /\ Network =>
                      \A v \in {list[k] : k \in DOMAIN list} \cup {l[2] : l \in latencies} :
                          Cardinality({k \in DOMAIN list : list[k] = v}) =
                              Cardinality({l \in latencies : l[2] = v})
  <2>1. PICK lines, records, L :
            /\ lines = dirs[OutDir][ReportFile(done[2])]
            /\ records = dirs[OutDir][RecordsFile(done[1], done[2])]
            /\ L = Latencies(done[1], done[2])
    OBVIOUS
  <2>2. /\ Cardinality(RowsFor(done[1], done[2])) = 1
        /\ \A k \in RowsFor(done[1], done[2]) : lines[k].n = Cardinality(L)
        /\ Network => \A v : ListEqual(records, v) = SetEqual(L, v)
    BY <1>2, <2>1
  <2>3. Network => \A v : Cardinality({k \in DOMAIN records : records[k] = v}) =
                              Cardinality({l \in L : l[2] = v})
    BY <2>2 DEF ListEqual, SetEqual
  <2> QED
    BY <2>1, <2>2, <2>3
<1> QED
  BY <1>3, <1>4, Zenon DEF EachPairOnce

LEMMA DecilesAre == AnalysisInv => Deciles
<1> SUFFICES ASSUME AnalysisInv, NEW done \in handled,
                    NEW k \in RowsFor(done[1], done[2]), NEW p \in 0 .. 10
             PROVE  LET latencies == Latencies(done[1], done[2])
                        lines     == dirs[OutDir][ReportFile(done[2])]
                        q         == lines[k].quantiles[p]
                        below     == Cardinality({l \in latencies : l[2] <= q})
                        above     == Cardinality({l \in latencies : l[2] >= q})
                    IN  /\ \E l \in latencies : l[2] = q
                        /\ 10 * below >= p * lines[k].n + (IF p = 10 THEN 0 ELSE 5)
                        /\ 10 * above >= (10 - p) * lines[k].n - 5
  BY Zenon DEF Deciles
<1>0. PICK L, lines : /\ L = Latencies(done[1], done[2])
                      /\ lines = dirs[OutDir][ReportFile(done[2])]
  OBVIOUS
<1>1. PICK list \in Seq(Int), row \in DOMAIN lines :
          /\ ~OutOfRange(Len(list))
          /\ RowsFor(done[1], done[2]) = {row}
          /\ lines[row] = Statistics(done[1], list)
          /\ \E h : ListsThem(h, list, L)
  BY <1>0, HandledFacts
<1>2. PICK h : ListsThem(h, list, L)
  BY <1>1
<1>3. k = row /\ lines[k] = Statistics(done[1], list)
  BY <1>1
<1>4. lines[k].n = Len(list)
  BY <1>3 DEF Statistics
<1>5. PICK q : q = lines[k].quantiles[p] /\ q = Statistics(done[1], list).quantiles[p]
  BY <1>3
<1>6. /\ \E j \in DOMAIN list : list[j] = q
      /\ 10 * ListBelow(list, q) >= p * Len(list) + (IF p = 10 THEN 0 ELSE 5)
      /\ 10 * ListAbove(list, q) >= (10 - p) * Len(list) - 5
  BY <1>1, <1>5, ListDeciles
<1>7. ListBelow(list, q) = SetBelow(L, q) /\ ListAbove(list, q) = SetAbove(L, q)
  BY <1>2, SameCounts
<1>8. \E l \in L : l[2] = q
  <2>1. PICK j \in 1 .. Len(list) : list[j] = q
    BY <1>6
  <2>2. h[j] \in L /\ h[j][2] = q
    BY <1>2, <2>1 DEF ListsThem, OneToOne
  <2> QED
    BY <2>2
<1> QED
  BY <1>0, <1>4, <1>5, <1>6, <1>7, <1>8 DEF SetBelow, SetAbove

LEMMA FailsOnlyIs == AnalysisInv => FailsOnly
<1> SUFFICES ASSUME AnalysisInv PROVE FailsOnly
  OBVIOUS
<1>1. ASSUME failure = "IndexError"
      PROVE  Cardinality(Latencies(NextSize, NextReport)) < 5
  <2>1. AnalysisTypeOK /\ ProgramsInv
    BY DEF AnalysisInv
  <2>2. OutOfRange(Len(cal_latency(NextSize, EndOf(NextReport))))
    BY <1>1 DEF AnalysisInv, FailsInv
  <2>3. to_load = {} /\ \E off \in [Programs \ to_load -> 0 .. Len(loaded)] : Placed(off)
    BY <1>1 DEF AnalysisInv, LoadInv, AllLoaded, Loading, AnalysisTypeOK
  <2>4. PICK off : Placed(off)
    BY <2>3
  <2>5. PICK size, report, list, L :
            /\ size = NextSize /\ report = NextReport
            /\ list = cal_latency(size, EndOf(report))
            /\ L = Latencies(size, report)
    OBVIOUS
  <2>6. /\ list \in Seq(Int) /\ Len(list) \in Nat
        /\ \E h : ListsThem(h, list, L)
    BY <2>1, <2>3, <2>4, <2>5, ListIsLatencies
  <2>7. PICK h : ListsThem(h, list, L)
    BY <2>6
  <2>8. Cardinality(L) = Len(list)
    BY <2>6, <2>7, SameCounts
  <2>9. OutOfRange(Len(list))
    BY <2>2, <2>5
  <2>10. Len(list) < 5
    BY <2>6, <2>9, OutOfRangeIs
  <2> QED
    BY <2>5, <2>8, <2>10
<1> QED
  BY <1>1 DEF FailsOnly, AnalysisInv, FailsInv

(***************************************************************************)
(* The keys of record_data_dict and the entries that are set last          *)
(* identify a message: a report has one row for each size, over the        *)
(* latencies of its messages, each once, in whatever order the files were  *)
(* loaded and however often the scripts were run over them.                *)
(***************************************************************************)
THEOREM EachPairOnceHolds == AnalysisSpec => []EachPairOnce
BY PairOnce, AnalysisInductive, PTL

(***************************************************************************)
(* dump_statistics_result: the k-th percentile is a latency with k percent *)
(* at or below it and the rest at or above it, to within half a message,   *)
(* for every number of latencies and whichever way the ties are rounded.   *)
(***************************************************************************)
THEOREM DecilesHold == AnalysisSpec => []Deciles
BY DecilesAre, AnalysisInductive, PTL

(***************************************************************************)
(* An analysis fails only over fewer than five latencies (the index of the *)
(* last quantile but one), in a directory that does not exist, or when it  *)
(* loads the records_ files that an earlier one left in its input.         *)
(***************************************************************************)
THEOREM FailsOnlyHolds == AnalysisSpec => []FailsOnly
BY FailsOnlyIs, AnalysisInductive, PTL
=============================================================================
