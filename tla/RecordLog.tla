------------------------------ MODULE RecordLog ------------------------------
(***************************************************************************)
(* nb_init_components and the way of a record into the file: processes     *)
(* that start, their threads that fill slots of a ring each, the backend   *)
(* thread of a process that writes what is committed, and the clean-up.    *)
(* A process may be killed at any point and started again.  All write to   *)
(* one file: it is given by --record.path, or named after the program and  *)
(* the second in which it was started.                                     *)
(*                                                                         *)
(* The ring is a library's: its writer waits while it is full, and the     *)
(* clean-up of a thread waits until the backend has written its records.   *)
(***************************************************************************)
EXTENDS Naturals, Sequences

CONSTANTS Procs,        \* processes with one record file
          Single,       \* those that record in their main thread only, as hello
          Threads,      \* threads of the other processes that record
          Main,         \* the one that joins the others
          Capacity,     \* capacity of a ring; 2048 in the code
          NumRecs,      \* bound: records of a thread
          MaxStarts     \* bound: starts of all processes together

ASSUME RecordAssumption ==
    /\ Main \in Threads /\ Single \subseteq Procs
    /\ {Capacity, NumRecs, MaxStarts} \subseteq Nat \ {0}

VARIABLES pc,         \* where the main thread of a process is
          starts,     \* the number of its last start, 0 before the first
          log_ctx,    \* the log's context of the main thread
          need_write_head,
          exists,     \* there is a file
          disk,       \* its lines
          slot,       \* the slot a thread was given: "none", "prepared", "filled"
          committed,  \* records a thread has committed
          ring,       \* those the backend has not written
          cleaned,    \* threads whose record context is cleaned up
          in_turn     \* no start fell into another's, no kill between file and head

file     == <<exists, disk, in_turn>>
starting == <<starts, log_ctx, need_write_head>>
rings    == <<slot, committed, ring, cleaned>>
vars     == <<pc, starting, file, rings>>

Records == [proc : Procs, start : 1 .. MaxStarts, thread : Threads, n : 1 .. NumRecs,
            whole : BOOLEAN]

Lines == {<<"head">>} \cup ({"record"} \X Records)

Steps == {"off", "args", "log", "check", "open", "head", "backend", "socket", "run", "over"}

TypeOK ==
    /\ pc \in [Procs -> Steps]
    /\ starts \in [Procs -> 0 .. MaxStarts]
    /\ log_ctx \in [Procs -> {"none", "live", "cleaned"}]
    /\ need_write_head \in [Procs -> BOOLEAN]
    /\ exists \in BOOLEAN
    /\ disk \in Seq(Lines)
    /\ slot \in [Procs -> [Threads -> {"none", "prepared", "filled"}]]
    /\ committed \in [Procs -> [Threads -> 0 .. NumRecs]]
    /\ ring \in [Procs -> [Threads -> Seq(Records)]]
    /\ \A p \in Procs, t \in Threads : Len(ring[p][t]) <= Capacity
    /\ cleaned \in [Procs -> SUBSET Threads]
    /\ in_turn \in BOOLEAN

ThreadsOf(p) == IF p \in Single THEN {Main} ELSE Threads

NoThreads(x) == [p \in Procs |-> [t \in Threads |-> x]]

Init ==
    /\ pc = [p \in Procs |-> "off"]
    /\ starts = [p \in Procs |-> 0]
    /\ log_ctx = [p \in Procs |-> "none"]
    /\ need_write_head = [p \in Procs |-> FALSE]
    /\ exists = FALSE
    /\ disk = <<>>
    /\ slot = NoThreads("none")
    /\ committed = NoThreads(0)
    /\ ring = NoThreads(<<>>)
    /\ cleaned = [p \in Procs |-> {}]
    /\ in_turn = TRUE

-----------------------------------------------------------------------------
(* nb_init_components *)
Goto(p, step) == pc' = [pc EXCEPT ![p] = step]

Start(p) ==
    /\ pc[p] \in {"off", "over"}
    /\ Goto(p, "args")
    /\ \E n \in 1 .. MaxStarts :
          /\ \A q \in Procs : starts[q] < n
          /\ n = 1 \/ \E q \in Procs : starts[q] = n - 1
          /\ starts' = [starts EXCEPT ![p] = n]
    /\ log_ctx' = [log_ctx EXCEPT ![p] = "none"]
    /\ need_write_head' = [need_write_head EXCEPT ![p] = FALSE]
    /\ slot' = [slot EXCEPT ![p] = [t \in Threads |-> "none"]]
    /\ committed' = [committed EXCEPT ![p] = [t \in Threads |-> 0]]
    /\ ring' = [ring EXCEPT ![p] = [t \in Threads |-> <<>>]]
    /\ cleaned' = [cleaned EXCEPT ![p] = {}]
    /\ UNCHANGED file

nb_parse_args(p) ==
    /\ pc[p] = "args"
    /\ Goto(p, "log") \/ Goto(p, "over")
    /\ UNCHANGED <<starting, file, rings>>

nb_log_init(p) ==
    /\ pc[p] = "log"
    /\ \/ Goto(p, "check") /\ log_ctx' = [log_ctx EXCEPT ![p] = "live"]
       \/ Goto(p, "over") /\ UNCHANGED log_ctx
    /\ UNCHANGED <<starts, need_write_head, file, rings>>

GiveUp(p) == Goto(p, "over") /\ log_ctx' = [log_ctx EXCEPT ![p] = "cleaned"]

(* Between the look at the path and the head of another process. *)
HeadToCome(q) == pc[q] \in {"open", "head"} /\ need_write_head[q]

CheckPath(p) ==
    /\ pc[p] = "check"
    /\ Goto(p, "open")
    /\ need_write_head' = [need_write_head EXCEPT ![p] = ~exists]
    /\ in_turn' = (in_turn /\ \A q \in Procs : ~HeadToCome(q))
    /\ UNCHANGED <<starts, log_ctx, exists, disk, rings>>

nb_record_open_file(p) ==
    /\ pc[p] = "open"
    /\ \/ Goto(p, "head") /\ exists' = TRUE /\ UNCHANGED log_ctx
       \/ GiveUp(p) /\ UNCHANGED exists
    /\ UNCHANGED <<starts, need_write_head, disk, in_turn, rings>>

(* Mutant: the path is looked at after the file was opened. *)
needed_after_open(p) == ~exists

HeadNeeded(p) == need_write_head[p]

WriteHead(p) ==
    /\ pc[p] = "head"
    /\ Goto(p, "backend")
    /\ disk' = IF HeadNeeded(p) THEN Append(disk, <<"head">>) ELSE disk
    /\ UNCHANGED <<starting, exists, in_turn, rings>>

muggle_ma_ring_backend_run(p) ==
    /\ pc[p] = "backend"
    /\ Goto(p, "socket")
    /\ UNCHANGED <<starting, file, rings>>

muggle_socket_lib_init(p) ==
    /\ pc[p] = "socket"
    /\ \/ Goto(p, "run") /\ UNCHANGED log_ctx
       \/ GiveUp(p)
    /\ UNCHANGED <<starts, need_write_head, file, rings>>

-----------------------------------------------------------------------------
(* NETBENCH_RECORD, in a thread of a process *)
nb_record_prepare(p, t) ==
    /\ pc[p] = "run"
    /\ slot[p][t] = "none"
    /\ t \notin cleaned[p]
    /\ committed[p][t] < NumRecs
    /\ Len(ring[p][t]) < Capacity
    /\ slot' = [slot EXCEPT ![p][t] = "prepared"]
    /\ UNCHANGED <<pc, starting, file, committed, ring, cleaned>>

Fill(p, t) ==
    /\ pc[p] = "run"
    /\ slot[p][t] = "prepared"
    /\ slot' = [slot EXCEPT ![p][t] = "filled"]
    /\ UNCHANGED <<pc, starting, file, committed, ring, cleaned>>

(* Mutant: committed before the fields are written. *)
commit_prepared(p, t) == slot[p][t] # "none"

MayCommit(p, t) == slot[p][t] = "filled"

nb_record_commit(p, t) ==
    /\ pc[p] = "run"
    /\ MayCommit(p, t)
    /\ slot' = [slot EXCEPT ![p][t] = "none"]
    /\ committed' = [committed EXCEPT ![p][t] = @ + 1]
    /\ ring' = [ring EXCEPT ![p][t] =
                  Append(@, [proc |-> p, start |-> starts[p], thread |-> t,
                             n |-> committed[p][t] + 1, whole |-> slot[p][t] = "filled"])]
    /\ UNCHANGED <<pc, starting, file, cleaned>>

TakeSlot(r) == Tail(r)

(* Mutant: the last record stays until the next one comes. *)
pending_but_last(p, t) == Len(ring[p][t]) > 1

Pending(p, t) == ring[p][t] # <<>>

(* The backend thread: one line, flushed. *)
nb_ts_record_callback(p, t) ==
    /\ pc[p] \in {"socket", "run"}
    /\ Pending(p, t)
    /\ disk' = Append(disk, <<"record", ring[p][t][1]>>)
    /\ ring' = [ring EXCEPT ![p][t] = TakeSlot(@)]
    /\ UNCHANGED <<pc, starting, exists, in_turn, slot, committed, cleaned>>

(* A thread that has recorded what it had to; main after it joined the others. *)
nb_record_cleanup_thread_ctx(p, t) ==
    /\ pc[p] = "run"
    /\ slot[p][t] = "none" /\ committed[p][t] = NumRecs
    /\ t \notin cleaned[p]
    /\ t = Main => ThreadsOf(p) \ {Main} \subseteq cleaned[p]
    /\ ring[p][t] = <<>>
    /\ cleaned' = [cleaned EXCEPT ![p] = @ \cup {t}]
    /\ UNCHANGED <<pc, starting, file, slot, committed, ring>>

(* Mutant: main joins the other threads and returns. *)
exit_after_join(p) == ThreadsOf(p) \ {Main} \subseteq cleaned[p] /\ committed[p][Main] = NumRecs

MayExit(p) == cleaned[p] = ThreadsOf(p)

Exit(p) ==
    /\ pc[p] = "run"
    /\ MayExit(p)
    /\ GiveUp(p)
    /\ UNCHANGED <<starts, need_write_head, file, rings>>

(* What is on its way in the rings is lost. *)
Kill(p) ==
    /\ pc[p] \notin {"off", "over"}
    /\ Goto(p, "off")
    /\ in_turn' = (in_turn /\ ~(pc[p] = "head" /\ need_write_head[p]))
    /\ UNCHANGED <<starting, exists, disk, rings>>

Quiet ==
    /\ \A p \in Procs : pc[p] \in {"off", "over"}
    /\ \E p \in Procs : starts[p] = MaxStarts
    /\ UNCHANGED vars

MainStep(p) ==
    \/ nb_parse_args(p)
    \/ nb_log_init(p)
    \/ CheckPath(p)
    \/ nb_record_open_file(p)
    \/ WriteHead(p)
    \/ muggle_ma_ring_backend_run(p)
    \/ muggle_socket_lib_init(p)
    \/ Exit(p)

ThreadStep(p, t) ==
    \/ nb_record_prepare(p, t)
    \/ Fill(p, t)
    \/ nb_record_commit(p, t)
    \/ nb_record_cleanup_thread_ctx(p, t)

Next ==
    \/ \E p \in Procs : Start(p) \/ MainStep(p) \/ Kill(p)
    \/ \E p \in Procs : \E t \in ThreadsOf(p) :
          ThreadStep(p, t) \/ nb_ts_record_callback(p, t)
    \/ Quiet

Spec == Init /\ [][Next]_vars

(* The threads of a process run; it need not be started, nor killed. *)
FairSpec ==
    /\ Spec
    /\ \A p \in Procs : WF_vars(MainStep(p))
    /\ \A p \in Procs : \A t \in ThreadsOf(p) :
          WF_vars(ThreadStep(p, t)) /\ WF_vars(nb_ts_record_callback(p, t))

-----------------------------------------------------------------------------
(***************************************************************************)
(* The head is the first line of the file and no other, over restarts,     *)
(* unless a process was killed between making the file and writing the     *)
(* head, or another came in between: then the analysis finds no column     *)
(* "size", or a record that is the head.                                   *)
(***************************************************************************)
HeadFirst ==
    in_turn => \A i \in DOMAIN disk : disk[i] = <<"head">> <=> i = 1

(* The numbers of a thread's records among the first k lines. *)
NumbersUpTo(lines, k, p, start, t) ==
    {n \in 1 .. NumRecs : \E i \in 1 .. k, whole \in BOOLEAN :
        lines[i] = <<"record", [proc |-> p, start |-> start, thread |-> t,
                               n |-> n, whole |-> whole]>>}

(***************************************************************************)
(* The lines of a thread are its records, in order, whole, none missing    *)
(* before a later one and none twice, whoever else writes to the file.     *)
(***************************************************************************)
WrittenInOrder ==
    \A i \in DOMAIN disk : disk[i] # <<"head">> =>
        LET l == disk[i][2]
        IN  /\ l.whole
            /\ NumbersUpTo(disk, i - 1, l.proc, l.start, l.thread) = 1 .. l.n - 1

(***************************************************************************)
(* A process that ends by itself has written all that it recorded: the     *)
(* backend thread does not outlive it.                                     *)
(***************************************************************************)
NothingLostAtExit ==
    \A p \in Procs : pc[p] = "over" =>
        \A t \in Threads :
            NumbersUpTo(disk, Len(disk), p, starts[p], t) = 1 .. committed[p][t]

(***************************************************************************)
(* A process that got through its start, and is not killed, ends: the      *)
(* backend empties the rings its threads wait for.                         *)
(***************************************************************************)
RunEnds == \A p \in Procs : pc[p] = "run" ~> pc[p] \in {"off", "over"}
=============================================================================
