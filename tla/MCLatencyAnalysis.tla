-------------------------- MODULE MCLatencyAnalysis --------------------------
(***************************************************************************)
(* The record files of small benchmarks, for LatencyAnalysis: NumIds       *)
(* messages of each user and size, of which any set of at most MaxLost was *)
(* never received, and one, the first of a user, may have been sent, and   *)
(* received, twice.                                                        *)
(***************************************************************************)
EXTENDS LatencyAnalysis, FiniteSetsExt

CONSTANTS NumIds,       \* messages of a user, for each size
          MaxLost       \* bound: messages that were not received

MCIds == 1 .. NumIds

(* Latencies of neighbours differ and some are equal. *)
Start(m) == 20 * m.id + 3 * m.uid

Row(m, action, time) ==
    [uid |-> m.uid, id |-> m.id, size |-> m.size, action |-> action, time |-> time]

(* What one program records of a message, and of its repetition. *)
RowsOfTry(part, m, try) ==
    CASE part = "sent" ->
            <<Row(m, "begin", Start(m) + 9 * try),
              Row(m, "end", Start(m) + 10 * try + 1 + ((m.id + m.uid) % 2))>>
      [] part = "relayed" ->
            <<Row(m, "relay", Start(m) + 9 * try + 2)>>
      [] part = "received" ->
            <<Row(m, "rcv", Start(m) + 9 * try + 3 + ((2 * m.id + m.uid) % 5))>>

(* In some order; of one message in the order of time. *)
RowsOf(part, ms, again) ==
    FoldSet(LAMBDA m, rows : rows \o RowsOfTry(part, m, 0)
                                  \o (IF m \in again THEN RowsOfTry(part, m, 1) ELSE <<>>),
            <<>>, ms)

ClientRows(users, again) == RowsOf("sent", {m \in Messages : m.uid \in users}, again)

ReceiverRows(lost, again) == RowsOf("received", Messages \ lost, again)

(* The files of the programs that send and receive, and of a server that lost none. *)
NetworkFiles(lost, again) ==
    [f \in {<<"client", u>> : u \in Users} \cup {<<"upstream">>}
             \cup (IF lost = {} /\ again = {} THEN {<<"server">>} ELSE {}) |->
        CASE f[1] = "client"   -> ClientRows({f[2]}, again)
          [] f[1] = "server"   -> RowsOf("relayed", Messages, again)
          [] f[1] = "upstream" -> ReceiverRows(lost, again)]

ThreadFiles(lost, again) ==
    [f \in {<<"thread">>} |-> ClientRows(Users, again) \o ReceiverRows(lost, again)]

MCTraces ==
    UNION {{[script |-> "network", files |-> NetworkFiles(lost, again)],
            [script |-> "thread", files |-> ThreadFiles(lost, again)]} :
        lost \in {ms \in SUBSET Messages : Cardinality(ms) <= MaxLost},
        again \in {{}} \cup {{m} : m \in {x \in Messages : x.id = 1}}}

(* Up to a hundred latencies, as if the product were exact. *)
MCTiesUp ==
    {<<p, n>> \in (0 .. 9) \X (0 .. 99) : (p * n) % 10 = 5 /\ ((p * n) \div 10) % 2 = 1}
=============================================================================
