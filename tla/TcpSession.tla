----------------------------- MODULE TcpSession -----------------------------
(***************************************************************************)
(* nb_tcp_session_t: one connection's receive path, from the bytes in the  *)
(* kernel through the bytes buffer to the message callback.                *)
(*                                                                         *)
(* The peer sends a stream of messages; positions in the stream are byte   *)
(* counts (in a unit that divides all the sizes), and the bytes buffer     *)
(* holds those from "used" to "got".  The kernel delivers bytes in any     *)
(* portions, also while nb_tcp_session_on_msg runs.                        *)
(***************************************************************************)
EXTENDS Integers, Sequences, FiniteSets

CONSTANTS NumMsgs,      \* bound: messages the peer sends
          MaxSize,      \* bound: size of a message, its header included
          HdrSize,      \* sizeof(nb_msg_hdr_t)
          RecvUnit,     \* NET_BENCH_TCP_RECV_UNIT_SIZE
          BufSize,      \* NET_BENCH_TCP_BUF_SIZE
          Limits        \* the values of msg_len_limit, 0 for no limit

ASSUME SessionAssumption ==
    /\ {NumMsgs, HdrSize, RecvUnit} \subseteq Nat \ {0}
    /\ Limits \subseteq Nat
    /\ BufSize \in Nat /\ BufSize >= 2 * RecvUnit
    /\ MaxSize \in Nat /\ MaxSize >= HdrSize

VARIABLES msg_len_limit,
          ends,         \* where each message of the stream ends
          sent,         \* bytes that have arrived
          got,          \* bytes read into the buffer
          used,         \* bytes taken out of the buffer
          calls,        \* the callbacks: the bytes handed over
          pc,           \* "poll" outside nb_tcp_session_on_msg
          sock,         \* what can be done with the socket
          finished      \* the context is flagged closed

params == <<msg_len_limit, ends>>
vars   == <<params, sent, got, used, calls, pc, sock, finished>>

StreamEnd == ends[NumMsgs]

TypeOK ==
    /\ msg_len_limit \in Limits
    /\ ends \in [0 .. NumMsgs -> Nat]
    /\ sent \in 0 .. StreamEnd
    /\ got \in 0 .. sent
    /\ used \in 0 .. got
    /\ calls \in Seq([from : Nat, size : Nat])
    /\ pc \in {"poll", "read", "parse", "closed"}
    /\ sock \in {"open", "eof", "reset", "shut"}
    /\ finished \in BOOLEAN

Size(i) == ends[i] - ends[i - 1]

(* Any limit, and any stream of NumMsgs messages. *)
Init ==
    /\ msg_len_limit \in Limits
    /\ ends \in [0 .. NumMsgs -> 0 .. NumMsgs * MaxSize]
    /\ ends[0] = 0
    /\ \A i, j \in 0 .. NumMsgs : i < j => ends[i] < ends[j]
    /\ \A i \in 1 .. NumMsgs : Size(i) \in HdrSize .. MaxSize
    /\ sent = 0
    /\ got = 0
    /\ used = 0
    /\ calls = <<>>
    /\ pc = "poll"
    /\ sock = "open"
    /\ finished = FALSE

-----------------------------------------------------------------------------
(* The peer and the network: more bytes arrive, or the connection ends. *)
Arrive ==
    /\ sock = "open"
    /\ pc # "closed"
    /\ sent' \in sent + 1 .. StreamEnd
    /\ UNCHANGED <<params, got, used, calls, pc, sock, finished>>

PeerClose(how) ==
    /\ pc # "closed"
    /\ sock = "open" \/ (sock = "eof" /\ how = "reset")
    /\ sock' = how
    /\ UNCHANGED <<params, sent, got, used, calls, pc, finished>>

-----------------------------------------------------------------------------
(***************************************************************************)
(* nb_tcp_session_on_msg reads until the kernel has no more bytes or the   *)
(* buffer has no RecvUnit contiguous bytes left, then hands over every     *)
(* whole message.  Where the ring breaks decides whether there is room     *)
(* when it is between one and two units; a full buffer only ends the loop. *)
(***************************************************************************)
Room == BufSize - (got - used)

(* Mutant: the space asked for is not the size of the read. *)
room_for_a_byte == Room >= 1

MayHaveRoom == Room >= RecvUnit
MayBeFull   == Room < 2 * RecvUnit

(* The loop polls by level: it calls again as long as something is there. *)
nb_tcp_session_on_msg ==
    /\ pc = "poll"
    /\ ~finished
    /\ got < sent \/ sock # "open"
    /\ pc' = "read"
    /\ UNCHANGED <<params, sent, got, used, calls, sock, finished>>

(* muggle_bytes_buffer_writer_fc, then muggle_socket_ctx_read of a unit. *)
ReadSome ==
    /\ pc = "read"
    /\ MayHaveRoom
    /\ \E n \in 1 .. RecvUnit :
          /\ got + n <= sent
          /\ got' = got + n
    /\ UNCHANGED <<params, sent, used, calls, pc, sock, finished>>

(* Mutant: a read that ends the connection ends the callback too. *)
end_of_read_returns == IF sock # "open" THEN "poll" ELSE "parse"

EndOfRead == "parse"

(***************************************************************************)
(* A read that returns no bytes.  At the end of the stream or after an     *)
(* error the library flags the context closed; a reset may lose bytes.     *)
(***************************************************************************)
ReadNone ==
    /\ pc = "read"
    /\ MayHaveRoom
    /\ got = sent \/ sock \in {"reset", "shut"}
    /\ finished' = (finished \/ sock # "open")
    /\ pc' = EndOfRead
    /\ UNCHANGED <<params, sent, got, used, calls, sock>>

BufferFull ==
    /\ pc = "read"
    /\ MayBeFull
    /\ pc' = "parse"
    /\ UNCHANGED <<params, sent, got, used, calls, sock, finished>>

-----------------------------------------------------------------------------
(* The message whose header is next in the buffer, if its header is there. *)
AtHeader(i) ==
    /\ pc = "parse"
    /\ ends[i - 1] = used
    /\ got - used >= HdrSize

TooLong(i) == msg_len_limit > 0 /\ Size(i) > msg_len_limit

(* Mutant: a message may be handed over as soon as its header is there. *)
readable_header(i) == got - used >= HdrSize

Readable(i) == got - used >= Size(i)

(* Mutant: the reader is moved past the payload's length only. *)
reader_move_payload(i) == used' = used + Size(i) - HdrSize

(* Contiguous or copied out in one piece, the message leaves the buffer. *)
ReaderMove(i) == used' = used + Size(i)

HandleMessage ==
    /\ \E i \in 1 .. NumMsgs :
          /\ AtHeader(i)
          /\ ~TooLong(i)
          /\ Readable(i)
          /\ calls' = Append(calls, [from |-> used, size |-> Size(i)])
          /\ ReaderMove(i)
    /\ UNCHANGED <<params, sent, got, pc, sock, finished>>

(* Mutant: the error is only logged. *)
reject_logs == UNCHANGED <<sock, finished>>

Reject == sock' = "shut" /\ finished' = TRUE

(* Over the limit: shut down, and leave the message in the buffer. *)
RejectMessage ==
    /\ \E i \in 1 .. NumMsgs : AtHeader(i) /\ TooLong(i)
    /\ Reject
    /\ pc' = "poll"
    /\ UNCHANGED <<params, sent, got, used, calls>>

ParseDone ==
    /\ pc = "parse"
    /\ \A i \in 1 .. NumMsgs : AtHeader(i) => ~TooLong(i) /\ ~Readable(i)
    /\ pc' = "poll"
    /\ UNCHANGED <<params, sent, got, used, calls, sock, finished>>

(* The loop closes the context: the session is deleted. *)
Close ==
    /\ pc = "poll"
    /\ finished
    /\ pc' = "closed"
    /\ UNCHANGED <<params, sent, got, used, calls, sock, finished>>

(* Nothing more to come: the connection is idle, or gone. *)
Quiet ==
    /\ pc = "closed" \/ (pc = "poll" /\ sock = "open" /\ got = StreamEnd)
    /\ UNCHANGED vars

Next ==
    \/ Arrive
    \/ \E how \in {"eof", "reset"} : PeerClose(how)
    \/ nb_tcp_session_on_msg
    \/ ReadSome
    \/ ReadNone
    \/ BufferFull
    \/ HandleMessage
    \/ RejectMessage
    \/ ParseDone
    \/ Close
    \/ Quiet

Spec == Init /\ [][Next]_vars

(* The loop thread keeps running; the peer owes nothing. *)
FairSpec ==
    /\ Spec
    /\ WF_vars(nb_tcp_session_on_msg \/ ReadSome \/ ReadNone \/ BufferFull
                \/ HandleMessage \/ RejectMessage \/ ParseDone \/ Close)

-----------------------------------------------------------------------------
(* Messages that have arrived whole. *)
Arrived == Cardinality({i \in 1 .. NumMsgs : ends[i] <= sent})

(***************************************************************************)
(* Every callback gets exactly the next message of the stream, however it  *)
(* was cut into reads and wherever the ring broke, and none over the limit *)
(* with its header counted; what is left begins with the next message.     *)
(***************************************************************************)
Framing ==
    /\ \A i \in DOMAIN calls :
          /\ calls[i] = [from |-> ends[i - 1], size |-> Size(i)]
          /\ msg_len_limit > 0 => Size(i) <= msg_len_limit
    /\ used = ends[Len(calls)]

(* What may be handed over: up to the limit, but a header is always read. *)
Longest ==
    IF msg_len_limit \in HdrSize .. MaxSize THEN msg_len_limit
    ELSE IF msg_len_limit \in 1 .. HdrSize THEN HdrSize ELSE MaxSize

(***************************************************************************)
(* The reads never overfill the bytes buffer.  And between two calls of a  *)
(* session that goes on, less than a message waits in it: where a message  *)
(* and two reads fit, the next call has room, and no session stalls with a *)
(* full buffer that has no message to hand over.                           *)
(***************************************************************************)
BufferBound ==
    /\ got - used <= BufSize
    /\ (Longest - 1) + 2 * RecvUnit <= BufSize =>
         (pc = "poll" /\ ~finished => ~MayBeFull)

(***************************************************************************)
(* A peer that sends and closes in order has every message handled before  *)
(* the context is closed, the ones read together with the end included,    *)
(* unless a message over the limit cut the session short.                  *)
(***************************************************************************)
DrainedBeforeClose == pc = "closed" /\ sock = "eof" => Len(calls) = Arrived

(* The session implements MessageStream. *)
M == INSTANCE MessageStream WITH arrived <- Arrived, handled <- Len(calls),
                                 open <- ~finished \/ pc = "parse"

StreamSpec == M!Spec

(* What the callback waits for: the message, or the header of one too long. *)
Due(i) == ends[i] <= sent \/ (TooLong(i) /\ ends[i - 1] + HdrSize <= sent)

(***************************************************************************)
(* Every message that has arrived is handed over in the end, or the socket *)
(* is gone and the session closed; and a message over the limit gets it    *)
(* closed as soon as its header has come, though the rest may never come.  *)
(***************************************************************************)
Delivered ==
    \A i \in 1 .. NumMsgs :
        Due(i) ~> (Len(calls) >= i \/ (pc = "closed" /\ sock # "open"))
=============================================================================
