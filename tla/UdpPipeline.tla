----------------------------- MODULE UdpPipeline -----------------------------
(***************************************************************************)
(* app/udp_client, app/udp_server and app/udp_upstream with the network    *)
(* between them and the records they write: one run() of the client.       *)
(*                                                                         *)
(* The network is the set of datagrams ever sent.  A datagram in it may be *)
(* received never, once or again, and in any order.  Only whether a round  *)
(* is due is left open here: every delay is possible.                      *)
(***************************************************************************)
EXTENDS Integers

CONSTANTS NumRounds,    \* args->round_num
          NumPerRound,  \* args->num_per_round
          MsgSize,      \* args->msg_size
          BufSize       \* sizeof(buf) in the two on_message callbacks

ASSUME PipelineAssumption ==
    {NumRounds, NumPerRound, MsgSize, BufSize} \subseteq Nat \ {0}

VARIABLES serv,         \* per receiving program, its context in its event loop
          phase,        \* how far run() of the client has got
          st,           \* the client's context in its event loop
          ctx_set,      \* whether the client's evloop_data->ctx is not NULL
          round_index,  \* evloop_data->round_index
          pos,          \* messages of this round completed, or Idle
          sent,         \* the sendto of message pos has succeeded
          net,          \* datagrams
          recs          \* per message, the order of its records, see After

clientvars == <<phase, st, ctx_set, round_index, pos, sent>>
vars       == <<serv, clientvars, net, recs>>

Idle == -1

Programs == {"server", "upstream"}

(* Sequence numbers; Answer is a message of whoever has the upstream's address. *)
Msgs   == 0 .. NumRounds * NumPerRound - 1
Answer == -1

(* size is what the header says, len the bytes in the datagram. *)
Datagrams == [from : {"client", "server", "upstream"}, to : Programs,
              msg : Msgs \cup {Answer}, size : {1, MsgSize}, len : 1 .. MsgSize]

Actions == {"client.snd_begin", "client.snd_end", "server.rcv", "server.snd_begin",
            "upstream.rcv"}

Events == [action : Actions, size : 1 .. MsgSize]

TypeOK ==
    /\ serv \in [Programs -> {"unused", "queued", "live"}]
    /\ phase \in {"bind", "run", "exited", "crashed"}
    /\ st \in {"unused", "queued", "live", "shut", "released"}
    /\ ctx_set \in BOOLEAN
    /\ round_index \in 0 .. NumRounds
    /\ pos \in Idle .. NumPerRound - 1
    /\ sent \in BOOLEAN
    /\ net \subseteq Datagrams
    /\ recs \in [Msgs \cup {Answer} -> SUBSET (Events \X Events)]

Init ==
    /\ serv = [p \in Programs |-> "unused"]
    /\ phase = "bind"
    /\ st = "unused"
    /\ ctx_set = FALSE
    /\ round_index = 0
    /\ pos = Idle
    /\ sent = FALSE
    /\ net = {}
    /\ recs = [m \in Msgs \cup {Answer} |-> {}]

(***************************************************************************)
(* NETBENCH_RECORD.  The analysis keeps the last record of an action: what *)
(* matters is that there is one, and the order of the last ones.  A pair   *)
(* of events says that the first one's last record is not after the        *)
(* second one's.                                                           *)
(***************************************************************************)
After(order, action, size) ==
    LET e == [action |-> action, size |-> size]
        others == {p \in order : p[1] # e /\ p[2] # e}
    IN  others \cup {<<p[1], e>> : p \in others} \cup {<<e, e>>}

Record(m, action, size) == recs' = [recs EXCEPT ![m] = After(@, action, size)]

-----------------------------------------------------------------------------
(* run() of the receiving programs; an attempt to bind is repeated. *)
nb_udp_bind(p) ==
    /\ serv[p] = "unused"
    /\ serv' = [serv EXCEPT ![p] = "queued"]
    /\ UNCHANGED <<clientvars, net, recs>>

server_run == nb_udp_bind("server")

upstream_run == nb_udp_bind("upstream")

(* Only the server has a callback, which sets evloop_data->ctx. *)
udp_server_on_add_ctx(p) ==
    /\ serv[p] = "queued"
    /\ serv' = [serv EXCEPT ![p] = "live"]
    /\ UNCHANGED <<clientvars, net, recs>>

client_run ==
    /\ phase = "bind"
    /\ phase' = "run"
    /\ st' = "queued"
    /\ ctx_set' = FALSE
    /\ round_index' = 0
    /\ UNCHANGED <<serv, pos, sent, net, recs>>

LoopIdle == phase = "run" /\ pos = Idle

udp_client_on_add_ctx ==
    /\ LoopIdle
    /\ st = "queued"
    /\ st' = "live"
    /\ ctx_set' = TRUE
    /\ UNCHANGED <<serv, phase, round_index, pos, sent, net, recs>>

(* No callback for close or release: evloop_data->ctx stays. *)
Release ==
    /\ LoopIdle
    /\ st = "shut"
    /\ st' = "released"
    /\ UNCHANGED <<serv, phase, ctx_set, round_index, pos, sent, net, recs>>

-----------------------------------------------------------------------------
(* udp_client_on_timer: leave the loop, or start a round when it is due ... *)
ExitLoop ==
    /\ LoopIdle
    /\ round_index >= NumRounds
    /\ phase' = "exited"
    /\ UNCHANGED <<serv, st, ctx_set, round_index, pos, sent, net, recs>>

StartRound ==
    /\ LoopIdle
    /\ round_index < NumRounds
    /\ ctx_set
    /\ pos' = 0
    /\ UNCHANGED <<serv, phase, st, ctx_set, round_index, sent, net, recs>>

Current == round_index * NumPerRound + pos

ClientDatagram(m) == [from |-> "client", to |-> "server", msg |-> m,
                      size |-> MsgSize, len |-> MsgSize]

(* A live socket may fail too; one that is shut down or closed always does. *)
Sendto ==
    /\ st = "live"
    /\ sent' = TRUE
    /\ net' = net \cup {ClientDatagram(Current)}
    /\ UNCHANGED <<st, pos>>

(* Mutant: the context is kept for another try. *)
send_failed_keeps == pos' = Idle /\ UNCHANGED <<st, sent, net>>

(* Shut down; the round is not counted. *)
SendFailed ==
    /\ pos' = Idle
    /\ st' = IF st = "released" THEN st ELSE "shut"
    /\ UNCHANGED <<sent, net>>

SendBegin ==
    /\ phase = "run" /\ pos # Idle /\ ~sent
    /\ Record(Current, "client.snd_begin", MsgSize)
    /\ Sendto \/ SendFailed
    /\ UNCHANGED <<serv, phase, ctx_set, round_index>>

(* A released context is freed memory: its use may also end the program. *)
Crash ==
    /\ phase = "run" /\ pos # Idle
    /\ st = "released"
    /\ phase' = "crashed"
    /\ Record(Current, "client.snd_begin", MsgSize)
    /\ UNCHANGED <<serv, st, ctx_set, round_index, pos, sent, net>>

(* Mutant: the round is not counted. *)
next_message_uncounted ==
    /\ pos' = IF pos + 1 = NumPerRound THEN Idle ELSE pos + 1
    /\ UNCHANGED round_index

NextMessage ==
    IF pos + 1 = NumPerRound THEN pos' = Idle /\ round_index' = round_index + 1
    ELSE pos' = pos + 1 /\ UNCHANGED round_index

SendEnd ==
    /\ sent
    /\ sent' = FALSE
    /\ Record(Current, "client.snd_end", MsgSize)
    /\ NextMessage
    /\ UNCHANGED <<serv, phase, st, ctx_set, net>>

-----------------------------------------------------------------------------
(* Mutant: room is kept for a terminating byte. *)
num_bytes_less(d) == IF d.len < BufSize THEN d.len ELSE BufSize - 1

(* recvfrom cuts off what does not fit the buffer. *)
NumBytes(d) == IF d.len <= BufSize THEN d.len ELSE BufSize

(* nb_sockaddr_equal: not what comes from the upstream's address. *)
FromOther(d) == d.from # "upstream"

ServerDatagram(d) == [from |-> "server", to |-> "upstream", msg |-> d.msg,
                      size |-> d.size, len |-> NumBytes(d)]

(* Mutant: one record for the server. *)
forward_records_once(d) ==
    /\ recs' = [recs EXCEPT ![d.msg] = After(@, "server.rcv", NumBytes(d))]
    /\ net' \in {net, net \cup {ServerDatagram(d)}}

(* Both records, then the sendto, which may fail. *)
ForwardTo(d) ==
    /\ recs' = [recs EXCEPT ![d.msg] =
                   After(After(@, "server.rcv", NumBytes(d)), "server.snd_begin", NumBytes(d))]
    /\ net' \in {net, net \cup {ServerDatagram(d)}}

(***************************************************************************)
(* on_message of udp_server, for a datagram the network delivers.  The     *)
(* assertion on the length is left to AssertLength.                        *)
(***************************************************************************)
server_on_message(d) ==
    /\ serv["server"] = "live"
    /\ d.to = "server"
    /\ \/ FromOther(d) /\ ForwardTo(d)
       \/ ~FromOther(d) /\ Record(d.msg, "server.rcv", NumBytes(d)) /\ UNCHANGED net
    /\ UNCHANGED <<serv, clientvars>>

upstream_on_message(d) ==
    /\ serv["upstream"] = "live"
    /\ d.to = "upstream"
    /\ Record(d.msg, "upstream.rcv", NumBytes(d))
    /\ UNCHANGED <<serv, clientvars, net>>

(* Someone with the upstream's address sends a short message to the server. *)
Reply ==
    /\ net' = net \cup {[from |-> "upstream", to |-> "server", msg |-> Answer,
                         size |-> 1, len |-> 1]}
    /\ UNCHANGED <<serv, clientvars, recs>>

Next ==
    \/ server_run
    \/ upstream_run
    \/ \E p \in Programs : udp_server_on_add_ctx(p)
    \/ client_run
    \/ udp_client_on_add_ctx
    \/ Release
    \/ ExitLoop
    \/ StartRound
    \/ SendBegin
    \/ Crash
    \/ SendEnd
    \/ \E d \in net : server_on_message(d)
    \/ \E d \in net : upstream_on_message(d)
    \/ Reply

Spec == Init /\ [][Next]_vars

(* The client's loop keeps running; the network owes nothing. *)
FairSpec ==
    /\ Spec
    /\ WF_vars(client_run)
    /\ WF_vars(udp_client_on_add_ctx)
    /\ WF_vars(ExitLoop)
    /\ WF_vars(StartRound)
    /\ WF_vars(SendBegin)
    /\ WF_vars(SendEnd)

-----------------------------------------------------------------------------
Has(m, action) == \E p \in recs[m] : p[2].action = action

(* The last record of action a comes before the last record of action b. *)
Precedes(m, a, b) == \A p \in recs[m] : ~(p[1].action = b /\ p[2].action = a)

(***************************************************************************)
(* The records tell what happened, through loss, repetition and a failed   *)
(* sendto: "client.snd_end" means that the message went out, and a message *)
(* has every record of its way up to the last program that received it.    *)
(***************************************************************************)
RecordsTruthful ==
    \A m \in Msgs :
        /\ Has(m, "client.snd_end") => ClientDatagram(m) \in net
        /\ Has(m, "server.rcv") => Has(m, "client.snd_begin")
        /\ Has(m, "upstream.rcv") => Has(m, "server.rcv") /\ Has(m, "server.snd_begin")

(* A sendto of the client has failed. *)
Failed == st \in {"shut", "released"}

(* The messages of the round that the client is at. *)
InRound == round_index * NumPerRound .. (round_index + 1) * NumPerRound - 1

(***************************************************************************)
(* The latencies of the analysis are not negative: what it takes for the   *)
(* time of sending is before what it takes for the time of receiving.  The *)
(* round that failed is the exception, since each try of it records its    *)
(* first message again.                                                    *)
(***************************************************************************)
LatencyNotNegative ==
    \A m \in Msgs : ~(Failed /\ m \in InRound) =>
        /\ Precedes(m, "client.snd_begin", "upstream.rcv")
        /\ Precedes(m, "client.snd_begin", "client.snd_end")

(***************************************************************************)
(* The client itself sends no message twice, though a round that failed is *)
(* started again: by then its socket is shut down.                         *)
(***************************************************************************)
NoRepeat == [][~sent /\ sent' => ClientDatagram(Current) \notin net]_vars

(***************************************************************************)
(* "NB_ASSERT((int)(sizeof(nb_msg_hdr_t) + hdr->payload_len) ==            *)
(* num_bytes)" in both on_message callbacks.                               *)
(***************************************************************************)
AssertLength == \A d \in net : NumBytes(d) = d.size

(* Unless a sendto fails, all the rounds are sent and the loop exits. *)
Completes == <>(phase = "exited" \/ Failed)
=============================================================================
