------------------------------ MODULE TcpClient ------------------------------
(***************************************************************************)
(* app/tcp_client: an event loop that writes rounds of messages from a     *)
(* timer callback, detached threads that re-dial the server after a close, *)
(* and the sockets.  A round that fails is started again from its first    *)
(* message on the next connection.  One run() of main: one message size.   *)
(*                                                                         *)
(* Connections are numbered in the order they were dialled.  The real-time *)
(* clock advances in ticks, TicksPerMs of them to a millisecond, and is    *)
(* kept relative to evloop_data->last_ts.                                  *)
(***************************************************************************)
EXTENDS Integers, Sequences

CONSTANTS NumRounds,    \* args->round_num
          NumPerRound,  \* args->num_per_round
          IntervalMs,   \* args->round_interval_ms
          CliWaitMs,    \* args->cli_wait, in milliseconds
          TicksPerMs,   \* resolution of the clock
          MaxConn,      \* bound: connections dialled; the last one never fails
          NoCtx         \* the NULL context pointer

Conns == 1 .. MaxConn

ASSUME ClientAssumption ==
    /\ {NumRounds, NumPerRound, TicksPerMs, MaxConn} \subseteq Nat \ {0}
    /\ {IntervalMs, CliWaitMs} \subseteq Nat
    /\ NoCtx \notin Conns

VARIABLES phase,        \* how far run() of main has got
          dialers,      \* running tcp_async_connect threads
          nconn,        \* connections dialled so far
          st,           \* per connection, its place in the event loop
          sock,         \* per connection, what can be done with its socket
          ctx,          \* evloop_data->ctx
          round_index,  \* evloop_data->round_index
          pos,          \* messages of this round written, or Idle
          gap,          \* ticks since last_ts; negative while cli_wait runs
          last_sub,     \* the ticks of last_ts within its millisecond
          wire          \* per connection, the frames written to it

netvars  == <<dialers, nconn, st, sock, ctx>>
timevars == <<gap, last_sub>>
vars     == <<phase, netvars, round_index, pos, timevars, wire>>

Idle == -1

(* The clock saturates where every comparison with the interval is decided. *)
MaxGap == (IntervalMs + 1) * TicksPerMs

Frames == [seq : 0 .. NumRounds * NumPerRound - 1, whole : BOOLEAN]

TypeOK ==
    /\ phase \in {"dial", "run", "exited"}
    /\ dialers \in Nat
    /\ nconn \in 0 .. MaxConn
    /\ st \in [Conns -> {"unused", "queued", "live", "closed", "released"}]
    /\ sock \in [Conns -> {"open", "eof", "reset", "shut"}]
    /\ ctx \in Conns \cup {NoCtx}
    /\ round_index \in 0 .. NumRounds
    /\ pos \in Idle .. NumPerRound - 1
    /\ gap \in -CliWaitMs * TicksPerMs .. MaxGap
    /\ last_sub \in 0 .. TicksPerMs - 1
    /\ wire \in [Conns -> Seq(Frames)]

Init ==
    /\ phase = "dial"
    /\ dialers = 0
    /\ nconn = 0
    /\ st = [k \in Conns |-> "unused"]
    /\ sock = [k \in Conns |-> "open"]
    /\ ctx = NoCtx
    /\ round_index = 0
    /\ pos = Idle
    /\ gap = 0
    /\ last_sub \in 0 .. TicksPerMs - 1
    /\ wire = [k \in Conns |-> <<>>]

-----------------------------------------------------------------------------
(* A failed attempt to dial changes nothing; it is repeated after 3 s. *)
Retry ==
    /\ phase = "dial" \/ dialers > 0
    /\ UNCHANGED vars

nb_tcp_connect ==
    /\ nconn < MaxConn
    /\ nconn' = nconn + 1
    /\ st' = [st EXCEPT ![nconn + 1] = "queued"]

(* run of main: dial, clear evloop_data, take last_ts, enter the loop. *)
run ==
    /\ phase = "dial"
    /\ nb_tcp_connect
    /\ phase' = "run"
    /\ ctx' = NoCtx
    /\ round_index' = 0
    /\ gap' = 0
    /\ last_sub' \in 0 .. TicksPerMs - 1
    /\ UNCHANGED <<dialers, sock, pos, wire>>

(* Nobody waits for the thread: it may outlive the loop. *)
tcp_async_connect ==
    /\ dialers > 0
    /\ nb_tcp_connect
    /\ dialers' = dialers - 1
    /\ UNCHANGED <<phase, sock, ctx, round_index, pos, timevars, wire>>

-----------------------------------------------------------------------------
(* The loop runs one callback at a time. *)
LoopIdle == phase = "run" /\ pos = Idle

muggle_socket_ctx_shutdown(k) == sock' = [sock EXCEPT ![k] = "shut"]

(* The ticks of the clock within its millisecond. *)
NowSub == IF gap = MaxGap THEN 0 .. TicksPerMs - 1
          ELSE {(last_sub + gap) % TicksPerMs}

(* setsockopt fails: no session, and evloop_data->ctx is not set. *)
tcp_client_on_add_ctx(k) ==
    /\ LoopIdle
    /\ st[k] = "queued"
    /\ st' = [st EXCEPT ![k] = "live"]
    /\ \/ /\ ctx' = k
          /\ gap' = -CliWaitMs * TicksPerMs
          /\ last_sub' \in NowSub
          /\ UNCHANGED sock
       \/ /\ k < MaxConn
          /\ muggle_socket_ctx_shutdown(k)
          /\ UNCHANGED <<ctx, timevars>>
    /\ UNCHANGED <<phase, dialers, nconn, round_index, pos, wire>>

(* Mutant: ctx is left as it is. *)
conn_lost_keeps_ctx(k) == dialers' = dialers + 1 /\ UNCHANGED ctx

(* Mutant: the assertion of on_close turned into an early return. *)
conn_lost_returns(k) ==
    IF ctx = k THEN dialers' = dialers + 1 /\ ctx' = NoCtx
    ELSE UNCHANGED <<dialers, ctx>>

ConnLost(k) == dialers' = dialers + 1 /\ ctx' = NoCtx

(* The loop will close k. *)
Closing(k) == st[k] = "live" /\ sock[k] # "open"

(* NB_ASSERT(evloop_data->ctx == ctx) fails for k when setsockopt failed. *)
tcp_client_on_close(k) ==
    /\ LoopIdle
    /\ Closing(k)
    /\ st' = [st EXCEPT ![k] = "closed"]
    /\ ConnLost(k)
    /\ UNCHANGED <<phase, nconn, sock, round_index, pos, timevars, wire>>

tcp_client_on_release(k) ==
    /\ LoopIdle
    /\ st[k] = "closed"
    /\ st' = [st EXCEPT ![k] = "released"]
    /\ UNCHANGED <<phase, dialers, nconn, sock, ctx, round_index, pos, timevars, wire>>

-----------------------------------------------------------------------------
(***************************************************************************)
(* tcp_client_on_timer: leave the loop after the last round, whether there *)
(* is a connection or not; otherwise start a round when it is due, and     *)
(* write it message by message.                                            *)
(***************************************************************************)
ExitLoop ==
    /\ LoopIdle
    /\ round_index >= NumRounds
    /\ phase' = "exited"
    /\ UNCHANGED <<netvars, round_index, pos, timevars, wire>>

(* Seconds and whole milliseconds of both times: what is below is cut off. *)
elapsed_ms == (last_sub + gap) \div TicksPerMs

StartRound ==
    /\ LoopIdle
    /\ round_index < NumRounds
    /\ ctx # NoCtx
    /\ elapsed_ms >= IntervalMs
    /\ pos' = 0
    /\ gap' = 0
    /\ last_sub' \in NowSub
    /\ UNCHANGED <<phase, netvars, round_index, wire>>

(***************************************************************************)
(* muggle_socket_ctx_write is non-blocking: all of the message, a part of  *)
(* it, or an error; after a reset or a shutdown nothing but an error.      *)
(***************************************************************************)
WriteResults(k) ==
    CASE k = MaxConn -> {"full"}
      [] k < MaxConn /\ sock[k] \in {"open", "eof"} -> {"full", "short", "error"}
      [] OTHER -> {"error"}

Write(k, m, res) ==
    wire' = IF res = "error" THEN wire
            ELSE [wire EXCEPT ![k] = Append(@, [seq |-> m, whole |-> res = "full"])]

NextMessage ==
    IF pos + 1 = NumPerRound THEN pos' = Idle /\ round_index' = round_index + 1
    ELSE pos' = pos + 1 /\ UNCHANGED round_index

(* Mutant: the round that failed is counted as done. *)
write_failed_skips ==
    /\ pos' = Idle
    /\ round_index' = round_index + 1
    /\ muggle_socket_ctx_shutdown(ctx)

(* The callback returns: the round is not counted. *)
WriteFailed ==
    /\ pos' = Idle
    /\ UNCHANGED round_index
    /\ muggle_socket_ctx_shutdown(ctx)

SendMessage ==
    /\ pos # Idle
    /\ \E res \in WriteResults(ctx) :
          /\ Write(ctx, round_index * NumPerRound + pos, res)
          /\ IF res = "full" THEN NextMessage /\ UNCHANGED sock ELSE WriteFailed
    /\ UNCHANGED <<phase, dialers, nconn, st, ctx, timevars>>

-----------------------------------------------------------------------------
(* The server, or the network, may end any connection but the last. *)
PeerClose(k, how) ==
    /\ k < MaxConn
    /\ phase = "run"
    /\ st[k] \in {"queued", "live"}
    /\ \/ sock[k] = "open"
       \/ sock[k] = "eof" /\ how = "reset"
    /\ sock' = [sock EXCEPT ![k] = how]
    /\ UNCHANGED <<phase, dialers, nconn, st, ctx, round_index, pos, timevars, wire>>

Tick ==
    /\ phase = "run"
    /\ gap' = IF gap = MaxGap THEN gap ELSE gap + 1
    /\ UNCHANGED <<phase, netvars, round_index, pos, last_sub, wire>>

Terminated == phase = "exited" /\ UNCHANGED vars

Next ==
    \/ Retry
    \/ run
    \/ tcp_async_connect
    \/ \E k \in Conns : tcp_client_on_add_ctx(k)
    \/ \E k \in Conns : tcp_client_on_close(k)
    \/ \E k \in Conns : tcp_client_on_release(k)
    \/ ExitLoop
    \/ StartRound
    \/ SendMessage
    \/ \E k \in Conns, how \in {"eof", "reset"} : PeerClose(k, how)
    \/ Tick
    \/ Terminated

Spec == Init /\ [][Next]_vars

(***************************************************************************)
(* The threads run, the clock advances and an attempt to dial succeeds.    *)
(* Strong fairness for contexts: each pass of the loop serves all of them, *)
(* though the rounds of on_timer disable their callbacks over and over.    *)
(***************************************************************************)
FairSpec ==
    /\ Spec
    /\ WF_vars(run)
    /\ WF_vars(tcp_async_connect)
    /\ \A k \in Conns :
          SF_vars(tcp_client_on_add_ctx(k)) /\ SF_vars(tcp_client_on_close(k))
    /\ WF_vars(ExitLoop)
    /\ WF_vars(StartRound)
    /\ WF_vars(SendMessage)
    /\ WF_vars(Tick)

-----------------------------------------------------------------------------
Active(k) == st[k] \in {"queued", "live"}

(***************************************************************************)
(* While the loop runs there is one connection, or one thread dialling it, *)
(* never both and never neither, also when setsockopt failed in            *)
(* on_add_ctx and evloop_data->ctx was never set.                          *)
(***************************************************************************)
OneConnection ==
    /\ \A j, k \in Conns : Active(j) /\ Active(k) => j = k
    /\ phase = "run" =>
          dialers = IF \E k \in Conns : Active(k) THEN 0 ELSE 1

(***************************************************************************)
(* on_timer never writes to a context that was closed: evloop_data->ctx is *)
(* a live context, and a live context is forgotten only if it is shut.     *)
(***************************************************************************)
CtxLive ==
    /\ ctx # NoCtx => st[ctx] = "live"
    /\ \A k \in Conns : st[k] = "live" /\ ctx # k => sock[k] = "shut"

(* Round r is whole on connection k. *)
RoundOn(r, k) ==
    \A j \in 0 .. NumPerRound - 1 : \E i \in DOMAIN wire[k] :
        wire[k][i] = [seq |-> r * NumPerRound + j, whole |-> TRUE]

(***************************************************************************)
(* A round that was counted went out whole on one connection and was not   *)
(* started on any later one: a retry repeats the failed round, no other.   *)
(* When the loop has exited every round has been counted.                  *)
(***************************************************************************)
RoundsSentOnce ==
    /\ \A r \in 0 .. round_index - 1 : \E k \in Conns :
          /\ RoundOn(r, k)
          /\ \A j \in Conns : j > k =>
                \A i \in DOMAIN wire[j] : wire[j][i].seq \div NumPerRound # r
    /\ phase = "exited" => round_index = NumRounds

(***************************************************************************)
(* tcp_client keeps the promise of RoundSender: a connection is usable     *)
(* from its dialling until it is shut down or closed.                      *)
(***************************************************************************)
Usable(k) == Active(k) /\ sock[k] # "shut"

Sender == INSTANCE RoundSender WITH
    up    <- \E k \in Conns : Usable(k),
    round <- round_index,
    pos   <- IF pos = Idle THEN 0 ELSE pos,
    out   <- [k \in 1 .. nconn |-> wire[k]]

SenderSpec == Sender!Spec

(***************************************************************************)
(* However often the connection breaks, if one holds in the end then every *)
(* round is sent and the loop exits.                                       *)
(***************************************************************************)
Completes == <>(phase = "exited")
=============================================================================
