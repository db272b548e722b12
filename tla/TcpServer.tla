------------------------------ MODULE TcpServer ------------------------------
(***************************************************************************)
(* app/tcp_server: one event-loop thread that accepts client sessions and  *)
(* relays every message to one upstream connection, detached threads that  *)
(* re-dial the upstream after it closed, and the peers' sockets.           *)
(*                                                                         *)
(* Socket contexts are identified: the listener, the client sessions, and  *)
(* the upstream connections, numbered in the order they were dialled.  A   *)
(* message is the pair <<session, position in the session's stream>>.      *)
(* Bytes are left to TcpSession: here a session's input is the number of   *)
(* whole messages that have arrived and the number handled.                *)
(***************************************************************************)
EXTENDS Naturals, Sequences, FiniteSets

CONSTANTS Sessions,     \* socket contexts of the clients' connections
          Listener,     \* socket context of the listening socket
          NoCtx,        \* the NULL context pointer
          MaxConn,      \* bound: upstream connections dialled
          MaxMsg,       \* bound: messages a client sends on one session
          MaxSent       \* bound: messages all the clients send together

Conns == 1 .. MaxConn

Contexts == Sessions \cup Conns \cup {Listener}

ASSUME ServerAssumption ==
    /\ MaxConn \in Nat \ {0}
    /\ MaxMsg \in Nat
    /\ MaxSent \in Nat
    /\ Sessions \cap Conns = {}
    /\ Listener \notin Sessions \cup Conns
    /\ NoCtx \notin Contexts

VARIABLES phase,        \* how far run() of main has got
          dialers,      \* running tcp_async_connect threads
          nconn,        \* upstream connections dialled so far
          st,           \* per context, its place in the event loop
          sock,         \* per context, what can be done with its socket
          role,         \* per context, the role of its session, if it has one
          conn_ctx,     \* evloop_data->conn_ctx
          arrived,      \* per session, messages received by the kernel
          handled,      \* per session, messages handed to the callback
          parsing,      \* the session whose buffer the loop is parsing
          batch,        \* ... and the last message it has read
          wire,         \* per upstream connection, the frames written to it
          recs          \* per message, the record actions written for it

netvars  == <<st, sock, role, conn_ctx>>
datavars == <<arrived, handled, parsing, batch, wire, recs>>
vars     == <<phase, dialers, nconn, netvars, datavars>>

Msgs   == Sessions \X (1 .. MaxMsg)
Frames == [msg : Msgs, whole : BOOLEAN]

(***************************************************************************)
(* sock: "eof" when the peer closed its side in order, "reset" when the    *)
(* connection died, "shut" after muggle_socket_ctx_shutdown.               *)
(***************************************************************************)
TypeOK ==
    /\ phase \in {"listen", "dial", "run"}
    /\ dialers \in Nat
    /\ nconn \in 0 .. MaxConn
    /\ st \in [Contexts -> {"unused", "queued", "live", "closed", "released"}]
    /\ sock \in [Contexts -> {"open", "eof", "reset", "shut"}]
    /\ role \in [Contexts -> {"none", "client", "upstream"}]
    /\ conn_ctx \in Conns \cup {NoCtx}
    /\ arrived \in [Sessions -> 0 .. MaxMsg]
    /\ handled \in [Sessions -> 0 .. MaxMsg]
    /\ parsing \in Sessions \cup {NoCtx}
    /\ batch \in 0 .. MaxMsg
    /\ wire \in [Conns -> Seq(Frames)]
    /\ recs \in [Msgs -> SUBSET {"server.rcv", "server.snd_begin"}]

Init ==
    /\ phase = "listen"
    /\ dialers = 0
    /\ nconn = 0
    /\ st = [c \in Contexts |-> "unused"]
    /\ sock = [c \in Contexts |-> "open"]
    /\ role = [c \in Contexts |-> "none"]
    /\ conn_ctx = NoCtx
    /\ arrived = [s \in Sessions |-> 0]
    /\ handled = [s \in Sessions |-> 0]
    /\ parsing = NoCtx
    /\ batch = 0
    /\ wire = [k \in Conns |-> <<>>]
    /\ recs = [m \in Msgs |-> {}]

-----------------------------------------------------------------------------
(***************************************************************************)
(* main: listen, then dial, each retried every 3 s until it succeeds, then *)
(* clear evloop_data and run; a re-dialling thread retries in the same way.*)
(* muggle_socket_evloop_add_ctx, also called from the dialling threads,    *)
(* queues the context: the loop thread picks it up and calls back.         *)
(***************************************************************************)
nb_tcp_listen ==
    /\ phase = "listen"
    /\ phase' = "dial"
    /\ st' = [st EXCEPT ![Listener] = "queued"]
    /\ UNCHANGED <<dialers, nconn, sock, role, conn_ctx, datavars>>

(* A failed attempt to listen or to dial changes nothing. *)
Retry ==
    /\ phase # "run" \/ dialers > 0
    /\ UNCHANGED vars

nb_tcp_connect ==
    /\ nconn < MaxConn
    /\ nconn' = nconn + 1
    /\ st' = [st EXCEPT ![nconn + 1] = "queued"]

run ==
    /\ phase = "dial"
    /\ nb_tcp_connect
    /\ phase' = "run"
    /\ conn_ctx' = NoCtx
    /\ UNCHANGED <<dialers, sock, role, datavars>>

tcp_async_connect ==
    /\ dialers > 0
    /\ nb_tcp_connect
    /\ dialers' = dialers - 1
    /\ UNCHANGED <<phase, sock, role, conn_ctx, datavars>>

-----------------------------------------------------------------------------
(***************************************************************************)
(* The event loop runs one callback at a time; a session's on_message runs *)
(* one tcp_server_handle_message per whole message it has read.            *)
(***************************************************************************)
LoopIdle == phase = "run" /\ parsing = NoCtx

muggle_socket_ctx_shutdown(c) == sock' = [sock EXCEPT ![c] = "shut"]

(* setsockopt(TCP_NODELAY) may fail: the context is shut down. *)
SetNoDelay(c, ok) ==
    IF ok THEN UNCHANGED sock ELSE muggle_socket_ctx_shutdown(c)

(* Mutant: return on failure, without a session, as on_connect does. *)
add_upstream_returns_early(c, ok) ==
    /\ conn_ctx' = c
    /\ role' = IF ok THEN [role EXCEPT ![c] = "upstream"] ELSE role

(* Mutant: conn_ctx set only after setsockopt has succeeded. *)
add_upstream_late(c, ok) ==
    /\ conn_ctx' = IF ok THEN c ELSE conn_ctx
    /\ role' = [role EXCEPT ![c] = "upstream"]

(* A failed setsockopt still leaves conn_ctx set and a session attached. *)
AddUpstream(c, ok) ==
    /\ conn_ctx' = c
    /\ role' = [role EXCEPT ![c] = "upstream"]

tcp_server_on_add_ctx(c) ==
    /\ LoopIdle
    /\ st[c] = "queued"
    /\ st' = [st EXCEPT ![c] = "live"]
    /\ \/ c = Listener /\ UNCHANGED <<sock, role, conn_ctx>>
       \/ c # Listener /\ \E ok \in BOOLEAN : SetNoDelay(c, ok) /\ AddUpstream(c, ok)
    /\ UNCHANGED <<phase, dialers, nconn, datavars>>

(* An accepted connection; when setsockopt fails it gets no session. *)
tcp_server_on_connect(s) ==
    /\ LoopIdle
    /\ st[Listener] = "live"
    /\ st[s] = "unused"
    /\ st' = [st EXCEPT ![s] = "live"]
    /\ \E ok \in BOOLEAN :
          /\ SetNoDelay(s, ok)
          /\ role' = IF ok THEN [role EXCEPT ![s] = "client"] ELSE role
    /\ UNCHANGED <<phase, dialers, nconn, conn_ctx, datavars>>

(* Mutant: clients are not read while there is no upstream. *)
readable_with_upstream(s) == st[s] = "live" /\ role[s] # "none" /\ conn_ctx # NoCtx

(* A context without a session is not read. *)
Readable(s) == st[s] = "live" /\ role[s] # "none"

(* nb_tcp_session_on_msg reads some or all of what has arrived. *)
tcp_server_on_message(s) ==
    /\ LoopIdle
    /\ Readable(s)
    /\ \E n \in 1 .. MaxMsg :
          /\ handled[s] < n
          /\ n <= arrived[s]
          /\ batch' = n
    /\ parsing' = s
    /\ UNCHANGED <<phase, dialers, nconn, netvars, arrived, handled, wire, recs>>

(***************************************************************************)
(* muggle_socket_ctx_write is non-blocking: all of the message, a part of  *)
(* it, or an error.  After the peer's FIN the kernel may still accept      *)
(* bytes; after a reset or a shutdown it does not.                         *)
(***************************************************************************)
WriteResults(k) ==
    IF sock[k] \in {"open", "eof"} THEN {"full", "short", "error"} ELSE {"error"}

Write(k, m, res) ==
    wire' = IF res = "error" THEN wire
            ELSE [wire EXCEPT ![k] = Append(@, [msg |-> m, whole |-> res = "full"])]

(* Mutant: a short write is only logged. *)
after_write_logs(res, m) ==
    recs' = [recs EXCEPT ![m] = @ \cup {"server.rcv", "server.snd_begin"}] /\ UNCHANGED sock

(* Both records precede the write; a write that is not full cuts the link. *)
RecordAndCheck(res, m) ==
    /\ recs' = [recs EXCEPT ![m] = @ \cup {"server.rcv", "server.snd_begin"}]
    /\ IF res = "full" THEN UNCHANGED sock ELSE muggle_socket_ctx_shutdown(conn_ctx)

(* Forward m to conn_ctx, or drop it when there is no upstream. *)
Forward(m) ==
    \/ /\ conn_ctx = NoCtx
       /\ recs' = [recs EXCEPT ![m] = @ \cup {"server.rcv"}]
       /\ UNCHANGED <<sock, wire>>
    \/ /\ conn_ctx # NoCtx
       /\ \E res \in WriteResults(conn_ctx) :
             Write(conn_ctx, m, res) /\ RecordAndCheck(res, m)

(* Mutant: a message that failed stays in the buffer, to be sent again. *)
reader_move_retries(s) ==
    /\ handled' = IF sock' = sock THEN [handled EXCEPT ![s] = @ + 1] ELSE handled
    /\ parsing' = IF handled'[s] = batch \/ sock' # sock THEN NoCtx ELSE s

(* The message is consumed whatever became of it. *)
ReaderMove(s) ==
    /\ handled' = [handled EXCEPT ![s] = @ + 1]
    /\ parsing' = IF handled[s] + 1 = batch THEN NoCtx ELSE s

tcp_server_handle_message(s) ==
    /\ parsing = s
    /\ Forward(<<s, handled[s] + 1>>)
    /\ ReaderMove(s)
    /\ UNCHANGED <<phase, dialers, nconn, st, role, conn_ctx, arrived, batch>>

(***************************************************************************)
(* The loop closes a context once its socket is finished; a client's FIN   *)
(* is seen only after everything the client sent has been read.            *)
(***************************************************************************)
Finished(c) ==
    /\ sock[c] # "open"
    /\ c \in Sessions /\ role[c] = "client" /\ sock[c] = "eof"
          => handled[c] = arrived[c]

(* Mutant: conn_ctx is left as it is. *)
upstream_lost_keeps_conn == dialers' = dialers + 1 /\ UNCHANGED conn_ctx

(* nb_tcp_async_connect starts a dialling thread. *)
UpstreamLost == dialers' = dialers + 1 /\ conn_ctx' = NoCtx

tcp_server_on_close(c) ==
    /\ LoopIdle
    /\ st[c] = "live"
    /\ Finished(c)
    /\ st' = [st EXCEPT ![c] = "closed"]
    /\ IF role[c] = "upstream" THEN UpstreamLost ELSE UNCHANGED <<dialers, conn_ctx>>
    /\ UNCHANGED <<phase, nconn, sock, role, datavars>>

(* The loop drops its last reference: the session is deleted. *)
tcp_server_on_release(c) ==
    /\ LoopIdle
    /\ st[c] = "closed"
    /\ st' = [st EXCEPT ![c] = "released"]
    /\ role' = [role EXCEPT ![c] = "none"]
    /\ UNCHANGED <<phase, dialers, nconn, sock, conn_ctx, datavars>>

-----------------------------------------------------------------------------
Sent == {m \in Msgs : m[2] <= arrived[m[1]]}

(* The peers: clients send, and any peer may close or die at any time. *)
PeerSend(s) ==
    /\ st[s] = "live"
    /\ sock[s] = "open"
    /\ arrived[s] < MaxMsg
    /\ Cardinality(Sent) < MaxSent
    /\ arrived' = [arrived EXCEPT ![s] = @ + 1]
    /\ UNCHANGED <<phase, dialers, nconn, netvars, handled, parsing, batch, wire, recs>>

PeerClose(c, how) ==
    /\ st[c] \in {"queued", "live"}
    /\ \/ sock[c] = "open"
       \/ sock[c] = "eof" /\ how = "reset"
    /\ sock' = [sock EXCEPT ![c] = how]
    /\ UNCHANGED <<phase, dialers, nconn, st, role, conn_ctx, datavars>>

Next ==
    \/ nb_tcp_listen
    \/ run
    \/ tcp_async_connect
    \/ \E c \in Conns \cup {Listener} : tcp_server_on_add_ctx(c)
    \/ \E s \in Sessions : tcp_server_on_connect(s)
    \/ \E s \in Sessions : tcp_server_on_message(s)
    \/ \E s \in Sessions : tcp_server_handle_message(s)
    \/ \E c \in Sessions \cup Conns : tcp_server_on_close(c)
    \/ \E c \in Sessions \cup Conns : tcp_server_on_release(c)
    \/ \E s \in Sessions : PeerSend(s)
    \/ \E c \in Sessions \cup Conns, how \in {"eof", "reset"} : PeerClose(c, how)
    \/ Retry

Spec == Init /\ [][Next]_vars

(***************************************************************************)
(* Fairness: the loop thread and the dialling threads keep running, the    *)
(* loop serves every ready context, and main gets to run the loop.  The    *)
(* peers owe nothing.                                                      *)
(***************************************************************************)
Fairness ==
    /\ WF_vars(nb_tcp_listen)
    /\ WF_vars(run)
    /\ WF_vars(tcp_async_connect)
    /\ \A c \in Conns \cup {Listener} : WF_vars(tcp_server_on_add_ctx(c))
    /\ \A s \in Sessions : WF_vars(tcp_server_on_message(s))
    /\ \A s \in Sessions : WF_vars(tcp_server_handle_message(s))
    /\ \A c \in Sessions \cup Conns : WF_vars(tcp_server_on_close(c))

FairSpec == Spec /\ Fairness

-----------------------------------------------------------------------------
(* A connection that is waiting for the loop or in it. *)
Active(k) == st[k] \in {"queued", "live"}

(***************************************************************************)
(* There is never more than one upstream connection, whatever fails and in *)
(* whatever order, and once main runs the loop exactly one thread is       *)
(* dialling when there is none: the reconnect chain of on_close and        *)
(* nb_tcp_async_connect neither breaks nor doubles.                        *)
(***************************************************************************)
OneUpstream ==
    /\ \A j, k \in Conns : Active(j) /\ Active(k) => j = k
    /\ phase = "run" =>
          dialers = IF \E k \in Conns : Active(k) THEN 0 ELSE 1

(***************************************************************************)
(* evloop_data->conn_ctx is the live upstream context, and NULL when there *)
(* is none: handle_message never writes to a closed or released context.   *)
(***************************************************************************)
ConnCtxLive ==
    /\ conn_ctx # NoCtx => st[conn_ctx] = "live"
    /\ \A k \in Conns : st[k] = "live" => conn_ctx = k

(***************************************************************************)
(* A frame cut short is the last thing written to its connection, even     *)
(* while the rest of the batch is still being parsed: the upstream never   *)
(* reads the tail of one message as the header of the next.                *)
(***************************************************************************)
WholeFrames ==
    \A k \in Conns : \A i \in DOMAIN wire[k] :
        ~wire[k][i].whole => i = Len(wire[k]) /\ sock[k] = "shut"

(* Frame i of connection j was written before frame l of connection k. *)
Before(j, i, k, l) == j < k \/ (j = k /\ i < l)

(***************************************************************************)
(* A session's messages reach the upstream in the order they were sent and *)
(* at most once, across all reconnections, the cut frames included.        *)
(***************************************************************************)
InOrderOnce ==
    \A j, k \in Conns : \A i \in DOMAIN wire[j], l \in DOMAIN wire[k] :
        LET m == wire[j][i].msg
            n == wire[k][l].msg
        IN  Before(j, i, k, l) /\ m[1] = n[1] => m[2] < n[2]

(***************************************************************************)
(* What the latency analysis relies on: "server.rcv" is recorded for       *)
(* exactly the messages handled, and nothing is written, not even in part, *)
(* without both records.                                                   *)
(***************************************************************************)
RecordsMatch ==
    /\ \A m \in Msgs : "server.rcv" \in recs[m] <=> m[2] <= handled[m[1]]
    /\ \A k \in Conns : \A i \in DOMAIN wire[k] :
          recs[wire[k][i].msg] = {"server.rcv", "server.snd_begin"}

(***************************************************************************)
(* The server implements Relay.  A link exists once the loop has taken the *)
(* connection; what it relayed is the whole frames, all but a cut one.     *)
(***************************************************************************)
LinkOf == [open |-> "up", eof |-> "closing", reset |-> "cut", shut |-> "cut"]

Link == IF conn_ctx = NoCtx THEN "down" ELSE LinkOf[sock[conn_ctx]]

Links == 1 .. IF nconn # 0 /\ st[nconn] = "queued" THEN nconn - 1 ELSE nconn

Relayed(k) ==
    LET n == Len(wire[k])
    IN  [i \in 1 .. (IF n # 0 /\ ~wire[k][n].whole THEN n - 1 ELSE n) |->
            wire[k][i].msg]

Log == [k \in Links |-> Relayed(k)]

R == INSTANCE Relay WITH link <- Link, taken <- handled, log <- Log

RelaySpec == R!Spec

(***************************************************************************)
(* Whenever the upstream is gone, a connection is back in the end, as long *)
(* as the model has one left to dial.                                      *)
(***************************************************************************)
LinkRecovers ==
    (phase = "run" /\ conn_ctx = NoCtx /\ nconn < MaxConn) ~> conn_ctx # NoCtx

(***************************************************************************)
(* Every message a client got through to the server is handled in the end, *)
(* however the upstream comes and goes, unless its session is reset.       *)
(***************************************************************************)
SessionDrained ==
    \A s \in Sessions :
        (role[s] = "client" /\ handled[s] < arrived[s])
            ~> (handled[s] = arrived[s] \/ sock[s] = "reset")
=============================================================================
