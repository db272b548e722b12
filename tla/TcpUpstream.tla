----------------------------- MODULE TcpUpstream -----------------------------
(***************************************************************************)
(* app/tcp_upstream: an event loop that accepts the connections of servers *)
(* and records every message it receives.  As in TcpServer, the input of a *)
(* connection is counted in whole messages.                                *)
(***************************************************************************)
EXTENDS Naturals

CONSTANTS Links,        \* socket contexts of the servers' connections
          NoLink,       \* no context
          MaxMsg        \* bound: messages sent on a link

ASSUME UpstreamAssumption == NoLink \notin Links /\ MaxMsg \in Nat

VARIABLES phase,        \* how far run() of main has got
          st,           \* per link, its place in the event loop
          sock,         \* per link, what can be done with its socket
          session,      \* the contexts that have a session
          arrived,      \* per link, messages received by the kernel
          handled,      \* per link, messages recorded
          parsing,      \* the link whose buffer the loop is parsing
          batch         \* ... and the last message it has read

loopvars == <<phase, st, sock, session>>
vars     == <<loopvars, arrived, handled, parsing, batch>>

TypeOK ==
    /\ phase \in {"listen", "run"}
    /\ st \in [Links -> {"unused", "live", "closed", "released"}]
    /\ sock \in [Links -> {"open", "eof", "reset", "shut"}]
    /\ session \subseteq Links
    /\ arrived \in [Links -> 0 .. MaxMsg]
    /\ handled \in [Links -> 0 .. MaxMsg]
    /\ parsing \in Links \cup {NoLink}
    /\ batch \in 0 .. MaxMsg

Start ==
    /\ phase = "listen"
    /\ st = [k \in Links |-> "unused"]
    /\ sock = [k \in Links |-> "open"]
    /\ session = {}
    /\ handled = [k \in Links |-> 0]
    /\ parsing = NoLink
    /\ batch = 0

Init == Start /\ arrived = [k \in Links |-> 0]

-----------------------------------------------------------------------------
(* A failed attempt to listen is repeated after 3 s. *)
Retry == phase = "listen" /\ UNCHANGED vars

run ==
    /\ phase = "listen"
    /\ phase' = "run"
    /\ UNCHANGED <<st, sock, session, arrived, handled, parsing, batch>>

LoopIdle == phase = "run" /\ parsing = NoLink

(* When setsockopt fails the context is shut down, and gets no session. *)
tcp_upstream_on_connect(k) ==
    /\ LoopIdle
    /\ st[k] = "unused"
    /\ st' = [st EXCEPT ![k] = "live"]
    /\ \E ok \in BOOLEAN :
          /\ sock' = IF ok THEN sock ELSE [sock EXCEPT ![k] = "shut"]
          /\ session' = IF ok THEN session \cup {k} ELSE session
    /\ UNCHANGED <<phase, arrived, handled, parsing, batch>>

(* Some or all of what has arrived; nothing without a session. *)
tcp_upstream_on_message(k) ==
    /\ LoopIdle
    /\ st[k] = "live"
    /\ k \in session
    /\ handled[k] < arrived[k]
    /\ batch' \in handled[k] + 1 .. arrived[k]
    /\ parsing' = k
    /\ UNCHANGED <<loopvars, arrived, handled>>

(* Mutant: the parse loop runs one message too far. *)
last_of_batch_late(k) == handled[k] = batch

LastOfBatch(k) == handled[k] + 1 = batch

tcp_upstream_handle_message(k) ==
    /\ parsing = k
    /\ handled' = [handled EXCEPT ![k] = @ + 1]
    /\ parsing' = IF LastOfBatch(k) THEN NoLink ELSE k
    /\ UNCHANGED <<loopvars, arrived, batch>>

(* Mutant: what was not read before the FIN is dropped. *)
finished_at_fin(k) == sock[k] # "open"

(* A FIN is seen after everything before it has been read. *)
Finished(k) ==
    /\ sock[k] # "open"
    /\ k \in session /\ sock[k] = "eof" => handled[k] = arrived[k]

tcp_upstream_on_close(k) ==
    /\ LoopIdle
    /\ st[k] = "live"
    /\ Finished(k)
    /\ st' = [st EXCEPT ![k] = "closed"]
    /\ UNCHANGED <<phase, sock, session, arrived, handled, parsing, batch>>

(* Mutant: the session is forgotten. *)
forget_session(k) == UNCHANGED session

DeleteSession(k) == session' = session \ {k}

tcp_upstream_on_release(k) ==
    /\ LoopIdle
    /\ st[k] = "closed"
    /\ st' = [st EXCEPT ![k] = "released"]
    /\ DeleteSession(k)
    /\ UNCHANGED <<phase, sock, arrived, handled, parsing, batch>>

Callback(k) ==
    \/ tcp_upstream_on_connect(k)
    \/ tcp_upstream_on_message(k)
    \/ tcp_upstream_handle_message(k)
    \/ tcp_upstream_on_close(k)
    \/ tcp_upstream_on_release(k)

-----------------------------------------------------------------------------
(* The servers send, and may close or break a connection. *)
PeerSend(k) ==
    /\ st[k] \in {"unused", "live"}
    /\ sock[k] = "open"
    /\ arrived[k] < MaxMsg
    /\ arrived' = [arrived EXCEPT ![k] = @ + 1]
    /\ UNCHANGED <<loopvars, handled, parsing, batch>>

PeerClose(k, how) ==
    /\ st[k] = "live"
    /\ sock[k] = "open" \/ (sock[k] = "eof" /\ how = "reset")
    /\ sock' = [sock EXCEPT ![k] = how]
    /\ UNCHANGED <<phase, st, session, arrived, handled, parsing, batch>>

Quiet == phase = "run" /\ (\A k \in Links : st[k] = "released") /\ UNCHANGED vars

Next ==
    \/ Retry
    \/ run
    \/ \E k \in Links : Callback(k)
    \/ \E k \in Links : PeerSend(k)
    \/ \E k \in Links, how \in {"eof", "reset"} : PeerClose(k, how)
    \/ Quiet

Spec == Init /\ [][Next]_vars

(* The loop serves each context that is ready; the servers owe nothing. *)
FairSpec ==
    /\ Spec
    /\ WF_vars(run)
    /\ \A k \in Links :
          WF_vars(tcp_upstream_on_message(k)) /\ WF_vars(tcp_upstream_handle_message(k))

-----------------------------------------------------------------------------
(***************************************************************************)
(* The session of a context is alive for as long as a callback may use it, *)
(* and is deleted with the context; one that was shut down in on_connect   *)
(* has none, so that nothing is read from it.                              *)
(***************************************************************************)
SessionOwned ==
    /\ \A k \in session : st[k] \in {"live", "closed"}
    /\ \A k \in Links : st[k] \in {"live", "closed"} /\ k \notin session => sock[k] = "shut"
    /\ parsing # NoLink => parsing \in session /\ st[parsing] = "live"

(***************************************************************************)
(* Every message of a link is recorded in order and once, and none after   *)
(* its close: what MessageStream promises of one session, for all links    *)
(* that share the loop.                                                    *)
(***************************************************************************)
Stream(k) == INSTANCE MessageStream WITH
    arrived <- arrived[k], handled <- handled[k],
    open <- st[k] \in {"unused", "live"}

StreamsSpec ==
    /\ \A k \in Links : Stream(k)!Init
    /\ [][\A k \in Links : Stream(k)!Next \/ UNCHANGED Stream(k)!vars]_vars

(***************************************************************************)
(* Whatever reaches the program on a link with a session is recorded,      *)
(* unless the connection is reset.                                         *)
(***************************************************************************)
LinkDrained ==
    \A k \in Links :
        k \in session /\ handled[k] < arrived[k]
            ~> handled[k] = arrived[k] \/ sock[k] = "reset"
=============================================================================
