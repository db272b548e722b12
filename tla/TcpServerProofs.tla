--------------------------- MODULE TcpServerProofs ---------------------------
(***************************************************************************)
(* Proofs about TcpServer, for every number of sessions, connections and   *)
(* messages.                                                               *)
(***************************************************************************)
EXTENDS TcpServer, TLAPS

(* The session being parsed has a message left that has arrived. *)
ParseInv ==
    /\ \A s \in Sessions : handled[s] <= arrived[s]
    /\ parsing # NoCtx =>
          /\ handled[parsing] < batch
          /\ batch <= arrived[parsing]

TypeInv == TypeOK /\ ParseInv

(***************************************************************************)
(* The connections form a line: all but the last one dialled are over.     *)
(***************************************************************************)
LineInv ==
    /\ phase # "run" => nconn = 0 /\ dialers = 0
    /\ phase = "run" => nconn # 0
    /\ \A k \in Conns :
          /\ k > nconn => st[k] = "unused"
          /\ k < nconn => st[k] \in {"closed", "released"}
          /\ k = nconn => st[k] # "unused"
          /\ st[k] = "live" => role[k] = "upstream"
          /\ st[k] = "live" <=> conn_ctx = k
    /\ \A s \in Sessions : role[s] # "upstream"
    /\ phase = "run" =>
          dialers = IF st[nconn] \in {"queued", "live"} THEN 0 ELSE 1

-----------------------------------------------------------------------------
LEMMA ContextFacts ==
    /\ Sessions \subseteq Contexts
    /\ Conns \subseteq Contexts
    /\ Listener \in Contexts
    /\ \A s \in Sessions : s \notin Conns /\ s # Listener /\ s # NoCtx
    /\ \A k \in Conns : k # Listener /\ k # NoCtx /\ k \in Nat /\ k # 0
    /\ \A n \in 0 .. MaxConn : n < MaxConn => n + 1 \in Conns
    /\ \A n \in 0 .. MaxConn : n # 0 => n \in Conns
    /\ MaxConn \in Nat /\ MaxMsg \in Nat
BY ServerAssumption DEF Conns, Contexts

LEMMA TypeInvInit == Init => TypeInv
BY ServerAssumption DEF Init, TypeInv, TypeOK, ParseInv, Msgs, Frames

(* A frame of a message that has arrived is a frame. *)
LEMMA FrameType ==
  ASSUME NEW s \in Sessions, NEW n \in 1 .. MaxMsg, NEW b \in BOOLEAN
  PROVE  [msg |-> <<s, n>>, whole |-> b] \in Frames
BY DEF Frames, Msgs

LEMMA HandleMessageType ==
  ASSUME TypeInv, NEW s \in Sessions, tcp_server_handle_message(s)
  PROVE  TypeInv'
<1> DEFINE n == handled[s] + 1
           m == <<s, n>>
<1>1. /\ n \in 1 .. MaxMsg
      /\ n <= batch /\ batch <= arrived[s]
      /\ parsing = s
      /\ UNCHANGED <<phase, dialers, nconn, st, role, conn_ctx, arrived, batch>>
  BY ContextFacts DEF TypeInv, TypeOK, ParseInv, tcp_server_handle_message
<1>2. m \in Msgs
  BY <1>1 DEF Msgs
<1> HIDE DEF n
<1>3. sock' \in [Contexts -> {"open", "eof", "reset", "shut"}]
  BY ContextFacts DEF TypeInv, TypeOK, tcp_server_handle_message, Forward,
     RecordAndCheck, muggle_socket_ctx_shutdown
<1>4. wire' \in [Conns -> Seq(Frames)]
  <2>1. ASSUME NEW k \in Conns, NEW res, Write(k, m, res)
        PROVE  wire' \in [Conns -> Seq(Frames)]
    <3> DEFINE f == [msg |-> m, whole |-> res = "full"]
    <3>1. f \in Frames
      BY <1>1, FrameType
    <3> HIDE DEF f
    <3>2. ASSUME NEW q \in Seq(Frames) PROVE Append(q, f) \in Seq(Frames)
      BY <3>1
    <3>3. wire' = wire \/ wire' = [wire EXCEPT ![k] = Append(@, f)]
      BY <2>1 DEF Write, f
    <3>4. wire \in [Conns -> Seq(Frames)] /\ wire[k] \in Seq(Frames)
      BY DEF TypeInv, TypeOK
    <3>5. Append(wire[k], f) \in Seq(Frames)
      BY <3>2, <3>4
    <3> QED
      BY <3>3, <3>4, <3>5, Zenon
  <2> QED
    BY <2>1, ContextFacts DEF TypeInv, TypeOK, tcp_server_handle_message, Forward, n
<1>5. recs' \in [Msgs -> SUBSET {"server.rcv", "server.snd_begin"}]
  <2>1. \/ recs' = [recs EXCEPT ![m] = @ \cup {"server.rcv"}]
        \/ recs' = [recs EXCEPT ![m] = @ \cup {"server.rcv", "server.snd_begin"}]
    BY DEF tcp_server_handle_message, Forward, RecordAndCheck, n
  <2> HIDE DEF m
  <2>2. recs \in [Msgs -> SUBSET {"server.rcv", "server.snd_begin"}]
    BY DEF TypeInv, TypeOK
  <2>3. PICK v \in SUBSET {"server.rcv", "server.snd_begin"} : recs' = [recs EXCEPT ![m] = v]
    <3>1. recs[m] \in SUBSET {"server.rcv", "server.snd_begin"}
      BY <1>2, <2>2, Zenon
    <3> QED
      BY <2>1, <3>1, Zenon
  <2> QED
    BY <1>2, <2>2, <2>3, Zenon
<1>6. /\ handled' = [handled EXCEPT ![s] = n]
      /\ parsing' = IF n = batch THEN NoCtx ELSE s
  BY DEF tcp_server_handle_message, ReaderMove, n
<1>7. ParseInv'
  BY <1>1, <1>6 DEF TypeInv, TypeOK, ParseInv
<1> QED
  BY <1>1, <1>3, <1>4, <1>5, <1>6, <1>7 DEF TypeInv, TypeOK

LEMMA TypeInvNext == TypeInv /\ [Next]_vars => TypeInv'
<1> SUFFICES ASSUME TypeInv, [Next]_vars PROVE TypeInv'
  OBVIOUS
<1> USE ContextFacts
<1>1. CASE nb_tcp_listen
  BY <1>1 DEF TypeInv, TypeOK, ParseInv, nb_tcp_listen, datavars
<1>2. CASE run
  BY <1>2 DEF TypeInv, TypeOK, ParseInv, run, nb_tcp_connect, datavars
<1>3. CASE tcp_async_connect
  BY <1>3 DEF TypeInv, TypeOK, ParseInv, tcp_async_connect, nb_tcp_connect, datavars
<1>4. ASSUME NEW c \in Conns \cup {Listener}, tcp_server_on_add_ctx(c)
      PROVE  TypeInv'
  BY <1>4 DEF TypeInv, TypeOK, ParseInv, tcp_server_on_add_ctx, SetNoDelay,
              AddUpstream, muggle_socket_ctx_shutdown, datavars
<1>5. ASSUME NEW s \in Sessions, tcp_server_on_connect(s)
      PROVE  TypeInv'
  BY <1>5 DEF TypeInv, TypeOK, ParseInv, tcp_server_on_connect, SetNoDelay,
              muggle_socket_ctx_shutdown, datavars
<1>6. ASSUME NEW s \in Sessions, tcp_server_on_message(s)
      PROVE  TypeInv'
  BY <1>6 DEF TypeInv, TypeOK, ParseInv, tcp_server_on_message, netvars
<1>7. ASSUME NEW s \in Sessions, tcp_server_handle_message(s)
      PROVE  TypeInv'
  BY <1>7, HandleMessageType
<1>8. ASSUME NEW c \in Sessions \cup Conns, tcp_server_on_close(c)
      PROVE  TypeInv'
  BY <1>8 DEF TypeInv, TypeOK, ParseInv, tcp_server_on_close, UpstreamLost, datavars
<1>9. ASSUME NEW c \in Sessions \cup Conns, tcp_server_on_release(c)
      PROVE  TypeInv'
  BY <1>9 DEF TypeInv, TypeOK, ParseInv, tcp_server_on_release, datavars
<1>10. ASSUME NEW s \in Sessions, PeerSend(s)
       PROVE  TypeInv'
  BY <1>10 DEF TypeInv, TypeOK, ParseInv, PeerSend, netvars
<1>11. ASSUME NEW c \in Sessions \cup Conns, NEW how \in {"eof", "reset"},
              PeerClose(c, how)
       PROVE  TypeInv'
  BY <1>11 DEF TypeInv, TypeOK, ParseInv, PeerClose, datavars
<1>12. CASE UNCHANGED vars
  BY <1>12 DEF TypeInv, TypeOK, ParseInv, vars, netvars, datavars
<1> QED
  BY <1>1, <1>2, <1>3, <1>4, <1>5, <1>6, <1>7, <1>8, <1>9, <1>10, <1>11, <1>12
     DEF Next, Retry

(***************************************************************************)
(* The variables keep their types: no message is handled that has not      *)
(* arrived, and conn_ctx is an upstream connection or NULL.                *)
(***************************************************************************)
THEOREM TypeCorrect == Spec => []TypeOK
<1>1. TypeInv => TypeOK
  BY DEF TypeInv
<1> QED
  BY <1>1, TypeInvInit, TypeInvNext, PTL DEF Spec

-----------------------------------------------------------------------------
(***************************************************************************)
(* A connection not yet taken by the loop has carried nothing, and what a  *)
(* connection carried had been handled.                                    *)
(***************************************************************************)
WireInv ==
    \A k \in Conns :
        /\ st[k] \in {"unused", "queued"} => wire[k] = <<>>
        /\ \A i \in DOMAIN wire[k] :
              wire[k][i].msg[2] <= handled[wire[k][i].msg[1]]

DataInv == WireInv /\ WholeFrames /\ InOrderOnce /\ RecordsMatch

IInv == TypeInv /\ LineInv /\ DataInv

LEMMA LineInvInit == Init => LineInv
BY ContextFacts DEF Init, LineInv

LEMMA LineInvNext == TypeInv /\ LineInv /\ [Next]_vars => LineInv'
<1> SUFFICES ASSUME TypeOK, LineInv, [Next]_vars PROVE LineInv'
  BY DEF TypeInv
<1> USE ContextFacts
<1>1. CASE nb_tcp_listen
  BY <1>1 DEF TypeOK, LineInv, nb_tcp_listen, datavars
<1>2. CASE run
  BY <1>2 DEF TypeOK, LineInv, run, nb_tcp_connect, datavars
<1>3. CASE tcp_async_connect
  BY <1>3 DEF TypeOK, LineInv, tcp_async_connect, nb_tcp_connect, datavars
<1>4. ASSUME NEW c \in Conns \cup {Listener},
              tcp_server_on_add_ctx(c)
       PROVE  LineInv'
  BY <1>4 DEF TypeOK, LineInv, tcp_server_on_add_ctx, LoopIdle, AddUpstream, datavars
<1>5. ASSUME NEW s \in Sessions,
              tcp_server_on_connect(s)
       PROVE  LineInv'
  BY <1>5 DEF TypeOK, LineInv, tcp_server_on_connect, LoopIdle, datavars
<1>6. ASSUME NEW s \in Sessions,
              tcp_server_on_message(s)
       PROVE  LineInv'
  BY <1>6 DEF TypeOK, LineInv, tcp_server_on_message, netvars
<1>7. ASSUME NEW s \in Sessions,
              tcp_server_handle_message(s)
       PROVE  LineInv'
  BY <1>7 DEF TypeOK, LineInv, tcp_server_handle_message
<1>8. ASSUME NEW c \in Sessions \cup Conns,
              tcp_server_on_close(c)
       PROVE  LineInv'
  <2>1. CASE c \in Sessions
    BY <1>8, <2>1 DEF TypeOK, LineInv, tcp_server_on_close, LoopIdle, datavars
  <2>2. CASE c \in Conns
    <3>1. /\ c = nconn /\ conn_ctx = c /\ phase = "run" /\ dialers = 0
          /\ st[c] = "live"
      <4>1. phase = "run" /\ st[c] = "live"
        BY <1>8 DEF tcp_server_on_close, LoopIdle
      <4>2. ~(c > nconn) /\ ~(c < nconn)
        BY <2>2, <4>1 DEF LineInv
      <4>3. c = nconn
        BY <2>2, <4>2 DEF TypeOK
      <4>4. conn_ctx = c /\ dialers = 0
        BY <2>2, <4>1, <4>3 DEF LineInv
      <4> QED
        BY <4>1, <4>3, <4>4
    <3>2. /\ st' = [st EXCEPT ![c] = "closed"]
          /\ dialers' = 1 /\ conn_ctx' = NoCtx
          /\ UNCHANGED <<phase, nconn, role>>
      <4>1. role[c] = "upstream"
        BY <2>2, <3>1 DEF LineInv
      <4> QED
        BY <1>8, <3>1, <4>1 DEF tcp_server_on_close, UpstreamLost, datavars
    <3> QED
      BY <2>2, <3>1, <3>2 DEF TypeOK, LineInv
  <2> QED
    BY <2>1, <2>2
<1>9. ASSUME NEW c \in Sessions \cup Conns,
              tcp_server_on_release(c)
       PROVE  LineInv'
  BY <1>9 DEF TypeOK, LineInv, tcp_server_on_release, LoopIdle, datavars
<1>10. ASSUME NEW s \in Sessions,
              PeerSend(s)
       PROVE  LineInv'
  BY <1>10 DEF TypeOK, LineInv, PeerSend, netvars
<1>11. ASSUME NEW c \in Sessions \cup Conns, NEW how \in {"eof", "reset"},
              PeerClose(c, how)
       PROVE  LineInv'
  BY <1>11 DEF TypeOK, LineInv, PeerClose, datavars
<1>12. CASE UNCHANGED vars
  BY <1>12 DEF TypeOK, LineInv, vars, netvars, datavars
<1> QED
  BY <1>1, <1>2, <1>3, <1>4, <1>5, <1>6, <1>7, <1>8, <1>9, <1>10, <1>11, <1>12
     DEF Next, Retry

LEMMA LineCorrect == Spec => [](TypeInv /\ LineInv)
  BY TypeInvInit, TypeInvNext, LineInvInit, LineInvNext, PTL DEF Spec

(***************************************************************************)
(* There is never more than one upstream connection, and once the loop     *)
(* runs exactly one dialling thread when there is none.                    *)
(***************************************************************************)
THEOREM OneUpstreamHolds == Spec => []OneUpstream
<1>1. TypeInv /\ LineInv => OneUpstream
  <2> SUFFICES ASSUME TypeOK, LineInv PROVE OneUpstream
    BY DEF TypeInv
  <2>1. \A k \in Conns : Active(k) => k = nconn
    <3> TAKE k \in Conns
    <3>1. ~(k > nconn) /\ ~(k < nconn) => k = nconn
      BY ContextFacts DEF TypeOK
    <3>2. Active(k) => ~(k > nconn) /\ ~(k < nconn)
      BY DEF LineInv, Active
    <3> QED
      BY <3>1, <3>2
  <2>2. phase = "run" => nconn \in Conns
    BY ContextFacts DEF TypeOK, LineInv
  <2>3. phase = "run" => dialers = IF Active(nconn) THEN 0 ELSE 1
    BY DEF LineInv, Active
  <2>4. phase = "run" => (Active(nconn) <=> \E k \in Conns : Active(k))
    BY <2>1, <2>2
  <2>5. \A j, k \in Conns : Active(j) /\ Active(k) => j = k
    BY <2>1
  <2>6. CASE \E k \in Conns : Active(k)
    BY <2>3, <2>4, <2>5, <2>6 DEF OneUpstream
  <2>7. CASE ~ \E k \in Conns : Active(k)
    BY <2>3, <2>4, <2>5, <2>7 DEF OneUpstream
  <2> QED
    BY <2>6, <2>7
<1> QED
  BY <1>1, LineCorrect, PTL

(***************************************************************************)
(* conn_ctx is the live upstream context, and NULL when there is none: the *)
(* server never writes to a context that has been closed or released.      *)
(***************************************************************************)
THEOREM ConnCtxLiveHolds == Spec => []ConnCtxLive
<1>1. TypeInv /\ LineInv => ConnCtxLive
  BY DEF TypeInv, TypeOK, LineInv, ConnCtxLive
<1> QED
  BY <1>1, LineCorrect, PTL

-----------------------------------------------------------------------------
LEMMA DataInvInit == Init => DataInv
<1> SUFFICES ASSUME Init PROVE DataInv
  OBVIOUS
<1>1. \A k \in Conns : wire[k] = <<>> /\ DOMAIN wire[k] = {}
  BY DEF Init
<1>2. WireInv /\ WholeFrames /\ InOrderOnce
  BY <1>1 DEF WireInv, WholeFrames, InOrderOnce
<1>3. RecordsMatch
  BY <1>1 DEF Init, Msgs, RecordsMatch
<1> QED
  BY <1>2, <1>3 DEF DataInv

(* Every action but handle_message leaves the wire and the records alone. *)
LEMMA DataInvFrame ==
  ASSUME DataInv,
         UNCHANGED <<handled, wire, recs>>,
         \A k \in Conns : sock[k] = "shut" => sock'[k] = "shut",
         \A k \in Conns : st'[k] \in {"unused", "queued"} =>
                             st[k] \in {"unused", "queued"}
  PROVE  DataInv'
<1>1. WireInv'
  BY DEF DataInv, WireInv
<1>2. WholeFrames'
  BY DEF DataInv, WholeFrames
<1>3. InOrderOnce'
  BY DEF DataInv, InOrderOnce, Before
<1>4. RecordsMatch'
  BY DEF DataInv, RecordsMatch
<1> QED
  BY <1>1, <1>2, <1>3, <1>4 DEF DataInv

(***************************************************************************)
(* A message written on connection k: it is later than everything written  *)
(* before it, because what was written had been handled.                   *)
(***************************************************************************)
LEMMA DataInvWrite ==
  ASSUME TypeInv, LineInv, DataInv,
         NEW s \in Sessions, NEW k \in Conns, NEW b \in BOOLEAN,
         conn_ctx = k,
         handled[s] + 1 \in 1 .. MaxMsg,
         sock[k] \in {"open", "eof"},
         handled' = [handled EXCEPT ![s] = @ + 1],
         recs' = [recs EXCEPT ![<<s, handled[s] + 1>>] =
                                  @ \cup {"server.rcv", "server.snd_begin"}],
         wire' = [wire EXCEPT ![k] =
                     Append(@, [msg |-> <<s, handled[s] + 1>>, whole |-> b])],
         sock' = IF b THEN sock ELSE [sock EXCEPT ![k] = "shut"],
         UNCHANGED <<st, conn_ctx, nconn>>
  PROVE  DataInv'
<1> DEFINE m == <<s, handled[s] + 1>>
           f == [msg |-> m, whole |-> b]
           q == wire[k]
           old(j) == 1 .. Len(wire[j])
<1>1. /\ m \in Msgs /\ m[1] = s /\ m[2] = handled[s] + 1
      /\ f \in Frames /\ f.msg = m /\ f.whole = b
  BY FrameType DEF Msgs
<1>2. /\ \A j \in Conns : wire[j] \in Seq(Frames) /\ Len(wire[j]) \in Nat
      /\ \A j \in Conns : DOMAIN wire[j] = old(j)
      /\ \A j \in Conns : \A i \in old(j) : wire[j][i] \in Frames
      /\ handled \in [Sessions -> 0 .. MaxMsg]
  BY DEF TypeInv, TypeOK
<1>3. /\ \A j \in Conns : j # k => wire'[j] = wire[j]
      /\ wire'[k] = Append(q, f)
  BY DEF TypeInv, TypeOK
<1>4. /\ DOMAIN wire'[k] = 1 .. Len(q) + 1
      /\ Len(wire'[k]) = Len(q) + 1
      /\ \A i \in old(k) : wire'[k][i] = wire[k][i]
      /\ wire'[k][Len(q) + 1] = f
  BY <1>1, <1>2, <1>3
<1>5. \A j \in Conns : \A i \in DOMAIN wire'[j] :
         \/ i \in old(j) /\ wire'[j][i] = wire[j][i]
         \/ j = k /\ i = Len(q) + 1 /\ wire'[j][i] = f
  BY <1>2, <1>3, <1>4
<1>6. \A j \in Conns : j > k => wire[j] = <<>> /\ old(j) = {}
  <2> SUFFICES ASSUME NEW j \in Conns, j > k PROVE wire[j] = <<>> /\ old(j) = {}
    OBVIOUS
  <2>1. st[k] = "live"
    BY DEF LineInv
  <2>2. ~(k > nconn) /\ ~(k < nconn)
    BY <2>1 DEF LineInv
  <2>3. j > nconn
    BY <2>2, ContextFacts DEF TypeInv, TypeOK
  <2>4. wire[j] = <<>>
    BY <2>3 DEF LineInv, DataInv, WireInv
  <2> QED
    BY <2>4
<1>7. \A j \in Conns : \A i \in old(j) :
         /\ wire[j][i].msg \in Msgs
         /\ wire[j][i].msg[2] <= handled[wire[j][i].msg[1]]
  BY <1>2 DEF DataInv, WireInv, Frames
<1>8. /\ handled'[s] = handled[s] + 1
      /\ \A r \in Sessions : r # s => handled'[r] = handled[r]
      /\ \A r \in Sessions : handled[r] \in Nat
  BY <1>2
<1>. HIDE DEF f, m, q, old
<1>9. WireInv'
  <2> SUFFICES ASSUME NEW j \in Conns
               PROVE  /\ st[j] \in {"unused", "queued"} => wire'[j] = <<>>
                      /\ \A i \in DOMAIN wire'[j] :
                            wire'[j][i].msg[2] <= handled'[wire'[j][i].msg[1]]
    BY DEF WireInv
  <2>1. st[j] \in {"unused", "queued"} => wire'[j] = <<>>
    BY <1>3 DEF DataInv, WireInv, LineInv
  <2>2. ASSUME NEW i \in DOMAIN wire'[j]
        PROVE  wire'[j][i].msg[2] <= handled'[wire'[j][i].msg[1]]
    <3>1. CASE i \in old(j) /\ wire'[j][i] = wire[j][i]
      BY <3>1, <1>7, <1>8 DEF Msgs
    <3>2. CASE wire'[j][i] = f
      BY <3>2, <1>1, <1>8
    <3> QED
      BY <1>5, <3>1, <3>2
  <2> QED
    BY <2>1, <2>2
<1>10. WholeFrames'
  <2> SUFFICES ASSUME NEW j \in Conns, NEW i \in DOMAIN wire'[j],
                      ~wire'[j][i].whole
               PROVE  i = Len(wire'[j]) /\ sock'[j] = "shut"
    BY DEF WholeFrames
  <2>1. CASE i \in old(j) /\ wire'[j][i] = wire[j][i]
    <3>1. i = Len(wire[j]) /\ sock[j] = "shut"
      BY <2>1, <1>2 DEF DataInv, WholeFrames
    <3>2. j # k
      BY <3>1
    <3> QED
      BY <3>1, <3>2, <1>3 DEF TypeInv, TypeOK
  <2>2. CASE j = k /\ i = Len(q) + 1 /\ wire'[j][i] = f
    BY <2>2, <1>1, <1>4, ContextFacts DEF TypeInv, TypeOK
  <2> QED
    BY <1>5, <2>1, <2>2
<1>11. InOrderOnce'
  <2> SUFFICES ASSUME NEW j1 \in Conns, NEW j2 \in Conns,
                      NEW i1 \in DOMAIN wire'[j1], NEW i2 \in DOMAIN wire'[j2],
                      j1 < j2 \/ (j1 = j2 /\ i1 < i2),
                      wire'[j1][i1].msg[1] = wire'[j2][i2].msg[1]
               PROVE  wire'[j1][i1].msg[2] < wire'[j2][i2].msg[2]
    BY DEF InOrderOnce, Before
  <2>1. CASE wire'[j2][i2] = f /\ j2 = k /\ i2 = Len(q) + 1
    <3>1. i1 \in old(j1) /\ wire'[j1][i1] = wire[j1][i1]
      BY <2>1, <1>5, <1>2, ContextFacts
    <3>2. wire[j1][i1].msg \in Msgs /\ wire[j1][i1].msg[2] <= handled[s]
      BY <3>1, <2>1, <1>1, <1>7
    <3> QED
      BY <3>1, <3>2, <2>1, <1>1, <1>8 DEF Msgs
  <2>2. CASE i2 \in old(j2) /\ wire'[j2][i2] = wire[j2][i2]
    <3>1. i1 \in old(j1) /\ wire'[j1][i1] = wire[j1][i1]
      <4>1. SUFFICES ASSUME j1 = k, i1 = Len(q) + 1 PROVE FALSE
        BY <1>5
      <4>2. CASE j1 < j2
        BY <4>1, <4>2, <2>2, <1>6, ContextFacts
      <4>3. CASE j1 = j2 /\ i1 < i2
        BY <4>1, <4>3, <2>2, <1>2 DEF old, q
      <4> QED
        BY <4>2, <4>3
    <3> QED
      BY <3>1, <2>2, <1>2 DEF DataInv, InOrderOnce, Before
  <2> QED
    BY <1>5, <2>1, <2>2
<1>12. RecordsMatch'
  <2>1. /\ recs \in [Msgs -> SUBSET {"server.rcv", "server.snd_begin"}]
        /\ recs'[m] = {"server.rcv", "server.snd_begin"}
        /\ \A x \in Msgs : x # m => recs'[x] = recs[x]
    BY <1>1 DEF TypeInv, TypeOK, m
  <2>2. ASSUME NEW x \in Msgs
        PROVE  "server.rcv" \in recs'[x] <=> x[2] <= handled'[x[1]]
    <3>1. CASE x = m
      BY <3>1, <2>1, <1>1, <1>8
    <3>2. CASE x # m
      <4>1. "server.rcv" \in recs[x] <=> x[2] <= handled[x[1]]
        BY DEF DataInv, RecordsMatch
      <4>2. CASE x[1] = s
        <5>1. x[2] # m[2]
          BY <3>2, <4>2 DEF Msgs, m
        <5> QED
          BY <3>2, <2>1, <4>1, <4>2, <5>1, <1>1, <1>8 DEF Msgs
      <4>3. CASE x[1] # s
        BY <3>2, <2>1, <4>1, <4>3, <1>8 DEF Msgs
      <4> QED
        BY <4>2, <4>3
    <3> QED
      BY <3>1, <3>2
  <2>3. ASSUME NEW j \in Conns, NEW i \in DOMAIN wire'[j]
        PROVE  recs'[wire'[j][i].msg] = {"server.rcv", "server.snd_begin"}
    <3>1. CASE i \in old(j) /\ wire'[j][i] = wire[j][i]
      BY <3>1, <2>1, <1>2, <1>7 DEF DataInv, RecordsMatch
    <3>2. CASE wire'[j][i] = f
      BY <3>2, <2>1, <1>1
    <3> QED
      BY <1>5, <3>1, <3>2
  <2> QED
    BY <2>2, <2>3 DEF RecordsMatch
<1> QED
  BY <1>9, <1>10, <1>11, <1>12 DEF DataInv

(* A message that leaves nothing on the wire: dropped, or the write failed. *)
LEMMA DataInvLose ==
  ASSUME TypeInv, LineInv, DataInv,
         NEW s \in Sessions,
         NEW A \in SUBSET {"server.rcv", "server.snd_begin"}, "server.rcv" \in A,
         handled[s] + 1 \in 1 .. MaxMsg,
         handled' = [handled EXCEPT ![s] = @ + 1],
         recs' = [recs EXCEPT ![<<s, handled[s] + 1>>] = @ \cup A],
         \A k \in Conns : sock[k] = "shut" => sock'[k] = "shut",
         UNCHANGED <<st, wire>>
  PROVE  DataInv'
<1> DEFINE m == <<s, handled[s] + 1>>
<1>1. m \in Msgs /\ m[1] = s /\ m[2] = handled[s] + 1
  BY DEF Msgs
<1>2. /\ handled'[s] = handled[s] + 1
      /\ \A r \in Sessions : r # s => handled'[r] = handled[r]
      /\ \A r \in Sessions : handled[r] \in Nat
  BY DEF TypeInv, TypeOK
<1>3. /\ "server.rcv" \in recs'[m]
      /\ \A x \in Msgs : x # m => recs'[x] = recs[x]
  BY <1>1 DEF TypeInv, TypeOK
<1>4. \A j \in Conns : \A i \in DOMAIN wire[j] :
         /\ wire[j][i].msg \in Msgs
         /\ wire[j][i].msg[2] <= handled[wire[j][i].msg[1]]
         /\ wire[j][i].msg # m
  <2>1. \A j \in Conns : \A i \in DOMAIN wire[j] : wire[j][i].msg \in Msgs
    <3>1. \A j \in Conns : \A i \in DOMAIN wire[j] : wire[j][i] \in Frames
      <4>1. \A j \in Conns : wire[j] \in Seq(Frames)
        BY DEF TypeInv, TypeOK
      <4> QED
        BY <4>1
    <3> QED
      BY <3>1 DEF Frames
  <2> QED
    BY <2>1, <1>1, <1>2 DEF DataInv, WireInv
<1> HIDE DEF m
<1>5. WireInv'
  BY <1>2, <1>4 DEF DataInv, WireInv, Msgs
<1>6. WholeFrames'
  BY DEF DataInv, WholeFrames
<1>7. InOrderOnce'
  BY DEF DataInv, InOrderOnce, Before
<1>8. RecordsMatch'
  <2>1. ASSUME NEW x \in Msgs
        PROVE  "server.rcv" \in recs'[x] <=> x[2] <= handled'[x[1]]
    <3>1. CASE x = m
      BY <3>1, <1>1, <1>2, <1>3
    <3>2. CASE x # m
      <4>1. x[1] = s => x[2] # handled[s] + 1
        BY <3>2 DEF Msgs, m
      <4> QED
        BY <3>2, <4>1, <1>2, <1>3 DEF Msgs, DataInv, RecordsMatch
    <3> QED
      BY <3>1, <3>2
  <2>2. \A j \in Conns : \A i \in DOMAIN wire'[j] :
           recs'[wire'[j][i].msg] = {"server.rcv", "server.snd_begin"}
    BY <1>3, <1>4 DEF DataInv, RecordsMatch
  <2> QED
    BY <2>1, <2>2 DEF RecordsMatch
<1> QED
  BY <1>5, <1>6, <1>7, <1>8 DEF DataInv

LEMMA HandleMessageData ==
  ASSUME TypeInv, LineInv, DataInv,
         NEW s \in Sessions, tcp_server_handle_message(s)
  PROVE  DataInv'
<1> DEFINE m == <<s, handled[s] + 1>>
           both == {"server.rcv", "server.snd_begin"}
<1>1. /\ handled[s] + 1 \in 1 .. MaxMsg
      /\ handled' = [handled EXCEPT ![s] = @ + 1]
      /\ UNCHANGED <<st, conn_ctx, nconn>>
  BY ContextFacts
     DEF TypeInv, TypeOK, ParseInv, tcp_server_handle_message, ReaderMove
<1>2. CASE conn_ctx = NoCtx
  <2>1. recs' = [recs EXCEPT ![m] = @ \cup {"server.rcv"}] /\ UNCHANGED <<sock, wire>>
    BY <1>2 DEF tcp_server_handle_message, Forward
  <2> QED
    BY <1>1, <2>1, DataInvLose
<1>3. CASE conn_ctx # NoCtx
  <2> DEFINE k == conn_ctx
  <2>1. k \in Conns
    BY <1>3 DEF TypeInv, TypeOK
  <2>2. PICK res \in WriteResults(k) : Write(k, m, res) /\ RecordAndCheck(res, m)
    BY <1>3 DEF tcp_server_handle_message, Forward
  <2>3. recs' = [recs EXCEPT ![m] = @ \cup both]
    BY <2>2 DEF RecordAndCheck
  <2>4. sock' = IF res = "full" THEN sock ELSE [sock EXCEPT ![k] = "shut"]
    BY <2>2 DEF RecordAndCheck, muggle_socket_ctx_shutdown
  <2>5. CASE res = "error"
    <3>1. UNCHANGED wire
      BY <2>2, <2>5 DEF Write
    <3>2. \A j \in Conns : sock[j] = "shut" => sock'[j] = "shut"
      BY <2>4, ContextFacts DEF TypeInv, TypeOK
    <3> QED
      BY <1>1, <2>3, <3>1, <3>2, DataInvLose
  <2>6. CASE res # "error"
    <3> DEFINE b == (res = "full")
    <3>1. sock[k] \in {"open", "eof"}
      BY <2>2, <2>6 DEF WriteResults
    <3>2. wire' = [wire EXCEPT ![k] = Append(@, [msg |-> m, whole |-> b])]
      BY <2>2, <2>6 DEF Write
    <3>3. b \in BOOLEAN /\ sock' = IF b THEN sock ELSE [sock EXCEPT ![k] = "shut"]
      BY <2>4
    <3> HIDE DEF b
    <3> QED
      BY <1>1, <2>1, <2>3, <3>1, <3>2, <3>3, DataInvWrite
  <2> QED
    BY <2>5, <2>6
<1> QED
  BY <1>2, <1>3


LEMMA DataInvNext == TypeInv /\ LineInv /\ DataInv /\ [Next]_vars => DataInv'
<1> SUFFICES ASSUME TypeInv, LineInv, DataInv, [Next]_vars PROVE DataInv'
  OBVIOUS
<1> DEFINE Frame ==
      /\ UNCHANGED <<handled, wire, recs>>
      /\ \A k \in Conns : sock[k] = "shut" => sock'[k] = "shut"
      /\ \A k \in Conns : st'[k] \in {"unused", "queued"} =>
                             st[k] \in {"unused", "queued"}
<1>0. Frame => DataInv'
  BY DataInvFrame
<1>1. CASE nb_tcp_listen
  BY <1>0, <1>1, ContextFacts DEF TypeInv, TypeOK, nb_tcp_listen, datavars
<1>2. CASE run
  BY <1>0, <1>2, ContextFacts
     DEF TypeInv, TypeOK, LineInv, run, nb_tcp_connect, datavars
<1>3. CASE tcp_async_connect
  BY <1>0, <1>3, ContextFacts
     DEF TypeInv, TypeOK, LineInv, tcp_async_connect, nb_tcp_connect, datavars
<1>4. ASSUME NEW c \in Conns \cup {Listener}, tcp_server_on_add_ctx(c)
      PROVE  DataInv'
  BY <1>0, <1>4, ContextFacts
     DEF TypeInv, TypeOK, tcp_server_on_add_ctx, SetNoDelay,
         muggle_socket_ctx_shutdown, datavars
<1>5. ASSUME NEW s \in Sessions, tcp_server_on_connect(s)
      PROVE  DataInv'
  BY <1>0, <1>5, ContextFacts
     DEF TypeInv, TypeOK, tcp_server_on_connect, SetNoDelay,
         muggle_socket_ctx_shutdown, datavars
<1>6. ASSUME NEW s \in Sessions, tcp_server_on_message(s)
      PROVE  DataInv'
  BY <1>0, <1>6 DEF tcp_server_on_message, netvars
<1>7. ASSUME NEW s \in Sessions, tcp_server_handle_message(s)
      PROVE  DataInv'
  BY <1>7, HandleMessageData
<1>8. ASSUME NEW c \in Sessions \cup Conns, tcp_server_on_close(c)
      PROVE  DataInv'
  BY <1>0, <1>8, ContextFacts DEF TypeInv, TypeOK, tcp_server_on_close, datavars
<1>9. ASSUME NEW c \in Sessions \cup Conns, tcp_server_on_release(c)
      PROVE  DataInv'
  BY <1>0, <1>9, ContextFacts DEF TypeInv, TypeOK, tcp_server_on_release, datavars
<1>10. ASSUME NEW s \in Sessions, PeerSend(s)
       PROVE  DataInv'
  BY <1>0, <1>10 DEF PeerSend, netvars
<1>11. ASSUME NEW c \in Sessions \cup Conns, NEW how \in {"eof", "reset"},
              PeerClose(c, how)
       PROVE  DataInv'
  BY <1>0, <1>11, ContextFacts DEF TypeInv, TypeOK, PeerClose, datavars
<1>12. CASE UNCHANGED vars
  BY <1>0, <1>12 DEF vars, netvars, datavars
<1> QED
  BY <1>1, <1>2, <1>3, <1>4, <1>5, <1>6, <1>7, <1>8, <1>9, <1>10, <1>11, <1>12
     DEF Next, Retry

LEMMA InvCorrect == Spec => []IInv
<1>1. Init => IInv
  BY TypeInvInit, LineInvInit, DataInvInit DEF IInv
<1>2. IInv /\ [Next]_vars => IInv'
  BY TypeInvNext, LineInvNext, DataInvNext DEF IInv
<1> QED
  BY <1>1, <1>2, PTL DEF Spec

(***************************************************************************)
(* A frame cut short is the last one on its connection, which is shut.     *)
(***************************************************************************)
THEOREM WholeFramesHolds == Spec => []WholeFrames
<1>1. IInv => WholeFrames
  BY DEF IInv, DataInv
<1> QED
  BY <1>1, InvCorrect, PTL

(***************************************************************************)
(* A session's messages reach the upstream in order and at most once,      *)
(* across all reconnections.                                               *)
(***************************************************************************)
THEOREM InOrderOnceHolds == Spec => []InOrderOnce
<1>1. IInv => InOrderOnce
  BY DEF IInv, DataInv
<1> QED
  BY <1>1, InvCorrect, PTL

(***************************************************************************)
(* The records tell what was handled and precede what was written.         *)
(***************************************************************************)
THEOREM RecordsMatchHolds == Spec => []RecordsMatch
<1>1. IInv => RecordsMatch
  BY DEF IInv, DataInv
<1> QED
  BY <1>1, InvCorrect, PTL

-----------------------------------------------------------------------------
(***************************************************************************)
(* TcpServer implements Relay: every step of the server is a step of the   *)
(* relay, or leaves the link, the counts and the log alone.                *)
(***************************************************************************)

(* The log changes only with the wire or when a link comes or goes. *)
LEMMA LogFrame ==
  ASSUME UNCHANGED wire, Links' = Links
  PROVE  Log' = Log
BY DEF Log, Relayed

(* A step that disturbs no connection is invisible. *)
LEMMA Invisible ==
  ASSUME TypeInv, LineInv, UNCHANGED <<handled, wire, conn_ctx, nconn>>,
         \A k \in Conns : (st'[k] = "queued") = (st[k] = "queued"),
         conn_ctx # NoCtx => sock'[conn_ctx] = sock[conn_ctx]
  PROVE  UNCHANGED R!vars
<1>1. Link' = Link
  BY DEF Link
<1>2. Links' = Links
  <2>1. nconn # 0 => nconn \in Conns
    BY ContextFacts DEF TypeInv, TypeOK
  <2> QED
    BY <2>1 DEF Links
<1> QED
  BY <1>1, <1>2, LogFrame DEF R!vars

LEMMA RefineInit == Init => R!Init
<1> SUFFICES ASSUME Init PROVE R!Init
  OBVIOUS
<1>1. Link = "down"
  BY DEF Init, Link
<1>2. Links = {}
  BY DEF Init, Links
<1>3. Log = <<>>
  BY <1>2 DEF Log
<1> QED
  BY <1>1, <1>3 DEF R!Init, Init

-----------------------------------------------------------------------------
(* A new connection waits for the loop: it is no link yet. *)
LEMMA RefineConnect ==
  ASSUME TypeInv, LineInv, nb_tcp_connect,
         nconn # 0 => st[nconn] # "queued",
         UNCHANGED <<handled, wire, sock, conn_ctx>>
  PROVE  UNCHANGED R!vars
<1>1. Link' = Link
  BY DEF Link
<1>2. nconn \in Nat /\ nconn + 1 \in Conns
  BY ContextFacts DEF TypeInv, TypeOK, nb_tcp_connect
<1>3. nconn' = nconn + 1 /\ st'[nconn'] = "queued"
  BY <1>2, ContextFacts DEF TypeInv, TypeOK, nb_tcp_connect
<1>4. Links' = 1 .. nconn
  BY <1>2, <1>3 DEF Links
<1>5. Links = 1 .. nconn
  BY DEF Links
<1> QED
  BY <1>1, <1>4, <1>5, LogFrame DEF R!vars

(* on_add_ctx of a connection establishes a link with an empty log. *)
LEMMA RefineEstablish ==
  ASSUME TypeInv, LineInv, DataInv, NEW c \in Conns, tcp_server_on_add_ctx(c)
  PROVE  R!Establish
<1>1. c = nconn /\ nconn \in Nat \ {0} /\ conn_ctx = NoCtx
  <2>1. st[c] = "queued"
    BY DEF tcp_server_on_add_ctx
  <2>2. c \in Nat /\ nconn \in Nat /\ c # 0
    BY ContextFacts DEF TypeInv, TypeOK
  <2>3. c = nconn
    BY <2>1, <2>2 DEF LineInv
  <2>4. conn_ctx = NoCtx
    <3>1. ASSUME NEW k \in Conns, conn_ctx = k PROVE FALSE
      <4>1. st[k] = "live" /\ k \in Nat
        BY <3>1, ContextFacts DEF LineInv
      <4>2. k = nconn
        BY <4>1, <2>2, <3>1 DEF LineInv
      <4> QED
        BY <4>1, <4>2, <2>1, <2>3
    <3> QED
      BY <3>1 DEF TypeInv, TypeOK
  <2> QED
    BY <2>2, <2>3, <2>4
<1>2. /\ conn_ctx' = c /\ st'[c] = "live" /\ st[c] = "queued"
      /\ UNCHANGED <<nconn, handled, wire>>
  BY ContextFacts
     DEF TypeInv, TypeOK, tcp_server_on_add_ctx, AddUpstream, datavars
<1>3. Link = "down"
  BY <1>1 DEF Link
<1>4. Link' \in R!LinkStates \ {"down"}
  <2>1. sock' \in [Contexts -> {"open", "eof", "reset", "shut"}]
    BY TypeInvNext, ContextFacts
       DEF TypeInv, TypeOK, tcp_server_on_add_ctx, SetNoDelay,
           muggle_socket_ctx_shutdown
  <2> QED
    BY <1>2, <2>1, ContextFacts DEF Link, LinkOf, R!LinkStates
<1>5. Links = 1 .. nconn - 1 /\ Links' = 1 .. nconn
  BY <1>1, <1>2 DEF Links
<1>6. Relayed(c) = <<>>
  <2>1. wire[c] = <<>>
    BY <1>2 DEF DataInv, WireInv
  <2> QED
    BY <2>1 DEF Relayed
<1>7. \A k : Relayed(k)' = Relayed(k)
  BY <1>2 DEF Relayed
<1>8. Log' = Append(Log, <<>>)
  <2>1. Log = [k \in 1 .. nconn - 1 |-> Relayed(k)]
    BY <1>5 DEF Log
  <2>2. Log' = [k \in 1 .. nconn |-> Relayed(k)]
    BY <1>5, <1>7 DEF Log
  <2>3. Len(Log) = nconn - 1
    BY <1>1, <2>1
  <2>4. Append(Log, <<>>) = [k \in 1 .. nconn |-> IF k = nconn THEN <<>> ELSE Log[k]]
    BY <1>1, <2>1, <2>3
  <2> QED
    BY <1>1, <1>6, <2>1, <2>2, <2>4
<1> QED
  BY <1>2, <1>3, <1>4, <1>8 DEF R!Establish

(* on_close of the upstream tears the link down. *)
LEMMA RefineClose ==
  ASSUME TypeInv, LineInv, NEW c \in Conns, tcp_server_on_close(c)
  PROVE  R!Teardown
<1>1. /\ conn_ctx = c /\ conn_ctx' = NoCtx /\ c \in Conns /\ c # NoCtx
      /\ UNCHANGED <<nconn, handled, wire>>
      /\ st[c] = "live" /\ st' = [st EXCEPT ![c] = "closed"]
  BY ContextFacts DEF LineInv, tcp_server_on_close, UpstreamLost, datavars
<1>2. Link \in {"closing", "cut"}
  BY <1>1, ContextFacts DEF TypeInv, TypeOK, Link, LinkOf, tcp_server_on_close, Finished
<1>3. Link' = "down"
  BY <1>1 DEF Link
<1>4. Links' = Links
  <2>1. c \in Contexts /\ (nconn # 0 => nconn \in Contexts)
    BY ContextFacts DEF TypeInv, TypeOK
  <2> QED
    BY <1>1, <2>1 DEF Links, TypeInv, TypeOK
<1> QED
  BY <1>1, <1>2, <1>3, <1>4, LogFrame DEF R!Teardown

-----------------------------------------------------------------------------
(* While there is a link, it is the last one of the log. *)
LEMMA LinkIsLast ==
  ASSUME TypeInv, LineInv, conn_ctx # NoCtx
  PROVE  /\ conn_ctx \in Conns /\ conn_ctx = nconn /\ nconn \in Nat \ {0}
         /\ Links = 1 .. nconn
         /\ st[conn_ctx] = "live"
<1>1. conn_ctx \in Conns /\ conn_ctx \in Nat /\ conn_ctx # 0 /\ nconn \in Nat
  BY ContextFacts DEF TypeInv, TypeOK
<1>2. st[conn_ctx] = "live"
  BY <1>1 DEF LineInv
<1>3. conn_ctx = nconn
  BY <1>1, <1>2 DEF LineInv
<1> QED
  BY <1>1, <1>2, <1>3 DEF Links

(* On a socket that still takes bytes every frame is whole. *)
LEMMA AllRelayed ==
  ASSUME TypeInv, DataInv, NEW k \in Conns, sock[k] # "shut"
  PROVE  Relayed(k) = [i \in 1 .. Len(wire[k]) |-> wire[k][i].msg]
<1>1. wire[k] \in Seq(Frames)
  BY DEF TypeInv, TypeOK
<1>2. Len(wire[k]) # 0 => wire[k][Len(wire[k])].whole
  BY <1>1 DEF DataInv, WholeFrames
<1> QED
  BY <1>2 DEF Relayed

(* A frame appended: whole it lengthens the log of the link, cut it does not. *)
LEMMA RelayedAppend ==
  ASSUME TypeInv, DataInv, NEW k \in Conns, sock[k] # "shut",
         NEW m, NEW b \in BOOLEAN,
         wire' = [wire EXCEPT ![k] = Append(@, [msg |-> m, whole |-> b])]
  PROVE  /\ Relayed(k)' = IF b THEN Append(Relayed(k), m) ELSE Relayed(k)
         /\ \A j \in Conns \ {k} : Relayed(j)' = Relayed(j)
<1> DEFINE q == wire[k]
           f == [msg |-> m, whole |-> b]
<1>1. q \in Seq(Frames) /\ Len(q) \in Nat
  BY DEF TypeInv, TypeOK
<1>2. wire'[k] = Append(q, f) /\ \A j \in Conns \ {k} : wire'[j] = wire[j]
  BY DEF TypeInv, TypeOK
<1>3. /\ Len(Append(q, f)) = Len(q) + 1
      /\ \A i \in 1 .. Len(q) : Append(q, f)[i] = q[i]
      /\ Append(q, f)[Len(q) + 1] = f
  BY <1>1
<1>4. Relayed(k) = [i \in 1 .. Len(q) |-> q[i].msg]
  BY AllRelayed
<1>5. \A j \in Conns \ {k} : Relayed(j)' = Relayed(j)
  BY <1>2 DEF Relayed
<1>6. CASE b
  <2>1. Relayed(k)' = [i \in 1 .. Len(q) + 1 |-> Append(q, f)[i].msg]
    BY <1>2, <1>3, <1>6 DEF Relayed
  <2>2. Append(Relayed(k), m) =
          [i \in 1 .. Len(q) + 1 |-> IF i = Len(q) + 1 THEN m ELSE q[i].msg]
    BY <1>1, <1>4
  <2>3. \A i \in 1 .. Len(q) + 1 :
           Append(q, f)[i].msg = IF i = Len(q) + 1 THEN m ELSE q[i].msg
    BY <1>1, <1>3
  <2> QED
    BY <1>5, <1>6, <2>1, <2>2, <2>3
<1>7. CASE ~b
  <2>1. Relayed(k)' = [i \in 1 .. Len(q) |-> Append(q, f)[i].msg]
    BY <1>1, <1>2, <1>3, <1>7 DEF Relayed
  <2>2. Relayed(k)' = Relayed(k)
    BY <1>3, <1>4, <2>1
  <2> QED
    BY <1>5, <1>7, <2>2
<1> QED
  BY <1>6, <1>7

(* The log when the frame is whole, and when it is not. *)
LEMMA LogAppend ==
  ASSUME TypeInv, LineInv, DataInv, conn_ctx # NoCtx, sock[conn_ctx] # "shut",
         NEW m, NEW b \in BOOLEAN,
         wire' = [wire EXCEPT ![conn_ctx] = Append(@, [msg |-> m, whole |-> b])],
         UNCHANGED <<nconn, st>>
  PROVE  Log' = IF b THEN [Log EXCEPT ![Len(Log)] = Append(@, m)] ELSE Log
<1>1. /\ conn_ctx \in Conns /\ conn_ctx = nconn /\ nconn \in Nat \ {0}
      /\ Links = 1 .. nconn /\ Links' = 1 .. nconn
  BY LinkIsLast DEF Links
<1>2. \A j \in 1 .. nconn : j \in Conns
  BY <1>1, ServerAssumption DEF Conns
<1>3. /\ Relayed(nconn)' = IF b THEN Append(Relayed(nconn), m) ELSE Relayed(nconn)
      /\ \A j \in 1 .. nconn : j # nconn => Relayed(j)' = Relayed(j)
  BY <1>1, <1>2, RelayedAppend
<1>4. Log = [j \in 1 .. nconn |-> Relayed(j)] /\ Len(Log) = nconn
  BY <1>1 DEF Log
<1>5. Log' = [j \in 1 .. nconn |-> Relayed(j)']
  BY <1>1 DEF Log
<1>6. CASE b
  <2>1. [Log EXCEPT ![nconn] = Append(@, m)] =
          [j \in 1 .. nconn |->
              IF j = nconn THEN Append(Relayed(nconn), m) ELSE Relayed(j)]
    BY <1>1, <1>4
  <2> QED
    BY <1>3, <1>4, <1>5, <1>6, <2>1
<1>7. CASE ~b
  BY <1>3, <1>4, <1>5, <1>7
<1> QED
  BY <1>6, <1>7

(***************************************************************************)
(* A message handled is forwarded if its frame went out whole, and lost    *)
(* otherwise, with the link if there is one.                               *)
(***************************************************************************)
LEMMA RefineHandle ==
  ASSUME TypeInv, LineInv, DataInv, NEW s \in Sessions, tcp_server_handle_message(s)
  PROVE  R!Forward(s) \/ R!Lose(s)
<1> DEFINE m == <<s, handled[s] + 1>>
<1>1. /\ R!Take(s)
      /\ UNCHANGED <<nconn, st, conn_ctx>>
  BY DEF tcp_server_handle_message, ReaderMove, R!Take
<1>2. CASE conn_ctx = NoCtx
  <2>1. UNCHANGED <<sock, wire>>
    BY <1>2 DEF tcp_server_handle_message, Forward
  <2>2. Link = "down" /\ Link' = "down"
    BY <1>1, <1>2 DEF Link
  <2>3. Log' = Log
    BY <1>1, <2>1, LogFrame DEF Links
  <2> QED
    BY <1>1, <2>2, <2>3 DEF R!Lose
<1>3. CASE conn_ctx # NoCtx
  <2> DEFINE k == conn_ctx
  <2>1. k \in Conns /\ k \in Contexts
    BY <1>3, LinkIsLast, ContextFacts
  <2>2. PICK res \in WriteResults(k) : Write(k, m, res) /\ RecordAndCheck(res, m)
    BY <1>3 DEF tcp_server_handle_message, Forward
  <2>3. sock[k] \in {"open", "eof", "reset", "shut"}
    BY <2>1 DEF TypeInv, TypeOK
  <2>4. Link # "down"
    BY <1>3, <2>3 DEF Link, LinkOf
  <2>5. CASE res = "full"
    <3>1. sock[k] \in {"open", "eof"} /\ UNCHANGED sock
      BY <2>2, <2>5 DEF WriteResults, RecordAndCheck
    <3>2. Link \in {"up", "closing"} /\ Link' = Link
      BY <1>1, <1>3, <3>1 DEF Link, LinkOf
    <3>3. Log' = [Log EXCEPT ![Len(Log)] = Append(@, m)]
      <4>1. wire' = [wire EXCEPT ![k] = Append(@, [msg |-> m, whole |-> TRUE])]
        BY <2>2, <2>5 DEF Write
      <4>2. TRUE \in BOOLEAN /\ sock[k] # "shut"
        BY <3>1
      <4> QED
        BY <1>1, <1>3, <4>1, <4>2, LogAppend
    <3> QED
      BY <1>1, <3>2, <3>3 DEF R!Forward
  <2>6. CASE res # "full"
    <3>1. sock' = [sock EXCEPT ![k] = "shut"]
      BY <2>2, <2>6 DEF RecordAndCheck, muggle_socket_ctx_shutdown
    <3>2. Link' = "cut"
      BY <1>1, <1>3, <2>1, <3>1 DEF TypeInv, TypeOK, Link, LinkOf
    <3>3. Log' = Log
      <4>1. CASE res = "error"
        BY <1>1, <2>2, <4>1, LogFrame DEF Write, Links
      <4>2. CASE res # "error"
        <5>1. sock[k] # "shut"
          BY <2>2, <4>2 DEF WriteResults
        <5>2. wire' = [wire EXCEPT ![k] = Append(@, [msg |-> m, whole |-> FALSE])]
          BY <2>2, <2>6, <4>2 DEF Write
        <5>3. FALSE \in BOOLEAN
          OBVIOUS
        <5> QED
          BY <1>1, <1>3, <5>1, <5>2, <5>3, LogAppend
      <4> QED
        BY <4>1, <4>2
    <3> QED
      BY <1>1, <2>4, <3>2, <3>3 DEF R!Lose
  <2> QED
    BY <2>5, <2>6
<1> QED
  BY <1>2, <1>3

(* The peer of the link may close it or die. *)
LEMMA RefineDegrade ==
  ASSUME TypeInv, LineInv, NEW c \in Sessions \cup Conns,
         NEW how \in {"eof", "reset"}, PeerClose(c, how), conn_ctx = c
  PROVE  R!Degrade
<1>1. /\ c # NoCtx /\ c \in Contexts
      /\ UNCHANGED <<nconn, st, conn_ctx, handled, wire>>
  BY ContextFacts DEF PeerClose, datavars
<1>2. sock' = [sock EXCEPT ![c] = how]
  BY DEF PeerClose
<1>3. Link' = LinkOf[how]
  BY <1>1, <1>2 DEF TypeInv, TypeOK, Link
<1>4. \/ Link = "up" /\ Link' \in {"closing", "cut"}
      \/ Link = "closing" /\ Link' = "cut"
  BY <1>1, <1>3 DEF PeerClose, Link, LinkOf
<1>5. Log' = Log
  BY <1>1, LogFrame DEF Links
<1> QED
  BY <1>1, <1>4, <1>5 DEF R!Degrade

-----------------------------------------------------------------------------
LEMMA RefineNext == IInv /\ [Next]_vars => [R!Next]_(R!vars)
<1> SUFFICES ASSUME TypeInv, LineInv, DataInv, [Next]_vars
             PROVE  R!Next \/ UNCHANGED R!vars
  BY DEF IInv
<1> USE ContextFacts
<1>1. CASE nb_tcp_listen
  BY <1>1, Invisible DEF TypeInv, TypeOK, nb_tcp_listen, datavars
<1>2. CASE run
  <2>1. nconn = 0
    BY <1>2 DEF LineInv, run
  <2>2. conn_ctx = NoCtx
    <3>1. ASSUME NEW k \in Conns PROVE st[k] = "unused"
      BY <2>1 DEF LineInv, Conns
    <3> QED
      BY <3>1 DEF LineInv, TypeInv, TypeOK
  <2>3. nb_tcp_connect /\ UNCHANGED <<handled, wire, sock, conn_ctx>>
    BY <1>2, <2>2 DEF run, datavars
  <2> QED
    BY <2>1, <2>3, RefineConnect
<1>3. CASE tcp_async_connect
  BY <1>3, RefineConnect DEF LineInv, TypeInv, TypeOK, tcp_async_connect, datavars
<1>4. CASE tcp_server_on_add_ctx(Listener)
  BY <1>4, Invisible DEF TypeInv, TypeOK, tcp_server_on_add_ctx, datavars
<1>5. ASSUME NEW c \in Conns, tcp_server_on_add_ctx(c)
      PROVE  R!Next
  BY <1>5, RefineEstablish DEF R!Next
<1>6. ASSUME NEW s \in Sessions, tcp_server_on_connect(s)
      PROVE  UNCHANGED R!vars
  BY <1>6, Invisible
     DEF TypeInv, TypeOK, tcp_server_on_connect, SetNoDelay,
         muggle_socket_ctx_shutdown, datavars
<1>7. ASSUME NEW s \in Sessions, tcp_server_on_message(s)
      PROVE  UNCHANGED R!vars
  BY <1>7, Invisible DEF tcp_server_on_message, netvars
<1>8. ASSUME NEW s \in Sessions, tcp_server_handle_message(s)
      PROVE  R!Next
  BY <1>8, RefineHandle DEF R!Next
<1>9. ASSUME NEW s \in Sessions, tcp_server_on_close(s)
      PROVE  UNCHANGED R!vars
  BY <1>9, Invisible DEF TypeInv, TypeOK, LineInv, tcp_server_on_close, datavars
<1>10. ASSUME NEW c \in Conns, tcp_server_on_close(c)
       PROVE  R!Next
  BY <1>10, RefineClose DEF R!Next
<1>11. ASSUME NEW c \in Sessions \cup Conns, tcp_server_on_release(c)
       PROVE  UNCHANGED R!vars
  BY <1>11, Invisible DEF TypeInv, TypeOK, tcp_server_on_release, datavars
<1>12. ASSUME NEW s \in Sessions, PeerSend(s)
       PROVE  UNCHANGED R!vars
  BY <1>12, Invisible DEF PeerSend, netvars
<1>13. ASSUME NEW c \in Sessions \cup Conns, NEW how \in {"eof", "reset"},
              PeerClose(c, how)
       PROVE  R!Next \/ UNCHANGED R!vars
  <2>1. CASE conn_ctx = c
    BY <1>13, <2>1, RefineDegrade DEF R!Next
  <2>2. CASE conn_ctx # c
    BY <1>13, <2>2, Invisible DEF TypeInv, TypeOK, PeerClose, datavars
  <2> QED
    BY <2>1, <2>2
<1>14. CASE UNCHANGED vars
  BY <1>14, Invisible DEF vars, netvars, datavars
<1> QED
  BY <1>1, <1>2, <1>3, <1>4, <1>5, <1>6, <1>7, <1>8, <1>9, <1>10, <1>11, <1>12,
     <1>13, <1>14 DEF Next, Retry

(***************************************************************************)
(* tcp_server implements Relay: seen from its clients and its upstream,    *)
(* on_add_ctx establishes the link, on_close tears it down, and each       *)
(* handle_message forwards a message whole or loses it.                    *)
(***************************************************************************)
THEOREM RelayHolds == Spec => RelaySpec
<1>1. IInv /\ [Next]_vars => [R!Next]_(R!vars)
  BY RefineNext
<1> QED
  BY <1>1, RefineInit, InvCorrect, PTL DEF Spec, RelaySpec, R!Spec
=============================================================================
