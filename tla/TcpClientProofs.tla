--------------------------- MODULE TcpClientProofs ---------------------------
(***************************************************************************)
(* Proofs about TcpClient, for every number of rounds, messages and        *)
(* connections, and every clock.                                           *)
(***************************************************************************)
EXTENDS TcpClient, SequenceTheorems, TLAPS

(* A round is sent only in the loop, on a connection, and while some are left. *)
RoundInv ==
    pos # Idle => /\ phase = "run"
                  /\ ctx # NoCtx
                  /\ round_index < NumRounds

TypeInv == TypeOK /\ RoundInv

(***************************************************************************)
(* The connections form a line: all but the last one dialled are over, and *)
(* if that one is over too, a thread is dialling the next.                 *)
(***************************************************************************)
LineInv ==
    /\ phase = "dial" <=> nconn = 0
    /\ phase = "dial" => dialers = 0
    /\ \A k \in Conns :
          /\ k > nconn => st[k] = "unused"
          /\ k < nconn => st[k] \in {"closed", "released"}
          /\ k = nconn => st[k] # "unused"
    /\ phase # "dial" => dialers = IF Active(nconn) THEN 0 ELSE 1
    /\ CtxLive

-----------------------------------------------------------------------------
LEMMA ConstantFacts ==
    /\ NumRounds \in Nat /\ NumRounds > 0
    /\ NumPerRound \in Nat /\ NumPerRound > 0
    /\ TicksPerMs \in Nat /\ TicksPerMs > 0
    /\ MaxConn \in Nat /\ MaxConn > 0
    /\ IntervalMs \in Nat /\ CliWaitMs \in Nat
    /\ \A k \in Conns : k # NoCtx /\ k \in Nat /\ k > 0
    /\ \A n \in 0 .. MaxConn : n < MaxConn => n + 1 \in Conns
    /\ \A n \in 0 .. MaxConn : n # 0 => n \in Conns
BY ClientAssumption DEF Conns

LEMMA ProductNat ==
  ASSUME NEW m \in Nat, NEW n \in Nat
  PROVE  m * n \in Nat
OBVIOUS

LEMMA ClockFacts ==
    /\ CliWaitMs * TicksPerMs \in Nat
    /\ MaxGap \in Nat /\ MaxGap > 0
<1>1. CliWaitMs * TicksPerMs \in Nat /\ IntervalMs * TicksPerMs \in Nat
  BY ConstantFacts, ProductNat
<1>2. MaxGap = IntervalMs * TicksPerMs + TicksPerMs
  BY ConstantFacts DEF MaxGap
<1> QED
  BY <1>1, <1>2, ConstantFacts

(* The ticks within a millisecond are fewer than a millisecond has. *)
LEMMA NowSubType ==
  ASSUME TypeOK
  PROVE  NowSub \subseteq 0 .. TicksPerMs - 1
<1>1. gap \in Int /\ last_sub \in Int
  BY ClockFacts DEF TypeOK
<1>2. (last_sub + gap) % TicksPerMs \in 0 .. TicksPerMs - 1
  BY <1>1, ConstantFacts
<1> QED
  BY <1>2 DEF NowSub

(* A message of a round that is left has a number below the last one's. *)
LEMMA SeqRange ==
  ASSUME NEW r \in Nat, NEW p \in Nat, r < NumRounds, p < NumPerRound
  PROVE  r * NumPerRound + p \in 0 .. NumRounds * NumPerRound - 1
<1> DEFINE rest == NumRounds - (r + 1)
<1>1. rest \in Nat /\ NumRounds = r + 1 + rest
  BY ConstantFacts
<1>2. r * NumPerRound \in Nat /\ rest * NumPerRound \in Nat
  BY <1>1, ConstantFacts, ProductNat
<1>3. NumRounds * NumPerRound = r * NumPerRound + NumPerRound + rest * NumPerRound
  BY <1>1, ConstantFacts
<1> HIDE DEF rest
<1> QED
  BY <1>2, <1>3, ConstantFacts

LEMMA TypeInvInit == Init => TypeInv
BY ConstantFacts, ClockFacts DEF Init, TypeInv, TypeOK, RoundInv, Idle

LEMMA AddCtxType ==
  ASSUME TypeInv, NEW k \in Conns, tcp_client_on_add_ctx(k)
  PROVE  TypeInv'
<1>1. /\ gap' \in -CliWaitMs * TicksPerMs .. MaxGap
      /\ last_sub' \in 0 .. TicksPerMs - 1
  <2>1. -CliWaitMs * TicksPerMs \in -CliWaitMs * TicksPerMs .. MaxGap
    BY ConstantFacts, ClockFacts
  <2> QED
    BY <2>1, NowSubType DEF TypeInv, TypeOK, tcp_client_on_add_ctx, timevars
<1> QED
  BY <1>1 DEF TypeInv, TypeOK, RoundInv, tcp_client_on_add_ctx, LoopIdle,
              muggle_socket_ctx_shutdown

LEMMA StartRoundType ==
  ASSUME TypeInv, StartRound
  PROVE  TypeInv'
<1>1. 0 \in -CliWaitMs * TicksPerMs .. MaxGap
  BY ConstantFacts, ClockFacts
<1>2. last_sub' \in 0 .. TicksPerMs - 1
  BY NowSubType DEF TypeInv, StartRound
<1> QED
  BY <1>1, <1>2, ConstantFacts
     DEF TypeInv, TypeOK, RoundInv, StartRound, LoopIdle, netvars, Idle

(* What a write leaves on the wire, and the message that it writes. *)
LEMMA SendFacts ==
  ASSUME TypeInv, SendMessage
  PROVE  /\ ctx \in Conns /\ phase = "run" /\ pos \in Nat
         /\ round_index \in Nat /\ round_index < NumRounds /\ pos < NumPerRound
         /\ \E b \in BOOLEAN :
               LET f == [seq |-> round_index * NumPerRound + pos, whole |-> b]
               IN  /\ f \in Frames
                   /\ \/ UNCHANGED wire
                      \/ wire' = [wire EXCEPT ![ctx] = Append(@, f)]
<1>1. /\ ctx \in Conns /\ phase = "run" /\ pos \in Nat
      /\ round_index \in Nat /\ round_index < NumRounds /\ pos < NumPerRound
  BY ConstantFacts DEF TypeInv, TypeOK, RoundInv, SendMessage, Idle
<1>2. round_index * NumPerRound + pos \in 0 .. NumRounds * NumPerRound - 1
  BY <1>1, SeqRange
<1>3. PICK res : Write(ctx, round_index * NumPerRound + pos, res)
  BY DEF SendMessage
<1> DEFINE b == res = "full"
<1>4. b \in BOOLEAN
  OBVIOUS
<1>5. [seq |-> round_index * NumPerRound + pos, whole |-> b] \in Frames
  BY <1>2, <1>4 DEF Frames
<1>6. \/ UNCHANGED wire
      \/ wire' = [wire EXCEPT ![ctx] =
                    Append(@, [seq |-> round_index * NumPerRound + pos, whole |-> b])]
  BY <1>3 DEF Write
<1> HIDE DEF b
<1> QED
  BY <1>1, <1>4, <1>5, <1>6

LEMMA SendType ==
  ASSUME TypeInv, SendMessage
  PROVE  TypeInv'
<1>1. wire' \in [Conns -> Seq(Frames)]
  <2>1. PICK f \in Frames :
            \/ UNCHANGED wire
            \/ wire' = [wire EXCEPT ![ctx] = Append(@, f)]
    BY SendFacts
  <2>2. wire \in [Conns -> Seq(Frames)] /\ ctx \in Conns
    BY SendFacts DEF TypeInv, TypeOK
  <2>3. Append(wire[ctx], f) \in Seq(Frames)
    BY <2>2
  <2> QED
    BY <2>1, <2>2, <2>3, Zenon
<1>2. /\ pos' \in Idle .. NumPerRound - 1
      /\ round_index' \in 0 .. NumRounds
      /\ pos' # Idle => round_index' < NumRounds
      /\ sock' \in [Conns -> {"open", "eof", "reset", "shut"}]
  BY SendFacts, ConstantFacts DEF TypeInv, TypeOK, SendMessage, NextMessage,
     WriteFailed, muggle_socket_ctx_shutdown, Idle
<1> QED
  BY <1>1, <1>2, SendFacts, ConstantFacts
     DEF TypeInv, TypeOK, RoundInv, SendMessage, timevars

LEMMA TypeInvNext == TypeInv /\ [Next]_vars => TypeInv'
<1> SUFFICES ASSUME TypeInv, [Next]_vars PROVE TypeInv'
  OBVIOUS
<1> USE ConstantFacts
<1>1. CASE run
  <2>1. 0 \in -CliWaitMs * TicksPerMs .. MaxGap
    BY ClockFacts
  <2> QED
    BY <1>1, <2>1 DEF TypeInv, TypeOK, RoundInv, run, nb_tcp_connect, Idle
<1>2. CASE tcp_async_connect
  BY <1>2 DEF TypeInv, TypeOK, RoundInv, tcp_async_connect, nb_tcp_connect, timevars
<1>3. ASSUME NEW k \in Conns, tcp_client_on_add_ctx(k) PROVE TypeInv'
  BY <1>3, AddCtxType
<1>4. ASSUME NEW k \in Conns, tcp_client_on_close(k) PROVE TypeInv'
  BY <1>4 DEF TypeInv, TypeOK, RoundInv, tcp_client_on_close, ConnLost, LoopIdle, timevars
<1>5. ASSUME NEW k \in Conns, tcp_client_on_release(k) PROVE TypeInv'
  BY <1>5 DEF TypeInv, TypeOK, RoundInv, tcp_client_on_release, LoopIdle, timevars
<1>6. CASE ExitLoop
  BY <1>6 DEF TypeInv, TypeOK, RoundInv, ExitLoop, LoopIdle, netvars, timevars
<1>7. CASE StartRound
  BY <1>7, StartRoundType
<1>8. CASE SendMessage
  BY <1>8, SendType
<1>9. ASSUME NEW k \in Conns, NEW how \in {"eof", "reset"}, PeerClose(k, how)
      PROVE  TypeInv'
  BY <1>9 DEF TypeInv, TypeOK, RoundInv, PeerClose, timevars
<1>10. CASE Tick
  <2>1. gap' \in -CliWaitMs * TicksPerMs .. MaxGap
    BY <1>10, ClockFacts DEF TypeInv, TypeOK, Tick
  <2> QED
    BY <1>10, <2>1 DEF TypeInv, TypeOK, RoundInv, Tick, netvars
<1>11. CASE UNCHANGED vars
  BY <1>11 DEF TypeInv, TypeOK, RoundInv, vars, netvars, timevars
<1> QED
  BY <1>1, <1>2, <1>3, <1>4, <1>5, <1>6, <1>7, <1>8, <1>9, <1>10, <1>11
     DEF Next, Retry, Terminated

-----------------------------------------------------------------------------
LEMMA LineInvInit == Init => LineInv
BY ConstantFacts DEF Init, LineInv, CtxLive

LEMMA LineInvNext == TypeInv /\ LineInv /\ [Next]_vars => LineInv'
<1> SUFFICES ASSUME TypeOK, RoundInv, LineInv, [Next]_vars PROVE LineInv'
  BY DEF TypeInv
<1> USE ConstantFacts DEF LineInv, CtxLive, Active, TypeOK
<1>1. CASE run
  <2>1. nconn = 0 /\ nconn' = 1 /\ 1 \in Conns /\ dialers' = 0 /\ phase' = "run"
    BY <1>1 DEF run, nb_tcp_connect
  <2>2. st' = [st EXCEPT ![1] = "queued"] /\ \A k \in Conns : st[k] = "unused"
    BY <1>1, <2>1 DEF run, nb_tcp_connect
  <2>3. CtxLive'
    BY <1>1, <2>2 DEF run
  <2> QED
    BY <2>1, <2>2, <2>3
<1>2. CASE tcp_async_connect
  <2>1. /\ phase # "dial" /\ nconn \in Conns /\ dialers = 1
        /\ nconn' = nconn + 1 /\ nconn + 1 \in Conns
        /\ dialers' = 0 /\ UNCHANGED <<phase, sock, ctx>>
    BY <1>2 DEF tcp_async_connect, nb_tcp_connect
  <2>2. /\ st' = [st EXCEPT ![nconn + 1] = "queued"]
        /\ st[nconn] \in {"closed", "released"}
        /\ \A k \in Conns : st[k] # "live"
        /\ ctx = NoCtx
    BY <1>2, <2>1 DEF tcp_async_connect, nb_tcp_connect
  <2>3. CtxLive'
    BY <2>1, <2>2
  <2> QED
    BY <2>1, <2>2, <2>3
<1>3. ASSUME NEW k \in Conns, tcp_client_on_add_ctx(k) PROVE LineInv'
  <2>0. phase = "run" /\ st[k] = "queued" /\ k \in Nat /\ nconn \in Nat
    BY <1>3 DEF tcp_client_on_add_ctx, LoopIdle
  <2>1. k = nconn /\ ctx = NoCtx /\ phase = "run"
    <3>1. k = nconn
      BY <2>0
    <3> QED
      BY <2>0, <3>1
  <2>2. CASE ctx' = k /\ UNCHANGED sock
    BY <1>3, <2>1, <2>2 DEF tcp_client_on_add_ctx
  <2>3. CASE UNCHANGED ctx /\ muggle_socket_ctx_shutdown(k)
    BY <1>3, <2>1, <2>3 DEF tcp_client_on_add_ctx, muggle_socket_ctx_shutdown
  <2> QED
    BY <1>3, <2>2, <2>3 DEF tcp_client_on_add_ctx
<1>4. ASSUME NEW k \in Conns, tcp_client_on_close(k) PROVE LineInv'
  <2>0. phase = "run" /\ st[k] = "live" /\ k \in Nat /\ nconn \in Nat
    BY <1>4 DEF tcp_client_on_close, Closing, LoopIdle
  <2>1. k = nconn /\ phase = "run" /\ dialers = 0
    <3>1. k = nconn
      BY <2>0
    <3> QED
      BY <2>0, <3>1
  <2> QED
    BY <1>4, <2>1 DEF tcp_client_on_close, ConnLost, timevars
<1>5. ASSUME NEW k \in Conns, tcp_client_on_release(k) PROVE LineInv'
  BY <1>5 DEF tcp_client_on_release, LoopIdle, timevars
<1>6. CASE ExitLoop
  BY <1>6 DEF ExitLoop, LoopIdle, netvars, timevars
<1>7. CASE StartRound
  BY <1>7 DEF StartRound, netvars
<1>8. CASE SendMessage
  BY <1>8 DEF SendMessage, WriteFailed, NextMessage, muggle_socket_ctx_shutdown, timevars
<1>9. ASSUME NEW k \in Conns, NEW how \in {"eof", "reset"}, PeerClose(k, how)
      PROVE  LineInv'
  BY <1>9 DEF PeerClose, timevars
<1>10. CASE Tick
  BY <1>10 DEF Tick, netvars
<1>11. CASE UNCHANGED vars
  BY <1>11 DEF vars, netvars, timevars
<1> QED
  BY <1>1, <1>2, <1>3, <1>4, <1>5, <1>6, <1>7, <1>8, <1>9, <1>10, <1>11
     DEF Next, Retry, Terminated

(* Two facts of the line: the one active connection is the last one dialled. *)
LEMMA LineOneConnection == TypeInv /\ LineInv => OneConnection
<1> SUFFICES ASSUME TypeInv, LineInv PROVE OneConnection
  OBVIOUS
<1> USE ConstantFacts
<1>1. nconn \in Nat /\ \A k \in Conns : Active(k) => k = nconn
  <2>1. nconn \in Nat
    BY DEF TypeInv, TypeOK
  <2>2. ASSUME NEW k \in Conns, Active(k)
        PROVE  k = nconn
    <3>1. k \in Nat /\ st[k] \in {"queued", "live"}
      BY <2>2 DEF Active
    <3>2. ~(k > nconn) /\ ~(k < nconn)
      BY <3>1 DEF LineInv
    <3> QED
      BY <2>1, <3>1, <3>2
  <2> QED
    BY <2>1, <2>2
<1>2. ASSUME phase = "run"
      PROVE  nconn \in Conns /\ dialers = IF Active(nconn) THEN 0 ELSE 1
  BY <1>2, <1>1 DEF TypeInv, TypeOK, LineInv
<1>3. CASE phase = "run" /\ \E k \in Conns : Active(k)
  BY <1>1, <1>2, <1>3 DEF OneConnection
<1>4. CASE phase = "run" /\ ~ \E k \in Conns : Active(k)
  BY <1>1, <1>2, <1>4 DEF OneConnection
<1>5. CASE phase # "run"
  BY <1>1, <1>5 DEF OneConnection
<1> QED
  BY <1>3, <1>4, <1>5

-----------------------------------------------------------------------------
IInv == TypeInv /\ LineInv

LEMMA Inductive == Spec => []IInv
<1>1. Init => IInv
  BY TypeInvInit, LineInvInit DEF IInv
<1>2. IInv /\ [Next]_vars => IInv'
  BY TypeInvNext, LineInvNext DEF IInv
<1> QED
  BY <1>1, <1>2, PTL DEF Spec

(***************************************************************************)
(* The variables keep their types, whatever the clock does and wherever a  *)
(* write fails: pos and round_index of on_timer stay inside the rounds.    *)
(***************************************************************************)
THEOREM ClientTypeCorrect == Spec => []TypeOK
<1>1. IInv => TypeOK
  BY DEF IInv, TypeInv
<1> QED
  BY <1>1, Inductive, PTL

(***************************************************************************)
(* While the loop runs there is one connection or one thread dialling it:  *)
(* on_close starts one thread for each connection that is over, the ones   *)
(* for which setsockopt failed in on_add_ctx included.                     *)
(***************************************************************************)
THEOREM OneConnectionHolds == Spec => []OneConnection
<1>1. IInv => OneConnection
  BY LineOneConnection DEF IInv
<1> QED
  BY <1>1, Inductive, PTL

(***************************************************************************)
(* evloop_data->ctx is a live context when on_timer writes to it.          *)
(***************************************************************************)
THEOREM CtxLiveHolds == Spec => []CtxLive
<1>1. IInv => CtxLive
  BY DEF IInv, LineInv
<1> QED
  BY <1>1, Inductive, PTL

-----------------------------------------------------------------------------
(* The wires of the connections dialled so far are a sequence. *)
LEMMA PrefixSeq ==
  ASSUME NEW S, NEW N \in Nat, NEW n \in 0 .. N, NEW f \in [1 .. N -> S]
  PROVE  LET p == [i \in 1 .. n |-> f[i]]
         IN  p \in Seq(S) /\ Len(p) = n
<1>1. \A i \in 1 .. n : i \in 1 .. N
  OBVIOUS
<1>2. [i \in 1 .. n |-> f[i]] \in [1 .. n -> S]
  BY <1>1
<1> QED
  BY <1>2

LEMMA PrefixAppend ==
  ASSUME NEW S, NEW N \in Nat, NEW n \in 0 .. N - 1, NEW f \in [1 .. N -> S]
  PROVE  [i \in 1 .. n + 1 |-> f[i]] = Append([i \in 1 .. n |-> f[i]], f[n + 1])
<1> DEFINE p == [i \in 1 .. n |-> f[i]]
           q == [i \in 1 .. n + 1 |-> f[i]]
<1>1. p \in Seq(S) /\ Len(p) = n /\ q \in Seq(S) /\ Len(q) = n + 1 /\ f[n + 1] \in S
  BY PrefixSeq
<1>2. Append(p, f[n + 1]) \in Seq(S) /\ Len(Append(p, f[n + 1])) = n + 1
  BY <1>1
<1>3. ASSUME NEW i \in 1 .. n + 1 PROVE q[i] = Append(p, f[n + 1])[i]
  <2>1. CASE i = n + 1
    BY <2>1, <1>1
  <2>2. CASE i # n + 1
    <3>1. i \in 1 .. n
      BY <2>2
    <3> QED
      BY <3>1, <1>1
  <2> QED
    BY <2>1, <2>2
<1> HIDE DEF p, q
<1>4. q = Append(p, f[n + 1])
  BY <1>1, <1>2, <1>3, SeqEqual
<1> QED
  BY <1>4 DEF p, q

-----------------------------------------------------------------------------
(***************************************************************************)
(* What the refinement adds: a connection not yet dialled is untouched,    *)
(* one waiting for the loop is not shut, a round in progress is on a       *)
(* connection that is not shut, and the last connection stays open.        *)
(***************************************************************************)
SendInv ==
    /\ \A k \in Conns : /\ k > nconn => wire[k] = <<>> /\ sock[k] = "open"
                        /\ st[k] = "queued" => sock[k] # "shut"
    /\ phase = "dial" => round_index = 0
    /\ pos > 0 => ctx # NoCtx /\ sock[ctx] # "shut"
    /\ sock[MaxConn] = "open"

RInv == IInv /\ SendInv

LEMMA SendInvInit == Init => SendInv
BY ConstantFacts DEF Init, SendInv, Conns, Idle

(* The context of a round is the last connection dialled. *)
LEMMA CtxIsLast ==
  ASSUME IInv
  PROVE  /\ nconn \in Nat
         /\ ctx # NoCtx => /\ ctx = nconn /\ nconn \in Conns
                           /\ st[nconn] = "live"
         /\ \A k \in Conns : Active(k) => k = nconn
<1>1. nconn \in Nat
  BY ConstantFacts DEF IInv, TypeInv, TypeOK
<1>2. ASSUME NEW k \in Conns, Active(k) PROVE k = nconn
  <2>1. k \in Nat /\ st[k] \in {"queued", "live"}
    BY <1>2, ConstantFacts DEF Active
  <2>2. ~(k > nconn) /\ ~(k < nconn)
    BY <2>1 DEF IInv, LineInv
  <2> QED
    BY <1>1, <2>1, <2>2
<1>3. ASSUME ctx # NoCtx PROVE ctx \in Conns /\ st[ctx] = "live"
  BY <1>3 DEF IInv, TypeInv, TypeOK, LineInv, CtxLive
<1> QED
  BY <1>1, <1>2, <1>3 DEF Active

LEMMA SendInvNext == RInv /\ [Next]_vars => SendInv'
<1> SUFFICES ASSUME IInv, TypeOK, SendInv, [Next]_vars PROVE SendInv'
  BY DEF RInv, IInv, TypeInv
<1> USE ConstantFacts DEF SendInv, TypeOK
<1>0. MaxConn \in Conns
  BY DEF Conns
<1>1. CASE run
  <2>1. nconn = 0 /\ pos = -1
    BY <1>1 DEF IInv, TypeInv, RoundInv, LineInv, run, Idle
  <2> QED
    BY <1>1, <1>0, <2>1 DEF run, nb_tcp_connect
<1>2. CASE tcp_async_connect
  BY <1>2, <1>0 DEF tcp_async_connect, nb_tcp_connect, timevars
<1>3. ASSUME NEW k \in Conns, tcp_client_on_add_ctx(k) PROVE SendInv'
  <2>1. k = nconn /\ pos = Idle /\ nconn \in Nat
    BY <1>3, CtxIsLast DEF tcp_client_on_add_ctx, LoopIdle, Active
  <2> QED
    BY <1>3, <1>0, <2>1 DEF tcp_client_on_add_ctx, muggle_socket_ctx_shutdown, Idle
<1>4. ASSUME NEW k \in Conns, tcp_client_on_close(k) PROVE SendInv'
  BY <1>4, <1>0 DEF tcp_client_on_close, ConnLost, LoopIdle, timevars, Idle
<1>5. ASSUME NEW k \in Conns, tcp_client_on_release(k) PROVE SendInv'
  BY <1>5, <1>0 DEF tcp_client_on_release, LoopIdle, timevars
<1>6. CASE ExitLoop
  BY <1>6, <1>0 DEF ExitLoop, netvars, timevars
<1>7. CASE StartRound
  BY <1>7, <1>0 DEF StartRound, netvars
<1>8. CASE SendMessage
  <2>1. /\ ctx = nconn /\ nconn \in Conns /\ st[nconn] = "live" /\ nconn \in Nat
        /\ phase = "run" /\ UNCHANGED <<phase, nconn, st, ctx>>
    BY <1>8, CtxIsLast, SendFacts DEF SendMessage, IInv
  <2>2. PICK res \in WriteResults(ctx) :
            /\ Write(ctx, round_index * NumPerRound + pos, res)
            /\ IF res = "full" THEN NextMessage /\ UNCHANGED sock ELSE WriteFailed
    BY <1>8 DEF SendMessage
  <2>3. \A k \in Conns : k > nconn' => wire'[k] = <<>>
    BY <2>1, <2>2 DEF Write
  <2>4. CASE res = "full"
    <3>1. ctx = MaxConn \/ sock[ctx] # "shut"
      BY <2>2, <2>4, <2>1 DEF WriteResults
    <3>2. sock[ctx] # "shut"
      BY <3>1
    <3> QED
      BY <2>1, <2>2, <2>3, <2>4, <3>2, <1>0 DEF NextMessage, Idle
  <2>5. CASE res # "full"
    <3>1. ctx # MaxConn
      BY <2>2, <2>5 DEF WriteResults
    <3> QED
      BY <2>1, <2>2, <2>3, <2>5, <3>1, <1>0
         DEF WriteFailed, muggle_socket_ctx_shutdown, Idle
  <2> QED
    BY <2>4, <2>5
<1>9. ASSUME NEW k \in Conns, NEW how \in {"eof", "reset"}, PeerClose(k, how)
      PROVE  SendInv'
  <2>1. k = nconn /\ nconn \in Nat
    BY <1>9, CtxIsLast DEF PeerClose, Active
  <2>2. sock' = [sock EXCEPT ![k] = how] /\ how # "shut" /\ k # MaxConn
    BY <1>9 DEF PeerClose
  <2> QED
    BY <1>9, <1>0, <2>1, <2>2 DEF PeerClose, timevars
<1>10. CASE Tick
  BY <1>10, <1>0 DEF Tick, netvars
<1>11. CASE UNCHANGED vars
  BY <1>11, <1>0 DEF vars, netvars, timevars
<1> QED
  BY <1>1, <1>2, <1>3, <1>4, <1>5, <1>6, <1>7, <1>8, <1>9, <1>10, <1>11
     DEF Next, Retry, Terminated

LEMMA SendInductive == Spec => []RInv
<1>1. Init => RInv
  BY TypeInvInit, LineInvInit, SendInvInit DEF RInv, IInv
<1>2. RInv /\ [Next]_vars => RInv'
  BY TypeInvNext, LineInvNext, SendInvNext DEF RInv, IInv
<1> QED
  BY <1>1, <1>2, PTL DEF Spec

-----------------------------------------------------------------------------
Up == \E k \in Conns : Usable(k)
RoundPos == IF pos = Idle THEN 0 ELSE pos
Out == [k \in 1 .. nconn |-> wire[k]]

(* The last connection is usable, or none is. *)
LEMMA UpIsLast == IInv => Up = (nconn \in Conns /\ Usable(nconn))
BY CtxIsLast DEF Up, Usable

LEMMA RefineInit == Init => Sender!Init
<1> SUFFICES ASSUME Init PROVE Sender!Init
  OBVIOUS
<1>1. ~Up
  BY DEF Init, Up, Usable, Active
<1>2. Out = <<>>
  BY DEF Init, Out
<1> QED
  BY <1>1, <1>2 DEF Init, Sender!Init, Up, Out

LEMMA OutSame ==
  ASSUME UNCHANGED <<nconn, wire>>
  PROVE  UNCHANGED Out
BY DEF Out

(* A connection that was dialled is the sender's new one. *)
LEMMA RefineConnect ==
  ASSUME RInv, ~Up, nb_tcp_connect, UNCHANGED <<sock, wire, round_index, pos>>
  PROVE  Sender!Connect
<1>1. /\ nconn \in 0 .. MaxConn - 1 /\ nconn + 1 \in Conns
      /\ nconn' = nconn + 1 /\ st' = [st EXCEPT ![nconn + 1] = "queued"]
      /\ st \in [Conns -> {"unused", "queued", "live", "closed", "released"}]
      /\ wire \in [1 .. MaxConn -> Seq(Frames)]
  BY ConstantFacts DEF RInv, IInv, TypeInv, TypeOK, nb_tcp_connect, Conns
<1>2. sock[nconn + 1] = "open" /\ wire[nconn + 1] = <<>>
  BY <1>1 DEF RInv, SendInv
<1>3. Up'
  BY <1>1, <1>2 DEF Up, Usable, Active
<1>4. Out' = Append(Out, <<>>)
  <2>1. [k \in 1 .. nconn + 1 |-> wire[k]] = Append([k \in 1 .. nconn |-> wire[k]], wire[nconn + 1])
    BY <1>1, ConstantFacts, PrefixAppend
  <2> QED
    BY <1>1, <1>2, <2>1 DEF Out
<1> QED
  BY <1>3, <1>4 DEF Sender!Connect, Up, Out

(* A connection that is over, or shut, is a link that broke. *)
LEMMA RefineDrop ==
  ASSUME UNCHANGED <<nconn, wire, round_index>>, RoundPos' = 0,
         \/ Up /\ ~Up'
         \/ (Up <=> Up') /\ RoundPos = 0
  PROVE  [Sender!Next]_Sender!vars
<1>1. UNCHANGED Out
  BY OutSame
<1>2. CASE Up /\ ~Up'
  BY <1>1, <1>2 DEF Sender!Next, Sender!Break, Sender!Drop, Up, Out, RoundPos
<1>3. CASE (Up <=> Up') /\ RoundPos = 0
  BY <1>1, <1>3 DEF Sender!vars, Up, Out, RoundPos
<1> QED
  BY <1>2, <1>3

(* A write puts a frame at the end of the last wire. *)
LEMMA OutPut ==
  ASSUME RInv, ctx # NoCtx, UNCHANGED nconn, NEW f \in Frames,
         wire' = [wire EXCEPT ![ctx] = Append(@, f)]
  PROVE  Out' = [Out EXCEPT ![Len(Out)] = Append(@, f)]
<1>1. /\ ctx = nconn /\ nconn \in 1 .. MaxConn /\ MaxConn \in Nat
      /\ wire \in [1 .. MaxConn -> Seq(Frames)]
  BY CtxIsLast, ConstantFacts DEF RInv, IInv, TypeInv, TypeOK, Conns
<1> DEFINE e == Append(wire[nconn], f)
           g == [wire EXCEPT ![nconn] = e]
<1>2. wire' = g /\ nconn' = nconn
  BY <1>1
<1>3. Out' = [Out EXCEPT ![Len(Out)] = e]
  <2>1. [i \in 1 .. nconn |-> g[i]] = [Out EXCEPT ![Len(Out)] = e]
    <3>1. Len(Out) = nconn /\ \A i \in 1 .. nconn : i \in 1 .. MaxConn
      BY <1>1, PrefixSeq DEF Out
    <3> HIDE DEF e
    <3> QED
      BY <1>1, <3>1 DEF Out
  <2>2. Out' = [i \in 1 .. nconn |-> g[i]]
    BY <1>2 DEF Out
  <2> QED
    BY <2>1, <2>2
<1>4. Len(Out) = nconn /\ Out[nconn] = wire[nconn]
  BY <1>1, PrefixSeq DEF Out
<1> QED
  BY <1>3, <1>4

(* A write to a context that is shut fails: the round was only begun. *)
LEMMA RefineSend == RInv /\ SendMessage => [Sender!Next]_Sender!vars
<1> SUFFICES ASSUME RInv, SendMessage PROVE [Sender!Next]_Sender!vars
  OBVIOUS
<1>1. /\ ctx \in Conns /\ ctx = nconn /\ ctx # NoCtx /\ st[ctx] = "live"
      /\ pos \in Nat /\ pos < NumPerRound /\ NumPerRound \in Nat
      /\ round_index \in Nat /\ round_index < NumRounds
      /\ UNCHANGED <<nconn, st, ctx>> /\ IInv
      /\ sock \in [Conns -> {"open", "eof", "reset", "shut"}]
  BY SendFacts, CtxIsLast, ConstantFacts
     DEF RInv, IInv, TypeInv, TypeOK, RoundInv, SendMessage, Idle
<1>2. PICK res \in WriteResults(ctx) :
          /\ Write(ctx, round_index * NumPerRound + pos, res)
          /\ IF res = "full" THEN NextMessage /\ UNCHANGED sock ELSE WriteFailed
  BY DEF SendMessage
<1>3. Up <=> sock[ctx] # "shut"
  BY <1>1, UpIsLast DEF Usable, Active
<1>4. res # "error" => Up
  <2>1. CASE ctx = MaxConn
    BY <1>3, <2>1 DEF RInv, SendInv
  <2>2. CASE ctx # MaxConn
    BY <1>1, <1>2, <1>3, <2>2, ConstantFacts DEF WriteResults, Conns
  <2> QED
    BY <2>1, <2>2
<1> DEFINE frame(b) == [seq |-> round_index * NumPerRound + pos, whole |-> b]
<1>5. \A b \in BOOLEAN : frame(b) \in Frames
  BY <1>1, SeqRange DEF Frames
<1>6. RoundPos = pos
  BY <1>1 DEF RoundPos, Idle
<1>7. CASE res = "full"
  <2>1. Out' = [Out EXCEPT ![Len(Out)] = Append(@, frame(TRUE))]
    <3>1. wire' = [wire EXCEPT ![ctx] = Append(@, frame(TRUE))]
      BY <1>2, <1>7 DEF Write
    <3> QED
      BY <3>1, <1>1, <1>5, OutPut
  <2>2. Sender!Put(TRUE)
    BY <2>1, <1>6 DEF Sender!Put, Sender!Current, Out, RoundPos
  <2>3. UNCHANGED <<st, sock>> /\ Up /\ Up'
    BY <1>1, <1>2, <1>4, <1>7 DEF Up, Usable, Active
  <2>4. IF RoundPos + 1 = NumPerRound
        THEN RoundPos' = 0 /\ round_index' = round_index + 1
        ELSE RoundPos' = RoundPos + 1 /\ UNCHANGED round_index
    <3>1. CASE pos + 1 = NumPerRound
      BY <1>1, <1>2, <1>6, <1>7, <3>1 DEF NextMessage, RoundPos
    <3>2. CASE pos + 1 # NumPerRound
      <4>1. pos' = pos + 1 /\ UNCHANGED round_index
        BY <1>2, <1>7, <3>2 DEF NextMessage
      <4>2. pos' # Idle
        BY <1>1, <4>1 DEF Idle
      <4> QED
        BY <1>6, <3>2, <4>1, <4>2 DEF RoundPos
    <3> QED
      BY <3>1, <3>2
  <2> QED
    BY <1>1, <2>2, <2>3, <2>4 DEF Sender!Next, Sender!Send, Up, RoundPos
<1>8. CASE res # "full"
  <2>1. /\ RoundPos' = 0 /\ UNCHANGED round_index
        /\ sock' = [sock EXCEPT ![ctx] = "shut"]
    BY <1>2, <1>8 DEF WriteFailed, muggle_socket_ctx_shutdown, RoundPos, Idle
  <2>2. ~Up'
    <3> SUFFICES ASSUME NEW k \in Conns, Active(k)', sock'[k] # "shut" PROVE FALSE
      BY DEF Up, Usable
    <3>1. Active(k)
      BY <1>1 DEF Active
    <3>2. k = ctx
      BY <1>1, <3>1, CtxIsLast
    <3> QED
      BY <1>1, <2>1, <3>2
  <2>3. CASE res = "error"
    <3>1. UNCHANGED wire
      BY <1>2, <2>3 DEF Write
    <3>2. RoundPos = 0 \/ Up
      BY <1>1, <1>3, <1>6 DEF RInv, SendInv
    <3> QED
      BY <1>1, <2>1, <2>2, <3>1, <3>2, RefineDrop
  <2>4. CASE res # "error"
    <3>1. wire' = [wire EXCEPT ![ctx] = Append(@, frame(FALSE))]
      BY <1>2, <1>8, <2>4 DEF Write
    <3>2. Out' = [Out EXCEPT ![Len(Out)] = Append(@, frame(FALSE))]
      BY <3>1, <1>1, <1>5, OutPut
    <3>3. Sender!Put(FALSE)
      BY <3>2, <1>6 DEF Sender!Put, Sender!Current, Out, RoundPos
    <3> QED
      BY <1>1, <1>4, <2>1, <2>2, <2>4, <3>3
         DEF Sender!Next, Sender!Break, Sender!CutOff, Up, RoundPos
  <2> QED
    BY <2>3, <2>4
<1> QED
  BY <1>7, <1>8

LEMMA RefineNext == RInv /\ [Next]_vars => [Sender!Next]_Sender!vars
<1> SUFFICES ASSUME RInv, [Next]_vars PROVE [Sender!Next]_Sender!vars
  OBVIOUS
<1>3. ASSUME UNCHANGED <<nconn, wire, round_index>>, RoundPos = 0, RoundPos' = 0, Up' => Up
      PROVE  [Sender!Next]_Sender!vars
  <2>1. CASE Up /\ ~Up'
    BY <1>3, <2>1, RefineDrop
  <2>2. CASE Up <=> Up'
    BY <1>3, <2>2, RefineDrop
  <2> QED
    BY <1>3, <2>1, <2>2
<1> USE DEF RInv, IInv, TypeInv, TypeOK
<1>0. /\ nconn \in Nat
      /\ \A k \in Conns : Active(k) => k = nconn
  BY CtxIsLast
<1>1. CASE run
  <2>1. ~Up
    <3>1. nconn \notin Conns
      BY <1>1, ConstantFacts DEF LineInv, run
    <3> QED
      BY <3>1, UpIsLast
  <2>2. UNCHANGED <<sock, wire, round_index, pos>>
    <3>1. round_index = 0
      BY <1>1 DEF SendInv, run
    <3> QED
      BY <1>1, <3>1 DEF run
  <2> QED
    BY <1>1, <2>1, <2>2, RefineConnect DEF run, Sender!Next
<1>2. CASE tcp_async_connect
  <2>1. ~Up
    <3>1. dialers # 0 /\ (phase # "dial" => (Active(nconn) => dialers = 0))
          /\ (phase = "dial" => dialers = 0)
      BY <1>2 DEF LineInv, tcp_async_connect
    <3> QED
      BY <3>1, UpIsLast DEF Usable
  <2> QED
    BY <1>2, <2>1, RefineConnect DEF tcp_async_connect, Sender!Next
<1>4. ASSUME NEW k \in Conns, tcp_client_on_add_ctx(k)
      PROVE  [Sender!Next]_Sender!vars
  <2>1. Up' => Up
    BY <1>4 DEF Up, Usable, Active, SendInv, tcp_client_on_add_ctx, muggle_socket_ctx_shutdown
  <2> QED
    BY <1>3, <1>4, <2>1 DEF tcp_client_on_add_ctx, LoopIdle, RoundPos
<1>5. ASSUME NEW k \in Conns, tcp_client_on_close(k)
      PROVE  [Sender!Next]_Sender!vars
  <2>1. Up' => Up
    BY <1>5 DEF Up, Usable, Active, tcp_client_on_close
  <2> QED
    BY <1>3, <1>5, <2>1 DEF tcp_client_on_close, LoopIdle, RoundPos
<1>6. ASSUME NEW k \in Conns, tcp_client_on_release(k)
      PROVE  [Sender!Next]_Sender!vars
  <2>1. Up' => Up
    BY <1>6 DEF Up, Usable, Active, tcp_client_on_release
  <2> QED
    BY <1>3, <1>6, <2>1 DEF tcp_client_on_release, LoopIdle, RoundPos
<1>7. ASSUME UNCHANGED <<nconn, wire, round_index, st, sock, RoundPos>>
      PROVE  UNCHANGED Sender!vars
  BY <1>7, OutSame DEF Sender!vars, Usable, Active, Out, RoundPos
<1>8. CASE ExitLoop
  BY <1>7, <1>8 DEF ExitLoop, netvars, RoundPos
<1>9. CASE StartRound
  BY <1>7, <1>9 DEF StartRound, LoopIdle, netvars, RoundPos
<1>10. CASE SendMessage
  BY <1>10, RefineSend
<1>11. ASSUME NEW k \in Conns, NEW how \in {"eof", "reset"}, PeerClose(k, how)
       PROVE  UNCHANGED Sender!vars
  <2>1. \A j \in Conns : (sock'[j] # "shut") <=> (sock[j] # "shut")
    BY <1>11 DEF PeerClose
  <2>2. Up' <=> Up
    BY <1>11, <2>1 DEF PeerClose, Up, Usable, Active
  <2>3. UNCHANGED Out /\ UNCHANGED <<round_index, RoundPos>>
    BY <1>11, OutSame DEF PeerClose, RoundPos
  <2> QED
    BY <2>2, <2>3 DEF Sender!vars, Up, Out, RoundPos
<1>12. CASE Tick
  BY <1>7, <1>12 DEF Tick, netvars, RoundPos
<1>13. CASE UNCHANGED vars
  BY <1>7, <1>13 DEF vars, netvars, RoundPos
<1> QED
  BY <1>1, <1>2, <1>4, <1>5, <1>6, <1>8, <1>9, <1>10, <1>11, <1>12, <1>13
     DEF Next, Retry, Terminated

(***************************************************************************)
(* tcp_client implements RoundSender: on_timer sends the rounds in order,  *)
(* and repeats on the next connection only the round that failed.          *)
(***************************************************************************)
THEOREM SenderRefined == Spec => SenderSpec
BY RefineInit, RefineNext, SendInductive, PTL DEF Spec, SenderSpec, Sender!Spec
-----------------------------------------------------------------------------
(***************************************************************************)
(* What is on the wires.  A frame tells the round it belongs to; the part  *)
(* of the round in progress that was written is whole on its connection,   *)
(* and a round that was counted is whole on one and on none after it.      *)
(***************************************************************************)
FrameOn(m, k) == \E i \in DOMAIN wire[k] : wire[k][i] = [seq |-> m, whole |-> TRUE]

NotOn(r, k) == \A i \in DOMAIN wire[k] : wire[k][i].seq \div NumPerRound # r

SentOnce(r) ==
    \E k \in Conns : RoundOn(r, k) /\ \A j \in Conns : j > k => NotOn(r, j)

WireInv ==
    /\ \A r \in 0 .. round_index - 1 : SentOnce(r)
    /\ pos > 0 => \A j \in 0 .. pos - 1 : FrameOn(round_index * NumPerRound + j, ctx)
    /\ phase = "exited" => round_index = NumRounds

WInv == RInv /\ WireInv

(* A sequence number is divided into its round and its place there. *)
LEMMA RoundOfSeq ==
  ASSUME NEW r \in Nat, NEW n \in Nat, NEW p \in 0 .. n - 1
  PROVE  (r * n + p) \div n = r
BY SMT

LEMMA AppendFacts ==
  ASSUME NEW S, NEW s \in Seq(S), NEW e \in S
  PROVE  /\ DOMAIN s = 1 .. Len(s) /\ Len(s) \in Nat
         /\ DOMAIN Append(s, e) = 1 .. Len(s) + 1
         /\ Append(s, e)[Len(s) + 1] = e
         /\ \A i \in 1 .. Len(s) : Append(s, e)[i] = s[i]
OBVIOUS

(* A frame put on a wire leaves those before it where they are. *)
LEMMA FrameKept ==
  ASSUME wire \in [Conns -> Seq(Frames)], NEW c \in Conns, NEW f \in Frames,
         wire' = [wire EXCEPT ![c] = Append(@, f)],
         NEW m, NEW k \in Conns, FrameOn(m, k)
  PROVE  FrameOn(m, k)'
<1>1. PICK i \in DOMAIN wire[k] : wire[k][i] = [seq |-> m, whole |-> TRUE]
  BY DEF FrameOn
<1> DEFINE line == wire[c]
<1>2. line \in Seq(Frames)
  OBVIOUS
<1>3. CASE k = c
  <2>1. i \in DOMAIN line /\ line[i] = [seq |-> m, whole |-> TRUE]
    BY <1>1, <1>3
  <2>2. i \in DOMAIN Append(line, f) /\ Append(line, f)[i] = line[i]
    <3> HIDE DEF line
    <3>1. DOMAIN line = 1 .. Len(line) /\ DOMAIN Append(line, f) = 1 .. Len(line) + 1
          /\ \A j \in 1 .. Len(line) : Append(line, f)[j] = line[j] /\ Len(line) \in Nat
      BY <1>2, AppendFacts
    <3> QED
      BY <2>1, <3>1
  <2>3. wire'[k] = Append(line, f)
    BY <1>3
  <2> QED
    BY <2>1, <2>2, <2>3 DEF FrameOn
<1>4. CASE k # c
  BY <1>1, <1>4 DEF FrameOn
<1> QED
  BY <1>3, <1>4

LEMMA RoundKept ==
  ASSUME wire \in [Conns -> Seq(Frames)], NEW c \in Conns, NEW f \in Frames,
         wire' = [wire EXCEPT ![c] = Append(@, f)],
         NEW r, NEW k \in Conns, RoundOn(r, k)
  PROVE  RoundOn(r, k)'
<1>1. \A j \in 0 .. NumPerRound - 1 : FrameOn(r * NumPerRound + j, k)
  BY DEF RoundOn, FrameOn
<1>2. \A j \in 0 .. NumPerRound - 1 : FrameOn(r * NumPerRound + j, k)'
  BY <1>1, FrameKept
<1> QED
  BY <1>2 DEF RoundOn, FrameOn

(* The frame is there, and nothing else is new on its wire. *)
LEMMA FramePut ==
  ASSUME wire \in [Conns -> Seq(Frames)], NEW c \in Conns, NEW f \in Frames,
         wire' = [wire EXCEPT ![c] = Append(@, f)]
  PROVE  /\ \E i \in DOMAIN wire'[c] : wire'[c][i] = f
         /\ \A r : \A k \in Conns : NotOn(r, k) /\ (k = c => f.seq \div NumPerRound # r)
                                   => NotOn(r, k)'
<1> DEFINE line == wire[c]
<1>1. line \in Seq(Frames) /\ wire'[c] = Append(line, f)
  OBVIOUS
<1>2. /\ DOMAIN Append(line, f) = 1 .. Len(line) + 1
      /\ Append(line, f)[Len(line) + 1] = f
      /\ \A i \in 1 .. Len(line) : Append(line, f)[i] = line[i]
      /\ Len(line) \in Nat /\ DOMAIN line = 1 .. Len(line)
  <2> HIDE DEF line
  <2> QED
    BY <1>1, AppendFacts
<1>3. \E i \in DOMAIN wire'[c] : wire'[c][i] = f
  BY <1>1, <1>2
<1>4. ASSUME NEW k \in Conns, NEW r, NotOn(r, k), k = c => f.seq \div NumPerRound # r
      PROVE  NotOn(r, k)'
  <2>1. CASE k = c
    <3> SUFFICES ASSUME NEW i \in 1 .. Len(line) + 1
                 PROVE  Append(line, f)[i].seq \div NumPerRound # r
      BY <1>1, <1>2, <2>1 DEF NotOn
    <3>1. CASE i = Len(line) + 1
      BY <3>1, <1>2, <1>4, <2>1
    <3>2. CASE i # Len(line) + 1
      <4>1. i \in 1 .. Len(line)
        BY <1>2, <3>2
      <4> QED
        BY <4>1, <1>2, <1>4, <2>1 DEF NotOn
    <3> QED
      BY <3>1, <3>2
  <2>2. CASE k # c
    BY <1>4, <2>2 DEF NotOn
  <2> QED
    BY <2>1, <2>2
<1> QED
  BY <1>3, <1>4

LEMMA WireInvInit == Init => WireInv
BY ConstantFacts DEF Init, WireInv, Idle

(* A step that writes nothing, and counts nothing. *)
LEMMA WireInvKept ==
  ASSUME WireInv, UNCHANGED <<wire, round_index>>,
         pos' > 0 => pos' = pos /\ ctx' = ctx,
         phase' = "exited" => phase = "exited" \/ round_index = NumRounds
  PROVE  WireInv'
<1>1. \A r : SentOnce(r) => SentOnce(r)'
  BY DEF SentOnce, RoundOn, NotOn
<1>2. \A m, k : FrameOn(m, k) => FrameOn(m, k)'
  BY DEF FrameOn
<1>3. (\A r \in 0 .. round_index - 1 : SentOnce(r))'
  BY <1>1 DEF WireInv
<1>4. (pos > 0 => \A j \in 0 .. pos - 1 : FrameOn(round_index * NumPerRound + j, ctx))'
  BY <1>2 DEF WireInv
<1> QED
  BY <1>3, <1>4 DEF WireInv

(***************************************************************************)
(* A message is put on the wire of the last connection.  Rounds that were  *)
(* counted are not touched: it belongs to the round after them.  If it is  *)
(* the last of its round, the round is whole there and on no later wire,   *)
(* since those are empty.                                                  *)
(***************************************************************************)
LEMMA WireInvSend ==
  ASSUME WInv, SendMessage
  PROVE  WireInv'
<1>1. /\ ctx \in Conns /\ ctx = nconn /\ phase = "run" /\ pos \in Nat
      /\ round_index \in Nat /\ round_index < NumRounds /\ pos < NumPerRound
      /\ UNCHANGED <<phase, ctx>>
      /\ wire \in [Conns -> Seq(Frames)] /\ NumPerRound \in Nat
  BY SendFacts, CtxIsLast, ConstantFacts
     DEF WInv, RInv, IInv, TypeInv, TypeOK, SendMessage
<1>2. PICK res \in WriteResults(ctx) :
          /\ Write(ctx, round_index * NumPerRound + pos, res)
          /\ IF res = "full" THEN NextMessage /\ UNCHANGED sock ELSE WriteFailed
  BY DEF SendMessage
<1>3. CASE res = "error"
  <2>1. UNCHANGED <<wire, round_index>> /\ pos' = Idle
    BY <1>2, <1>3 DEF Write, WriteFailed
  <2> QED
    BY <1>1, <2>1, WireInvKept DEF WInv, Idle
<1>4. CASE res # "error"
  <2>1. PICK b \in BOOLEAN, r0 \in Nat, p0 \in 0 .. NumPerRound - 1, c \in Conns :
            b = (res = "full") /\ r0 = round_index /\ p0 = pos /\ c = ctx
    <3>1. pos \in 0 .. NumPerRound - 1 /\ (res = "full") \in BOOLEAN
      BY <1>1
    <3> QED
      BY <1>1, <3>1, Zenon
  <2>2. PICK f : f = [seq |-> r0 * NumPerRound + p0, whole |-> b]
    OBVIOUS
  <2>3. /\ f \in Frames
        /\ f.seq \div NumPerRound = r0
    <3>1. f.seq \in 0 .. NumRounds * NumPerRound - 1
      BY <1>1, <2>1, <2>2, SeqRange
    <3> QED
      BY <1>1, <2>1, <2>2, <3>1, RoundOfSeq DEF Frames
  <2>4. wire' = [wire EXCEPT ![c] = Append(@, f)]
    BY <1>2, <1>4, <2>1, <2>2 DEF Write
  <2>5. ASSUME NEW r \in 0 .. r0 - 1
        PROVE  SentOnce(r)'
    <3>1. PICK k \in Conns : RoundOn(r, k) /\ \A j \in Conns : j > k => NotOn(r, j)
      BY <2>1 DEF WInv, WireInv, SentOnce
    <3>2. RoundOn(r, k)'
      BY <1>1, <2>3, <2>4, <3>1, RoundKept
    <3>3. r # r0
      BY <2>1
    <3>4. \A j \in Conns : j > k => NotOn(r, j)'
      BY <1>1, <2>3, <2>4, <3>1, <3>3, FramePut
    <3> QED
      BY <3>2, <3>4 DEF SentOnce
  <2>6. CASE res # "full"
    <3>1. UNCHANGED round_index /\ pos' = Idle
      BY <1>2, <2>6 DEF WriteFailed
    <3> QED
      BY <1>1, <2>1, <2>5, <3>1 DEF WireInv, Idle
  <2>7. CASE res = "full"
    <3>1. FrameOn(r0 * NumPerRound + p0, c)'
      <4>1. f = [seq |-> r0 * NumPerRound + p0, whole |-> TRUE]
        BY <2>1, <2>2, <2>7
      <4> QED
        BY <1>1, <2>3, <2>4, <4>1, FramePut DEF FrameOn
    <3>2. ASSUME NEW j \in 0 .. p0 - 1 PROVE FrameOn(r0 * NumPerRound + j, c)'
      <4>1. FrameOn(r0 * NumPerRound + j, c)
        BY <2>1 DEF WInv, WireInv
      <4> QED
        BY <1>1, <2>3, <2>4, <4>1, FrameKept
    <3>3. \A j \in 0 .. p0 : FrameOn(r0 * NumPerRound + j, c)'
      BY <2>1, <3>1, <3>2
    <3>4. CASE p0 + 1 = NumPerRound
      <4>1. pos' = Idle /\ round_index' = r0 + 1
        BY <1>2, <2>1, <2>7, <3>4 DEF NextMessage
      <4>2. RoundOn(r0, c)'
        <5>1. \A j \in 0 .. NumPerRound - 1 : FrameOn(r0 * NumPerRound + j, c)'
          <6>1. p0 = NumPerRound - 1
            BY <1>1, <2>1, <3>4
          <6> QED
            BY <3>3, <6>1, Zenon
        <5> QED
          BY <5>1 DEF RoundOn, FrameOn
      <4>3. ASSUME NEW j \in Conns, j > c PROVE NotOn(r0, j)'
        <5>1. wire[j] = <<>> /\ j # c
          BY <1>1, <2>1, <4>3, ConstantFacts DEF WInv, RInv, SendInv
        <5>2. wire'[j] = <<>>
          BY <1>1, <2>4, <5>1
        <5> QED
          BY <5>2 DEF NotOn
      <4>4. SentOnce(r0)'
        BY <4>2, <4>3 DEF SentOnce
      <4>5. (\A r \in 0 .. round_index - 1 : SentOnce(r))'
        BY <2>1, <2>5, <4>1, <4>4
      <4> QED
        BY <1>1, <4>1, <4>5 DEF WireInv, Idle
    <3>5. CASE p0 + 1 # NumPerRound
      <4>1. pos' = p0 + 1 /\ round_index' = r0 /\ ctx' = c
        BY <1>1, <1>2, <2>1, <2>7, <3>5 DEF NextMessage
      <4>2. (\A j \in 0 .. pos - 1 : FrameOn(round_index * NumPerRound + j, ctx))'
        BY <2>1, <3>3, <4>1
      <4>3. (\A r \in 0 .. round_index - 1 : SentOnce(r))'
        BY <2>5, <4>1
      <4> QED
        BY <1>1, <4>2, <4>3 DEF WireInv
    <3> QED
      BY <3>4, <3>5
  <2> QED
    BY <2>6, <2>7
<1> QED
  BY <1>3, <1>4

LEMMA WireInvNext == WInv /\ [Next]_vars => WireInv'
<1> SUFFICES ASSUME WInv, [Next]_vars PROVE WireInv'
  OBVIOUS
<1>0. WireInv
  BY DEF WInv
<1>1. CASE run
  <2>1. round_index = 0 /\ UNCHANGED pos /\ ~(pos > 0)
    BY <1>1 DEF WInv, RInv, IInv, TypeInv, RoundInv, SendInv, run, Idle
  <2> QED
    BY <1>0, <1>1, <2>1, WireInvKept DEF run
<1>2. CASE tcp_async_connect
  BY <1>0, <1>2, WireInvKept DEF tcp_async_connect
<1>3. ASSUME NEW k \in Conns, tcp_client_on_add_ctx(k) PROVE WireInv'
  BY <1>0, <1>3, WireInvKept DEF tcp_client_on_add_ctx, LoopIdle, Idle
<1>4. ASSUME NEW k \in Conns, tcp_client_on_close(k) PROVE WireInv'
  BY <1>0, <1>4, WireInvKept DEF tcp_client_on_close, LoopIdle, Idle
<1>5. ASSUME NEW k \in Conns, tcp_client_on_release(k) PROVE WireInv'
  BY <1>0, <1>5, WireInvKept DEF tcp_client_on_release
<1>6. CASE ExitLoop
  <2>1. round_index = NumRounds
    BY <1>6, ConstantFacts DEF WInv, RInv, IInv, TypeInv, TypeOK, ExitLoop
  <2> QED
    BY <1>0, <1>6, <2>1, WireInvKept DEF ExitLoop, netvars
<1>7. CASE StartRound
  BY <1>0, <1>7, WireInvKept DEF StartRound, netvars
<1>8. CASE SendMessage
  BY <1>8, WireInvSend
<1>9. ASSUME NEW k \in Conns, NEW how \in {"eof", "reset"}, PeerClose(k, how)
      PROVE  WireInv'
  BY <1>0, <1>9, WireInvKept DEF PeerClose
<1>10. CASE Tick
  BY <1>0, <1>10, WireInvKept DEF Tick, netvars
<1>11. CASE UNCHANGED vars
  BY <1>0, <1>11, WireInvKept DEF vars, netvars
<1> QED
  BY <1>1, <1>2, <1>3, <1>4, <1>5, <1>6, <1>7, <1>8, <1>9, <1>10, <1>11
     DEF Next, Retry, Terminated

(***************************************************************************)
(* Wherever writes fail and connections break, a round that on_timer has   *)
(* counted went out whole on one connection and was not started on a later *)
(* one, and the loop exits only after the last round was counted.          *)
(***************************************************************************)
THEOREM RoundsSentOnceHolds == Spec => []RoundsSentOnce
<1>1. Init => WInv
  BY TypeInvInit, LineInvInit, SendInvInit, WireInvInit DEF WInv, RInv, IInv
<1>2. WInv /\ [Next]_vars => WInv'
  BY TypeInvNext, LineInvNext, SendInvNext, WireInvNext DEF WInv, RInv, IInv
<1>3. WInv => RoundsSentOnce
  BY DEF WInv, WireInv, SentOnce, NotOn, RoundsSentOnce
<1> QED
  BY <1>1, <1>2, <1>3, PTL DEF Spec
=============================================================================
