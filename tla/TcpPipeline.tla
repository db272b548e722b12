----------------------------- MODULE TcpPipeline -----------------------------
(***************************************************************************)
(* The TCP benchmark end to end: tcp_client as RoundSender promises it,    *)
(* tcp_server as Relay does, tcp_upstream with its callbacks, and the      *)
(* records of the client and the upstream that the analysis pairs.         *)
(*                                                                         *)
(* Session s of the relay is the client's connection s, and link k of the  *)
(* upstream the relay's k-th.  What was written on a connection may be     *)
(* received as long as neither end has closed it, also after it broke.     *)
(***************************************************************************)
EXTENDS TcpUpstream, Sequences, FiniteSets

CONSTANTS NumRounds,    \* args->round_num
          NumPerRound,  \* args->num_per_round
          MaxConn,      \* bound: connections of the client
          MaxLink       \* bound: connections of the server to the upstream

VARIABLES up, round, pos, out,      \* the client, see RoundSender
          stage,                    \* where it is with message cur
          cur,
          link, taken, log,         \* the server, see Relay
          recs                      \* per message, its records in order

clientvars == <<up, round, pos, out, stage, cur>>
servervars == <<link, taken, log>>
pipevars   == <<clientvars, servervars, vars, recs>>

Msgs  == 0 .. NumRounds * NumPerRound - 1
Conns == 1 .. MaxConn

ASSUME PipelineAssumption ==
    /\ {NumRounds, NumPerRound, MaxConn, MaxLink} \subseteq Nat \ {0}
    /\ Links = 1 .. MaxLink

Client == INSTANCE RoundSender

Server == INSTANCE Relay WITH Sessions <- Conns

(* The frames that went out whole on link k ... *)
OnLink(k) == IF k \in DOMAIN log THEN log[k] ELSE <<>>

(* ... and how many of them there are: all have arrived. *)
OnLinks == [k \in Links |-> Len(OnLink(k))]

PipeInit ==
    /\ Client!Init
    /\ Server!Init
    /\ Init
    /\ stage = "idle"
    /\ cur = 0
    /\ recs = [m \in Msgs |-> <<>>]

Record(m, action) == recs' = [recs EXCEPT ![m] = Append(@, action)]

-----------------------------------------------------------------------------
ClientConnect ==
    /\ Len(out) < MaxConn
    /\ stage = "idle"
    /\ Client!Connect
    /\ UNCHANGED <<stage, cur, servervars, vars, recs>>

(* A connection that breaks between rounds; within one, the next write fails. *)
ClientLost ==
    /\ stage = "idle" /\ pos = 0
    /\ Client!Drop
    /\ UNCHANGED <<stage, cur, servervars, vars, recs>>

ThisMessage == Client!Current

SendBegin ==
    /\ up
    /\ stage = "idle"
    /\ round < NumRounds
    /\ stage' = "begun"
    /\ cur' = ThisMessage
    /\ Record(cur', "client.snd_begin")
    /\ UNCHANGED <<up, round, pos, out, servervars, vars>>

Write ==
    /\ stage = "begun"
    /\ Client!Send \/ Client!Break
    /\ stage' = "written"
    /\ UNCHANGED <<cur, servervars, vars, recs>>

(* Whether the write has failed or not. *)
SendEnd ==
    /\ stage = "written"
    /\ stage' = "idle"
    /\ Record(cur, "client.snd_end")
    /\ UNCHANGED <<up, round, pos, out, cur, servervars, vars>>

-----------------------------------------------------------------------------
(* Mutant: a message is handled when the next one follows. *)
whole_but_last(s) ==
    IF s \in DOMAIN out
    THEN Cardinality({i \in DOMAIN out[s] : out[s][i].whole /\ i < Len(out[s])}) ELSE 0

(* The server gets to see whole messages only, in the order of writing. *)
Whole(s) ==
    IF s \in DOMAIN out THEN Cardinality({i \in DOMAIN out[s] : out[s][i].whole}) ELSE 0

ServerTakes(s) ==
    /\ taken[s] < Whole(s)
    /\ Server!Forward(s) \/ Server!Lose(s)
    /\ arrived' = OnLinks'
    /\ UNCHANGED <<clientvars, loopvars, handled, parsing, batch, recs>>

(* The upstream accepts connections once it listens. *)
ServerLink ==
    /\ \/ Len(log) < MaxLink /\ phase = "run" /\ Server!Establish
       \/ Server!Degrade
       \/ Server!Teardown
    /\ arrived' = OnLinks'
    /\ UNCHANGED <<clientvars, loopvars, handled, parsing, batch, recs>>

-----------------------------------------------------------------------------
UpstreamRun == UNCHANGED <<clientvars, servervars, recs>> /\ run

UpstreamCallback(k) ==
    /\ k \in DOMAIN log
    /\ UNCHANGED <<clientvars, servervars, recs>>
    /\ \/ tcp_upstream_on_connect(k)
       \/ tcp_upstream_on_message(k)
       \/ tcp_upstream_on_close(k)
       \/ tcp_upstream_on_release(k)

(* Mutant: the header is read where the batch begins. *)
first_on_link(k) == out[log[k][1][1]][log[k][1][2]].seq

(* The message that the relay has put at this place of the link. *)
NextOnLink(k) ==
    LET m == log[k][handled[k] + 1] IN out[m[1]][m[2]].seq

UpstreamHandles(k) ==
    /\ k \in DOMAIN log
    /\ UNCHANGED <<clientvars, servervars>>
    /\ tcp_upstream_handle_message(k)
    /\ Record(NextOnLink(k), "upstream.rcv")

(* The end of a link is seen when no more can be written to it, a reset at any time. *)
LinkEnds(k, how) ==
    /\ k \in DOMAIN log
    /\ how = "eof" => k < Len(log) \/ link \in {"cut", "down"}
    /\ UNCHANGED <<clientvars, servervars, recs>>
    /\ PeerClose(k, how)

PipeNext ==
    \/ ClientConnect
    \/ ClientLost
    \/ SendBegin
    \/ Write
    \/ SendEnd
    \/ \E s \in Conns : ServerTakes(s)
    \/ ServerLink
    \/ UpstreamRun
    \/ \E k \in Links : UpstreamCallback(k)
    \/ \E k \in Links : UpstreamHandles(k)
    \/ \E k \in Links, how \in {"eof", "reset"} : LinkEnds(k, how)

PipeSpec == PipeInit /\ [][PipeNext]_pipevars

(* Every program goes on with what it has begun, and the client and the server dial. *)
PipeFairSpec ==
    /\ PipeSpec
    /\ WF_pipevars(ClientConnect)
    /\ WF_pipevars(SendBegin)
    /\ WF_pipevars(Write)
    /\ WF_pipevars(SendEnd)
    /\ WF_pipevars(UpstreamRun)
    /\ \A s \in Conns : WF_pipevars(ServerTakes(s))
    /\ \A k \in Links : WF_pipevars(UpstreamCallback(k)) /\ WF_pipevars(UpstreamHandles(k))

-----------------------------------------------------------------------------
Count(m, action) == Cardinality({i \in DOMAIN recs[m] : recs[m][i] = action})

(***************************************************************************)
(* However often connections break, and a round is sent again, a message   *)
(* is received at most once for each time the client has begun to send it, *)
(* and never before: every receipt can be paired with a sending of its own.*)
(***************************************************************************)
OncePerTry == \A m \in Msgs : Count(m, "upstream.rcv") <= Count(m, "client.snd_begin")

(***************************************************************************)
(* Nothing stalls between the three programs: as long as no connection     *)
(* breaks and the server has had a link for each message, the upstream     *)
(* receives every message.                                                 *)
(***************************************************************************)
RelayedFrom(s) ==
    {p \in Links \X (1 .. Cardinality(Msgs)) :
        p[2] <= Len(OnLink(p[1])) /\ OnLink(p[1])[p[2]][1] = s}

Lost == \E s \in Conns : Cardinality(RelayedFrom(s)) < taken[s]

Broken ==
    \/ Len(out) = 1 /\ ~up
    \/ log # <<>> /\ link # "up"
    \/ \E k \in Links : sock[k] # "open"
    \/ Lost

AllReceived == <>(Broken \/ \A m \in Msgs : Count(m, "upstream.rcv") > 0)

=============================================================================
