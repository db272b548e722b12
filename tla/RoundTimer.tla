----------------------------- MODULE RoundTimer -----------------------------
(***************************************************************************)
(* When a round of tcp_client or udp_client starts, against true time: the *)
(* timer callback reads the real-time clock, which may be set forward or   *)
(* back while the program runs, and subtracts the time it has stored.      *)
(* tcp_client computes the difference in 64 bits with a sign, udp_client   *)
(* in 32 without.  Connections and messages are left to TcpClient and      *)
(* UdpPipeline.                                                            *)
(*                                                                         *)
(* The clock is kept relative to last_ts, in ticks.                        *)
(***************************************************************************)
EXTENDS Integers

CONSTANTS Wrap,         \* values of an unsigned elapsed_ms; 2^32 in the code
          IntervalMs,   \* args->round_interval_ms
          CliWaitMs,    \* args->cli_wait, in milliseconds
          NumRounds,    \* args->round_num
          TicksPerMs,   \* resolution of the clock
          MaxGap,       \* bound: ticks of the clock past last_ts
          MaxBack       \* bound: ticks the clock is before last_ts

ASSUME TimerAssumption ==
    /\ {Wrap, NumRounds, TicksPerMs, MaxGap, MaxBack} \subseteq Nat \ {0}
    /\ {IntervalMs, CliWaitMs} \subseteq Nat
    /\ MaxGap >= (IntervalMs + 1) * TicksPerMs
    /\ MaxBack >= CliWaitMs * TicksPerMs
    /\ (MaxGap + MaxBack) \div TicksPerMs + 1 < Wrap

VARIABLES client,       \* "tcp_client" or "udp_client"
          gap,          \* ticks from last_ts to the clock
          last_sub,     \* the ticks of last_ts within its millisecond
          since,        \* true ticks since last_ts was stored
          set,          \* directions the clock was set in since then
          was_set,      \* the clock has been set: once, as a bound
          started       \* evloop_data->round_index

clockvars == <<gap, last_sub, since, set, was_set>>
timervars == <<client, clockvars, started>>

(* on_add_ctx of tcp_client puts last_ts into the future. *)
Wait == IF client = "tcp_client" THEN CliWaitMs * TicksPerMs ELSE 0

TimerInit ==
    /\ client \in {"tcp_client", "udp_client"}
    /\ gap = -Wait
    /\ last_sub \in 0 .. TicksPerMs - 1
    /\ since = -Wait
    /\ set = {}
    /\ was_set = FALSE
    /\ started = 0

-----------------------------------------------------------------------------
(* The loop calls the timer before the clock is MaxGap past last_ts. *)
Tick ==
    /\ gap < MaxGap
    /\ gap' = gap + 1
    /\ since' = since + 1
    /\ UNCHANGED <<client, last_sub, set, was_set, started>>

SetClock ==
    /\ ~was_set
    /\ gap' \in (-MaxBack .. MaxGap) \ {gap}
    /\ set' = set \cup {IF gap' < gap THEN "back" ELSE "forward"}
    /\ was_set' = TRUE
    /\ UNCHANGED <<client, last_sub, since, started>>

(* Seconds and whole milliseconds of both times. *)
Difference == (last_sub + gap) \div TicksPerMs

(* Mutant: 32 bits without a sign for tcp_client too. *)
elapsed_unsigned == Difference % Wrap

elapsed_ms ==
    IF client = "udp_client" THEN Difference % Wrap ELSE Difference

Due == elapsed_ms >= IntervalMs

RoundsLeft == started < NumRounds

StartRound ==
    /\ RoundsLeft
    /\ Due
    /\ gap' = 0
    /\ last_sub' = (last_sub + gap) % TicksPerMs
    /\ since' = 0
    /\ set' = {}
    /\ started' = started + 1
    /\ UNCHANGED <<client, was_set>>

(* The callback returns: it is too early. *)
NotDue == RoundsLeft /\ ~Due /\ UNCHANGED timervars

Completed == started = NumRounds /\ UNCHANGED timervars

TimerNext == Tick \/ SetClock \/ StartRound \/ NotDue \/ Completed

TimerSpec == TimerInit /\ [][TimerNext]_timervars

-----------------------------------------------------------------------------
(* A round starts less than a millisecond early, or late. *)
InTime == since > (IntervalMs - 1) * TicksPerMs

(***************************************************************************)
(* --round.interval is the "interval between round (ms)", --cli.wait the   *)
(* time before the first: but for the truncated millisecond, no round of   *)
(* tcp_client starts earlier unless the clock is set forward, and none of  *)
(* udp_client unless it is set.  Setting the clock disturbs the round that *)
(* is waited for, and none after that.                                     *)
(***************************************************************************)
Paced ==
    [][StartRound => \/ InTime
                     \/ "forward" \in set
                     \/ client = "udp_client" /\ "back" \in set]_timervars
=============================================================================
