---------------------------- MODULE PayloadLayout ----------------------------
(***************************************************************************)
(* main and run() of tcp_client and udp_client, and the messages they lay  *)
(* out in one buffer before the event loop sends them round by round.      *)
(* Sizes and addresses count the 4-byte fields of nb_msg_hdr_t and         *)
(* nb_msg_data_t (a --msg.size between two multiples of 4 is left out).    *)
(* All products are uint32_t, of Modulus values here.                      *)
(*                                                                         *)
(* Writing outside the buffer is undefined: the program may end there, or  *)
(* go on with what it wrote.                                               *)
(***************************************************************************)
EXTENDS Naturals, Sequences, Functions

CONSTANTS Modulus,      \* values of a product; 2^32 in the code
          NumSizes,     \* length of msg_size_arr; 7 in the code
          SizeArgs,     \* values of --msg.size; 0 when it is not given
          MaxNumPer,    \* bound: args->num_per_round
          MaxRounds,    \* bound: args->round_num
          UserId        \* args->user_id

ASSUME LayoutAssumption ==
    /\ {Modulus, NumSizes, MaxNumPer, MaxRounds, UserId} \subseteq Nat \ {0}
    /\ NumSizes <= 7
    /\ SizeArgs \subseteq Nat

VARIABLES program,        \* "tcp_client" or "udp_client"
          arg,            \* --msg.size
          num_per_round,  \* args->num_per_round
          round_num,      \* args->round_num
          phase,          \* how far main has got
          run_index,      \* runs of main so far
          i,              \* messages laid out, or sent, in this run
          mem,            \* the fields written at and behind the buffer
          sent            \* the records of client.snd_begin, in order

args == <<program, arg, num_per_round, round_num>>
vars == <<args, phase, run_index, i, mem, sent>>

uint32(x) == x % Modulus

Header == 2     \* fields of nb_msg_hdr_t
Fields == 4     \* ... and of nb_msg_data_t behind it

(* 16 bytes, 32 bytes, and so on up to 1024. *)
msg_size_arr == [k \in 1 .. NumSizes |-> <<4, 8, 16, 32, 64, 128, 256>>[k]]

Values == 0 .. Modulus - 1

Init ==
    /\ program \in {"tcp_client", "udp_client"}
    /\ arg \in SizeArgs
    /\ num_per_round \in 1 .. MaxNumPer
    /\ round_num \in 1 .. MaxRounds
    /\ phase = "main"
    /\ run_index = 0
    /\ i = 0
    /\ mem = <<>>
    /\ sent = <<>>

-----------------------------------------------------------------------------
(* main: one run for the given size, or one for each of the array. *)
Runs == IF arg = 0 THEN NumSizes ELSE 1

SizeOf(k) == IF arg = 0 THEN msg_size_arr[k] ELSE arg

msg_size == SizeOf(run_index)

Count == uint32(num_per_round * round_num)

BufferSize == uint32(msg_size * num_per_round * round_num)

(* Mutant: the header alone has to fit. *)
too_small_header(size) == program = "tcp_client" /\ size < Header

(* udp_client takes any size. *)
TooSmall(size) == program = "tcp_client" /\ size < Fields

StartRun ==
    /\ phase = "main"
    /\ run_index < Runs
    /\ run_index' = run_index + 1
    /\ phase' = IF TooSmall(SizeOf(run_index')) THEN "main" ELSE "fill"
    /\ i' = 0
    /\ mem' = <<>>
    /\ UNCHANGED <<args, sent>>

ExitMain ==
    /\ phase = "main"
    /\ run_index = Runs
    /\ phase' = "done"
    /\ UNCHANGED <<args, run_index, i, mem, sent>>

(* Write the fields from address a on, each message over the one before. *)
Laid(a, fields) ==
    [b \in DOMAIN mem \cup (a .. a + Fields - 1) |->
        IF b \in a .. a + Fields - 1 THEN fields[b - a + 1] ELSE mem[b]]

FillAt == i * msg_size

InBuffer == FillAt + Fields <= BufferSize

FillMessage ==
    /\ phase = "fill"
    /\ i < Count
    /\ \/ /\ mem' = Laid(FillAt, <<1, uint32(msg_size + Modulus - Header), UserId, i>>)
          /\ i' = i + 1
          /\ UNCHANGED phase
       \/ /\ ~InBuffer
          /\ phase' = "crashed"
          /\ UNCHANGED <<i, mem>>
    /\ UNCHANGED <<args, run_index, sent>>

EnterLoop ==
    /\ phase = "fill"
    /\ i = Count
    /\ phase' = "send"
    /\ i' = 0
    /\ UNCHANGED <<args, run_index, mem, sent>>

-----------------------------------------------------------------------------
round_index == i \div num_per_round

(* on_timer: the first sequence of the round, and where the round begins. *)
Sequence == uint32(uint32(round_index * num_per_round) + (i % num_per_round))

SendAt == uint32(round_index * num_per_round * msg_size) + (i % num_per_round) * msg_size

Written(a) == IF a \in DOMAIN mem THEN {mem[a]} ELSE Values

(* Mutant: the sequence goes on through all runs. *)
record_all_runs == Append(sent, [size |-> msg_size, id |-> Len(sent)])

Recorded == Append(sent, [size |-> msg_size, id |-> Sequence])

SendMessage ==
    /\ phase = "send"
    /\ round_index < round_num
    /\ sent' = Recorded
    /\ i' = i + 1
    /\ UNCHANGED <<args, phase, run_index, mem>>

ExitLoop ==
    /\ phase = "send"
    /\ round_index >= round_num
    /\ phase' = "main"
    /\ UNCHANGED <<args, run_index, i, mem, sent>>

Ended == phase \in {"done", "crashed"} /\ UNCHANGED vars

Next ==
    \/ StartRun
    \/ ExitMain
    \/ FillMessage
    \/ EnterLoop
    \/ SendMessage
    \/ ExitLoop
    \/ Ended

Spec == Init /\ [][Next]_vars

-----------------------------------------------------------------------------
(***************************************************************************)
(* The product of --msg.size and the rounds can be counted in 32 bits, and *)
(* udp_client was not given a size below that of header and data.          *)
(***************************************************************************)
Fits ==
    /\ msg_size * num_per_round * round_num < Modulus
    /\ program = "udp_client" => msg_size >= Fields

(***************************************************************************)
(* "NB_ASSERT(hdr->msg_id == 1)" and "NB_ASSERT(data->sequence == seq)":   *)
(* on_timer finds the messages where run() has put them, each whole, and   *)
(* run() writes none of them past the end of the buffer.                   *)
(***************************************************************************)
AssertSequence ==
    /\ phase = "fill" /\ i < Count /\ Fits => InBuffer
    /\ phase = "send" /\ round_index < round_num /\ Fits =>
          /\ Written(SendAt) = {1}
          /\ Written(SendAt + 3) = {Sequence}

(***************************************************************************)
(* The analysis tells messages apart by size and sequence: over all the    *)
(* runs no pair is sent twice, and in the end each message of each run was.*)
(***************************************************************************)
KeysUnique ==
    /\ \A j, k \in DOMAIN sent : sent[j] = sent[k] => j = k
    /\ phase = "done" /\ arg = 0 =>
          Range(sent) =
              [size : Range(msg_size_arr),
               id : 0 .. num_per_round * round_num - 1]
=============================================================================
