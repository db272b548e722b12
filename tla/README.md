# network_benchmark: TLA+ models, checks and proofs

network_benchmark measures latency. Three programs form a TCP pipeline and three more a UDP
pipeline (client -> server -> upstream); `thread` measures a bounded channel between threads. Each
program writes records (user, sequence, size, action, time), which Python scripts turn into latency
reports. This directory holds the TLA+ models of the program, the TLC configurations that check
them and proofs checked by TLAPS.

## 1. Inventory

| Component | Sources | State | Operations | Modelled in |
|---|---|---|---|---|
| tcp_server | `app/tcp_server/` | `evloop_data->conn_ctx`, the contexts of the loop, a role per session | the callbacks on_add_ctx, on_connect, on_message, handle_message, on_close, on_release; `run` | `TcpServer`, `Relay` |
| TCP session | `session.c` (session part) | bytes buffer, `msg_len_limit` | session_new, session_delete, on_msg | `TcpSession`, `MessageStream` |
| TCP dialling and listening | `session.c` | detached dialling threads | nb_tcp_listen, nb_tcp_connect, nb_tcp_async_connect | inside `TcpServer`, `TcpClient`, `TcpUpstream` |
| tcp_client | `app/tcp_client/` | `evloop_data->ctx`, `round_index`, `last_ts`, the payload buffer | the callbacks, on_timer (which sends the rounds), `run`, the loop of `main` | `TcpClient`, `RoundSender`, `RoundTimer`, `PayloadLayout` |
| tcp_upstream | `app/tcp_upstream/` | its sessions | on_connect, on_message, handle_message, on_close, on_release; `run` | `TcpUpstream` |
| the TCP programs together | | their connections and records | | `TcpPipeline` |
| UDP sockets and pipeline | `session.c`, `app/udp_*/` | one context per program, the client's round and last time | nb_udp_bind, nb_sockaddr_equal, on_add_ctx, on_timer, on_message | `UdpPipeline`, `RoundTimer`, `PayloadLayout` |
| thread benchmark | `app/thread/` | channel, memory pool, consumer thread | produce, consume, join | `ThreadPipeline` |
| record | `record.c`, `record.h` | the file, a ring of slots per thread, the backend thread | prepare, fill, commit, write, clean-up | `RecordLog` |
| init, hello | `init.c`, `app/hello/` | how far the start has got | start-up in order, with its failures; exit | `RecordLog` |
| log, sys_args | `log.c`, `sys_args.c` | configuration | log's context; the name of the record file | partly, in `RecordLog` |
| analysis scripts | `scripts/` | data frames, the two directories | load, pair records, quantiles, reports | `LatencyAnalysis` |

How they interact. Each network program is one event-loop thread that runs callbacks one at a time.
The callbacks share `evloop_data` and the sessions attached to the socket contexts. The only other
threads are those of `nb_tcp_async_connect` (on_close starts one, it dials until it succeeds and
hands the new context to the loop by `muggle_socket_evloop_add_ctx`) and the backend that writes
records. The programs talk over TCP (streams that break at any point) or UDP (datagrams that are
lost, repeated or reordered). A program and the analysis share nothing but the record files.

What is hard: the connection changes under the callbacks' feet, by a thread that adds contexts while
others are being closed; writes take a part of a frame; the messages of a batch go on after a write
of the same batch has failed; rounds are repeated; messages arrive cut at any byte into a bounded
ring; two clocks are subtracted after being cut to milliseconds, and may be set; processes share a
record file, are killed and started again; a script reads what an earlier run of it has written.

What makes the parts correct:

- *server*: one upstream at a time and always one on its way; no use of a dead context; no bytes
  after a cut frame; a session's messages in order and once; records that tell lost from relayed;
- *session*: framing does not depend on how the bytes come; no loss at the end of the stream; the
  buffer is not overrun; a limit is enforced;
- *client*: one connection; only the round that failed is repeated, and from its start; the pace is
  kept; the messages are sent from where they were laid out; the run ends;
- *upstream*: sessions live as long as their contexts; no message is left behind;
- *pipeline*: a receipt for each sending at most, and never before it;
- *UDP*: what the records say survives loss;
- *thread*: nothing lost between producer and consumer, the pool suffices, and the join returns;
- *record*: one head, whole lines in order, nothing lost at an orderly exit, over kills and restarts;
- *scripts*: a latency belongs to one message, indices stay in the list, failures are the known ones.

`PROJECT.json` lists the components, the hazards at the line where each bites, and the properties
that cover them.

## 2. Modules

| Module | What it is | Proofs in |
|---|---|---|
| `Relay` | abstract specification of tcp_server: a relay between sessions and one link at a time | |
| `TcpServer` | tcp_server, with the peers' sockets and the dialling threads | `TcpServerProofs` |
| `RoundSender` | abstract specification of tcp_client: rounds over one connection after the other | |
| `TcpClient` | one `run()` of tcp_client, with clock, sockets and dialling threads | `TcpClientProofs` |
| `MessageStream` | abstract specification of a session: the messages, whole, in order, once | |
| `TcpSession` | `nb_tcp_session_on_msg`, byte by byte | `TcpSessionProofs` |
| `TcpUpstream` | tcp_upstream, with the servers' connections | `TcpPipelineProofs` |
| `TcpPipeline` | `TcpUpstream` extended by `RoundSender` and `Relay`, with the records of a message | `TcpPipelineProofs` |
| `UdpPipeline` | udp_client, udp_server and udp_upstream with the network and the records | `UdpPipelineProofs` |
| `ThreadPipeline` | `thread`: producer, consumer, channel and memory pool | `ThreadPipelineProofs` |
| `RoundTimer` | when a round of either client starts, while the clock is set | `ClientArithmeticProofs` |
| `PayloadLayout` | the loop over message sizes and the payload buffer of either client | `ClientArithmeticProofs` |
| `RecordLog` | start-up, record file, rings and exit of processes that may be killed | `RecordProofs` |
| `LatencyAnalysis` | both scripts, run again over the same directories, over any record files | `RecordProofs` |
| `MCLatencyAnalysis` | the record files of small benchmarks, for the run of `LatencyAnalysis` | |

The modules build on each other. `TcpServer` and `TcpUpstream` count a session's input in whole
messages; that is what `MessageStream` promises, and `TcpSession` is proved to implement it.
`TcpPipeline` composes the client and the server as `RoundSender` and `Relay` describe them, which
`TcpClient` and `TcpServer` are proved to implement, with the callbacks of `TcpUpstream` itself.

### Correspondence with the code

**TcpServer.** `phase` is the progress of `run()` in `main.c`; `dialers` the number of live
`tcp_async_connect` threads; `st[c]` the place of a context in the loop: `queued` after
`muggle_socket_evloop_add_ctx`, `live` after on_add_ctx or on_connect, `closed` after on_close,
`released` after on_release; `sock[c]` what can still be done with its socket; `role[c]` the
`session->role`, `none` where no session is attached; `conn_ctx` is `evloop_data->conn_ctx`. Each
callback is one action. on_message is split where the code loops: `tcp_server_on_message` is the
read loop of `nb_tcp_session_on_msg`, which fixes the batch, and each `tcp_server_handle_message` is
one callback of the parse loop. The loop thread does nothing else until the batch is parsed
(`parsing`), but peers and dialling threads do. `wire[k]` holds the frames written to upstream
connection k, each whole or cut, and `recs` which record actions exist for each message.

**TcpClient.** The same for the client's contexts. `tcp_client_on_timer` is `ExitLoop`, `StartRound`
and one `SendMessage` for each pass of its loop; `pos` is the loop variable. Time is counted in
ticks since `last_ts` (`gap`, negative while `cli_wait` has put `last_ts` in the future);
`elapsed_ms` cuts both times to milliseconds as the code does, for which the ticks of `last_ts`
within its millisecond (`last_sub`) are kept. `wire[k]` holds the frames written to connection k.
As a sender (`RoundSender`) it is up while a context is queued or live and not shut down.

**TcpSession.** `ends` is the stream of messages, chosen at the start; `sent`, `got`, `used` count
the bytes that have arrived, are read into the bytes buffer, and are taken out of it. `ReadSome`,
`ReadNone` and `BufferFull` are the ways a pass of the read loop goes; `HandleMessage`,
`RejectMessage` and `ParseDone` those of the parse loop. The limit is chosen among `Limits`.

**TcpUpstream** has the shape of `TcpServer` without connections of its own. `session` is the set of
contexts with a session attached: one for which setsockopt failed is shut down and never gets one.

**TcpPipeline.** Session s of the relay is the client's connection s, and link k of the upstream the
relay's k-th connection; a frame written whole may still be received after its connection broke. The
module extends `TcpUpstream` and takes its callbacks as they are; in the place of `PeerSend`, what has
arrived on a link is always what the relay has put there (`OnLinks`). The
client's records come before and after its write, the upstream's with its callback, in `recs[m]`, in
the order of time.

**UdpPipeline.** The network is the set of datagrams ever sent; none is removed, so each may be
received never, once or again, in any order. `st` is the place of the client's context in its loop
and `ctx_set` whether `evloop_data->ctx` is set; no callback ever clears it, so the timer goes on
writing to a context that is shut down (`SendFailed`) and then released, where the write fails or
the program ends (`Crash`). `udp_client_on_timer` is `ExitLoop`, `StartRound`, and `SendBegin` and
`SendEnd` for each message: the datagram may be received, and recorded, between the two. Whether a
round is due is left open, so what is shown holds for every clock. `recs[m]` holds the records of
message m as the order of their last occurrences, because the analysis keeps the last record of an
action. A program at the upstream's address may send to the server (`Reply`), which must not send
that on. Datagrams that hold no message are not modelled.

**ThreadPipeline.** `Prepare` or `CopyToNull`, `Push` and `PushEnd` are one pass of the producer's
loop, cut where the consumer can come in between; `Stop` and `Join` are the end of `run`. The sizes
are the code's: a pool of 16 and a channel of 8 blocks for each message of a round. `free` counts
the blocks of the pool and `lost` those of messages the channel refused. The early return of `run`
for a message size too small for its headers is left out: nothing has been started by then.

**RoundTimer.** `started` is `round_index`, `gap` is the clock less `last_ts`, and `since` the true
time since then; `SetClock` changes the one and not the other. `elapsed_ms` is signed for tcp_client and wraps for udp_client.

**PayloadLayout.** `StartRun` is a pass of `main`'s loop over the sizes, `FillMessage` one of `run`'s
fill loop and `SendMessage` one of on_timer's. Addresses count the 4-byte fields, products are
`uint32` (`Modulus` values). `mem` is what has been written at and behind the buffer; where it was
not written a read gives any value, and a write past the buffer may end the program.

**RecordLog.** `pc[p]` walks through `nb_init_components` and `nb_record_init`. `CheckPath` is the
look at the path that sets `need_write_head`, apart from the `fopen` and from the head, because
another process or a kill can come in between; `in_turn` remembers whether one did. `nb_record_prepare`,
`Fill` and `nb_record_commit` are the three parts of `NETBENCH_RECORD`, `nb_ts_record_callback` one
record written by the backend. `starts[p]` numbers the starts of all processes. `hello` is a process
in `Single`, which records in its main thread only; the others have a thread that main joins.

**LatencyAnalysis.** `dirs` holds the files of the input and the output directory, `AnalysisInit`
chooses the record files of a benchmark among `Traces`: any, as long as what happens to a message is
recorded in one file. `load_record_list_dict` loads one file, in any order; `Report` writes one row of
one report. Of the row, the number of latencies and the quantiles are kept. A dict is the rows that
bring its keys, in their order (`Keys`), and the row that sets an entry last (`Entry`); a sorted list
gives each place to the element with as many up to it. `TiesUp` are the products `idx` half-way
between two integers that end up at the greater one: `round` takes the even one, but from 35 latencies
on the floating point product may lie to either side. `MCLatencyAnalysis` has the record files of
small benchmarks: lost messages, a message of each user sent twice, equal sequences.

### What is taken from the libraries

mugglec, haclog and the kernel are not in the repository; the models use them as the code does:

- `muggle_socket_evloop_add_ctx` queues the context and the loop thread calls on_add_ctx. `main`
  relies on this when it adds the context before it sets the loop's data.
- A context whose socket is at its end, broken or shut down gets on_close and later on_release, each
  once, from the loop thread; nobody else holds a reference to it.
- `muggle_socket_ctx_write` is non-blocking: everything, a part, or an error. After the peer's FIN it
  may still accept bytes; after a reset or a shutdown it does not.
- `muggle_bytes_buffer_writer_fc(n)` finds n contiguous bytes whenever 2n are free, never when fewer
  than n are; between the two it depends on where the ring breaks, and the model allows both.
- The poll is level-triggered: a socket with bytes left is served again in the next pass.
- `muggle_channel_write` to a full channel either waits or is refused; the repository does not say
  which, so `ThreadPipeline` chooses either. The pool gives NULL when it is empty.
- `muggle_ma_ring`: a thread that asks for a slot of a full ring waits; the backend takes each ring's
  slots in order; the clean-up of a thread waits until the backend has written its slots.
- `recvfrom` cuts a datagram to the size of the buffer.
- A failed attempt to listen, to bind or to dial changes nothing and is repeated after 3 s (`Retry`);
  a repeated attempt to listen succeeds eventually.
- Python's `round` takes the even one of two integers at the same distance; `open(.., "w")` empties.

## 3. Runs

| Run | Shows | Distinct states |
|---|---|---|
| `server` | whatever the order of callbacks, dialling threads, failed writes and closing peers: `OneUpstream`, `ConnCtxLive`, `InOrderOnce`; the server implements `Relay` (`RelaySpec`); the upstream always comes back (`LinkRecovers`); all that got through to the server is handled (`SessionDrained`) | 359,935 |
| `client` | `OneConnection`, `CtxLive`, `RoundsSentOnce`; the client implements `RoundSender` (`SenderSpec`); the run ends (`Completes`) | 55,854 |
| `session` | every stream of three messages, cut into reads in every way, with and without a limit: `Framing`, `BufferBound`, `DrainedBeforeClose`; the session implements `MessageStream` (`StreamSpec`); all is delivered or the session closed (`Delivered`) | 82,740 |
| `upstream` | two links in one loop: `SessionOwned`; each implements `MessageStream` (`StreamsSpec`); nothing is left behind (`LinkDrained`) | 3,633 |
| `tcp_pipeline` | the three TCP programs: a message is received once for each try at most (`OncePerTry`); without a break, every message is (`AllReceived`) | 536,592 |
| `udp` | loss, repetition, reordering and failed sends: `RecordsTruthful`, `LatencyNotNegative`, `NoRepeat`, `AssertLength` for a message that just fits, and the client ends unless a send fails (`Completes`) | 188,550 |
| `udp_truncated` | finding: a message larger than the receive buffer is cut, and the assertion fails | |
| `thread` | a full channel that waits, or refuses: `InOrder`, `BlocksAccounted`; where it waits, `PoolSuffices`, and the consumer is joined (`JoinReturns`) | 489,160 |
| `round_timer` | the clock is set once, at any time, either way: rounds keep their pace (`Paced`) as far as each client's arithmetic can | 4,068 |
| `payload` | `AssertSequence`: messages are found where they were laid, inside the buffer, unless the size overflows; `KeysUnique`: over all sizes no key is sent twice | 1,750 |
| `record` | two processes with one file, killed anywhere: `HeadFirst`, `WrittenInOrder`, `NothingLostAtExit`, and full rings keep nobody from its end (`RunEnds`) | 369,531 |
| `analysis` | both scripts, twice: `EachPairOnce`, `Deciles`, and no failure but those known (`FailsOnly`) | 273,492 |

Deadlock is checked in every run but `tcp_pipeline`, where the client ends when it has sent its
rounds, and the bounds on connections stop what is left. The other modules have an explicit
stuttering step where the system really stops (`Terminated`, `Quiet`, `Ended`, `Finished`,
`Completed`) or repeats an attempt (`Retry`). In `UdpPipeline` a step is always possible, since
`Reply` is.

### Bounds, and why they are enough

Where a theorem is listed in section 5, the safety of the module does not rest on the bounds.

- *server*: two sessions (order between sessions, and a batch of one between two of another), two
  connections (everything about a reconnection: old and new one queued, live, closing at the same
  time), and two messages in all (`MaxSent`): both of one session, so that a frame is cut short with
  a second message of the same batch behind it, or one of each. When the last connection is gone its
  dialling thread stays; the state is quiet.
- *client*: two rounds of two messages (a failure within a round and between rounds), an interval of
  1 ms with 2 ticks to a millisecond (truncation can go either way), a wait of 1 ms. Three
  connections: two may fail at any point, so that a retry may fail again, and the last holds.
  `gap` saturates at (interval + 1) ms, beyond which no comparison changes.
- *session*: in units of which a header is 1: messages of 1 to 4, a read of 2, a buffer of 7. A read
  can end within a header, within a message, or hold several messages; the buffer fills up. Every
  message leaves room for two reads, which a message of the programs (at most 1024 bytes unless the
  user asks for more) does by far. The limit of 3 is exceeded by some of the streams.
- *upstream*: two links, two messages each: a batch of one between two of the other.
- *tcp_pipeline*: two rounds of one message, two connections of the client, two links: a round that
  fails and is sent again while the copy of the first try is still on its way over the old ones.
- *udp*: two rounds of two messages, so that a send fails within a round, between rounds, and again
  in the round that is retried. The set of datagrams needs no bound on loss or repetition. The buffer
  is as large as the message, or one unit smaller in *udp_truncated*.
- *thread*: one message to a round and 20 rounds: more messages than the pool (16) and twice the
  channel (8), so that both can be full or empty with messages to come.
- *round_timer*: three rounds, so that one comes after the round which the setting of the clock
  disturbs; 16 values hold every difference the bounds allow, as 2^32 do in the code.
- *payload*: products of 64 values, sizes on both sides of the smallest valid one and up to 12 fields,
  up to 3 rounds of 3 messages: the buffer's size overflows in some cases and fits in others.
- *record*: two processes, one with two threads, one with its main thread; rings of one record and
  two records per thread, so that every ring is full once; two starts in all (`MaxStarts`): one of
  each process, or the same one again after a kill or an exit.
- *analysis*: 3 messages of 2 users in 2 sizes, up to 2 lost: 4 to 6 latencies in a report, on both
  sides of the 5 below which the last quantile has no index.

### Fairness, and why the code justifies it

Weak fairness for the loop thread's actions and the dialling threads: each is a running thread that
blocks on nothing but the network, and dialling is repeated until it succeeds. The peers are never
obliged to do anything. In the client, strong fairness for on_add_ctx and on_close of a context:
each pass of the loop serves all its contexts before the timer, but a round that is being sent
disables their callbacks over and over, and weak fairness would not see that. In `TcpUpstream` the
loop serves every context with something to read. In `TcpPipeline` each program goes on with what it
has begun. In `UdpPipeline` only the client's loop is fair: the network delivers nothing unless it
does. In `ThreadPipeline` both threads are, in `RecordLog` the threads of a process that runs; nobody
has to start or to kill one. `SessionDrained`, `LinkDrained`, `AllReceived` and the `Completes` of the
clients say what they depend on: the session is not reset; nothing breaks; the last TCP connection of
the model does not fail; no `sendto` fails. `LinkRecovers` speaks of the connections the bound leaves
to dial. The pace, the payload and the scripts have safety only.

## 4. Findings

`udp_truncated` (code): on_message of udp_server and udp_upstream asserts that the header's length
is the number of bytes received. `recvfrom` has a buffer of 1024 bytes and `--msg.size` has no upper
bound, so a larger message fails the assertion. Without assertions it is recorded with another size,
and the analysis does not pair it. `AssertLengthFits` proves that the assertion holds for every size
up to that of the buffer.

Met while modelling, and part of the models, without a run of their own:

- on_close of tcp_client asserts that `evloop_data->ctx` is the closed context, but on_add_ctx returns
  before setting it when setsockopt fails. Without assertions the client re-dials and goes on, as
  `OneConnection` shows.
- `--round.interval` is the "interval between round (ms)", yet two rounds can start up to a
  millisecond closer, because both times are cut to milliseconds before they are subtracted. When the
  clock is set back, udp_client's unsigned elapsed time becomes huge and a round starts at once; one
  of tcp_client is late by what the clock was set back. `Paced` states what does hold.
- `msg_len_limit` 0 is "no limit", but a message larger than the buffer is never handed over: the
  loop finds the buffer full at each pass. How much room it takes for that never to happen is the
  second part of `BufferBound`: the longest message, or the limit, and two reads.
- udp_client accepts any `--msg.size`; below 16 bytes the messages it lays out overlap. tcp_client
  refuses these.
- When a round is sent again, its first copies may still be on their way. The analysis keeps the last
  record of an action: if the second copy is lost, it pairs the second sending with the first receipt
  and the latency is negative. `OncePerTry` shows that there are never more receipts than sendings.
- Where a full channel refuses, the NULL that ends the consumer of `thread` can be refused like any
  message, `run` ignores the result, and the join waits for good. The repository does not hold the
  channel's code, so nothing is claimed of it; `JoinReturns` is stated for one that waits.
- Two processes started in the same second with one record file may both write the head, or one its
  records first; a process killed between `fopen` and the head leaves a file that never gets one.
- The scripts: fewer than five latencies end in an IndexError; a missing output directory is not made
  (the test is the wrong way round); `--input` and `--output` are declared without an argument; a
  second network analysis over one directory reads the `records_` files of the first and fails.
- `idx` is computed in floating point: from 35 latencies on, a quantile half-way between two of them
  may be either, not the one at the even index. `Deciles` holds for both.

## 5. Proofs

Every theorem holds for all values of the constants that satisfy the module's assumption (contexts of
different kinds differ, counts are positive numbers, a session's buffer has room for two reads, an
event is recorded in one file, `round` takes the even integer while the product is exact).

| Module | Theorem | Property |
|---|---|---|
| `TcpServerProofs` | `TypeCorrect`, `OneUpstreamHolds`, `ConnCtxLiveHolds`, `WholeFramesHolds`, `InOrderOnceHolds`, `RecordsMatchHolds`, `RelayHolds` | `TypeOK`, `OneUpstream`, `ConnCtxLive`, `WholeFrames`, `InOrderOnce`, `RecordsMatch`, `RelaySpec` |
| `TcpClientProofs` | `ClientTypeCorrect`, `OneConnectionHolds`, `CtxLiveHolds`, `RoundsSentOnceHolds`, `SenderRefined` | `TypeOK`, `OneConnection`, `CtxLive`, `RoundsSentOnce`, `SenderSpec` |
| `TcpSessionProofs` | `SessionTypeCorrect`, `FramingHolds`, `BufferBoundHolds`, `DrainedBeforeCloseHolds`, `StreamRefined` | `TypeOK`, `Framing`, `BufferBound`, `DrainedBeforeClose`, `StreamSpec` |
| `TcpPipelineProofs` | `OncePerTryHolds`, `PipeSessionOwned`, `PipeStreams` | `OncePerTry`; `SessionOwned` and `StreamsSpec` in the pipeline |
| `TcpPipelineProofs`, of `TcpUpstream` | `UpstreamTypeCorrect`, `SessionOwnedHolds`, `StreamsHold` | `TypeOK`, `SessionOwned`, `StreamsSpec` |
| `UdpPipelineProofs` | `UdpTypeCorrect`, `RecordsTruthfulHolds`, `LatencyNotNegativeHolds`, `NoRepeatHolds`, `AssertLengthFits` | `TypeOK`, `RecordsTruthful`, `LatencyNotNegative`, `NoRepeat`, `AssertLength` when the message fits |
| `ThreadPipelineProofs` | `ThreadTypeCorrect`, `BlocksAccountedHolds`, `PoolSufficesHolds`, `InOrderHolds` | `TypeOK`, `BlocksAccounted`, `PoolSuffices`, `InOrder` |
| `RecordProofs`, of `RecordLog` | `RecordTypeCorrect`, `HeadFirstHolds`, `WrittenInOrderHolds`, `NothingLostAtExitHolds` | `TypeOK`, `HeadFirst`, `WrittenInOrder`, `NothingLostAtExit` |
| `RecordProofs`, of `LatencyAnalysis` | `AnalysisTypeCorrect`, `EachPairOnceHolds`, `DecilesHold`, `FailsOnlyHolds` | types, `EachPairOnce`, `Deciles`, `FailsOnly` |
| `ClientArithmeticProofs`, of `PayloadLayout` | `LayoutTypeCorrect`, `AssertSequenceHolds`, `KeysUniqueHolds` | types, `AssertSequence`, `KeysUnique` |
| `ClientArithmeticProofs`, of `RoundTimer` | `PacedHolds` | `Paced` |

The properties are not inductive. Each module has an invariant that is (`IInv`; it was model-checked
before it was proved), one lemma for the initial states, lemmas for the steps of each part, and one
short proof per theorem.

**TcpServer**: `TypeInv /\ LineInv /\ DataInv`. `OneUpstream` says nothing of the role of a live
connection, and if on_close met one that is live without the role `upstream`, no thread would be
started. `LineInv`: the connections form a line; those before the newest are over, those after it
unused, and only the newest may be queued or live; it then carries `conn_ctx` and the role `upstream`,
or a thread is dialling. `DataInv`: frames were written only to connections already live; each
frame's message has been handled, order on the wire follows the numbers, a cut frame is the last and
its socket shut; the records are those of the messages handled.

`RelayHolds` maps `link`, `taken` and `log` of the relay to expressions over `conn_ctx`, `sock`,
`handled` and `wire`. `Invisible` covers the steps that leave these unchanged; `RefineConnect`,
`RefineEstablish`, `RefineHandle`, `RefineClose` and `RefineDegrade` each map the actions of one kind
to a step of `Relay`, or to a stutter. They need the invariant: a message is written only to the
newest connection (`LinkIsLast`), and the log of a connection grows by exactly the frame written.

**TcpClient**: `TypeInv /\ LineInv`, the same line of connections, and `RoundInv`: a round is being
sent only on a connection while rounds are left. For `RoundsSentOnce`, `WireInv` adds what the wires
say: each counted round is whole on a connection after which none has a frame of it, and of the round
being sent the messages before `pos` are whole on the current one. A frame of the current round
disturbs no counted one (`RoundKept`, `FrameKept`), because rounds are told apart by division
(`RoundOfSeq`). `SenderRefined` maps the wires of the connections
dialled so far to `RoundSender`'s log, and every write to one of its steps by what the write took.

**TcpSession**: `FramingInv` says that the number of callbacks is the reader's place in the stream,
`EndInv` that a context is flagged only when its socket is over, and `DrainInv` that a stream which
ended in order was read to its end by then, and holds no whole message when on_msg has returned. What
it does hold then is less than the longest message, or the limit (`LessThanLongest`); the second part
of `BufferBound` follows.

**TcpUpstream**: `AloneInv`, which is `AloneType /\ SessionOwned`; the step of each link is one of
`MessageStream`. The proofs stand in the module of the pipeline but use `UpstreamAssumption` only, so
they hold for any set of links.

**TcpPipeline**: the number of records in `recs` is no function of where the messages are, so
`CountInv` goes by way of sets of frames. `FramesOf(m)` are the frames of message m written on any
connection, `HandledOf(m)` those of them that the upstream has handled on any link: there are at most
as many frames as sendings begun (one less for a message begun and not yet written), and at most as
many receipts as handled frames. `ServerInv`: the relay names frames that were written, each at one
place of one link, because it takes those of a connection in order; hence a handled place is a new
frame. `UpstreamInv`: no link is parsed past its end. `PipelineAssumption` says that the counts are
positive and that the links are numbered. The proof uses of `RoundSender` and `Relay` only their steps,
so with `SenderRefined` and `RelayHolds` it rests on what the two programs are proved to do.
`PipeStreams` takes `PipeInv`, the same with the types of the loop and `SessionOwned`: what the relay
adds to a link is an `Arrive` of its stream (`LinksGrow`), and every other step is the upstream's own.
The runs check these two for `TcpUpstream` alone; the theorems say that the pipeline keeps them.

**UdpPipeline**: `FreshInv`: until a sendto fails, no message from the first one that this try has not
sent yet has left a trace but a record of its beginning; that is what makes the order of first
records also the order of the last ones. `TraceInv`: a datagram on its way has all the records of its
way so far.

**ThreadPipeline**: `CountInv`: each message pushed is taken, waiting or lost, and each block is free
or accounted for by one of them. `PoolSuffices` then is arithmetic: the channel, the block in each
thread's hands and nothing more, against twice the channel. `OrderInv` orders the taken messages, the
waiting and those to come.

**RecordLog**: `HeadInv`: a process that is to write the head is alone past its look at the path, and
the file is empty; `RingOf`: a ring holds the last records committed, whole, and the file exactly the
numbers before them, and none of a later start; `DoneOf`: a thread that is cleaned up has nothing in
its ring, nor has one of a process that has ended. `AppendCount` says what one more line adds to the
numbers of a thread.

**PayloadLayout**: `PlacedInv`: where the product of size, messages and rounds does not wrap, the
messages laid out so far are where on_timer will look, and laying out one disturbs none before it
(`LaidFacts`, `Apart`). `KeyInv`: the records are exactly the pairs of size and number that are past,
one each; the sizes of the array differ (`SizesDiffer`), and `RoundOf` gives a message's number from
its round and place. `KeysUniqueHolds` has a hypothesis, `NumbersFit`: the messages of one size can be
numbered in a `uint32_t`. Past that the sequences of the code wrap, and repeat.

**RoundTimer**: `ClockInv`: without a setting forward the clock shows no more than the time
that has passed since `last_ts`, without one back no less. `Truncated` then bounds what is lost by
cutting to milliseconds and to `Wrap` values.

**LatencyAnalysis**: what a script folds, sorts and indexes is stated with ranks, which needs no
induction over the lists. `Ranks`: where the elements of a finite set are in line, the number of those
up to an element is an injection into 1 to the size of the set, hence onto it; that gives the last
and the first of a set of positions, the order of the keys (`InOrderBijection`) and, with the order
of a stable sort, that the n-th latency has n up to it and the others from it on (`SortedCounts`).
`IndexBounds` bounds the rounding by half, `OutOfRangeIs` says that an index fails exactly below five
latencies. The invariant, `AnalysisInv`: the files of the programs stay as they were (`ProgramsInv`),
the script's own are there only where a run may have written them (`OwnFilesInv`), the rows read are
those of the files loaded, each file in one piece (`LoadInv`, `Placed`), and each size and report
that is handled has one row, calculated from `cal_latency` (`HandledInv`). `ListIsLatencies` is the
core: the list of `cal_latency` corresponds one to one to the latencies that the files give. The last
row that sets an entry is the last of the one file that has the event (`TimesAre`), and the row that
brings a key stands for one message (`KeyOfMessage`). The number of latencies that compare to a value
is then the same in the list and in the files (`SameCounts`).

Only model-checked: liveness (`LinkRecovers`, `SessionDrained`, `Completes`, `Delivered`,
`LinkDrained`, `AllReceived`, `JoinReturns`, `RunEnds`), which is out of TLAPS's reach. Every other
property of the passing runs is a theorem.

## 6. Reading the definitions marked "Mutant"

A definition whose comment begins with "Mutant:" is not part of a specification. It is what a
plausible mistake in the code would make of the definition that follows it; `PROJECT.json` names the
run and the property that detect it.

## 7. Plan

Modelled in this order: server, session, client, UDP and thread; then upstream and the pipeline, the
clocks, the payload, the records and the scripts. Of the proofs, those of the server came first, then
the refinements, then the other safety properties and, last, those of the scripts. What could be
added: the liveness properties as theorems, with a prover that has the rules for fairness; and more
assumptions checked against the libraries, once their sources are at hand.

## 8. Not modelled, and why

- The parsing of `sys_args` is one case per option, and `log` configures an external library: no
  behaviour over time. The values of the arguments are the constants of the modules.
- The build files configure the build; mugglec and haclog are fetched by it, and only what section 2
  says of them is assumed.
- `nb_udp_connect` and `nb_udp_bind_connect` are called by no program.
- The upstream may send bytes to the server, which reads and ignores them (a TODO in the code): they
  change nothing, and are left out. The same holds for bytes sent to the client.
- `run()` of tcp_client deletes its loop without waiting for a dialling thread, which may then add a
  connection to a loop that is gone. `TcpClient` reaches that state; no property is stated of it.
- Binding threads to CPUs has no effect on any state. An allocation that fails (`malloc`, the buffers
  of a session) ends the program or is not checked.
