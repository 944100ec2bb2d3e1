# libquic in TLA+

libquic (`src/`) is a C++20 library that puts ngtcp2, GnuTLS and libevent behind an event loop,
endpoints, connections, streams and datagrams.  This directory specifies its components in TLA+,
checks them with TLC on small instances, and proves with TLAPS what matters most about both halves of
a stream, about requests and their timeouts, about jobs and timers, about the end of a connection and of
a Network, about migration and early data, and about the endpoint's send batch and its tables of
connections.  `PROJECT.json` maps every definition to the
source lines it models and lists the runs, the mutated definitions that each property must reject, the
hazards, the theorems and the findings.

## The system

    application threads
          |  call, call_get, call_soon                      (JobQueue)
          v
    Loop thread --- Network owns ---> Endpoint              (NetworkLife)
                                        | packets in        (UdpReceive, ConnLookup)
                                        | packets out       (SendBatch, UdpSend)
                                        v
                                     Connection             (ConnClose, Migration, EarlyTickets,
                                        | owns               FlushLoop)
                 +----------------------+-----------------------+
                 v                      v                       v
              Stream               BTRequestStream          Datagrams
        (ConnStreams, StreamSend,  (BTRequest, BTFraming)   (DgramQueue, Reassembly)
         RecvFlow, ChunkSend)

Almost everything runs on the loop thread, one event at a time.  Concurrency comes from three sides:
other threads that queue jobs, hold pointers or use timers; application callbacks that run in the
middle of a handler and call back into the library; and the order in which jobs, timers, packets,
acknowledgements and socket events come.  The modules keep a handler as one action where nothing can
come between its parts, and split it where a callback or another thread can.

ngtcp2, GnuTLS, libevent and the kernel are external: each module models, from how the code in `src/`
uses them, only what it needs, and the map marks those definitions.

## Inventory

| Component | Sources | Modules | Status |
|---|---|---|---|
| Stream, sending half | `stream.cpp`, `stream.hpp` | StreamSend, ByteStream, StreamSend_proofs | modelled: Buffer queue, counters, send point, FIN, watermarks, withdrawal and 0-RTT reversal, with the part of flush_packets that drains the stream; shown to implement the byte stream of ByteStream, and proved. |
| Stream, receiving half | `stream.cpp`, `connection.cpp`, `stream.hpp` | RecvFlow, StreamData_proofs | modelled: stream_receive, the data callback, pause and resume, and the flow control credit they give. |
| Chunk sender | `stream.hpp` | ChunkSend, StreamData_proofs | modelled: send_chunks and chunk_sender, called on the loop and on another thread. |
| Datagrams, sending half | `datagram.cpp`, `connection.cpp`, `datagram.hpp` | DgramQueue | modelled: dgram::queue, splitting, the lookahead, the queue limit, the datagram block of flush_packets, and early datagrams. |
| Datagrams, receiving half | `datagram.cpp`, `connection.cpp`, `datagram.hpp` | Reassembly | modelled: recv_datagram, rotating_buffer and its pool of pieces. |
| BTRequestStream, requests | `btstream.cpp`, `btstream.hpp` | BTRequest, Subsequences, BTRequest_proofs | modelled: command(), the outstanding requests and their timer, replies, withdrawal, closing and destruction. The registered handlers of the other side are external. |
| BTRequestStream, framing | `btstream.cpp`, `btstream.hpp` | BTFraming | modelled: process_incoming with prefix_accumulator and data_accumulator, against a reference parser. The bt-encoding inside a frame is oxenc's. |
| Connection, streams | `connection.cpp`, `connection.hpp` | ConnStreams | modelled: Opening, queuing, pending, closing and reverting streams, and their end with the connection. |
| Connection, flush | `connection.cpp` | FlushLoop, StreamSend, DgramQueue, SendBatch, UdpSend | modelled: FlushLoop is the loop of flush_packets over the channels of a connection; what one turn does to the data of a stream or to the datagrams in detail, and the batch, are in StreamSend, DgramQueue, SendBatch and UdpSend. |
| Connection, handshake | `connection.cpp` | ConnClose, StreamSend, DgramQueue | partly: Completion, confirmation and the fate of early data are events of the modules that react to them. The order of ngtcp2's and GnuTLS's callbacks among themselves, and the constructor, are not modelled. |
| Connection, end | `endpoint.cpp`, `connection.cpp` | ConnClose, Shutdown_proofs | modelled: Closing, draining, dropping, the close hooks, cleanup and deletion. |
| Connection, migration | `connection.cpp`, `endpoint.cpp` | Migration, Migration_proofs | modelled: The reaction of an outbound connection to changes of the host's network, NAT64 included. Path validation of a server is not modelled. |
| Endpoint, lookup and accept | `endpoint.cpp`, `endpoint.hpp` | ConnLookup, Connections_proofs | modelled: conn_lookup, conns, the lookup cache, the reset tokens, and the making and deleting of connections. |
| Endpoint, stateless packets | `endpoint.cpp` | - | not modelled: Retry, address validation tokens, version negotiation, stateless reset and stateless close: single replies whose content is ngtcp2's cryptography, with no state in the endpoint. When a reset is sent at all is in ConnLookup. |
| Endpoint, send batch | `connection.cpp`, `endpoint.cpp`, `internal.hpp` | SendBatch, Subsequences, SendBatch_proofs | modelled: The batch that connections share, stalls, waiters and wake-ups, manual routing. |
| UDP sockets, sending | `udp.cpp`, `endpoint.cpp`, `udp.hpp` | UdpSend | modelled: send_packets and UDPSocket::send on Linux: GSO grouping, short counts, fallback, oversized packets. The Windows and plain POSIX branches are not. |
| UDP sockets, receiving | `udp.cpp`, `udp.hpp` | UdpReceive | modelled: receive and process_received on Linux with and without GRO. |
| UDP sockets, set-up | `udp.cpp` | - | not modelled: Creating and binding sockets, buffer sizes, dual stack, control messages: system calls made in a row once, with no state of the library's. |
| Loop, JobQueue and timers | `loop.cpp`, `loop.hpp`, `timer_id.hpp`, `event_ptr.hpp` | JobQueue, JobQueue_proofs | modelled: Jobs, call_get, timers, wakeables, stop, on and off the loop thread. The deprecated Ticker and Wakeable classes are not. |
| Network | `network.cpp`, `network.hpp` | NetworkLife, Shutdown_proofs | modelled: Ownership of endpoints, close and close_soon, destruction with a shared or an own loop. |
| TLS credentials and sessions, 0-RTT | `gnutls_crypto.cpp`, `gnutls_crypto.hpp`, `crypto.hpp` | EarlyTickets, Connections_proofs | modelled: Session tickets: storing, taking out, and the memory against replays. |
| TLS credentials and sessions, keys | `gnutls_crypto.cpp`, `gnutls_crypto.hpp`, `crypto.hpp` | - | not modelled: Loading keys and certificates, ALPN, and key verification: calls of GnuTLS in a row. |
| Unencrypted mode | `unencrypted.cpp`, `unencrypted.hpp` | - | not modelled: Null ciphers put into ngtcp2's callbacks; no state of its own after the handshake. |
| Addresses, paths and IP ranges | `address.cpp`, `ip.cpp`, `path.cpp`, `address.hpp`, `ip.hpp`, `path.hpp` | - | not modelled: Pure values: addresses and paths are model values in Migration and UdpSend. |
| Connection IDs, results, utilities, formatting | `connection_ids.cpp`, `result.cpp`, `utils.cpp`, `format.cpp`, `iochannel.cpp`, `connection_ids.hpp`, `result.hpp`, `utils.hpp`, `format.hpp`, `formattable.hpp`, `iochannel.hpp` | - | not modelled: Values, error codes and text; connection IDs are model values in ConnLookup. |
| Context and options | `context.cpp`, `context.hpp`, `opt.hpp` | - | not modelled: Copies of configuration, made once; the values that matter are CONSTANTS of the modules. |
| ngtcp2, GnuTLS, libevent, kernel | `connection.cpp`, `gnutls_crypto.cpp`, `loop.cpp`, `udp.cpp` | - | not modelled: External. Each module models what it needs of them, from how the code uses them. |

## Modules

Each component module has its state as VARIABLES, one action per operation or handler with the name
of the function it models, `Next`, `Spec`, and where liveness is checked `FairSpec`.  Operators
commented "Mutant" are plausible mistakes in the operator that follows them; they are not part of any
specification.

- **StreamSend**: one stream, from `send_impl` over `pending`/`wrote`/`acknowledge` to ngtcp2.  State
  is the stream's own (`user_buffers`, the counters, `current_buffer_index/offset`, flags,
  watermarks), a program counter for the loops in which watermark callbacks re-enter, and the ngtcp2
  stream as counts of bytes accepted and acknowledged.  Buffers carry their stream offset as a history
  value, so that "offers exactly the next unsent bytes" can be said.  A keep-alive that
  is destroyed by `acknowledge` may send on the stream at once: that appends behind everything the loop still
  looks at, so the model has it after the loop.
- **ByteStream**: what that half promises, without its books: buffers are fed, occupy consecutive
  bytes, are transmitted in order and once (unless an early attempt is void), acknowledged in order,
  and released when acknowledged in full or taken back before any of them was transmitted; the end of
  the stream goes with the last byte.  StreamSend implements it: `Promise` in StreamSend instantiates
  it with the buffers as held by the application's keep-alives and the counts of ngtcp2.
- **RecvFlow**: `stream_receive` for several streams of one connection, data callbacks that pause,
  resume or throw, and the offsets ngtcp2 may extend.  Bytes are counted.
- **ChunkSend**: `send_chunks`; `on_loop`, a variable that no step changes, says which thread calls it.
  Off the loop, obtaining a chunk and sending it are separate steps.
- **DgramQueue**: `dgram::queue` with `fetch` and `confirm_sent`, splitting, the lookahead, the queue
  limit, and early datagrams kept for a Retry or a rejection.  `U16` stands for 2^16, the width of the
  sizes `discard` subtracts.
- **Reassembly**: `rotating_buffer`.  Datagrams are numbered without wrap; what travels is the number
  modulo `Counters` (2^14 in the code).
- **BTRequest**: `command`, the request table, `check_timeouts` with its callbacks one at a time,
  replies, withdrawal, `closed`, destruction.
- **BTFraming**: `process_incoming` over arbitrary chunks, against `Frames`, a recursive reference
  parser of the whole stream.
- **ConnStreams**: the maps and deques of a connection's streams, through opening, queuing, pending,
  0-RTT rejection, and `close_all_streams` / `drop_streams`, callback by callback.
- **FlushLoop**: the loop of `flush_packets` over the list of streams, datagrams and the pseudo stream,
  turn by turn: what is popped, pushed to the front, listed again before `streams_end_it` or erased;
  packets begun by one channel and finished by another; batches sent on the way; callbacks of `wrote`
  that send, finish and close.  Of ngtcp2 it has whether a packet is partly filled, the packets the
  congestion window admits, and the frames of its own.
- **ConnClose**: the jobs that close, drain, drop and delete one connection, in every order, and what
  the application is told.  Whether the connection was accepted, whether its peer sends early data and
  whether anything drops it are variables that no step changes.
- **Migration**: the label `_path.local`, the unconfirmed address, waiting for a connection ID, NAT64.
- **ConnLookup**: `conn_lookup`, `conns`, the one-entry cache, associated connection IDs, reset tokens.
- **SendBatch**: the batch the connections of an endpoint share, its stall, its owner and waiters.
- **UdpSend**: `Endpoint::send_packets` over `UDPSocket::send`: which packets share a GSO message, what
  a short count means, what errors switch GSO off.
- **UdpReceive**: `receive` and `process_received`, over a kernel that merges packets.
- **JobQueue**: jobs and timers, with calls off the loop split at each mutex and libevent call.  Which
  threads use the id of a timer is `owner`, a variable that no step changes.
- **EarlyTickets**: session tickets at the client (issued, on their way, stored, taken out), the
  ClientHellos they are used for, and the server's anti-replay memory of those.  A ClientHello may come
  late and more than once.
- **NetworkLife**: the pointers to endpoints and the end of a Network.  `own_loop`, a variable that no
  step changes, says whether the Network has the only pointer to its Loop.
- **Subsequences**: what erasing from a vector leaves (`Kept`, with the positions kept in increasing
  order, `Enumerations`) and what an insertion makes of it.  SendBatch and BTRequest use it in place of
  recursive operators, which the prover cannot handle.

The **MC** modules give the constants values for TLC.  Most hold several instances, of one component
with different constants or of components that share no variables; a variable `focus`, chosen at the
start and never changed, says which of them moves.  A state of one instance has no effect on another, so
nothing is lost by leaving the others at rest, and the properties are those of the instances, each
under the focus it is meant for.

## Runs

Every property of a passing run is violated when one mapped definition is replaced by its mutant.

| Run | Module | Checks | Shows |
|---|---|---|---|
| streams | MCStreams | IndInv, AckWithinSent, ChunksKept, Implements | The send queue of a stream with early data, fed up to four buffers of up to two bytes and withdrawn, acknowledged, flushed and reverted in any order, keeps its books and implements the abstract byte stream; a chunk sender on the loop and on another thread keeps its chunks in order. |
| bt_stream | MCBTStream | AnsweredInTime, NoLateSend, FramesAreTrue, PairsAreTrue, HalvesMeet | Three requests with two timeouts against replies, timer, jobs, partial writes, close and destruction; every stream of up to seven bytes cut into chunks in every way; and a datagram reassembly buffer of four slots through more than one round of the counter, with reordering, repeats and bursts of losses. |
| conn_streams | MCConnStreams | StreamsInStep, ClosedExactlyOnce, SlotsAndIdsKept | Three stream objects, plain and BTRequestStream, opened, queued, refused, closed, reset and reverted while the connection closes, drains or is dropped: with an orderly peer and with one that is not. |
| shutdown | MCShutdown | ToldOfEnds, NetworkSafe, GoneForGood, ShutsDown, CallsReturn | An accepted and an opened connection's close, drain, drop and cleanup jobs in every order, with and without early data, two endpoints of a Network that is closed and destroyed from another thread, and a loop whose jobs and waiting callers see it stopped. |
| send_batch | MCSendBatch | NobodyForgotten, InOrderOnce, DeadSendNothing, FlushSound | Two connections that share a send batch over a socket that takes any part of it, blocks or fails, three that wait on one another's stall, and two whose packets a manual router takes or throws on; and the loop of a flush over two streams, early datagrams and the pseudo stream, under any congestion and with callbacks that send, finish and close. |
| connections | MCConnections | LookupInv, ReplaysBounded, NeverResetOwn | Three connections with three connection IDs, two initial ones and a reset token that a peer may use again in the endpoint's tables, with constructors that may throw; and four tickets issued over two seconds of two ticks each, which arrive in any order, expire, are used and replayed to a server whose replay store may throw. |
| udp | MCUdp | SentAsReported, ReceivedAsSent, TurnsAreSound | Every batch of up to four packets of three sizes and two marks, over routes that can and cannot segment or carry them, with sends that block or fail at any message; and up to six packets merged by GRO in every way, empty or too long, while receive() runs or fails. |
| job_queue | MCJobQueue | JobsInOrder, TimersKept, RemovedIsQuietApart | Two threads and the loop that queue jobs, add, wake, repeat, stop and remove timers and stop the queue, for each way the threads may share the timers. |
| data | MCData | FlowInv, InOrderNoneLost, QueueIsTrue, FlowsPaused, AllGetsSent, Drains | Two receiving streams that are paused and resumed, that end, and whose callbacks may throw keep their flow control as the code has it; four datagrams of three sizes over a path that changes size, and three of a client whose early data may be retried, accepted or rejected, are queued and split rightly; and under the fairness of the event loop what is given to a stream, a chunk sender or the datagram channel is sent, and what the peer sends arrives as long as bytes that came with FINs leave some of the connection's window. |
| control_progress | MCControlProgress | MigrationInv, SettlesOnRoute, EventuallyAnswered, Woken | A connection under a host that changes its network up to four times migrates only when it may; and under the fairness of the event loop it settles on the host's network, requests are answered, and connections that wait on a stalled batch are woken. |
| conn_close_twice (violation) | ConnClose | ClosedOnce | A connection that is closed while a job that drops it is queued has its close callback run twice. |
| window_used_up (violation) | RecvFlow | Flows | Two streams under windows of two bytes: once one has ended with two bytes in the frame that carries its FIN, the connection's window is used up for good and the other stream stalls. |

What the properties say, by run:

- **streams**: `IndInv` is the inductive invariant of the proofs below; `AckWithinSent` the assertions of
  `acknowledge` and `wrote`; `Implements` that StreamSend is a ByteStream, early data and its rejection
  included; `ChunksKept` that no more than `simultaneous` chunks are with the library at once, and that
  chunks of a `send_chunks` called on the loop enter in order and done is called once.
- **bt_stream**: `AnsweredInTime` (one response to each request, the timer always set for the first due),
  `NoLateSend` (a request that has timed out is not sent), `FramesAreTrue` (chunks do not matter);
  and, of datagrams that arrive, `PairsAreTrue` (only halves of one datagram are joined, and the piece pool
  neither leaks nor shares) and `HalvesMeet` (a half whose partner comes within the tolerance is still held).
  The sender's side of that contract, that the halves of a datagram are sent within the lookahead, is in
  `InOrderNoneLost`.
- **conn_streams**: `StreamsInStep` (maps, ids and stream states agree), `ClosedExactlyOnce`,
  `SlotsAndIdsKept`.
- **shutdown**: `ToldOfEnds` and `GoneForGood` for connections, `NetworkSafe` and `ShutsDown` for the
  Network, `CallsReturn` for callers that wait for a loop which may be stopped.
- **send_batch**: `NobodyForgotten` (no lost wake-up), `InOrderOnce` (nothing lost, sent twice
  or overtaken, unless a manual router threw), `DeadSendNothing`, and
  `FlushSound`: the list of a flush holds each channel once with the pseudo stream last, and
  `streams_end_it` is not used after it was popped; a flush leaves the batch empty or stalled and no
  packet half written; a flush that has gone through its channels, uncongested, leaves only data that
  ngtcp2 refused; and each turn completes a packet, shortens the list or takes datagrams, so that every
  flush ends.
- **connections**: `LookupInv` (tables, cache and tokens agree), `NeverResetOwn`, `ReplaysBounded` (early
  data is not accepted again before the time of its entry has passed, and no ticket is used twice).
- **udp**: `SentAsReported`, `TurnsAreSound`; `ReceivedAsSent`: the packets handed on are those sent, each
  once and in order, and one call of `receive` stays within the limit and one more batch of messages, each of
  which may hold several packets; empty packets are not counted by the code and not by the bound.
- **job_queue**: `JobsInOrder`, `TimersKept`, `RemovedIsQuietApart`.
- **data**: `FlowInv` (a stream's credit is neither lost nor given twice, the connection's is lost for exactly
  the bytes that came with a FIN); `InOrderNoneLost` and `QueueIsTrue` relate the queue of datagrams to what a
  peer has received; and the liveness properties `FlowsPaused`, `AllGetsSent`, `Drains`.  `FlowsPaused` holds
  as long as the bytes that came with FINs leave some of the connection's window: see window_used_up.
- **control_progress**: `MigrationInv`, and the liveness properties `SettlesOnRoute`,
  `EventuallyAnswered`, `Woken`.
- **conn_close_twice** and **window_used_up** each check one property that the code does not have: see
  [the findings](#the-findings).

`CHECK_DEADLOCK FALSE` is set in the models in which the system may rest: a stream with nothing to send,
a queue with no calls left within the bound.  It is checked in the udp run, where every batch is sent to
its end and every packet read.

### Bounds

The bounds are CONSTANTS, commented "bound", and appear in guards of actions that stand for the
application, the peer or the network.  They are chosen for the cases that matter to be reached:

- StreamSend: four buffers of at most two bytes are a partly acknowledged front, a partly sent middle and
  unsent ones behind, with withdrawals from in between; an offer of two bytes ends inside a buffer.
- DgramQueue: sizes 1, 3 and 5 over pieces of 2 or 3 are a whole datagram, one that is split or whole
  depending on the path, and one that may be undeliverable; four of them with lookahead 2 let a small
  datagram overtake two.
- Reassembly: 12 counters, 4 slots and 14 datagrams wrap the counter and the slots three times.
- BTRequest: three requests with two timeouts expire in an order other than that of their making.
- BTFraming: seven bytes in chunks of up to three hold two frames, prefixes of two digits cut anywhere,
  and every malformed prefix.
- ConnStreams: three streams, one of them a BTRequestStream, two ids for each side, and one slot.
- FlushLoop: two streams and two datagrams over packets of two units, batches of two packets and a
  quantum of three, which the streams, the datagrams and ngtcp2's own frames can each reach; one call by
  a callback.
- ConnClose: four queued jobs are a close, a drain, a drop and a cleanup at once.
- SendBatch: two of three connections with three packets each over a batch of two; all three, with one
  packet each, for two waiters.
- ConnLookup: three connections, four drawn and two chosen connection IDs.
- JobQueue: two threads beside the loop; four jobs, or two timers, with four to six calls.
- UdpSend, UdpReceive: batches of four packets of three sizes; five packets of two flows over two slots,
  or six of one flow over a limit of two.
- Migration: four changes between three addresses are enough to come back to an address with a
  migration to it pending.
- RecvFlow: two streams that carry a byte more than their windows, and a window of the connection that the
  last bytes of one can use up; twice paused, with a byte less, where callbacks may throw.
- ChunkSend: more than two rounds of the simultaneous chunks.
- EarlyTickets: four tickets, one more than the client stores; a second of two ticks, so that whole seconds
  and the clock differ, and four ticks, in which the clock passes the window of one second.
- NetworkLife: two endpoints.

Symmetry is used only in runs without liveness properties, over streams, connections and
connection IDs.

### Fairness

Liveness is checked only where the code's scheduling gives the fairness assumed:

- the loop runs queued jobs, due timers and ready sockets (libevent serves all active events in
  each pass, hence strong fairness for the main queue's event in JobQueue and NetworkLife);
- threads do not stop in the middle of a call;
- SendBatch: a socket that is tried again and again does not block for ever;
- StreamSend, DgramQueue, RecvFlow, ChunkSend: the peer acknowledges, grants credit and ends the
  handshake, and the application resumes what it paused; a stream that is closed is exempt;
- Migration: every change is reported by `network_changed()` and packets keep arriving on the address
  the host sends from.

BTRequest's `EventuallyAnswered` and the `EventuallyGone` in `GoneForGood` assume nothing of peer, network
or application: only that the loop and the clock run.  That a flush ends needs no fairness: `FlushSound`
bounds its turns by the quantum, the length of the list and the datagrams.

## Proofs

### The sending half of a stream

`StreamSend_proofs` proves, for every value of the
constants that satisfies the assumption of StreamSend (bounds are naturals, an offer and a buffer hold
at least a byte, `clear < alarm` as `enable_watermarks` requires):

- `Inductive`: The whole inductive invariant of the send queue: counters, send point, watermarks, FIN and what ngtcp2 holds agree in every reachable state.
- `TypeCorrect`: No size_t counter of a stream wraps, and every variable keeps its type, whatever the sizes, thresholds and number of buffers.
- `Accounting`: Buffers, counters, send point and ngtcp2 agree after every step, including inside wrote() and acknowledge().
- `OffersUnsent`: pending() only ever offers unsent bytes, and all of them unless it reports more.
- `AckAssertions`: The assertions of acknowledge() hold and wrote() never runs off the queue with bytes left.
- `WatermarkBand`: The watermark alarm state is always within its documented hysteresis band.
- `FinCarriesLast`: Without early data the FIN is only sent with or after the last byte.
- `SafeRelease`: A buffer is released only when ngtcp2 has it acked in full or has never seen it.
- `Refinement`: The send queue implements the abstract byte stream of ByteStream: every step of it, early data and its reversal included, is a step of the byte stream or leaves it alone.

The argument is one inductive invariant, `IndInv`, the conjunction of

- `TypeOK`;
- `Contiguous`: the buffers tile the stream from the first unacknowledged byte to the last byte fed,
  and `unsent_size`, `unacked_size`, `acked_bytes` are the lengths of the parts;
- `Ordered`: keep-alives are in the order they were given, so that a withdrawal finds at most one;
- `SendPoint`: the index and offset of the send point name the first unsent byte;
- `NetInStep`: ngtcp2 has accepted and seen acknowledged exactly what the counters say;
- `OnlyFrontTrimmed`: only the front buffer may be partly acknowledged, if `front_trimmed` is set;
- `EarlyUnacked`: nothing is acknowledged while the early data is undecided;
- `OfferReach`: inside `pending` the offer ends where the collected buffers end;
- `WatermarkExact`: the alarm is raised exactly between the two marks' crossings.

None of the properties is inductive alone: that an acknowledgement never exceeds what was sent (the
assertion in `acknowledge`) needs `NetInStep`; that a withdrawal keeps the send point right needs
`Contiguous` and `Ordered`; that a rejected 0-RTT attempt may rewind the send point to the front
needs `EarlyUnacked`.  `InitInv` shows that `Init` implies `IndInv`; there is a lemma per action that
it is preserved (`SendInv`, `WithdrawInv`, `WroteNextInv`, `AckPopInv`, `AckTrimInv`,
`EarlyRejectedInv`, ...; `QuietInv` for those that leave the buffers alone), `NextInv` joins them, and
the theorems follow.

The last part of `StreamSend_proofs` proves `Refinement`: StreamSend implements ByteStream.  It needs `IndInv` and one
fact more, `FinInStep` (the FIN that ngtcp2 has is the one the stream remembers having sent, so that
nothing is fed or taken back after it), and has a lemma per kind of step: a send feeds, a withdrawal
takes back, an accepted write transmits, an acknowledgement is one of ByteStream's, a buffer popped is
a release, a rejected early attempt is a void one, and every other step leaves the byte stream alone.

### The receiving half

`StreamData_proofs` proves `FlowCorrect`, `Spec => []FlowInv`, for any set of streams, any positive windows
and any number of pauses.  `FlowInv` is `StreamCredit` (until its FIN, a stream's limit and held-back
credit are together one window beyond what was passed on), `PauseBounds`, `PauseIsLocal` (the connection's
limit is one window beyond what was passed on, less the bytes that came with a FIN), the types, and the strengthening
`Limits`: without it `PauseBounds` is not inductive, since what a paused stream is sent is bounded by the
limit the peer was told and that by ngtcp2's limit at the pause.  The hard case is `stream_receive`, whose
callback may pause or resume the stream it is called for: `CallbackSpec` says what it leaves behind.

### Transfers in chunks

The second part of `StreamData_proofs` proves `ChunksAreKept`, `ChunksSpec => []ChunksKept`, for any number
of chunks, simultaneous or in all, and for both callers of `send_chunks`.  That no more than `simultaneous`
chunks are out is not inductive, since what asks for a chunk is not itself one: `Credits` in `ChunksInv`
counts the calls of `queue_next_chunk` yet to start and those under way with the chunks in jobs and buffers.
`Counted` and `DonesCounted` bound what two threads can do to one chunk_sender, and `Alone` says what holds
only where the caller is the loop: one call at a time, nothing posted, and the chunk held is the newest.

### The tables of connections

`Connections_proofs` proves, for any number of connections, IDs and tokens, `LookupCorrect` (`LookupInv`
always holds: an ID leads to the connection that lists it, the cache to what the tables say, a token to
a connection whose peer gave it, and what is not live lists nothing) and `OwnNeverReset` (a stateless
reset is never the answer to an ID that one of our connections lists).  Both assume `~Collide`: that no ID
drawn at random equals one that a client chose.  Without that the first is not true of the code: see
below.  Constructors that throw are included, and tokens that are
given to two connections: `associate_reset` overwrites the entry and `dissociate_reset` erases it, so that one of
the two is left without; `reused` says which tokens, and for those only the other direction is claimed.

### Early data

The second part of `Connections_proofs` proves `EarlyReplaysAreBounded`, `TicketsSpec => []ReplaysBounded`, for
any remotes, lifetimes of tickets and anti-replay window.  `TicketsInv` adds what makes it inductive.
`Remembered`: a ClientHello that was accepted is in the server's memory until the time of its entry has passed,
unless the callback threw; this is where a cleanup that forgot an entry a moment too early would show.
`AcceptedFresh`: it was within GnuTLS's window when it was accepted.  `OnePlace`: a ticket is on its way, stored
once, or used, and only one of these.  The entry's time is cut to whole seconds while GnuTLS compares finer
times, so the memory may end up to a second before the window: `AgainOnlyLate` says which hellos can be
accepted a second time in between, with a window of whole seconds those first accepted in the second they
were sent in.

### The send batch

`SendBatch_proofs` proves `NobodyIsForgotten`, `PacketsGoOutInOrder` and `TheDeadSendNothing` for any set
of connections (`NoConn` not among them), packet sizes, batch, quantum and number of packets, with and
without a manual router.  `NobodyForgotten` is inductive as the run checks it, and that is why it has
five parts: that no wake-up is lost (`NoLostWakeup`) needs to know that a stall has exactly one callback
and that its waiters still have their events (`StallCanEnd`), this needs the batch to be empty or stalled
between handlers (`BatchEmptyOrStalled`), and that the packets of a dead owner are discarded needs the
batch to hold packets of one connection (`OneSender`).  `InOrderOnce` is inductive together with it.  The
hard steps are those of the socket, for which there is a lemma each on what leaves the batch: `OrderEmit`
for a prefix that is sent, `OrderDropSome` for packets dropped from in between, `OrderDropAll`, and
`OrderWrite` for a packet that joins; `CountOf` and `MoveOver` count packets by connection, so that sent,
dropped and waiting add up to what ngtcp2 has written.

### Requests

`BTRequest_proofs` proves `EveryRequestAnsweredInTime` and `NothingSentLate` for any number of requests,
any timeouts, any replies and any set of requests that are to be sent even after a timeout.
`AnsweredInTime` and `NoLateSend` are inductive together: that the timer follows the request due first
needs the expiries to be those of the outstanding requests and sorted (`ExpiriesSorted`), and that a
request which timed out is not sent needs each to be queued once.  `AddEntry`, `EraseEntry` and
`TakeEntries` say what an insertion, a reply and `check_timeouts` make of the sorted expiries.

### The end of a connection

`Shutdown_proofs` proves `TheApplicationIsToldOfEnds` and `DeletedForGood` for any bound on the queue of
jobs, and so for any number of closes, drains, drops, timers and parked packets under way at once.
`ToldOfEnds` is not inductive: it speaks of deleted connections, while the hooks run before.  The
strengthening `CloseInv` says that no hook has run before closing or draining is set, that what deletes a
connection by itself (a timer, a parked packet) exists only once one of them is, that from then on the
hooks have run unless the connection is closed quietly or was not confirmed, and, where nothing drops it,
that no drop is queued and what was told follows from `established` and `closes` alone.

### The end of a Network

The second part of `Shutdown_proofs` proves `NetworkIsSafe`, `NetworkSpec => []NetworkSafe`, for any set of
endpoints and every value of `own_loop`, `Late`, `Hasty` and `Holds`; what `NetworkSafe` says of dangling
jobs and of the two threads is conditional on `~Hasty` and, for insertions, on `~Late`, since it is not true
of the code otherwise (see below).  `NetworkInv` follows the pointers and the jobs that have them:
- `JobsTrue`: a job owns the live endpoint it closes, or the application that waits for it does; nobody has
  a pointer to an endpoint that is to be deleted;
- `InTurn`: the job that is waited for is the last one, and what comes behind a `close_soon` works on the
  Network only if it is waited for;
- `AppTrue`: how the steps of the application's thread follow one another (`Fits`) and what the next one
  relies on (`HeadTrue`);
- `Calm`: from the moment the shutdown is immediate or the endpoints are cleared, no job works on the
  Network, or the application is waiting behind all those that do.  From it follow `NoDangling` and
  `NoRace`.

`EndJobKeeps` and `UnlockKeeps` are the hard steps: in them the loop lets go of what may be the last pointer.

### Migration

`Migration_proofs` proves `MigrationIsSound`, `Spec => []MigrationInv`, for any addresses, connection IDs
and changes of the network.  `MigrationInv` is inductive; since `check_local_address`, `migrate` and
`local_address_mismatch` are functions of a state of the connection, the proof says of each what it
preserves in the middle of a step (`Coherent`: all but that a waiting migration lacks a connection ID,
which one that has just arrived breaks until it is used).

### Jobs and timers

`JobQueue_proofs` proves `JobsAreInOrder`, `TimersAreKept` and `RemovedTimersAreQuiet` for any sets of jobs,
timers and threads, any number of calls and any `owner`: calls of several threads on one timer interleave
at every libevent call.  `Inv` is what is inductive.  `Known` types the state and says where the loop
thread is: a call in progress has a list of libevent calls left that its kind can have (`Left`), and
`Stopping` says how far `stop` is.  `TimerInv` has the facts about timers that the properties need of each
other:
- `ScheduledIsHeld` needs `Entries`: a call refers to an entry it found, and one that removes it has taken
  it off the registry, so that the last reference cancels the event;
- `OneShotOnce` needs `OneShots` (a one-shot fires from the registry, and is off it and cancelled by the
  time its callback is over), `Adds` (one thread adds an entry and schedules it last) and `NotYet`;
- `HaltedStaysHalted` and `AssignedAtRest` need `Halts`: what each libevent call of a `disarm` in progress
  has left behind;
- `RemovedIsQuiet` needs `Removes`, and `StoppedIsQuiet` needs `Quiet`.

`Steps` divides the steps of a behaviour into those that enter a call (`EntersKeeps`), the loop's own
(`ExpireKeeps`, `DispatchKeeps`, `CallbackEndsKeeps`, `OneShotEndsKeeps`, `RegistryStopsKeeps`), the libevent
calls (`LibsDoes` says what one does; `SchedulingKeeps`, `CancellingKeeps`) and returns (`ReturnsKeeps`).
`OneShotEndsKeeps` is where the order of `dispatch` matters: the loop removes a one-shot after its callback and
before the event, which is persistent, can run again.

### What is only model-checked

Liveness under fairness is out of the prover's reach: `ShutsDown`, `CallsReturn`, `AllGetsSent`, `Drains`,
`FlowsPaused`, `SettlesOnRoute`, `EventuallyAnswered`, `Woken`, and `EventuallyGone` in `GoneForGood` (its
other half, `GoneIsFinal`, is proved).  So are recursive operators: what the reference parser of BTFraming
computes (`FramesAreTrue`) and the recursive cutting and joining of packets in UdpSend and UdpReceive
(`SentAsReported`, `ReceivedAsSent`, `TurnsAreSound`).  The invariants
of DgramQueue, Reassembly, ConnStreams and FlushLoop have no proof yet and are model-checked only.

## The findings

**conn_close_twice** (`src/src/endpoint.cpp:523`): _drop_connection does not check whether the connection is already closing or draining: a drop queued by a failed send before a queued close job ran executes the close hooks a second time. src/src/endpoint.cpp:585: "mark connection as closing so that if we re-enter we won't try closing a second time"; src/tests/001-handshake.cpp:891: "Connection dropped twice fires close callback once", with CHECK(closes == 1) at src/tests/001-handshake.cpp:940.  TLC's trace: the application closes, which queues the job; a send fails before it runs, which queues a drop; the close job and then the drop run the hooks.  `ToldOfEnds`, in the run shutdown, says that the application is told once where nothing drops the connection.

**window_used_up** (`src/src/connection.cpp:1780`): stream_receive extends the window of the connection only for data that came without a FIN. Bytes that come with one are lost to it, and with windows that are not auto-tuned (a maximum no larger than the initial window) enough finished streams use it up: the other streams stall for good. src/tests/021-flow-control.cpp:40: "Transfers complete with any flow control windows"; src/include/oxen/quic/opt.hpp:242: "A window is how much data the other side may send beyond what libquic has passed on to the application".  TLC's trace: one stream of two ends with as many bytes as the connection's window, and the other can send nothing more.  `FlowsPaused`, in the run data, says the same of streams while some of the window is left.


## Where comments and code differ

Writing the modules from the code turned up places where a comment, a documented promise or a test's
title says something else.  Each is modelled as the code has it; the properties of the runs are stated
so that they hold of the code, by a constant that keeps a run within the documented use (named in
parentheses) or by the focus under which they are checked.

Streams and chunks
- `revert_stream` leaves `_sent_fin` set, so early data that went out with its FIN and was rejected is not
  sent again (`stream.cpp:409`; "marks all sent data as unsent", `stream.hpp:294`).  `AllGetsSent` is
  stated without early data.
- `send_chunks` called off the loop can send chunks out of order and call done twice, since taking a chunk
  and sending it are not one step (`stream.hpp:434`, `:458`); after `send_fin` the chunks are asked for at
  once, not when acknowledged (`stream.cpp:465`).  (`on_loop`)
- The bytes of frames with a FIN are not given back to the connection's window (`connection.cpp:1780`;
  "Transfers complete with any flow control windows", `021-flow-control.cpp:40`): `PauseIsLocal` counts
  them apart, and the run window_used_up shows what becomes of it.
- A data callback that throws ends the connection, not the stream (`connection.cpp:1777`;
  `result.hpp:39`).  (`Throws`)

Datagrams
- `early_data_retry` uses the lookahead in force now, not the one the datagrams were sent with
  (`datagram.cpp:287`), and may exceed the queue limit (`:291`; `opt.hpp:312`).
- `unsent_size` is 16 bits wide while payloads may be larger (`datagram.hpp:151`).  (`Sizes` below `U16`)
- During early data an unsendable datagram blocks those behind it until the handshake ends
  (`datagram.cpp:351`; `datagram.hpp:224`).
- Distances are compared in blocks of `bufsize/2`, so that the reordering tolerated is less than
  `reorder_limit` by up to a block (`datagram.cpp:165`; `opt.hpp:327`).  (`MaxLate`)

BTRequestStream
- An empty frame discards the rest of its chunk (`btstream.cpp:374`; `:391`), a colon without digits passes
  for a length (`:334`), and ten digits are accepted where nine are documented (`:324`;
  `btstream.hpp:244`).  (`Empties`)

Streams of a connection
- A stream that was closing when it was removed keeps its pointer to the connection
  (`connection.cpp:1643`; `iochannel.hpp:70`).
- A stream opened by a close callback of a dropped connection is forgotten (`endpoint.cpp:510`;
  `004-streams.cpp:1201`).  (`InDrop`)
- `next_incoming_stream_id` stays behind when a later stream's packet overtakes (`connection.cpp:1612`).
  (`InOrder`)
- A stream that the open callback refuses does not return its slot (`connection.cpp:1657`).  (`Rejects`)
- A reverted stream keeps its id while it is pending (`connection.cpp:817`; `stream.hpp:100`).

Flush, batch and sockets
- A FIN or a notification without data, passed over because ngtcp2 filled the packet with other frames, is
  not listed again in that flush: `has_unsent` asks for buffers (`connection.cpp:1540`).  `FlushSound`
  speaks of data.
- A manual router that throws leaves packets in a batch that is not stalled (`endpoint.cpp:1239`;
  `connection.cpp:1226`).
- A retransmission timer armed by an earlier flush fires during a stall (`connection.cpp:1115`), and ngtcp2
  is called for a connection whose write failed for good (`:1123`; `:1448`).
- `sendmmsg` can report success for fewer packets than asked (`udp.cpp:1389`; `udp.hpp:141`);
  `send_packets` allows for it.
- `receive` counts no empty packet, and with GRO a batch of messages holds more packets than slots: it may go
  on past its limit (`udp.cpp:859`, `:920`; "Maximum number of packets we will receive at once before
  returning control", `utils.hpp:164`).

Connections
- An accepted connection that was announced with early data is not announced closed before its handshake
  is confirmed (`endpoint.cpp:547`; `:549`).  (`early`)
- An ID drawn for us that a client has chosen before stays with the other connection
  (`endpoint.cpp:783`; `connection.cpp:255`).  (`Collide`)
- A reset token that two connections are given is erased with either of them (`endpoint.cpp:743`).  (`reused`)
- Early data may be accepted a second time in the last fraction of a second of the anti-replay window, and
  whenever the anti-replay callback throws (`gnutls_crypto.cpp:294`, `:297`).
- A constructor that throws in `accept_initial_connection` leaves empty entries behind
  (`endpoint.cpp:1150`).  (`Throws`)
- An address that was only seen is not taken up when the host moves to it later, without
  `network_changed` (`connection.cpp:1938`; `endpoint.hpp:119`), and a pending route is not forgotten when
  the host goes back (`connection.cpp:900`).

Loop and Network
- `wake`, `repeat` and `stop` let a callback run after `remove` or `stop` returned when threads share a
  timer (`loop.cpp:446`, `:289`; `loop.hpp:395`, `:160`), and `event_assign` can meet a scheduled event
  (`loop.cpp:420`).  `RemovedIsQuietApart` is for timers that threads do not share.
- `close_soon(endpoint)` changes `Network::endpoints` on the loop while `endpoint()` does on its caller's
  thread (`network.cpp:53`).  (`Late`)
- With `shutdown_immediate` a queued `close_soon` outlives the Network (`network.cpp:79`).  (`Hasty`)
- `close` returns before the endpoint is destroyed if a callback holds it (`network.cpp:39`), and closes
  with a packet even when shutdown is immediate (`endpoint.cpp:383`; `network.hpp:74`).

## Not modelled

- Stateless replies of an endpoint (Retry, tokens, version negotiation, stateless reset and close):
  one packet each, whose content is cryptography of ngtcp2, with no state kept.
- The order of the handshake callbacks among themselves, which ngtcp2 and GnuTLS decide, and the
  constructor of Connection; their effects on streams, datagrams and the application are events of the
  modules above.
- The server's path validation, pacing and PMTUD: ngtcp2's.
- The network between DgramQueue and Reassembly, and between two endpoints: the two halves are tied by
  their contract, `HalvesMeet`, instead.
- Unencrypted mode, key verification and ALPN: calls of GnuTLS or ngtcp2 in a row.
- Addresses, IP ranges, NAT64 address synthesis, connection ID values, formatting, options: values.
- Socket creation, and the Windows and plain POSIX sending and receiving.
- The deprecated Ticker and Wakeable.
- Data races proper (JobQueue and NetworkLife model the interleavings of whole library and libevent calls,
  and state mutual exclusion as a property where no lock is held).
- Object lifetime within a callback of the request timer: BTRequest's `Destroy` waits until
  `check_timeouts` has returned.
