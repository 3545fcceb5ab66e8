# A TLA+ model of polkadot-p2p-connect

This directory specifies, model-checks and in part proves the protocol machinery
of `polkadot-p2p-connect`, a no-std library that talks to one peer of the Polkadot
network. Line numbers refer to the sources under `src/`.

To check a run: `tlc -config X.cfg M`, with the module `M` and config named in
`PROJECT.json`. To check the proofs: `tlapm M.tla` for each module in the table
[What is proved](#what-is-proved).

## The system

A connection is a stack. Each layer is driven by the one above it.

| Part | Source | State | Operations |
|---|---|---|---|
| Connection | `src/connection.rs` | requests in flight, incoming requests, two streams per subscription, messages to emit, timers | `request`, `cancel_request`, `respond`, `subscribe`, `send_notification`, `cancel_subscription`, `next` |
| Request timers | `src/utils/timers.rs` | queue of sleeps, flag `poll_next` | `add`, `try_next`, the waker |
| Multistream over Yamux | `src/layers/yamux_multistream.rs` | per stream: buffer, negotiation state, size limit; the stream still being read | `open_stream`, `send_data`, `accept_protocol`, `reject_protocol`, `close_stream`, `reset_stream_immediately`, `next` |
| Frame buffer, varint | `src/layers/yamux_multistream/frame_buffer.rs`, `src/utils/varint.rs` | bytes, what is needed next | `feed`, `next` |
| Yamux session | `src/layers/yamux.rs`, `yamux/header.rs` | per stream: queue, windows, open state; frames to write; an output held back; write flags | `open_stream`, `send_data`, `close_stream`, `close_stream_immediately`, `reset_stream_immediately`, `next` |
| Read/write join | `src/utils/read_write_join.rs` | the two futures of a session | `call` |
| Noise, multistream dialer, set-up | `src/layers/noise.rs`, `src/layers/multistream.rs`, `Connection::from_stream`, `src/platform.rs` | phases of a connection, each with a timeout; the rest of a decrypted frame | `connect`, `connect_to_peer`, `read_exact`, `write_all` |
| Byte formats | `src/utils/protobuf.rs`, `src/utils/peer_id.rs` | none | encode, decode |
| Browser transport | `examples/web/src/lib.rs` | bytes that arrived, one waker slot, a sleep | the callbacks of the socket, `read_exact`, the loop over `next` |
| Warp sync | `warp-sync/src/grandpa.rs`, `main.rs` | authorities, set id, finalized block | `update_with_warp_sync_response`, the retry loop |
| State proofs | `examples/assethub-balance`, `examples/assethub-timestamp` | the finalized block, the parachain's head | `learn_assethub_head`, `fetch_assethub_account_info` |

Everything runs on one thread. The methods other than `next()` only queue work.
`next()` drives the read future and the write future of Yamux at the same time,
and may be dropped at any await point and called again.

What makes it hard:

* the read future, the write future and the caller share the session state, and
  change it at each other's await points;
* the remote may send any frame at any time, and may reuse a stream id;
* each layer has its own table of streams, and a stream can end in either
  layer, from either side, at any stage of its negotiation;
* requests can be answered, refused, closed, reset, timed out and cancelled, and
  those events race;
* a subscription is two streams, opened from two sides, with a handshake on each;
* wake-ups are flags and wakers that must not be lost;
* bytes arrive in any cut, and a read or a call of `next()` may stop within a frame;
* peers may say anything: they may fall silent in any phase of the set-up, and what they
  send to the warp sync is applied step by step, with an error after any of them.

`PROJECT.json` lists the hazards one by one, at the line where each bites, with
the properties that cover it.

## The modules

```
Connection ── extends ──> YamuxMultistream ── extends ──> StreamService
                                                              ^
Timers                                                        | implements
                                          YamuxService ── extends ──> Yamux

Connect ── extends ──> NoiseStream            FrameBuffer ─┐
                                                           ├─ extend ──> Varint
WarpClient ── extends ──> Grandpa             Protobuf ────┘

Transport
```

| Module | What it is |
|---|---|
| `Yamux` | one end of a Yamux session |
| `YamuxQueues` | two properties of `Yamux` that fold over message sequences |
| `StreamService` | what a session promises to the layer above, without frames, windows or futures |
| `YamuxService` | `Yamux` implements `StreamService` |
| `YamuxMultistream` | protocol negotiation and message framing on top of `StreamService` |
| `Connection` | requests, subscriptions and timeouts on top of `YamuxMultistream` |
| `Timers` | the timers of `Connection` |
| `NoiseStream` | the byte streams to and from the peer, and the encrypted streams over them |
| `Connect` | setting a connection up over `NoiseStream`, with timeouts and a task that is woken |
| `Varint` | variable length integers: the library's, and those of the examples |
| `FrameBuffer` | the frame buffer of the multistream layer, byte by byte |
| `Protobuf` | protobuf messages, the handshake payload, `PeerId`, and the second reader in the examples |
| `Transport` | a WebSocket, `ReadWriteJoin` and `Connection::next` in one task |
| `Grandpa` | following finality through warp sync responses |
| `WarpClient` | the programs around `Grandpa`: bootnodes, requests, retries, state proofs |
| `YamuxProofs` | the proofs about `Yamux` and `YamuxService` |
| `ConnectionInvariants` | the invariants that the proofs about `YamuxMultistream` and `Connection` are built on |
| `ConnectionFacts` | lemmas about their operators: frame buffers, sequences, tables, the steps of the service |
| `ConnectionProofs` | the proofs about `YamuxMultistream`, and about the requests of `Connection` |
| `ConnectionStreams`, `ConnectionTheorems` | the proofs about the streams and the subscriptions of `Connection`: step by step, and put together |
| `TimersProofs`, `GrandpaProofs`, `TransportProofs` | the proofs about `Timers`, `Grandpa` with `WarpClient`, `Transport` |
| `MCYamux`, `MCMultistream`, `MCConnection`, `MCConnect`, `MCUtils`, `MCTransport`, `MCWarpClient` | frames, chunks, peers, streams, chains and constraints for TLC |

The definitions whose name ends in `_<Something>` and that a comment calls a
mutant are plausible mistakes in the definition they precede. They show that a
property can fail; no specification uses them.

### Yamux

`streams` is the map of `SharedState`; a stream is its `outbound_buf`, its two
windows and its `OpenState`. `write_buf` holds pongs and refusals, `output_buf` the
output held back for the next call, `inbound_buf` the bytes it refers to.

* *Calls* are the synchronous methods, one action each. `MayCall` is the one
  assumption on the caller: it calls on streams that it holds. The multistream
  layer keeps to it.
* *Reads* are the arms of `read_next`, one action for each outcome of a frame.
  There is no await between the end of a frame's body and the return.
* *Writes* are the await-free stretches of `write_next`: take the session's
  frames, finish writing them, one round over all streams, end of the pass,
  finish writing, park. During a pass the state is borrowed, so nothing
  else moves.

Bytes are numbered, so that order, loss and duplication are visible. `log[id]`
is the history of a stream: what was accepted, written, granted and handed out.
Header bytes and the `Ack` flag are left out. `send_data` with no bytes is
left out because the layer above always sends a length prefix first.

### StreamService and YamuxService

A stream is held by the layer above (`"open"`, `"closed"` by us, or `"none"`), and
is `present` when `send_data` on it succeeds. A session may lose a stream without
notice (`Lose`): a Ping or GoAway frame that names a stream does that
(620, 641). `YamuxService` gives the refinement mapping and also ties each call of
`Yamux` to the step of the service it must be.

### YamuxMultistream

One turn of `next_inner` is two actions with nothing in between: take a stream
(`take_buffer`, `recv_...`), then handle at most one message of its buffer
(`parse_...`, one per arm of the match). The bytes of a stream are tokens, named by
how the frame buffer reads them: `LEN` is a prefix, and a body is the header, a
protocol, a payload, `na` or garbage. A chunk may end between a prefix and its
body. Both have size one, so bodies are never empty and prefixes never split.
The point where the loop yields is its head, where the future may be dropped.

### Connection

`at` says whether the user's code runs, or `next_inner` is at the top of its loop or
waits for the layer below. The `on_...` actions are the arms of its match on an
output, in the order in which it looks through its tables. Whatever ends a
subscription does the same thing, so those arms are one action per stream
(`on_our_stream_over`, `on_their_stream_over`) with the result that the user gets.
A call to the layer below that fails
(`CanSend`, `CanReply`) ends the connection (`Fail`, `Finish`), with what was changed before it failed.
The user calls only while the connection is not finished. The timers are the
queue that `Timers` specifies, seen from above: `try_next` gives the oldest timer
if it is over.

### Timers

`try_next` is split at the poll of the sleep, because the flag and the waker may be
used from another thread. `ConcurrentWakes` says whether the platform does so.

### NoiseStream and Connect

`inbound` and `outbound` are the two directions, in units: a byte, or several that are always
read together. `arrived` and `drained` say how far each has got, so that every cut and every
amount of back-pressure happens. `read_exact` of the encrypted stream is `drain`, then
`recv_frame_len` and `recv_frame`, as long as something is wanted; `write_all` is
`write_chunk` and `place`. Encryption is external: a frame decrypts if it is whole and
carries the next nonce.

`at` is the await of `from_stream`. Each of its three phases has a sleep. `timeout` polls the
future until it is `Blocked`, then the sleep, then parks; arriving bytes, a peer that reads, and the
end of the sleep wake it. A peer is a record of what it will say, and the initial state chooses
one. Once connected, the session reads and writes through the same streams.

### Varint, FrameBuffer, Protobuf

A byte holds a digit to a base `B` and says whether more follow. Integers have `U64` values, a
`usize` has `USIZE`, which is smaller on wasm32. As in the code, the digits that a decoder
accepts reach beyond `U64`, and the excess is lost. `FrameBuffer` keeps the history of what was
fed, of the prefixes and of the frames. `Protobuf` builds messages by calls of the
`Encoder` and by bytes from elsewhere. What `decode` and the second reader
(`extract_state_response_proof`) make of them are operators.

### Transport

The callbacks run while the task is parked, and a poll is not interrupted. A poll goes
through `stage`: the read future (`read_...`), the write future (`write_...`, `read_returns`), the
sleep (`sleep_...`). The caller races `next()` with a sleep and drops the call when the sleep is
over, which the comment on `ReadWriteJoin::call` allows. A frame is a length and as many
bytes, each read with a `read_exact` of its own, as in Yamux; the future keeps the length in
between.

### Grandpa and WarpClient

The loops of `update_with_warp_sync_response` are steps, one fragment or precommit each, chosen
when the loop gets to it. So every response is covered, and every point at which one breaks
off. The constants `Chain`, `SetOf`, `AuthoritiesOf`, `Faulty` and `Votes` say what the
network is. The code knows none of them. Sums of weights are cardinalities of sets of
units, and wrap as the code's do.

`WarpClient` has both kinds of program. `warp-sync` leaves on most errors, and the AssetHub
examples try the next bootnode with the state they have. A bootnode that is not reliable may
refuse, fail, end, and answer anything. A proof stands for the root it is built on.

## The runs

| Run | Checks | What it shows |
|---|---|---|
| `yamux_send` | `TypeOK`, `SendWindowRespected`, `NothingLost`, `ParkedMeansDrained`, `EventuallyWritten` | One stream of ours. No byte beyond the window, none lost or written twice. The write future never sleeps on something it could write, and what can be written is written. |
| `yamux_receive` | `RecvWindowKept`, `GlobalFramesKept`, `DeliveredIntact`, `CloseReported`, `ImplementsService` | Streams of the remote, with every malformed frame. Bytes are handed out once, in order, and only for streams that are held. Closes are reported. Pongs and refusals are written once. The session implements `StreamService`. |
| `multistream` | `StreamsKnown`, `NoMessageStranded`, `OpenOnAgreement` | Any layer above, and any cut of the messages. Both layers agree on the streams there are. No complete message is left unread. A stream opens only on the protocol under discussion, and what goes out with it is the protocol, or nothing if the session has lost the stream. |
| `connection_requests` | `OneResponse`, `OpenStreamsOwned`, `TimerOutlivesRequest` | Every request has one response or is in flight. No stream has two uses, and while the connection lasts none is left open for nobody. A request with a timeout has a timer behind it as long as it is in flight. |
| `connection_subscriptions` | `OpenStreamsOwned`, `OpenedAfterHandshakes` | `Opened` is given only when both streams are open and our handshake went out on both. However a subscription ends, both streams go. |
| `connect` | `StreamIntact`, `WrittenIntact`, `PeerAuthenticated`, `SetupEnds` | A peer that plays its part and 22 that each differ in one way. The streams carry what was written, in any cut. Only the owner of the session's key is accepted, and each protocol is agreed before it is used. Set-up always ends, and with a willing peer in a connection. |
| `utils` | `FramesTile`, `FramesRoundTrip`, `ReadersAgree`, `MessagesRoundTrip`, `ElapsedIsFound`, `EventuallyReturned` | The frame buffer, the protobuf messages or the timers, one in each behaviour. Frames tile the stream by the lengths their prefixes declare, and none is held back. What is encoded comes back. The two protobuf readers agree. A timer that is over is found by the next call, and every timer comes back in the end. |
| `transport` | `NeverPolledAgain`, `ReadInOrder`, `NoLostWakeup`, `EndReported` | Dropped calls lose no byte. A finished future is not polled again. The task never sleeps with something to do. A closed socket is noticed. |
| `warp_client` | `FinalizedOnChain`, `AuthoritiesInForce`, `SignedWeightEarned`, `AccountIsFinal`, `FinalityExtends`, `EventuallyAnswered` | Whatever bootnodes answer, the block held is final, with the authorities in force after it, and finality only advances. The account printed is that of a final block. With one reliable bootnode it is found, unless another bootnode keeps its connection for ever. |

Three runs check what a comment says, and TLC finds that the code does otherwise.
See [Where code and comments differ](#where-code-and-comments-differ).

`CHECK_DEADLOCK FALSE` is set everywhere: a session may end or stay silent, and
the bounds run out.

### Bounds

* **Yamux.** `DEFAULT_WINDOW`, `MAX_FRAME_SIZE` and `MAX_SEND_SIZE` are 2, 4 and 1 in place of
  256K, 512K and 64K. As in the code, the window is half a frame, and a window
  takes more than one send. `MaxCalls` bounds the calls and `MaxFrames` the frames read.
  Four calls and three frames are enough to open, send twice and close, run out of window,
  queue a window update in between, and have the window opened again.
  `yamux_receive` has `MAX_STREAMS = 1` with two remote ids, so that a stream is
  refused, and reopened after it went away.
* **Timers.** `MaxTimers = 4`. The order, the flag and the wakers already
  interact with two.
* **YamuxMultistream.** `MaxEvents` bounds what the remote does and `MaxSent` the messages
  sent on a stream. Four events open a stream, cut a message in two, and answer and close
  during the negotiation. With `MULTISTREAM_PROTOCOL_MAX_LEN = 4` a buffer
  holds two messages, and a chunk of more is refused.
* **Connection.** `connection_requests` has two of our streams and one of the remote, so
  that two requests race with each other and with one incoming. `connection_subscriptions`
  has two ids of each side and nine events, so that a subscription can be opened, closed
  and opened again. `MaxBuffered = 1` bounds the cancellations that wait in `next_buf`.
* **Connect.** `MAX_NOISE_MSG = 3` and `TAG = 1` in place of 65535 and 16, so that a proposal of four
  units takes two frames. `Window = 3` is less than a frame with its length, so every write is
  held up. A multistream message is 0, 1 or too many units long.
* **FrameBuffer, Protobuf.** A digit has five bits and an integer twelve, in up to three bytes, so the
  third byte holds more than fits. A `usize` has ten. Streams have up to five bytes; two
  of the five values go on, so a length may be longer than it need be, or than a `usize` holds. Messages have up to six bytes, three of them from elsewhere.
* **Transport.** Three frames of lengths 1, 0 and 2, and up to three dropped calls.
* **WarpClient.** A chain of five blocks with two changes of the authorities, a fork of two, four
  authorities of which one is faulty, an authority that is listed twice, two rounds, two fragments
  in a response (three are needed), two bootnodes of which one is reliable.

`connection_subscriptions` has the constraint `RemoteReopensOnlyClosed`: the remote
opens an id again only after the layer above was told that it is gone. The other case is
`connection_reopened`, which has no constraint. `yamux_bytes_in_order` has the
constraint `RemoteHasSeenOpen`, so that its trace is one of a well-behaved remote.

### Fairness

* `Yamux!FairSpec`: weak fairness of handing out a kept output and of the write future. Both
  are what the owner grants by polling `next()`, with a transport that accepts
  bytes or fails. Nothing is assumed of the remote or of the caller. The calls of an
  instance are finitely many: a caller that never stops sending could keep
  one pass over the streams going for ever.
* `Timers!FairSpec`: `try_next` is called again and again, and time passes.
* `Connection!PolledSpec`: the user calls `next()` and lets it run, and time passes. The remote
  may stay silent.
* `Connect!Fairness`: the executor polls a task that was woken, a sleep ends, bytes that were sent
  arrive, and a peer goes on with what its record says. Nothing makes a peer close. `SetupEnds`
  also covers peers whose record ends early. `Willing` peers answer before the sleep ends.
* `Transport!Spec`: the executor polls a task that was woken. Callbacks need never come.
* `WarpClient!Fairness`: the programs run, and a bootnode that is reliable answers. Nothing is
  assumed of the others: they may fall silent, and they may answer with empty responses without
  end, which the code does not give up (`examples/warp-sync`, 193). `EventuallyAnswered` names that
  outcome.

## What is proved

The proofs hold for every value of the constants that satisfies the named assumptions, which TLC
evaluates for each instance:

* `YamuxConstants`, `TimersConstants`: sizes are natural numbers, a send carries at least one byte,
  and `DEFAULT_WINDOW >= MAX_FRAME_SIZE \div 2`. The code has equality there.
* `MultistreamConstants`: in what arrives prefixes and bodies alternate, and a payload is not a
  protocol, the header, `na` or garbage. `ConnectionConstants`: a protocol is for requests or for
  subscriptions, not for both, and only protocols for requests have a timeout.
* `StreamAssumption` of `Transport`: the stream is a sequence of numbers.
* `Grandpa` assumes what a light client must: signatures cannot be made up (`VotesAssumption`), a
  supermajority stands for final blocks only and the faulty are none (`GrandpaAssumption`), final
  blocks form a chain whose headers announce the sets (`ChainAssumption`), and twice the weight of
  a set fits in a `u64` (`WeightsFit`).

Three theorems have a premise on the remote, `[][RemoteReopensOnlyClosed]_vars`: it opens an id
again only after the layer above was told that the stream is gone. Without it the two on `NegotiationFirst` are
false of the code, as the run `connection_reopened` shows, and the third rests on the same invariant. The run
`connection_subscriptions` has the same constraint.

| Module | Theorem | Statement |
|---|---|---|
| `YamuxProofs` | `TypeCorrect` | `Spec => []TypeOK` |
| `YamuxProofs` | `SendWindowTheorem` | `Spec => []SendWindowRespected` |
| `YamuxProofs` | `RecvWindowTheorem` | `Spec => []RecvWindowKept` |
| `YamuxProofs` | `NoLostWakeup` | `Spec => []ParkedMeansDrained` |
| `YamuxProofs` | `GlobalFramesTheorem` | `Spec => []GlobalFramesKept` |
| `YamuxProofs` | `CloseReportedTheorem` | `Spec => []CloseReported` |
| `YamuxProofs` | `DeliveredTheorem` | `Spec => []DeliveredIntact` |
| `YamuxProofs` | `ServiceTheorem` | `Spec => ImplementsService` |
| `ConnectionProofs` | `StreamsKnownTheorem` | `MultistreamSpec => []StreamsKnown` |
| `ConnectionProofs` | `NoMessageStrandedTheorem` | `MultistreamSpec => []NoMessageStranded` |
| `ConnectionProofs` | `OpenOnAgreementTheorem` | `MultistreamSpec => OpenOnAgreement` |
| `ConnectionProofs` | `NegotiationFirstTheorem` | `MultistreamSpec /\ [][RemoteReopensOnlyClosed]_mvars => []NegotiationFirst` |
| `ConnectionProofs` | `TimerOutlivesRequestTheorem` | `Spec => []TimerOutlivesRequest` |
| `ConnectionProofs` | `OneResponseTheorem` | `Spec => []OneResponse` |
| `ConnectionTheorems` | `OpenStreamsOwnedTheorem` | `Spec => []OpenStreamsOwned` |
| `ConnectionTheorems` | `ConnectionNegotiationFirst` | `Spec /\ [][RemoteReopensOnlyClosed]_vars => []NegotiationFirst` |
| `ConnectionTheorems` | `OpenedAfterHandshakesTheorem` | `Spec /\ [][RemoteReopensOnlyClosed]_vars => OpenedAfterHandshakes` |
| `TimersProofs` | `TypeCorrect` | `Spec => []TypeOK` |
| `TimersProofs` | `NoTimerMissed` | `~ConcurrentWakes => (Spec => []ElapsedIsFound)` |
| `GrandpaProofs` | `FinalizedTheorem` | `Spec => []FinalizedOnChain` |
| `GrandpaProofs` | `AuthoritiesTheorem` | `Spec => []AuthoritiesInForce` |
| `GrandpaProofs` | `SignedWeightTheorem` | `Spec => []SignedWeightEarned` |
| `GrandpaProofs` | `FinalityTheorem` | `Spec => FinalityExtends` |
| `GrandpaProofs` | `ClientFollowsTheorem` | `ClientSpec => [](FinalizedOnChain /\ AuthoritiesInForce /\ SignedWeightEarned)` |
| `GrandpaProofs` | `ClientFinalityTheorem` | `ClientSpec => FinalityExtends` |
| `GrandpaProofs` | `AccountTheorem` | `ClientSpec => []AccountIsFinal` |
| `TransportProofs` | `NeverPolledAgainTheorem` | `Spec => []NeverPolledAgain` |
| `TransportProofs` | `NoLostWakeupTheorem` | `Spec => []NoLostWakeup` |
| `TransportProofs` | `ReadInOrderTheorem` | `Spec => []ReadInOrder` |

Yamux:

* **Types.** `TypeOK` is inductive. The hard part is a round of the write pass: the
  data message that is cut must be non-empty on both sides.
* **Windows.** `Windows` carries both properties together, for each stream and its history:
  the send window is the credit granted minus what was sent, and while a stream receives, the
  receive window is what was granted minus what arrived, and at least half a frame. A stream
  that left the map keeps its bound on what was sent. The proof needs `OwnIds`: our
  ids are odd and below `next_stream_id`, so `open_stream` never replaces a stream
  whose history goes on.
* **Wake-ups.** `ParkedMeansDrained` says nothing of the time between the end of a pass and
  the park. `DrainInv` extends it to the writing of the bytes in between, and
  to `write_buf` at all times after the start. Then every step either sets the flag
  (`FlushKeepsDrain`) or leaves all queues and windows alone (`QueuesKeptKeepsDrain`); only a
  write pass is different.
* **Pongs and refusals.** `GlobalFramesKept` is inductive: what is taken to be written leaves
  `write_buf` in the step that records it, and a frame read meanwhile is added at the end.
* **What is held.** `ServiceInv` says how the session stands towards the layer above. A stream
  that it has open can be used and nothing queued on it ends it (`Usable`), or the session has reset it
  and leaves it only in order to remove it (`BeingReset`). A stream that receives is held. An output
  that is kept for the next turn is the data of a stream the remote has just opened, or the close of a
  stream that receives no more (`KeptOutput`). `CloseReported` needs all of it: a frame can arrive for a
  stream in any of these conditions, and calls come between two turns.
* **Delivery.** `DeliveredIntact` compares what was handed out with what arrived. `Delivery` says what
  the sequence is: the numbers from 1 to what was received, or nothing yet, while the data that
  opened the stream `Waits`, untouched, in `inbound_buf`. A step adds an interval to it, so no
  induction over the sequence is needed.
* **The refinement.** For each call, each kind of frame and each step of the write future a lemma says
  which step of `StreamService` it is, under the mapping of `YamuxService` (`OpenServes`, `SendServes`,
  ..., `WritesServe`). A step that touches one stream changes the two maps of the service there only
  (`TouchesMaps`). The write pass must be a stutter: `RoundTakes` shows that a stream it
  removes, which the layer above may still have open, took no data before. `ServiceInv` is what it needs.

Multistream and connection:

* **Streams and buffers.** `MultistreamInv` holds `StreamsKnown` together with `Entries` (buffers are in step
  with what arrives, and who opened a stream decides how it is negotiated) and `Turns` (a buffer
  that is not the next to be read has nothing to read). `NoMessageStranded` is `Turns` at the head of
  the loop. `OpenOnAgreement` needs `Negotiating`: on a stream of ours, the protocol under
  discussion is the last thing we sent.
* **Negotiation.** `Negotiated` says what was sent by how far the negotiation has come: it fixes the
  first message and that a protocol is among them once the stream is open. This is where the premise is
  needed, as an entry that is kept for a new stream has the state of the old one. Of a stream that the
  session has lost it promises nothing more, since nothing can be sent on it.
* **The connection over it.** Every step of `Connection` is a step of the layer below or leaves it alone, so
  `Base` (the invariant of the layer, the tables, and where `next_inner` is) is shown once. `RolesInv` then
  says what the tables know of streams. `OutFits`: an output that waits to be handled tells the truth
  about its stream. `OurRoles` and `TheirRoles`: no two tables share a stream, our ids are below
  `next_stream_id`, and what we accepted stays until its end is handled. `Owned`: until the
  connection ends, a stream that is open has an owner. `OpenStreamsOwned` follows from all of them.
* **Requests.** `Counted` counts, for each request, the table entry, the responses that wait and those
  that were given: they are one in all. Each handler moves that one on. `TimerOutlivesRequest` is
  inductive: one turn of the loop takes a timer of every protocol up to the first that ends a request, and
  those it passes over belong to no request in flight (`TimersTaken`).
* **Subscriptions.** `OpenedAfterHandshakes` is about the step that returns `Opened`. `Handshakes` says for
  each direction what was sent on its stream by the state in the table (`OurShake`, `TheirShake`);
  `OpenIds` says that an open subscription has its streams, and `Told` that no `Opened` waits in `next_buf`,
  so that only the step that completes the second handshake gives it (`OnlyOpenedByHandshake`).

Timers, warp sync and transport:

* **Timers.** `Armed`: when the flag is clear, the sleep at the front holds our
  waker and is not over. Its premise `~ConcurrentWakes` is needed: `Utils.cfg`
  with `ConcurrentWakes = TRUE` refutes the property.
* **Grandpa.** The four properties are inductive together, with `FragmentInWork`: the fragment in work
  is ahead of the finalized block, and `valid_targets` are its descendants. The argument: what is
  counted is the weight of distinct authorities (`WeightAdd`), each with a vote of this set and round
  for a descendant (`AncestrySetDescends`). Above the threshold there is a supermajority
  (`AboveThreshold`), so the block is final. The supermajority has an authority that is not
  faulty, whose vote ties the set to the block it voted for. Sets only grow along descendants
  (`DescendantSets`), so the set in force is the one that votes on the fragment
  (`VerifiedOnChain`). This also shows that no change of the authorities can be skipped, although the code
  never compares a block with its parent.
* **WarpClient.** Each step of the programs is a step of `Grandpa`, or changes only the result of the last
  response (`ClientSteps`), so its invariant carries over. `ClientInv` adds what the second phase knows: once the
  account is asked for, the finalized block no longer moves (`Settled`), so the head that was
  learned stays the one that this block names (`HeadFinal`), over every retry.
* **Transport.** `NoLostWakeup` speaks of a parked task. `IInv` adds what is known between
  the stages of a poll: once the reader has looked and found nothing (`Starving`), that stays so until the
  poll ends. `PutBackComplete` says when a finished future is in `ReadWriteJoin`, and
  `InCall` that no call is polled then. `Order` carries `ReadInOrder` through a frame of which
  the length was read and the rest was not.

Only model-checked:

* liveness (`EventuallyWritten`, `EventuallyReturned`, `SetupEnds`, `EndReported`, `EventuallyAnswered`), which is out of
  the reach of the prover, as is `ENABLED`;
* `NothingLost`, `StreamIntact` and `WrittenIntact`, which say what a fold or a `SelectSeq` over a sequence
  of messages gives, and would need induction over that sequence;
* `PeerAuthenticated`, which speaks of what was read from the streams of `NoiseStream`, of which
  nothing is proved;
* the byte formats (`FramesTile`, `FramesRoundTrip`, `ReadersAgree`, `MessagesRoundTrip`), whose operators are
  recursive.

## Where code and comments differ

Three of these are runs that TLC ends with a counterexample.

* `yamux_bytes_in_order` (`yamux.rs:755`). Data that finds no window goes to the *back* of
  its queue. Data queued later, behind a window update, is then written first.
* `connection_timeout` (`connection.rs:524`). Timers are looked at only before `next()` waits
  for the network. With a silent remote the timeout never comes.
* `connection_reopened` (`yamux_multistream.rs:277`). Yamux drops a stream without notice when a
  Ping or GoAway frame names it. If the remote opens the id again, the old entry is taken for the
  new stream, and data goes out on it before any negotiation.

The models also reach these states. They have no run of their own.

* A wake from another thread between the poll of a timer and the store that clears the flag is
  overwritten (`timers.rs:78`), and the timer is not polled again. `Utils.cfg` with
  `ConcurrentWakes = TRUE` shows it.
* `accept_protocol` and `reject_protocol` relabel the stream before they send
  (`yamux_multistream.rs:180`, `196`). When the session has lost the stream the send fails, the
  connection ends with an error, and the stream stays open for nobody. That is why
  `OpenStreamsOwned` speaks of a connection that has not ended.
* A stream that breaks its negotiation is reset and the layer above is not told
  (`yamux_multistream.rs:409`). Without a timeout the request stays in flight for good.
* When the writer fails in the poll in which the reader finished, what was read is dropped
  (`read_write_join.rs:58`), and the finished future is put back. It is never polled, because
  the connection has finished.
* An error of the socket is reported before bytes that had arrived (`examples/web/src/lib.rs:40`).
* An over-long varint loses its highest bits (`varint.rs:135`), and a length is cut to 32 bits on
  wasm32 (`frame_buffer.rs:67`). Frames still tile the stream, by the length that is left.
* An invalid vote of an authority hides a valid one that follows (`grandpa.rs:151`).
* The rotation at `yamux.rs:755` can also put a `Fin` before data that was queued earlier, and
  a window update behind data that waits for a window stays queued as long.
* A stream that both sides closed with `Fin` stays in the map, and counts towards `MAX_STREAMS`.
* The size limit is compared with all that is buffered for a stream
  (`yamux_multistream.rs:294`), so small messages that arrive together can exceed it.
* A `ResponseId` is a stream id. A late response can go out on a later stream with
  the same id (`connection.rs:378`).
* A second stream that is proposed for a subscription ends the subscription, and is itself
  neither accepted nor refused (`connection.rs:860`).
* After `Closed`, values of a stream that the remote opened anew are handed out before
  `Opened` (`connection.rs:874`).
* `cancel_subscription` gives `Closed` also when nothing was subscribed (`connection.rs:489`).

## What is not modelled

* The header bytes of Yamux frames, SCALE and JSON, base58, storage keys and trie proofs.
* Cryptography and the sleeps of the platform. They are external.
* TCP: `examples/basic.rs` and the AssetHub examples use it through tokio. `Transport` is the one
  transport whose code is in the repository.
* `YamuxMultistream::close_stream_immediately`, which nothing calls.
* A peer of `Connect` that differs in two ways at once, and crashes: nothing is persisted.
* What the programs print, and test support.

## Plan

1. `Connection` over `Yamux` itself: what stays in the session of a stream that the
   connection has let go of (`connection.rs:380`).
2. Proofs about `NoiseStream` and `Connect`, which begin with what `SelectSeq` makes of a frame
   that is added or taken.
3. The order of one poll (`Transport`) under the futures of `Yamux`.
