# TLA+ models of cpplib's packet layer

This directory holds TLA+ specifications of the parts of cpplib
(`src/include/lib`) whose correctness depends on the order in which things
happen, and TLC configurations that check them.

## The system

The components, with the state each one keeps:

| Component | Source | State |
|---|---|---|
| `packets::Handler` / `ReadHandler` | `lib/packets/handler.cpp`, `handler.hpp`, `packet.hpp` | `recv_header_`, the sticky `error_`, `receivers`, `packets` (prototypes), aggregators |
| `stream::impl::buffer` | `lib/impl/stream/buffer.cpp` | `read_buff`, `read_pos_`, `write_buff`, each of a fixed reserved capacity |
| `packets::impl::PingCounter` | `lib/impl/packets/ping_counter.cpp` | `local_count_`, `remote_count_`, latency clock |
| `packets::impl::sync` | `lib/impl/packets/sync/*.cpp` | the server's `quant_` and `lower_quant_`, and each client's acknowledged quant |
| socket state machines | `lib/socket/*.cpp`, `lib/impl_posix/socket/**`, `lib/impl_windows/socket/tcp/*.cpp` | state (`CONNECTING`, `CONNECTED`, `CLOSING`, …), sticky socket error, `close_lock`, the server's client list |
| `codec::impl::base64` | `lib/impl/codec/base64.cpp` | `mode_`, the sticky `error_`, `word_idx`, the three-byte `word`, `buffer_` |
| `codec::impl::xorkey` | `lib/impl/codec/xorkey.cpp` | `key_`, `key_idx`, `buffer_` |
| streams, serialization, hashes, CLI, ECS, … | the rest of `lib/` | data conversions without protocol state |

**How they interact.** An application owns a socket and puts a `buffer` over
it. A `ReadHandler` is bound to the buffer. Sending a packet writes an
8-byte header `{u32 id, u32 size}` and then the body into the buffer's
write side. `write_flush()` hands the bytes to the non-blocking socket, which
may take only a prefix. On the other side, `read_flush()` tops up the read side
from the socket. `receive()` then parses as many complete frames as are
buffered. For each frame it calls the receiver registered for its id; a
receiver may itself send. The first error is kept (it is "sticky"), and the
caller is expected to stop. The `PingCounter` is one such receiver pair. It
answers ping(k) with pong(k), and sends ping(n+1) when pong(n) comes back.
Everything is single-threaded per side and poll-driven. In the packets test
(`src/include/test/lib/packets/handler.cpp`), the two sides run in two threads
that share only the TCP connection.

**The hard behaviours.**
- A frame can be split across any number of reads, with the header pending
  in `recv_header_` between `receive()` calls.
- Partial socket writes.
- Replies are sent from inside `receive()` into a write buffer that may be
  full.
- Pings, pongs and Messages of both directions interleave.
- The polling loop must keep everything moving.

## Modules

| Module | Models | State / operators |
|---|---|---|
| `BufferedStream` | `buffer` | the record `[read_buff, read_pos, write_buff]`; one operator per method: `Read`, `Peek`, `ReadFlush`, `Write`, `WriteFlush`, `ReadSize`, `WriteSize` |
| `PacketHandler` | `Handler`, `ReadHandler` | the record `[recv_header, error]`; `SendHeader`, `Send`, `SetError`, one pass of `receive()` up to the receiver (`ReceiveHead`), the receiver's answer (`Dispatched`), and `Frames`, the packets a word sequence carries |
| `PingCounter` | `PingCounter` | the record `[local_count, remote_count]`; `Attach`, `OnPing`, `OnPong` |
| `PacketChannel` | what the layer promises | per direction a queue of packets that only loses packets at the head (delivered to the receivers, counted) and gains them at the tail |
| `PacketSession` | the packets test: two `PacketsHandler`s over TCP | variables `stream`, `handler`, `ping`, `messages`, `sent`, `net`, `inq`, `dispatched`; actions `ReadFlushStep`, `Receive`, `WriteFlushStep`, `SendMessage`, `Transmit` per side |
| `SyncProtocol` | `sync::Server`, `sync::Server::Client`, the remote `sync::Client` | variables `quant`, `lowerQuant`, `members` (the server's client list), `phase`, `ack` and `remote` (each end's `quant_`), `failed` and `srvError` (the two handlers' errors), the packet channels `down` and `up`; actions `Sync`, `Join` (the `Server::Client` constructor), `Leave` (its destructor), `ClientSync` and `ServerSync` (the two `onSync` receivers) |
| `SocketServer` | POSIX `tcp::server` and `tcp::server::client`, over the kernel's accept queue | variables `srv`, `srvOpen`, `listening` (the listening socket), `clients` (the `clients` vector, and `client_pollfds`, which every operation keeps index for index with it), `upd` (where a running `update()` is), `cst`/`copen` per accepted connection, `backlog` (the kernel queue), `peer`, `hup` (peer reset); actions `Bind` (the constructor), `Rebind` (`bind()` again on a closed server), `Listen`, `AppAccept`, `AppReject`, `AppClose`, `UpdateBegin`, `ServerPoll`, `UpdateClients`, `AppCloseClient`, `AppClientFails`, `PeerConnect`, `PeerReset` |
| `SocketClient` | `socket::client` with the POSIX client (`unix::client` over `unix::base`; `tcp::client` is the same code) | variables `state`, `open` (`sock >= 0`), `error` (`error_`), `conn` (the kernel connection: none, pending, established, refused, closed), `notified` (the `on_state_changed` calls of the last step), `closeOn` (the states on which the application's listener calls `close()`); actions `Connect`, `Update`, `Io("read")`, `Io("write")`, `Shutdown`, `Close`, `Handshake`, `PeerClose` |
| `PingAttach` | one side's `PingCounter` attached and detached by the application over a `ReadHandler` and its buffer | variables `h`, `buf`, `pc` (the records of `PacketHandler`, `BufferedStream`, `PingCounter`), `handlerSet` (`handler_ != nullptr`), `listening` (whether the ping and pong receivers are the counter's), `nullCall` (a callback ran with `handler_` null); actions `AppAttach`, `AppDetach`, `AppSend`, `WriteFlushStep`, `Dispatch` |
| `WinSocket` | the Windows `tcp::client`, `tcp::server` and `tcp::server::client` over Winsock event select | variables `srv`, `srvOpen`, `listening`, `acceptRec`/`acceptArmed` (the FD_ACCEPT record and whether it is enabled), `backlog`, `clients`, `upd`; per connection `scst`/`scopen`/`sRec` (server end), `cst`/`copen`/`cerr`/`cConn`/`cClose` (client end), `link`, `finToSrv`, `finToCli`; one action per method and per pass of `update()` |
| `Base64` | `codec::impl::base64` | variables `mode`, `error`, `wordIdx`, `word`, `buffer`, and the histories `segs`, `fed`, `known`; `Reset`, `Encode`, `Decode`, `ReadFlush`, each a whole call (the loops are `FoldLeft` over `EncodeStep` and the RECURSIVE `DecodeFrom`); the Word's getters and setters bit by bit; `IsValid`; the references `RfcEncode`, `RfcDecode` |
| `XorKey` | `codec::impl::xorkey` | variables `key`, `keyIdx`, `buffer` (the members), `error` (the last `write()`'s result), and the histories `fed`, `given`; `ResetKey` (`reset(key_buff)`), `ResetMode` (`reset(Mode)`), `Write` (behind `encode()` and `decode()`); `Process` as an operator |
| `MC_PacketSession` | model values for TLC | ids 1 (Message), 2 (ping), 3 (pong), `NumReceivers = 4` |

**Abstraction of data.** A "word" is one wire field: the header is two words
(id, size), a ping or pong body is one word (the counter), and a Message body
is `MsgLen` words. Strings and byte-level serialization are abstracted away.
Sizes are counted in words, so `Capacity` is the buffer's capacity in fields.
`counter_type` is `usize`, whose arithmetic wraps, and the model gives it
`CounterMod` values. The code compares counters only for equality with values
at most one apart, so every comparison comes out as it would at full width,
and the state space stays finite for liveness checking.

**Composition.** `PacketSession` holds one `BufferedStream` record, one
`PacketHandler` record and one `PingCounter` record per side. It calls their
operators the way the code calls the methods. `Receive(s)` is the whole of
`Handler::receive()`. The RECURSIVE `ReceiveLoop` repeats `ReceiveHead`. It
dispatches each packet to the test's `onMessage` or to the counter's
`onPing`/`onPong`, and those send their replies into the same stream, all in
one step, as the code does in one call. The socket of each direction is two
sequences:
- `net[s]`: the words side `s` wrote that are still in transit;
- `inq[s]`: the words that have arrived and wait to be read.

Together they hold at most `SockCap` words, so `write()` accepts a prefix of
the write buffer. `Transmit` moves one word at a time, so frames arrive split
at every possible point.

**Init.** Init is the state after both `PacketsHandler` constructors have run.
Each has listened on Message, ping and pong, reset its stream, and attached
its counter. So each write buffer holds the frame ping(1), and
`local_count = 1`, `remote_count = 0`.

**Driving.** The test calls `update()`, which is `read_flush() and receive()
and write_flush()`, inside `CPPLIB__TEST__TRUE`. A side is therefore driven
only while its handler reports no error (`Running`). The three calls are
separate actions. That allows every interleaving with the other side, which
runs in its own thread, and it contains the orders `update()` produces.
`SendMessage` lets the application send a Message at any point. The test
sends one Message from each side.

## Runs

| Run | cfg | Properties | Shows |
|---|---|---|---|
| `session` | `MC_PacketSession.cfg` | `NoHandlerError`, `MessagesDelivered`, `PingProgress`, `ChannelSpec` | The client sends a Message while both sides ping, over a socket that moves one word at a time. Neither handler ever records an error, every sent Message reaches the peer's `onMessage`, and the ping round-trip count keeps advancing. `PacketSession` implements `PacketChannel`: the refinement mapping parses each direction's words in flight into packets (the receiver's pending header, its unread read buffer, `inq`, `net`, and the sender's write buffer), and the ghost `dispatched` counts dispatches modulo `DeliveryMod`. |
| `sync` | `SyncProtocol.cfg` | `TypeOK`, `SyncedReceived`, `LowerQuantMonotone`, `SyncSettles` | Whatever `on_sync` reports, every connected client has received that quant or joined when the server was already at it. While clients remain, the reported quant never goes back, across joins, leaves, refused sends and failed far ends. Once the application stops calling `sync()`, each connected client ends up acknowledging the server's quant, or one of its two handlers holds an error. A refused sync packet is never lost silently, although `Server::Client::sync()` ignores the result of `send()`. |
| `socket_safety` | `SocketServer_safety.cfg` | `ClosedServerHasNoClients`, `PolledClientsOpen`, `PendingDisposed`, `ResetClientsClosed` | A closed server leaves no client open. `updateClients()` never polls a client the application closed, because `updateFlushClients()` has pruned it first. While `update()` is called, every queued connection is disposed of and every reset client is closed, unless the server failed. |
| `socket_update_faults` | `SocketServer_faults.cfg` | `UpdateErrorsContained` (violated) | The conjunction of `UpdateReturns`, `WouldBlockNonFatal` and `PollVisitsOnlyEvents`, under fair `update()` calls with the application answering `NONE`. TLC reports `WouldBlockNonFatal` first: `accept()` with nothing queued fails the server, a finding against the spec's error classification. Checked on its own under the same cfg, each of the other two is violated too: an answer of `NONE` keeps `update()` looping forever, and two clients, the second reset, reach the `revents == 0` assertion in `updateClients()`. |
| `client` | `SocketClient.cfg` | `TypeOK`, `StateMatchesSocket`, `HangupNoticed` | Under every listener policy and kernel outcome, an active client has an open socket and an `INITIAL` or `DISCONNECTED` one has none, also when the listener closes the socket from inside a notification. With `update()` called regularly, a refused or hung-up connection is noticed unless an error is recorded. |
| `client_contract` | `SocketClient_contract.cfg` | `ClientLifecycleContract` (violated) | The conjunction of `ConnectedWhenEstablished` and `OpenWithoutError`. TLC reports the first: the first `update()` after a connect in progress announces `CONNECTED` while the kernel is still connecting. Checked on its own, the second is violated too: a refused connect, `close()` and `connect()` again reach `base::open()` with `error_` still set. |
| `socket_windows` | `WinSocket.cfg` | `ConnectedOnlyWhenEstablished`, `PendingDisposed`, `GracefulCloseNoticed` | A refused connect never shows as `CONNECTED`; every queued connection is answered (`ACCEPT`, `REJECT`, `AUTO`) although FD_ACCEPT is re-enabled only by `accept()`, with two connections queued at once; a `server::client` whose peer closed gracefully is closed. 113,541 states, about 60 s. |
| `socket_windows_peer_close` | `WinSocket_peer_close.cfg` | `WinSocketContract` (violated) | The conjunction of `PeerCloseNoticed`, `ErrorMeansFailed` and `PendingDisposed`, with every answer to `on_new_client`, `NONE` included. TLC reports `ErrorMeansFailed` first: a connect refused by FD_CONNECT keeps `error_` while the client stays `CONNECTING`. Checked on its own under the same cfg, each of the other two is violated too: a client whose FD_CONNECT and FD_CLOSE are enumerated together stays `CONNECTED`, and a connection answered `NONE` stays queued for good, since FD_ACCEPT is re-enabled only by `accept()`. Findings. |
| `base64` | `Base64.cfg` | `TypeOK`, `DecodeMatchesReference` | Any sequence of `reset`, `encode`, `read_flush` and `decode` calls: once every `decode()` input since the mode changed passes `IsValid`, the buffer is the RFC 4648 decoding of all of them and no error is set. 5,515 states, about 55 s. |
| `base64_flush` | `Base64_encode.cfg` | `EncodeMatchesReference` (violated) | An `encode()` after a `read_flush()` that padded a partial word writes the next partial word with bits of the previous one: a finding. |
| `xor_contract` | `XorKey.cfg` | `XorCodecContract` (violated) | The conjunction of `XorStreamContinuous` and `KeyedWritesSucceed`. TLC reports the second first: a codec constructed with a key and reset through `reset(Mode)` fails its next `write()`. Checked on its own, the first is violated too: two one-byte writes under a two-byte key both use `key[0]`, because `write()` never advances `key_idx`. Findings. |
| `ping_attach` | `PingAttach.cfg` | `NoNullHandlerCall` (violated) | An `attach()` whose ping(1) is refused by a full stream leaves the receivers listening with `handler_` null; the peer's ping then runs `onPing` on a null `handler_`: a finding. |

**Bounds.**
- `Capacity = 9` is the smallest buffer that holds a Message frame (3 words)
  plus the one pong and one ping a side can owe at once (3 words each).
  With `Capacity = 8`, TLC finds `NoHandlerError` violated: a Message sits
  unflushed, two control replies arrive, and the second reply gets
  `SEND_QUEUE_FULL`, which the counter turns into `RECEIVE_RECEIVER_FAILED`.
  In the test, 128 bytes hold the 79-byte Message frame and two 16-byte ping
  frames, which is why the test passes.
- `SockCap = 1` makes every write partial and every frame arrive one word at
  a time. Larger values only add states.
- `CounterMod = 3` is the smallest modulus at which "one apart" is never "equal".
- `MsgLen = 1`, `MaxMsgs = 1`, with only the client sending
  (`Senders = {Client}`). The Message then crosses the ping traffic of both
  directions. Letting both sides send multiplies the states by about 7
  (714K states, still without an error).
- `DeliveryMod = 2`, so that the refinement tells one delivery from two.
- The run reaches 95,140 distinct states and takes about 140 s.

**The sync protocol.** `SyncProtocol` does not repeat the framing. Run
`session` shows that a handler pair over buffered streams and a socket
behaves as a FIFO packet channel, so each direction of a sync connection is a
sequence of quants. A send is refused (`SEND_QUEUE_FULL`) when the stream
holds `Cap` sync packets; the refusal is the handler's sticky error
(`srvError` on the server side). On the far end, a refused echo makes
`onSync` return false, so `receive()` fails with `RECEIVE_RECEIVER_FAILED`
and that end stops (`failed`). Its `quant_` is taken before the echo. The
server side stops processing echoes once its handler holds an error. The
timestamps follow the quants through the same `min` and are left out. The
ghost `joinQuant` records the server's quant when a connection joined.
Bounds: two connections, `MaxQuant = 4` sync calls and `Cap = 2`. With these
bounds both refusals happen, and a join lands between syncs with acks
outstanding (52,737 states, a few seconds). The sync cfg sets
`CHECK_DEADLOCK FALSE`. The application calls `sync()` and connects at will,
so a server it no longer calls, with nothing in flight, is idle.

**The socket server.** `SocketServer` splits `update()` into steps so that
peers can act between them:
- `UpdateBegin` covers the state checks and `updateFlushClients()`. The loop
  is modelled index for index by the RECURSIVE `FlushClients`.
- `ServerPoll` is one iteration of `updateServer()`'s loop: poll, then the
  `on_new_client` answer from `Actions`, then `accept()` or `reject()`.
- `UpdateClients` is `updateClients()`.

The kernel side is modelled from POSIX, because it is not code of the
repository:
- A peer's `connect()` is queued while the socket listens and the queue holds
  fewer than `Backlog` connections; otherwise it is refused.
- A reset connection reports `POLLHUP|POLLIN|POLLERR`, and a closed
  descriptor reports `POLLNVAL`.
- Closing the listening socket resets the queued connections.

`server::client::shutdown()` ends in `close()` (`socket::shutdown()` is
`close()`), so it ends CLOSED like `close()`. The application's callbacks
are assumed not to close the server, as the spec requires.

Bounds: three peers (two are enough for every ordering of two clients, and
the third fills the queue) and `Backlog = 2` (`MAX_CONNECTIONS`). The passing run
reaches 18,888 states in about 20 s. It lets the application answer
`ACCEPT`, `REJECT` or `AUTO` (the answer without an `on_new_client`
listener); `NONE` is left to `socket_update_faults`, since it keeps
`update()` from returning and adds no state of its own. Fairness is
weak fairness on the three `update()` steps, because the spec has the
application call `update()` regularly. The server cfgs set `CHECK_DEADLOCK
FALSE`: the application may close the server, and the peers stop connecting.

**The socket client.** `SocketClient` is translated from `unix::client` and
`unix::base`, the POSIX client whose base class is in the repository.
`tcp::client` is the same code line for line, over a `tcp::base` that is
missing. Each action is one whole call:
- `connect()` covers `setState(CONNECTING)`, `base::open()` (where `::socket`
  may fail), and a non-blocking `::connect`, which succeeds at once, is in
  progress, or fails.
- `update()` covers `base::update()`'s zero-length read, the `CONNECTING`
  branch, and the `poll()` for `POLLHUP`.
- `read()`/`write()` go through `client::check_error()`.
- `shutdown()` ends in `close()`.

Every `setState()` call of a step is listed in order. `Notify` applies the
idempotence check, and `notified` records what `on_state_changed` fired.

The application's listener is part of the state: `closeOn` is any subset of
{`CONNECTED`, `DISCONNECTING`, `FAILED`}, chosen at the start, and the
listener calls `close()` when notified of one of them. Such a nested `close()`
clears `sock` before its own `setState(DISCONNECTED)`. Whatever the outer call
does afterwards then works on `sock = -1`:
- `update()`'s `poll()` reports nothing;
- `shutdown()`'s `close()` returns at once.

So no further `setState()` follows, and `close_lock` never has an open socket
to protect.

Kernel results follow Linux:
- A zero-length `read()` returns 0 whatever the connection.
- `poll()` with no requested events reports `POLLHUP` (with `POLLERR` for a
  refused or reset TCP connection) for a refused or closed connection.
- I/O on a closed descriptor is `EBADF`.
- A read on a refused connection gets `ECONNREFUSED` or end of file, and a
  write gets `ECONNREFUSED` or `EPIPE`.
- I/O on a closed one is end of file, `ECONNRESET` or `EPIPE`.

The assertion `not isFailed()` in `connect()` is taken as the caller's
precondition. `base::open()`'s `not error_` is not, because a release build
runs on past it. There are no bounds: the state space is finite (268
states). The `client` run has weak fairness on `update()`, which the drivers
call in a loop. Everything else, the kernel's completion included, is free.

**Fairness.** There is weak fairness on each side's `ReadFlushStep`,
`Receive` and `WriteFlushStep`, because the test's loops call `update()`
repeatedly until they see progress. There is also weak fairness on
`Transmit`, because TCP delivers. `SendMessage` is not fair, since the
application may never send. Weak fairness of `Receive` is written out with the
state predicate `ReceiveEnabled` (ENABLED of the receive step), because TLC
evaluates ENABLED of the recursive receive loop very slowly. The `session` cfg
sets `CHECK_DEADLOCK FALSE`: a side whose handler reports an error is no longer
driven, so the system can stop, and the liveness properties report that.

In `SyncProtocol`, there is weak fairness on each connection's two `onSync`
deliveries. The spec requires callers to keep polling `receive()`, and a
side stops only at an error. `Sync`, `Join` and `Leave` are up to the
application and are not fair.

**Mutants.** Each property is broken by a plausible code bug:
- `SendHeaderRoomOffByOne`: the room check uses `>=`. This breaks
  `NoHandlerError`.
- `ReadFlushKeepsConsumed`: the consumed prefix is not erased. This breaks
  `ChannelSpec`.
- `DispatchedKeepsHeader`: `recv_header_.id = 0` is missing. This breaks
  `MessagesDelivered`.
- `ReadFlushOnlyWhenDrained`: there is no top-up while bytes are unread. This
  breaks `PingProgress`.
- `CloseServerKeepsClients`: `close()` clears the lists without closing the
  clients. This breaks `ClosedServerHasNoClients`.
- `FlushClientsSkipNext`: the pruning loop advances past an erased index.
  This breaks `PolledClientsOpen`.
- `ServerPollMissesQueued`: `updateServer()` tests the wrong `revents` bit
  and ends its loop with a connection queued. This breaks `PendingDisposed`.
- `ShutdownOnInFirst`: `POLLIN` is checked before `POLLHUP`. This breaks
  `ResetClientsClosed`.
- `OfferUnchecked`: `send()` writes without checking the room. This breaks
  `TypeOK` of `SyncProtocol`.
- `LowerOfMax`: `std::max` in place of `std::min` in `Server::sync()`. This
  breaks `SyncedReceived`.
- `JoinAckZero`: a `Server::Client` whose `quant_` starts at 0. This breaks
  `LowerQuantMonotone`.
- `ClientSyncNoEcho`: the far end takes the quant and does not echo it. This
  breaks `SyncSettles`.
- `NotifyStale`: `update()` goes on after the listener's `close()`, as if it
  polled the descriptor it read before the notification. This breaks
  `TypeOK` of `SocketClient`: four notifications in one step.
- `CloseKeepsState`: `close()` without the `setState(DISCONNECTED)`. This
  breaks `StateMatchesSocket`.
- `HupOnly`: `update()` tests `revents == POLLHUP` instead of the bit. This
  breaks `HangupNoticed`.
- `ClientUpdateIgnoresError`: the Windows `client::update()` takes an
  FD_CONNECT record as success whatever its error code. This breaks
  `ConnectedOnlyWhenEstablished`.
- `AnswerAutoIgnored`: `updateServer()`'s switch treats `AUTO` like `NONE`.
  FD_ACCEPT is then never re-enabled, which breaks `PendingDisposed`.
- `EncodeStepNoWrap`: `encode()` compares `word_idx` with 4 instead of
  `WORD_BYTES`. This breaks `TypeOK` of `Base64`.
- `SetThirdShift`: `Word::third(value)` shifts the value by
  `SECOND_OFFSET_R`. This breaks `DecodeMatchesReference`.
- `OnClientCloseInverted`: `updateClients()` tests the FD_CLOSE error code
  the wrong way round. This breaks `GracefulCloseNoticed`.

**Attaching the ping counter.** `PingAttach` reuses the `PacketHandler`,
`BufferedStream` and `PingCounter` operators and lets the application call
`attach()`, `detach()` and `send()` in any order while `write_flush()` drains
the stream and `receive()` dispatches the peer's pings and pongs (counters up
to `MaxCount`). `attach()` is one action: `detach()`, both `listen()` calls, the
ping(1) `send()`, and, only when it succeeded, `handler_` and the counts.
`Dispatch` follows `receive()`: an id beyond the receivers table is
`RECEIVE_HEADER_BAD_ID`, an unlistened one `RECEIVE_PACKET_UNKNOWN`, and a
receiver that gets past its counter check calls `handler_->send()`. A stream
of six words holds two ping frames, so the third `attach()` without a flush is
refused.

**The Windows backend.** `WinSocket` models the Winsock event-select code
with its own kernel model, because its events differ from `poll()`'s:
- each socket has one record per network event; the event object is
  signalled while a record is pending, and `WSAEnumNetworkEvents` takes every
  pending record at once (`Pending`, `Taken`);
- FD_CONNECT and FD_CLOSE are posted once per connection (`cConn`,
  `cClose`, `sRec`);
- FD_ACCEPT is posted when a connection is queued while it is enabled, and
  only `accept()` re-enables it; `accept()` clears no pending record
  (`acceptRec`, `acceptArmed`, `Rearm`);
- `closesocket` sends a FIN (`"ok"`) or, with unread data, a reset
  (`"err"`); the kind is chosen nondeterministically because data is
  abstracted (`FinFromServer`, `FinFromClient`).

`client::update()` is `ClientUpdate`: FD_CONNECT first, FD_CLOSE only in
the else branch, an error code kept in `error_` by `check_wsa_error` with
the state unchanged. `server::update()` is three actions, like the POSIX one:
`UpdateBegin` (`updateFlushClients()`), `ServerPoll` (one FD_ACCEPT answered
with every `on_new_client` answer in `Actions`), `UpdateClients` (one
signalled client per step, `OnClientClose`). The application may call
`accept()`, `reject()`, `close()`, `shutdown()` and a client's `close()` or
a failing I/O call between passes.

Bounds: two clients and a listen queue of `MAX_CONNECTIONS = 2`
(`server.hpp:35`), so that both connections wait at once and `accept()`
takes the `Rearm` branch that posts FD_ACCEPT again for the one left, a
connection is refused before `listen()`, and a queued connection is closed
by the server or reset by its client before `accept()`. `NONE` is left out
of the passing run's `Actions`: it leaves the connection queued with
FD_ACCEPT disabled, which the violation run `socket_windows_peer_close`
reports (the finding at `server.cpp:170`). Fairness is weak fairness on the three passes of
`update()` (the application's loop calls it) and on each client's
`update()` and handshake.

**The Base64 codec.** `Base64` models one codec object driven by any
sequence of the application's calls: `reset(m)`, `encode(p)` for byte buffers
of up to `MaxChunk` bytes, `decode(c)` for one or two words, and
`read_cbuffer(true)`, whose state change is `read_flush()`.
- Characters are their ASCII codes.
- `AlphaToIdx` is the inverse of the `ALPHABET` table.
- The Word's constructor, getters and setters compute the same bytes as
  the code, with the `u8` casts as `% 256` and the shifts from `Bitwise`.

The references `RfcEncode` and `RfcDecode` are written from RFC 4648 as
arithmetic on 24-bit groups, with no operators shared with the codec.
`IsValid` is not a reference: it translates the code's `IsValid()`
(`base64.cpp:101-119`), and the decode property holds on the inputs it
accepts. The histories say what the RFC gives:
- `segs` holds the bytes encoded since the mode changed, cut where a
  `read_flush()` padded;
- `fed` holds the RFC decoding of every input `IsValid` accepted;
- `known` says whether every input since the mode changed was accepted.

Bounds:
- bytes 15, 90 and 240, whose nibbles differ, so a misplaced shift changes
  a character;
- at most 4 bytes encoded and 6 bytes decoded between resets, enough for
  a full word, a padded flush and a second partial word;
- decode inputs: single words over `Q`, `/`, `=` and the non-alphabet `*`,
  and two-word inputs over `Q` and `=`, which put padding inside the input.

**The XOR codec.** `XorKey` models one `xorkey` object driven by any
sequence of `reset(key_buff)`, `reset(Mode)` and `write()` calls
(`encode()` and `decode()` are both `write()`). `Process` is the code's
loop in closed form: the i-th byte meets key byte
`(key_idx + i - 1) % key.size()`. `read()`, `read_size()` and
`read_cbuffer()` copy `buffer_` out and change nothing, so they are not
actions. The history `fed` holds the bytes written since the last reset,
and `given` the key of the constructor or of `reset(key_buff)`.
Bounds: plain bytes 1 and 2, keys of up to two bytes over 4 and 8, writes
of up to two bytes, a buffer of up to four. A two-byte key and two writes
are the least that tells a restarted key from a continued one.

## Not modelled (yet)

- **Aggregators.** The repository has no aggregator implementation.
- **Re-attach against a live peer.** `PingAttach` has one side only. Re-attaching resets
  the counts while the peer keeps its own, so the peer would reject ping(1);
  this is listed as a hazard.
- **Calling `receive()` after an error.**
- **Windows reads and writes.** `WinSocket` reduces them to the resets they
  observe (`ClientIoReset`, `AppClientFails`).
- **Re-entrant calls from the server's callbacks.** The client's listener is
  modelled; the server's `on_new_client` and `on_client_state_changed` are
  assumed not to close the server.
- **The tcp base class** is not in the repository. `SocketClient` uses the
  unix one. A TCP peer that closes gracefully (FIN) raises only `POLLIN` and
  `POLLRDHUP`, which `update()` does not request, so `tcp::client` does not
  notice it. This is a hazard the model does not cover.
- **Serialization, hashes, files, CLI and ECS.** These are data conversion
  or I/O with no state kept between calls (SHA-1 is fixed arithmetic rounds
  whose only reference would be the same code), or outside the spec's
  transport core. `Base64` and `XorKey` cover the two codecs that keep
  state between calls.

## Findings

- **`NONE` livelock** (`socket_update_faults`,
  `impl_posix/socket/tcp/server.cpp:159`). An `on_new_client` answer of
  `NONE` leaves the connection queued. `updateServer()` polls it again at
  once, so `update()` never returns.
- **`EAGAIN` fails the server** (`socket_update_faults`, `server.cpp:236`).
  `check_error()` moves the server to `FAILED` on would-block. The spec says
  would-block is non-fatal.
- **Reachable assertion** (`socket_update_faults`, `server.cpp:185`).
  `updateClients()` asserts on a visited descriptor with no events. A quiet
  client listed before a reset one reaches it.
- **Early `CONNECTED`** (`client_contract`,
  `impl_posix/socket/unix/client.cpp:72`, and likewise in `tcp/client.cpp`).
  The zero-length read cannot fail, so the in-progress branch is dead.
  `CONNECTED` is announced before the handshake completes. The spec says an
  in-progress connect stays `CONNECTING`. The tcp test writes right after
  that `update()` and expects the whole buffer written.
- **Reconnect after a failure** (`client_contract`, `unix/base.cpp:43`).
  `close()` turns `FAILED` into `DISCONNECTED` but keeps `error_`. A later
  `connect()` reaches `CPP_ASSERT(not error_)` (`@todo Add reset()`). In a
  release build, `update()` then returns false for ever. The spec calls
  `FAILED` absorbing.
- **Failed `attach()`** (`ping_attach`,
  `impl/packets/ping_counter.cpp:28`). When the ping(1) `send()` fails,
  `attach()` returns false after both `listen()` calls but before setting
  `handler_`. The peer's next ping reaches `onPing`, which calls
  `handler_->send()` on a null pointer, and `detach()` cannot remove the
  receivers because it returns at once while `handler_` is null.
- **Lost FD_CLOSE on Windows** (`socket_windows_peer_close`,
  `impl_windows/socket/tcp/client.cpp:92`). `WSAEnumNetworkEvents` returns
  and clears FD_CONNECT and FD_CLOSE together when both are pending, but
  `client::update()` looks at FD_CLOSE only when FD_CONNECT is absent. A
  connection that is queued and then reset by the server (its `close()`, or
  a `reject()`) before the client's next `update()` leaves the client
  `CONNECTED` with no event left to report the close. The spec says
  `update()` detects the peer's hang-up. `updateClients()` likewise skips an
  FD_CLOSE with an error code (`server.cpp:204`), which the same property
  covers.
- **Stale word after a padded flush** (`base64_flush`,
  `impl/codec/base64.cpp:237`). `read_flush()` writes a partial word with
  padding and resets `word_idx`, but it does not clear `word`, as the
  full-word path does at line 161. The next `encode()` overwrites only the
  bytes it stores, so the next partial word carries the old bits. For
  example, encode `{0x0F, 0x5A}`, flush, encode `{0x0F}`, flush gives
  `D1o=D1==`, where RFC 4648 gives `D1o=Dw==`. The unit test decodes between
  encodes, and the mode switch resets the codec, so the test never reaches
  this.
- **Refused connect kept in CONNECTING on Windows**
  (`socket_windows_peer_close`, `impl_windows/socket/tcp/client.cpp:89`).
  FD_CONNECT with an error code goes to `error_` through `check_wsa_error`,
  and the state stays `CONNECTING`; every later `update()` returns false.
  The spec's error classification moves a genuine failure to `FAILED`.
- **`NONE` strands a connection on Windows** (`socket_windows_peer_close`,
  `impl_windows/socket/tcp/server.cpp:170`). FD_ACCEPT is re-enabled only
  by `accept()`, so a connection answered `NONE` is never offered again.
- **XOR key restarts at every write** (`xor_contract`,
  `impl/codec/xorkey.cpp:57`). `write()` passes the member `key_idx` to
  `Process()` by value and never stores the advanced index. Every write
  starts again at `key[0]`: `<<1>>` then `<<1>>` under key `<<4, 8>>`
  encodes to `<<5, 5>>`, where one write of `<<1, 1>>` gives `<<5, 9>>`.
- **`reset(Mode)` drops the XOR key** (`xor_contract`,
  `impl/codec/xorkey.hpp:40`). The `codec_t` reset calls `reset()` with the
  default empty key, so every later `encode()` or `decode()` fails with the
  empty-data error. This half rests on a generic `codec_t` user resetting
  the codec between streams, which the repository does not state; the
  restarting key above is the stronger of the two. TLC reports this half
  first only because its trace is found first.
