# ibridger, specified

ibridger is an RPC library over Unix domain sockets: a C++ core with client and server
(`src/sdk/cpp`), a TypeScript client and server that speak the same wire protocol
(`src/sdk/js`), and length-prefixed protobuf envelopes between them. A client has one
connection and one request outstanding on it; a server runs one request at a time per
connection. What is hard is everything around that: threads that share a client whose lock is
released in the middle of a call, promise continuations that run after the connection changed,
reconnecting, resending, timeouts, and servers that stop, crash and come back.

This directory models both clients against such a server, the C++ server with its threads and
descriptors, the TypeScript server with its listeners and dispatch loops, the way from a typed
call through either dispatcher to its result, the frames on the socket and what the bytes in them
mean to either SDK, and several servers that share one socket path. TLC checks the models; TLAPS
proves the safety of both clients for any number of threads or callers, calls, connections and
faults, and that either implements one contract; the safety of both servers for any number of
clients and restarts; that of dispatching for any number of calls and registrations; that framing is
a channel of whole messages for any messages and any way the bytes are cut; and who owns a socket
path for any number of servers. Every safety property of a passing run is proved but one
(`Understood`); liveness is model-checked.

## Inventory

| Component | State | Operations | Interacts by | Correct when |
|---|---|---|---|---|
| C++ client `rpc/client.cpp` | `mutex_`, `codec_`/`framed_`/`transport_`, `next_request_id_` | `connect`, `disconnect`, `call` (reconnect loop, one resend), callbacks | system calls on its socket; threads through `mutex_`; user callbacks outside it | no request runs twice; a call gets its own response; `codec_` is never null in use; every call returns |
| C++ server `rpc/server.cpp` | `running_`, accept thread, handler threads, `active_connections_` | `start`, `stop`, accept loop, one handler loop per connection | sockets; `connections_mutex_`; close from another thread | `stop` returns; no thread or descriptor is left; limit holds |
| C++ dispatcher, registry | map of services | `register`, `dispatch` | called by handler threads | each request one response with its id and a right status |
| C++ framing, codec | none | `send_frame`, `recv_frame`, `send`, `recv` | called by client and handlers | a frame is read whole or an error is reported |
| C++ Unix transport | listening fd, connection fds, `connected_` | `listen`, `accept`, `connect`, `send`, `recv`, `close` | kernel, socket file | fds are closed once; the socket file is its owner's |
| TS client `rpc/client.ts` | `codec`, `nextRequestId`, `callInFlight`, `reconnecting` | `connect`, `disconnect`, `call`, `withTimeout`, `scheduleReconnect`, `waitForReconnect` | promises and timers of one event loop; `onDisconnect` closures | one call in flight; no call waits for ever for a reconnect or a response; it never stops reconnecting by accident |
| TS socket, framing `transport/unix-socket.ts` | `buffer`, `waiters`, `connected` | `send`, `recv`, events `data`, `error`, `close` | event loop | words go to the right reader; no reader is forgotten |
| TS server `rpc/server.ts`, `unix-socket-server.ts` | `services`, `activeConnections`, `_isRunning`, socket file | `register`, `start`, `stop`, dispatch loop | promises; socket file | start/stop in any order leave one listener or none |
| Generated classes `generated/proto.js` | none | `create`, `encode`, `decode`, `verify`, `fromObject`, `toObject`, `toJSON` | called by codec, dispatcher, user | reader and writer mean the same, whatever was left out, repeated or converted |
| Socket file | the file at the path | `bind`, `listen`, `connect`, `unlink` of any process | shared by all servers and clients of a path | a server left alone owns its path; clients come back |
| SDK `client_stub`, `service_base`, `server_builder` | method tables | typed `call`, `register_method`, `build` | wrap client, service and server | the caller can tell what became of a call |
| Logging, errors, named pipe, factory, examples | none of interest | | | not modelled, see below |

The hard behaviours, each at its line, are the `hazards` of `PROJECT.json`; those that no
property covers say why.

## Modules

| Module | What it is |
|---|---|
| `RpcCall` | The contract both clients promise: a call is issued under a fresh id, the handler runs at most once, the call ends with its own response or with an error, and an error says nothing of the handler. |
| `CppClient` | The C++ client shared by threads, its connections, and the server's end of them. |
| `CppClient_proof` | Theorems about `CppClient`, for every value of its constants. |
| `CppServer` | The C++ server: start and stop, accept thread, handler threads, connection limit, descriptors. |
| `CppServer_proof` | Theorems about `CppServer`, for every value of its constants. |
| `JsClient` | The TypeScript client, its socket wrapper and framing, Node's event loop, and the server's end. |
| `JsClient_proof` | Theorems about `JsClient`, for every value of its constants, and its refinement of `RpcCall`. |
| `JsClient_disciplined_proof` | What more holds of `JsClient` for a careful user. |
| `JsServer` | The TypeScript server: start and stop with their awaits, listeners, the socket file, one dispatch loop per connection. |
| `JsServer_proof` | Theorems about `JsServer`, for every value of its constants. |
| `Dispatch` | Registration, search for a handler, response, and what the caller gets, for both servers and both clients. |
| `Dispatch_proof` | Theorems about `Dispatch`, for every value of its constants. |
| `Channel` | What a framed connection promises in one direction: whole messages, in order, each once, and when reading may fail. |
| `Framing` | One direction of a framed connection in either SDK, over a kernel buffer that cuts reads and writes anywhere; implements `Channel`. |
| `Framing_proof` | The refinement, for every value of the constants of `Framing`. |
| `Proto` | The generated TypeScript classes, as operators over lists of fields. |
| `Wire` | `Framing` with the envelopes that clients and servers of both SDKs write and read: composes `Framing` and `Proto`. |
| `Endpoint` | Several server processes of both SDKs on one path, their system calls interleaved, crashes, and clients that dial. |
| `Endpoint_proof` | Theorems about `Endpoint`, for every value of its constants. |
| `MCCppClient`, `MCCppServer`, `MCJsClient`, `MCJsServer`, `MCDispatch`, `MCWire`, `MCEndpoint` | Their instances for TLC: the configurations considered. |

### CppClient and the code

`codec_`, `framed_` and `transport_` are set and reset together and are one variable, `conn`:
the connection in use, 0 for null. `pc[t]` is the place of thread `t` in `call()`. A step runs
from one point where another thread or the server can interfere to the next: taking or
releasing `mutex_`, a system call, a user callback.

- `Enter`, `WakeUp`, `DialOk`, `DialFail`: `call()` up to its first send, and
  `attempt_reconnect()`. The thread sleeps without the mutex and dials with it.
- `IssueId`, `SendHeader`, `SendPayload`, `SendFail`: a frame is two writes; a failed write
  leads to `handle_disconnect()`, which unlocks for the callback (`callback_retry`,
  `callback_fail`), and to one resend.
- `RecvReply`, `RecvFail`: the response with its id check, or the end of the connection, after
  which the call is not retried.
- `Connect`, `Disconnect`: the other operations, from any idle thread or from the callback.
- `SrvTake`, `SrvExecute`, `SrvReply`, `SrvEof`: the loop of a handler thread.
  `SrvDrop`, `ServerStop`, `ServerCrash`, `ServerStart`: what happens to the server.

Abstracted: payloads (a request is its id), back-off delays (a sleep ends at any time), the
frame limit (requests are assumed to fit; an oversized one is an error of `send` that the C++
client treats as a lost connection), and `call()` made from inside `on_disconnect` or
`on_reconnect`. (`on_reconnect` runs with `mutex_` held, unlike `on_disconnect`: a callback
that uses the client from there blocks for ever.)

### CppServer and the code

The accept thread is `acceptor`, the handler thread of connection `c` is `handler[c]`, a user in
`stop()` is `pc[u]`; a step is a system call or a section under `connections_mutex_`. Of a request
only matters that it can be read whole, in two reads, or cannot be taken for one.

- `Start`: `start()` with `listen()`. `AcceptCheck`, `AcceptFails`, `AcceptBlocks`, `Accept`,
  `AcceptWoken`, `Refuse`, `UnderLimit`, `Admit`: `accept_loop()`; the limit is checked under one
  lock (`limit`), the connection added under the next (`admit`).
- `ReadFails` to `ReadWoken`, `Respond`, `RespondFails`, `RemoveConnection`, `ThreadEnds`:
  `handle_connection()` and the end of its thread, which may destroy the connection.
- `StopBegins`, `CloseListener`, `Unlink`, `JoinAcceptor`, `CloseConnection`, `JoinHandlers`:
  `stop()`, statement by statement.
- `Close` and `Disconnected` keep `connected_` and the descriptor apart, as the code does: after
  an end of file or an error `connected_` is false and the descriptor still open (`fds`), and
  nobody closes it any more.
- `CloseWakes`: `close()` of a descriptor wakes a thread blocked on it (macOS) or not (Linux,
  where the open socket then lives on until the call returns: `OutlivesClose`).

Assumed: a user does not call `start()` while another call of `start()` or `stop()` is in
progress (the code would assign over a running thread); a service returns and does not call
`stop()`; a response fits the socket buffer and the frame limit (one above the limit would end its
handler as `ReadBad` does, with `connected_` still set); `bind()` and `listen()` succeed once `socket()` has.
A failed `start()`, and one on a running server, change nothing that is modelled.

### JsClient and the code

One action is one task of the event loop: an event of a socket, a timer, or code of the user.
The promise continuations of reads stand in the queue `micro` and run, one per `Resume`, before
any other task. A continuation that moves only its own call is part of the action that causes it
(for example `Written`: the second write, or the start of `recv`).

- `Connect`/`Connected`: `connect()` before and after its `await`; the check of `codec` belongs
  to the first only. `Disconnect` nulls `codec` and closes nothing: `codecAsCloseable()` finds
  no `close` on an `EnvelopeCodec`.
- `SocketError`, `SocketClose` (both through `Lost`): the handlers of `error` and `close`, with
  the `onDisconnect` closure of `connect()`, which resets `codec` whatever it stands on.
- `RetryTick`, `Poll`: the loop of `scheduleReconnect()` and the poll of `waitForReconnect()`.
- `Begin`, `Start`, `Written`, `TimeOut`: `call()`. A timeout leaves the read of the call where
  it is: it goes on for nobody (`CallersOf` of its id is empty).
- `Data`, `Read`, `Resume`: the buffer and its waiting reads. A response is three words, header
  and payload of two, so that a reader out of step is seen: a header read that meets the first
  word of a payload gets a length above the limit (an envelope that is not a request starts with
  byte 0x08), later words may mean any length.

From Node: continuations run before the next task; after `error` comes `close`, with no timer in
between (`TimerMayFire`), and no connect callback is put in between either; a failed write
destroys the socket, so `error` precedes the continuation of its call; pending writes settle
before `close`. Of the user: `onReconnect` does not throw (`client.ts:202` stands inside the `try`, so
that the loop would go on dialing, as "Already connected", with `reconnecting` false).

The server's end is coarser than in `CppClient` (read and run are one step, `SrvServe`): no
property of this module depends on a crash between them. It never reads end of file since the
client never closes a socket.

### JsServer and the code

One action is one task of the event loop, or what a client does. What a request says is left out:
it is dispatched, to a handler or to an error, or it is a frame that `recv()` rejects.

- `Start`/`Started`: `start()` before and after its `await`, with `listen()`, which unlinks the
  path and binds at once. The `listening` event comes before any other task (`Settled`), but not
  before the next line of code that did not await.
- `Stop`/`Closed`: `stop()` before and after its `await`. `net.Server.close()` closes the listening
  socket, whose path libuv unlinks, and the kernel drops clients not yet accepted; the `close`
  event waits for all connections, its callback unlinks the path again, and `stop()` nulls
  `socketServer`, whichever listener that is by now.
- `Connection`, `Receive`, `Respond`, `Written`: `handleConnection()` and `dispatchLoop()`, from
  one `await` to the next. `End` is a loop that ends with its `finally()`; `SocketClose` is the
  `close` event of a socket (and the `error` before it), which rejects a waiting read. A pending
  write settles before it.
- `active`, `sock` and `connected` are kept apart, as in the code: `activeConnections`, the socket
  of Node, the flag of `UnixSocketConnection`.

Assumed: `bind()` succeeds (a `start()` that rejects leaves a `socketServer` that never listened,
and the next `start()` replaces it); nobody else uses the path. `Awaits` says whether the user
awaits each `start()` and `stop()`.

### Dispatch and the code

Users register services with both servers while calls go on. A handler is the number of the
registration that brought it; what it makes of a request is one of four things (`Inputs`).

- `RegisterService`: the C++ registry, which keeps the first service of a name;
  `Server::register_service()` and the builder do not report the refusal. `Register`: the
  TypeScript server, which merges the methods.
- `Send`, `FindService` or `Lookup`, `Respond`, `Receive`: a call. The C++ search is two steps,
  `find_service()` under the lock and the method without it, which is sound because a service has
  its methods from its constructor; the TypeScript search is one task.
- `Answer`, `Result`, `Failure`, `Errc`, `StubResult`, `ClientResult`: from the handler's result to
  the envelope and to the `std::error_code` or exception of the caller.

### Framing and the code

One direction of a connection. Either end may be C++ or TypeScript, and the sender also some other
program that writes frames but does not keep to the limit. The header is two units, so that a read
can end inside it.

- `Send`, `Write`, `WriteFails`, `Close`: `send_frame()` and `FramedConnection.send()`. Header and
  payload are two calls of `conn.send()` (`CallLeft`), each a loop of writes that take what
  the kernel has room for (`Capacity`). `Fits` is the limit, checked before anything is written.
- `Ask`, `TakeHeader`, `TakePayload`: `recv_frame()` and `FramedConnection.recv()`.
- `CppRead` is `read_exact()`, which asks for what is missing; `TsData` is the `data` event, which
  comes whether or not somebody reads, and `buf` then the buffer of `UnixSocketConnection`.
- `EndOfFile` is a read that returns 0, or the `close` event; `Dropped` is what the receiver's own
  writes may find out earlier; `Leave` is its own `close()`.

Assumed: one user per end at a time, and a user that closes the connection after a failed read. The
C++ client and both servers' loops are such users. The TypeScript client is one until a call times
out or meets a frame above the limit, after which the connection stays open. `JsClient` has the
first, and what a reader out of step makes of the stream; its server keeps to the limit, so the
frame above it is in neither module.

### Proto, Wire and the code

The generated classes repeat the same code for every message; `Proto` has it once, over a list of
fields with their kinds, and the lists. A message is the function from its *own* properties to
values, since `encode` writes what is an own property, 0 and empty included, `decode` sets what it
reads, and the prototype holds the default (`Zero`). A wire unit is a field number with its
contents. `Wire` has what each endpoint puts into an envelope (`TsRequest`, `TsResponse`, `TsError`,
`CppEnvelope`) and takes out; the C++ serializer is external and by the rules of Protocol Buffers
leaves out what has its default; a third writer reverses the fields, repeats one and adds one nobody
knows. `Meaning` is the reference: what the properties say, however the object was built.

Left out: the encoding of numbers as bytes, numbers above 2^53 as JavaScript numbers, invalid UTF-8,
a field with the wire type of another, `getTypeUrl`, and `fromObject` of an instance (which returns
it). `proto.d.ts` declares the same classes.

### Endpoint and the code

`path` is the socket the file belongs to. `start()` unlinks, binds and listens (`StartCalls`);
`stop()` closes and unlinks in C++, and in TypeScript libuv unlinks, closes, and the callback of
`server.close()` unlinks again (`StopCalls`). Each call is one step of its process, and processes
interleave; a `Crash` leaves the file. `disturbed` is history: another process has begun to start
or stop during this run of the process, or was at it when it began. Abstracted: whether
listener or connections close first, threads that `close()` does not wake (`CppServer`), and how a
client comes to dial again (`CppClient`, `JsClient`).

## Runs

| Run | Question | Bounds | Result |
|---|---|---|---|
| `cpp_client` | Is the C++ client safe and does every call return, while the server answers? | 2 threads, 3 calls, 3 connections, 2 faults; no reconnect, 0 and 2 attempts | holds, 585 460 states |
| `cpp_client_unlimited` | Do calls return once the server is up, with unlimited attempts? | 2 threads, 2 calls, 3 connections, 1 fault | violated |
| `cpp_server` | Is the C++ server safe over starts and stops; does `stop()` return and is nobody forgotten while descriptors suffice, if `close()` wakes threads? | 1 user, 2 starts, 2 clients, limit 1, 3 descriptors, 2 requests per client | holds, 157 277 states |
| `cpp_server_linux` | Does `stop()` return if it does not? | 1 user, 2 clients | violated |
| `cpp_server_descriptors` | Does a server whose clients have left accept the next one? | 2 clients, limit 1, 3 descriptors | violated |
| `js_client` | Is the TypeScript client safe, and does no call wait for ever, whatever the user does? | 2 callers, 2 calls, 2 connections, 2 timeouts, 1 disconnect, 1 fault; no reconnect, 2 and unlimited attempts | holds, 457 340 states |
| `js_client_disciplined` | What more holds for a careful user? | 2 callers, 3 calls, 3 connections, 2 faults, no timeout, no disconnect | holds, 55 033 states |
| `js_client_stale_close` | Is `isConnected` accurate with overlapping `connect()`? | 2 connections, 1 fault | violated |
| `js_server` | Is the TypeScript server safe, and does `stop()` resolve, for a user who awaits? | 2 listeners, 3 clients, 1 request per client | holds, 160 401 states |
| `dispatch` | Does every call find a handler that was there, and its caller learn what became of it? | 1 call, 2 services, 2 methods, 2 registrations besides the built-in | holds, 96 369 states |
| `wire` | Do frames arrive whole, once and in order, and mean to the reader what the writer meant? | 2 frames, 3 senders, 2 receivers, limit 8, kernel buffer 3; every class, three ways to build a body, frames at the limit and above | holds, 123 363 states |
| `endpoint` | Does a server left alone own its path, and do clients come back to it, whatever ran there before? | 1 C++ and 2 TypeScript servers, 2 starts each, 2 clients | holds, 105 999 states |

Why the bounds are enough for the interesting cases. Two threads give one that calls and one that
interferes. Three connections let a call fail on one, be resent on a second, and a later call use a
third; two faults let the resend fail too. Three calls put one before, one during and one after a
loss. Two attempts distinguish the first, the last and the exhausted one. In `js_client`, two calls
are a timed-out one and the one that meets its leftover read, two connections the old and the new;
timeouts are never exhausted there, since each call times out at most once. In `cpp_server` two
clients at a limit of one are one too many, also while the first leaves, and the second start meets
what the first left (descriptors of departed clients); three descriptors are the listener's and
two for clients, so that the next `accept()` finds none, the accept thread ends on a running server,
and `stop()` has to cope with that; two requests let a client be served, and then lost in the
middle of the next. In `js_server` the second listener meets handlers
and clients of the first, and three clients can stand at three different places when `stop()` comes.
In `dispatch` calls share only the tables, so one call among registrations shows what any call may
see; the theorems are for any number. In `wire` the second frame is what a torn or joined first one
would damage, the kernel buffer is smaller than any frame with a payload so that both ends take
several turns, and 64-bit numbers are taken modulo 16. In `endpoint` three servers let two disturb
each other and a third come after them, and two starts let one meet the file its own last run left.
The bounds stand in the guards (`MaxCalls`, `MaxConns`, `MaxFaults`, `MaxTimeouts`,
`MaxDisconnects`, `MaxStarts`, `MaxListens`, `MaxRequests`, `MaxSent`); beyond `MaxConns` a dial
fails as `socket()` does when descriptors are spent, and the clients' error paths run.

Every property has at least one change to the code (an operator named `..._...` beside the one it
replaces) under which TLC finds it violated.

### Fairness

- `cpp_client`: strong fairness of each thread's steps: a thread that asks for `mutex_` again
  and again gets it (it is released during every sleep and callback); weak fairness of handler
  threads: the server answers what it reads. Without the latter a call need not return
  (`EveryCallReturns` fails under `ClientFairSpec`): it has no timeout, see below.
- `js_client`: the event loop turns (`EventLoopFairness`): continuations, timers, callbacks of
  connects, and `close` after `error` happen. Nothing is asked of the server. The callback of a write
  (`Written`) is therefore under no fairness: `send()` is awaited outside of the timeout
  (`client.ts:137`), and a peer that stops reading until the socket buffer is full keeps the call
  there. `EveryWaitEnds` is about the other awaits of a call, each of which ends; that every call ends
  is false of the code.
- `cpp_server`: weak fairness of the accept thread, of each handler thread and of each user's
  steps inside `stop()`: threads run, and a service returns. Nothing is asked of the clients.
  Deadlock is not checked: a server whose clients are used up waits, as it should.
- `js_server`: the event loop turns: listeners settle, connections are taken, reads that can go on
  do, writes and closes call back. A handler need not settle (`Respond` is under no fairness) and
  nothing is asked of clients.
- `wire`: weak fairness of writes, of reads and of the request for the next frame: the kernel moves
  what it has room for, threads and the event loop go on, and a receiver asks for the next frame
  (handler threads and dispatch loops do nothing else). Sending, closing and leaving are under none.
- `endpoint`: weak fairness of the system calls of a process in `start()` or `stop()`, and of the
  dialing of clients, as their reconnect loops do. Starts, stops and crashes are under none.
- A server that restarts is under no fairness; `CallsReturnOnceServerIsUp` and the unlimited
  case of `EveryWaitEnds` have "up for good" as premise, the second (`DialSucceeds`) also that the
  loop, when it dials, can make a socket: with two connections it can after the loss of the first.
  A `connect()` that refused while the client reconnects (`CanDial_NotWhileReconnecting`) breaks
  that case alone, since limited attempts end anyway.
- `NoneWaitsForever` has as premise that `accept()` is never called when the descriptors are used up
  (`DescriptorsSuffice`). Otherwise the accept loop ends on a running server (`server.cpp:91`),
  and a client that connects later waits until the user stops the server. With the bounds of
  `cpp_server` the loop does end so, but no third client is there to wait; with a third one, three
  descriptors and one start, TLC refutes the property without the premise and confirms it with it.

### What the violated runs show

1. `cpp_client_unlimited`: thread A waits in its back-off, thread B connects, and A's attempts
   all fail with `already_connected`, for ever with unlimited attempts (README.md:194). With a
   finite number it fails with `not_connected` on a connected client.
2. `js_client_stale_close`: two overlapping `connect()` both pass the check; the end of the first
   connection makes `isConnected` false while the second is open
   (`sdk/js/README.md:109`). A `disconnect()` followed by a `connect()` has the same effect.
3. `cpp_server_linux`: `stop()` relies on `close()` alone to unblock `accept()` and `read()`
   (`server.cpp:60`, `framing.h:38`, `server_test.cpp:229`). Where that does not wake a thread,
   `stop()` stays in `accept_thread_.join()`, unless a client connects between close and unlink.
4. `cpp_server_descriptors`: each client that disconnects costs the server one descriptor for good;
   `accept()` fails when they are spent, and the loop ends with `is_running()` true
   (`server_test.cpp:197`).

Other disagreements met while modelling, without a run of their own:

- `docs/WIRE_PROTOCOL.md:131` promises a timeout that closes the connection. In C++
  `ClientConfig::timeout` (`client.h:41`) is never read. A TypeScript call that times out does not
  close its connection, and the read it leaves behind (`TimeOut` of `JsClient`) takes the header of
  the late response, so that the next call reads the payload as a header.
- "Resolves once the server is bound and accepting" (`server.ts:100`): two `start()` that overlap
  leave a listener that nobody can close, without a file, and a `start()` that does not wait for a
  `stop()` resolves and then loses its socket file and its `socketServer` to the end of that
  `stop()` (`js_server` with `Awaits = FALSE` violates `Reachable`).
- A zero-length frame is a "no-op / keepalive" (`docs/WIRE_PROTOCOL.md:45`), but both servers
  answer it with `NOT_FOUND` and id 0.
- A frame above the limit must close the connection, and so must a request id mismatch
  (`docs/WIRE_PROTOCOL.md:76-78`); the TypeScript client does neither, and is out of step with the
  stream after the first; the C++ client does not do the second.
- A malformed request is answered with `INTERNAL` by both servers, not `INVALID_ARGUMENT`
  (`docs/WIRE_PROTOCOL.md:142`; `Result` of `Dispatch`). `CallerIsTold` leaves the status of that case
  open: it asks that the caller takes it neither for a success nor for an absent method.
- A server that stops unlinks the file of one that replaced it on the path, which is why `OwnsPath`
  has the premise `~disturbed`.
- `fromObject` drops the unknown name of an enum without an error (`Known` of `Proto`).
- "Called once" (`unix-socket.ts:17`): an error is followed by a close and calls it twice. The
  socket is never paused (`unix-socket.ts:9-10`). `disconnect()` closes nothing (`client.ts:91`).
- The lock is not released during connect attempts (`client.h:95`).
- "stop() blocks until all threads have exited" (`server.h:34`), but one that finds another in
  progress returns at once (`StopBegins`).
- "Blocks until all connections drained" (`docs/ROADMAP.md:490`, also 842), but both servers cut
  their connections, and the TypeScript `stop()` does not wait for handlers that still run.

## Proofs

`CppClient_proof` proves, from `ClientAssumption` alone (`None` is not a thread, the
configurations are configurations, the bounds are naturals):

- `Invariant`: `Spec => []IndInv`; from it `TypeCorrect`, `CodecNeverNull`, `RunsAtMostOnce`,
  `ResponsesCorrelated`, `ConnectionQuietBetweenCalls`, `NotifiesOnce`;
- `ImplementsContract`: `Spec => ContractSpec`, the refinement of `RpcCall` under the mapping
  `issued <- nextId - 1, status <- outcome, runs <- executed`;
- `IdsGrow`: the action property `RequestIdsIncrease`.

None of these properties is inductive. At-most-once holds because a request is written a second
time only if the server never got it whole, and that depends on where every request is, so
`IndInv` says it: a request is at most once deliverable, on one connection, and then has not run
(`ExecInv`); one that may still be written was never deliverable (`UnsentInv`); a connection
carries nothing, a header, or one frame (`FrameInv`); the connection in use carries exactly the
request or response of the thread that holds the mutex (`ChannelInv`); an id belongs to one
thread (`IdInv`); the mutex is held exactly in the locked places (`MutexInv`, `CodecInv`). Each
action has a lemma, grouped by what it changes; the step theorem splits `Next` into them. The
refinement then needs little: `SrvExecute` is `Execute` because of `ExecInv`, `RecvReply` is
`Succeed` because of `ChannelInv`. `IdsGrow` needs one thing more (`OrderInv`): whatever is on its
way on a connection is newer than what was read there. A fresh id is newer than all others, and an
older one is written again only on a connection that has read nothing (`DialOkOrder`).

`CppServer_proof` proves, from `ServerAssumption` alone (the bounds are naturals), `TypeCorrect`,
`LimitHolds` and `ClientsAreTold` for any number of users, and `StopIsComplete` for one user
(`OneUser`; of two concurrent `stop()` the second returns at once, so with two it is false); all
hold whether or not `close()` wakes. The limit needs `LimitInv`: while the accept thread stands
between check and admission the list can only shrink. `ClientsAreTold` needs `DescriptorInv`:
whenever a client is there and the server's descriptor of it open, `connected_` is set, so that
whoever closes the connection does close it; that is where the lost descriptors of departed clients
are exempt. `StopIsComplete` needs to know who is in `stop()` and whether the accept thread is still
there (`LifeInv`), that a backlog belongs to a listening socket and a running thread to the list to
be joined (`OwnerInv`), and what each point of `stop()` has behind it (`StopInv`).

`Dispatch_proof` proves, from `DispatchAssumption` alone, `CallersAreTold` and `HandlersAreKept`.
The first needs to know that a handler which was there when the call was made is still there when
the server searches, and is what the search finds (`StillThere`), and what the response then says
(`ReplyInv`).

`Framing_proof` proves `IsAChannel`, `Spec => ChannelSpec`, from `FramingAssumption` alone (limit
and capacity are naturals, payloads are finite sequences). The invariant speaks of the *tape*, all
units of all frames ever sent in one sequence, which no variable holds: frame `i` ends at `ends[i]`
of it (`Laid`), the program got everything before `used` (`Position`), and what is buffered, in the
kernel and still to be written lie behind it in this order (`Flow`). Every step except `Send` leaves
the tape alone and moves a boundary on it, so a read of a header finds one (`HeaderAhead`) and a
read of a payload its frame (`PayloadAhead`), wherever the bytes were cut. After the sender has
closed, the end of the tape is missing, and nothing else.

`Endpoint_proof` proves `PathIsOwned` for any number of servers, clients and restarts, from
`EndpointAssumption` (no process is of both SDKs). The invariant behind it: while an undisturbed
server starts or runs, no other process has a system call left to make (`Quiet`), so the path
is what the server's own last call made of it (`Path`).

`JsClient_proof` proves all invariants of the run `js_client` (`TypeCorrect`,
`CodecStandsOnOpenSocket`, `FramesStayWhole`, `CallsAreWoken`, `LoopGoesOn`) and the refinement of
`RpcCall` (`ImplementsContract`) without any assumption on the user: overlapping `connect()`,
`disconnect()`, timeouts and calls in any order. Of the constants only `ClientAssumption` is assumed. The
invariant `IInv` has the types and

- `DeadIsClosed`: a socket that has ended takes nothing to the server any more;
- `CodecIsOpen`, `OneInFlight` and `KeepsReconnecting`, which are inductive together with the types
  because whatever ends a socket does all of its work in one task;
- `Wakes`: continuations stand on open sockets, and a call that waits has one, or a waiting read.
  The work is in `Data` and `Resume`, where a read moves between `waiters` and `micro`, and in the
  sum of what the waiting reads need (`NeedFacts`);
- `Frames`: a connection that ends in a header has a call which writes the payload next, on that
  connection, also when `codec` has changed since.

The contract needs `CInv` besides: a call is pending exactly while it is in flight (`Pending`), a
request whose header is on its way has not run and has one header on one connection (`RunsOnce`),
and every word of a response, wherever it is (on its way, in the buffer, in a read that goes on),
belongs to a request that ran (`RanBefore`). So `SrvServe` is `Execute`, and a read that ends with
"ok" is `Succeed`, whatever a call that timed out left behind.

`JsClient_disciplined_proof` proves the invariants of `js_client_disciplined`: `ConnectedIsAccurate`
under `OneConnect` (the user has one `connect()` at a time, none while the loop runs, and no
`disconnect()`), and `OneRequestAtATime` under `NoTimeout` as well. These are the bounds of that run,
and none can go: two `connect()`, or `disconnect()` and `connect()`, leave two sockets
(`js_client_stale_close`), and a call that times out leaves its read and its response. Faults,
reconnects, calls that wait for the loop and the number of connections stay arbitrary. `Single` says
that one socket is alive, and that the loop runs from the `error` of a socket to its `close`, which
is what keeps the `close` of the old socket from resetting the codec of a new one. `InOrder` says
where the request of the call in flight is: partly written, at the server, in the socket or in the
buffer, read up to its header, read, or lost with the connection (`Position`), and that nothing
is there without a call in flight.

`JsServer_proof` proves `OpenSocketsAreActive` whatever the user does, from `ConnInv`, which says of
each connection what socket, `connected`, loop and `activeConnections` may be together. For a user
who awaits `start()` and `stop()` (`Awaits`, a constant of the model, true in the run `js_server`) it
proves `OneListener`, and from it `ServerIsReachable` and `StopIsComplete`: `LifeInv` says that
`socketServer` is the one listener alive, that the file and all sockets are its, and that no client
waits to be taken once it is closing. Without `Awaits` these are false (see above, `server.ts:100`).

Only model-checked: liveness (`EveryCallReturns`, `EveryWaitEnds`, `StopReturns`, `StopResolves`,
`SlotReclaimed`, `NoneWaitsForever`, `EverythingArrives`, `ClientsComeBack`), which TLAPS cannot do
under fairness; and `Understood`, whose operators fold over the fields of a message, so that a proof
for every message would be an induction over data.

## Plan

Done: all modules above; every safety property of the passing runs but `Understood` has its theorem.

What could be added: `Understood` for messages of a fixed number of fields, each field's conversion
proved by itself; the dispatcher and the registry shared by handler threads of a `CppServer`.

A composition of the clients with `Framing` was considered and left out: a connection of `CppClient`
carries at most one frame at a time (`FrameInv`, proved), so the channel that `Framing_proof` gives
is all it relies on.

## Not modelled, and why

Logging and error tables (no behaviour), the Windows named pipe transport and the factory (a second
transport behind the same interface), generated C++ code (external in `Wire`), the server builder
(collects a configuration), benchmarks, examples, build scripts. Real time (delays and timeouts
happen at any time), memory, and undefined behaviour outside the modelled locks are out of scope.
