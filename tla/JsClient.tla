------------------------------ MODULE JsClient ------------------------------
(***************************************************************************)
(* The TypeScript RPC client (sdk/js/src/rpc/client.ts) on its stack: the  *)
(* framing, the socket wrapper with its buffer and its waiting readers     *)
(* (transport/unix-socket.ts), Node's event loop, and the server at the    *)
(* other end.                                                              *)
(*                                                                         *)
(* JavaScript runs one task at a time: a socket event, a timer or code of  *)
(* the user is one action, enabled when the queue of promise continuations *)
(* (micro) is empty; the continuations it leaves run next, one per Resume, *)
(* before anything else.  A continuation that only moves one call, and     *)
(* that no other continuation can observe, is part of its action.          *)
(*                                                                         *)
(* A response is three words: its header, and a payload of two, so that a  *)
(* reader which is not at the start of a frame is told from one which is.  *)
(***************************************************************************)
EXTENDS Integers, Sequences, FiniteSets

CONSTANTS
  Callers,        \* the tasks of the user that make calls, one call at a time each
  Configs,        \* ReconnectOptions to consider: given or not, and maxAttempts (< 0: Infinity)
  Disciplined,    \* the user calls connect() only when it has no connect() pending and nothing reconnects
  MaxCalls,       \* bound: calls ever made
  MaxConns,       \* bound: connections ever opened; beyond it socket() fails
  MaxTimeouts,    \* bound: calls that time out
  MaxDisconnects, \* bound: calls of disconnect()
  MaxFaults       \* bound: connections dropped by the server, and its stops and crashes

ConfigSet == [reconnect : BOOLEAN, maxAttempts : Int]

ASSUME ClientAssumption ==
  /\ Configs \subseteq ConfigSet
  /\ Disciplined \in BOOLEAN
  /\ {MaxCalls, MaxConns, MaxTimeouts, MaxDisconnects, MaxFaults} \subseteq Nat

VARIABLES
  config,       \* reconnectOpts
  codec,        \* this.codec: the connection it stands on, or 0 (null)
  nextRequestId,
  callInFlight,
  retry,        \* scheduleReconnect's loop: "off" (reconnecting is false), "sleep" or "dial"
  attempt,      \* its loop counter
  pc, id,       \* where each caller's call is, and its request id
  wconn,        \* the connection a call is writing to, or 0
  outcome,      \* by request id: how call() ended
  sock,         \* by connection: the client's socket
  buffer,       \* by connection: words received and not read
  waiters,      \* by connection: reads that wait for more words
  micro,        \* pending promise continuations of reads
  up, opened,   \* a server listens; connections opened so far
  srv, toSrv, toCli, \* by connection: the server's end, the words on their way to it and back
  serving,      \* by connection: the request it has handled and not answered, or 0
  executed,     \* by request id: how often a handler ran
  begun, timeouts, disconnects, faults \* spent bounds

calls == <<callInFlight, pc, id, wconn, outcome>>
reads == <<buffer, waiters, micro>>
loop == <<retry, attempt>>
net == <<up, opened, srv, toSrv, toCli, serving, executed, faults>>
bounds == <<begun, timeouts, disconnects>>
vars == <<config, codec, nextRequestId, loop, calls, sock, reads, net, bounds>>

Conns == 1..MaxConns
Ids == 1..(nextRequestId - 1)
Sending == {"send_header", "send_payload", "unsent"}
InCall == Sending \cup {"recv"}
Alive == {"dialing", "redialing", "open"}

Word(p, i) == [part |-> p, id |-> i]
Response(i) == <<Word("first", i), Word("rest", i)>>

\* The call that reads for request i, if it has not ended: else the read goes on for nobody.
CallersOf(i) == {k \in Callers : pc[k] = "recv" /\ id[k] = i}

\* A task may start; a timer may fire (not between a socket's 'error' and its 'close').
TaskMayRun == micro = <<>>
TimerMayFire == TaskMayRun /\ \A c \in Conns : sock[c] # "errored"

Init ==
  /\ config \in Configs
  /\ codec = 0 /\ nextRequestId = 1 /\ callInFlight = FALSE
  /\ retry = "off" /\ attempt = 0
  /\ pc = [k \in Callers |-> "idle"]
  /\ id = [k \in Callers |-> 0]
  /\ wconn = [k \in Callers |-> 0]
  /\ outcome = [i \in 1..0 |-> "pending"]
  /\ sock = [c \in Conns |-> "none"]
  /\ buffer = [c \in Conns |-> <<>>]
  /\ waiters = [c \in Conns |-> <<>>]
  /\ micro = <<>>
  /\ up \in BOOLEAN
  /\ opened = 0
  /\ srv = [c \in Conns |-> "unused"]
  /\ toSrv = [c \in Conns |-> <<>>]
  /\ toCli = [c \in Conns |-> <<>>]
  /\ serving = [c \in Conns |-> 0]
  /\ executed = [i \in 1..0 |-> 0]
  /\ begun = 0 /\ timeouts = 0 /\ disconnects = 0 /\ faults = 0
-----------------------------------------------------------------------------
(* connect(), disconnect() and the loss of a connection. *)

\* (mutant: connect() refuses while the client reconnects)
CanDial_NotWhileReconnecting == codec = 0 /\ retry = "off" /\ up /\ opened < MaxConns

CanDial == codec = 0 /\ up /\ opened < MaxConns

\* createConnection(): the kernel accepts at once, the callback comes later.
Dial(s) ==
  /\ opened' = opened + 1
  /\ sock' = [sock EXCEPT ![opened + 1] = s]
  /\ srv' = [srv EXCEPT ![opened + 1] = "open"]

\* The user calls connect().  One that throws changes nothing.
Connect ==
  /\ TaskMayRun
  /\ CanDial
  /\ Disciplined => retry = "off" /\ \A c \in Conns : sock[c] # "dialing"
  /\ Dial("dialing")
  /\ UNCHANGED <<config, codec, nextRequestId, loop, calls, reads, bounds>>
  /\ UNCHANGED <<up, toSrv, toCli, serving, executed, faults>>

\* The connection is made.  connect() does not look at codec again.
Connected(c) ==
  /\ TimerMayFire
  /\ sock[c] \in {"dialing", "redialing"}
  /\ sock' = [sock EXCEPT ![c] = "open"]
  /\ codec' = c
  /\ retry' = IF sock[c] = "redialing" THEN "off" ELSE retry
  /\ attempt' = IF sock[c] = "redialing" THEN 0 ELSE attempt
  /\ UNCHANGED <<config, nextRequestId, calls, reads, net, bounds>>

\* disconnect() finds no close() on the codec: it only forgets the connection.
Disconnect ==
  /\ TaskMayRun
  /\ codec # 0
  /\ disconnects < MaxDisconnects
  /\ disconnects' = disconnects + 1
  /\ codec' = 0
  /\ UNCHANGED <<config, nextRequestId, loop, calls, sock, reads, net, begun, timeouts>>

Unlimited == config.maxAttempts < 0
MayRetry == config.reconnect /\ config.maxAttempts # 0

\* call() ends with v for the callers in K: its finally block runs.
Finish(K, v) ==
  /\ pc' = [k \in Callers |-> IF k \in K THEN "idle" ELSE pc[k]]
  /\ id' = [k \in Callers |-> IF k \in K THEN 0 ELSE id[k]]
  /\ wconn' = [k \in Callers |-> IF k \in K THEN 0 ELSE wconn[k]]
  /\ outcome' = [i \in Ids |-> IF \E k \in K : id[k] = i THEN v ELSE outcome[i]]
  /\ callInFlight' = (callInFlight /\ K = {})

\* The calls that wait on connection c, for words or for the callback of a write.
Readers(c) == UNION {CallersOf(waiters[c][n].id) : n \in DOMAIN waiters[c]}
Writers(c) == {k \in Callers : pc[k] \in Sending /\ wconn[k] = c}

\* (mutant: the waiting reads are forgotten, not rejected)
RejectWaiters_Forgets(c) ==
  waiters' = [waiters EXCEPT ![c] = <<>>] /\ Finish(Writers(c), "error")

\* Every read and every write that is pending on c fails, and with it the call that made it.
RejectWaiters(c) ==
  waiters' = [waiters EXCEPT ![c] = <<>>] /\ Finish(Readers(c) \cup Writers(c), "error")

\* (mutant: only the connection in use restarts the loop)
ScheduleReconnect_IfCurrent(c) ==
  IF retry = "off" /\ MayRetry /\ codec = c THEN retry' = "sleep" /\ attempt' = 0
                                            ELSE UNCHANGED loop

\* scheduleReconnect(), unless it runs already.
ScheduleReconnect(c) ==
  IF retry = "off" /\ MayRetry THEN retry' = "sleep" /\ attempt' = 0
                               ELSE UNCHANGED loop

\* (mutant: only 'close' resets codec)
ResetCodec_OnClose(s) == codec' = IF s = "closed" THEN 0 ELSE codec

ResetCodec(s) == codec' = 0

\* The 'error' or 'close' handler of connection c, with the onDisconnect of connect():
\* it resets codec, whether or not codec still stands on c.
Lost(c, s) ==
  /\ sock' = [sock EXCEPT ![c] = s]
  /\ RejectWaiters(c)
  /\ ResetCodec(s)
  /\ ScheduleReconnect(c)
  /\ toCli' = [toCli EXCEPT ![c] = <<>>]
  /\ UNCHANGED <<config, nextRequestId, buffer, micro, bounds>>
  /\ UNCHANGED <<up, opened, srv, toSrv, serving, executed, faults>>

\* 'close', after the end of the stream when no write is pending, or after 'error'.
SocketClose(c) ==
  /\ TaskMayRun
  /\ \/ sock[c] = "open" /\ srv[c] = "closed" /\ toCli[c] = <<>> /\ Writers(c) = {}
     \/ sock[c] = "errored"
  /\ Lost(c, "closed")

\* 'error': a write to, or a read from, an end the server has closed.  A failed write
\* destroys the socket, so 'error' comes before its call goes on.
SocketError(c) ==
  /\ TaskMayRun
  /\ sock[c] = "open" /\ srv[c] = "closed"
  /\ Lost(c, "errored")
-----------------------------------------------------------------------------
(* scheduleReconnect()'s loop and waitForReconnect()'s poll. *)

\* (mutant: the loop counter does not move)
NextAttempt_NotCounted == attempt

NextAttempt == IF Unlimited THEN attempt ELSE attempt + 1
\* (mutant: one attempt too many)
LastAttempt_OffByOne == ~Unlimited /\ attempt >= config.maxAttempts

LastAttempt == ~Unlimited /\ attempt + 1 >= config.maxAttempts

\* (mutant: the loop does not await connect())
WhileDialing_NotAwaited == "off"

\* The loop waits for the connection it dials; reconnecting stays true.
WhileDialing == "dial"

\* The back-off timer fires: connect() dials, or throws (also when the user has connected).
RetryTick ==
  /\ TimerMayFire
  /\ retry = "sleep"
  /\ \/ /\ CanDial
        /\ Dial("redialing")
        /\ retry' = WhileDialing
        /\ UNCHANGED attempt
     \/ /\ ~CanDial
        /\ attempt' = IF LastAttempt THEN 0 ELSE NextAttempt
        /\ retry' = IF LastAttempt THEN "off" ELSE "sleep"
        /\ UNCHANGED <<opened, sock, srv>>
  /\ UNCHANGED <<config, codec, nextRequestId, calls, reads, bounds>>
  /\ UNCHANGED <<up, toSrv, toCli, serving, executed, faults>>
-----------------------------------------------------------------------------
(* call(). *)

\* The socket takes a part of a frame while the server's end is open.
Write(k, c, p, i) ==
  /\ wconn' = [wconn EXCEPT ![k] = c]
  /\ toSrv' = IF srv[c] = "open" THEN [toSrv EXCEPT ![c] = Append(@, Word(p, i))] ELSE toSrv
  /\ pc' = [pc EXCEPT ![k] = IF srv[c] # "open" THEN "unsent"
                             ELSE IF p = "header" THEN "send_header" ELSE "send_payload"]

\* (mutant: call() looks at callInFlight before it waits, not after)
Busy_CheckedBeforeWaiting(k) == callInFlight /\ pc[k] = "idle"

Busy(k) == callInFlight

\* call() with a codec, up to its first write; it throws when another call is in flight.
Start(k) ==
  \/ /\ ~Busy(k)
     /\ callInFlight' = TRUE
     /\ id' = [id EXCEPT ![k] = nextRequestId]
     /\ nextRequestId' = nextRequestId + 1
     /\ outcome' = Append(outcome, "pending")
     /\ executed' = Append(executed, 0)
     /\ Write(k, codec, "header", nextRequestId)
  \/ /\ Busy(k)
     /\ pc' = [pc EXCEPT ![k] = "idle"]
     /\ UNCHANGED <<nextRequestId, callInFlight, id, outcome, executed, wconn, toSrv>>

\* call() begins.  Without a codec it waits, or throws, which changes nothing.
Begin(k) ==
  /\ TaskMayRun
  /\ pc[k] = "idle"
  /\ begun < MaxCalls
  /\ begun' = begun + 1
  /\ \/ codec # 0 /\ Start(k)
     \/ /\ codec = 0 /\ config.reconnect
        /\ pc' = [pc EXCEPT ![k] = "wait"]
        /\ UNCHANGED <<nextRequestId, callInFlight, id, outcome, executed, wconn, toSrv>>
  /\ UNCHANGED <<config, codec, loop, sock, reads, timeouts, disconnects>>
  /\ UNCHANGED <<up, opened, srv, toCli, serving, faults>>

\* The poll of waitForReconnect() settles: connected, or nothing reconnects any more.
Poll(k) ==
  /\ TimerMayFire
  /\ pc[k] = "wait"
  /\ \/ codec # 0 /\ Start(k)
     \/ /\ codec = 0 /\ retry = "off"
        /\ pc' = [pc EXCEPT ![k] = "idle"]
        /\ UNCHANGED <<nextRequestId, callInFlight, id, outcome, executed, wconn, toSrv>>
  /\ UNCHANGED <<config, codec, loop, sock, reads, bounds>>
  /\ UNCHANGED <<up, opened, srv, toCli, serving, faults>>

\* A write succeeded: the payload follows the header, recv() follows the payload,
\* on whatever codec is now; without one the call throws.
Written(k) ==
  /\ TaskMayRun
  /\ \/ /\ pc[k] = "send_header"
        /\ Write(k, wconn[k], "payload", id[k])
        /\ UNCHANGED <<callInFlight, id, outcome, micro>>
     \/ /\ pc[k] = "send_payload" /\ codec # 0
        /\ pc' = [pc EXCEPT ![k] = "recv"]
        /\ wconn' = [wconn EXCEPT ![k] = 0]
        /\ micro' = <<[conn |-> codec, id |-> id[k], step |-> "start", got |-> <<>>]>>
        /\ UNCHANGED <<callInFlight, id, outcome, toSrv>>
     \/ /\ pc[k] = "send_payload" /\ codec = 0
        /\ Finish({k}, "error")
        /\ UNCHANGED <<toSrv, micro>>
  /\ UNCHANGED <<config, codec, nextRequestId, loop, sock, buffer, waiters, bounds>>
  /\ UNCHANGED <<up, opened, srv, toCli, serving, executed, faults>>

\* (mutant: a call that times out sends its request again)
TimeOut_Resends(k) ==
  /\ TimerMayFire
  /\ pc[k] = "recv" /\ codec # 0
  /\ timeouts < MaxTimeouts
  /\ timeouts' = timeouts + 1
  /\ Write(k, codec, "header", id[k])
  /\ UNCHANGED <<config, codec, nextRequestId, callInFlight, id, outcome, loop, sock, reads>>
  /\ UNCHANGED <<up, opened, srv, toCli, serving, executed, faults, begun, disconnects>>

\* withTimeout() gives up: the connection stays, and so does the read.
TimeOut(k) ==
  /\ TimerMayFire
  /\ pc[k] = "recv"
  /\ timeouts < MaxTimeouts
  /\ timeouts' = timeouts + 1
  /\ Finish({k}, "timeout")
  /\ UNCHANGED <<config, codec, nextRequestId, loop, sock, reads, net, begun, disconnects>>
-----------------------------------------------------------------------------
(* Reading: recvFrame() over recv(), the 'data' handler, and continuations. *)

\* recv(n) of reader m: the buffer first, even when others wait; else it waits.
\* (It is never called on a closed socket: see CodecIsOpen.)
Read(m, s, n) ==
  LET c == m.conn IN
  /\ IF Len(buffer[c]) >= n
     THEN /\ buffer' = [buffer EXCEPT ![c] = SubSeq(@, n + 1, Len(@))]
          /\ micro' = Append(Tail(micro),
                        [m EXCEPT !.step = s, !.got = SubSeq(buffer[c], 1, n)])
          /\ UNCHANGED waiters
     ELSE /\ waiters' = [waiters EXCEPT ![c] = Append(@, [id |-> m.id, step |-> s, need |-> n])]
          /\ micro' = Tail(micro)
          /\ UNCHANGED buffer
  /\ UNCHANGED calls

\* The read ends; its value counts if its call still waits.
EndRead(m, v) ==
  /\ micro' = Tail(micro)
  /\ Finish(CallersOf(m.id), v)
  /\ UNCHANGED <<buffer, waiters>>

\* What a header word says of the payload's length: the first word of a payload
\* is more than MAX_FRAME_SIZE, a later one can be any length or too much.
Lengths(w) == CASE w.part = "header" -> {2} [] w.part = "first" -> {} [] w.part = "rest" -> {1, 2}
MayBeTooLarge(w) == w.part # "header"

\* Envelope.decode() and the check of the request id.
Decoded(m) == IF m.got = Response(m.id) THEN "ok" ELSE "garbled"

\* The next continuation of recvFrame() runs.
Resume ==
  /\ micro # <<>>
  /\ LET m == Head(micro) IN
     \/ m.step = "start" /\ Read(m, "header", 1)
     \/ m.step = "header" /\ \E n \in Lengths(m.got[1]) : Read(m, "payload", n)
     \/ m.step = "header" /\ MayBeTooLarge(m.got[1]) /\ EndRead(m, "garbled")
     \/ m.step = "payload" /\ EndRead(m, Decoded(m))
  /\ UNCHANGED <<config, codec, nextRequestId, loop, sock, net, bounds>>

\* How many words the first n waiting reads of connection c need: each needs one or two.
Need(c, n) == n + Cardinality({j \in 1..n : waiters[c][j].need = 2})

\* 'data': n words arrive and drainWaiters() serves the reads in order, as far as they go.
Data(c, n) ==
  LET words == buffer[c] \o SubSeq(toCli[c], 1, n) IN
  \E served \in 0..Len(waiters[c]) :
  /\ TaskMayRun
  /\ sock[c] = "open"
  /\ Need(c, served) <= Len(words)
  /\ served < Len(waiters[c]) => Need(c, served + 1) > Len(words)
  /\ toCli' = [toCli EXCEPT ![c] = SubSeq(@, n + 1, Len(@))]
  /\ buffer' = [buffer EXCEPT ![c] = SubSeq(words, Need(c, served) + 1, Len(words))]
  /\ waiters' = [waiters EXCEPT ![c] = SubSeq(@, served + 1, Len(@))]
  /\ micro' = [j \in 1..served |->
                 [conn |-> c, id |-> waiters[c][j].id, step |-> waiters[c][j].step,
                  got |-> SubSeq(words, Need(c, j - 1) + 1, Need(c, j))]]
  /\ UNCHANGED <<config, codec, nextRequestId, loop, calls, sock, bounds>>
  /\ UNCHANGED <<up, opened, srv, toSrv, serving, executed, faults>>
-----------------------------------------------------------------------------
(* The server: on each connection one request at a time.  The client never  *)
(* closes a socket itself, so the server never reads end of file.           *)

ServerOnly == <<config, codec, nextRequestId, loop, calls, sock, reads, bounds>>

\* It reads a whole frame and runs the handler.
SrvServe(c) ==
  /\ srv[c] = "open" /\ serving[c] = 0
  /\ Len(toSrv[c]) >= 2
  /\ serving' = [serving EXCEPT ![c] = toSrv[c][2].id]
  /\ toSrv' = [toSrv EXCEPT ![c] = SubSeq(@, 3, Len(@))]
  /\ executed' = [executed EXCEPT ![toSrv[c][2].id] = @ + 1]
  /\ UNCHANGED <<ServerOnly, up, opened, srv, toCli, faults>>

\* It sends the response.
SrvReply(c) ==
  /\ srv[c] = "open" /\ serving[c] # 0
  /\ toCli' = [toCli EXCEPT ![c] = Append(@, Word("header", serving[c])) \o Response(serving[c])]
  /\ serving' = [serving EXCEPT ![c] = 0]
  /\ UNCHANGED <<ServerOnly, up, opened, srv, toSrv, executed, faults>>

\* It closes the connections in C; what they carried towards it is lost.
Close(C) ==
  /\ srv' = [c \in Conns |-> IF c \in C THEN "closed" ELSE srv[c]]
  /\ toSrv' = [c \in Conns |-> IF c \in C THEN <<>> ELSE toSrv[c]]
  /\ serving' = [c \in Conns |-> IF c \in C THEN 0 ELSE serving[c]]

SrvDrop(c) ==
  /\ srv[c] = "open"
  /\ faults < MaxFaults
  /\ faults' = faults + 1
  /\ Close({c})
  /\ UNCHANGED <<ServerOnly, up, opened, toCli, executed>>

\* The server stops or dies.
ServerDown ==
  /\ up
  /\ faults < MaxFaults
  /\ faults' = faults + 1
  /\ up' = FALSE
  /\ Close({c \in Conns : srv[c] = "open"})
  /\ UNCHANGED <<ServerOnly, opened, toCli, executed>>

ServerStart ==
  /\ ~up
  /\ up' = TRUE
  /\ UNCHANGED <<ServerOnly, opened, srv, toSrv, toCli, serving, executed, faults>>
-----------------------------------------------------------------------------
\* Nothing is left to do: every bound is spent or nobody calls.
Quiescent == (\A k \in Callers : pc[k] = "idle") /\ UNCHANGED vars

Next ==
  \/ Connect \/ Disconnect \/ RetryTick \/ Resume
  \/ \E k \in Callers : Begin(k) \/ Poll(k) \/ Written(k) \/ TimeOut(k)
  \/ \E c \in Conns : \/ Connected(c) \/ SocketClose(c) \/ SocketError(c)
                      \/ \E n \in 1..Len(toCli[c]) : Data(c, n)
                      \/ SrvServe(c) \/ SrvReply(c) \/ SrvDrop(c)
  \/ ServerDown \/ ServerStart
  \/ Quiescent

Spec == Init /\ [][Next]_vars

\* The event loop turns: continuations run, timers fire, the callback of a connect
\* comes, and 'close' follows 'error'.  Nothing is asked of the server, so that the
\* callback of a write is under no fairness: it waits for a peer that reads.
EventLoopFairness ==
  /\ WF_vars(Resume) /\ WF_vars(RetryTick)
  /\ \A k \in Callers : WF_vars(Poll(k)) /\ WF_vars(TimeOut(k))
  /\ \A c \in Conns : WF_vars(Connected(c)) /\ WF_vars(SocketClose(c) \/ SocketError(c))

FairSpec == Spec /\ EventLoopFairness
-----------------------------------------------------------------------------
(* Safety *)

Reader == [id : Ids, step : {"header", "payload"}, need : {1, 2}]
Words == [part : {"header", "first", "rest", "payload"}, id : Ids]

TypeOK ==
  /\ config \in Configs
  /\ codec \in 0..MaxConns
  /\ nextRequestId \in Nat \ {0}
  /\ callInFlight \in BOOLEAN
  /\ retry \in {"off", "sleep", "dial"}
  /\ attempt \in Nat /\ (attempt # 0 => attempt < config.maxAttempts)
  /\ pc \in [Callers -> {"idle", "wait"} \cup InCall]
  /\ id \in [Callers -> 0..(nextRequestId - 1)]
  /\ wconn \in [Callers -> 0..MaxConns]
  /\ outcome \in [Ids -> {"pending", "ok", "error", "garbled", "timeout"}]
  /\ sock \in [Conns -> {"none", "errored", "closed"} \cup Alive]
  /\ DOMAIN buffer = Conns /\ DOMAIN waiters = Conns
  /\ \A c \in Conns : /\ \A n \in DOMAIN buffer[c] : buffer[c][n] \in Words
                      /\ \A n \in DOMAIN waiters[c] : waiters[c][n] \in Reader
  /\ \A n \in DOMAIN micro :
       micro[n].conn \in Conns /\ micro[n].id \in Ids /\ Len(micro[n].got) \in 0..2
  /\ up \in BOOLEAN
  /\ opened \in 0..MaxConns
  /\ srv \in [Conns -> {"unused", "open", "closed"}]
  /\ serving \in [Conns -> 0..(nextRequestId - 1)]
  /\ \A c \in Conns : /\ \A n \in DOMAIN toSrv[c] : toSrv[c][n] \in Words
                      /\ \A n \in DOMAIN toCli[c] : toCli[c][n] \in Words
  /\ executed \in [Ids -> Nat]

\* At most one call is between its check of callInFlight and its end, and the flag is set
\* exactly then.
OneInFlight ==
  /\ callInFlight <=> \E k \in Callers : pc[k] \in InCall
  /\ \A j, k \in Callers : pc[j] \in InCall /\ pc[k] \in InCall => j = k

\* A call that waits for its response waits on a socket that can still deliver it
\* or fail it: no 'error' or 'close' passes a reader by.
ReaderCanWake ==
  TaskMayRun => \A k \in Callers : pc[k] = "recv" =>
    \E c \in Conns : /\ sock[c] = "open"
                     /\ \E n \in DOMAIN waiters[c] : waiters[c][n].id = id[k]

\* isConnected is never true of a dead socket, so that send() and recv() of the
\* codec find their socket connected.
CodecIsOpen == codec # 0 => sock[codec] = "open"

\* The words on connection c towards the server, from the start of a frame on:
\* every header is followed by its own payload.
WholeFrames(c) ==
  \A n \in DOMAIN toSrv[c] :
    IF n % 2 = 1 THEN toSrv[c][n].part = "header"
                 ELSE toSrv[c][n] = Word("payload", toSrv[c][n - 1].id)

\* "one outstanding request at a time" (client.ts:61), also when several calls waited for the
\* same reconnect, and when a call timed out: the frames of two calls never mix on the way
\* to the server, although each is two writes with an await between them, on a codec that
\* may change meanwhile.
RequestsNeverMix == OneInFlight /\ \A c \in Conns : WholeFrames(c)

\* With auto-reconnect and unlimited attempts, a client that lost its connection and was not
\* told to disconnect is connected or on its way, whatever else connects or closes meanwhile.
KeepsReconnecting ==
  (config.reconnect /\ Unlimited /\ disconnects = 0 /\ \E c \in Conns : sock[c] \in {"errored", "closed"})
    => codec # 0 \/ retry # "off"

\* The client implements the contract RpcCall: "ok" is the response of the call's own request.
Contract == INSTANCE RpcCall WITH
  issued <- nextRequestId - 1,
  status <- [i \in Ids |-> IF outcome[i] \in {"garbled", "timeout"} THEN "error" ELSE outcome[i]],
  runs <- executed
ContractSpec == Contract!ASpec
-----------------------------------------------------------------------------
(* Safety without timeouts and disconnect(), and with a disciplined user.   *)

Quiet(c) ==
  toSrv[c] = <<>> /\ toCli[c] = <<>> /\ buffer[c] = <<>> /\ waiters[c] = <<>> /\ serving[c] = 0

\* "Maintains a single connection" (client.ts:60), and between two calls it carries nothing,
\* so that no call reads another one's response or starts in the middle of a frame.
OneOutstanding ==
  /\ Cardinality({c \in Conns : sock[c] \in Alive}) <= 1
  /\ TaskMayRun /\ ~callInFlight /\ codec # 0 => Quiet(codec)

\* While a socket of the client is open, isConnected is true
\* (sdk/js/README.md:109, "accurately reflects transport state").
IsConnectedAccurate == (\E c \in Conns : sock[c] = "open") => codec # 0
-----------------------------------------------------------------------------
(* Liveness *)

\* In a call, all awaits but that of a write: for a reconnect, for the failure of a
\* socket that takes no more, for the response.
Waiting == {"wait", "unsent", "recv"}

\* The server is up for good, and the reconnect loop, when it dials, can make a socket.
DialSucceeds == <>[](up /\ (retry = "sleep" => codec # 0 \/ opened < MaxConns))

\* No call waits for ever, even when the server never answers: recv() is under a timeout,
\* a dead socket fails what is pending on it, and the wait for a reconnect ends with its
\* attempts, or, where they are unlimited, with a connection if one can be made.
\* It does not say that every call ends: client.ts:137 awaits send() outside of the
\* timeout, and a peer that does not read can keep a call there.
EveryWaitEnds ==
  (Unlimited => DialSucceeds) => \A k \in Callers : pc[k] \in Waiting ~> pc[k] \notin Waiting
=============================================================================
