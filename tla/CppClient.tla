----------------------------- MODULE CppClient -----------------------------
(***************************************************************************)
(* The C++ RPC client (sdk/cpp/core/src/rpc/client.cpp) shared by several  *)
(* threads, its connections, and the server at the other end as far as a   *)
(* client can tell: it reads whole frames, runs the handler, replies, and  *)
(* may close a connection, stop, crash and come back at any moment.        *)
(*                                                                         *)
(* codec_, framed_ and transport_ are set and reset together, so one       *)
(* variable stands for the three: conn, the connection in use, 0 when the  *)
(* pointers are null.  The client's end of connection c is open exactly    *)
(* while conn = c.  A step of a thread runs from one point where another   *)
(* party can interfere to the next: taking or releasing mutex_, a system   *)
(* call on the socket, or a user callback.                                 *)
(***************************************************************************)
EXTENDS Integers, Sequences

CONSTANTS
  Threads,      \* the threads that share one Client
  None,         \* no thread: mutex_ is free
  Configs,      \* the ClientConfigs to consider: reconnect set or not, and its max_attempts
  MaxCalls,     \* bound: calls ever made
  MaxConns,     \* bound: connections ever opened; beyond it socket() fails
  MaxFaults     \* bound: connections dropped by the server, and its stops and crashes

ConfigSet == [reconnect : BOOLEAN, max_attempts : Int]

ASSUME ClientAssumption ==
  /\ None \notin Threads
  /\ Configs \subseteq ConfigSet
  /\ MaxCalls \in Nat /\ MaxConns \in Nat /\ MaxFaults \in Nat

VARIABLES
  config,       \* config_.reconnect, fixed at construction
  mutex,        \* the holder of mutex_
  conn,         \* codec_/framed_/transport_: the connection in use, or 0
  nextId,       \* next_request_id_
  pc,           \* where each thread is
  id,           \* id of the call a thread is in (0 before it has one)
  attempt,      \* loop counter of attempt_reconnect
  resent,       \* the thread is past its one resend
  outcome,      \* by request id: what call() returned
  notified,     \* by connection: how often on_disconnect was fired for it
  up,           \* a server listens on the endpoint
  opened,       \* connections opened so far: 1..opened
  srv,          \* by connection: the server's end
  toSrv,        \* by connection: what the client wrote and the server has not read
  stage,        \* by connection: what its handler thread does
  request,      \* by connection: the last request its handler read
  toCli,        \* by connection: responses (their ids) the client has not read
  executed,     \* by request id: how often a handler ran
  begun, faults \* spent bounds

client == <<config, mutex, conn, nextId, pc, id, attempt, resent, outcome, notified, begun>>
server == <<up, opened, srv, toSrv, stage, request, toCli, executed, faults>>
vars == <<client, server>>

Conns == 1..MaxConns
Ids == 1..(nextId - 1)
PCs == {"idle", "enter", "sleep", "dial", "issue", "send_header", "send_payload",
        "recv", "callback_retry", "callback_fail"}
Locked == {"dial", "issue", "send_header", "send_payload", "recv"}
UsesCodec == {"issue", "send_header", "send_payload", "recv"}

\* A frame is two writes: the 4-byte header, then the payload.
Part(p, i) == [part |-> p, id |-> i]
Parts == [part : {"header", "payload"}, id : Nat]
HeaderOnly(i) == <<Part("header", i)>>
Frame(i) == <<Part("header", i), Part("payload", i)>>

Unlimited == config.max_attempts < 0
MayRetry == config.reconnect /\ (Unlimited \/ config.max_attempts > 0)
NextAttempt_NotCounted(t) == attempt[t]
NextAttempt(t) == IF Unlimited THEN attempt[t] ELSE attempt[t] + 1
LastAttempt_OffByOne(t) == ~Unlimited /\ attempt[t] >= config.max_attempts
LastAttempt(t) == ~Unlimited /\ attempt[t] + 1 >= config.max_attempts

\* A failed send is retried once, a failed recv never.
AfterSendFailure(t) == IF config.reconnect /\ ~resent[t] THEN "callback_retry"
                                                         ELSE "callback_fail"
AfterRecvFailure_Retries(t) == AfterSendFailure(t)
AfterRecvFailure(t) == "callback_fail"

Init ==
  /\ config \in Configs
  /\ mutex = None /\ conn = 0 /\ nextId = 1
  /\ pc = [t \in Threads |-> "idle"]
  /\ id = [t \in Threads |-> 0]
  /\ attempt = [t \in Threads |-> 0]
  /\ resent = [t \in Threads |-> FALSE]
  /\ outcome = [i \in 1..0 |-> "pending"]
  /\ notified = [c \in Conns |-> 0]
  /\ up \in BOOLEAN
  /\ opened = 0
  /\ srv = [c \in Conns |-> "unused"]
  /\ toSrv = [c \in Conns |-> <<>>]
  /\ stage = [c \in Conns |-> "reading"]
  /\ request = [c \in Conns |-> 0]
  /\ toCli = [c \in Conns |-> <<>>]
  /\ executed = [i \in 1..0 |-> 0]
  /\ begun = 0 /\ faults = 0
-----------------------------------------------------------------------------
(* The connection, shared by the ways of opening and losing it. *)

CanDial == conn = 0 /\ up /\ opened < MaxConns

\* connect_locked() succeeding: a new socket, accepted by the kernel's backlog.
OpenConnection ==
  /\ conn' = opened + 1
  /\ opened' = opened + 1
  /\ srv' = [srv EXCEPT ![opened + 1] = "open"]

\* (mutant: the pointers are not reset)
LoseConnection_KeepsCodec ==
  /\ mutex' = None
  /\ notified' = [notified EXCEPT ![conn] = @ + 1]
  /\ UNCHANGED conn

\* handle_disconnect() up to its callback: reset the pointers, unlock, fire on_disconnect.
LoseConnection ==
  /\ conn' = 0
  /\ mutex' = None
  /\ notified' = [notified EXCEPT ![conn] = @ + 1]

\* call() returns: the caller gets v for its request, if the call ever had an id.
Return(t, v) ==
  /\ pc' = [pc EXCEPT ![t] = "idle"]
  /\ mutex' = None
  /\ id' = [id EXCEPT ![t] = 0]
  /\ attempt' = [attempt EXCEPT ![t] = 0]
  /\ resent' = [resent EXCEPT ![t] = FALSE]
  /\ outcome' = IF id[t] = 0 THEN outcome ELSE [outcome EXCEPT ![id[t]] = v]

\* attempt_reconnect() enters its loop, and so unlocks to sleep; with no
\* attempt allowed it fails at once, and so does the call.
StartRetrying(t) ==
  \/ /\ MayRetry
     /\ pc' = [pc EXCEPT ![t] = "sleep"]
     /\ attempt' = [attempt EXCEPT ![t] = 0]
     /\ UNCHANGED <<mutex, id, resent, outcome>>
  \/ ~MayRetry /\ Return(t, "error")
-----------------------------------------------------------------------------
(* call(), in the order of its statements. *)

\* A thread calls call() and waits for mutex_.
Begin(t) ==
  /\ pc[t] = "idle"
  /\ begun < MaxCalls
  /\ begun' = begun + 1
  /\ pc' = [pc EXCEPT ![t] = "enter"]
  /\ UNCHANGED <<server, config, mutex, conn, nextId, id, attempt, resent, outcome, notified>>

\* It gets mutex_: connected, it goes on holding it; else it retries or fails.
Enter(t) ==
  /\ pc[t] = "enter"
  /\ mutex = None
  /\ \/ /\ conn # 0
        /\ mutex' = t
        /\ pc' = [pc EXCEPT ![t] = "issue"]
        /\ UNCHANGED <<id, attempt, resent, outcome>>
     \/ conn = 0 /\ StartRetrying(t)
  /\ UNCHANGED <<server, config, conn, nextId, notified, begun>>

\* The back-off sleep is over and the thread has mutex_ again.
WakeUp(t) ==
  /\ pc[t] = "sleep"
  /\ mutex = None
  /\ mutex' = t
  /\ pc' = [pc EXCEPT ![t] = "dial"]
  /\ UNCHANGED <<server, config, conn, nextId, id, attempt, resent, outcome, notified, begun>>

\* connect_locked() succeeds, under the lock: before the first send the call
\* now takes its id, after a failed one it sends the same request again.
DialOk(t) ==
  /\ pc[t] = "dial"
  /\ CanDial
  /\ OpenConnection
  /\ pc' = [pc EXCEPT ![t] = IF id[t] = 0 THEN "issue" ELSE "send_header"]
  /\ resent' = [resent EXCEPT ![t] = id[t] # 0]
  /\ UNCHANGED <<config, mutex, nextId, id, attempt, outcome, notified, begun>>
  /\ UNCHANGED <<up, toSrv, stage, request, toCli, executed, faults>>

\* connect_locked() fails: nobody listens, or there is a connection already.
DialFail(t) ==
  /\ pc[t] = "dial"
  /\ ~CanDial
  /\ \/ /\ ~LastAttempt(t)
        /\ attempt' = [attempt EXCEPT ![t] = NextAttempt(t)]
        /\ pc' = [pc EXCEPT ![t] = "sleep"]
        /\ mutex' = None
        /\ UNCHANGED <<id, resent, outcome>>
     \/ LastAttempt(t) /\ Return(t, "error")
  /\ UNCHANGED <<server, config, conn, nextId, notified, begun>>

\* (mutant: the counter is read one behind, as when it is read before the lock)
FreshId_Stale == IF nextId > 1 THEN nextId - 1 ELSE nextId

\* The request gets the next id: next_request_id_++.
FreshId == nextId

IssueId(t) ==
  /\ pc[t] = "issue"
  /\ id' = [id EXCEPT ![t] = FreshId]
  /\ nextId' = nextId + 1
  /\ outcome' = [i \in 1..nextId |-> IF i = nextId THEN "pending" ELSE outcome[i]]
  /\ executed' = [i \in 1..nextId |-> IF i = nextId THEN 0 ELSE executed[i]]
  /\ pc' = [pc EXCEPT ![t] = "send_header"]
  /\ UNCHANGED <<config, mutex, conn, attempt, resent, notified, begun>>
  /\ UNCHANGED <<up, opened, srv, toSrv, stage, request, toCli, faults>>

\* send_frame() writes one part, which the kernel takes only while the peer is open.
Write(t, p) ==
  /\ srv[conn] = "open"
  /\ toSrv' = [toSrv EXCEPT ![conn] = Append(@, Part(p, id[t]))]
  /\ UNCHANGED <<config, mutex, conn, nextId, id, attempt, resent, outcome, notified, begun>>
  /\ UNCHANGED <<up, opened, srv, stage, request, toCli, executed, faults>>

SendHeader(t) ==
  /\ pc[t] = "send_header"
  /\ Write(t, "header")
  /\ pc' = [pc EXCEPT ![t] = "send_payload"]

SendPayload(t) ==
  /\ pc[t] = "send_payload"
  /\ Write(t, "payload")
  /\ pc' = [pc EXCEPT ![t] = "recv"]

\* A write fails: the first time the call will retry, the second time it fails.
SendFail(t) ==
  /\ pc[t] \in {"send_header", "send_payload"}
  /\ srv[conn] # "open"
  /\ LoseConnection
  /\ pc' = [pc EXCEPT ![t] = AfterSendFailure(t)]
  /\ UNCHANGED <<server, config, nextId, id, attempt, resent, outcome, begun>>

\* A response arrives; the call checks that it carries its own id.
RecvReply(t) ==
  /\ pc[t] = "recv"
  /\ toCli[conn] # <<>>
  /\ toCli' = [toCli EXCEPT ![conn] = Tail(@)]
  /\ Return(t, IF Head(toCli[conn]) = id[t] THEN "ok" ELSE "protocol_error")
  /\ UNCHANGED <<config, conn, nextId, notified, begun>>
  /\ UNCHANGED <<up, opened, srv, toSrv, stage, request, executed, faults>>

\* (mutant: a call gives up waiting and leaves the connection open)
RecvFail_TimesOut(t) ==
  /\ pc[t] = "recv"
  /\ Return(t, "error")
  /\ UNCHANGED <<server, config, conn, nextId, notified, begun>>

\* The connection ends before a response: the call fails and is not retried.
RecvFail(t) ==
  /\ pc[t] = "recv"
  /\ toCli[conn] = <<>>
  /\ srv[conn] # "open"
  /\ LoseConnection
  /\ pc' = [pc EXCEPT ![t] = AfterRecvFailure(t)]
  /\ UNCHANGED <<server, config, nextId, id, attempt, resent, outcome, begun>>

\* on_disconnect returned and the thread has mutex_ again.
AfterCallback(t) ==
  /\ mutex = None
  /\ \/ pc[t] = "callback_retry" /\ StartRetrying(t)
     \/ pc[t] = "callback_fail" /\ Return(t, "error")
  /\ UNCHANGED <<server, config, conn, nextId, notified, begun>>

CallStep(t) ==
  \/ Enter(t) \/ WakeUp(t) \/ DialOk(t) \/ DialFail(t) \/ IssueId(t)
  \/ SendHeader(t) \/ SendPayload(t) \/ SendFail(t)
  \/ RecvReply(t) \/ RecvFail(t) \/ AfterCallback(t)
-----------------------------------------------------------------------------
(* connect() and disconnect(), from a thread that makes no call or from    *)
(* inside its on_disconnect.  One that returns an error changes nothing.   *)

\* (mutant: disconnect() does not take mutex_)
MayUseClient_Unlocked(t) == pc[t] \in {"idle", "callback_retry", "callback_fail"}

MayUseClient(t) == pc[t] \in {"idle", "callback_retry", "callback_fail"} /\ mutex = None

Connect(t) ==
  /\ MayUseClient(t)
  /\ CanDial
  /\ OpenConnection
  /\ UNCHANGED <<config, mutex, nextId, pc, id, attempt, resent, outcome, notified, begun>>
  /\ UNCHANGED <<up, toSrv, stage, request, toCli, executed, faults>>

Disconnect(t) ==
  /\ MayUseClient(t)
  /\ conn # 0
  /\ conn' = 0
  /\ UNCHANGED <<server, config, mutex, nextId, pc, id, attempt, resent, outcome, notified, begun>>
-----------------------------------------------------------------------------
(* The server: one handler thread per connection (server.cpp). *)

\* The handler reads one whole frame; what is left of a partial one stays.
SrvTake(c) ==
  /\ srv[c] = "open" /\ stage[c] = "reading"
  /\ Len(toSrv[c]) >= 2
  /\ request' = [request EXCEPT ![c] = toSrv[c][2].id]
  /\ toSrv' = [toSrv EXCEPT ![c] = SubSeq(@, 3, Len(@))]
  /\ stage' = [stage EXCEPT ![c] = "taken"]
  /\ UNCHANGED <<client, up, opened, srv, toCli, executed, faults>>

\* It dispatches the request, whether or not its connection is still open.
SrvExecute(c) ==
  /\ stage[c] = "taken"
  /\ stage' = [stage EXCEPT ![c] = "executed"]
  /\ executed' = [executed EXCEPT ![request[c]] = @ + 1]
  /\ UNCHANGED <<client, up, opened, srv, toSrv, request, toCli, faults>>

\* It sends the response and reads on; a failed send ends it.
SrvReply(c) ==
  /\ stage[c] = "executed"
  /\ stage' = [stage EXCEPT ![c] = "reading"]
  /\ \/ /\ srv[c] = "open" /\ conn = c
        /\ toCli' = [toCli EXCEPT ![c] = Append(@, request[c])]
        /\ UNCHANGED srv
     \/ /\ ~(srv[c] = "open" /\ conn = c)
        /\ srv' = [srv EXCEPT ![c] = "closed"]
        /\ UNCHANGED toCli
  /\ UNCHANGED <<client, up, opened, toSrv, request, executed, faults>>

\* It reads end of file, between two frames or in the middle of one.
SrvEof(c) ==
  /\ srv[c] = "open" /\ stage[c] = "reading"
  /\ conn # c
  /\ Len(toSrv[c]) < 2
  /\ srv' = [srv EXCEPT ![c] = "closed"]
  /\ UNCHANGED <<client, up, opened, toSrv, stage, request, toCli, executed, faults>>

\* The server closes one connection: it is over its limit, or the response is too large.
SrvDrop(c) ==
  /\ srv[c] = "open"
  /\ faults < MaxFaults
  /\ faults' = faults + 1
  /\ srv' = [srv EXCEPT ![c] = "closed"]
  /\ UNCHANGED <<client, up, opened, toSrv, stage, request, toCli, executed>>

CloseAll == srv' = [c \in Conns |-> IF srv[c] = "open" THEN "closed" ELSE srv[c]]

\* stop() closes the endpoint and every connection; a handler that runs, finishes.
ServerStop ==
  /\ up
  /\ faults < MaxFaults
  /\ faults' = faults + 1
  /\ up' = FALSE
  /\ CloseAll
  /\ UNCHANGED <<client, opened, toSrv, stage, request, toCli, executed>>

\* The server process dies, and the handlers with it.
ServerCrash ==
  /\ up
  /\ faults < MaxFaults
  /\ faults' = faults + 1
  /\ up' = FALSE
  /\ CloseAll
  /\ stage' = [c \in Conns |-> "reading"]
  /\ UNCHANGED <<client, opened, toSrv, request, toCli, executed>>

ServerStart ==
  /\ ~up
  /\ up' = TRUE
  /\ UNCHANGED <<client, opened, srv, toSrv, stage, request, toCli, executed, faults>>

HandlerStep(c) == SrvTake(c) \/ SrvExecute(c) \/ SrvReply(c) \/ SrvEof(c)
-----------------------------------------------------------------------------
\* Nothing is left to do: every bound is spent or nobody calls.
Quiescent == (\A t \in Threads : pc[t] = "idle") /\ UNCHANGED vars

Next ==
  \/ \E t \in Threads : Begin(t) \/ CallStep(t) \/ Connect(t) \/ Disconnect(t)
  \/ \E c \in Conns : HandlerStep(c) \/ SrvDrop(c)
  \/ ServerStop \/ ServerCrash \/ ServerStart
  \/ Quiescent

Spec == Init /\ [][Next]_vars

\* Threads keep running; mutex_ is granted to each thread that keeps asking for it.
ClientFairness == \A t \in Threads : SF_vars(CallStep(t))
ServerFairness == \A c \in Conns : WF_vars(HandlerStep(c))

FairSpec == Spec /\ ClientFairness /\ ServerFairness
ClientFairSpec == Spec /\ ClientFairness
-----------------------------------------------------------------------------
(* Safety *)

ClientTypeOK ==
  /\ config \in Configs
  /\ mutex \in Threads \cup {None}
  /\ conn \in 0..MaxConns
  /\ nextId \in Nat \ {0}
  /\ pc \in [Threads -> PCs]
  /\ id \in [Threads -> 0..(nextId - 1)]
  /\ resent \in [Threads -> BOOLEAN]
  /\ outcome \in [Ids -> {"pending", "ok", "error", "protocol_error"}]
  /\ notified \in [Conns -> Nat]
  /\ begun \in Nat

\* A retrying thread is within the attempts it may make.
AttemptOK ==
  /\ attempt \in [Threads -> Nat]
  /\ \A t \in Threads : attempt[t] # 0 => attempt[t] < config.max_attempts

ServerTypeOK ==
  /\ up \in BOOLEAN
  /\ opened \in 0..MaxConns
  /\ srv \in [Conns -> {"unused", "open", "closed"}]
  /\ toSrv \in [Conns -> Seq(Parts)]
  /\ stage \in [Conns -> {"reading", "taken", "executed"}]
  /\ request \in [Conns -> 0..(nextId - 1)]
  /\ toCli \in [Conns -> Seq(Nat)]
  /\ executed \in [Ids -> Nat]
  /\ faults \in Nat

TypeOK == ClientTypeOK /\ AttemptOK /\ ServerTypeOK

\* Whenever call() uses codec_ it holds mutex_ and codec_ is not null, whatever
\* connect(), disconnect() and the calls of other threads did while it slept or
\* ran its callback (client.cpp:139, 144 and 157 dereference without a check).
CodecNotNull ==
  \A t \in Threads : pc[t] \in UsesCodec => mutex = t /\ conn # 0

\* README "Retry safety": the server runs no request twice, although a request
\* may be written to two connections and every connection may break anywhere.
AtMostOnce == \A i \in Ids : executed[i] <= 1

\* A call that returned a response had its handler run, and no call ever reads
\* the response of another one (the check of client.cpp:165 never fires).
Correlated ==
  \A i \in Ids : /\ outcome[i] = "ok" => executed[i] = 1
                 /\ outcome[i] # "protocol_error"

\* Nothing travels on connection c, in either direction.
Quiet(c) == toSrv[c] = <<>> /\ toCli[c] = <<>> /\ stage[c] = "reading"

\* "One outstanding request at a time" (client.h:51): between two calls the
\* connection in use carries nothing that a later call could read as its own.
OneOutstanding == mutex = None /\ conn # 0 => Quiet(conn)

\* on_disconnect is fired at most once for a connection (client_test.cpp:220).
NotifiedOnce == \A c \in Conns : notified[c] <= 1

\* On each connection the server reads strictly increasing request ids, also
\* when a resent request overtakes or follows the calls of other threads.
RequestIdsIncrease ==
  [][\A c \in Conns : stage[c] = "reading" /\ stage'[c] = "taken"
                        => request'[c] > request[c]]_vars

\* The client implements the contract RpcCall.
Contract == INSTANCE RpcCall WITH issued <- nextId - 1, status <- outcome, runs <- executed
ContractSpec == Contract!ASpec
-----------------------------------------------------------------------------
(* The inductive invariant behind the safety properties (CppClient_proof). *)

MutexInv == \A t \in Threads : pc[t] \in Locked <=> mutex = t

CodecInv == \A t \in Threads : pc[t] \in UsesCodec => conn # 0

ConnInv ==
  /\ conn <= opened
  /\ conn # 0 => notified[conn] = 0
  /\ \A c \in Conns :
       /\ srv[c] = "unused" <=> c > opened
       /\ c > opened => Quiet(c) /\ notified[c] = 0
       /\ stage[c] # "reading" => request[c] # 0 /\ toSrv[c] = <<>>

\* What the client wrote on a connection: nothing, a header, or one whole frame.
FrameInv ==
  \A c \in Conns :
    toSrv[c] # <<>> => \E i \in Ids : toSrv[c] = HeaderOnly(i) \/ toSrv[c] = Frame(i)

\* A thread's call has an id of its own exactly while it is between IssueId and its return.
IdInv ==
  /\ \A t \in Threads :
       /\ pc[t] \in {"send_header", "send_payload", "recv", "callback_retry", "callback_fail"}
            => id[t] # 0
       /\ pc[t] \in {"idle", "enter", "issue"} => id[t] = 0
       /\ id[t] # 0 => outcome[id[t]] = "pending"
  /\ \A t, u \in Threads : id[t] = id[u] /\ id[t] # 0 => t = u

\* Request i has reached the server on connection c and its handler has yet to run.
Deliverable(c, i) == toSrv[c] = Frame(i) \/ (stage[c] = "taken" /\ request[c] = i)

ExecInv ==
  /\ \A i \in Ids : executed[i] \in {0, 1}
  /\ \A c \in Conns : stage[c] = "executed" => executed[request[c]] = 1
  /\ \A i \in Ids : \A c \in Conns :
       Deliverable(c, i) => /\ executed[i] = 0
                            /\ \A d \in Conns : Deliverable(d, i) => c = d

\* A request that may still be written, for the first or the second time, was never delivered.
UnsentInv ==
  \A t \in Threads :
    id[t] # 0 /\ pc[t] \in {"sleep", "dial", "send_header", "send_payload", "callback_retry"}
      => executed[id[t]] = 0 /\ \A c \in Conns : ~Deliverable(c, id[t])

\* The request in progress is the only thing on its connection, in one place at a time.
Outstanding(t) ==
  /\ pc[t] = "send_payload" =>
       toSrv[conn] = HeaderOnly(id[t]) /\ toCli[conn] = <<>> /\ stage[conn] = "reading"
  /\ pc[t] = "recv" =>
       \/ toSrv[conn] = Frame(id[t]) /\ toCli[conn] = <<>> /\ stage[conn] = "reading"
       \/ toSrv[conn] = <<>> /\ toCli[conn] = <<>> /\ stage[conn] # "reading" /\ request[conn] = id[t]
       \/ toSrv[conn] = <<>> /\ toCli[conn] = <<id[t]>> /\ stage[conn] = "reading"
            /\ executed[id[t]] = 1
       \/ Quiet(conn) /\ srv[conn] = "closed"

ChannelInv ==
  /\ \A t \in Threads : Outstanding(t)
  /\ conn # 0 /\ (\A t \in Threads : pc[t] \notin {"send_payload", "recv"}) => Quiet(conn)

OutcomeInv ==
  \A i \in Ids : outcome[i] # "protocol_error" /\ (outcome[i] = "ok" => executed[i] = 1)

\* It strengthens AtMostOnce, Correlated, CodecNotNull, OneOutstanding and NotifiedOnce:
\* where every request is (ExecInv, UnsentInv), and what the connection in use carries.
IndInv ==
  /\ TypeOK /\ MutexInv /\ CodecInv /\ ConnInv /\ FrameInv /\ IdInv
  /\ ExecInv /\ UnsentInv /\ ChannelInv /\ OutcomeInv
  /\ NotifiedOnce
-----------------------------------------------------------------------------
(* Liveness *)

\* Every call returns, when the server keeps answering (no timeout is involved:
\* ClientConfig::timeout is never read).
EveryCallReturns == \A t \in Threads : pc[t] = "enter" ~> pc[t] = "idle"

\* README "call() blocks transparently while the server is down": once a server
\* listens for good, and sockets can be made, every call returns.
CallsReturnOnceServerIsUp ==
  <>[](up /\ opened < MaxConns) => \A t \in Threads : []<>(pc[t] = "idle")
=============================================================================
