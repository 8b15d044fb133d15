------------------------------ MODULE JsServer ------------------------------
(***************************************************************************)
(* The TypeScript RPC server (sdk/js/src/rpc/server.ts) over its socket    *)
(* transport: start() and stop() with their awaits, the listeners they     *)
(* make, the socket file, and one dispatch loop per connection.            *)
(*                                                                         *)
(* An action is one task of the event loop, or what a client does at the   *)
(* other end.  What a request says is left out: it is dispatched, or the   *)
(* frame is one recv() rejects.                                            *)
(***************************************************************************)
EXTENDS Integers, FiniteSets

CONSTANTS
  Awaits,      \* the user awaits each start() and stop() before the next
  MaxListens,  \* bound: listeners ever made
  MaxConns,    \* bound: clients that ever connect
  MaxRequests  \* bound: frames a client sends

ASSUME JsServerAssumption ==
  Awaits \in BOOLEAN /\ MaxListens \in Nat /\ MaxConns \in Nat /\ MaxRequests \in Nat

VARIABLES
  isRunning,     \* _isRunning
  socketServer,  \* socketServer: a listener, or 0 for null
  listens,       \* listeners so far: 1..listens
  listener,      \* by listener: the state of its net.Server
  file,          \* the listener the socket file leads to, or 0 for no file
  opened,        \* connections so far: 1..opened
  at,            \* by connection: the listener it came to
  active,        \* activeConnections
  sock,          \* by connection: its socket in the server
  connected,     \* by connection: connected
  loop,          \* by connection: where its dispatchLoop is
  peer,          \* by connection: the client's end
  inbox,         \* by connection: the frame the loop has not read
  sent           \* by connection: frames the client sent

life == <<isRunning, socketServer, listens, listener, file>>
serving == <<active, sock, connected, loop>>
clients == <<opened, at, peer, sent>>
vars == <<life, serving, clients, inbox>>

Listeners == 1..MaxListens
Conns == 1..MaxConns
Looping == {"recv", "handler", "send"}

\* listen() binds at once, and "listening" comes before any other task.
Settled == \A l \in Listeners : listener[l] # "bound"
Pending == \E l \in Listeners : listener[l] \in {"bound", "closing"}
MayCall == Awaits => ~Pending

Init ==
  /\ isRunning = FALSE /\ socketServer = 0
  /\ listens = 0 /\ listener = [l \in Listeners |-> "none"] /\ file = 0
  /\ opened = 0 /\ at = [c \in Conns |-> 0]
  /\ active = {}
  /\ sock = [c \in Conns |-> "none"]
  /\ connected = [c \in Conns |-> FALSE]
  /\ loop = [c \in Conns |-> "none"]
  /\ peer = [c \in Conns |-> "none"]
  /\ inbox = [c \in Conns |-> "empty"]
  /\ sent = [c \in Conns |-> 0]
-----------------------------------------------------------------------------
(* start() and stop(). *)

MayStart_Always == TRUE
MayStart == ~isRunning

\* start() up to its await: whatever has the path is unlinked, a new server bound to it.
Start ==
  /\ MayCall /\ MayStart
  /\ listens < MaxListens
  /\ LET l == listens + 1 IN
       /\ listens' = l
       /\ socketServer' = l
       /\ listener' = [listener EXCEPT ![l] = "bound"]
       /\ file' = l
  /\ UNCHANGED <<isRunning, serving, clients, inbox>>

\* The listening event, and start() after its await.
Started(l) ==
  /\ listener[l] = "bound"
  /\ listener' = [listener EXCEPT ![l] = "listening"]
  /\ isRunning' = TRUE
  /\ UNCHANGED <<socketServer, listens, file, serving, clients, inbox>>

\* stop() up to its await.  Closing a listener makes libuv unlink its path, and
\* the kernel drop the clients whose connection event has not come.
Stop_KeepsListener ==
  /\ MayCall /\ Settled
  /\ isRunning
  /\ isRunning' = FALSE
  /\ sock' = [c \in Conns |-> IF c \in active /\ sock[c] = "open" THEN "destroyed" ELSE sock[c]]
  /\ connected' = [c \in Conns |-> connected[c] /\ c \notin active]
  /\ active' = {}
  /\ socketServer' = 0
  /\ UNCHANGED <<listens, listener, file, loop, clients, inbox>>

Stop ==
  /\ MayCall /\ Settled
  /\ isRunning
  /\ isRunning' = FALSE
  /\ sock' = [c \in Conns |->
       IF c \in active /\ sock[c] = "open" THEN "destroyed"
       ELSE IF sock[c] = "pending" /\ at[c] = socketServer THEN "closed" ELSE sock[c]]
  /\ connected' = [c \in Conns |-> connected[c] /\ c \notin active]
  /\ active' = {}
  /\ \/ /\ socketServer # 0
        /\ listener' = [listener EXCEPT ![socketServer] = "closing"]
        /\ file' = 0
     \/ socketServer = 0 /\ UNCHANGED <<listener, file>>
  /\ UNCHANGED <<socketServer, listens, loop, clients, inbox>>

\* The close event, which waits for the connections of the listener; its
\* callback unlinks the path, and stop() goes on after its await.
Closed(l) ==
  /\ Settled
  /\ listener[l] = "closing"
  /\ \A c \in Conns : at[c] = l => sock[c] = "closed"
  /\ listener' = [listener EXCEPT ![l] = "closed"]
  /\ file' = 0
  /\ socketServer' = 0
  /\ UNCHANGED <<isRunning, listens, serving, clients, inbox>>
-----------------------------------------------------------------------------
(* Clients. *)

ClientConnect ==
  /\ file # 0
  /\ opened < MaxConns
  /\ LET c == opened + 1 IN
       /\ opened' = c
       /\ at' = [at EXCEPT ![c] = file]
       /\ sock' = [sock EXCEPT ![c] = "pending"]
       /\ peer' = [peer EXCEPT ![c] = "open"]
  /\ UNCHANGED <<life, active, connected, loop, inbox, sent>>

ClientSend(c, data) ==
  /\ peer[c] = "open" /\ inbox[c] = "empty"
  /\ sent[c] < MaxRequests
  /\ sent' = [sent EXCEPT ![c] = @ + 1]
  /\ inbox' = [inbox EXCEPT ![c] = data]
  /\ UNCHANGED <<life, serving, opened, at, peer>>

ClientClose(c) ==
  /\ peer[c] = "open"
  /\ peer' = [peer EXCEPT ![c] = "closed"]
  /\ UNCHANGED <<life, serving, opened, at, sent, inbox>>
-----------------------------------------------------------------------------
(* One connection. *)

\* handleConnection(), and dispatchLoop() up to its first read.
Connection(c) ==
  /\ Settled
  /\ sock[c] = "pending"
  /\ sock' = [sock EXCEPT ![c] = "open"]
  /\ connected' = [connected EXCEPT ![c] = TRUE]
  /\ active' = active \cup {c}
  /\ loop' = [loop EXCEPT ![c] = "recv"]
  /\ UNCHANGED <<life, clients, inbox>>

GoOn(c, stage) ==
  /\ loop' = [loop EXCEPT ![c] = stage]
  /\ UNCHANGED <<active, sock, connected>>

End_KeepsActive(c) ==
  /\ loop' = [loop EXCEPT ![c] = "ended"]
  /\ connected' = [connected EXCEPT ![c] = FALSE]
  /\ sock' = [sock EXCEPT ![c] = IF @ = "open" THEN "destroyed" ELSE @]
  /\ UNCHANGED active

End_LeavesSocket(c) ==
  /\ loop' = [loop EXCEPT ![c] = "ended"]
  /\ active' = active \ {c}
  /\ UNCHANGED <<sock, connected>>

\* The loop ends, and so runs the finally() of handleConnection().
End(c) ==
  /\ loop' = [loop EXCEPT ![c] = "ended"]
  /\ active' = active \ {c}
  /\ connected' = [connected EXCEPT ![c] = FALSE]
  /\ sock' = [sock EXCEPT ![c] = IF @ = "open" THEN "destroyed" ELSE @]

\* codec.recv() has a whole frame.
Receive(c) ==
  /\ Settled
  /\ loop[c] = "recv" /\ sock[c] = "open"
  /\ \/ inbox[c] = "request" /\ GoOn(c, "handler")
     \/ inbox[c] = "bad" /\ End(c)
  /\ inbox' = [inbox EXCEPT ![c] = "empty"]
  /\ UNCHANGED <<life, clients>>

\* The handler's promise settles, and the response is written, unless send() finds no connection.
Respond(c) ==
  /\ Settled
  /\ loop[c] = "handler"
  /\ \/ connected[c] /\ GoOn(c, "send")
     \/ ~connected[c] /\ End(c)
  /\ UNCHANGED <<life, clients, inbox>>

\* The callback of write(): an error for a socket that was destroyed, and
\* perhaps for one without another end.
Written(c) ==
  /\ Settled
  /\ loop[c] = "send"
  /\ \/ connected[c] /\ GoOn(c, "recv")
     \/ (~connected[c] \/ peer[c] = "closed") /\ End(c)
  /\ UNCHANGED <<life, clients, inbox>>

\* The close event of a socket that was destroyed here, or closed by the client
\* when what it sent has been read; it rejects a read that waits.
SocketClose(c) ==
  /\ Settled
  /\ sock[c] = "destroyed" \/ (sock[c] = "open" /\ peer[c] = "closed")
  /\ loop[c] = "recv" /\ sock[c] = "open" => inbox[c] = "empty"
  /\ loop[c] # "send"
  /\ sock' = [sock EXCEPT ![c] = "closed"]
  /\ connected' = [connected EXCEPT ![c] = FALSE]
  /\ \/ loop[c] = "recv" /\ loop' = [loop EXCEPT ![c] = "ended"] /\ active' = active \ {c}
     \/ loop[c] # "recv" /\ UNCHANGED <<loop, active>>
  /\ UNCHANGED <<life, clients, inbox>>
-----------------------------------------------------------------------------
Conn(c) == Connection(c) \/ Receive(c) \/ Respond(c) \/ Written(c) \/ SocketClose(c)
Settle == \E l \in Listeners : Started(l) \/ Closed(l)
Client(c) == (\E data \in {"request", "bad"} : ClientSend(c, data)) \/ ClientClose(c)

Next == \/ Start \/ Stop \/ Settle
        \/ ClientConnect
        \/ \E c \in Conns : Conn(c) \/ Client(c)

\* The event loop turns.  A handler need not settle, and clients may do what they like.
Spec == Init /\ [][Next]_vars
FairSpec == Spec /\ WF_vars(Settle)
                 /\ \A c \in Conns : WF_vars(Connection(c) \/ Receive(c) \/ Written(c) \/ SocketClose(c))
-----------------------------------------------------------------------------
(* Properties. *)

\* stop() can reach every open socket (server.ts:114): one that is open is in
\* activeConnections, and says it is connected, so that its loop goes on; and
\* no connection stays in activeConnections whose loop has ended.
OpenIsActive ==
  /\ \A c \in Conns : sock[c] = "open" => c \in active /\ connected[c]
  /\ \A c \in active : loop[c] \in Looping

\* "Resolves once the server is bound and accepting" (server.ts:100): while
\* isRunning, the socket file leads to the listener that stop() will close, and
\* no other listener is there.
Reachable ==
  isRunning /\ Settled =>
    /\ socketServer # 0 /\ file = socketServer
    /\ {l \in Listeners : listener[l] = "listening"} = {socketServer}

\* Between a stop() that has resolved and the next start() nothing is left of
\* the server: no listener, no file, no socket, and no loop that reads or writes.
StopLeavesNothing ==
  ~isRunning /\ ~Pending =>
    /\ socketServer = 0 /\ file = 0
    /\ \A l \in Listeners : listener[l] \in {"none", "closed"}
    /\ \A c \in Conns : sock[c] \in {"none", "closed"} /\ loop[c] \notin {"recv", "send"}

\* stop() resolves, though net.Server.close() waits for every connection to
\* end, whatever clients and handlers do (server.ts:120).
StopResolves == \A l \in Listeners : listener[l] = "closing" ~> listener[l] = "closed"
=============================================================================
