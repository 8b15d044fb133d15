----------------------------- MODULE CppServer -----------------------------
(***************************************************************************)
(* The C++ RPC server (sdk/cpp/core/src/rpc/server.cpp) over its Unix      *)
(* socket transport: start() and stop(), the accept thread, one handler    *)
(* thread per connection, the connection limit, and the descriptors of the *)
(* process.  Its clients may connect, send and leave at any moment.        *)
(*                                                                         *)
(* A step runs from one point where another thread can interfere to the    *)
(* next: a system call, or a section under connections_mutex_.  What a     *)
(* request says is left out (CppClient has it): it can be read whole and   *)
(* dispatched, or it cannot.                                               *)
(***************************************************************************)
EXTENDS Integers, Sequences, FiniteSets

CONSTANTS
  Users,           \* threads that call start() and stop()
  MaxConnections,  \* config_.max_connections
  MaxFds,          \* descriptors the process may have open
  CloseWakes,      \* ::close(fd) wakes a thread blocked on fd, as on macOS and not on Linux
  MaxConns,        \* bound: clients that ever connect
  MaxStarts,       \* bound: successful calls of start()
  MaxRequests      \* bound: requests on one connection

ASSUME ServerAssumption ==
  /\ MaxConnections \in Nat /\ MaxFds \in Nat
  /\ CloseWakes \in BOOLEAN
  /\ MaxConns \in Nat /\ MaxStarts \in Nat /\ MaxRequests \in Nat

VARIABLES
  running,     \* running_
  listening,   \* the descriptor server_fd_ is open
  path,        \* the socket file exists
  acceptor,    \* where the accept thread is
  held,        \* the connection the accept thread has just accepted, or 0
  backlog,     \* connections the kernel has completed and nobody has accepted
  active,      \* active_connections_
  threads,     \* handler_threads_
  handler,     \* by connection: where its handler thread is
  connected,   \* by connection: connected_ of the server's UnixSocketConnection
  fds,         \* connections whose descriptor is open in the server's process
  pc,          \* by user: where in stop() it is
  snapshot,    \* by user: the connections stop() still has to close
  opened,      \* connections so far: 1..opened
  peer,        \* by connection: the client's end
  inbox,       \* by connection: what the client wrote and the handler has not read
  sent,        \* by connection: requests the client wrote
  starts       \* spent bound

life == <<running, listening, path, starts>>
accepting == <<acceptor, held>>
serving == <<active, threads, handler, connected, fds>>
users == <<pc, snapshot>>
clients == <<opened, peer, inbox, sent>>
vars == <<life, accepting, backlog, serving, users, clients>>

Conns == 1..MaxConns
Alive == {"reading", "blocked", "serving"}

FreeDescriptor == Cardinality(fds) + (IF listening THEN 1 ELSE 0) < MaxFds

\* A listening socket outlives its descriptor while a thread is blocked in accept() on it.
OutlivesClose == acceptor = "blocked" /\ ~CloseWakes

AtLimit_OffByOne == Cardinality(active) > MaxConnections
AtLimit == Cardinality(active) >= MaxConnections

Init ==
  /\ running = FALSE /\ listening = FALSE /\ path = FALSE /\ starts = 0
  /\ acceptor = "none" /\ held = 0 /\ backlog = <<>>
  /\ active = {} /\ threads = {} /\ fds = {}
  /\ handler = [c \in Conns |-> "none"]
  /\ connected = [c \in Conns |-> FALSE]
  /\ pc = [u \in Users |-> "idle"]
  /\ snapshot = [u \in Users |-> {}]
  /\ opened = 0
  /\ peer = [c \in Conns |-> "none"]
  /\ inbox = [c \in Conns |-> "empty"]
  /\ sent = [c \in Conns |-> 0]
-----------------------------------------------------------------------------
(* The clients. *)

\* connect() succeeds as soon as the listening socket has the file's name; accept() may come later.
ClientConnect ==
  /\ path /\ (listening \/ OutlivesClose)
  /\ opened < MaxConns
  /\ opened' = opened + 1
  /\ peer' = [peer EXCEPT ![opened + 1] = "open"]
  /\ backlog' = Append(backlog, opened + 1)
  /\ UNCHANGED <<life, accepting, serving, users, inbox, sent>>

\* A request, or bytes the codec cannot take for one (too long, or not an Envelope).
ClientSend(c, data) ==
  /\ peer[c] = "open" /\ inbox[c] = "empty"
  /\ sent[c] < MaxRequests
  /\ sent' = [sent EXCEPT ![c] = @ + 1]
  /\ inbox' = [inbox EXCEPT ![c] = data]
  /\ UNCHANGED <<life, accepting, backlog, serving, users, opened, peer>>

ClientClose(c) ==
  /\ peer[c] = "open"
  /\ peer' = [peer EXCEPT ![c] = "closed"]
  /\ UNCHANGED <<life, accepting, backlog, serving, users, opened, inbox, sent>>
-----------------------------------------------------------------------------
(* UnixSocketConnection. *)

Close_Inverted(c) ==
  /\ connected' = [connected EXCEPT ![c] = FALSE]
  /\ fds' = IF connected[c] THEN fds ELSE fds \ {c}

\* close(): only the first to clear connected_ closes the descriptor.
Close(c) ==
  /\ connected' = [connected EXCEPT ![c] = FALSE]
  /\ fds' = IF connected[c] THEN fds \ {c} ELSE fds

\* An end of file, and an error of read() or send(), clear connected_ and leave the descriptor.
Disconnected(c) ==
  /\ connected' = [connected EXCEPT ![c] = FALSE]
  /\ UNCHANGED fds
-----------------------------------------------------------------------------
(* start(). *)

\* Two calls of start() at once, or one during stop(), assign over a thread
\* that runs, which ends the process: the users are taken not to do it.
Start(u) ==
  /\ \A v \in Users : pc[v] = "idle"
  /\ ~running
  /\ FreeDescriptor
  /\ starts < MaxStarts
  /\ starts' = starts + 1
  /\ running' = TRUE /\ listening' = TRUE /\ path' = TRUE
  /\ acceptor' = "check"
  /\ UNCHANGED <<held, backlog, serving, users, clients>>
-----------------------------------------------------------------------------
(* accept_loop(). *)

\* while (running_)
AcceptCheck ==
  /\ acceptor = "check"
  /\ acceptor' = IF running THEN "accept" ELSE "ended"
  /\ UNCHANGED <<life, held, backlog, serving, users, clients>>

\* accept() fails at once, on a closed listener or for want of a descriptor: the loop ends.
AcceptFails ==
  /\ acceptor = "accept"
  /\ ~listening \/ ~FreeDescriptor
  /\ acceptor' = "ended"
  /\ UNCHANGED <<life, held, backlog, serving, users, clients>>

AcceptBlocks ==
  /\ acceptor = "accept"
  /\ listening /\ FreeDescriptor
  /\ acceptor' = "blocked"
  /\ UNCHANGED <<life, held, backlog, serving, users, clients>>

\* A listener that was only kept by this call goes with it, and its backlog too.
Accept ==
  /\ acceptor = "blocked"
  /\ backlog # <<>>
  /\ LET c == Head(backlog) IN
       /\ held' = c
       /\ fds' = fds \cup {c}
       /\ connected' = [connected EXCEPT ![c] = TRUE]
  /\ backlog' = IF listening THEN Tail(backlog) ELSE <<>>
  /\ acceptor' = "limit"
  /\ UNCHANGED <<life, active, threads, handler, users, clients>>

\* The listener is closed under accept(), on a system that wakes the thread.
AcceptWoken ==
  /\ acceptor = "blocked"
  /\ ~listening /\ CloseWakes
  /\ acceptor' = "ended"
  /\ UNCHANGED <<life, held, backlog, serving, users, clients>>

\* At the limit the new connection is closed ...
Refuse_KeepsConnection ==
  /\ acceptor = "limit"
  /\ AtLimit
  /\ Close(held)
  /\ acceptor' = "check"
  /\ UNCHANGED <<life, held, backlog, active, threads, handler, users, clients>>

Refuse ==
  /\ acceptor = "limit"
  /\ AtLimit
  /\ Close(held)
  /\ acceptor' = "check"
  /\ held' = 0
  /\ UNCHANGED <<life, backlog, active, threads, handler, users, clients>>

\* ... and below it the lock is released,
UnderLimit ==
  /\ acceptor = "limit"
  /\ ~AtLimit
  /\ acceptor' = "admit"
  /\ UNCHANGED <<life, held, backlog, serving, users, clients>>

\* taken again, the connection added, and its thread started.
Admit_EndsLoop ==
  /\ acceptor = "admit"
  /\ active' = active \cup {held}
  /\ threads' = threads \cup {held}
  /\ handler' = [handler EXCEPT ![held] = "reading"]
  /\ held' = 0
  /\ acceptor' = "ended"
  /\ UNCHANGED <<life, backlog, connected, fds, users, clients>>

Admit ==
  /\ acceptor = "admit"
  /\ active' = active \cup {held}
  /\ threads' = threads \cup {held}
  /\ handler' = [handler EXCEPT ![held] = "reading"]
  /\ held' = 0
  /\ acceptor' = "check"
  /\ UNCHANGED <<life, backlog, connected, fds, users, clients>>
-----------------------------------------------------------------------------
(* handle_connection(). *)

GoTo(c, stage) == handler' = [handler EXCEPT ![c] = stage]

\* read() on a descriptor that stop() has closed.
ReadFails(c) ==
  /\ handler[c] = "reading"
  /\ c \notin fds
  /\ Disconnected(c)
  /\ GoTo(c, "leaving")
  /\ UNCHANGED <<life, accepting, backlog, active, threads, users, clients>>

ReadBlocks(c) ==
  /\ handler[c] = "reading"
  /\ c \in fds
  /\ GoTo(c, "blocked")
  /\ UNCHANGED <<life, accepting, backlog, active, threads, connected, fds, users, clients>>

\* The header of a frame; its payload is the business of the next read().
ReadHeader(c) ==
  /\ handler[c] = "blocked"
  /\ inbox[c] = "request"
  /\ inbox' = [inbox EXCEPT ![c] = "payload"]
  /\ GoTo(c, "reading")
  /\ UNCHANGED <<life, accepting, backlog, active, threads, connected, fds, users, opened, peer, sent>>

ReadPayload(c) ==
  /\ handler[c] = "blocked"
  /\ inbox[c] = "payload"
  /\ inbox' = [inbox EXCEPT ![c] = "empty"]
  /\ GoTo(c, "serving")
  /\ UNCHANGED <<life, accepting, backlog, active, threads, connected, fds, users, opened, peer, sent>>

\* codec.recv() refuses the frame.  Nothing is wrong with the socket: connected_ stays set.
ReadBad_Disconnects(c) ==
  /\ handler[c] = "blocked"
  /\ inbox[c] = "bad"
  /\ inbox' = [inbox EXCEPT ![c] = "empty"]
  /\ Disconnected(c)
  /\ GoTo(c, "leaving")
  /\ UNCHANGED <<life, accepting, backlog, active, threads, users, opened, peer, sent>>

ReadBad(c) ==
  /\ handler[c] = "blocked"
  /\ inbox[c] = "bad"
  /\ inbox' = [inbox EXCEPT ![c] = "empty"]
  /\ GoTo(c, "leaving")
  /\ UNCHANGED <<life, accepting, backlog, active, threads, connected, fds, users, opened, peer, sent>>

\* The end of file; what the client wrote before it left has been read.
ReadEnd(c) ==
  /\ handler[c] = "blocked"
  /\ inbox[c] = "empty" /\ peer[c] = "closed"
  /\ Disconnected(c)
  /\ GoTo(c, "leaving")
  /\ UNCHANGED <<life, accepting, backlog, active, threads, users, clients>>

\* The descriptor is closed under read(), on a system that wakes the thread.
ReadWoken(c) ==
  /\ handler[c] = "blocked"
  /\ c \notin fds /\ CloseWakes
  /\ Disconnected(c)
  /\ GoTo(c, "leaving")
  /\ UNCHANGED <<life, accepting, backlog, active, threads, users, clients>>

\* dispatch() has returned, and the response is written.
Respond(c) ==
  /\ handler[c] = "serving"
  /\ c \in fds /\ peer[c] = "open"
  /\ GoTo(c, "reading")
  /\ UNCHANGED <<life, accepting, backlog, active, threads, connected, fds, users, clients>>

\* send() fails, as the client is gone or stop() has closed the descriptor.
RespondFails(c) ==
  /\ handler[c] = "serving"
  /\ c \notin fds \/ peer[c] = "closed"
  /\ Disconnected(c)
  /\ GoTo(c, "leaving")
  /\ UNCHANGED <<life, accepting, backlog, active, threads, users, clients>>

\* remove_connection()
RemoveConnection_IfConnected(c) ==
  /\ handler[c] = "leaving"
  /\ active' = IF connected[c] THEN active \ {c} ELSE active
  /\ GoTo(c, "exiting")
  /\ UNCHANGED <<life, accepting, backlog, threads, connected, fds, users, clients>>

RemoveConnection(c) ==
  /\ handler[c] = "leaving"
  /\ active' = active \ {c}
  /\ GoTo(c, "exiting")
  /\ UNCHANGED <<life, accepting, backlog, threads, connected, fds, users, clients>>

\* The thread ends, and with its last reference the connection: ~UnixSocketConnection() closes it.
\* A stop() whose snapshot still has the connection closes it itself.
ThreadEnds(c) ==
  /\ handler[c] = "exiting"
  /\ GoTo(c, "done")
  /\ \/ (\E u \in Users : c \in snapshot[u]) /\ UNCHANGED <<connected, fds>>
     \/ (\A u \in Users : c \notin snapshot[u]) /\ Close(c)
  /\ UNCHANGED <<life, accepting, backlog, active, threads, users, clients>>
-----------------------------------------------------------------------------
(* stop(), and ~Server(), which calls it. *)

UserAt(u, here, next) == pc[u] = here /\ pc' = [pc EXCEPT ![u] = next]

\* running_.exchange(false): one call stops the server, any other returns at once.
StopBegins(u) ==
  /\ UserAt(u, "idle", IF running THEN "close_listener" ELSE "return")
  /\ running' = FALSE
  /\ UNCHANGED <<listening, path, starts, accepting, backlog, serving, snapshot, clients>>

CloseListener(u) ==
  /\ UserAt(u, "close_listener", "unlink")
  /\ listening' = FALSE
  /\ backlog' = IF OutlivesClose THEN backlog ELSE <<>>
  /\ UNCHANGED <<running, path, starts, accepting, serving, snapshot, clients>>

Unlink(u) ==
  /\ UserAt(u, "unlink", "join_acceptor")
  /\ path' = FALSE
  /\ UNCHANGED <<running, listening, starts, accepting, backlog, serving, snapshot, clients>>

\* accept_thread_.join(), then the snapshot of active_connections_ under the lock.
JoinAcceptor_Late(u) ==
  /\ UserAt(u, "join_acceptor", "close")
  /\ snapshot' = [snapshot EXCEPT ![u] = active]
  /\ UNCHANGED <<life, accepting, backlog, serving, clients>>

JoinAcceptor(u) ==
  /\ UserAt(u, "join_acceptor", "close")
  /\ acceptor = "ended"
  /\ acceptor' = "none"
  /\ snapshot' = [snapshot EXCEPT ![u] = active]
  /\ UNCHANGED <<life, held, backlog, serving, clients>>

\* framed->close() on each; the order of the snapshot does not matter.
CloseConnection(u, c) ==
  /\ UserAt(u, "close", "close")
  /\ c \in snapshot[u]
  /\ snapshot' = [snapshot EXCEPT ![u] = @ \ {c}]
  /\ Close(c)
  /\ UNCHANGED <<life, accepting, backlog, active, threads, handler, clients>>

\* handler_threads_ is moved out under the lock, and the threads are joined.
JoinHandlers(u) ==
  /\ UserAt(u, "close", "return")
  /\ snapshot[u] = {}
  /\ \A c \in threads : handler[c] = "done"
  /\ threads' = {}
  /\ UNCHANGED <<life, accepting, backlog, active, handler, connected, fds, snapshot, clients>>

StopReturned(u) ==
  /\ UserAt(u, "return", "idle")
  /\ UNCHANGED <<life, accepting, backlog, serving, snapshot, clients>>
-----------------------------------------------------------------------------
Acceptor == AcceptCheck \/ AcceptFails \/ AcceptBlocks \/ Accept \/ AcceptWoken
            \/ Refuse \/ UnderLimit \/ Admit
Handler(c) == ReadFails(c) \/ ReadBlocks(c) \/ ReadHeader(c) \/ ReadPayload(c) \/ ReadBad(c)
              \/ ReadEnd(c) \/ ReadWoken(c) \/ Respond(c) \/ RespondFails(c)
              \/ RemoveConnection(c) \/ ThreadEnds(c)
Stopping(u) == CloseListener(u) \/ Unlink(u) \/ JoinAcceptor(u)
               \/ (\E c \in Conns : CloseConnection(u, c)) \/ JoinHandlers(u) \/ StopReturned(u)
User(u) == Start(u) \/ StopBegins(u) \/ Stopping(u)
Client(c) == (\E data \in {"request", "bad"} : ClientSend(c, data)) \/ ClientClose(c)

Next == \/ Acceptor
        \/ ClientConnect
        \/ \E c \in Conns : Handler(c) \/ Client(c)
        \/ \E u \in Users : User(u)

Spec == Init /\ [][Next]_vars

\* Threads run, a service returns, and a socket takes a response; nothing is asked of clients.
FairSpec == Spec /\ WF_vars(Acceptor)
                 /\ \A c \in Conns : WF_vars(Handler(c))
                 /\ \A u \in Users : WF_vars(Stopping(u))
-----------------------------------------------------------------------------
(* Properties. *)

\* Types, and what the control points imply: a connection is held exactly
\* between accept() and its refusal or admission; stop() closes only what it
\* has a snapshot of.
TypeOK ==
  /\ running \in BOOLEAN /\ listening \in BOOLEAN /\ path \in BOOLEAN
  /\ acceptor \in {"none", "check", "accept", "blocked", "limit", "admit", "ended"}
  /\ held \in Conns \cup {0} /\ (held # 0 <=> acceptor \in {"limit", "admit"})
  /\ backlog \in Seq(1..opened)
  /\ active \subseteq Conns /\ threads \subseteq Conns /\ fds \subseteq Conns
  /\ handler \in [Conns -> {"none", "reading", "blocked", "serving", "leaving", "exiting", "done"}]
  /\ connected \in [Conns -> BOOLEAN]
  /\ pc \in [Users -> {"idle", "close_listener", "unlink", "join_acceptor", "close", "return"}]
  /\ snapshot \in [Users -> SUBSET Conns]
  /\ \A u \in Users : pc[u] # "close" => snapshot[u] = {}
  /\ opened \in 0..MaxConns
  /\ peer \in [Conns -> {"none", "open", "closed"}]
  /\ inbox \in [Conns -> {"empty", "request", "payload", "bad"}]
  /\ sent \in [Conns -> 0..MaxRequests]
  /\ starts \in 0..MaxStarts

\* config_.max_connections (server.cpp:96): never are more clients served at
\* once, though the limit is checked under one lock and the connection added
\* under another, and every client being served is one stop() can find.
WithinLimit ==
  LET served == {c \in Conns : handler[c] \in Alive} IN
    /\ served \subseteq active
    /\ Cardinality(served) <= MaxConnections

\* When the only user's stop() returns (server.h:34, "blocks until all threads
\* have exited"), no thread of the server is left, no client waits in a
\* backlog, the socket file is gone, and no client that is still there has a
\* connection the server keeps open.
StopLeavesNothing ==
  \A u \in Users : pc[u] = "return" =>
    /\ acceptor = "none" /\ \A c \in Conns : handler[c] \in {"none", "done"}
    /\ ~listening /\ ~path /\ backlog = <<>>
    /\ \A c \in fds : peer[c] = "closed"

\* A client the server has done with, refused or served to the end, is told:
\* its connection is closed, or stop() is about to, unless the client left first.
ClientIsTold ==
  \A c \in 1..opened :
    /\ peer[c] = "open" /\ c \in fds
    /\ handler[c] \in {"none", "done"}
    => c = held \/ \E u \in Users : c \in snapshot[u]

\* stop() returns, even with clients that stay connected and never say a word
\* (server_test.cpp:229).
StopReturns == \A u \in Users : pc[u] = "close_listener" ~> pc[u] = "return"

\* A client that leaves gives its place under the limit back.
SlotReclaimed == \A c \in Conns : c \in active /\ peer[c] = "closed" ~> c \notin active

Waits(c) == \E i \in DOMAIN backlog : backlog[i] = c

\* accept() is never called when the descriptors are used up.
DescriptorsSuffice == [](acceptor = "accept" /\ listening => FreeDescriptor)

\* While the descriptors suffice, no client waits in the backlog for ever: it is
\* accepted, or dropped by stop().  When they do not, accept_loop() ends (server.cpp:91)
\* and nobody accepts until the next start(): AcceptsAfterDisconnects is about that.
NoneWaitsForever == DescriptorsSuffice => \A c \in Conns : Waits(c) ~> ~Waits(c)

\* When all its clients have left and their threads have ended, a running
\* server is "still running and accepting new connections" (server_test.cpp:197):
\* its accept thread is there, and there is a descriptor for the next client.
AcceptsAfterDisconnects ==
  /\ running /\ backlog = <<>> /\ held = 0
  /\ \A c \in 1..opened : peer[c] = "closed" /\ handler[c] \in {"none", "done"}
  => acceptor # "ended" /\ FreeDescriptor
-----------------------------------------------------------------------------
(* The inductive invariant of the proofs, in named parts. *)

\* Between the check of the limit and the admission only other threads run,
\* and they can only shrink active; a handler is in active until it removes itself.
LimitInv ==
  /\ Cardinality(active) <= MaxConnections
  /\ acceptor = "admit" => Cardinality(active) < MaxConnections
  /\ \A c \in Conns : handler[c] \in Alive \cup {"leaving"} => c \in active

BeforeJoin == {"close_listener", "unlink", "join_acceptor"}
InStop == BeforeJoin \cup {"close"}

\* At most one user is past the exchange of running_; until it has joined the
\* accept thread that thread may be there, and after that it is not.
LifeInv ==
  /\ \A u, v \in Users : pc[u] \in InStop /\ pc[v] \in InStop => u = v
  /\ \A u \in Users : pc[u] \in InStop => ~running
  /\ \A u \in Users : pc[u] = "close" => acceptor = "none"
  /\ ~running /\ acceptor # "none" => \E u \in Users : pc[u] \in BeforeJoin

\* The server's end of a connection whose client is there: connected_ is set
\* while the descriptor is open, and so whoever closes it does close it.
DescriptorInv ==
  /\ \A c \in Conns : c <= opened => peer[c] # "none"
  /\ \A c \in fds : c <= opened
  /\ \A c \in fds : peer[c] = "open" => connected[c]

\* A backlog belongs to a listening socket, and a thread that runs to stop()'s list.
OwnerInv ==
  /\ backlog # <<>> => listening \/ OutlivesClose
  /\ \A c \in Conns : handler[c] \notin {"none", "done"} => c \in threads

IndInv == TypeOK /\ LimitInv /\ LifeInv /\ DescriptorInv /\ ClientIsTold /\ OwnerInv

\* One user: what each point of stop() has behind it.
OneUser == \A u, v \in Users : u = v
Stopped(u) == pc[u] = "return" \/ (pc[u] = "idle" /\ ~running)
StopInv ==
  \A u \in Users :
    /\ pc[u] # "idle" => ~running
    /\ Stopped(u) \/ pc[u] \in {"unlink", "join_acceptor", "close"} => ~listening
    /\ Stopped(u) \/ pc[u] \in {"join_acceptor", "close"} => ~path
    /\ Stopped(u) => threads = {}
=============================================================================
