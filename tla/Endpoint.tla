------------------------------ MODULE Endpoint ------------------------------
(***************************************************************************)
(* Several server processes, of both SDKs, that share one socket path, and *)
(* the clients that dial it (UnixSocketTransport, UnixSocketServer).       *)
(*                                                                         *)
(* Servers start, stop and crash; every system call on the path is a step  *)
(* of its own, so that those of two processes interleave.  A socket is     *)
(* <<p, n>>, the n-th that process p made; the path leads to a socket, to  *)
(* the dead file of one, or nowhere.  What a server does between start and *)
(* stop is in CppServer and JsServer, how a client comes to dial again in  *)
(* CppClient and JsClient.                                                 *)
(***************************************************************************)
EXTENDS Naturals, Sequences, FiniteSets

CONSTANTS
  CppServers, TsServers,   \* the processes
  Clients,
  MaxStarts                \* bound: calls of start() in one process

ASSUME EndpointAssumption ==
  CppServers \cap TsServers = {} /\ MaxStarts \in Nat

Servers == CppServers \cup TsServers
Nowhere == <<>>

VARIABLES
  path,       \* the socket the file belongs to, or Nowhere
  state,      \* by process: "down", "starting", "failed", "up", "stopping"
  todo,       \* by process: the system calls start() or stop() has still to make
  starts,     \* by process: sockets made so far
  listening,  \* by process: its current socket accepts connections
  conn,       \* by client: the socket it is connected to, or Nowhere
  disturbed   \* history, by process: another one was starting or stopping
              \* since its own start began

servers == <<state, todo, starts, listening, disturbed>>
vars == <<path, servers, conn>>

Socket(p) == <<p, starts[p]>>

StartCalls_UnlinkLast == <<"bind", "listen", "unlink">>
StartCalls_NoUnlink == <<"bind", "listen">>
StartCalls == <<"unlink", "bind", "listen">>

(* transport_->close() closes and unlinks; libuv unlinks before it closes, *)
(* and the callback of server.close() unlinks again.                       *)
StopCalls(p) ==
  IF p \in CppServers THEN <<"close", "unlink">>
                      ELSE <<"unlink", "close", "unlink">>

Init ==
  /\ path = Nowhere
  /\ state = [p \in Servers |-> "down"]
  /\ todo = [p \in Servers |-> <<>>]
  /\ starts = [p \in Servers |-> 0]
  /\ listening = [p \in Servers |-> FALSE]
  /\ disturbed = [p \in Servers |-> FALSE]
  /\ conn = [c \in Clients |-> Nowhere]

Busy(p) == todo[p] # <<>>

-----------------------------------------------------------------------------

(* History: p begins to start or stop, which the others may notice. *)
Disturb(p) == [q \in Servers |-> IF q = p THEN \E r \in Servers \ {p} : Busy(r)
                                 ELSE state[q] # "down"]

Start(p) ==
  /\ state[p] \in {"down", "failed"} /\ starts[p] < MaxStarts
  /\ state' = [state EXCEPT ![p] = "starting"]
  /\ todo' = [todo EXCEPT ![p] = StartCalls]
  /\ starts' = [starts EXCEPT ![p] = @ + 1]
  /\ disturbed' = Disturb(p)
  /\ UNCHANGED <<path, listening, conn>>

Stop(p) ==
  /\ state[p] = "up"
  /\ state' = [state EXCEPT ![p] = "stopping"]
  /\ todo' = [todo EXCEPT ![p] = StopCalls(p)]
  /\ disturbed' = Disturb(p)
  /\ UNCHANGED <<path, starts, listening, conn>>

(* The call p makes next, and what is left after it. *)
Calls(p, call) == Busy(p) /\ Head(todo[p]) = call

Done(p) ==
  /\ todo' = [todo EXCEPT ![p] = Tail(@)]
  /\ state' = IF Tail(todo[p]) # <<>> THEN state
              ELSE [state EXCEPT ![p] = IF @ = "starting" THEN "up" ELSE "down"]

(* Whatever is at the path goes, whoever made it. *)
Unlink(p) ==
  /\ Calls(p, "unlink") /\ Done(p)
  /\ path' = Nowhere
  /\ UNCHANGED <<starts, listening, disturbed, conn>>

Bind(p) ==
  /\ Calls(p, "bind") /\ path = Nowhere
  /\ Done(p)
  /\ path' = Socket(p)
  /\ UNCHANGED <<starts, listening, disturbed, conn>>

(* EADDRINUSE: start() returns the error, or rejects. *)
BindFails(p) ==
  /\ Calls(p, "bind") /\ path # Nowhere
  /\ state' = [state EXCEPT ![p] = "failed"]
  /\ todo' = [todo EXCEPT ![p] = <<>>]
  /\ UNCHANGED <<path, starts, listening, disturbed, conn>>

Listen(p) ==
  /\ Calls(p, "listen") /\ Done(p)
  /\ listening' = [listening EXCEPT ![p] = TRUE]
  /\ UNCHANGED <<path, starts, disturbed, conn>>

(* The listener and its connections end.  Which comes first differs between *)
(* the SDKs (server.cpp:61-70, server.ts:112-121); here it is one step.    *)
Shut(p) ==
  /\ listening' = [listening EXCEPT ![p] = FALSE]
  /\ conn' = [c \in Clients |->
                IF conn[c] = Socket(p) THEN Nowhere ELSE conn[c]]

CloseListener(p) ==
  /\ Calls(p, "close") /\ Done(p)
  /\ Shut(p)
  /\ UNCHANGED <<path, starts, disturbed>>

(* The kernel closes what the process had open; its file stays. *)
Crash(p) ==
  /\ state[p] # "down"
  /\ state' = [state EXCEPT ![p] = "down"]
  /\ todo' = [todo EXCEPT ![p] = <<>>]
  /\ Shut(p)
  /\ UNCHANGED <<path, starts, disturbed>>

(* connect() reaches the socket the path leads to, if that still listens;  *)
(* otherwise ECONNREFUSED or ENOENT, and the client tries again later.     *)
Connect(c) ==
  /\ conn[c] = Nowhere
  /\ \E p \in Servers : listening[p] /\ path = Socket(p)
  /\ conn' = [conn EXCEPT ![c] = path]
  /\ UNCHANGED <<path, servers>>

SystemCall(p) ==
  Unlink(p) \/ Bind(p) \/ BindFails(p) \/ Listen(p) \/ CloseListener(p)

Next ==
  \/ \E p \in Servers : Start(p) \/ Stop(p) \/ SystemCall(p) \/ Crash(p)
  \/ \E c \in Clients : Connect(c)

(* start() and stop() go on; a client keeps dialing, as the reconnect      *)
(* loops do.                                                               *)
Fairness ==
  /\ \A p \in Servers : WF_vars(SystemCall(p))
  /\ \A c \in Clients : WF_vars(Connect(c))

Spec == Init /\ [][Next]_vars /\ Fairness

-----------------------------------------------------------------------------

(* A start that no other process's start or stop overlaps succeeds,        *)
(* whatever file an earlier server left behind, also if that server still  *)
(* runs; and from then on the path leads to it, until another process      *)
(* starts or stops (unix_socket_transport.cpp:83-112, 163-172,             *)
(* unix-socket-server.ts:21-50).                                           *)
OwnsPath ==
  \A p \in Servers :
    ~disturbed[p] => /\ state[p] # "failed"
                     /\ state[p] = "up" => path = Socket(p) /\ listening[p]

(* The socket a client is connected to still has its server. *)
Served(c) == \E p \in Servers : conn[c] = Socket(p) /\ listening[p]

(* Once a server is up for good and left alone, every client that keeps    *)
(* dialing is connected for good, crashes and other servers before that    *)
(* notwithstanding (client.ts:184-210, client.cpp:85-106).                 *)
ClientsComeBack ==
  \A c \in Clients :
    <>[](\E p \in Servers : state[p] = "up" /\ ~disturbed[p]) => <>[]Served(c)
=============================================================================
