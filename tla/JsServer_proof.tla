--------------------------- MODULE JsServer_proof ---------------------------
(***************************************************************************)
(* Proofs about JsServer, for any number of listeners, clients and frames. *)
(* ConnInv says what socket, flag, loop and activeConnections know of one  *)
(* connection, and holds whatever the user does.  LifeInv says that one    *)
(* listener at most is alive, and that all is its; it needs a user who     *)
(* awaits start() and stop().                                              *)
(***************************************************************************)
EXTENDS JsServer, TLAPS

Types ==
  /\ isRunning \in BOOLEAN
  /\ listens \in 0 .. MaxListens /\ socketServer \in 0 .. listens
  /\ file \in 0 .. listens
  /\ listener \in [Listeners -> {"none", "bound", "listening", "closing", "closed"}]
  /\ \A l \in Listeners : l > listens => listener[l] = "none"
  /\ opened \in 0 .. MaxConns /\ at \in [Conns -> 0 .. listens]
  /\ active \in SUBSET Conns
  /\ sock \in [Conns -> {"none", "pending", "open", "destroyed", "closed"}]
  /\ connected \in [Conns -> BOOLEAN]
  /\ loop \in [Conns -> {"none", "ended"} \cup Looping]
  /\ peer \in [Conns -> {"none", "open", "closed"}]
  /\ inbox \in [Conns -> {"empty", "request", "bad"}]
  /\ sent \in [Conns -> Nat]

(* A connection no loop was started for. *)
Fresh(c) == c \notin active /\ loop[c] = "none"

Agree(c) ==
  /\ connected[c] <=> sock[c] = "open"
  /\ sock[c] = "open" => c \in active
  /\ c \in active => loop[c] \in Looping
  /\ sock[c] \in {"none", "pending"} => Fresh(c)
  /\ loop[c] \in {"recv", "send"} => sock[c] \in {"open", "destroyed"}
  /\ c > opened => sock[c] = "none"

ConnInv == \A c \in Conns : Agree(c)

Closing == socketServer # 0 /\ listener[socketServer] = "closing"
Done(c) == sock[c] \in {"none", "closed"}

LifeInv ==
  /\ \A l \in Listeners :
       listener[l] \in {"bound", "listening", "closing"} <=> l = socketServer
  /\ file = IF Closing THEN 0 ELSE socketServer
  /\ isRunning <=> socketServer # 0 /\ listener[socketServer] = "listening"
  /\ \A c \in Conns : ~Done(c) => socketServer # 0 /\ at[c] = socketServer
  /\ Closing => \A c \in Conns : sock[c] # "pending"

IInv == Types /\ ConnInv

-----------------------------------------------------------------------------
(* Types. *)

(* The types hold at the start. *)
LEMMA TypesInit == Init => Types
  <1> SUFFICES ASSUME Init PROVE Types
    OBVIOUS
  <1>1. connected \in [Conns -> BOOLEAN] /\ active \in SUBSET Conns
    BY DEF Init
  <1>2. /\ listens \in 0 .. MaxListens /\ socketServer \in 0 .. listens
        /\ file \in 0 .. listens /\ opened \in 0 .. MaxConns
        /\ at \in [Conns -> 0 .. listens] /\ sent \in [Conns -> Nat]
    BY JsServerAssumption DEF Init
  <1>3. QED
    BY <1>1, <1>2 DEF Init, Types, Looping

(* Every step keeps them. *)
LEMMA TypesStep == Types /\ [Next]_vars => Types'
  <1> SUFFICES ASSUME Types, [Next]_vars PROVE Types'
    OBVIOUS
  <1> USE DEF Types, Listeners, Conns, Looping
  <1>1. CASE Start
    <2>1. /\ listens' = listens + 1 /\ listens' \in 0 .. MaxListens
          /\ listens' \in Listeners /\ socketServer' = listens' /\ file' = listens'
      BY <1>1, JsServerAssumption DEF Start
    <2>2. /\ listener' \in [Listeners -> {"none", "bound", "listening", "closing", "closed"}]
          /\ \A l \in Listeners : l > listens' => listener'[l] = "none"
      BY <1>1, <2>1 DEF Start
    <2>3. at' \in [Conns -> 0 .. listens']
      BY <1>1, <2>1 DEF Start, clients
    <2>4. QED
      BY <1>1, <2>1, <2>2, <2>3 DEF Start, serving, clients
  <1>2. CASE Stop
    <2>1. connected' \in [Conns -> BOOLEAN] /\ active' \in SUBSET Conns
      BY <1>2 DEF Stop
    <2>2. sock' \in [Conns -> {"none", "pending", "open", "destroyed", "closed"}]
      BY <1>2 DEF Stop
    <2>3. /\ listener' \in [Listeners -> {"none", "bound", "listening", "closing", "closed"}]
          /\ file' \in 0 .. listens
          /\ \A l \in Listeners : l > listens => listener'[l] = "none"
      BY <1>2, JsServerAssumption DEF Stop
    <2>4. QED
      BY <1>2, <2>1, <2>2, <2>3 DEF Stop, clients
  <1>3. ASSUME NEW l \in Listeners, Started(l) PROVE Types'
    BY <1>3 DEF Started, serving, clients
  <1>4. ASSUME NEW l \in Listeners, Closed(l) PROVE Types'
    BY <1>4 DEF Closed, serving, clients
  <1>5. CASE ClientConnect
    <2>1. opened + 1 \in Conns /\ opened' \in 0 .. MaxConns
      BY <1>5, JsServerAssumption DEF ClientConnect
    <2>2. /\ at' \in [Conns -> 0 .. listens]
          /\ sock' \in [Conns -> {"none", "pending", "open", "destroyed", "closed"}]
          /\ peer' \in [Conns -> {"none", "open", "closed"}]
      BY <1>5, <2>1 DEF ClientConnect
    <2>3. QED
      BY <1>5, <2>1, <2>2 DEF ClientConnect, life
  <1>6. ASSUME NEW c \in Conns, NEW data \in {"request", "bad"}, ClientSend(c, data)
        PROVE  Types'
    BY <1>6 DEF ClientSend, life, serving
  <1>7. ASSUME NEW c \in Conns, ClientClose(c) PROVE Types'
    BY <1>7 DEF ClientClose, life, serving
  <1>8. ASSUME NEW c \in Conns, Connection(c) PROVE Types'
    BY <1>8 DEF Connection, life, clients
  <1>9. ASSUME NEW c \in Conns, Receive(c) PROVE Types'
    BY <1>9 DEF Receive, GoOn, End, life, clients
  <1>10. ASSUME NEW c \in Conns, Respond(c) PROVE Types'
    BY <1>10 DEF Respond, GoOn, End, life, clients
  <1>11. ASSUME NEW c \in Conns, Written(c) PROVE Types'
    BY <1>11 DEF Written, GoOn, End, life, clients
  <1>12. ASSUME NEW c \in Conns, SocketClose(c) PROVE Types'
    BY <1>12 DEF SocketClose, life, clients
  <1>13. CASE UNCHANGED vars
    BY <1>13 DEF vars, life, serving, clients
  <1>14. QED
    BY <1>1, <1>2, <1>3, <1>4, <1>5, <1>6, <1>7, <1>8, <1>9, <1>10, <1>11, <1>12, <1>13
    DEF Next, Settle, Conn, Client

-----------------------------------------------------------------------------
(* One connection. *)

(* No connection is there at the start. *)
LEMMA ConnInit == Init => ConnInv
  BY DEF Init, ConnInv, Agree, Fresh, Conns

(* A step of one connection, which leaves the others as they are. *)
Only(c) ==
  /\ opened' = opened
  /\ \A d \in Conns \ {c} :
       /\ sock'[d] = sock[d] /\ connected'[d] = connected[d]
       /\ loop'[d] = loop[d] /\ (d \in active' <=> d \in active)

(* A step of one connection has to be looked at for that one only. *)
LEMMA OnlyOne ==
  ASSUME ConnInv, NEW c \in Conns, Only(c), Agree(c)' PROVE ConnInv'
  <1>1. ASSUME NEW d \in Conns \ {c} PROVE Agree(d)'
    BY DEF ConnInv, Only, Agree, Fresh
  <1>2. QED
    BY <1>1 DEF ConnInv

(* The end of a loop takes its connection out of activeConnections with the socket. *)
LEMMA EndKeeps ==
  ASSUME Types, ConnInv, NEW c \in Conns, sock[c] \notin {"none", "pending"},
         End(c), opened' = opened
  PROVE  ConnInv'
  <1>1. /\ loop'[c] = "ended" /\ c \notin active' /\ connected'[c] = FALSE
        /\ sock'[c] = IF sock[c] = "open" THEN "destroyed" ELSE sock[c]
    BY DEF End, Types
  <1>2. Only(c)
    BY DEF End, Types, Only
  <1>3. Agree(c)'
    BY <1>1 DEF Agree, ConnInv, Looping
  <1>4. QED
    BY <1>2, <1>3, OnlyOne

(* A loop that goes on is that of an open connection in activeConnections. *)
LEMMA GoOnKeeps ==
  ASSUME Types, ConnInv, NEW c \in Conns, NEW stage \in Looping,
         sock[c] = "open", GoOn(c, stage), opened' = opened
  PROVE  ConnInv'
  <1>1. loop'[c] = stage /\ UNCHANGED <<active, sock, connected>>
    BY DEF GoOn, Types
  <1>2. Only(c)
    BY DEF GoOn, Types, Only
  <1>3. Agree(c)'
    BY <1>1 DEF Agree, ConnInv, Fresh
  <1>4. QED
    BY <1>2, <1>3, OnlyOne

(* Every step keeps what is known of a connection, whatever the user does. *)
LEMMA ConnStep == Types /\ ConnInv /\ [Next]_vars => ConnInv'
  <1> SUFFICES ASSUME Types, ConnInv, [Next]_vars PROVE ConnInv'
    OBVIOUS
  <1> USE DEF Types, ConnInv, Agree, Fresh, Conns, Looping
  <1>1. CASE Start
    BY <1>1 DEF Start, serving, clients
  <1>2. CASE Stop
    BY <1>2 DEF Stop, clients
  <1>3. ASSUME NEW l \in Listeners, Started(l) PROVE ConnInv'
    BY <1>3 DEF Started, serving, clients
  <1>4. ASSUME NEW l \in Listeners, Closed(l) PROVE ConnInv'
    BY <1>4 DEF Closed, serving, clients
  <1>5. CASE ClientConnect
    BY <1>5 DEF ClientConnect, life
  <1>6. ASSUME NEW c \in Conns, NEW data \in {"request", "bad"}, ClientSend(c, data)
        PROVE  ConnInv'
    BY <1>6 DEF ClientSend, life, serving
  <1>7. ASSUME NEW c \in Conns, ClientClose(c) PROVE ConnInv'
    BY <1>7 DEF ClientClose, life, serving
  <1>8. ASSUME NEW c \in Conns, Connection(c) PROVE ConnInv'
    BY <1>8 DEF Connection, life, clients
  <1>9. ASSUME NEW c \in Conns, Receive(c) PROVE ConnInv'
    <2>1. sock[c] = "open" /\ opened' = opened
          /\ (GoOn(c, "handler") \/ End(c))
      BY <1>9 DEF Receive, clients
    <2>2. QED
      BY <2>1, GoOnKeeps, EndKeeps DEF Looping
  <1>10. ASSUME NEW c \in Conns, Respond(c) PROVE ConnInv'
    <2>1. opened' = opened /\ sock[c] \notin {"none", "pending"}
      BY <1>10 DEF Respond, ConnInv, Agree, Fresh, clients
    <2>2. CASE connected[c] /\ GoOn(c, "send")
      BY <2>1, <2>2, GoOnKeeps DEF Looping, ConnInv, Agree
    <2>3. CASE End(c)
      BY <2>1, <2>3, EndKeeps
    <2>4. QED
      BY <1>10, <2>2, <2>3 DEF Respond
  <1>11. ASSUME NEW c \in Conns, Written(c) PROVE ConnInv'
    <2>1. opened' = opened /\ sock[c] \notin {"none", "pending"}
      BY <1>11 DEF Written, ConnInv, Agree, Fresh, clients
    <2>2. CASE connected[c] /\ GoOn(c, "recv")
      BY <2>1, <2>2, GoOnKeeps DEF Looping, ConnInv, Agree
    <2>3. CASE End(c)
      BY <2>1, <2>3, EndKeeps
    <2>4. QED
      BY <1>11, <2>2, <2>3 DEF Written
  <1>12. ASSUME NEW c \in Conns, SocketClose(c) PROVE ConnInv'
    <2>1. /\ sock[c] \notin {"none", "pending"} /\ sock'[c] = "closed"
          /\ connected'[c] = FALSE /\ loop[c] # "send" /\ opened' = opened
      BY <1>12 DEF SocketClose, Types, clients
    <2>2. Only(c)
      BY <1>12 DEF SocketClose, Types, Only, clients
    <2>3. CASE loop[c] = "recv"
      <3>1. loop'[c] = "ended" /\ c \notin active'
        BY <1>12, <2>3 DEF SocketClose, Types
      <3>2. Agree(c)'
        BY <2>1, <3>1 DEF Agree, ConnInv, Looping
      <3>3. QED
        BY <2>2, <3>2, OnlyOne
    <2>4. CASE loop[c] # "recv"
      <3>1. loop' = loop /\ active' = active /\ opened' = opened
        BY <1>12, <2>4 DEF SocketClose, clients
      <3>2. Agree(c)'
        BY <2>1, <2>4, <3>1 DEF Agree, ConnInv
      <3>3. QED
        BY <2>2, <3>2, OnlyOne
    <2>5. QED
      BY <2>3, <2>4
  <1>13. CASE UNCHANGED vars
    BY <1>13 DEF vars, life, serving, clients
  <1>14. QED
    BY <1>1, <1>2, <1>3, <1>4, <1>5, <1>6, <1>7, <1>8, <1>9, <1>10, <1>11, <1>12, <1>13
    DEF Next, Settle, Conn, Client

-----------------------------------------------------------------------------
(* One listener. *)

(* There is no listener at the start. *)
LEMMA LifeInit == Init => LifeInv
  BY DEF Init, LifeInv, Closing, Done, Listeners, Conns

(* What happens on a connection makes none of another listener. *)
LEMMA LifeKeeps ==
  ASSUME LifeInv, UNCHANGED <<life, at>>,
         \A c \in Conns :
           /\ ~Done(c)' => ~Done(c)
           /\ sock'[c] = "pending" => sock[c] = "pending"
  PROVE  LifeInv'
  BY DEF LifeInv, Closing, life

(* What a loop does to its connection concerns no listener. *)
LEMMA EndLife ==
  ASSUME Types, LifeInv, NEW c \in Conns, UNCHANGED <<life, clients>>,
         End(c) \/ \E stage \in Looping : GoOn(c, stage)
  PROVE  LifeInv'
  <1>1. CASE End(c)
    BY <1>1, LifeKeeps DEF End, Done, Types, clients
  <1>2. CASE \E stage \in Looping : GoOn(c, stage)
    BY <1>2, LifeKeeps DEF GoOn, Done, clients
  <1>3. QED
    BY <1>1, <1>2

(* Every step keeps one listener alive at most, if the user awaits. *)
LEMMA LifeStep == Awaits /\ Types /\ ConnInv /\ LifeInv /\ [Next]_vars => LifeInv'
  <1> SUFFICES ASSUME Awaits, Types, ConnInv, LifeInv, [Next]_vars PROVE LifeInv'
    OBVIOUS
  <1> USE DEF Types, ConnInv, Agree, LifeInv, Fresh, Closing, Done, Listeners, Conns, Looping,
         MayCall, Pending, Settled
  <1>1. CASE Start
    <2>1. /\ ~isRunning /\ ~Pending /\ listens' = listens + 1
          /\ socketServer' = listens' /\ file' = listens'
          /\ listener' = [listener EXCEPT ![listens + 1] = "bound"]
          /\ isRunning' = isRunning /\ sock' = sock
      BY <1>1 DEF Start, MayStart, serving
    <2>2. socketServer = 0
      BY <2>1, JsServerAssumption
    <2>3. listens + 1 \in Listeners /\ listens \in Nat
      BY <1>1, JsServerAssumption DEF Start
    <2>4. /\ ~Closing' /\ ~isRunning' /\ listener'[socketServer'] = "bound"
          /\ \A c \in Conns : Done(c)'
      BY <2>1, <2>2, <2>3
    <2>5. \A l \in Listeners : l # listens' => listener'[l] = listener[l]
      BY <2>1, <2>3
    <2>6. QED
      BY <2>1, <2>2, <2>3, <2>4, <2>5
  <1>2. CASE Stop
    <2>1. /\ isRunning /\ ~isRunning' /\ socketServer' = socketServer
          /\ socketServer \in Listeners /\ socketServer # 0 /\ file' = 0
          /\ listener' = [listener EXCEPT ![socketServer] = "closing"] /\ at' = at
      BY <1>2, JsServerAssumption DEF Stop, clients
    <2>2. Closing'
      BY <2>1
    <2>3. \A l \in Listeners :
            listener'[l] \in {"bound", "listening", "closing"} <=> l = socketServer
      BY <2>1
    <2>4. \A c \in Conns :
            (~Done(c)' => ~Done(c)) /\ sock'[c] # "pending"
      BY <1>2, <2>1 DEF Stop
    <2>5. QED
      BY <2>1, <2>2, <2>3, <2>4
  <1>3. ASSUME NEW l \in Listeners, Started(l) PROVE LifeInv'
    BY <1>3 DEF Started, serving, clients
  <1>4. ASSUME NEW l \in Listeners, Closed(l) PROVE LifeInv'
    BY <1>4 DEF Closed, serving, clients
  <1>5. CASE ClientConnect
    BY <1>5 DEF ClientConnect, life
  <1>6. ASSUME NEW c \in Conns, NEW data \in {"request", "bad"}, ClientSend(c, data)
        PROVE  LifeInv'
    BY <1>6 DEF ClientSend, life, serving
  <1>7. ASSUME NEW c \in Conns, ClientClose(c) PROVE LifeInv'
    BY <1>7 DEF ClientClose, life, serving
  <1>8. ASSUME NEW c \in Conns, Connection(c) PROVE LifeInv'
    BY <1>8 DEF Connection, life, clients
  <1>9. ASSUME NEW c \in Conns, Receive(c) PROVE LifeInv'
    BY <1>9, EndLife DEF Receive
  <1>10. ASSUME NEW c \in Conns, Respond(c) PROVE LifeInv'
    BY <1>10, EndLife DEF Respond
  <1>11. ASSUME NEW c \in Conns, Written(c) PROVE LifeInv'
    BY <1>11, EndLife DEF Written
  <1>12. ASSUME NEW c \in Conns, SocketClose(c) PROVE LifeInv'
    BY <1>12 DEF SocketClose, life, clients
  <1>13. CASE UNCHANGED vars
    BY <1>13 DEF vars, life, serving, clients
  <1>14. QED
    BY <1>1, <1>2, <1>3, <1>4, <1>5, <1>6, <1>7, <1>8, <1>9, <1>10, <1>11, <1>12, <1>13
    DEF Next, Settle, Conn, Client

-----------------------------------------------------------------------------
(* Theorems. *)

(* Types, and what socket, flag, loop and activeConnections of a           *)
(* connection agree on (server.ts:128-165, unix-socket.ts:26-40).          *)
THEOREM Invariant == Spec => []IInv
  <1>1. Init => IInv
    BY TypesInit, ConnInit DEF IInv
  <1>2. IInv /\ [Next]_vars => IInv'
    BY TypesStep, ConnStep DEF IInv
  <1>3. QED
    BY <1>1, <1>2, PTL DEF Spec

(* stop() can reach every open socket: it is in activeConnections and says *)
(* it is connected, and nothing else stays there (server.ts:114-116).      *)
THEOREM OpenSocketsAreActive == Spec => []OpenIsActive
  <1>1. IInv => OpenIsActive
    BY DEF IInv, Types, ConnInv, Agree, OpenIsActive
  <1>2. QED
    BY <1>1, Invariant, PTL

(* For a user who awaits start() and stop(), one listener at most is alive, *)
(* and socketServer, the file and every socket are its (server.ts:101-122). *)
THEOREM OneListener == Awaits /\ Spec => [](IInv /\ LifeInv)
  <1>1. SUFFICES ASSUME Awaits PROVE Spec => [](IInv /\ LifeInv)
    OBVIOUS
  <1>2. Init => LifeInv
    BY LifeInit
  <1>3. IInv /\ LifeInv /\ [Next]_vars => LifeInv'
    BY <1>1, LifeStep DEF IInv
  <1>4. QED
    BY <1>2, <1>3, Invariant, PTL DEF Spec

(* While the server runs its file leads to the listener stop() will close, *)
(* and there is no other one (server.ts:100).                              *)
THEOREM ServerIsReachable == Awaits /\ Spec => []Reachable
  <1>1. IInv /\ LifeInv => Reachable
    <2> SUFFICES ASSUME IInv, LifeInv, isRunning, Settled
                 PROVE  /\ socketServer # 0 /\ file = socketServer
                        /\ {l \in Listeners : listener[l] = "listening"}
                             = {socketServer}
      BY DEF Reachable
    <2>1. socketServer # 0 /\ listener[socketServer] = "listening" /\ ~Closing
      BY DEF LifeInv, Closing
    <2>2. socketServer \in Listeners
      BY <2>1, JsServerAssumption DEF IInv, Types, Listeners
    <2>3. QED
      BY <2>1, <2>2 DEF LifeInv
  <1>2. QED
    BY <1>1, OneListener, PTL

(* Once stop() has resolved nothing is left of the server: no listener, no *)
(* file, no socket, and no loop that reads or writes (server.ts:111-122).  *)
THEOREM StopIsComplete == Awaits /\ Spec => []StopLeavesNothing
  <1>1. IInv /\ LifeInv => StopLeavesNothing
    <2> SUFFICES ASSUME IInv, LifeInv, ~isRunning, ~Pending
                 PROVE  StopLeavesNothing
      BY DEF StopLeavesNothing
    <2>1. \A l \in Listeners : listener[l] \notin {"bound", "listening", "closing"}
      <3>1. ASSUME NEW l \in Listeners,
                   listener[l] \in {"bound", "listening", "closing"}
            PROVE  FALSE
        <4>1. l = socketServer /\ l # 0
          BY <3>1, JsServerAssumption DEF LifeInv, Listeners
        <4>2. listener[l] # "listening"
          BY <4>1 DEF LifeInv
        <4>3. QED
          BY <3>1, <4>2 DEF Pending
      <3>2. QED
        BY <3>1
    <2>2. socketServer = 0
      BY <2>1, JsServerAssumption DEF LifeInv, IInv, Types, Listeners
    <2>3. file = 0 /\ \A c \in Conns : Done(c)
      BY <2>2 DEF LifeInv, Closing
    <2>4. \A l \in Listeners : listener[l] \in {"none", "closed"}
      BY <2>1 DEF IInv, Types
    <2>5. \A c \in Conns : loop[c] \notin {"recv", "send"}
      BY <2>3 DEF IInv, ConnInv, Agree, Done
    <2>6. QED
      BY <2>2, <2>3, <2>4, <2>5 DEF StopLeavesNothing, Done
  <1>2. QED
    BY <1>1, OneListener, PTL

=============================================================================
