--------------------------- MODULE Endpoint_proof ---------------------------
(***************************************************************************)
(* Proof that a server nobody disturbs owns its path (OwnsPath), for any   *)
(* number of processes, clients and restarts.  The invariant behind it:    *)
(* while an undisturbed server starts or runs no other process has system  *)
(* calls to make, so the path is what its own last call made of it.        *)
(***************************************************************************)
EXTENDS Endpoint, TLAPS

(* What may be left of a start and of a stop. *)
StartRest == {<<"unlink", "bind", "listen">>, <<"bind", "listen">>, <<"listen">>}
StopRest ==
  {<<"unlink", "close", "unlink">>, <<"close", "unlink">>, <<"unlink">>}

Phase(p) ==
  \/ state[p] \in {"down", "failed", "up"} /\ todo[p] = <<>>
  \/ state[p] = "starting" /\ todo[p] \in StartRest
  \/ state[p] = "stopping" /\ todo[p] \in StopRest

Types ==
  /\ state \in [Servers -> {"down", "starting", "failed", "up", "stopping"}]
  /\ DOMAIN todo = Servers
  /\ starts \in [Servers -> Nat]
  /\ listening \in [Servers -> BOOLEAN]
  /\ disturbed \in [Servers -> BOOLEAN]
  /\ \A p \in Servers : Phase(p)

(* p starts or runs, and no other process began to start or stop since. *)
Alone(p) == ~disturbed[p] /\ state[p] \in {"starting", "up", "failed"}

(* What its own calls made of the path. *)
Path(p) ==
  /\ state[p] # "failed"
  /\ todo[p] = <<"bind", "listen">> => path = Nowhere
  /\ todo[p] = <<"listen">> => path = Socket(p)
  /\ state[p] = "up" => path = Socket(p) /\ listening[p]

Quiet(p) == \A q \in Servers \ {p} : ~Busy(q)

IInv == Types /\ \A p \in Servers : Alone(p) => Quiet(p) /\ Path(p)

-----------------------------------------------------------------------------
(* Heads and tails of the lists above. *)
LEMMA Lists ==
  /\ Head(<<"unlink", "bind", "listen">>) = "unlink"
  /\ Tail(<<"unlink", "bind", "listen">>) = <<"bind", "listen">>
  /\ Head(<<"bind", "listen">>) = "bind"
  /\ Tail(<<"bind", "listen">>) = <<"listen">>
  /\ Head(<<"listen">>) = "listen" /\ Tail(<<"listen">>) = <<>>
  /\ Head(<<"unlink", "close", "unlink">>) = "unlink"
  /\ Tail(<<"unlink", "close", "unlink">>) = <<"close", "unlink">>
  /\ Head(<<"close", "unlink">>) = "close"
  /\ Tail(<<"close", "unlink">>) = <<"unlink">>
  /\ Head(<<"unlink">>) = "unlink" /\ Tail(<<"unlink">>) = <<>>
  BY SMT

(* The stages of start() are different lists of calls. *)
LEMMA Different ==
  /\ <<"bind", "listen">> # <<"unlink", "bind", "listen">>
  /\ <<"listen">> # <<"unlink", "bind", "listen">>
  /\ <<"listen">> # <<"bind", "listen">>
  /\ <<"unlink", "bind", "listen">> # <<>>
  /\ <<"bind", "listen">> # <<>> /\ <<"listen">> # <<>>
  /\ <<"unlink", "close", "unlink">> # <<>>
  /\ <<"close", "unlink">> # <<>> /\ <<"unlink">> # <<>>
  BY SMT

(* The call that is made next says what was left, and what is left after. *)
LEMMA NextCall ==
  ASSUME Types, NEW p \in Servers, Busy(p)
  PROVE  /\ state[p] \in {"starting", "stopping"}
         /\ Calls(p, "bind") =>
              /\ state[p] = "starting"
              /\ todo[p] = <<"bind", "listen">>
              /\ Tail(todo[p]) = <<"listen">>
         /\ Calls(p, "listen") =>
              /\ state[p] = "starting"
              /\ todo[p] = <<"listen">>
              /\ Tail(todo[p]) = <<>>
         /\ Calls(p, "close") => state[p] = "stopping"
         /\ Calls(p, "unlink") /\ state[p] = "starting" =>
              Tail(todo[p]) = <<"bind", "listen">>
         /\ state[p] = "starting" /\ Tail(todo[p]) # <<>> =>
              Tail(todo[p]) \in StartRest
         /\ state[p] = "stopping" /\ Tail(todo[p]) # <<>> =>
              Tail(todo[p]) \in StopRest
  <1>1. Phase(p)
    BY DEF Types
  <1>2. CASE state[p] = "starting" /\ todo[p] \in StartRest
    BY <1>2, Lists, Different DEF StartRest, Calls
  <1>3. CASE state[p] = "stopping" /\ todo[p] \in StopRest
    BY <1>3, Lists, Different DEF StopRest, Calls
  <1>4. QED
    BY <1>1, <1>2, <1>3 DEF Phase, Busy

(* A step of the calls of one process keeps the types of all. *)
LEMMA CallKeepsTypes ==
  ASSUME Types, NEW p \in Servers, Busy(p), Done(p),
         starts' = starts, disturbed' = disturbed,
         listening' \in [Servers -> BOOLEAN]
  PROVE  Types'
  <1>1. state[p] \in {"starting", "stopping"}
    BY NextCall
  <1>2. state' \in [Servers -> {"down", "starting", "failed", "up", "stopping"}]
    BY DEF Done, Types
  <1>3. DOMAIN todo' = Servers
    BY DEF Done, Types
  <1>4. ASSUME NEW q \in Servers PROVE Phase(q)'
    <2>1. CASE q # p
      <3>1. state'[q] = state[q] /\ todo'[q] = todo[q]
        BY <2>1 DEF Done, Types
      <3>2. QED
        BY <3>1 DEF Phase, Types
    <2>2. CASE q = p
      <3>1. todo'[p] = Tail(todo[p])
        BY DEF Done, Types
      <3>2. CASE Tail(todo[p]) = <<>>
        <4>1. state'[p] \in {"up", "down"}
          BY <3>2 DEF Done, Types
        <4>2. QED
          BY <2>2, <3>1, <3>2, <4>1 DEF Phase
      <3>3. CASE Tail(todo[p]) # <<>>
        <4>1. state'[p] = state[p]
          BY <3>3 DEF Done
        <4>2. QED
          BY <1>1, <2>2, <3>1, <3>3, <4>1, NextCall DEF Phase
      <3>4. QED
        BY <3>2, <3>3
    <2>3. QED
      BY <2>1, <2>2
  <1>5. QED
    BY <1>2, <1>3, <1>4 DEF Types

(* The calls of p leave the others' state and lists alone.                 *)
LEMMA OthersUnchanged ==
  ASSUME Types, NEW p \in Servers, Done(p), NEW q \in Servers, q # p
  PROVE  state'[q] = state[q] /\ todo'[q] = todo[q]
  BY DEF Done, Types

(* While p has a call to make, no other process is Alone; after p's call,  *)
(* the only one that can be is p itself.                                   *)
LEMMA OnlyTheCaller ==
  ASSUME IInv, NEW p \in Servers, Busy(p), Done(p), disturbed' = disturbed,
         NEW q \in Servers, Alone(q)'
  PROVE  q = p
  <1>1. SUFFICES ASSUME q # p PROVE FALSE
    OBVIOUS
  <1>2. Alone(q)
    BY <1>1, OthersUnchanged DEF Alone, IInv
  <1>3. QED
    BY <1>1, <1>2 DEF IInv, Quiet

-----------------------------------------------------------------------------
(* Initially every process is down. *)
LEMMA InvInit == Init => IInv
  BY DEF Init, IInv, Types, Phase, Alone

(* A start() disturbs every server that starts or runs. *)
LEMMA InvStart ==
  ASSUME IInv, NEW p \in Servers, Start(p)
  PROVE  IInv'
  <1> USE DEF IInv
  <1>1. Types'
    <2>1. ASSUME NEW q \in Servers PROVE Phase(q)'
      <3>1. CASE q = p
        BY <3>1 DEF Start, Phase, Types, StartCalls, StartRest
      <3>2. CASE q # p
        BY <3>2 DEF Start, Phase, Types
      <3>3. QED
        BY <3>1, <3>2
    <2>2. starts' \in [Servers -> Nat]
      BY DEF Start, Types
    <2>3. disturbed' \in [Servers -> BOOLEAN]
      BY DEF Start, Disturb, Types
    <2>4. QED
      BY <2>1, <2>2, <2>3 DEF Start, Types
  <1>2. ASSUME NEW q \in Servers, Alone(q)' PROVE Quiet(q)' /\ Path(q)'
    <2>1. q = p
      BY <1>2 DEF Start, Disturb, Alone, Types
    <2>2. \A r \in Servers \ {p} : ~Busy(r)
      BY <1>2, <2>1 DEF Start, Disturb, Alone
    <2>3. Quiet(p)'
      BY <2>2 DEF Start, Quiet, Busy, Types
    <2>4. state'[p] = "starting" /\ todo'[p] = <<"unlink", "bind", "listen">>
      BY DEF Start, StartCalls, Types
    <2>5. Path(p)'
      BY <2>4, Different DEF Path
    <2>6. QED
      BY <2>1, <2>3, <2>5
  <1>3. QED
    BY <1>1, <1>2

(* A stop() disturbs every server that starts or runs, too. *)
LEMMA InvStop ==
  ASSUME IInv, NEW p \in Servers, Stop(p)
  PROVE  IInv'
  <1> USE DEF IInv
  <1>1. Types'
    <2>1. ASSUME NEW q \in Servers PROVE Phase(q)'
      <3>1. CASE q = p
        BY <3>1 DEF Stop, Phase, Types, StopCalls, StopRest
      <3>2. CASE q # p
        BY <3>2 DEF Stop, Phase, Types
      <3>3. QED
        BY <3>1, <3>2
    <2>2. disturbed' \in [Servers -> BOOLEAN]
      BY DEF Stop, Disturb, Types
    <2>3. QED
      BY <2>1, <2>2 DEF Stop, Types
  <1>2. ASSUME NEW q \in Servers, Alone(q)' PROVE FALSE
    BY <1>2 DEF Stop, Disturb, Alone, Types
  <1>3. QED
    BY <1>1, <1>2

(* An undisturbed server that unlinks leaves nothing at the path. *)
LEMMA InvUnlink ==
  ASSUME IInv, NEW p \in Servers, Unlink(p)
  PROVE  IInv'
  <1>1. Busy(p) /\ Done(p) /\ Types
    BY DEF Unlink, Calls, IInv
  <1>2. Types'
    BY <1>1, CallKeepsTypes DEF Unlink, Types
  <1>3. ASSUME NEW q \in Servers, Alone(q)' PROVE Quiet(q)' /\ Path(q)'
    <2>1. q = p
      BY <1>1, <1>3, OnlyTheCaller DEF Unlink
    <2>2. state[p] = "starting"
      <3>1. CASE state[p] = "stopping"
        BY <1>1, <1>3, <2>1, <3>1 DEF Done, Alone, Types
      <3>2. QED
        BY <1>1, <3>1, NextCall
    <2>3. Tail(todo[p]) = <<"bind", "listen">>
      BY <1>1, <2>2, NextCall DEF Unlink
    <2>4. state'[p] = "starting" /\ todo'[p] = <<"bind", "listen">>
      BY <1>1, <2>2, <2>3, Different DEF Done, Types
    <2>5. Alone(p)
      BY <1>3, <2>1, <2>2 DEF Alone, Unlink
    <2>6. Quiet(p)'
      BY <1>1, <2>5, OthersUnchanged DEF IInv, Quiet, Busy
    <2>7. Path(p)'
      BY <2>4, Different DEF Path, Unlink
    <2>8. QED
      BY <2>1, <2>6, <2>7
  <1>4. QED
    BY <1>2, <1>3 DEF IInv

(* Its bind() then makes the file its own. *)
LEMMA InvBind ==
  ASSUME IInv, NEW p \in Servers, Bind(p)
  PROVE  IInv'
  <1>1. Busy(p) /\ Done(p) /\ Types
    BY DEF Bind, Calls, IInv
  <1>2. Types'
    BY <1>1, CallKeepsTypes DEF Bind, Types
  <1>3. ASSUME NEW q \in Servers, Alone(q)' PROVE Quiet(q)' /\ Path(q)'
    <2>1. q = p
      BY <1>1, <1>3, OnlyTheCaller DEF Bind
    <2>2. state[p] = "starting" /\ Tail(todo[p]) = <<"listen">>
      BY <1>1, NextCall DEF Bind
    <2>3. state'[p] = "starting" /\ todo'[p] = <<"listen">>
      BY <1>1, <2>2, Different DEF Done, Types
    <2>4. Alone(p)
      BY <1>3, <2>1, <2>2 DEF Alone, Bind
    <2>5. Quiet(p)'
      BY <1>1, <2>4, OthersUnchanged DEF IInv, Quiet, Busy
    <2>6. Path(p)'
      BY <2>3, Different DEF Path, Bind, Socket
    <2>7. QED
      BY <2>1, <2>5, <2>6
  <1>4. QED
    BY <1>2, <1>3 DEF IInv

(* bind() fails only in a start that another process disturbed. *)
LEMMA InvBindFails ==
  ASSUME IInv, NEW p \in Servers, BindFails(p)
  PROVE  IInv'
  <1>1. Busy(p) /\ Types /\ Calls(p, "bind")
    BY DEF BindFails, Calls, IInv
  <1>2. Types'
    <2>1. ASSUME NEW q \in Servers PROVE Phase(q)'
      <3>1. CASE q = p
        BY <3>1 DEF BindFails, Phase, Types, IInv
      <3>2. CASE q # p
        BY <3>2 DEF BindFails, Phase, Types, IInv
      <3>3. QED
        BY <3>1, <3>2
    <2>2. QED
      BY <2>1 DEF BindFails, Types, IInv
  <1>3. disturbed[p]
    <2>1. state[p] = "starting" /\ todo[p] = <<"bind", "listen">>
      BY <1>1, NextCall
    <2>2. ~Path(p)
      BY <2>1 DEF Path, BindFails
    <2>3. QED
      BY <2>1, <2>2 DEF IInv, Alone, Types
  <1>4. ASSUME NEW q \in Servers, Alone(q)' PROVE FALSE
    <2>1. q # p
      BY <1>3, <1>4 DEF BindFails, Alone
    <2>2. Alone(q)
      BY <1>4, <2>1 DEF BindFails, Alone, IInv, Types
    <2>3. QED
      BY <1>1, <2>1, <2>2 DEF IInv, Quiet
  <1>5. QED
    BY <1>2, <1>4 DEF IInv

(* Once it listens it is up, and the file still its own. *)
LEMMA InvListen ==
  ASSUME IInv, NEW p \in Servers, Listen(p)
  PROVE  IInv'
  <1>1. Busy(p) /\ Done(p) /\ Types
    BY DEF Listen, Calls, IInv
  <1>2. Types'
    BY <1>1, CallKeepsTypes DEF Listen, Types
  <1>3. ASSUME NEW q \in Servers, Alone(q)' PROVE Quiet(q)' /\ Path(q)'
    <2>1. q = p
      BY <1>1, <1>3, OnlyTheCaller DEF Listen
    <2>2. /\ state[p] = "starting" /\ todo[p] = <<"listen">>
          /\ Tail(todo[p]) = <<>>
      BY <1>1, NextCall DEF Listen
    <2>3. state'[p] = "up" /\ todo'[p] = <<>>
      BY <1>1, <2>2 DEF Done, Types
    <2>4. Alone(p)
      BY <1>3, <2>1, <2>2 DEF Alone, Listen
    <2>5. Quiet(p)'
      BY <1>1, <2>4, OthersUnchanged DEF IInv, Quiet, Busy
    <2>6. path = Socket(p)
      BY <2>2, <2>4 DEF IInv, Path
    <2>7. Path(p)'
      BY <1>1, <2>3, <2>6, Different DEF Path, Listen, Socket, Types
    <2>8. QED
      BY <2>1, <2>5, <2>7
  <1>4. QED
    BY <1>2, <1>3 DEF IInv

(* A server that closes its listener is not running. *)
LEMMA InvCloseListener ==
  ASSUME IInv, NEW p \in Servers, CloseListener(p)
  PROVE  IInv'
  <1>1. Busy(p) /\ Done(p) /\ Types /\ state[p] = "stopping"
    BY NextCall DEF CloseListener, Calls, IInv
  <1>2. Types'
    BY <1>1, CallKeepsTypes DEF CloseListener, Shut, Types
  <1>3. ASSUME NEW q \in Servers, Alone(q)' PROVE FALSE
    <2>1. q = p
      BY <1>1, <1>3, OnlyTheCaller DEF CloseListener
    <2>2. QED
      BY <1>1, <1>3, <2>1 DEF Done, Alone, Types
  <1>4. QED
    BY <1>2, <1>3 DEF IInv

(* A crash makes no call, and leaves the file. *)
LEMMA InvCrash ==
  ASSUME IInv, NEW p \in Servers, Crash(p)
  PROVE  IInv'
  <1> USE DEF IInv
  <1>1. Types'
    <2>1. ASSUME NEW q \in Servers PROVE Phase(q)'
      <3>1. CASE q = p
        BY <3>1 DEF Crash, Phase, Types
      <3>2. CASE q # p
        BY <3>2 DEF Crash, Phase, Types
      <3>3. QED
        BY <3>1, <3>2
    <2>2. QED
      BY <2>1 DEF Crash, Shut, Types
  <1>2. ASSUME NEW q \in Servers, Alone(q)' PROVE Quiet(q)' /\ Path(q)'
    <2>1. q # p
      BY <1>2 DEF Crash, Alone, Types
    <2>2. Alone(q) /\ state'[q] = state[q] /\ todo'[q] = todo[q]
      BY <1>2, <2>1 DEF Crash, Alone, Types
    <2>3. listening'[q] = listening[q]
      BY <2>1 DEF Crash, Shut, Types
    <2>4. Quiet(q)'
      BY <2>2 DEF Crash, Quiet, Busy, Types
    <2>5. Path(q)'
      BY <2>2, <2>3 DEF Crash, Path, Socket
    <2>6. QED
      BY <2>4, <2>5
  <1>3. QED
    BY <1>1, <1>2

(* Every step keeps the invariant. *)
LEMMA InvStep == IInv /\ [Next]_vars => IInv'
  <1> SUFFICES ASSUME IInv, [Next]_vars PROVE IInv'
    OBVIOUS
  <1>1. CASE \E p \in Servers : Start(p) \/ Stop(p) \/ SystemCall(p) \/ Crash(p)
    BY <1>1, InvStart, InvStop, InvUnlink, InvBind, InvBindFails, InvListen,
       InvCloseListener, InvCrash DEF SystemCall
  <1>2. CASE \E c \in Clients : Connect(c)
    BY <1>2 DEF Connect, servers, IInv, Types, Phase, Alone, Quiet, Path, Busy,
       Socket
  <1>3. CASE UNCHANGED vars
    BY <1>3 DEF vars, servers, IInv, Types, Phase, Alone, Quiet, Path, Busy,
       Socket
  <1>4. QED
    BY <1>1, <1>2, <1>3 DEF Next

(* The inductive invariant holds in every behaviour.                       *)
THEOREM Invariant == Spec => []IInv
  BY InvInit, InvStep, PTL DEF Spec

(* A start that no other process overlaps succeeds, whatever file was left *)
(* behind, and from then on the path leads to that server until another    *)
(* one starts or stops (unix_socket_transport.cpp:83-112,                  *)
(* unix-socket-server.ts:21-50).                                           *)
THEOREM PathIsOwned == Spec => []OwnsPath
  <1>1. IInv => OwnsPath
    BY DEF IInv, OwnsPath, Alone, Path
  <1>2. QED
    BY <1>1, Invariant, PTL
=============================================================================
