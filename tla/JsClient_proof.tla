--------------------------- MODULE JsClient_proof ---------------------------
(***************************************************************************)
(* Proofs about JsClient, for any number of callers, connections, calls    *)
(* and faults, and for every option.  IInv has the types and, part by      *)
(* part, what codec, callInFlight, the reconnect loop, the reads and the   *)
(* frames owe one another; it holds whatever the user does, and gives the  *)
(* invariants of JsClient.  CInv adds what becomes of a request: who is    *)
(* pending, where it can still run from, and that a response comes of a    *)
(* run; from it follows that the client implements the contract RpcCall.   *)
(***************************************************************************)
EXTENDS JsClient, FiniteSetTheorems, SequenceTheorems, TLAPS

(* What the words and the readers of TypeOK are by direction and by stage. *)
Request == [part : {"header", "payload"}, id : Ids]
Reply == [part : {"header", "first", "rest"}, id : Ids]
Waiter == {w \in Reader : w.step = "header" => w.need = 1}
Token ==
  {m \in [conn : Conns, id : Ids, step : {"start", "header", "payload"}, got : Seq(Reply)] :
     Len(m.got) \in 0 .. 2 /\ (m.step = "header" => Len(m.got) = 1)}

CallTypes ==
  /\ config \in Configs
  /\ codec \in 0 .. MaxConns
  /\ nextRequestId \in Nat \ {0}
  /\ callInFlight \in BOOLEAN
  /\ pc \in [Callers -> {"idle", "wait"} \cup InCall]
  /\ id \in [Callers -> 0 .. (nextRequestId - 1)]
  /\ wconn \in [Callers -> 0 .. MaxConns]
  /\ outcome \in [Ids -> {"pending", "ok", "error", "garbled", "timeout"}]

LoopTypes ==
  /\ retry \in {"off", "sleep", "dial"}
  /\ attempt \in Nat /\ (attempt # 0 => attempt < config.maxAttempts)
  /\ disconnects \in Nat

ConnTypes ==
  /\ up \in BOOLEAN
  /\ opened \in 0 .. MaxConns
  /\ sock \in [Conns -> {"none", "errored", "closed"} \cup Alive]
  /\ srv \in [Conns -> {"unused", "open", "closed"}]
  /\ \A c \in Conns : c > opened => sock[c] = "none" /\ srv[c] = "unused"

WordTypes ==
  /\ buffer \in [Conns -> Seq(Reply)]
  /\ toCli \in [Conns -> Seq(Reply)]
  /\ toSrv \in [Conns -> Seq(Request)]
  /\ waiters \in [Conns -> Seq(Waiter)]
  /\ micro \in Seq(Token)

ServerTypes ==
  /\ serving \in [Conns -> 0 .. (nextRequestId - 1)]
  /\ executed \in [Ids -> Nat]

(* A call has an id until it ends, and a connection while it writes. *)
CallFields ==
  \A k \in Callers : /\ pc[k] \in InCall <=> id[k] # 0
                     /\ pc[k] \in Sending <=> wconn[k] # 0

Types == CallTypes /\ CallFields /\ LoopTypes /\ ConnTypes /\ WordTypes /\ ServerTypes

-----------------------------------------------------------------------------
(* The sets of words grow with the ids. *)

(* A step that takes no id leaves the sets of words and readers as they are. *)
LEMMA SameIds ==
  ASSUME nextRequestId' = nextRequestId
  PROVE  Ids' = Ids /\ Request' = Request /\ Reply' = Reply /\ Waiter' = Waiter
         /\ Token' = Token
  BY DEF Ids, Request, Reply, Reader, Waiter, Token

(* A step that takes an id only adds to them. *)
LEMMA MoreIds ==
  ASSUME nextRequestId \in Nat \ {0}, nextRequestId' = nextRequestId + 1
  PROVE  /\ Ids \subseteq Ids' /\ nextRequestId \in Ids'
         /\ Seq(Request) \subseteq Seq(Request') /\ Seq(Reply) \subseteq Seq(Reply')
         /\ Seq(Waiter) \subseteq Seq(Waiter') /\ Seq(Token) \subseteq Seq(Token')
  <1>1. Ids \subseteq Ids' /\ nextRequestId \in Ids'
    BY DEF Ids
  <1>2. Request \subseteq Request' /\ Reply \subseteq Reply' /\ Waiter \subseteq Waiter'
    BY <1>1 DEF Request, Reply, Reader, Waiter
  <1>3. Seq(Reply) \subseteq Seq(Reply')
    BY <1>2, SeqMonotonic
  <1>4. Token \subseteq Token'
    BY <1>1, <1>3 DEF Token, Conns
  <1>5. QED
    BY <1>1, <1>2, <1>3, <1>4, SeqMonotonic

(* The stages, listed. *)
LEMMA InCallTypes ==
  /\ InCall = {"send_header", "send_payload", "unsent", "recv"}
  /\ Alive = {"dialing", "redialing", "open"}
  /\ Sending = {"send_header", "send_payload", "unsent"}
  BY DEF InCall, Alive, Sending

(* Init and a stuttering step. *)

(* The types hold at the start. *)
LEMMA TypesInit == Init => Types
  <1> SUFFICES ASSUME Init PROVE Types
    OBVIOUS
  <1>1. CallTypes
    <2>1. Ids = 1 .. 0 /\ 0 \in 0 .. (nextRequestId - 1) /\ 0 \in 0 .. MaxConns
      BY ClientAssumption DEF Init, Ids
    <2>2. outcome \in [Ids -> {"pending", "ok", "error", "garbled", "timeout"}]
      BY <2>1 DEF Init
    <2>3. id \in [Callers -> 0 .. (nextRequestId - 1)]
      BY <2>1 DEF Init
    <2>4. wconn \in [Callers -> 0 .. MaxConns]
      BY <2>1 DEF Init
    <2>5. pc \in [Callers -> {"idle", "wait"} \cup InCall]
      BY DEF Init
    <2>6. /\ config \in Configs /\ codec \in 0 .. MaxConns
          /\ nextRequestId \in Nat \ {0} /\ callInFlight = FALSE
      BY <2>1 DEF Init
    <2>7. callInFlight \in BOOLEAN
      BY <2>6
    <2>8. QED
      BY <2>2, <2>3, <2>4, <2>5, <2>6, <2>7 DEF CallTypes
  <1>a. CallFields
    BY DEF Init, CallFields, InCall, Sending
  <1>2. LoopTypes
    BY DEF Init, LoopTypes
  <1>3. ConnTypes
    BY ClientAssumption DEF Init, ConnTypes
  <1>4. WordTypes
    <2>1. \A S : <<>> \in Seq(S)
      OBVIOUS
    <2>2. QED
      BY <2>1 DEF Init, WordTypes
  <1>5. ServerTypes
    BY DEF Init, ServerTypes, Ids
  <1>6. QED
    BY <1>1, <1>a, <1>2, <1>3, <1>4, <1>5 DEF Types

-----------------------------------------------------------------------------
(* Functions of the ids, which are sequences. *)

(* outcome and executed are functions on 1 .. nextRequestId - 1: sequences. *)
LEMMA FunctionIsSeq ==
  ASSUME NEW n \in Nat \ {0}, NEW S, NEW f \in [1 .. (n - 1) -> S]
  PROVE  f \in Seq(S) /\ Len(f) = n - 1
  <1>1. n - 1 \in Nat
    OBVIOUS
  <1>2. f \in Seq(S)
    BY <1>1, SeqDef
  <1>3. QED
    BY <1>1, <1>2, LenProperties

(* They get one more value at their end. *)
LEMMA AppendFunction ==
  ASSUME NEW n \in Nat \ {0}, NEW S, NEW f \in Seq(S), Len(f) = n - 1, NEW e \in S
  PROVE  /\ Append(f, e) \in [1 .. (n + 1 - 1) -> S]
         /\ \A i \in 1 .. (n - 1) : Append(f, e)[i] = f[i]
         /\ Append(f, e)[n] = e
  <1>1. Append(f, e) \in Seq(S) /\ Len(Append(f, e)) = n
    BY AppendProperties
  <1>2. n + 1 - 1 = n
    OBVIOUS
  <1>3. Append(f, e) \in [1 .. n -> S]
    BY <1>1, LenProperties, ElementOfSeq
  <1>4. QED
    BY <1>2, <1>3, AppendProperties

-----------------------------------------------------------------------------
(* The steps of a call. *)

(* The end of calls keeps the types. *)
LEMMA FinishTypes ==
  ASSUME CallTypes, NEW K \in SUBSET Callers,
         NEW v \in {"ok", "error", "garbled", "timeout"}, Finish(K, v),
         UNCHANGED <<config, nextRequestId>>, codec' \in 0 .. MaxConns
  PROVE  CallTypes'
  <1>1. Ids' = Ids
    BY DEF Ids
  <1>2. callInFlight' \in BOOLEAN
    BY DEF Finish
  <1>3. pc' \in [Callers -> {"idle", "wait"} \cup InCall]
    BY DEF Finish, CallTypes
  <1>4. id' \in [Callers -> 0 .. (nextRequestId - 1)] /\ wconn' \in [Callers -> 0 .. MaxConns]
    BY ClientAssumption DEF Finish, CallTypes
  <1>5. outcome' \in [Ids -> {"pending", "ok", "error", "garbled", "timeout"}]
    BY DEF Finish, CallTypes
  <1>6. QED
    BY <1>1, <1>2, <1>3, <1>4, <1>5 DEF CallTypes

(* What a write changes of the call that writes. *)
LEMMA WriteTypes ==
  ASSUME CallTypes, NEW k \in Callers, NEW c \in 0 .. MaxConns, NEW p, NEW i, Write(k, c, p, i)
  PROVE  /\ wconn' \in [Callers -> 0 .. MaxConns]
         /\ pc' \in [Callers -> {"idle", "wait"} \cup InCall]
  BY DEF Write, CallTypes, InCall, Sending

(* So does the start of one, which takes the next id. *)
LEMMA StartTypes ==
  ASSUME CallTypes, NEW k \in Callers, codec # 0, Start(k), UNCHANGED <<config, codec>>
  PROVE  CallTypes'
  <1>1. CASE Busy(k)
    <2>1. nextRequestId' = nextRequestId /\ pc' \in [Callers -> {"idle", "wait"} \cup InCall]
      BY <1>1 DEF Start, CallTypes
    <2>2. QED
      BY <1>1, <2>1, SameIds DEF Start, CallTypes
  <1>2. CASE ~Busy(k)
    <2>1. /\ nextRequestId' = nextRequestId + 1 /\ callInFlight' = TRUE
          /\ Write(k, codec, "header", nextRequestId)
      BY <1>2 DEF Start
    <2>2. /\ wconn' \in [Callers -> 0 .. MaxConns]
          /\ pc' \in [Callers -> {"idle", "wait"} \cup InCall]
      BY <2>1, WriteTypes DEF CallTypes
    <2>3. id' \in [Callers -> 0 .. (nextRequestId' - 1)]
      <3>1. /\ 0 .. (nextRequestId - 1) \subseteq 0 .. (nextRequestId' - 1)
            /\ nextRequestId \in 0 .. (nextRequestId' - 1)
        BY <2>1 DEF CallTypes
      <3>2. id' = [id EXCEPT ![k] = nextRequestId]
        BY <1>2 DEF Start
      <3>3. QED
        BY <3>1, <3>2 DEF CallTypes
    <2>4. outcome' \in [Ids' -> {"pending", "ok", "error", "garbled", "timeout"}]
      <3>1. /\ outcome \in Seq({"pending", "ok", "error", "garbled", "timeout"})
            /\ Len(outcome) = nextRequestId - 1
        BY FunctionIsSeq DEF CallTypes, Ids
      <3>2. outcome' = Append(outcome, "pending")
        BY <1>2 DEF Start
      <3>3. QED
        BY <2>1, <3>1, <3>2, AppendFunction DEF Ids, CallTypes
    <2>5. nextRequestId' \in Nat \ {0}
      BY <2>1 DEF CallTypes
    <2>6. QED
      BY <2>1, <2>2, <2>3, <2>4, <2>5 DEF CallTypes
  <1>3. QED
    BY <1>1, <1>2

(* Every step keeps the types of the calls. *)
LEMMA CallTypesStep == Types /\ [Next]_vars => CallTypes'
  <1> SUFFICES ASSUME Types, [Next]_vars PROVE CallTypes'
    OBVIOUS
  <1> USE DEF Types
  <1>a. CASE UNCHANGED <<config, nextRequestId, calls>> /\ codec' \in 0 .. MaxConns
    BY <1>a, SameIds DEF CallTypes, calls
  <1>1. CASE Connect
    BY <1>1, <1>a DEF Connect, CallTypes
  <1>2. CASE Disconnect
    BY <1>2, <1>a, ClientAssumption DEF Disconnect, CallTypes
  <1>3. CASE RetryTick
    BY <1>3, <1>a DEF RetryTick, CallTypes
  <1>4. CASE Resume
    <2>1. UNCHANGED <<config, codec, nextRequestId>> /\ (UNCHANGED calls
            \/ \E v \in {"ok", "garbled"} : Finish(CallersOf(Head(micro).id), v))
      BY <1>4 DEF Resume, Read, EndRead, Decoded
    <2>2. CASE UNCHANGED calls
      BY <1>a, <2>1, <2>2 DEF CallTypes
    <2>3. ASSUME NEW v \in {"ok", "garbled"}, Finish(CallersOf(Head(micro).id), v)
          PROVE  CallTypes'
      <3>1. CallersOf(Head(micro).id) \in SUBSET Callers
        BY DEF CallersOf
      <3>2. codec' \in 0 .. MaxConns
        BY <2>1 DEF CallTypes
      <3>3. QED
        BY <2>1, <2>3, <3>1, <3>2, FinishTypes
    <2>4. QED
      BY <2>1, <2>2, <2>3
  <1>5. ASSUME NEW k \in Callers, Begin(k) PROVE CallTypes'
    <2>1. CASE codec # 0 /\ Start(k)
      BY <1>5, <2>1, StartTypes DEF Begin
    <2>2. CASE ~(codec # 0 /\ Start(k))
      BY <1>5, <2>2, SameIds DEF Begin, CallTypes
    <2>3. QED
      BY <2>1, <2>2
  <1>6. ASSUME NEW k \in Callers, Poll(k) PROVE CallTypes'
    <2>1. CASE codec # 0 /\ Start(k)
      BY <1>6, <2>1, StartTypes DEF Poll
    <2>2. CASE ~(codec # 0 /\ Start(k))
      BY <1>6, <2>2, SameIds DEF Poll, CallTypes
    <2>3. QED
      BY <2>1, <2>2
  <1>7. ASSUME NEW k \in Callers, Written(k) PROVE CallTypes'
    <2>0. UNCHANGED <<config, codec, nextRequestId>>
      BY <1>7 DEF Written
    <2>1. CASE Write(k, wconn[k], "payload", id[k]) /\ UNCHANGED <<callInFlight, id, outcome>>
      <3>1. wconn[k] \in 0 .. MaxConns
        BY DEF CallTypes
      <3>2. QED
        BY <2>0, <2>1, <3>1, WriteTypes, SameIds DEF CallTypes
    <2>2. CASE pc' = [pc EXCEPT ![k] = "recv"] /\ wconn' = [wconn EXCEPT ![k] = 0]
               /\ UNCHANGED <<callInFlight, id, outcome>>
      BY <2>0, <2>2, SameIds, ClientAssumption DEF CallTypes, InCall
    <2>3. CASE Finish({k}, "error")
      BY <2>0, <2>3, FinishTypes DEF CallTypes
    <2>4. QED
      BY <1>7, <2>1, <2>2, <2>3 DEF Written
  <1>8. ASSUME NEW k \in Callers, TimeOut(k) PROVE CallTypes'
    BY <1>8, FinishTypes DEF TimeOut, CallTypes
  <1>9. ASSUME NEW c \in Conns, Connected(c) PROVE CallTypes'
    BY <1>9, <1>a DEF Connected, Conns
  <1>10. ASSUME NEW c \in Conns, NEW s, Lost(c, s) PROVE CallTypes'
    <2>1. Readers(c) \cup Writers(c) \in SUBSET Callers
      BY DEF Readers, Writers, CallersOf
    <2>2. codec' \in 0 .. MaxConns
      BY <1>10, ClientAssumption DEF Lost, ResetCodec
    <2>3. QED
      BY <1>10, <2>1, <2>2, FinishTypes DEF Lost, RejectWaiters
  <1>11. ASSUME NEW c \in Conns, NEW n \in 1 .. Len(toCli[c]), Data(c, n) PROVE CallTypes'
    BY <1>11, <1>a DEF Data, CallTypes
  <1>12. CASE ServerDown \/ ServerStart
    BY <1>12, <1>a DEF ServerDown, ServerStart, ServerOnly, CallTypes
  <1>13. ASSUME NEW c \in Conns, SrvServe(c) \/ SrvReply(c) \/ SrvDrop(c) PROVE CallTypes'
    BY <1>13, <1>a DEF SrvServe, SrvReply, SrvDrop, ServerOnly, CallTypes
  <1>14. CASE UNCHANGED vars
    BY <1>14, <1>a DEF vars, CallTypes
  <1>15. QED
    BY <1>1, <1>2, <1>3, <1>4, <1>5, <1>6, <1>7, <1>8, <1>9, <1>10, <1>11, <1>12, <1>13, <1>14
    DEF Next, Quiescent, SocketClose, SocketError

-----------------------------------------------------------------------------
(* The reconnect loop, and the connections. *)

(* Every step keeps the loop counter below maxAttempts. *)
LEMMA LoopTypesStep == Types /\ [Next]_vars => LoopTypes'
  <1> SUFFICES ASSUME Types, [Next]_vars PROVE LoopTypes'
    OBVIOUS
  <1> USE DEF Types, LoopTypes, loop, bounds
  <1>1. CASE Connect
    BY <1>1 DEF Connect
  <1>2. CASE Disconnect
    BY <1>2 DEF Disconnect
  <1>3. CASE RetryTick
    <2>1. config.maxAttempts \in Int
      BY ClientAssumption DEF CallTypes, ConfigSet
    <2>2. CASE CanDial
      BY <1>3, <2>2 DEF RetryTick, WhileDialing
    <2>3. CASE ~CanDial /\ LastAttempt
      BY <1>3, <2>3 DEF RetryTick
    <2>4. CASE ~CanDial /\ ~LastAttempt
      BY <1>3, <2>1, <2>4 DEF RetryTick, LastAttempt, NextAttempt, Unlimited
    <2>5. QED
      BY <2>2, <2>3, <2>4
  <1>4. CASE Resume
    BY <1>4 DEF Resume
  <1>5. ASSUME NEW k \in Callers, Begin(k) \/ Poll(k) \/ Written(k) \/ TimeOut(k) PROVE LoopTypes'
    BY <1>5 DEF Begin, Poll, Written, TimeOut
  <1>6. ASSUME NEW c \in Conns, Connected(c) PROVE LoopTypes'
    BY <1>6 DEF Connected
  <1>7. ASSUME NEW c \in Conns, NEW s, Lost(c, s) PROVE LoopTypes'
    BY <1>7 DEF Lost, ScheduleReconnect
  <1>8. ASSUME NEW c \in Conns, NEW n \in 1 .. Len(toCli[c]), Data(c, n) PROVE LoopTypes'
    BY <1>8 DEF Data
  <1>9. CASE ServerDown \/ ServerStart
    BY <1>9 DEF ServerDown, ServerStart, ServerOnly
  <1>10. ASSUME NEW c \in Conns, SrvServe(c) \/ SrvReply(c) \/ SrvDrop(c) PROVE LoopTypes'
    BY <1>10 DEF SrvServe, SrvReply, SrvDrop, ServerOnly
  <1>11. CASE UNCHANGED vars
    BY <1>11 DEF vars
  <1>12. QED
    BY <1>1, <1>2, <1>3, <1>4, <1>5, <1>6, <1>7, <1>8, <1>9, <1>10, <1>11
    DEF Next, Quiescent, SocketClose, SocketError

(* A new socket takes the next number. *)
LEMMA DialTypes ==
  ASSUME ConnTypes, NEW s \in {"dialing", "redialing"}, Dial(s), opened < MaxConns, up' = up
  PROVE  ConnTypes'
  <1>1. opened + 1 \in Conns /\ opened' = opened + 1 /\ opened' \in 0 .. MaxConns
    BY ClientAssumption DEF Dial, ConnTypes, Conns
  <1>2. /\ sock' \in [Conns -> {"none", "errored", "closed"} \cup Alive]
        /\ srv' \in [Conns -> {"unused", "open", "closed"}]
    BY <1>1 DEF Dial, ConnTypes, Alive
  <1>3. \A c \in Conns : c > opened' => sock'[c] = "none" /\ srv'[c] = "unused"
    BY <1>1 DEF Dial, ConnTypes, Conns
  <1>4. QED
    BY <1>1, <1>2, <1>3 DEF ConnTypes

(* Every step keeps the types of the connections. *)
LEMMA ConnTypesStep == Types /\ [Next]_vars => ConnTypes'
  <1> SUFFICES ASSUME Types, [Next]_vars PROVE ConnTypes'
    OBVIOUS
  <1> USE DEF Types
  <1>a. CASE UNCHANGED <<up, opened, sock, srv>>
    BY <1>a DEF ConnTypes
  <1>1. CASE Connect
    BY <1>1, DialTypes DEF Connect, CanDial
  <1>2. CASE Disconnect
    BY <1>2, <1>a DEF Disconnect, net
  <1>3. CASE RetryTick
    <2>1. CASE CanDial
      BY <1>3, <2>1, DialTypes DEF RetryTick, CanDial
    <2>2. CASE ~CanDial
      BY <1>3, <2>2, <1>a DEF RetryTick
    <2>3. QED
      BY <2>1, <2>2
  <1>4. CASE Resume
    BY <1>4, <1>a DEF Resume, net
  <1>5. ASSUME NEW k \in Callers, Begin(k) \/ Poll(k) \/ Written(k) \/ TimeOut(k) PROVE ConnTypes'
    BY <1>5, <1>a DEF Begin, Poll, Written, TimeOut, net
  <1>6. ASSUME NEW c \in Conns, Connected(c) PROVE ConnTypes'
    BY <1>6 DEF Connected, net, ConnTypes, Alive
  <1>7. ASSUME NEW c \in Conns, SocketClose(c) \/ SocketError(c) PROVE ConnTypes'
    <2>1. sock[c] # "none" /\ UNCHANGED <<up, opened, srv>>
      BY <1>7 DEF SocketClose, SocketError, Lost
    <2>2. PICK s \in {"closed", "errored"} : sock' = [sock EXCEPT ![c] = s]
      BY <1>7 DEF SocketClose, SocketError, Lost
    <2>3. QED
      BY <2>1, <2>2 DEF ConnTypes
  <1>8. ASSUME NEW c \in Conns, NEW n \in 1 .. Len(toCli[c]), Data(c, n) PROVE ConnTypes'
    BY <1>8, <1>a DEF Data
  <1>9. CASE ServerDown
    BY <1>9 DEF ServerDown, ServerOnly, Close, ConnTypes
  <1>10. CASE ServerStart
    BY <1>10 DEF ServerStart, ServerOnly, ConnTypes
  <1>11. ASSUME NEW c \in Conns, SrvServe(c) \/ SrvReply(c) PROVE ConnTypes'
    BY <1>11, <1>a DEF SrvServe, SrvReply, ServerOnly
  <1>12. ASSUME NEW c \in Conns, SrvDrop(c) PROVE ConnTypes'
    BY <1>12 DEF SrvDrop, ServerOnly, Close, ConnTypes
  <1>13. CASE UNCHANGED vars
    BY <1>13, <1>a DEF vars, net
  <1>14. QED
    BY <1>1, <1>2, <1>3, <1>4, <1>5, <1>6, <1>7, <1>8, <1>9, <1>10, <1>11, <1>12, <1>13
    DEF Next, Quiescent

-----------------------------------------------------------------------------
(* The server. *)

(* The server has not run the request of a call that starts. *)
LEMMA StartServer ==
  ASSUME CallTypes, ServerTypes, NEW k \in Callers, Start(k), UNCHANGED serving
  PROVE  ServerTypes'
  <1>1. CASE Busy(k)
    BY <1>1, SameIds DEF Start, ServerTypes
  <1>2. CASE ~Busy(k)
    <2>1. nextRequestId' = nextRequestId + 1 /\ executed' = Append(executed, 0)
      BY <1>2 DEF Start
    <2>2. executed' \in [1 .. (nextRequestId' - 1) -> Nat]
      <3>1. executed \in Seq(Nat) /\ Len(executed) = nextRequestId - 1
        BY FunctionIsSeq DEF CallTypes, ServerTypes, Ids
      <3>2. nextRequestId' - 1 = nextRequestId + 1 - 1
        BY <2>1 DEF CallTypes
      <3>3. nextRequestId \in Nat \ {0} /\ 0 \in Nat
        BY DEF CallTypes
      <3>4. Append(executed, 0) \in [1 .. (nextRequestId + 1 - 1) -> Nat]
        BY <3>1, <3>3, AppendFunction
      <3>5. QED
        BY <2>1, <3>2, <3>4
    <2>3. 0 .. (nextRequestId - 1) \subseteq 0 .. (nextRequestId' - 1)
      BY <2>1 DEF CallTypes
    <2>4. QED
      BY <2>2, <2>3 DEF ServerTypes, Ids
  <1>3. QED
    BY <1>1, <1>2

(* Every step keeps the types of what the server does. *)
LEMMA ServerTypesStep == Types /\ [Next]_vars => ServerTypes'
  <1> SUFFICES ASSUME Types, [Next]_vars PROVE ServerTypes'
    OBVIOUS
  <1> USE DEF Types
  <1>a. CASE UNCHANGED <<nextRequestId, serving, executed>>
    BY <1>a, SameIds DEF ServerTypes
  <1>1. CASE Connect \/ Disconnect \/ RetryTick \/ Resume
    BY <1>1, <1>a DEF Connect, Disconnect, RetryTick, Resume, net
  <1>2. ASSUME NEW k \in Callers, Begin(k) \/ Poll(k) PROVE ServerTypes'
    BY <1>2, <1>a, StartServer DEF Begin, Poll
  <1>3. ASSUME NEW k \in Callers, Written(k) \/ TimeOut(k) PROVE ServerTypes'
    BY <1>3, <1>a DEF Written, TimeOut, net
  <1>4. ASSUME NEW c \in Conns, Connected(c) \/ SocketClose(c) \/ SocketError(c) PROVE ServerTypes'
    BY <1>4, <1>a DEF Connected, SocketClose, SocketError, Lost, net
  <1>5. ASSUME NEW c \in Conns, NEW n \in 1 .. Len(toCli[c]), Data(c, n) PROVE ServerTypes'
    BY <1>5, <1>a DEF Data
  <1>6. ASSUME NEW c \in Conns, SrvServe(c) PROVE ServerTypes'
    <2>1. toSrv[c][2] \in Request /\ nextRequestId' = nextRequestId
      BY <1>6 DEF SrvServe, ServerOnly, WordTypes
    <2>2. toSrv[c][2].id \in Ids
      BY <2>1 DEF Request
    <2>3. serving' \in [Conns -> 0 .. (nextRequestId - 1)]
      BY <1>6, <2>2 DEF SrvServe, ServerTypes, Ids, CallTypes
    <2>4. executed' \in [Ids -> Nat]
      BY <1>6, <2>2 DEF SrvServe, ServerTypes
    <2>5. QED
      BY <2>1, <2>3, <2>4, SameIds DEF ServerTypes
  <1>7. ASSUME NEW c \in Conns, SrvReply(c) PROVE ServerTypes'
    BY <1>7, SameIds DEF SrvReply, ServerOnly, ServerTypes, CallTypes
  <1>8. CASE ServerDown \/ \E c \in Conns : SrvDrop(c)
    BY <1>8, SameIds DEF ServerDown, SrvDrop, Close, ServerOnly, ServerTypes, CallTypes
  <1>9. CASE ServerStart \/ UNCHANGED vars
    BY <1>9, <1>a DEF ServerStart, ServerOnly, vars, net
  <1>10. QED
    BY <1>1, <1>2, <1>3, <1>4, <1>5, <1>6, <1>7, <1>8, <1>9 DEF Next, Quiescent

-----------------------------------------------------------------------------
(* How many words the waiting reads need. *)

(* The waiting reads that need two words: so many of the first n. *)
Twice(c, n) == {j \in 1 .. n : waiters[c][j].need = 2}

(* Of the first n waiting reads each wants one word, or two. *)
LEMMA TwiceFacts ==
  ASSUME NEW c, NEW n \in Nat
  PROVE  /\ IsFiniteSet(Twice(c, n)) /\ Cardinality(Twice(c, n)) \in Nat
         /\ Need(c, n) = n + Cardinality(Twice(c, n))
         /\ \A m \in 0 .. n : Cardinality(Twice(c, m)) <= Cardinality(Twice(c, n))
  <1>1. IsFiniteSet(1 .. n)
    BY FS_Interval
  <1>2. IsFiniteSet(Twice(c, n))
    BY <1>1, FS_Subset DEF Twice
  <1>3. \A m \in 0 .. n : Twice(c, m) \subseteq Twice(c, n)
    BY DEF Twice
  <1>4. QED
    BY <1>2, <1>3, FS_Subset, FS_CardinalityType DEF Need, Twice

(* So what the first n of them need grows with n. *)
LEMMA NeedFacts ==
  ASSUME WordTypes, NEW c \in Conns
  PROVE  /\ Need(c, 0) = 0
         /\ \A n \in 0 .. Len(waiters[c]) : Need(c, n) \in Nat
         /\ \A n \in 1 .. Len(waiters[c]) : Need(c, n) = Need(c, n - 1) + waiters[c][n].need
         /\ \A m, n \in 0 .. Len(waiters[c]) : m <= n => Need(c, m) <= Need(c, n)
  <1>0. /\ waiters[c] \in Seq(Waiter) /\ Len(waiters[c]) \in Nat
        /\ \A n \in 1 .. Len(waiters[c]) : waiters[c][n] \in Waiter
    BY DEF WordTypes
  <1>3. Need(c, 0) = 0
    <2>1. Twice(c, 0) = {}
      BY DEF Twice
    <2>2. Need(c, 0) = 0 + Cardinality(Twice(c, 0))
      BY TwiceFacts
    <2>3. QED
      BY <2>1, <2>2, FS_EmptySet
  <1>4. ASSUME NEW n \in 1 .. Len(waiters[c]) PROVE Need(c, n) = Need(c, n - 1) + waiters[c][n].need
    <2>1. n \in Nat /\ n - 1 \in Nat /\ n \notin Twice(c, n - 1)
      BY <1>0 DEF Twice
    <2>2. waiters[c][n].need \in {1, 2}
      <3>1. waiters[c][n] \in Waiter
        BY <1>0
      <3>2. QED
        BY <3>1 DEF Waiter, Reader
    <2>3. CASE waiters[c][n].need = 2
      <3>1. Twice(c, n) = Twice(c, n - 1) \cup {n}
        BY <1>0, <2>3 DEF Twice
      <3>2. Cardinality(Twice(c, n)) = Cardinality(Twice(c, n - 1)) + 1
        BY <2>1, <3>1, TwiceFacts, FS_AddElement
      <3>3. QED
        BY <2>1, <2>3, <3>2, TwiceFacts
    <2>4. CASE waiters[c][n].need = 1
      <3>1. Twice(c, n) = Twice(c, n - 1)
        BY <1>0, <2>4 DEF Twice
      <3>2. QED
        BY <2>1, <2>4, <3>1, TwiceFacts
    <2>5. QED
      BY <2>2, <2>3, <2>4
  <1>5. ASSUME NEW m \in 0 .. Len(waiters[c]), NEW n \in 0 .. Len(waiters[c]), m <= n
        PROVE  Need(c, m) <= Need(c, n)
    <2>1. m \in Nat /\ n \in Nat /\ m \in 0 .. n
      BY <1>0, <1>5
    <2>2. QED
      BY <1>5, <2>1, TwiceFacts
  <1>6. \A n \in 0 .. Len(waiters[c]) : Need(c, n) \in Nat
    BY <1>0, TwiceFacts
  <1>7. QED
    BY <1>3, <1>4, <1>5, <1>6

-----------------------------------------------------------------------------
(* The words on their way, and the reads. *)

(* What a read takes, and what it leaves. *)
LEMMA Cut ==
  ASSUME NEW S, NEW s \in Seq(S), NEW m \in Nat, NEW n \in Nat, m <= n, n <= Len(s)
  PROVE  /\ SubSeq(s, m + 1, n) \in Seq(S) /\ Len(SubSeq(s, m + 1, n)) = n - m
         /\ \A i \in 1 .. (n - m) : SubSeq(s, m + 1, n)[i] = s[m + i]
  <1>1. \A i \in (m + 1) .. n : s[i] \in S
    BY ElementOfSeq
  <1>2. SubSeq(s, m + 1, n) \in Seq(S)
    BY <1>1, SubSeqProperties
  <1>3. Len(SubSeq(s, m + 1, n)) = n - m
    BY SubSeqProperties
  <1>4. QED
    BY <1>2, <1>3, SubSeqProperties

(* A read takes the first words of the buffer, or waits: types are kept. *)
LEMMA ReadTypes ==
  ASSUME WordTypes, micro # <<>>, NEW m, m = Head(micro), NEW n \in {1, 2},
         NEW s \in {"header", "payload"}, s = "header" => n = 1, Read(m, s, n),
         UNCHANGED <<nextRequestId, toCli, toSrv>>
  PROVE  WordTypes'
  <1>1. m \in Token /\ Tail(micro) \in Seq(Token)
    BY HeadTailProperties DEF WordTypes
  <1>2. m.conn \in Conns /\ m.id \in Ids /\ buffer[m.conn] \in Seq(Reply)
    BY <1>1 DEF Token, WordTypes
  <1>4. CASE Len(buffer[m.conn]) >= n
    <2> DEFINE b == SubSeq(buffer[m.conn], n + 1, Len(buffer[m.conn]))
               r == [m EXCEPT !.step = s, !.got = SubSeq(buffer[m.conn], 1, n)]
    <2>1. b \in Seq(Reply)
      BY <1>2, <1>4, Cut
    <2>2. SubSeq(buffer[m.conn], 1, n) \in Seq(Reply) /\ Len(SubSeq(buffer[m.conn], 1, n)) = n
      BY <1>2, <1>4, Cut
    <2>3. r \in Token
      <3>1. r.step = s /\ r.got = SubSeq(buffer[m.conn], 1, n)
        BY <1>1 DEF Token
      <3>2. r \in [conn : Conns, id : Ids, step : {"start", "header", "payload"}, got : Seq(Reply)]
        BY <1>1, <2>2 DEF Token
      <3>3. Len(r.got) \in 0 .. 2 /\ (r.step = "header" => Len(r.got) = 1)
        BY <2>2, <3>1
      <3>4. QED
        BY <3>2, <3>3 DEF Token
    <2>4. /\ buffer' = [buffer EXCEPT ![m.conn] = b] /\ micro' = Append(Tail(micro), r)
          /\ waiters' = waiters
      BY <1>4 DEF Read
    <2> HIDE DEF b, r
    <2>5. buffer' \in [Conns -> Seq(Reply)]
      BY <2>1, <2>4 DEF WordTypes
    <2>6. micro' \in Seq(Token)
      BY <1>1, <2>3, <2>4, AppendProperties
    <2>7. QED
      BY <2>4, <2>5, <2>6, SameIds DEF WordTypes
  <1>5. CASE ~(Len(buffer[m.conn]) >= n)
    <2> DEFINE r == [id |-> m.id, step |-> s, need |-> n]
    <2>1. r \in Waiter
      BY <1>2 DEF Waiter, Reader
    <2>2. /\ waiters' = [waiters EXCEPT ![m.conn] = Append(@, r)] /\ micro' = Tail(micro)
          /\ buffer' = buffer
      BY <1>5 DEF Read
    <2> HIDE DEF r
    <2>3. Append(waiters[m.conn], r) \in Seq(Waiter)
      BY <1>2, <2>1, AppendProperties DEF WordTypes
    <2>4. waiters' \in [Conns -> Seq(Waiter)]
      BY <2>2, <2>3 DEF WordTypes
    <2>5. QED
      BY <1>1, <2>2, <2>4, SameIds DEF WordTypes
  <1>6. QED
    BY <1>4, <1>5

(* The continuations that 'data' leaves: the reads it serves, in their order. *)
Served(c, n, j) ==
  LET words == buffer[c] \o SubSeq(toCli[c], 1, n) IN
  [conn |-> c, id |-> waiters[c][j].id, step |-> waiters[c][j].step,
   got |-> SubSeq(words, Need(c, j - 1) + 1, Need(c, j))]

(* What one read needs is the difference of two sums, both within the words there are. *)
LEMMA Sums ==
  \A a, b, sum, len \in Nat, need \in {1, 2} :
    b = a + need /\ b <= sum /\ sum <= len => a <= b /\ b <= len /\ b - a = need
  OBVIOUS

(* The waiting reads that are served need no more words than there are. *)
LEMMA DataFacts ==
  ASSUME WordTypes, NEW c \in Conns, NEW n \in 1 .. Len(toCli[c]), Data(c, n)
  PROVE  LET words == buffer[c] \o SubSeq(toCli[c], 1, n) IN
         /\ words \in Seq(Reply) /\ Len(words) = Len(buffer[c]) + n
         /\ \E served \in 0 .. Len(waiters[c]) :
              /\ Need(c, served) \in Nat /\ Need(c, served) <= Len(words)
              /\ served < Len(waiters[c]) => Need(c, served + 1) > Len(words)
              /\ buffer' = [buffer EXCEPT ![c] = SubSeq(words, Need(c, served) + 1, Len(words))]
              /\ waiters' = [waiters EXCEPT ![c] = SubSeq(@, served + 1, Len(@))]
              /\ micro' = [j \in 1 .. served |-> Served(c, n, j)]
              /\ \A j \in 1 .. served :
                   /\ Need(c, j) = Need(c, j - 1) + waiters[c][j].need
                   /\ Need(c, j - 1) \in Nat /\ Need(c, j) <= Need(c, served)
                   /\ waiters[c][j] \in Waiter
                   /\ Served(c, n, j).got \in Seq(Reply)
                   /\ Len(Served(c, n, j).got) = waiters[c][j].need
  <1> DEFINE words == buffer[c] \o SubSeq(toCli[c], 1, n)
  <1>1. /\ buffer[c] \in Seq(Reply) /\ toCli[c] \in Seq(Reply) /\ waiters[c] \in Seq(Waiter)
        /\ Len(waiters[c]) \in Nat /\ Len(toCli[c]) \in Nat /\ Len(buffer[c]) \in Nat
    BY DEF WordTypes
  <1>2. SubSeq(toCli[c], 1, n) \in Seq(Reply) /\ Len(SubSeq(toCli[c], 1, n)) = n
    <2>1. n \in Nat /\ 0 \in Nat /\ 0 <= n /\ n <= Len(toCli[c]) /\ 0 + 1 = 1 /\ n - 0 = n
      BY <1>1
    <2>2. /\ SubSeq(toCli[c], 0 + 1, n) \in Seq(Reply)
          /\ Len(SubSeq(toCli[c], 0 + 1, n)) = n - 0
      BY <1>1, <2>1, Cut
    <2>3. QED
      BY <2>1, <2>2
  <1>3. words \in Seq(Reply) /\ Len(words) = Len(buffer[c]) + n
    BY <1>1, <1>2, ConcatProperties
  <1>4. PICK served \in 0 .. Len(waiters[c]) :
              /\ Need(c, served) <= Len(words)
              /\ served < Len(waiters[c]) => Need(c, served + 1) > Len(words)
              /\ buffer' = [buffer EXCEPT ![c] = SubSeq(words, Need(c, served) + 1, Len(words))]
              /\ waiters' = [waiters EXCEPT ![c] = SubSeq(@, served + 1, Len(@))]
              /\ micro' = [j \in 1 .. served |-> Served(c, n, j)]
    BY DEF Data, Served
  <1>5. Need(c, served) \in Nat
    BY NeedFacts
  <1>6. ASSUME NEW j \in 1 .. served
        PROVE  /\ Need(c, j) = Need(c, j - 1) + waiters[c][j].need
               /\ Need(c, j - 1) \in Nat /\ Need(c, j) <= Need(c, served)
               /\ waiters[c][j] \in Waiter
               /\ Served(c, n, j).got \in Seq(Reply)
               /\ Len(Served(c, n, j).got) = waiters[c][j].need
    <2>1. /\ j \in 1 .. Len(waiters[c]) /\ j \in 0 .. Len(waiters[c])
          /\ j - 1 \in 0 .. Len(waiters[c]) /\ j <= served
      BY <1>1
    <2>2. waiters[c][j] \in Waiter
      BY <1>1, <2>1, ElementOfSeq
    <2>3. waiters[c][j].need \in {1, 2}
      BY <2>2 DEF Waiter, Reader
    <2>4. /\ Need(c, j) = Need(c, j - 1) + waiters[c][j].need
          /\ Need(c, j - 1) \in Nat /\ Need(c, j) \in Nat /\ Need(c, j) <= Need(c, served)
      BY <2>1, NeedFacts
    <2>5. Served(c, n, j).got = SubSeq(words, Need(c, j - 1) + 1, Need(c, j))
      BY DEF Served
    <2> HIDE DEF words
    <2>6. /\ Need(c, j - 1) <= Need(c, j) /\ Need(c, j) <= Len(words)
          /\ Need(c, j) - Need(c, j - 1) = waiters[c][j].need
      <3>1. Len(words) \in Nat
        BY <1>3
      <3>2. Need(c, served) <= Len(words)
        BY <1>4
      <3>3. QED
        BY <1>5, <2>3, <2>4, <3>1, <3>2, Sums
    <2>7. /\ SubSeq(words, Need(c, j - 1) + 1, Need(c, j)) \in Seq(Reply)
          /\ Len(SubSeq(words, Need(c, j - 1) + 1, Need(c, j))) = Need(c, j) - Need(c, j - 1)
      BY <1>3, <2>4, <2>6, Cut
    <2>8. QED
      BY <2>2, <2>4, <2>5, <2>6, <2>7
  <1>7. QED
    BY <1>3, <1>4, <1>5, <1>6

(* One word more towards the server, or none when its end is closed. *)
LEMMA WriteWord ==
  ASSUME CallTypes, WordTypes, NEW k \in Callers, NEW c \in Conns,
         NEW p \in {"header", "payload"}, NEW i \in Ids', Write(k, c, p, i),
         \/ nextRequestId' = nextRequestId
         \/ nextRequestId' = nextRequestId + 1
  PROVE  toSrv' \in [Conns -> Seq(Request')]
  <1>1. Seq(Request) \subseteq Seq(Request')
    BY SameIds, MoreIds DEF CallTypes
  <1>2. Word(p, i) \in Request'
    BY DEF Word, Request
  <1>3. toSrv \in [Conns -> Seq(Request')]
    BY <1>1 DEF WordTypes
  <1>4. Append(toSrv[c], Word(p, i)) \in Seq(Request')
    BY <1>2, <1>3, AppendProperties
  <1>5. QED
    BY <1>3, <1>4 DEF Write

(* The header a call writes is a word of a request. *)
LEMMA StartWords ==
  ASSUME CallTypes, WordTypes, NEW k \in Callers, codec # 0, Start(k),
         UNCHANGED <<reads, toCli>>
  PROVE  WordTypes'
  <1>1. CASE Busy(k)
    BY <1>1, SameIds DEF Start, reads, WordTypes
  <1>2. CASE ~Busy(k)
    <2>1. nextRequestId' = nextRequestId + 1 /\ Write(k, codec, "header", nextRequestId)
      BY <1>2 DEF Start
    <2>2. /\ nextRequestId \in Ids'
          /\ Seq(Request) \subseteq Seq(Request') /\ Seq(Reply) \subseteq Seq(Reply')
          /\ Seq(Waiter) \subseteq Seq(Waiter') /\ Seq(Token) \subseteq Seq(Token')
      BY <2>1, MoreIds DEF CallTypes
    <2>3. codec \in Conns
      BY ClientAssumption DEF CallTypes, Conns
    <2>4. toSrv' \in [Conns -> Seq(Request')]
      BY <2>1, <2>2, <2>3, WriteWord
    <2>5. UNCHANGED <<buffer, waiters, micro, toCli>>
      BY DEF reads
    <2>6. /\ buffer' \in [Conns -> Seq(Reply')] /\ toCli' \in [Conns -> Seq(Reply')]
          /\ waiters' \in [Conns -> Seq(Waiter')] /\ micro' \in Seq(Token')
      BY <2>2, <2>5 DEF WordTypes
    <2>7. QED
      BY <2>4, <2>5, <2>6 DEF WordTypes
  <1>3. QED
    BY <1>1, <1>2

(* Words that come and go to the waiting reads keep the types. *)
LEMMA DataTypes ==
  ASSUME WordTypes, NEW c \in Conns, NEW n \in 1 .. Len(toCli[c]), Data(c, n)
  PROVE  WordTypes'
  <1> DEFINE words == buffer[c] \o SubSeq(toCli[c], 1, n)
  <1>1. /\ words \in Seq(Reply) /\ waiters[c] \in Seq(Waiter)
        /\ toCli[c] \in Seq(Reply) /\ Len(toCli[c]) \in Nat
    BY DataFacts DEF WordTypes
  <1>2. PICK served \in 0 .. Len(waiters[c]) :
              /\ Need(c, served) \in Nat /\ Need(c, served) <= Len(words)
              /\ served < Len(waiters[c]) => Need(c, served + 1) > Len(words)
              /\ buffer' = [buffer EXCEPT ![c] = SubSeq(words, Need(c, served) + 1, Len(words))]
              /\ waiters' = [waiters EXCEPT ![c] = SubSeq(@, served + 1, Len(@))]
              /\ micro' = [j \in 1 .. served |-> Served(c, n, j)]
              /\ \A j \in 1 .. served :
                   /\ Need(c, j) = Need(c, j - 1) + waiters[c][j].need
                   /\ Need(c, j - 1) \in Nat /\ Need(c, j) <= Need(c, served)
                   /\ waiters[c][j] \in Waiter
                   /\ Served(c, n, j).got \in Seq(Reply)
                   /\ Len(Served(c, n, j).got) = waiters[c][j].need
    BY DataFacts
  <1> HIDE DEF words
  <1>3. SubSeq(words, Need(c, served) + 1, Len(words)) \in Seq(Reply)
    BY <1>1, <1>2, LenProperties, Cut
  <1>4. SubSeq(waiters[c], served + 1, Len(waiters[c])) \in Seq(Waiter)
    BY <1>1, LenProperties, Cut
  <1>5. SubSeq(toCli[c], n + 1, Len(toCli[c])) \in Seq(Reply)
    BY <1>1, Cut
  <1>6. ASSUME NEW j \in 1 .. served PROVE Served(c, n, j) \in Token
    <2>1. /\ waiters[c][j] \in Waiter /\ Served(c, n, j).got \in Seq(Reply)
          /\ Len(Served(c, n, j).got) = waiters[c][j].need
      BY <1>2
    <2>2. /\ waiters[c][j].id \in Ids /\ waiters[c][j].step \in {"header", "payload"}
          /\ waiters[c][j].need \in {1, 2}
          /\ waiters[c][j].step = "header" => waiters[c][j].need = 1
      BY <2>1 DEF Waiter, Reader
    <2>3. /\ Served(c, n, j).conn = c /\ Served(c, n, j).id = waiters[c][j].id
          /\ Served(c, n, j).step = waiters[c][j].step
          /\ Served(c, n, j) = [conn |-> Served(c, n, j).conn, id |-> Served(c, n, j).id,
                                step |-> Served(c, n, j).step, got |-> Served(c, n, j).got]
      BY DEF Served
    <2>4. Served(c, n, j) \in
            [conn : Conns, id : Ids, step : {"start", "header", "payload"}, got : Seq(Reply)]
      BY <2>1, <2>2, <2>3
    <2>5. Len(Served(c, n, j).got) \in 0 .. 2
          /\ (Served(c, n, j).step = "header" => Len(Served(c, n, j).got) = 1)
      BY <2>1, <2>2, <2>3
    <2>6. QED
      BY <2>4, <2>5 DEF Token
  <1>7. micro' \in Seq(Token) /\ DOMAIN micro' = 1 .. served
    <2>1. micro' \in [1 .. served -> Token] /\ served \in Nat
      BY <1>2, <1>6
    <2>2. QED
      BY <2>1, SeqDef
  <1>9. UNCHANGED <<nextRequestId, toSrv>>
        /\ toCli' = [toCli EXCEPT ![c] = SubSeq(@, n + 1, Len(@))]
    BY DEF Data
  <1>10. QED
    BY <1>2, <1>3, <1>4, <1>5, <1>7, <1>9, SameIds DEF WordTypes

(* The next continuation is a read that goes on, or one that ends. *)
LEMMA ResumeCases ==
  ASSUME WordTypes, Resume
  PROVE  /\ micro # <<>> /\ Head(micro) \in Token
         /\ UNCHANGED <<config, codec, nextRequestId, loop, sock, net, bounds>>
         /\ \/ /\ UNCHANGED calls
               /\ \/ Head(micro).step = "start" /\ Read(Head(micro), "header", 1)
                  \/ /\ Head(micro).step = "header"
                     /\ \E n \in {1, 2} : Read(Head(micro), "payload", n)
            \/ /\ Head(micro).step \in {"header", "payload"}
               /\ EndRead(Head(micro), "garbled")
            \/ /\ Head(micro).step = "payload"
               /\ EndRead(Head(micro), "ok") /\ Head(micro).got = Response(Head(micro).id)
  <1> DEFINE m == Head(micro)
  <1>1. micro # <<>> /\ m \in Token
        /\ UNCHANGED <<config, codec, nextRequestId, loop, sock, net, bounds>>
    BY HeadTailProperties DEF Resume, WordTypes
  <1>2. m.step = "header" => m.got[1] \in Reply
    BY <1>1 DEF Token
  <1>3. ASSUME m.step = "header", NEW n \in Lengths(m.got[1]) PROVE n \in {1, 2}
    BY <1>2, <1>3 DEF Lengths, Reply
  <1>4. \/ m.step = "start" /\ Read(m, "header", 1)
        \/ m.step = "header" /\ \E n \in Lengths(m.got[1]) : Read(m, "payload", n)
        \/ m.step = "header" /\ EndRead(m, "garbled")
        \/ m.step = "payload" /\ EndRead(m, Decoded(m))
    BY DEF Resume
  <1>5. QED
    BY <1>1, <1>3, <1>4 DEF Read, Decoded

(* Every step keeps the types of the words on their way and of the reads. *)
LEMMA WordTypesStep == Types /\ [Next]_vars => WordTypes'
  <1> SUFFICES ASSUME Types, [Next]_vars PROVE WordTypes'
    OBVIOUS
  <1> USE DEF Types
  <1>a. CASE UNCHANGED <<nextRequestId, reads, toSrv, toCli>>
    BY <1>a, SameIds DEF reads, WordTypes
  <1>1. CASE Connect \/ Disconnect \/ RetryTick
    BY <1>1, <1>a DEF Connect, Disconnect, RetryTick, net
  <1>2. CASE Resume
    <2>1. UNCHANGED <<nextRequestId, toCli, toSrv>>
      BY <1>2 DEF Resume, net
    <2>2. CASE \E v : EndRead(Head(micro), v)
      <3>1. micro' = Tail(micro) /\ UNCHANGED <<buffer, waiters>>
        BY <2>2 DEF EndRead
      <3>2. micro' \in Seq(Token)
        BY <1>2, <3>1, ResumeCases, HeadTailProperties DEF WordTypes
      <3>3. QED
        BY <2>1, <3>1, <3>2, SameIds DEF WordTypes
    <2>3. CASE Read(Head(micro), "header", 1)
      BY <1>2, <2>1, <2>3, ResumeCases, ReadTypes
    <2>4. CASE \E n \in {1, 2} : Read(Head(micro), "payload", n)
      BY <1>2, <2>1, <2>4, ResumeCases, ReadTypes
    <2>5. QED
      BY <1>2, <2>2, <2>3, <2>4, ResumeCases
  <1>3. ASSUME NEW k \in Callers, Begin(k) \/ Poll(k) PROVE WordTypes'
    <2>1. CASE codec # 0 /\ Start(k)
      BY <1>3, <2>1, StartWords DEF Begin, Poll
    <2>2. CASE ~(codec # 0 /\ Start(k))
      BY <1>3, <2>2, <1>a DEF Begin, Poll
    <2>3. QED
      BY <2>1, <2>2
  <1>4. ASSUME NEW k \in Callers, Written(k) PROVE WordTypes'
    <2>0. UNCHANGED <<codec, nextRequestId, buffer, waiters, toCli>>
      BY <1>4 DEF Written
    <2>1. CASE /\ pc[k] = "send_header" /\ Write(k, wconn[k], "payload", id[k])
               /\ micro' = micro
      <3>1. wconn[k] \in Conns /\ id[k] \in Ids
        BY <2>1, ClientAssumption DEF CallTypes, CallFields, InCall, Sending, Conns, Ids
      <3>2. toSrv' \in [Conns -> Seq(Request')]
        BY <2>0, <2>1, <3>1, SameIds, WriteWord
      <3>3. QED
        BY <2>0, <2>1, <3>2, SameIds DEF WordTypes
    <2>2. CASE /\ pc[k] = "send_payload" /\ codec # 0 /\ toSrv' = toSrv
               /\ micro' = <<[conn |-> codec, id |-> id[k], step |-> "start", got |-> <<>>]>>
      <3>1. codec \in Conns /\ id[k] \in Ids
        BY <2>2, ClientAssumption DEF CallTypes, CallFields, InCall, Sending, Conns, Ids
      <3>2. <<>> \in Seq(Reply) /\ Len(<<>>) = 0
        OBVIOUS
      <3>3. [conn |-> codec, id |-> id[k], step |-> "start", got |-> <<>>] \in Token
        BY <3>1, <3>2 DEF Token
      <3>4. micro' \in Seq(Token)
        BY <2>2, <3>3
      <3>5. QED
        BY <2>0, <2>2, <3>4, SameIds DEF WordTypes
    <2>3. CASE UNCHANGED <<toSrv, micro>>
      BY <2>0, <2>3, <1>a DEF reads
    <2>4. QED
      BY <1>4, <2>1, <2>2, <2>3 DEF Written, reads
  <1>5. ASSUME NEW k \in Callers, TimeOut(k) PROVE WordTypes'
    BY <1>5, <1>a DEF TimeOut, net
  <1>6. ASSUME NEW c \in Conns, Connected(c) PROVE WordTypes'
    BY <1>6, <1>a DEF Connected, net
  <1>7. ASSUME NEW c \in Conns, NEW s, Lost(c, s) PROVE WordTypes'
    <2>1. /\ UNCHANGED <<nextRequestId, buffer, micro, toSrv>>
          /\ toCli' = [toCli EXCEPT ![c] = <<>>] /\ waiters' = [waiters EXCEPT ![c] = <<>>]
      BY <1>7 DEF Lost, RejectWaiters
    <2>2. <<>> \in Seq(Reply) /\ <<>> \in Seq(Waiter)
      OBVIOUS
    <2>3. QED
      BY <2>1, <2>2, SameIds DEF WordTypes
  <1>8. ASSUME NEW c \in Conns, NEW n \in 1 .. Len(toCli[c]), Data(c, n) PROVE WordTypes'
    BY <1>8, DataTypes
  <1>9. ASSUME NEW c \in Conns, SrvServe(c) PROVE WordTypes'
    <2>1. /\ UNCHANGED <<nextRequestId, buffer, micro, toCli, waiters>>
          /\ toSrv' = [toSrv EXCEPT ![c] = SubSeq(@, 3, Len(@))] /\ Len(toSrv[c]) >= 2
      BY <1>9 DEF SrvServe, ServerOnly, reads
    <2>2. SubSeq(toSrv[c], 2 + 1, Len(toSrv[c])) \in Seq(Request)
      BY <2>1, Cut DEF WordTypes
    <2>3. QED
      BY <2>1, <2>2, SameIds DEF WordTypes
  <1>10. ASSUME NEW c \in Conns, SrvReply(c) PROVE WordTypes'
    <2> DEFINE i == serving[c]
    <2>1. /\ UNCHANGED <<nextRequestId, buffer, micro, toSrv, waiters>>
          /\ toCli' = [toCli EXCEPT ![c] = Append(@, Word("header", i)) \o Response(i)]
          /\ i \in Ids
      BY <1>10 DEF SrvReply, ServerOnly, reads, ServerTypes, Ids, CallTypes
    <2> HIDE DEF i
    <2>2. Word("header", i) \in Reply /\ Word("first", i) \in Reply /\ Word("rest", i) \in Reply
      BY <2>1 DEF Word, Reply
    <2>3. Response(i) \in Seq(Reply) /\ Append(toCli[c], Word("header", i)) \in Seq(Reply)
      BY <2>2, AppendProperties DEF Response, WordTypes
    <2>4. Append(toCli[c], Word("header", i)) \o Response(i) \in Seq(Reply)
      BY <2>3, ConcatProperties
    <2>5. QED
      BY <2>1, <2>4, SameIds DEF WordTypes
  <1>11. CASE ServerDown \/ \E c \in Conns : SrvDrop(c)
    <2>1. /\ UNCHANGED <<nextRequestId, buffer, micro, toCli, waiters>>
          /\ \E C : toSrv' = [c \in Conns |-> IF c \in C THEN <<>> ELSE toSrv[c]]
      BY <1>11 DEF ServerDown, SrvDrop, Close, ServerOnly, reads
    <2>2. <<>> \in Seq(Request)
      OBVIOUS
    <2>3. toSrv' \in [Conns -> Seq(Request)]
      BY <2>1, <2>2 DEF WordTypes
    <2>4. QED
      BY <2>1, <2>3, SameIds DEF WordTypes
  <1>12. CASE ServerStart \/ UNCHANGED vars
    BY <1>12, <1>a DEF ServerStart, ServerOnly, vars, net
  <1>13. QED
    BY <1>1, <1>2, <1>3, <1>4, <1>5, <1>6, <1>7, <1>8, <1>9, <1>10, <1>11, <1>12
    DEF Next, Quiescent, SocketClose, SocketError

-----------------------------------------------------------------------------
(* The fields of a call. *)

(* A call that ends gives up its id and its connection. *)
LEMMA FinishFields ==
  ASSUME CallTypes, CallFields, NEW K, NEW v, Finish(K, v) PROVE CallFields'
  BY DEF CallTypes, CallFields, Finish, InCall, Sending

(* A call that starts has an id, and the connection it writes on. *)
LEMMA StartFields ==
  ASSUME CallTypes, CallFields, NEW k \in Callers, pc[k] \in {"idle", "wait"},
         codec # 0, Start(k)
  PROVE  CallFields'
  BY DEF CallTypes, CallFields, Start, Write, InCall, Sending

(* Every step keeps ids and connections with the calls that need them. *)
LEMMA CallFieldsStep == Types /\ [Next]_vars => CallFields'
  <1> SUFFICES ASSUME Types, [Next]_vars PROVE CallFields'
    OBVIOUS
  <1> USE DEF Types
  <1>a. CASE UNCHANGED calls
    BY <1>a DEF CallFields, calls
  <1>1. CASE Connect \/ Disconnect \/ RetryTick
    BY <1>1, <1>a DEF Connect, Disconnect, RetryTick
  <1>2. CASE Resume
    BY <1>2, <1>a, ResumeCases, FinishFields DEF EndRead
  <1>3. ASSUME NEW k \in Callers, Begin(k) \/ Poll(k) PROVE CallFields'
    <2>1. CASE codec # 0 /\ Start(k)
      BY <1>3, <2>1, StartFields DEF Begin, Poll
    <2>2. CASE ~(codec # 0 /\ Start(k))
      BY <1>3, <2>2 DEF Begin, Poll, CallFields, CallTypes, InCall, Sending
    <2>3. QED
      BY <2>1, <2>2
  <1>4. ASSUME NEW k \in Callers, Written(k) PROVE CallFields'
    <2>1. CASE pc[k] = "send_header"
      BY <1>4, <2>1 DEF Written, Write, CallFields, CallTypes, InCall, Sending
    <2>2. CASE pc[k] = "send_payload" /\ codec # 0
      BY <1>4, <2>2 DEF Written, CallFields, CallTypes, InCall, Sending
    <2>3. CASE pc[k] = "send_payload" /\ codec = 0
      BY <1>4, <2>3, FinishFields DEF Written
    <2>4. QED
      BY <1>4, <2>1, <2>2, <2>3 DEF Written
  <1>5. ASSUME NEW k \in Callers, TimeOut(k) PROVE CallFields'
    BY <1>5, FinishFields DEF TimeOut
  <1>6. ASSUME NEW c \in Conns, Connected(c) PROVE CallFields'
    BY <1>6, <1>a DEF Connected
  <1>7. ASSUME NEW c \in Conns, NEW s, Lost(c, s) PROVE CallFields'
    BY <1>7, FinishFields DEF Lost, RejectWaiters
  <1>8. ASSUME NEW c \in Conns, NEW n \in 1 .. Len(toCli[c]), Data(c, n) PROVE CallFields'
    BY <1>8, <1>a DEF Data
  <1>9. CASE ServerDown \/ ServerStart
    BY <1>9, <1>a DEF ServerDown, ServerStart, ServerOnly
  <1>10. ASSUME NEW c \in Conns, SrvServe(c) \/ SrvReply(c) \/ SrvDrop(c) PROVE CallFields'
    BY <1>10, <1>a DEF SrvServe, SrvReply, SrvDrop, ServerOnly
  <1>11. CASE UNCHANGED vars
    BY <1>11, <1>a DEF vars
  <1>12. QED
    BY <1>1, <1>2, <1>3, <1>4, <1>5, <1>6, <1>7, <1>8, <1>9, <1>10, <1>11
    DEF Next, Quiescent, SocketClose, SocketError

(* Every step keeps the types. *)
LEMMA TypesStep == Types /\ [Next]_vars => Types'
  BY CallTypesStep, CallFieldsStep, LoopTypesStep, ConnTypesStep, WordTypesStep, ServerTypesStep
  DEF Types

(* They give the type invariant of the runs. *)
LEMMA TypesOK == Types => TypeOK
  <1> SUFFICES ASSUME Types PROVE TypeOK
    OBVIOUS
  <1>1. /\ Reply \subseteq Words /\ Request \subseteq Words /\ Waiter \subseteq Reader
        /\ \A m \in Token : m.conn \in Conns /\ m.id \in Ids /\ Len(m.got) \in 0 .. 2
    BY DEF Reply, Request, Words, Waiter, Token
  <1>2. ASSUME NEW c \in Conns
        PROVE  /\ \A n \in DOMAIN buffer[c] : buffer[c][n] \in Words
               /\ \A n \in DOMAIN toCli[c] : toCli[c][n] \in Words
               /\ \A n \in DOMAIN toSrv[c] : toSrv[c][n] \in Words
               /\ \A n \in DOMAIN waiters[c] : waiters[c][n] \in Reader
    BY <1>1, ElementOfSeq, LenProperties DEF Types, WordTypes
  <1>3. DOMAIN buffer = Conns /\ DOMAIN waiters = Conns
    BY DEF Types, WordTypes
  <1>4. \A n \in DOMAIN micro :
          micro[n].conn \in Conns /\ micro[n].id \in Ids /\ Len(micro[n].got) \in 0 .. 2
    BY <1>1, ElementOfSeq, LenProperties DEF Types, WordTypes
  <1>5. /\ config \in Configs /\ codec \in 0 .. MaxConns
        /\ nextRequestId \in Nat \ {0} /\ callInFlight \in BOOLEAN
        /\ pc \in [Callers -> {"idle", "wait"} \cup InCall]
        /\ id \in [Callers -> 0 .. (nextRequestId - 1)]
        /\ wconn \in [Callers -> 0 .. MaxConns]
        /\ outcome \in [Ids -> {"pending", "ok", "error", "garbled", "timeout"}]
    BY Zenon DEF Types, CallTypes
  <1>6. /\ retry \in {"off", "sleep", "dial"}
        /\ attempt \in Nat /\ (attempt # 0 => attempt < config.maxAttempts)
    BY Zenon DEF Types, LoopTypes
  <1>7. /\ up \in BOOLEAN /\ opened \in 0 .. MaxConns
        /\ sock \in [Conns -> {"none", "errored", "closed"} \cup Alive]
        /\ srv \in [Conns -> {"unused", "open", "closed"}]
    BY Zenon DEF Types, ConnTypes
  <1>8. /\ serving \in [Conns -> 0 .. (nextRequestId - 1)]
        /\ executed \in [Ids -> Nat]
    BY Zenon DEF Types, ServerTypes
  <1>9. \A c \in Conns : /\ \A n \in DOMAIN buffer[c] : buffer[c][n] \in Words
                         /\ \A n \in DOMAIN waiters[c] : waiters[c][n] \in Reader
    BY <1>2
  <1>10. \A c \in Conns : /\ \A n \in DOMAIN toSrv[c] : toSrv[c][n] \in Words
                          /\ \A n \in DOMAIN toCli[c] : toCli[c][n] \in Words
    BY <1>2
  <1>11. QED
    BY <1>3, <1>4, <1>5, <1>6, <1>7, <1>8, <1>9, <1>10, Zenon DEF TypeOK

-----------------------------------------------------------------------------
(* The inductive invariant.                                                *)

(* A dead socket was closed by the server first, and carries no request. *)
DeadIsClosed ==
  \A c \in Conns : /\ sock[c] \in {"errored", "closed"} => srv[c] = "closed"
                   /\ srv[c] # "open" => toSrv[c] = <<>> /\ serving[c] = 0

(* A continuation stands on an open socket, and a call that waits for its *)
(* response has a continuation, or a read that waits on an open socket.   *)
HasReader(k) ==
  \/ \E n \in DOMAIN micro : micro[n].id = id[k]
  \/ \E c \in Conns : /\ sock[c] = "open"
                      /\ \E n \in DOMAIN waiters[c] : waiters[c][n].id = id[k]

Wakes ==
  /\ \A n \in DOMAIN micro : sock[micro[n].conn] = "open"
  /\ \A k \in Callers : pc[k] = "recv" => HasReader(k)

(* A connection that ends in a header has a call that writes the payload next. *)
Odd(s) == Len(s) % 2 = 1

Frames ==
  /\ \A c \in Conns : WholeFrames(c)
  /\ \A c \in Conns : Odd(toSrv[c]) => \E k \in Callers : pc[k] = "send_header" /\ wconn[k] = c
  /\ \A k \in Callers : pc[k] = "send_header" =>
       LET s == toSrv[wconn[k]] IN
       /\ wconn[k] \in 1 .. opened
       /\ srv[wconn[k]] = "open" => Odd(s) /\ s[Len(s)].id = id[k]

(* A request is on its way once, and runs once; a response comes of a request that ran. *)
Pending == \A k \in Callers : pc[k] \in InCall => outcome[id[k]] = "pending"

RunsOnce ==
  /\ \A i \in Ids : executed[i] \in {0, 1}
  /\ \A c \in Conns : \A n \in DOMAIN toSrv[c] : executed[toSrv[c][n].id] = 0
  /\ \A c, d \in Conns : \A m \in DOMAIN toSrv[c] : \A n \in DOMAIN toSrv[d] :
       /\ toSrv[c][m].part = "header" /\ toSrv[d][n].part = "header"
       /\ toSrv[c][m].id = toSrv[d][n].id
       => c = d /\ m = n

AllRan(s, runs) == \A n \in DOMAIN s : runs[s[n].id] = 1

RanBefore ==
  /\ \A i \in Ids : outcome[i] = "ok" => executed[i] = 1
  /\ \A c \in Conns : /\ serving[c] # 0 => executed[serving[c]] = 1
                      /\ AllRan(toCli[c], executed) /\ AllRan(buffer[c], executed)
  /\ \A n \in DOMAIN micro : AllRan(micro[n].got, executed)

Safety == DeadIsClosed /\ CodecIsOpen /\ OneInFlight /\ KeepsReconnecting /\ Wakes /\ Frames
IInv == Types /\ Safety
CInv == IInv /\ Pending /\ RunsOnce /\ RanBefore

(* The parts of the invariant hold at the start. *)
LEMMA SafetyInit == Init => Safety
  <1> SUFFICES ASSUME Init PROVE Safety
    OBVIOUS
  <1>1. DeadIsClosed /\ CodecIsOpen /\ OneInFlight /\ KeepsReconnecting
    BY DEF Init, DeadIsClosed, CodecIsOpen, OneInFlight, KeepsReconnecting, InCall, Sending
  <1>2. Wakes
    BY DEF Init, Wakes
  <1>3. Frames
    <2>1. \A c \in Conns : toSrv[c] = <<>> /\ Len(toSrv[c]) = 0 /\ DOMAIN toSrv[c] = {}
      BY DEF Init
    <2>2. QED
      BY <2>1 DEF Init, Frames, WholeFrames, Odd
  <1>4. QED
    BY <1>1, <1>2, <1>3 DEF Safety

-----------------------------------------------------------------------------
(* The connections and the codec. *)

(* An ended socket is closed at the server too, and nothing is on its way there. *)
LEMMA DeadIsClosedStep == Types /\ DeadIsClosed /\ CodecIsOpen /\ [Next]_vars => DeadIsClosed'
  <1> SUFFICES ASSUME Types, DeadIsClosed, CodecIsOpen, [Next]_vars PROVE DeadIsClosed'
    OBVIOUS
  <1> USE DEF Types, ConnTypes, DeadIsClosed
  <1>a. CASE UNCHANGED <<sock, srv, toSrv, serving>>
    BY <1>a
  <1>1. CASE Disconnect \/ Resume
    BY <1>1, <1>a DEF Disconnect, Resume, net
  <1>2. CASE Connect
    BY <1>2 DEF Connect, Dial
  <1>3. CASE RetryTick
    BY <1>3 DEF RetryTick, Dial
  <1>4. ASSUME NEW k \in Callers, NEW c \in Conns, NEW p, NEW i, Write(k, c, p, i),
               UNCHANGED <<sock, srv, serving>>
        PROVE  DeadIsClosed'
    BY <1>4 DEF Write, WordTypes
  <1>5. ASSUME NEW k \in Callers, Begin(k) \/ Poll(k) PROVE DeadIsClosed'
    <2>1. CASE codec # 0 /\ Start(k) /\ ~Busy(k)
      BY <1>4, <1>5, <2>1, ClientAssumption DEF Begin, Poll, Start, CallTypes, Conns
    <2>2. CASE ~(codec # 0 /\ Start(k) /\ ~Busy(k))
      BY <1>5, <2>2, <1>a DEF Begin, Poll, Start
    <2>3. QED
      BY <2>1, <2>2
  <1>6. ASSUME NEW k \in Callers, Written(k) PROVE DeadIsClosed'
    <2>1. CASE pc[k] = "send_header"
      <3>1. wconn[k] \in Conns
        BY <2>1, ClientAssumption DEF CallTypes, CallFields, Sending, Conns
      <3>2. QED
        BY <1>4, <1>6, <2>1, <3>1 DEF Written
    <2>2. CASE pc[k] # "send_header"
      BY <1>6, <2>2, <1>a DEF Written
    <2>3. QED
      BY <2>1, <2>2
  <1>7. ASSUME NEW k \in Callers, TimeOut(k) PROVE DeadIsClosed'
    BY <1>7, <1>a DEF TimeOut, net
  <1>8. ASSUME NEW c \in Conns, Connected(c) PROVE DeadIsClosed'
    BY <1>8 DEF Connected, net
  <1>9. ASSUME NEW c \in Conns, SocketClose(c) \/ SocketError(c) PROVE DeadIsClosed'
    BY <1>9 DEF SocketClose, SocketError, Lost
  <1>10. ASSUME NEW c \in Conns, NEW n \in 1 .. Len(toCli[c]), Data(c, n) PROVE DeadIsClosed'
    BY <1>10, <1>a DEF Data
  <1>11. CASE ServerDown \/ \E c \in Conns : SrvDrop(c)
    BY <1>11 DEF ServerDown, SrvDrop, ServerOnly, Close
  <1>12. ASSUME NEW c \in Conns, SrvServe(c) \/ SrvReply(c) PROVE DeadIsClosed'
    BY <1>12 DEF SrvServe, SrvReply, ServerOnly, WordTypes, ServerTypes
  <1>13. CASE ServerStart \/ UNCHANGED vars
    BY <1>13, <1>a DEF ServerStart, ServerOnly, vars, net
  <1>14. QED
    BY <1>1, <1>2, <1>3, <1>5, <1>6, <1>7, <1>8, <1>9, <1>10, <1>11, <1>12, <1>13
    DEF Next, Quiescent

(* Whatever ends the socket of the codec resets the codec in the same task. *)
LEMMA CodecIsOpenStep == Types /\ CodecIsOpen /\ [Next]_vars => CodecIsOpen'
  <1> SUFFICES ASSUME Types, CodecIsOpen, [Next]_vars PROVE CodecIsOpen'
    OBVIOUS
  <1> USE DEF Types, ConnTypes, CodecIsOpen
  <1>a. CASE UNCHANGED <<codec, sock>>
    BY <1>a
  <1>1. CASE Disconnect \/ Resume \/ ServerDown \/ ServerStart \/ UNCHANGED vars
    BY <1>1, <1>a DEF Disconnect, Resume, ServerDown, ServerStart, ServerOnly, vars
  <1>2. CASE Connect \/ RetryTick
    BY <1>2, <1>a DEF Connect, RetryTick, CanDial
  <1>3. ASSUME NEW k \in Callers, Begin(k) \/ Poll(k) \/ Written(k) \/ TimeOut(k)
        PROVE  CodecIsOpen'
    BY <1>3, <1>a DEF Begin, Poll, Written, TimeOut
  <1>4. ASSUME NEW c \in Conns, Connected(c) PROVE CodecIsOpen'
    BY <1>4 DEF Connected
  <1>5. ASSUME NEW c \in Conns, NEW s, Lost(c, s) PROVE CodecIsOpen'
    BY <1>5 DEF Lost, ResetCodec
  <1>6. ASSUME NEW c \in Conns, NEW n \in 1 .. Len(toCli[c]), Data(c, n) PROVE CodecIsOpen'
    BY <1>6, <1>a DEF Data
  <1>7. ASSUME NEW c \in Conns, SrvServe(c) \/ SrvReply(c) \/ SrvDrop(c) PROVE CodecIsOpen'
    BY <1>7, <1>a DEF SrvServe, SrvReply, SrvDrop, ServerOnly
  <1>8. QED
    BY <1>1, <1>2, <1>3, <1>4, <1>5, <1>6, <1>7 DEF Next, Quiescent, SocketClose, SocketError

(* Whatever loses the connection starts the loop, if none runs. *)
LEMMA KeepsReconnectingStep == Types /\ KeepsReconnecting /\ [Next]_vars => KeepsReconnecting'
  <1> SUFFICES ASSUME Types, KeepsReconnecting, [Next]_vars PROVE KeepsReconnecting'
    OBVIOUS
  <1> USE DEF Types, KeepsReconnecting, Unlimited, loop, bounds
  <1>0. config.maxAttempts \in Int
    BY ClientAssumption DEF CallTypes, ConfigSet
  <1>a. CASE UNCHANGED <<config, codec, sock, loop, disconnects>>
    BY <1>a
  <1>1. CASE Resume \/ ServerDown \/ ServerStart \/ UNCHANGED vars
    BY <1>1, <1>a DEF Resume, ServerDown, ServerStart, ServerOnly, vars
  <1>2. CASE Disconnect
    BY <1>2 DEF Disconnect, LoopTypes
  <1>3. CASE Connect
    BY <1>3 DEF Connect, Dial, ConnTypes
  <1>4. CASE RetryTick
    BY <1>4 DEF RetryTick, Dial, ConnTypes, WhileDialing, LastAttempt
  <1>5. ASSUME NEW k \in Callers, Begin(k) \/ Poll(k) \/ Written(k) \/ TimeOut(k)
        PROVE  KeepsReconnecting'
    BY <1>5, <1>a DEF Begin, Poll, Written, TimeOut
  <1>6. ASSUME NEW c \in Conns, Connected(c) PROVE KeepsReconnecting'
    BY <1>6 DEF Connected, ConnTypes, Conns
  <1>7. ASSUME NEW c \in Conns, NEW s, Lost(c, s) PROVE KeepsReconnecting'
    BY <1>0, <1>7 DEF Lost, ScheduleReconnect, MayRetry
  <1>8. ASSUME NEW c \in Conns, NEW n \in 1 .. Len(toCli[c]), Data(c, n) PROVE KeepsReconnecting'
    BY <1>8, <1>a DEF Data
  <1>9. ASSUME NEW c \in Conns, SrvServe(c) \/ SrvReply(c) \/ SrvDrop(c) PROVE KeepsReconnecting'
    BY <1>9, <1>a DEF SrvServe, SrvReply, SrvDrop, ServerOnly
  <1>10. QED
    BY <1>1, <1>2, <1>3, <1>4, <1>5, <1>6, <1>7, <1>8, <1>9
    DEF Next, Quiescent, SocketClose, SocketError

-----------------------------------------------------------------------------
(* One call in flight. *)

(* The calls that end are in flight. *)
LEMMA FinishFlight ==
  ASSUME CallTypes, OneInFlight, NEW K \in SUBSET Callers, NEW v, Finish(K, v),
         \A k \in K : pc[k] \in InCall
  PROVE  OneInFlight'
  <1>1. /\ \A k \in Callers : pc'[k] = IF k \in K THEN "idle" ELSE pc[k]
        /\ callInFlight' = (callInFlight /\ K = {})
    BY DEF Finish, CallTypes
  <1>2. "idle" \notin InCall
    BY DEF InCall, Sending
  <1>3. CASE K = {}
    BY <1>1, <1>3 DEF OneInFlight
  <1>4. CASE K # {}
    <2>1. callInFlight' = FALSE
      BY <1>1, <1>4
    <2>2. \A k \in Callers : pc'[k] \notin InCall
      BY <1>1, <1>2, <1>4 DEF OneInFlight
    <2>3. QED
      BY <2>1, <2>2 DEF OneInFlight
  <1>5. QED
    BY <1>3, <1>4

(* A call goes from one stage to another. *)
LEMMA FlightGoesOn ==
  ASSUME CallTypes, OneInFlight, NEW k \in Callers, callInFlight' = callInFlight,
         \A j \in Callers \ {k} : pc'[j] = pc[j],
         pc'[k] \in InCall <=> pc[k] \in InCall
  PROVE  OneInFlight'
  BY DEF OneInFlight

(* A call starts only when none is in flight. *)
LEMMA StartFlight ==
  ASSUME CallTypes, OneInFlight, NEW k \in Callers, pc[k] \in {"idle", "wait"}, Start(k)
  PROVE  OneInFlight'
  <1>1. CASE Busy(k)
    BY <1>1, FlightGoesOn DEF Start, CallTypes, InCall, Sending
  <1>2. CASE ~Busy(k)
    <2>1. /\ callInFlight' = TRUE /\ pc'[k] \in InCall
          /\ \A j \in Callers \ {k} : pc'[j] = pc[j]
      BY <1>2 DEF Start, Write, CallTypes, InCall, Sending
    <2>2. \A j \in Callers : pc[j] \notin InCall
      BY <1>2 DEF Busy, OneInFlight
    <2>3. QED
      BY <2>1, <2>2 DEF OneInFlight
  <1>3. QED
    BY <1>1, <1>2

(* callInFlight is set exactly while a call is between its start and its end. *)
LEMMA OneInFlightStep == Types /\ OneInFlight /\ [Next]_vars => OneInFlight'
  <1> SUFFICES ASSUME Types, OneInFlight, [Next]_vars PROVE OneInFlight'
    OBVIOUS
  <1> USE DEF Types
  <1>a. CASE UNCHANGED calls
    BY <1>a DEF OneInFlight, calls
  <1>1. CASE Connect \/ Disconnect \/ RetryTick
    BY <1>1, <1>a DEF Connect, Disconnect, RetryTick
  <1>2. CASE Resume
    <2>1. CASE \E v : Finish(CallersOf(Head(micro).id), v)
      BY <2>1, FinishFlight DEF CallersOf, InCall
    <2>2. QED
      BY <1>2, <1>a, <2>1, ResumeCases DEF EndRead
  <1>3. ASSUME NEW k \in Callers, Begin(k) \/ Poll(k) PROVE OneInFlight'
    <2>1. CASE codec # 0 /\ Start(k)
      BY <1>3, <2>1, StartFlight DEF Begin, Poll
    <2>2. CASE ~(codec # 0 /\ Start(k))
      BY <1>3, <2>2, FlightGoesOn DEF Begin, Poll, CallTypes, InCall, Sending
    <2>3. QED
      BY <2>1, <2>2
  <1>4. ASSUME NEW k \in Callers, Written(k) PROVE OneInFlight'
    <2>1. CASE pc[k] = "send_header"
      BY <1>4, <2>1, FlightGoesOn DEF Written, Write, CallTypes, InCall, Sending
    <2>2. CASE pc[k] = "send_payload" /\ codec # 0
      BY <1>4, <2>2, FlightGoesOn DEF Written, CallTypes, InCall, Sending
    <2>3. CASE pc[k] = "send_payload" /\ codec = 0
      BY <1>4, <2>3, FinishFlight DEF Written, InCall, Sending
    <2>4. QED
      BY <1>4, <2>1, <2>2, <2>3 DEF Written
  <1>5. ASSUME NEW k \in Callers, TimeOut(k) PROVE OneInFlight'
    BY <1>5, FinishFlight DEF TimeOut, InCall
  <1>6. ASSUME NEW c \in Conns, Connected(c) PROVE OneInFlight'
    BY <1>6, <1>a DEF Connected
  <1>7. ASSUME NEW c \in Conns, NEW s, Lost(c, s) PROVE OneInFlight'
    <2>1. /\ Readers(c) \cup Writers(c) \in SUBSET Callers
          /\ \A k \in Readers(c) \cup Writers(c) : pc[k] \in InCall
      BY DEF Readers, Writers, CallersOf, InCall
    <2>2. QED
      BY <1>7, <2>1, FinishFlight DEF Lost, RejectWaiters
  <1>8. ASSUME NEW c \in Conns, NEW n \in 1 .. Len(toCli[c]), Data(c, n) PROVE OneInFlight'
    BY <1>8, <1>a DEF Data
  <1>9. CASE ServerDown \/ ServerStart \/ UNCHANGED vars
    BY <1>9, <1>a DEF ServerDown, ServerStart, ServerOnly, vars
  <1>10. ASSUME NEW c \in Conns, SrvServe(c) \/ SrvReply(c) \/ SrvDrop(c) PROVE OneInFlight'
    BY <1>10, <1>a DEF SrvServe, SrvReply, SrvDrop, ServerOnly
  <1>11. QED
    BY <1>1, <1>2, <1>3, <1>4, <1>5, <1>6, <1>7, <1>8, <1>9, <1>10
    DEF Next, Quiescent, SocketClose, SocketError

-----------------------------------------------------------------------------
(* A call that waits is woken. *)

(* A step that touches no read, ends no socket and begins no wait wakes as before. *)
LEMMA ReadsStay ==
  ASSUME Wakes, UNCHANGED <<micro, waiters>>,
         \A c \in Conns : sock[c] = "open" => sock'[c] = "open",
         \A n \in DOMAIN micro : micro[n].conn \in Conns,
         \A k \in Callers : pc'[k] = "recv" => pc[k] = "recv" /\ id'[k] = id[k]
  PROVE  Wakes'
  BY DEF Wakes, HasReader

(* A call that still waits after others have ended was waiting before. *)
LEMMA FinishReads ==
  ASSUME CallTypes, NEW K, NEW v, Finish(K, v)
  PROVE  \A k \in Callers : pc'[k] = "recv" => k \notin K /\ pc[k] = "recv" /\ id'[k] = id[k]
  BY DEF CallTypes, Finish

(* So was one that waits after another has started. *)
LEMMA StartReads ==
  ASSUME CallTypes, NEW k \in Callers, pc[k] \in {"idle", "wait"}, Start(k)
  PROVE  \A j \in Callers : pc'[j] = "recv" => pc[j] = "recv" /\ id'[j] = id[j]
  BY DEF CallTypes, Start, Write

(* A read takes the words that are there, or waits. *)
LEMMA ReadWakes ==
  ASSUME WordTypes, Wakes, micro # <<>>, NEW m, m = Head(micro), NEW s, NEW n,
         Read(m, s, n), sock' = sock
  PROVE  Wakes'
  <1> DEFINE T == Tail(micro)
  <1>1. /\ m = micro[1] /\ m.conn \in Conns /\ sock[m.conn] = "open" /\ Len(T) \in Nat
        /\ DOMAIN T = 1 .. Len(T) /\ DOMAIN micro = 1 .. (Len(T) + 1)
        /\ \A j \in DOMAIN T : T[j] = micro[j + 1]
    BY HeadTailProperties DEF WordTypes, Wakes, Token
  <1>2. UNCHANGED <<pc, id>>
    BY DEF Read, calls
  <1>3. CASE Len(buffer[m.conn]) >= n
    <2> DEFINE r == [m EXCEPT !.step = s, !.got = SubSeq(buffer[m.conn], 1, n)]
    <2>1. micro' = Append(T, r) /\ UNCHANGED waiters
      BY <1>3 DEF Read
    <2>2. r.conn = m.conn /\ r.id = m.id
      BY HeadTailProperties DEF WordTypes, Token
    <2>3. T \in Seq(Token)
      BY HeadTailProperties DEF WordTypes
    <2> HIDE DEF r
    <2>4. /\ DOMAIN micro' = 1 .. (Len(T) + 1) /\ micro'[Len(T) + 1] = r
          /\ \A j \in DOMAIN T : micro'[j] = micro[j + 1]
      BY <1>1, <2>1, <2>3
    <2>5. \A j \in DOMAIN micro' : sock[micro'[j].conn] = "open"
      BY <1>1, <2>2, <2>4 DEF Wakes
    <2>6. ASSUME NEW j \in DOMAIN micro
          PROVE  \E i \in DOMAIN micro' : micro'[i].id = micro[j].id
      <3>1. CASE j = 1
        BY <1>1, <2>2, <2>4, <3>1
      <3>2. CASE j # 1
        <4>1. j - 1 \in DOMAIN T /\ j - 1 \in DOMAIN micro' /\ j - 1 + 1 = j
          BY <1>1, <2>4, <3>2
        <4>2. QED
          BY <2>4, <4>1
      <3>3. QED
        BY <3>1, <3>2
    <2>7. QED
      BY <1>2, <2>1, <2>5, <2>6 DEF Wakes, HasReader
  <1>4. CASE ~(Len(buffer[m.conn]) >= n)
    <2> DEFINE r == [id |-> m.id, step |-> s, need |-> n]
    <2>1. waiters' = [waiters EXCEPT ![m.conn] = Append(@, r)] /\ micro' = T
      BY <1>4 DEF Read
    <2>2. r.id = m.id
      OBVIOUS
    <2> HIDE DEF r
    <2>3. waiters[m.conn] \in Seq(Waiter) /\ Len(waiters[m.conn]) \in Nat
      BY <1>1 DEF WordTypes
    <2>4. /\ waiters'[m.conn] = Append(waiters[m.conn], r)
          /\ \A d \in Conns \ {m.conn} : waiters'[d] = waiters[d]
      BY <1>1, <2>1 DEF WordTypes
    <2>5. /\ Len(waiters[m.conn]) + 1 \in DOMAIN waiters'[m.conn]
          /\ waiters'[m.conn][Len(waiters[m.conn]) + 1] = r
          /\ \A j \in DOMAIN waiters[m.conn] :
               j \in DOMAIN waiters'[m.conn] /\ waiters'[m.conn][j] = waiters[m.conn][j]
      BY <2>3, <2>4
    <2>6. \A j \in DOMAIN micro' : sock[micro'[j].conn] = "open"
      BY <1>1, <2>1 DEF Wakes
    <2>7. ASSUME NEW k \in Callers, HasReader(k) PROVE HasReader(k)'
      <3>1. CASE \E d \in Conns : /\ sock[d] = "open"
                                  /\ \E j \in DOMAIN waiters[d] : waiters[d][j].id = id[k]
        BY <1>2, <2>4, <2>5, <3>1 DEF HasReader
      <3>2. CASE id[k] = m.id
        BY <1>1, <1>2, <2>2, <2>5, <3>2 DEF HasReader
      <3>3. ASSUME NEW j \in DOMAIN micro, j # 1, micro[j].id = id[k] PROVE HasReader(k)'
        <4>1. j - 1 \in DOMAIN T /\ j - 1 + 1 = j
          BY <1>1, <3>3
        <4>2. QED
          BY <1>1, <1>2, <2>1, <3>3, <4>1 DEF HasReader
      <3>4. QED
        BY <1>1, <2>7, <3>1, <3>2, <3>3 DEF HasReader
    <2>8. QED
      BY <1>2, <2>6, <2>7 DEF Wakes
  <1>5. QED
    BY <1>3, <1>4

(* Words that come leave every call that waits with its read. *)
LEMMA DataWakes ==
  ASSUME Types, Wakes, NEW c \in Conns, NEW n \in 1 .. Len(toCli[c]), Data(c, n)
  PROVE  Wakes'
  <1>1. micro = <<>> /\ sock[c] = "open" /\ UNCHANGED <<sock, pc, id>>
    BY DEF Data, TaskMayRun, calls
  <1>2. waiters[c] \in Seq(Waiter) /\ Len(waiters[c]) \in Nat
    BY DEF Types, WordTypes
  <1>3. PICK served \in 0 .. Len(waiters[c]) :
          /\ waiters' = [waiters EXCEPT ![c] = SubSeq(@, served + 1, Len(@))]
          /\ micro' = [j \in 1 .. served |-> Served(c, n, j)]
    BY DEF Data, Served
  <1>4. \A j \in 1 .. served : micro'[j].conn = c /\ micro'[j].id = waiters[c][j].id
    BY <1>3 DEF Served
  <1>5. /\ \A d \in Conns \ {c} : waiters'[d] = waiters[d]
        /\ waiters'[c] = SubSeq(waiters[c], served + 1, Len(waiters[c]))
    BY <1>3 DEF Types, WordTypes
  <1>6. ASSUME NEW j \in DOMAIN waiters[c], j > served
        PROVE  j - served \in DOMAIN waiters'[c] /\ waiters'[c][j - served] = waiters[c][j]
    BY <1>2, <1>5, <1>6, Cut
  <1>7. ASSUME NEW k \in Callers, HasReader(k) PROVE HasReader(k)'
    <2>1. PICK d \in Conns : /\ sock[d] = "open"
                             /\ \E j \in DOMAIN waiters[d] : waiters[d][j].id = id[k]
      BY <1>1, <1>7 DEF HasReader
    <2>2. PICK j \in DOMAIN waiters[d] : waiters[d][j].id = id[k]
      BY <2>1
    <2>3. CASE d # c
      BY <1>1, <1>5, <2>1, <2>3 DEF HasReader
    <2>4. CASE d = c /\ j > served
      BY <1>1, <1>6, <2>2, <2>4 DEF HasReader
    <2>5. CASE d = c /\ ~(j > served)
      <3>1. j \in 1 .. served /\ DOMAIN micro' = 1 .. served
        BY <1>2, <1>3, <2>5
      <3>2. QED
        BY <1>1, <1>4, <2>2, <2>5, <3>1 DEF HasReader
    <2>6. QED
      BY <2>3, <2>4, <2>5
  <1>8. DOMAIN micro' = 1 .. served
    BY <1>3
  <1>9. QED
    BY <1>1, <1>4, <1>7, <1>8 DEF Wakes

(* Every step leaves a call that waits with a read that can wake it. *)
LEMMA WakesStep == Types /\ CodecIsOpen /\ Wakes /\ [Next]_vars => Wakes'
  <1> SUFFICES ASSUME Types, CodecIsOpen, Wakes, [Next]_vars PROVE Wakes'
    OBVIOUS
  <1> USE DEF Types
  <1>0. \A n \in DOMAIN micro : micro[n].conn \in Conns
    BY ElementOfSeq, LenProperties DEF WordTypes, Token
  <1>1. CASE Connect \/ RetryTick
    <2>1. \A c \in Conns : sock[c] = "open" => sock'[c] = "open"
      BY <1>1 DEF Connect, RetryTick, Dial, CanDial, ConnTypes
    <2>2. QED
      BY <1>0, <1>1, <2>1, ReadsStay DEF Connect, RetryTick, reads, calls
  <1>2. CASE Disconnect
    BY <1>0, <1>2, ReadsStay DEF Disconnect, reads, calls
  <1>3. CASE Resume
    <2>1. micro # <<>> /\ sock' = sock
      BY <1>3, ResumeCases
    <2>2. CASE \E s, n : Read(Head(micro), s, n)
      BY <2>1, <2>2, ReadWakes
    <2>3. ASSUME NEW v, EndRead(Head(micro), v) PROVE Wakes'
      <3> DEFINE T == Tail(micro)
      <3>1. micro' = T /\ waiters' = waiters
        BY <2>3 DEF EndRead
      <3>2. /\ Len(T) \in Nat /\ DOMAIN T = 1 .. Len(T) /\ DOMAIN micro = 1 .. (Len(T) + 1)
            /\ Head(micro) = micro[1] /\ \A j \in DOMAIN T : T[j] = micro[j + 1]
        BY <2>1, HeadTailProperties DEF WordTypes
      <3>3. \A k \in Callers : pc'[k] = "recv" =>
              id[k] # micro[1].id /\ pc[k] = "recv" /\ id'[k] = id[k]
        BY <2>3, <3>2, FinishReads DEF EndRead, CallersOf
      <3>4. \A j \in DOMAIN micro : j = 1 \/ (j - 1 \in DOMAIN T /\ T[j - 1] = micro[j])
        BY <3>2
      <3> HIDE DEF T
      <3>5. QED
        BY <2>1, <3>1, <3>2, <3>3, <3>4 DEF Wakes, HasReader
    <2>4. QED
      BY <1>3, <2>2, <2>3, ResumeCases
  <1>4. ASSUME NEW k \in Callers, Begin(k) \/ Poll(k) PROVE Wakes'
    <2>1. \A j \in Callers : pc'[j] = "recv" => pc[j] = "recv" /\ id'[j] = id[j]
      <3>1. CASE codec # 0 /\ Start(k)
        BY <1>4, <3>1, StartReads DEF Begin, Poll
      <3>2. CASE ~(codec # 0 /\ Start(k))
        BY <1>4, <3>2 DEF Begin, Poll, CallTypes
      <3>3. QED
        BY <3>1, <3>2
    <2>2. QED
      BY <1>0, <1>4, <2>1, ReadsStay DEF Begin, Poll, reads
  <1>5. ASSUME NEW k \in Callers, Written(k) PROVE Wakes'
    <2>0. TaskMayRun /\ sock' = sock /\ waiters' = waiters
      BY <1>5 DEF Written
    <2>1. CASE pc[k] = "send_header"
      <3>1. micro' = micro /\ \A j \in Callers : pc'[j] = "recv" => pc[j] = "recv" /\ id'[j] = id[j]
        BY <1>5, <2>1 DEF Written, Write, CallTypes
      <3>2. QED
        BY <1>0, <2>0, <3>1, ReadsStay
    <2>2. CASE pc[k] = "send_payload" /\ codec # 0
      <3>1. /\ micro' = <<[conn |-> codec, id |-> id[k], step |-> "start", got |-> <<>>]>>
            /\ \A j \in Callers \ {k} : pc'[j] = pc[j]
            /\ id' = id
        BY <1>5, <2>2 DEF Written, CallTypes
      <3>2. DOMAIN micro' = {1} /\ micro'[1].conn = codec /\ micro'[1].id = id[k]
        BY <3>1
      <3>3. micro = <<>> /\ DOMAIN micro = {}
        BY <2>0 DEF TaskMayRun
      <3>4. QED
        BY <2>0, <2>2, <3>1, <3>2, <3>3 DEF Wakes, HasReader, CodecIsOpen
    <2>3. CASE pc[k] = "send_payload" /\ codec = 0
      BY <1>0, <1>5, <2>0, <2>3, FinishReads, ReadsStay DEF Written
    <2>4. QED
      BY <1>5, <2>1, <2>2, <2>3 DEF Written
  <1>6. ASSUME NEW k \in Callers, TimeOut(k) PROVE Wakes'
    BY <1>0, <1>6, FinishReads, ReadsStay DEF TimeOut, reads
  <1>7. ASSUME NEW c \in Conns, Connected(c) PROVE Wakes'
    BY <1>0, <1>7, ReadsStay DEF Connected, reads, calls, ConnTypes
  <1>8. ASSUME NEW c \in Conns, NEW s, micro = <<>>, Lost(c, s) PROVE Wakes'
    <2>1. /\ DOMAIN micro = {} /\ micro' = micro
          /\ \A d \in Conns \ {c} : sock'[d] = sock[d] /\ waiters'[d] = waiters[d]
      BY <1>8 DEF Lost, RejectWaiters, ConnTypes, WordTypes
    <2>2. \A k \in Callers : pc'[k] = "recv" =>
            k \notin Readers(c) /\ pc[k] = "recv" /\ id'[k] = id[k]
      BY <1>8, FinishReads DEF Lost, RejectWaiters
    <2>3. ASSUME NEW k \in Callers, pc'[k] = "recv" PROVE HasReader(k)'
      <3>1. PICK d \in Conns : /\ sock[d] = "open"
                               /\ \E j \in DOMAIN waiters[d] : waiters[d][j].id = id[k]
        BY <2>1, <2>2, <2>3 DEF Wakes, HasReader
      <3>2. d # c
        BY <2>2, <2>3, <3>1 DEF Readers, CallersOf
      <3>3. QED
        BY <2>1, <2>2, <2>3, <3>1, <3>2 DEF HasReader
    <2>4. QED
      BY <2>1, <2>3 DEF Wakes
  <1>9. ASSUME NEW c \in Conns, NEW n \in 1 .. Len(toCli[c]), Data(c, n) PROVE Wakes'
    BY <1>9, DataWakes
  <1>10. CASE ServerDown \/ ServerStart
    BY <1>0, <1>10, ReadsStay DEF ServerDown, ServerStart, ServerOnly, reads, calls
  <1>11. ASSUME NEW c \in Conns, SrvServe(c) \/ SrvReply(c) \/ SrvDrop(c) PROVE Wakes'
    BY <1>0, <1>11, ReadsStay DEF SrvServe, SrvReply, SrvDrop, ServerOnly, reads, calls
  <1>12. CASE UNCHANGED vars
    BY <1>0, <1>12, ReadsStay DEF vars, reads, calls
  <1>13. QED
    BY <1>1, <1>2, <1>3, <1>4, <1>5, <1>6, <1>7, <1>8, <1>9, <1>10, <1>11, <1>12
    DEF Next, Quiescent, SocketClose, SocketError, TaskMayRun

-----------------------------------------------------------------------------
(* The frames towards the server. *)

(* Whole frames, and the header or the payload that a call writes next. *)
Whole(s) ==
  \A n \in DOMAIN s :
    IF n % 2 = 1 THEN s[n].part = "header" ELSE s[n] = Word("payload", s[n - 1].id)

(* A header follows a whole frame, a payload the header of its request. *)
LEMMA WholeAppend ==
  ASSUME NEW s \in Seq(Request), Whole(s), NEW p, NEW i,
         IF Odd(s) THEN p = "payload" /\ s[Len(s)].id = i ELSE p = "header"
  PROVE  LET t == Append(s, Word(p, i)) IN
         /\ Whole(t) /\ (Odd(t) <=> ~Odd(s)) /\ t[Len(t)].id = i /\ Len(t) = Len(s) + 1
  <1> DEFINE t == Append(s, Word(p, i))
  <1>1. /\ Len(s) \in Nat /\ Len(t) = Len(s) + 1 /\ DOMAIN t = 1 .. (Len(s) + 1)
        /\ t[Len(s) + 1] = Word(p, i) /\ \A n \in 1 .. Len(s) : t[n] = s[n]
    OBVIOUS
  <1>2. Word(p, i).part = p /\ Word(p, i).id = i
    BY DEF Word
  <1>3. Odd(t) <=> ~Odd(s)
    BY <1>1 DEF Odd
  <1>4. ASSUME NEW n \in DOMAIN t
        PROVE IF n % 2 = 1 THEN t[n].part = "header" ELSE t[n] = Word("payload", t[n - 1].id)
    <2>1. CASE n \in 1 .. Len(s)
      <3>1. n % 2 # 1 => n - 1 \in 1 .. Len(s)
        BY <1>1, <2>1
      <3>2. QED
        BY <1>1, <2>1, <3>1 DEF Whole
    <2>2. CASE n = Len(s) + 1
      <3>1. n % 2 = 1 <=> ~Odd(s)
        BY <1>1, <2>2 DEF Odd
      <3>2. CASE Odd(s)
        <4>1. Len(s) \in 1 .. Len(s) /\ n - 1 = Len(s)
          BY <1>1, <2>2, <3>2 DEF Odd
        <4>2. QED
          BY <1>1, <1>2, <2>2, <3>1, <3>2, <4>1
      <3>3. CASE ~Odd(s)
        BY <1>1, <1>2, <2>2, <3>1, <3>3
      <3>4. QED
        BY <3>2, <3>3
    <2>3. QED
      BY <1>1, <2>1, <2>2
  <1>5. QED
    BY <1>1, <1>2, <1>3, <1>4 DEF Whole

(* The server takes the first frame. *)
LEMMA WholeRest ==
  ASSUME NEW s \in Seq(Request), Whole(s), Len(s) >= 2
  PROVE  LET t == SubSeq(s, 3, Len(s)) IN
         /\ t \in Seq(Request) /\ Len(t) = Len(s) - 2 /\ Whole(t) /\ (Odd(t) <=> Odd(s))
         /\ \A n \in DOMAIN t : n + 2 \in DOMAIN s /\ t[n] = s[n + 2]
         /\ Odd(s) => t[Len(t)] = s[Len(s)]
         /\ s[1].part = "header" /\ s[2] = Word("payload", s[1].id)
  <1> DEFINE t == SubSeq(s, 3, Len(s))
  <1>1. Len(s) \in Nat /\ DOMAIN s = 1 .. Len(s)
    OBVIOUS
  <1>2. /\ t \in Seq(Request) /\ Len(t) = Len(s) - 2
        /\ \A n \in 1 .. (Len(s) - 2) : t[n] = s[2 + n]
    BY <1>1, Cut
  <1>3. DOMAIN t = 1 .. (Len(s) - 2)
    BY <1>2
  <1> HIDE DEF t
  <1>4. Odd(t) <=> Odd(s)
    BY <1>1, <1>2 DEF Odd
  <1>5. ASSUME NEW n \in DOMAIN t
        PROVE IF n % 2 = 1 THEN t[n].part = "header" ELSE t[n] = Word("payload", t[n - 1].id)
    <2>1. n + 2 \in DOMAIN s /\ n + 2 - 1 = n - 1 + 2 /\ t[n] = s[n + 2]
      BY <1>1, <1>2, <1>3
    <2>2. n % 2 = 1 <=> (n + 2) % 2 = 1
      BY <1>1, <1>3
    <2>3. CASE n % 2 = 1
      BY <2>1, <2>2, <2>3 DEF Whole
    <2>4. CASE n % 2 # 1
      <3>1. n - 1 \in 1 .. (Len(s) - 2)
        BY <1>1, <1>3, <2>4
      <3>2. t[n - 1] = s[n + 2 - 1]
        BY <1>2, <2>1, <3>1
      <3>3. \A j \in DOMAIN s : j % 2 # 1 => s[j] = Word("payload", s[j - 1].id)
        BY DEF Whole
      <3>4. s[n + 2] = Word("payload", s[n + 2 - 1].id)
        BY <2>1, <2>2, <2>4, <3>3
      <3>5. QED
        BY <2>1, <2>4, <3>2, <3>4
    <2>5. QED
      BY <2>3, <2>4
  <1>6. Odd(s) => t[Len(t)] = s[Len(s)]
    <2>1. Odd(s) => Len(s) - 2 \in 1 .. (Len(s) - 2) /\ 2 + (Len(s) - 2) = Len(s)
      BY <1>1 DEF Odd
    <2>2. QED
      BY <1>2, <2>1
  <1>7. s[1].part = "header" /\ s[2] = Word("payload", s[1].id)
    <2>1. 1 \in DOMAIN s /\ 2 \in DOMAIN s /\ 1 % 2 = 1 /\ 2 % 2 # 1 /\ 2 - 1 = 1
      BY <1>1
    <2>2. QED
      BY <2>1 DEF Whole
  <1>8. QED
    <2>1. \A n \in DOMAIN t : n + 2 \in DOMAIN s /\ t[n] = s[n + 2]
      BY <1>1, <1>2, <1>3
    <2>2. Whole(t)
      BY <1>5 DEF Whole
    <2>3. QED
      BY <1>2, <1>4, <1>6, <1>7, <2>1, <2>2 DEF t

(* An unused connection carries whole frames, and no odd header. *)
LEMMA EmptyFrames == Whole(<<>>) /\ ~Odd(<<>>)
  BY DEF Whole, Odd

(* The frames of a connection, as a fact about its words. *)
LEMMA WholeIs == ASSUME NEW c PROVE WholeFrames(c) <=> Whole(toSrv[c])
  BY DEF WholeFrames, Whole

(* The three parts of Frames, after a step. *)
LEMMA FramesNext ==
  ASSUME \A c \in Conns : Whole(toSrv'[c]),
         \A c \in Conns : Odd(toSrv'[c]) =>
           \E k \in Callers : pc'[k] = "send_header" /\ wconn'[k] = c,
         \A k \in Callers : pc'[k] = "send_header" =>
           /\ wconn'[k] \in 1 .. opened'
           /\ srv'[wconn'[k]] = "open" =>
                /\ Odd(toSrv'[wconn'[k]])
                /\ toSrv'[wconn'[k]][Len(toSrv'[wconn'[k]])].id = id'[k]
  PROVE  Frames'
  <1>1. \A c \in Conns : WholeFrames(c)'
    BY DEF WholeFrames, Whole
  <1>2. (\A c \in Conns : Odd(toSrv[c]) =>
           \E k \in Callers : pc[k] = "send_header" /\ wconn[k] = c)'
    BY DEF Odd
  <1>3. (\A k \in Callers : pc[k] = "send_header" =>
           LET s == toSrv[wconn[k]] IN
           /\ wconn[k] \in 1 .. opened
           /\ srv[wconn[k]] = "open" => Odd(s) /\ s[Len(s)].id = id[k])'
    BY DEF Odd
  <1>4. QED
    BY <1>1, <1>2, <1>3, Zenon DEF Frames

(* A step that writes nothing and ends no header whose connection is open. *)
LEMMA FramesStay ==
  ASSUME CallTypes, CallFields, Frames, UNCHANGED <<toSrv, srv, opened>>,
         \A k \in Callers : pc'[k] = "send_header" =>
           pc[k] = "send_header" /\ wconn'[k] = wconn[k] /\ id'[k] = id[k],
         \A k \in Callers : pc[k] = "send_header" /\ pc'[k] # "send_header" =>
           ~Odd(toSrv[wconn[k]])
  PROVE  Frames'
  <1>1. \A c \in Conns : WholeFrames(c)'
    BY DEF Frames, WholeFrames
  <1>2. ASSUME NEW c \in Conns, Odd(toSrv'[c])
        PROVE  \E k \in Callers : pc'[k] = "send_header" /\ wconn'[k] = c
    BY <1>2 DEF Frames
  <1>3. ASSUME NEW k \in Callers, pc'[k] = "send_header"
        PROVE  LET s == toSrv'[wconn'[k]] IN
               /\ wconn'[k] \in 1 .. opened
               /\ srv'[wconn'[k]] = "open" => Odd(s) /\ s[Len(s)].id = id'[k]
    BY <1>3 DEF Frames
  <1>4. QED
    BY <1>1, <1>2, <1>3 DEF Frames, Odd

(* Call k writes the part that c expects of it; no other call writes. *)
LEMMA WriteFrames ==
  ASSUME CallTypes, WordTypes, DeadIsClosed, Frames, NEW k \in Callers, NEW c \in Conns,
         NEW p \in {"header", "payload"}, NEW i, Write(k, c, p, i),
         UNCHANGED <<srv, opened>>, c <= opened,
         \A j \in Callers \ {k} : pc[j] # "send_header",
         p = "header" => pc[k] # "send_header",
         p = "payload" => pc[k] = "send_header" /\ wconn[k] = c /\ i = id[k],
         id'[k] = i
  PROVE  Frames'
  <1>1. /\ pc'[k] = IF srv[c] # "open" THEN "unsent"
                    ELSE IF p = "header" THEN "send_header" ELSE "send_payload"
        /\ wconn'[k] = c
        /\ \A j \in Callers \ {k} : pc'[j] = pc[j]
        /\ \A d \in Conns \ {c} : toSrv'[d] = toSrv[d]
        /\ c \in 1 .. opened
    BY DEF Write, CallTypes, WordTypes, Conns
  <1>2. \A d \in Conns \ {c} : ~Odd(toSrv[d])
    BY DEF Frames
  <1>3. toSrv[c] \in Seq(Request) /\ Whole(toSrv[c])
    BY WholeIs DEF Frames, WordTypes
  <1>4. CASE srv[c] = "open"
    <2>1. toSrv'[c] = Append(toSrv[c], Word(p, i))
      BY <1>4 DEF Write, WordTypes
    <2>2. IF Odd(toSrv[c]) THEN p = "payload" /\ toSrv[c][Len(toSrv[c])].id = i ELSE p = "header"
      BY <1>4 DEF Frames
    <2>3. /\ Whole(toSrv'[c]) /\ (Odd(toSrv'[c]) <=> ~Odd(toSrv[c]))
          /\ toSrv'[c][Len(toSrv'[c])].id = i
      BY <1>3, <2>1, <2>2, WholeAppend
    <2>4. \A d \in Conns : WholeFrames(d)'
      BY <1>1, <2>3, WholeIs DEF Frames, WholeFrames, Whole
    <2>5. ASSUME NEW d \in Conns, Odd(toSrv'[d]) PROVE d = c /\ p = "header"
      BY <1>1, <1>2, <2>2, <2>3, <2>5
    <2>6. QED
      BY <1>1, <1>4, <2>2, <2>3, <2>4, <2>5 DEF Frames, Odd
  <1>5. CASE srv[c] # "open"
    <2>1. toSrv' = toSrv /\ ~Odd(toSrv[c])
      BY <1>5, EmptyFrames DEF Write, DeadIsClosed
    <2>2. \A d \in Conns : Whole(toSrv'[d])
      BY <2>1, WholeIs DEF Frames
    <2>3. \A d \in Conns : ~Odd(toSrv'[d])
      BY <1>2, <2>1
    <2>4. \A j \in Callers : pc'[j] # "send_header"
      BY <1>1, <1>5
    <2>5. QED
      BY <2>2, <2>3, <2>4, FramesNext
  <1>6. QED
    BY <1>4, <1>5

(* Every step keeps frames whole: one call writes at a time, on an open socket. *)
LEMMA FramesStep ==
  Types /\ DeadIsClosed /\ CodecIsOpen /\ OneInFlight /\ Frames /\ [Next]_vars => Frames'
  <1> SUFFICES ASSUME Types, DeadIsClosed, CodecIsOpen, OneInFlight, Frames, [Next]_vars
               PROVE  Frames'
    OBVIOUS
  <1> USE DEF Types
  <1>0. \A k \in Callers : pc[k] = "send_header" => wconn[k] \in Conns /\ pc[k] \in InCall
    BY ClientAssumption DEF CallTypes, CallFields, Sending, InCall, Conns
  <1>a. CASE UNCHANGED <<calls, toSrv, srv, opened>>
    BY <1>a, FramesStay DEF calls
  <1>1. CASE Connect \/ RetryTick
    <2>1. CASE CanDial
      <3>1. UNCHANGED calls /\ toSrv' = toSrv /\ opened' = opened + 1
            /\ srv' = [srv EXCEPT ![opened + 1] = "open"]
        BY <1>1, <2>1 DEF Connect, RetryTick, Dial
      <3>2. opened \in Nat /\ \A c \in 1 .. opened : srv'[c] = srv[c]
        BY <3>1, ClientAssumption DEF ConnTypes, Conns
      <3>3. \A c \in Conns : Whole(toSrv'[c])
        BY <3>1, WholeIs DEF Frames
      <3>4. UNCHANGED <<pc, wconn, id>>
        BY <3>1 DEF calls
      <3>5. \A k \in Callers : pc[k] = "send_header" => srv'[wconn[k]] = srv[wconn[k]]
                                                        /\ wconn[k] \in 1 .. opened'
        BY <3>1, <3>2 DEF Frames
      <3>6. QED
        BY <3>1, <3>3, <3>4, <3>5, FramesNext DEF Frames
    <2>2. CASE ~CanDial
      BY <1>1, <1>a, <2>2 DEF Connect, RetryTick
    <2>3. QED
      BY <2>1, <2>2
  <1>2. CASE Disconnect
    BY <1>2, <1>a DEF Disconnect, net
  <1>3. CASE Resume
    <2>1. UNCHANGED <<toSrv, srv, opened>>
      BY <1>3 DEF Resume, net
    <2>2. CASE UNCHANGED calls
      BY <1>a, <2>1, <2>2
    <2>3. ASSUME NEW v, Finish(CallersOf(Head(micro).id), v) PROVE Frames'
      BY <2>1, <2>3, FramesStay DEF Finish, CallersOf, CallTypes
    <2>4. QED
      BY <1>3, <2>2, <2>3, ResumeCases DEF EndRead
  <1>4. ASSUME NEW k \in Callers, Begin(k) \/ Poll(k) PROVE Frames'
    <2>1. CASE codec # 0 /\ Start(k) /\ ~Busy(k)
      <3>1. \A j \in Callers : pc[j] # "send_header"
        BY <1>0, <2>1 DEF Busy, OneInFlight
      <3>2. /\ Write(k, codec, "header", nextRequestId) /\ UNCHANGED <<srv, opened>>
            /\ id'[k] = nextRequestId
        BY <1>4, <2>1 DEF Begin, Poll, Start, CallTypes
      <3>3. codec \in Conns /\ codec <= opened
        BY <2>1, ClientAssumption DEF CodecIsOpen, ConnTypes, CallTypes, Conns
      <3>4. QED
        BY <3>1, <3>2, <3>3, WriteFrames
    <2>2. CASE ~(codec # 0 /\ Start(k) /\ ~Busy(k))
      <3>1. /\ UNCHANGED <<id, wconn, toSrv, srv, opened>>
            /\ \A j \in Callers : pc'[j] = "send_header" <=> pc[j] = "send_header"
        BY <1>4, <2>2 DEF Begin, Poll, Start, CallTypes
      <3>2. QED
        BY <3>1, FramesStay
    <2>3. QED
      BY <2>1, <2>2
  <1>5. ASSUME NEW k \in Callers, Written(k) PROVE Frames'
    <2>0. UNCHANGED <<srv, opened>>
      BY <1>5 DEF Written
    <2>1. CASE pc[k] = "send_header"
      <3>1. \A j \in Callers \ {k} : pc[j] # "send_header"
        BY <1>0, <2>1 DEF OneInFlight
      <3>2. Write(k, wconn[k], "payload", id[k]) /\ id'[k] = id[k]
        BY <1>5, <2>1 DEF Written
      <3>3. wconn[k] \in Conns /\ wconn[k] <= opened
        BY <1>0, <2>1 DEF Frames
      <3>4. QED
        BY <2>0, <2>1, <3>1, <3>2, <3>3, WriteFrames
    <2>2. CASE pc[k] = "send_payload" /\ codec # 0
      <3>1. /\ UNCHANGED <<id, toSrv>> /\ pc'[k] = "recv"
            /\ \A j \in Callers \ {k} : pc'[j] = pc[j] /\ wconn'[j] = wconn[j]
        BY <1>5, <2>2 DEF Written, CallTypes
      <3>2. QED
        BY <2>0, <2>2, <3>1, FramesStay
    <2>3. CASE pc[k] = "send_payload" /\ codec = 0
      <3>1. Finish({k}, "error") /\ UNCHANGED toSrv
        BY <1>5, <2>3 DEF Written
      <3>2. QED
        BY <2>0, <2>3, <3>1, FramesStay DEF Finish, CallTypes
    <2>4. QED
      BY <1>5, <2>1, <2>2, <2>3 DEF Written
  <1>6. ASSUME NEW k \in Callers, TimeOut(k) PROVE Frames'
    BY <1>6, FramesStay DEF TimeOut, net, Finish, CallTypes
  <1>7. ASSUME NEW c \in Conns, Connected(c) PROVE Frames'
    BY <1>7, <1>a DEF Connected, net
  <1>8. ASSUME NEW c \in Conns, SocketClose(c) \/ SocketError(c) PROVE Frames'
    <2>1. ~Odd(toSrv[c]) /\ UNCHANGED <<toSrv, srv, opened>>
          /\ Finish(Readers(c) \cup Writers(c), "error")
      BY <1>8, EmptyFrames DEF SocketClose, SocketError, Lost, RejectWaiters, DeadIsClosed
    <2>2. /\ \A k \in Readers(c) : pc[k] = "recv"
          /\ \A k \in Writers(c) : wconn[k] = c
      BY DEF Readers, Writers, CallersOf
    <2>3. QED
      BY <2>1, <2>2, FramesStay DEF Finish, CallTypes
  <1>9. ASSUME NEW c \in Conns, NEW n \in 1 .. Len(toCli[c]), Data(c, n) PROVE Frames'
    BY <1>9, <1>a DEF Data
  <1>10. ASSUME NEW c \in Conns, SrvServe(c) PROVE Frames'
    <2>1. /\ UNCHANGED <<calls, srv, opened>> /\ toSrv[c] \in Seq(Request)
          /\ toSrv'[c] = SubSeq(toSrv[c], 3, Len(toSrv[c])) /\ Len(toSrv[c]) >= 2
          /\ \A d \in Conns \ {c} : toSrv'[d] = toSrv[d]
      BY <1>10 DEF SrvServe, ServerOnly, WordTypes
    <2>2. Whole(toSrv[c])
      BY WholeIs DEF Frames
    <2>3. /\ Whole(toSrv'[c]) /\ (Odd(toSrv'[c]) <=> Odd(toSrv[c]))
          /\ Odd(toSrv[c]) => toSrv'[c][Len(toSrv'[c])] = toSrv[c][Len(toSrv[c])]
      <3> DEFINE s == toSrv[c]
      <3>1. s \in Seq(Request) /\ Whole(s) /\ Len(s) >= 2 /\ toSrv'[c] = SubSeq(s, 3, Len(s))
        BY <2>1, <2>2
      <3> HIDE DEF s
      <3>2. LET t == SubSeq(s, 3, Len(s)) IN
            Whole(t) /\ (Odd(t) <=> Odd(s)) /\ (Odd(s) => t[Len(t)] = s[Len(s)])
        BY <3>1, WholeRest
      <3>3. QED
        BY <3>1, <3>2 DEF s
    <2>4. \A d \in Conns : Whole(toSrv'[d])
      BY <2>1, <2>3, WholeIs DEF Frames
    <2>5. \A d \in Conns : Odd(toSrv'[d]) <=> Odd(toSrv[d])
      BY <2>1, <2>3
    <2>6. \A d \in Conns : Odd(toSrv[d]) => toSrv'[d][Len(toSrv'[d])] = toSrv[d][Len(toSrv[d])]
      BY <2>1, <2>3
    <2>7. UNCHANGED <<pc, wconn, id>>
      BY <2>1 DEF calls
    <2>8. QED
      BY <1>0, <2>1, <2>4, <2>5, <2>6, <2>7, FramesNext DEF Frames
  <1>11. CASE ServerDown \/ \E c \in Conns : SrvDrop(c)
    <2>1. PICK C : /\ \A d \in Conns \ C : toSrv'[d] = toSrv[d] /\ srv'[d] = srv[d]
                   /\ \A d \in C \cap Conns : toSrv'[d] = <<>> /\ srv'[d] = "closed"
      BY <1>11 DEF ServerDown, SrvDrop, Close
    <2>2. UNCHANGED <<calls, opened>>
      BY <1>11 DEF ServerDown, SrvDrop, ServerOnly
    <2>3. \A d \in Conns : Whole(toSrv'[d])
      BY <2>1, EmptyFrames, WholeIs DEF Frames
    <2>4. \A d \in Conns : Odd(toSrv'[d]) => toSrv'[d] = toSrv[d]
      BY <2>1, EmptyFrames
    <2>5. \A d \in Conns : srv'[d] = "open" => srv[d] = "open" /\ toSrv'[d] = toSrv[d]
      BY <2>1
    <2>6. UNCHANGED <<pc, wconn, id>>
      BY <2>2 DEF calls
    <2>7. QED
      BY <1>0, <2>2, <2>3, <2>4, <2>5, <2>6, FramesNext DEF Frames
  <1>12. ASSUME NEW c \in Conns, SrvReply(c) PROVE Frames'
    BY <1>12, <1>a DEF SrvReply, ServerOnly
  <1>13. CASE ServerStart \/ UNCHANGED vars
    BY <1>13, <1>a DEF ServerStart, ServerOnly, vars, net
  <1>14. QED
    BY <1>1, <1>2, <1>3, <1>4, <1>5, <1>6, <1>7, <1>8, <1>9, <1>10, <1>11, <1>12, <1>13
    DEF Next, Quiescent

-----------------------------------------------------------------------------
(* The invariant, and the safety properties. *)

(* Every step keeps the invariant. *)
LEMMA StepInvariant == IInv /\ [Next]_vars => IInv'
  BY TypesStep, DeadIsClosedStep, CodecIsOpenStep, OneInFlightStep, KeepsReconnectingStep,
     WakesStep, FramesStep
  DEF IInv, Safety

(* The inductive invariant holds whatever server, network and user do. *)
THEOREM Invariant == Spec => []IInv
  <1>1. Init => IInv
    BY TypesInit, SafetyInit DEF IInv
  <1>2. QED
    BY <1>1, StepInvariant, PTL DEF Spec

(* Every variable keeps its type: the loop counter stays below maxAttempts. *)
THEOREM TypeCorrect == Spec => []TypeOK
  <1>1. IInv => TypeOK
    BY TypesOK DEF IInv
  <1>2. QED
    BY <1>1, Invariant, PTL

(* isConnected is never true of a dead socket. *)
THEOREM CodecStandsOnOpenSocket == Spec => []CodecIsOpen
  <1>1. IInv => CodecIsOpen
    BY DEF IInv, Safety
  <1>2. QED
    BY <1>1, Invariant, PTL

(* The frames of two calls never mix, although each is two writes with an *)
(* await between them.                                                    *)
THEOREM FramesStayWhole == Spec => []RequestsNeverMix
  <1>1. IInv => RequestsNeverMix
    BY DEF IInv, Safety, Frames, RequestsNeverMix
  <1>2. QED
    BY <1>1, Invariant, PTL

(* No 'error' or 'close' passes a call by that waits for its response. *)
THEOREM CallsAreWoken == Spec => []ReaderCanWake
  <1>1. ASSUME IInv PROVE ReaderCanWake
    <2>1. TaskMayRun => DOMAIN micro = {}
      BY DEF TaskMayRun
    <2>2. QED
      BY <1>1, <2>1 DEF IInv, Safety, Wakes, HasReader, ReaderCanWake
  <1>2. QED
    BY <1>1, Invariant, PTL

(* With unlimited attempts the loop never leaves a client alone that lost *)
(* its connection.                                                        *)
THEOREM LoopGoesOn == Spec => []KeepsReconnecting
  <1>1. IInv => KeepsReconnecting
    BY DEF IInv, Safety
  <1>2. QED
    BY <1>1, Invariant, PTL

-----------------------------------------------------------------------------
(* What the contract needs besides: who is pending, what ran, and how often. *)

(* What the contract needs holds at the start. *)
LEMMA ContractInit == Init => Pending /\ RunsOnce /\ RanBefore
  <1> SUFFICES ASSUME Init PROVE Pending /\ RunsOnce /\ RanBefore
    OBVIOUS
  <1>1. Ids = {} /\ \A c \in Conns : DOMAIN toSrv[c] = {}
    BY DEF Init, Ids
  <1>2. Pending
    BY DEF Init, Pending, InCall, Sending
  <1>3. RunsOnce
    BY <1>1 DEF RunsOnce
  <1>4. RanBefore
    BY <1>1 DEF Init, RanBefore, AllRan
  <1>5. QED
    BY <1>2, <1>3, <1>4

(* The calls that end are no longer pending. *)
LEMMA FinishPending ==
  ASSUME CallTypes, CallFields, OneInFlight, Pending, NEW K \in SUBSET Callers, NEW v,
         Finish(K, v), \A k \in K : pc[k] \in InCall, UNCHANGED nextRequestId
  PROVE  Pending'
  <1>1. /\ \A k \in Callers : pc'[k] = (IF k \in K THEN "idle" ELSE pc[k])
        /\ \A k \in Callers : id'[k] = (IF k \in K THEN 0 ELSE id[k])
        /\ \A i \in Ids : outcome'[i] = IF \E k \in K : id[k] = i THEN v ELSE outcome[i]
    BY DEF Finish, CallTypes
  <1>2. "idle" \notin InCall
    BY DEF InCall, Sending
  <1>3. ASSUME NEW k \in Callers, pc'[k] \in InCall PROVE outcome'[id'[k]] = "pending"
    <2>1. k \notin K /\ pc[k] \in InCall /\ id'[k] = id[k]
      BY <1>1, <1>2, <1>3
    <2>2. K = {}
      BY <2>1 DEF OneInFlight
    <2>3. id[k] \in Ids
      BY <2>1 DEF CallTypes, CallFields, Ids
    <2>4. QED
      BY <1>1, <2>1, <2>2, <2>3 DEF Pending
  <1>4. QED
    BY <1>3 DEF Pending

(* A call that starts is pending, under its fresh id. *)
LEMMA StartPending ==
  ASSUME CallTypes, OneInFlight, Pending, NEW k \in Callers, pc[k] \in {"idle", "wait"}, Start(k)
  PROVE  Pending'
  <1>0. "idle" \notin InCall /\ "wait" \notin InCall
    BY DEF InCall, Sending
  <1>1. CASE Busy(k)
    BY <1>0, <1>1 DEF Start, Pending, CallTypes
  <1>2. CASE ~Busy(k)
    <2>1. \A j \in Callers : pc[j] \notin InCall
      BY <1>2 DEF Busy, OneInFlight
    <2>2. \A j \in Callers \ {k} : pc'[j] = pc[j]
      BY <1>2 DEF Start, Write, CallTypes
    <2>3. outcome' = Append(outcome, "pending") /\ id'[k] = nextRequestId
      BY <1>2 DEF Start, CallTypes
    <2>4. outcome'[nextRequestId] = "pending"
      BY <2>3, FunctionIsSeq, AppendFunction DEF CallTypes, Ids
    <2>5. QED
      BY <2>1, <2>2, <2>3, <2>4 DEF Pending
  <1>3. QED
    BY <1>1, <1>2

(* A call is pending exactly from its start to its end. *)
LEMMA PendingStep == IInv /\ Pending /\ [Next]_vars => Pending'
  <1> SUFFICES ASSUME IInv, Pending, [Next]_vars PROVE Pending'
    OBVIOUS
  <1> USE DEF IInv, Types, Safety
  <1>a. CASE UNCHANGED calls
    BY <1>a DEF Pending, calls
  <1>1. CASE Connect \/ Disconnect \/ RetryTick
    BY <1>1, <1>a DEF Connect, Disconnect, RetryTick
  <1>2. CASE Resume
    <2>1. CASE \E v : Finish(CallersOf(Head(micro).id), v)
      BY <1>2, <2>1, FinishPending DEF CallersOf, InCall, Resume
    <2>2. QED
      BY <1>2, <1>a, <2>1, ResumeCases DEF EndRead
  <1>3. ASSUME NEW k \in Callers, Begin(k) \/ Poll(k) PROVE Pending'
    <2>1. CASE codec # 0 /\ Start(k)
      BY <1>3, <2>1, StartPending DEF Begin, Poll
    <2>2. CASE ~(codec # 0 /\ Start(k))
      BY <1>3, <2>2 DEF Begin, Poll, Pending, CallTypes, InCall, Sending
    <2>3. QED
      BY <2>1, <2>2
  <1>4. ASSUME NEW k \in Callers, Written(k) PROVE Pending'
    <2>1. CASE pc[k] = "send_header"
      BY <1>4, <2>1 DEF Written, Write, Pending, CallTypes, InCall, Sending
    <2>2. CASE pc[k] = "send_payload" /\ codec # 0
      BY <1>4, <2>2 DEF Written, Pending, CallTypes, InCall, Sending
    <2>3. CASE pc[k] = "send_payload" /\ codec = 0
      BY <1>4, <2>3, FinishPending DEF Written, InCall, Sending
    <2>4. QED
      BY <1>4, <2>1, <2>2, <2>3 DEF Written
  <1>5. ASSUME NEW k \in Callers, TimeOut(k) PROVE Pending'
    BY <1>5, FinishPending DEF TimeOut, InCall
  <1>6. ASSUME NEW c \in Conns, Connected(c) PROVE Pending'
    BY <1>6, <1>a DEF Connected
  <1>7. ASSUME NEW c \in Conns, NEW s, Lost(c, s) PROVE Pending'
    <2>1. /\ Readers(c) \cup Writers(c) \in SUBSET Callers
          /\ \A k \in Readers(c) \cup Writers(c) : pc[k] \in InCall
      BY DEF Readers, Writers, CallersOf, InCall
    <2>2. QED
      BY <1>7, <2>1, FinishPending DEF Lost, RejectWaiters
  <1>8. ASSUME NEW c \in Conns, NEW n \in 1 .. Len(toCli[c]), Data(c, n) PROVE Pending'
    BY <1>8, <1>a DEF Data
  <1>9. CASE ServerDown \/ ServerStart \/ UNCHANGED vars
    BY <1>9, <1>a DEF ServerDown, ServerStart, ServerOnly, vars
  <1>10. ASSUME NEW c \in Conns, SrvServe(c) \/ SrvReply(c) \/ SrvDrop(c) PROVE Pending'
    BY <1>10, <1>a DEF SrvServe, SrvReply, SrvDrop, ServerOnly
  <1>11. QED
    BY <1>1, <1>2, <1>3, <1>4, <1>5, <1>6, <1>7, <1>8, <1>9, <1>10
    DEF Next, Quiescent, SocketClose, SocketError

(* A word on its way to the server belongs to a request. *)
LEMMA RequestIds ==
  ASSUME WordTypes, NEW d \in Conns, NEW n \in DOMAIN toSrv[d]
  PROVE  /\ toSrv[d] \in Seq(Request) /\ Len(toSrv[d]) \in Nat
         /\ DOMAIN toSrv[d] = 1 .. Len(toSrv[d]) /\ n \in 1 .. Len(toSrv[d])
         /\ toSrv[d][n] \in Request /\ toSrv[d][n].id \in Ids
         /\ toSrv[d][n].part \in {"header", "payload"}
  <1>1. /\ toSrv[d] \in Seq(Request) /\ Len(toSrv[d]) \in Nat
        /\ DOMAIN toSrv[d] = 1 .. Len(toSrv[d])
    BY DEF WordTypes
  <1>2. toSrv[d][n] \in Request
    BY <1>1, ElementOfSeq
  <1>3. QED
    BY <1>1, <1>2 DEF Request

(* Two headers of one request are one. *)
LEMMA OneHeader ==
  ASSUME RunsOnce, NEW c \in Conns, NEW d \in Conns,
         NEW m \in DOMAIN toSrv[c], NEW n \in DOMAIN toSrv[d],
         toSrv[c][m].part = "header", toSrv[d][n].part = "header",
         toSrv[c][m].id = toSrv[d][n].id
  PROVE  c = d /\ m = n
  BY DEF RunsOnce

(* Requests that stay, or are lost. *)
LEMMA RunsStay ==
  ASSUME RunsOnce, UNCHANGED <<nextRequestId, executed>>,
         \A c \in Conns : toSrv'[c] = toSrv[c] \/ toSrv'[c] = <<>>
  PROVE  RunsOnce'
  <1>1. \A c \in Conns : \A n \in DOMAIN toSrv'[c] : n \in DOMAIN toSrv[c] /\ toSrv'[c] = toSrv[c]
    OBVIOUS
  <1>2. QED
    BY <1>1 DEF RunsOnce, Ids

(* A call begins under an id of its own. *)
LEMMA StartRuns ==
  ASSUME CallTypes, WordTypes, ServerTypes, RunsOnce, codec # 0, NEW k \in Callers, Start(k)
  PROVE  RunsOnce'
  <1>1. CASE Busy(k)
    BY <1>1, RunsStay DEF Start
  <1>2. CASE ~Busy(k)
    <2> DEFINE r == nextRequestId
    <2>1. /\ nextRequestId' = r + 1 /\ executed' = Append(executed, 0)
          /\ Write(k, codec, "header", r) /\ codec \in Conns
      BY <1>2, ClientAssumption DEF Start, CallTypes, Conns
    <2>2. /\ Ids' = Ids \cup {r} /\ r \notin Ids
          /\ executed'[r] = 0 /\ \A i \in Ids : executed'[i] = executed[i]
      BY <2>1, FunctionIsSeq, AppendFunction DEF CallTypes, ServerTypes, Ids
    <2>3. \A d \in Conns : \A n \in DOMAIN toSrv[d] : toSrv[d][n].id \in Ids
      BY RequestIds
    <2>4. \A d \in Conns \ {codec} : toSrv'[d] = toSrv[d]
      BY <2>1 DEF Write, WordTypes
    <2>5. \/ toSrv'[codec] = toSrv[codec]
          \/ toSrv'[codec] = Append(toSrv[codec], Word("header", r))
      BY <2>1 DEF Write, WordTypes
    <2>6. ASSUME NEW d \in Conns, NEW n \in DOMAIN toSrv'[d]
          PROVE  \/ n \in DOMAIN toSrv[d] /\ toSrv'[d][n] = toSrv[d][n]
                 \/ d = codec /\ n = Len(toSrv[d]) + 1 /\ toSrv'[d][n] = Word("header", r)
      <3>1. toSrv[codec] \in Seq(Request)
        BY <2>1 DEF WordTypes
      <3>2. QED
        BY <2>4, <2>5, <2>6, <3>1, AppendProperties, LenProperties
    <2>7. Word("header", r).id = r
      BY DEF Word
    <2> HIDE DEF r
    <2>8. \A i \in Ids' : executed'[i] \in {0, 1}
      BY <2>2 DEF RunsOnce
    <2>9. \A d \in Conns : \A n \in DOMAIN toSrv'[d] : executed'[toSrv'[d][n].id] = 0
      BY <2>2, <2>3, <2>6, <2>7 DEF RunsOnce
    <2>10. ASSUME NEW c \in Conns, NEW d \in Conns, NEW m \in DOMAIN toSrv'[c],
                  NEW n \in DOMAIN toSrv'[d],
                  toSrv'[c][m].part = "header", toSrv'[d][n].part = "header",
                  toSrv'[c][m].id = toSrv'[d][n].id
           PROVE  c = d /\ m = n
      <3>1. CASE toSrv'[c][m].id = r
        <4>1. c = codec /\ m = Len(toSrv[c]) + 1
          BY <2>2, <2>3, <2>6, <3>1
        <4>2. d = codec /\ n = Len(toSrv[d]) + 1
          <5>1. toSrv'[d][n].id = r
            BY <2>10, <3>1
          <5>2. QED
            BY <2>2, <2>3, <2>6, <5>1
        <4>3. QED
          BY <4>1, <4>2
      <3>2. CASE toSrv'[c][m].id # r
        BY <2>6, <2>7, <2>10, <3>2 DEF RunsOnce
      <3>3. QED
        BY <3>1, <3>2
    <2>11. QED
      BY <2>8, <2>9, <2>10 DEF RunsOnce
  <1>3. QED
    BY <1>1, <1>2

(* Its payload follows its header. *)
LEMMA PayloadRuns ==
  ASSUME IInv, RunsOnce, NEW k \in Callers, pc[k] = "send_header",
         Write(k, wconn[k], "payload", id[k]), UNCHANGED <<nextRequestId, executed>>
  PROVE  RunsOnce'
  <1> DEFINE c == wconn[k]
  <1>1. c \in Conns
    BY ClientAssumption DEF IInv, Types, CallTypes, CallFields, Sending, Conns
  <1>2. CASE srv[c] # "open"
    BY <1>2, RunsStay DEF Write
  <1>3. CASE srv[c] = "open"
    <2> DEFINE s == toSrv[c]
               w == Word("payload", id[k])
    <2>1. /\ toSrv'[c] = Append(s, w) /\ \A d \in Conns \ {c} : toSrv'[d] = toSrv[d]
          /\ s \in Seq(Request)
      BY <1>1, <1>3 DEF Write, IInv, Types, WordTypes
    <2>2. Odd(s) /\ s[Len(s)].id = id[k]
      BY <1>3 DEF IInv, Safety, Frames
    <2>3. w.part = "payload" /\ w.id = id[k]
      BY DEF Word
    <2> HIDE DEF c, s, w
    <2>4. Len(s) \in DOMAIN s
      BY <2>1, <2>2 DEF Odd
    <2>5. executed[w.id] = 0
      BY <1>1, <2>2, <2>3, <2>4 DEF RunsOnce, s
    <2>6. ASSUME NEW d \in Conns, NEW n \in DOMAIN toSrv'[d]
          PROVE  \/ n \in DOMAIN toSrv[d] /\ toSrv'[d][n] = toSrv[d][n]
                 \/ toSrv'[d][n] = w
      BY <2>1, <2>6, AppendProperties, LenProperties DEF s
    <2>7. \A d \in Conns : \A n \in DOMAIN toSrv'[d] : executed[toSrv'[d][n].id] = 0
      BY <2>5, <2>6 DEF RunsOnce
    <2>8. ASSUME NEW d \in Conns, NEW e \in Conns, NEW m \in DOMAIN toSrv'[d],
                 NEW n \in DOMAIN toSrv'[e],
                 toSrv'[d][m].part = "header", toSrv'[e][n].part = "header",
                 toSrv'[d][m].id = toSrv'[e][n].id
          PROVE  d = e /\ m = n
      BY <2>3, <2>6, <2>8 DEF RunsOnce
    <2>9. QED
      BY <2>7, <2>8 DEF RunsOnce, Ids
  <1>4. QED
    BY <1>2, <1>3

(* The server takes the frame of a request, and runs its handler. *)
LEMMA ServeRuns ==
  ASSUME IInv, RunsOnce, NEW c \in Conns, SrvServe(c)
  PROVE  RunsOnce' /\ toSrv[c][2].id \in Ids /\ executed[toSrv[c][2].id] = 0
         /\ executed' = [executed EXCEPT ![toSrv[c][2].id] = 1]
  <1> DEFINE s == toSrv[c]
             i == toSrv[c][2].id
  <1>1. /\ s \in Seq(Request) /\ Len(s) >= 2 /\ toSrv'[c] = SubSeq(s, 3, Len(s))
        /\ \A d \in Conns \ {c} : toSrv'[d] = toSrv[d]
        /\ nextRequestId' = nextRequestId
    BY DEF SrvServe, ServerOnly, IInv, Types, WordTypes
  <1>0. \A d \in Conns : \A n \in DOMAIN toSrv'[d] : n \in Nat \ {0}
    <2>1. s \in Seq(Request) /\ Len(s) \in Nat /\ 2 \in Nat /\ Len(s) >= 2
      BY <1>1
    <2>2. SubSeq(s, 2 + 1, Len(s)) \in Seq(Request)
      BY <2>1, Cut
    <2>3. \A d \in Conns : toSrv'[d] \in Seq(Request)
      <3>1. toSrv'[c] \in Seq(Request)
        BY <1>1, <2>2
      <3>2. QED
        BY <1>1, <3>1 DEF IInv, Types, WordTypes
    <2>4. QED
      BY <2>3, LenProperties
  <1>2. Whole(s)
    BY WholeIs DEF IInv, Safety, Frames
  <1>3. /\ \A n \in DOMAIN toSrv'[c] : n + 2 \in DOMAIN s /\ toSrv'[c][n] = s[n + 2]
        /\ s[1].part = "header" /\ s[2] = Word("payload", s[1].id)
    <2> HIDE DEF s
    <2>1. LET t == SubSeq(s, 3, Len(s)) IN \A n \in DOMAIN t : n + 2 \in DOMAIN s /\ t[n] = s[n + 2]
      BY <1>1, <1>2, WholeRest
    <2>2. s[1].part = "header" /\ s[2] = Word("payload", s[1].id)
      BY <1>1, <1>2, WholeRest
    <2>3. QED
      BY <1>1, <2>1, <2>2
  <1>4. 1 \in DOMAIN s /\ 2 \in DOMAIN s /\ s[2] \in Request
    BY <1>1, ElementOfSeq
  <1>5. i \in Ids /\ s[1].id = i
    BY <1>3, <1>4 DEF Request, Word
  <1>6. executed[i] = 0
    BY <1>4 DEF RunsOnce
  <1>7. executed' = [executed EXCEPT ![i] = 1]
    BY <1>6 DEF SrvServe
  <1>8. ASSUME NEW d \in Conns, NEW n \in DOMAIN toSrv'[d]
        PROVE  LET m == IF d = c THEN n + 2 ELSE n IN
               m \in DOMAIN toSrv[d] /\ toSrv'[d][n] = toSrv[d][m]
    BY <1>1, <1>3, <1>8
  <1>9. ASSUME NEW d \in Conns, NEW m \in DOMAIN toSrv[d], toSrv[d][m].id = i
        PROVE  d = c /\ m \in {1, 2}
    <2>1. CASE toSrv[d][m].part = "header"
      <3>1. toSrv[c][1].part = "header" /\ toSrv[c][1].id = toSrv[d][m].id
            /\ 1 \in DOMAIN toSrv[c]
        BY <1>3, <1>4, <1>5, <1>9
      <3>2. c = d /\ 1 = m
        BY <2>1, <3>1, OneHeader
      <3>3. QED
        BY <3>2
    <2>2. CASE toSrv[d][m].part # "header"
      <3>1. Whole(toSrv[d]) /\ Len(toSrv[d]) \in Nat
            /\ DOMAIN toSrv[d] = 1 .. Len(toSrv[d]) /\ m \in Nat \ {0}
        BY WholeIs, RequestIds DEF IInv, Safety, Frames, Types
      <3>2. m % 2 # 1 /\ toSrv[d][m] = Word("payload", toSrv[d][m - 1].id)
        BY <2>2, <3>1 DEF Whole
      <3>3. m - 1 \in DOMAIN toSrv[d] /\ (m - 1) % 2 = 1
        BY <3>1, <3>2
      <3>4. toSrv[d][m - 1].part = "header"
        BY <3>1, <3>3 DEF Whole
      <3>5. toSrv[d][m].id = toSrv[d][m - 1].id
        BY <3>2 DEF Word
      <3>6. toSrv[c][1].part = "header" /\ toSrv[c][1].id = toSrv[d][m - 1].id
            /\ 1 \in DOMAIN toSrv[c]
        BY <1>3, <1>4, <1>5, <1>9, <3>5
      <3>7. c = d /\ 1 = m - 1
        BY <3>3, <3>4, <3>6, OneHeader
      <3>8. QED
        BY <3>1, <3>7
    <2>3. QED
      BY <2>1, <2>2
  <1>10. ASSUME NEW d \in Conns, NEW n \in DOMAIN toSrv'[d]
         PROVE  executed'[toSrv'[d][n].id] = 0
    <2>1. n \in Nat \ {0} /\ \A m \in DOMAIN toSrv[d] : toSrv[d][m].id \in Ids
      BY <1>0, RequestIds DEF IInv, Types
    <2>2. toSrv'[d][n].id # i
      BY <1>8, <1>9, <2>1
    <2>3. QED
      BY <1>7, <1>8, <2>1, <2>2 DEF RunsOnce, IInv, Types, ServerTypes
  <1>11. ASSUME NEW d \in Conns, NEW e \in Conns, NEW m \in DOMAIN toSrv'[d],
                NEW n \in DOMAIN toSrv'[e],
                toSrv'[d][m].part = "header", toSrv'[e][n].part = "header",
                toSrv'[d][m].id = toSrv'[e][n].id
         PROVE  d = e /\ m = n
    <2>1. m \in Nat /\ n \in Nat
      BY <1>0
    <2>2. QED
      BY <1>8, <1>11, <2>1 DEF RunsOnce
  <1>12. \A j \in Ids : executed'[j] \in {0, 1}
    BY <1>5, <1>7 DEF RunsOnce, IInv, Types, ServerTypes
  <1>13. RunsOnce'
    BY <1>1, <1>10, <1>11, <1>12 DEF RunsOnce, Ids
  <1>14. QED
    BY <1>5, <1>6, <1>7, <1>13

(* Every step keeps a request in one place, and lets it run from there once. *)
LEMMA RunsOnceStep == IInv /\ RunsOnce /\ [Next]_vars => RunsOnce'
  <1> SUFFICES ASSUME IInv, RunsOnce, [Next]_vars PROVE RunsOnce'
    OBVIOUS
  <1> USE DEF IInv, Types
  <1>a. CASE UNCHANGED <<nextRequestId, executed, toSrv>>
    BY <1>a, RunsStay
  <1>1. CASE Connect \/ Disconnect \/ RetryTick \/ Resume
    BY <1>1, <1>a DEF Connect, Disconnect, RetryTick, Resume, net
  <1>2. ASSUME NEW k \in Callers, Begin(k) \/ Poll(k) PROVE RunsOnce'
    <2>1. CASE codec # 0 /\ Start(k)
      BY <2>1, StartRuns
    <2>2. CASE ~(codec # 0 /\ Start(k))
      BY <1>2, <2>2, <1>a DEF Begin, Poll
    <2>3. QED
      BY <2>1, <2>2
  <1>3. ASSUME NEW k \in Callers, Written(k) PROVE RunsOnce'
    BY <1>3, <1>a, PayloadRuns DEF Written
  <1>4. ASSUME NEW k \in Callers, TimeOut(k) PROVE RunsOnce'
    BY <1>4, <1>a DEF TimeOut, net
  <1>5. ASSUME NEW c \in Conns, Connected(c) \/ SocketClose(c) \/ SocketError(c) PROVE RunsOnce'
    BY <1>5, <1>a DEF Connected, SocketClose, SocketError, Lost, net
  <1>6. ASSUME NEW c \in Conns, NEW n \in 1 .. Len(toCli[c]), Data(c, n) PROVE RunsOnce'
    BY <1>6, <1>a DEF Data
  <1>7. ASSUME NEW c \in Conns, SrvServe(c) PROVE RunsOnce'
    BY <1>7, ServeRuns
  <1>8. ASSUME NEW c \in Conns, SrvReply(c) PROVE RunsOnce'
    BY <1>8, <1>a DEF SrvReply, ServerOnly
  <1>9. CASE ServerDown \/ \E c \in Conns : SrvDrop(c)
    BY <1>9, RunsStay DEF ServerDown, SrvDrop, Close, ServerOnly
  <1>10. CASE ServerStart \/ UNCHANGED vars
    BY <1>10, <1>a DEF ServerStart, ServerOnly, vars, net
  <1>11. QED
    BY <1>1, <1>2, <1>3, <1>4, <1>5, <1>6, <1>7, <1>8, <1>9, <1>10 DEF Next, Quiescent

-----------------------------------------------------------------------------
(* A response comes of a request that ran. *)

(* A part of the words of requests that ran is such words. *)
LEMMA RanCut ==
  ASSUME NEW s \in Seq(Reply), NEW runs, AllRan(s, runs), NEW m \in Nat, NEW n \in Nat,
         m <= n, n <= Len(s)
  PROVE  AllRan(SubSeq(s, m + 1, n), runs)
  <1> DEFINE t == SubSeq(s, m + 1, n)
  <1>1. t \in Seq(Reply) /\ Len(t) = n - m /\ \A i \in 1 .. (n - m) : t[i] = s[m + i]
    BY Cut
  <1>2. DOMAIN t = 1 .. (n - m) /\ DOMAIN s = 1 .. Len(s) /\ Len(s) \in Nat
    BY <1>1
  <1>3. \A i \in DOMAIN t : m + i \in DOMAIN s /\ t[i] = s[m + i]
    BY <1>1, <1>2
  <1> HIDE DEF t
  <1>4. AllRan(t, runs)
    BY <1>3 DEF AllRan
  <1>5. QED
    BY <1>4 DEF t

(* So are two lists of them, joined. *)
LEMMA RanConcat ==
  ASSUME NEW s \in Seq(Reply), NEW t \in Seq(Reply), NEW runs, AllRan(s, runs), AllRan(t, runs)
  PROVE  AllRan(s \o t, runs)
  <1>1. /\ Len(s) \in Nat /\ Len(t) \in Nat /\ DOMAIN (s \o t) = 1 .. (Len(s) + Len(t))
        /\ DOMAIN s = 1 .. Len(s) /\ DOMAIN t = 1 .. Len(t)
        /\ \A i \in 1 .. Len(s) : (s \o t)[i] = s[i]
        /\ \A i \in 1 .. Len(t) : (s \o t)[Len(s) + i] = t[i]
    BY ConcatProperties
  <1>2. ASSUME NEW i \in DOMAIN (s \o t) PROVE runs[(s \o t)[i].id] = 1
    <2>1. CASE i <= Len(s)
      BY <1>1, <2>1 DEF AllRan
    <2>2. CASE i > Len(s)
      <3>1. i - Len(s) \in 1 .. Len(t) /\ Len(s) + (i - Len(s)) = i
        BY <1>1, <2>2
      <3>2. (s \o t)[i] = t[i - Len(s)]
        BY <1>1, <3>1
      <3>3. QED
        BY <1>1, <3>1, <3>2 DEF AllRan
    <2>3. QED
      BY <1>1, <2>1, <2>2
  <1>3. QED
    BY <1>2 DEF AllRan

(* A request that ran stays one that ran. *)
MoreRan == \A i \in Ids : executed[i] = 1 => executed'[i] = 1

(* What ran stays so. *)
LEMMA RanMono ==
  ASSUME NEW s \in Seq(Reply), AllRan(s, executed), MoreRan
  PROVE  AllRan(s, executed')
  <1>1. \A n \in DOMAIN s : s[n].id \in Ids
    <2>1. \A n \in DOMAIN s : s[n] \in Reply
      BY ElementOfSeq, LenProperties
    <2>2. QED
      BY <2>1 DEF Reply
  <1>2. QED
    BY <1>1 DEF AllRan, MoreRan

(* The words and the requests being served stay, or are lost. *)
LEMMA RanStay ==
  ASSUME WordTypes, ServerTypes, RanBefore, MoreRan, UNCHANGED <<buffer, micro>>,
         \A c \in Conns : toCli'[c] = toCli[c] \/ toCli'[c] = <<>>,
         \A c \in Conns : serving'[c] \in {serving[c], 0},
         \A i \in Ids' : outcome'[i] = "ok" => i \in Ids /\ outcome[i] = "ok"
  PROVE  RanBefore'
  <1>1. \A i \in Ids' : outcome'[i] = "ok" => executed'[i] = 1
    BY DEF RanBefore, MoreRan
  <1>2. ASSUME NEW c \in Conns
        PROVE  /\ serving'[c] # 0 => executed'[serving'[c]] = 1
               /\ AllRan(toCli'[c], executed') /\ AllRan(buffer'[c], executed')
    <2>1. AllRan(toCli[c], executed) /\ AllRan(buffer[c], executed)
          /\ toCli[c] \in Seq(Reply) /\ buffer[c] \in Seq(Reply)
      BY DEF RanBefore, WordTypes
    <2>2. AllRan(toCli[c], executed') /\ AllRan(buffer[c], executed')
      BY <2>1, RanMono
    <2>3. AllRan(<<>>, executed')
      BY DEF AllRan
    <2>4. serving'[c] # 0 => serving'[c] = serving[c] /\ serving[c] \in Ids
      BY DEF ServerTypes, Ids
    <2>5. QED
      BY <2>2, <2>3, <2>4 DEF RanBefore, MoreRan
  <1>3. ASSUME NEW n \in DOMAIN micro PROVE AllRan(micro'[n].got, executed')
    <2>1. micro[n].got \in Seq(Reply)
      BY ElementOfSeq, LenProperties DEF WordTypes, Token
    <2>2. QED
      BY <2>1, RanMono DEF RanBefore
  <1>4. QED
    BY <1>1, <1>2, <1>3 DEF RanBefore, AllRan

(* A read moves words and makes none. *)
LEMMA ReadRan ==
  ASSUME WordTypes, RanBefore, micro # <<>>, NEW m, m = Head(micro), NEW n \in {1, 2}, NEW s,
         Read(m, s, n), UNCHANGED <<nextRequestId, toCli, serving, executed>>
  PROVE  RanBefore'
  <1> DEFINE T == Tail(micro)
  <1>1. /\ m \in Token /\ m.conn \in Conns /\ buffer[m.conn] \in Seq(Reply)
        /\ T \in Seq(Token) /\ Len(T) \in Nat /\ DOMAIN T = 1 .. Len(T)
        /\ \A j \in DOMAIN T : T[j] = micro[j + 1] /\ j + 1 \in DOMAIN micro
    <2>1. m \in Token /\ T \in Seq(Token)
      BY HeadTailProperties DEF WordTypes
    <2>2. m.conn \in Conns /\ buffer[m.conn] \in Seq(Reply)
      BY <2>1 DEF Token, WordTypes
    <2>3. /\ Len(T) \in Nat /\ DOMAIN T = 1 .. Len(T)
          /\ \A j \in DOMAIN T : T[j] = micro[j + 1] /\ j + 1 \in DOMAIN micro
      BY HeadTailProperties DEF WordTypes
    <2>4. QED
      BY <2>1, <2>2, <2>3
  <1>2. UNCHANGED <<outcome, toCli>> /\ Ids' = Ids
    BY DEF Read, calls, Ids
  <1>3. \A j \in DOMAIN T : AllRan(T[j].got, executed)
    BY <1>1 DEF RanBefore
  <1>4. CASE Len(buffer[m.conn]) >= n
    <2> DEFINE b == buffer[m.conn]
               r == [m EXCEPT !.step = s, !.got = SubSeq(b, 1, n)]
    <2>1. /\ buffer' = [buffer EXCEPT ![m.conn] = SubSeq(b, n + 1, Len(b))]
          /\ micro' = Append(T, r)
      BY <1>4 DEF Read
    <2>2. r.got = SubSeq(b, 1, n)
      BY <1>1 DEF Token
    <2>3. b \in Seq(Reply) /\ AllRan(b, executed) /\ Len(b) \in Nat /\ n \in Nat /\ n <= Len(b)
      BY <1>1, <1>4 DEF RanBefore
    <2> HIDE DEF b, r
    <2>4. AllRan(SubSeq(b, 0 + 1, n), executed) /\ AllRan(SubSeq(b, n + 1, Len(b)), executed)
      BY <2>3, RanCut
    <2>5. \A c \in Conns : AllRan(buffer'[c], executed)
      BY <2>1, <2>4 DEF RanBefore, WordTypes
    <2>6. \A j \in DOMAIN micro' : AllRan(micro'[j].got, executed)
      <3>1. /\ DOMAIN micro' = 1 .. (Len(T) + 1) /\ micro'[Len(T) + 1] = r
            /\ \A j \in DOMAIN T : micro'[j] = T[j]
        BY <1>1, <2>1
      <3>2. AllRan(r.got, executed)
        BY <2>2, <2>4
      <3>3. QED
        BY <1>1, <1>3, <3>1, <3>2
    <2>7. QED
      BY <1>2, <2>5, <2>6 DEF RanBefore, AllRan
  <1>5. CASE ~(Len(buffer[m.conn]) >= n)
    <2>1. buffer' = buffer /\ micro' = T
      BY <1>5 DEF Read
    <2>2. QED
      BY <1>2, <1>3, <2>1 DEF RanBefore, AllRan
  <1>6. QED
    BY <1>4, <1>5

(* A response that is the call's own is one of a request that ran. *)
LEMMA EndReadRan ==
  ASSUME CallTypes, WordTypes, RanBefore, micro # <<>>, NEW m, m = Head(micro), NEW v,
         EndRead(m, v), v = "ok" => m.got = Response(m.id),
         UNCHANGED <<nextRequestId, toCli, serving, executed>>
  PROVE  RanBefore'
  <1>1. /\ m \in Token /\ m = micro[1] /\ 1 \in DOMAIN micro
        /\ \A j \in DOMAIN Tail(micro) : Tail(micro)[j] = micro[j + 1] /\ j + 1 \in DOMAIN micro
    BY HeadTailProperties DEF WordTypes
  <1>2. micro' = Tail(micro) /\ UNCHANGED <<buffer, toCli, serving, executed>> /\ Ids' = Ids
    BY DEF EndRead, Ids
  <1>3. v = "ok" => executed[m.id] = 1
    <2>1. v = "ok" => 1 \in DOMAIN m.got /\ m.got[1].id = m.id
      BY DEF Response, Word
    <2>2. QED
      BY <1>1, <2>1 DEF RanBefore, AllRan
  <1>4. \A i \in Ids : outcome'[i] = IF \E k \in CallersOf(m.id) : id[k] = i THEN v ELSE outcome[i]
    BY DEF EndRead, Finish
  <1>5. \A i \in Ids : outcome'[i] = "ok" => executed[i] = 1
    BY <1>3, <1>4 DEF CallersOf, RanBefore
  <1>6. QED
    BY <1>1, <1>2, <1>5 DEF RanBefore, AllRan

(* Words that come were on their way before. *)
LEMMA DataRan ==
  ASSUME WordTypes, RanBefore, NEW c \in Conns, NEW n \in 1 .. Len(toCli[c]), Data(c, n)
  PROVE  RanBefore'
  <1> DEFINE words == buffer[c] \o SubSeq(toCli[c], 1, n)
  <1>1. /\ words \in Seq(Reply) /\ Len(words) \in Nat /\ waiters[c] \in Seq(Waiter)
        /\ buffer[c] \in Seq(Reply) /\ AllRan(buffer[c], executed)
        /\ toCli[c] \in Seq(Reply) /\ Len(toCli[c]) \in Nat /\ AllRan(toCli[c], executed)
    BY DataFacts DEF WordTypes, RanBefore
  <1>2. /\ AllRan(SubSeq(toCli[c], 0 + 1, n), executed)
        /\ AllRan(SubSeq(toCli[c], n + 1, Len(toCli[c])), executed)
        /\ SubSeq(toCli[c], 0 + 1, n) \in Seq(Reply)
    <2>1. 0 \in Nat /\ n \in Nat /\ 0 <= n /\ n <= Len(toCli[c])
          /\ Len(toCli[c]) <= Len(toCli[c])
      BY <1>1
    <2>2. SubSeq(toCli[c], 0 + 1, n) \in Seq(Reply)
      BY <1>1, <2>1, Cut
    <2>3. AllRan(SubSeq(toCli[c], 0 + 1, n), executed)
      BY <1>1, <2>1, RanCut
    <2>4. AllRan(SubSeq(toCli[c], n + 1, Len(toCli[c])), executed)
      BY <1>1, <2>1, RanCut
    <2>5. QED
      BY <2>2, <2>3, <2>4
  <1>3. AllRan(words, executed)
    <2>1. AllRan(buffer[c] \o SubSeq(toCli[c], 0 + 1, n), executed)
      BY <1>1, <1>2, RanConcat
    <2>2. 0 + 1 = 1
      OBVIOUS
    <2>3. QED
      BY <2>1, <2>2
  <1>4. PICK served \in 0 .. Len(waiters[c]) :
              /\ Need(c, served) \in Nat /\ Need(c, served) <= Len(words)
              /\ served < Len(waiters[c]) => Need(c, served + 1) > Len(words)
              /\ buffer' = [buffer EXCEPT ![c] = SubSeq(words, Need(c, served) + 1, Len(words))]
              /\ waiters' = [waiters EXCEPT ![c] = SubSeq(@, served + 1, Len(@))]
              /\ micro' = [j \in 1 .. served |-> Served(c, n, j)]
              /\ \A j \in 1 .. served :
                   /\ Need(c, j) = Need(c, j - 1) + waiters[c][j].need
                   /\ Need(c, j - 1) \in Nat /\ Need(c, j) <= Need(c, served)
                   /\ waiters[c][j] \in Waiter
                   /\ Served(c, n, j).got \in Seq(Reply)
                   /\ Len(Served(c, n, j).got) = waiters[c][j].need
    BY DataFacts
  <1>5. \A j \in 1 .. served : Served(c, n, j).got = SubSeq(words, Need(c, j - 1) + 1, Need(c, j))
    BY DEF Served
  <1> HIDE DEF words
  <1>6. ASSUME NEW j \in 1 .. served PROVE AllRan(micro'[j].got, executed)
    <2>1. /\ Need(c, j) = Need(c, j - 1) + waiters[c][j].need /\ Need(c, j - 1) \in Nat
          /\ Need(c, j) <= Need(c, served) /\ waiters[c][j].need \in {1, 2}
      BY <1>4 DEF Waiter, Reader
    <2>2. Need(c, j) \in Nat /\ Need(c, j - 1) <= Need(c, j) /\ Need(c, j) <= Len(words)
      <3>1. Need(c, served) \in Nat /\ Need(c, served) <= Len(words) /\ Len(words) \in Nat
        BY <1>1, <1>4
      <3>2. QED
        BY <2>1, <3>1
    <2>3. AllRan(SubSeq(words, Need(c, j - 1) + 1, Need(c, j)), executed)
      BY <1>1, <1>3, <2>1, <2>2, RanCut
    <2>4. QED
      BY <1>4, <1>5, <2>3
  <1>7. \A d \in Conns : AllRan(buffer'[d], executed)
    <2>1. AllRan(SubSeq(words, Need(c, served) + 1, Len(words)), executed)
      BY <1>1, <1>3, <1>4, RanCut
    <2>2. QED
      BY <1>4, <2>1 DEF RanBefore, WordTypes
  <1>8. /\ UNCHANGED <<outcome, serving, executed>> /\ Ids' = Ids
        /\ toCli' = [toCli EXCEPT ![c] = SubSeq(@, n + 1, Len(@))]
    BY DEF Data, calls, Ids
  <1>9. \A d \in Conns : AllRan(toCli'[d], executed)
    BY <1>2, <1>8 DEF RanBefore, WordTypes
  <1>10. DOMAIN micro' = 1 .. served
    BY <1>4
  <1>11. QED
    BY <1>6, <1>7, <1>8, <1>9, <1>10 DEF RanBefore, AllRan

(* A step that runs no handler takes no run back. *)
LEMMA SameRan == executed' = executed => MoreRan
  BY DEF MoreRan

(* A call that ends otherwise than with "ok" adds no success. *)
LEMMA FinishRan ==
  ASSUME CallTypes, NEW K, NEW v, v # "ok", Finish(K, v), Ids' = Ids
  PROVE  \A i \in Ids' : outcome'[i] = "ok" => i \in Ids /\ outcome[i] = "ok"
  BY DEF Finish

(* Nor does one that starts. *)
LEMMA StartRan ==
  ASSUME CallTypes, ServerTypes, NEW k \in Callers, Start(k)
  PROVE  /\ MoreRan
         /\ \A i \in Ids' : outcome'[i] = "ok" => i \in Ids /\ outcome[i] = "ok"
  <1>1. CASE Busy(k)
    BY <1>1, SameRan DEF Start, Ids
  <1>2. CASE ~Busy(k)
    <2>1. /\ nextRequestId' = nextRequestId + 1 /\ executed' = Append(executed, 0)
          /\ outcome' = Append(outcome, "pending")
      BY <1>2 DEF Start
    <2>2. /\ Ids' = Ids \cup {nextRequestId}
          /\ \A i \in Ids : executed'[i] = executed[i]
      BY <2>1, FunctionIsSeq, AppendFunction DEF CallTypes, ServerTypes, Ids
    <2>3. outcome'[nextRequestId] = "pending" /\ \A i \in Ids : outcome'[i] = outcome[i]
      BY <2>1, FunctionIsSeq, AppendFunction DEF CallTypes, Ids
    <2>4. QED
      BY <2>2, <2>3 DEF MoreRan
  <1>3. QED
    BY <1>1, <1>2

(* Every step keeps responses, and successes, behind the run of their request. *)
LEMMA RanBeforeStep == IInv /\ RunsOnce /\ RanBefore /\ [Next]_vars => RanBefore'
  <1> SUFFICES ASSUME IInv, RunsOnce, RanBefore, [Next]_vars PROVE RanBefore'
    OBVIOUS
  <1> USE DEF IInv, Types
  <1>a. CASE UNCHANGED <<nextRequestId, outcome, buffer, micro, toCli, serving, executed>>
    BY <1>a, SameRan, RanStay DEF Ids
  <1>1. CASE Connect \/ Disconnect \/ RetryTick
    BY <1>1, <1>a DEF Connect, Disconnect, RetryTick, calls, reads, net
  <1>2. CASE Resume
    <2>1. UNCHANGED <<nextRequestId, toCli, serving, executed>>
      BY <1>2 DEF Resume, net
    <2>2. CASE Read(Head(micro), "header", 1)
      BY <1>2, <2>1, <2>2, ResumeCases, ReadRan
    <2>3. CASE \E n \in {1, 2} : Read(Head(micro), "payload", n)
      BY <1>2, <2>1, <2>3, ResumeCases, ReadRan
    <2>4. CASE EndRead(Head(micro), "garbled")
      BY <1>2, <2>1, <2>4, ResumeCases, EndReadRan
    <2>5. CASE EndRead(Head(micro), "ok") /\ Head(micro).got = Response(Head(micro).id)
      BY <1>2, <2>1, <2>5, ResumeCases, EndReadRan
    <2>6. QED
      BY <1>2, <2>2, <2>3, <2>4, <2>5, ResumeCases
  <1>3. ASSUME NEW k \in Callers, Begin(k) \/ Poll(k) PROVE RanBefore'
    <2>1. CASE codec # 0 /\ Start(k)
      BY <1>3, <2>1, StartRan, RanStay DEF Begin, Poll, reads
    <2>2. CASE ~(codec # 0 /\ Start(k))
      BY <1>3, <2>2, <1>a DEF Begin, Poll, reads
    <2>3. QED
      BY <2>1, <2>2
  <1>4. ASSUME NEW k \in Callers, Written(k) PROVE RanBefore'
    <2>0. UNCHANGED <<nextRequestId, buffer, toCli, serving, executed>> /\ Ids' = Ids
      BY <1>4 DEF Written, Ids
    <2>1. CASE pc[k] = "send_header"
      BY <1>4, <2>0, <2>1, <1>a DEF Written
    <2>2. CASE pc[k] = "send_payload" /\ codec # 0
      <3>1. /\ outcome' = outcome
            /\ micro' = <<[conn |-> codec, id |-> id[k], step |-> "start", got |-> <<>>]>>
        BY <1>4, <2>2 DEF Written
      <3>2. \A n \in DOMAIN micro' : DOMAIN micro'[n].got = {}
        BY <3>1
      <3>3. QED
        BY <2>0, <3>1, <3>2 DEF RanBefore, AllRan
    <2>3. CASE pc[k] = "send_payload" /\ codec = 0
      BY <1>4, <2>0, <2>3, FinishRan, SameRan, RanStay DEF Written
    <2>4. QED
      BY <1>4, <2>1, <2>2, <2>3 DEF Written
  <1>5. ASSUME NEW k \in Callers, TimeOut(k) PROVE RanBefore'
    BY <1>5, FinishRan, SameRan, RanStay DEF TimeOut, reads, net, Ids
  <1>6. ASSUME NEW c \in Conns, Connected(c) PROVE RanBefore'
    BY <1>6, <1>a DEF Connected, calls, reads, net
  <1>7. ASSUME NEW c \in Conns, NEW s, Lost(c, s) PROVE RanBefore'
    <2>1. /\ UNCHANGED <<nextRequestId, buffer, micro, serving, executed>> /\ Ids' = Ids
          /\ \A d \in Conns : toCli'[d] = toCli[d] \/ toCli'[d] = <<>>
          /\ Finish(Readers(c) \cup Writers(c), "error")
      BY <1>7 DEF Lost, RejectWaiters, WordTypes, Ids
    <2>2. QED
      BY <2>1, FinishRan, SameRan, RanStay
  <1>8. ASSUME NEW c \in Conns, NEW n \in 1 .. Len(toCli[c]), Data(c, n) PROVE RanBefore'
    BY <1>8, DataRan
  <1>9. ASSUME NEW c \in Conns, SrvServe(c) PROVE RanBefore'
    <2> DEFINE i == toSrv[c][2].id
    <2>1. /\ i \in Ids /\ executed' = [executed EXCEPT ![i] = 1]
      BY <1>9, ServeRuns
    <2>2. /\ UNCHANGED <<nextRequestId, outcome, buffer, micro, toCli>> /\ Ids' = Ids
          /\ serving' = [serving EXCEPT ![c] = i]
      BY <1>9 DEF SrvServe, ServerOnly, calls, reads, Ids
    <2> HIDE DEF i
    <2>3. MoreRan /\ executed'[i] = 1
      BY <2>1 DEF MoreRan, ServerTypes
    <2>4. \A d \in Conns : AllRan(toCli[d], executed') /\ AllRan(buffer[d], executed')
      BY <2>3, RanMono DEF RanBefore, WordTypes
    <2>5. ASSUME NEW n \in DOMAIN micro PROVE AllRan(micro[n].got, executed')
      <3>1. micro[n].got \in Seq(Reply)
        BY ElementOfSeq, LenProperties DEF WordTypes, Token
      <3>2. QED
        BY <2>3, <3>1, RanMono DEF RanBefore
    <2>6. \A d \in Conns : serving'[d] # 0 => executed'[serving'[d]] = 1
      BY <2>2, <2>3 DEF RanBefore, MoreRan, ServerTypes, Ids
    <2>7. \A j \in Ids : outcome[j] = "ok" => executed'[j] = 1
      BY <2>3 DEF RanBefore, MoreRan
    <2>8. QED
      BY <2>2, <2>4, <2>5, <2>6, <2>7 DEF RanBefore, AllRan
  <1>10. ASSUME NEW c \in Conns, SrvReply(c) PROVE RanBefore'
    <2> DEFINE i == serving[c]
    <2>1. /\ UNCHANGED <<nextRequestId, outcome, buffer, micro, executed>> /\ Ids' = Ids
          /\ toCli' = [toCli EXCEPT ![c] = Append(@, Word("header", i)) \o Response(i)]
          /\ serving' = [serving EXCEPT ![c] = 0] /\ i \in Ids /\ executed[i] = 1
      BY <1>10 DEF SrvReply, ServerOnly, calls, reads, ServerTypes, Ids, CallTypes, RanBefore
    <2> HIDE DEF i
    <2>2. /\ Word("header", i) \in Reply /\ Word("first", i) \in Reply /\ Word("rest", i) \in Reply
          /\ Word("header", i).id = i /\ Word("first", i).id = i /\ Word("rest", i).id = i
      BY <2>1 DEF Word, Reply
    <2> DEFINE h == Append(toCli[c], Word("header", i))
    <2>3. h \in Seq(Reply) /\ AllRan(h, executed)
      <3>1. toCli[c] \in Seq(Reply) /\ AllRan(toCli[c], executed)
        BY DEF WordTypes, RanBefore
      <3>2. /\ h \in Seq(Reply) /\ DOMAIN h = 1 .. (Len(toCli[c]) + 1)
            /\ h[Len(toCli[c]) + 1] = Word("header", i)
            /\ \A n \in 1 .. Len(toCli[c]) : h[n] = toCli[c][n]
        BY <2>2, <3>1, AppendProperties
      <3>3. \A n \in DOMAIN h : n \in DOMAIN toCli[c] \/ n = Len(toCli[c]) + 1
        BY <3>1, <3>2
      <3> HIDE DEF h
      <3>4. QED
        BY <2>1, <2>2, <3>1, <3>2, <3>3 DEF AllRan
    <2>4. Response(i) \in Seq(Reply) /\ AllRan(Response(i), executed)
      BY <2>1, <2>2 DEF Response, AllRan
    <2>5. AllRan(h \o Response(i), executed)
      BY <2>3, <2>4, RanConcat
    <2>6. \A d \in Conns : AllRan(toCli'[d], executed)
      BY <2>1, <2>5 DEF RanBefore, WordTypes
    <2>7. \A d \in Conns : serving'[d] # 0 => executed[serving'[d]] = 1
      BY <2>1 DEF RanBefore, ServerTypes
    <2>8. QED
      BY <2>1, <2>6, <2>7 DEF RanBefore, AllRan
  <1>11. CASE ServerDown \/ \E c \in Conns : SrvDrop(c)
    <2>1. UNCHANGED <<nextRequestId, outcome, buffer, micro, toCli, executed>> /\ Ids' = Ids
      BY <1>11 DEF ServerDown, SrvDrop, ServerOnly, calls, reads, Ids
    <2>2. \A c \in Conns : serving'[c] \in {serving[c], 0}
      BY <1>11 DEF ServerDown, SrvDrop, Close
    <2>3. QED
      BY <2>1, <2>2, SameRan, RanStay
  <1>12. CASE ServerStart \/ UNCHANGED vars
    BY <1>12, <1>a DEF ServerStart, ServerOnly, vars, calls, reads, net
  <1>13. QED
    BY <1>1, <1>2, <1>3, <1>4, <1>5, <1>6, <1>7, <1>8, <1>9, <1>10, <1>11, <1>12
    DEF Next, Quiescent, SocketClose, SocketError

-----------------------------------------------------------------------------
(* The refinement of the contract RpcCall.                                 *)

(* The invariant of the contract holds at the start. *)
LEMMA CInvInit == Init => CInv
  BY TypesInit, SafetyInit, ContractInit DEF CInv, IInv

(* Every step keeps it. *)
LEMMA CInvStep == CInv /\ [Next]_vars => CInv'
  BY StepInvariant, PendingStep, RunsOnceStep, RanBeforeStep DEF CInv

(* How the contract calls the end of a call: whatever is not "ok" is an error. *)
Ended(v) == IF v \in {"garbled", "timeout"} THEN "error" ELSE v
Status == [i \in Ids |-> Ended(outcome[i])]

(* Initially no id is handed out. *)
LEMMA InitContract == Init => Contract!AInit
  <1> SUFFICES ASSUME Init PROVE Contract!AInit
    OBVIOUS
  <1>1. nextRequestId - 1 = 0 /\ Ids = 1 .. 0 /\ executed = [i \in 1 .. 0 |-> 0]
    BY DEF Init, Ids
  <1>2. \A i \in 1 .. 0 : FALSE
    OBVIOUS
  <1>3. Status = [i \in 1 .. 0 |-> "pending"]
    BY <1>1, <1>2 DEF Status
  <1>4. QED
    BY <1>1, <1>3 DEF Contract!AInit, Status, Ended

(* A call that ends: the caller has the response of a request that ran, or an error. *)
LEMMA FinishContract ==
  ASSUME CallTypes, CallFields, OneInFlight, Pending, NEW K \in SUBSET Callers,
         NEW v \in {"ok", "error", "garbled", "timeout"}, Finish(K, v),
         \A k \in K : pc[k] \in InCall,
         v = "ok" => \A k \in K : executed[id[k]] = 1,
         UNCHANGED <<nextRequestId, executed>>
  PROVE  [Contract!ANext]_(Contract!avars)
  <1>0. Ids' = Ids
    BY DEF Ids
  <1>1. CASE K = {}
    <2>1. Status' = Status
      BY <1>0, <1>1 DEF Finish, Status, Ended
    <2>2. QED
      BY <2>1 DEF Contract!avars, Status, Ended
  <1>2. CASE K # {}
    <2>1. PICK k \in K : TRUE
      BY <1>2
    <2>2. \A j \in K : j = k
      BY <2>1 DEF OneInFlight
    <2>3. id[k] \in Ids /\ outcome[id[k]] = "pending"
      BY <2>1 DEF CallTypes, CallFields, Pending, Ids
    <2>4. Status' = [Status EXCEPT ![id[k]] = Ended(v)]
      BY <1>0, <2>1, <2>2, <2>3 DEF Finish, Status, Ended
    <2>5. Status[id[k]] = "pending"
      BY <2>3 DEF Status, Ended
    <2>6. CASE v = "ok"
      <3>1. Contract!Succeed(id[k])
        BY <2>1, <2>4, <2>5, <2>6 DEF Contract!Succeed, Status, Ended
      <3>2. QED
        BY <2>3, <3>1 DEF Contract!ANext, Contract!Succeed, Ids
    <2>7. CASE v # "ok"
      <3>1. Ended(v) = "error"
        BY <2>7 DEF Ended
      <3>2. Contract!Fail(id[k])
        BY <2>4, <2>5, <3>1 DEF Contract!Fail, Status, Ended
      <3>3. QED
        BY <2>3, <3>2 DEF Contract!ANext, Contract!Fail, Ids
    <2>8. QED
      BY <2>6, <2>7
  <1>3. QED
    BY <1>1, <1>2

(* A call that begins has the next id; one that is refused has none. *)
LEMMA StartContract ==
  ASSUME CallTypes, ServerTypes, NEW k \in Callers, Start(k)
  PROVE  [Contract!ANext]_(Contract!avars)
  <1>1. CASE Busy(k)
    <2>1. UNCHANGED <<nextRequestId, outcome, executed>>
      BY <1>1 DEF Start
    <2>2. QED
      BY <2>1 DEF Contract!avars, Ids
  <1>2. CASE ~Busy(k)
    <2> DEFINE n == nextRequestId
    <2>1. /\ n' = n + 1 /\ executed' = Append(executed, 0) /\ outcome' = Append(outcome, "pending")
      BY <1>2 DEF Start
    <2>2. /\ n' - 1 = (n - 1) + 1 /\ n' - 1 = n /\ n \in Nat \ {0}
          /\ Ids = 1 .. (n - 1) /\ Ids' = 1 .. n
      BY <2>1 DEF CallTypes, Ids
    <2>3. /\ executed \in Seq(Nat) /\ Len(executed) = n - 1
      BY FunctionIsSeq DEF CallTypes, ServerTypes, Ids
    <2>4. /\ executed' \in [1 .. n -> Nat] /\ executed'[n] = 0
          /\ \A i \in Ids : executed'[i] = executed[i]
      <3>1. n \in Nat \ {0} /\ 0 \in Nat /\ n + 1 - 1 = n
        BY <2>2
      <3>2. Append(executed, 0) \in [1 .. (n + 1 - 1) -> Nat]
        BY <2>3, <3>1, AppendFunction
      <3>3. \A i \in 1 .. (n - 1) : Append(executed, 0)[i] = executed[i]
        BY <2>3, <3>1, AppendFunction
      <3>4. Append(executed, 0)[n] = 0
        BY <2>3, <3>1, AppendFunction
      <3>5. QED
        BY <2>1, <2>2, <3>1, <3>2, <3>3, <3>4
    <2>5. /\ outcome'[n] = "pending" /\ \A i \in Ids : outcome'[i] = outcome[i]
      BY <2>1, FunctionIsSeq, AppendFunction DEF CallTypes, Ids
    <2>6. Status' = [i \in 1 .. n |-> IF i = n THEN "pending" ELSE Status[i]]
      BY <2>2, <2>5 DEF Status, Ended
    <2>7. executed' = [i \in 1 .. n |-> IF i = n THEN 0 ELSE executed[i]]
      BY <2>2, <2>4
    <2>8. Contract!Issue
      BY <2>2, <2>6, <2>7 DEF Contract!Issue, Status, Ended
    <2>9. QED
      BY <2>8 DEF Contract!ANext
  <1>3. QED
    BY <1>1, <1>2

(* Every step is one of the contract, or leaves what the contract sees alone. *)
LEMMA StepContract == CInv /\ [Next]_vars => [Contract!ANext]_(Contract!avars)
  <1> SUFFICES ASSUME CInv, [Next]_vars PROVE [Contract!ANext]_(Contract!avars)
    OBVIOUS
  <1> USE DEF CInv, IInv, Types, Safety
  <1>a. CASE UNCHANGED <<nextRequestId, outcome, executed>>
    BY <1>a DEF Contract!avars, Ids
  <1>1. CASE Connect \/ Disconnect \/ RetryTick \/ UNCHANGED vars
    BY <1>1, <1>a DEF Connect, Disconnect, RetryTick, vars, calls, net
  <1>2. CASE Resume
    <2> DEFINE m == Head(micro)
    <2>1. UNCHANGED <<nextRequestId, executed>>
      BY <1>2 DEF Resume, net
    <2>2. /\ CallersOf(m.id) \in SUBSET Callers
          /\ \A k \in CallersOf(m.id) : pc[k] \in InCall /\ id[k] = m.id
      BY DEF CallersOf, InCall
    <2>3. CASE UNCHANGED outcome
      BY <2>1, <2>3, <1>a
    <2>4. CASE EndRead(m, "garbled")
      BY <2>1, <2>2, <2>4, FinishContract DEF EndRead
    <2>5. CASE EndRead(m, "ok") /\ m.got = Response(m.id)
      <3>1. 1 \in DOMAIN micro /\ m = micro[1]
        BY <1>2 DEF Resume, WordTypes
      <3>2. 1 \in DOMAIN m.got /\ m.got[1].id = m.id
        BY <2>5 DEF Response, Word
      <3>3. executed[m.id] = 1
        BY <3>1, <3>2 DEF RanBefore, AllRan
      <3>4. QED
        BY <2>1, <2>2, <2>5, <3>3, FinishContract DEF EndRead
    <2>6. QED
      BY <1>2, <2>3, <2>4, <2>5, ResumeCases DEF Read, calls
  <1>3. ASSUME NEW k \in Callers, Begin(k) \/ Poll(k) PROVE [Contract!ANext]_(Contract!avars)
    <2>1. CASE Start(k)
      BY <2>1, StartContract
    <2>2. CASE ~Start(k)
      BY <1>3, <2>2, <1>a DEF Begin, Poll
    <2>3. QED
      BY <2>1, <2>2
  <1>4. ASSUME NEW k \in Callers, Written(k) PROVE [Contract!ANext]_(Contract!avars)
    <2>1. CASE pc[k] = "send_payload" /\ codec = 0
      BY <1>4, <2>1, FinishContract DEF Written, InCall, Sending
    <2>2. CASE ~(pc[k] = "send_payload" /\ codec = 0)
      BY <1>4, <2>2, <1>a DEF Written
    <2>3. QED
      BY <2>1, <2>2
  <1>5. ASSUME NEW k \in Callers, TimeOut(k) PROVE [Contract!ANext]_(Contract!avars)
    BY <1>5, FinishContract DEF TimeOut, InCall, net
  <1>6. ASSUME NEW c \in Conns, NEW s, Lost(c, s) PROVE [Contract!ANext]_(Contract!avars)
    <2>1. /\ Readers(c) \cup Writers(c) \in SUBSET Callers
          /\ \A k \in Readers(c) \cup Writers(c) : pc[k] \in InCall
      BY DEF Readers, Writers, CallersOf, InCall
    <2>2. QED
      BY <1>6, <2>1, FinishContract DEF Lost, RejectWaiters
  <1>7. ASSUME NEW c \in Conns,
               Connected(c) \/ (\E n \in 1 .. Len(toCli[c]) : Data(c, n))
               \/ SrvReply(c) \/ SrvDrop(c)
        PROVE  [Contract!ANext]_(Contract!avars)
    BY <1>7, <1>a DEF Connected, Data, SrvReply, SrvDrop, ServerOnly, calls, net
  <1>8. ASSUME NEW c \in Conns, SrvServe(c) PROVE [Contract!ANext]_(Contract!avars)
    <2> DEFINE i == toSrv[c][2].id
    <2>1. i \in Ids /\ executed[i] = 0 /\ executed' = [executed EXCEPT ![i] = 1]
      BY <1>8, ServeRuns
    <2>2. UNCHANGED <<nextRequestId, outcome>>
      BY <1>8 DEF SrvServe, ServerOnly, calls
    <2> HIDE DEF i
    <2>3. Status[i] # "ok"
      BY <2>1 DEF RanBefore, Status, Ended
    <2>4. Contract!Execute(i)
      BY <2>1, <2>2, <2>3 DEF Contract!Execute, Status, Ended, Ids
    <2>5. QED
      BY <2>1, <2>4 DEF Contract!ANext, Contract!Execute, Ids
  <1>9. CASE ServerDown \/ ServerStart
    BY <1>9, <1>a DEF ServerDown, ServerStart, ServerOnly, calls
  <1>10. QED
    BY <1>1, <1>2, <1>3, <1>4, <1>5, <1>6, <1>7, <1>8, <1>9
    DEF Next, Quiescent, SocketClose, SocketError

(* The client with its connections and its servers implements the contract RpcCall: a *)
(* handler runs at most once for each request id, also when calls time out and the    *)
(* connection is lost between the two writes of a request, and a call that ends with  *)
(* "ok" has the response of its own request, whatever an earlier call left unread.    *)
THEOREM ImplementsContract == Spec => ContractSpec
  BY InitContract, StepContract, CInvInit, CInvStep, PTL
  DEF Spec, ContractSpec, Contract!ASpec

=============================================================================
