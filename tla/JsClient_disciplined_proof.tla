--------------------- MODULE JsClient_disciplined_proof ---------------------
(***************************************************************************)
(* Proofs about JsClient for a user who has one connect() at a time and    *)
(* does not disconnect(): the client has one connection, isConnected says  *)
(* whether it is open, and, when no call times out, a connection carries   *)
(* one request at a time and nothing between two calls.                    *)
(***************************************************************************)
EXTENDS JsClient_proof

(* The hypotheses of the theorems, on the constants of JsClient. *)
OneConnect == Disciplined /\ MaxDisconnects = 0
NoTimeout == MaxTimeouts = 0

(* One socket is alive.  The loop of scheduleReconnect() runs while it dials, and *)
(* from an 'error' on, so that no connect() of the user comes before the 'close'  *)
(* which resets codec a second time.                                              *)
Single ==
  /\ \A c, d \in Conns : sock[c] \in Alive /\ sock[d] \in Alive => c = d
  /\ \A c \in Conns :
       /\ sock[c] = "open" => codec = c /\ retry = "off"
       /\ sock[c] = "dialing" => retry = "off"
       /\ sock[c] = "redialing" => retry = "dial"
       /\ sock[c] = "errored" => (MayRetry => retry = "sleep")
                                 /\ \A d \in Conns : sock[d] # "open"

(* Where request i of the call in flight is, on the connection c in use. *)
Full(i) == <<Word("header", i), Word("first", i), Word("rest", i)>>
In(c) == buffer[c] \o toCli[c]
Idle(c) == toSrv[c] = <<>> /\ serving[c] = 0
Silent(c) == Idle(c) /\ In(c) = <<>>
NoRead(c) == micro = <<>> /\ waiters[c] = <<>>

Begun(c, i) ==
  \/ toSrv[c] = <<Word("header", i)>> /\ serving[c] = 0 /\ In(c) = <<>>
  \/ Silent(c) /\ srv[c] # "open"

Away(c, i) ==
  \/ toSrv[c] = <<Word("header", i), Word("payload", i)>> /\ serving[c] = 0 /\ In(c) = <<>>
  \/ toSrv[c] = <<>> /\ serving[c] = i /\ In(c) = <<>>
  \/ Idle(c) /\ In(c) = Full(i)
  \/ Silent(c) /\ srv[c] # "open"

Rest(c, i) == Idle(c) /\ In(c) = Response(i)

Continues(c, i, s, got) ==
  /\ micro = <<[conn |-> c, id |-> i, step |-> s, got |-> got]>>
  /\ waiters[c] = <<>>

Waits(c, i, s, n) ==
  /\ micro = <<>>
  /\ waiters[c] = <<[id |-> i, step |-> s, need |-> n]>>

Reading(c, i) ==
  \/ Continues(c, i, "start", <<>>) /\ Away(c, i)
  \/ Waits(c, i, "header", 1) /\ buffer[c] = <<>> /\ Away(c, i)
  \/ Continues(c, i, "header", <<Word("header", i)>>) /\ Rest(c, i)
  \/ Waits(c, i, "payload", 2) /\ Len(buffer[c]) < 2 /\ Rest(c, i)
  \/ Continues(c, i, "payload", Response(i)) /\ Silent(c)

Position(c, k) ==
  \/ pc[k] = "send_header" /\ wconn[k] = c /\ NoRead(c) /\ Begun(c, id[k])
  \/ pc[k] = "unsent" /\ wconn[k] = c /\ NoRead(c) /\ Silent(c)
  \/ pc[k] = "send_payload" /\ wconn[k] = c /\ NoRead(c) /\ Away(c, id[k])
  \/ pc[k] = "recv" /\ Reading(c, id[k])

Unused(c) == Silent(c) /\ waiters[c] = <<>>

Order(c) ==
  /\ \A k \in Callers : pc[k] \in InCall => Position(c, k)
  /\ (\A k \in Callers : pc[k] \notin InCall) => micro = <<>> /\ Unused(c)

InOrder ==
  /\ timeouts = 0
  /\ \A c \in Conns : sock[c] \in {"none", "dialing", "redialing"} => Unused(c)
  /\ codec = 0 => micro = <<>> /\ \A k \in Callers : pc[k] \notin InCall
  /\ \A c \in Conns : codec = c => Order(c)

-----------------------------------------------------------------------------
(* One connection. *)

(* No socket is there at the start. *)
LEMMA SingleInit == Init => Single
  BY DEF Init, Single, Alive

(* A new socket is dialed only when no other is alive. *)
LEMMA DialSingle ==
  ASSUME IInv, Single, NEW s \in {"dialing", "redialing"}, CanDial, Dial(s),
         \A c \in Conns : sock[c] \notin {"dialing", "redialing"},
         s = "dialing" => retry' = "off", s = "redialing" => retry' = "dial",
         s = "dialing" => retry = "off", s = "redialing" => \A c \in Conns : sock[c] # "errored",
         config' = config
  PROVE  Single'
  <1>1. opened + 1 \in Conns
    BY ClientAssumption DEF CanDial, IInv, Types, ConnTypes, Conns
  <1>2. \A c \in Conns : sock[c] # "open"
    BY DEF CanDial, Single, Conns
  <1>3. \A c \in Conns : sock'[c] = IF c = opened + 1 THEN s ELSE sock[c]
    BY <1>1 DEF Dial, IInv, Types, ConnTypes
  <1>4. \A c \in Conns : sock[c] \notin Alive
    BY <1>2 DEF Alive
  <1>5. \A c \in Conns : sock'[c] \in Alive => c = opened + 1
    BY <1>3, <1>4
  <1>6. MayRetry' = MayRetry
    BY DEF MayRetry
  <1>7. QED
    BY <1>2, <1>3, <1>5, <1>6 DEF Single

(* The socket that ends was the only one, and the loop runs from then on. *)
LEMMA LostSingle ==
  ASSUME IInv, Single, NEW c \in Conns, NEW s \in {"errored", "closed"}, Lost(c, s),
         sock[c] = "open" \/ (sock[c] = "errored" /\ s = "closed")
  PROVE  Single'
  <1>1. /\ sock' = [sock EXCEPT ![c] = s] /\ codec' = 0 /\ config' = config
        /\ \A d \in Conns : sock'[d] = IF d = c THEN s ELSE sock[d]
    BY DEF Lost, ResetCodec, IInv, Types, ConnTypes
  <1>2. MayRetry' = MayRetry
    BY <1>1 DEF MayRetry
  <1>3. \A d, e \in Conns : sock'[d] \in Alive /\ sock'[e] \in Alive => d = e
    BY <1>1 DEF Single, Alive
  <1>4. CASE sock[c] = "open"
    <2>1. \A d \in Conns : sock'[d] \notin Alive
      BY <1>1, <1>4 DEF Single, Alive
    <2>2. retry = "off" /\ \A d \in Conns : sock[d] # "errored"
      BY <1>4 DEF Single
    <2>3. MayRetry => retry' = "sleep"
      BY <2>2 DEF Lost, ScheduleReconnect
    <2>4. \A d \in Conns : sock'[d] \notin {"open", "dialing", "redialing"}
      BY <2>1 DEF Alive
    <2>5. QED
      BY <1>2, <1>3, <2>3, <2>4 DEF Single
  <1>5. CASE sock[c] = "errored"
    <2>1. retry' = retry
      BY <1>5 DEF Lost, ScheduleReconnect, loop, Single
    <2>2. \A d \in Conns : sock[d] # "open"
      BY <1>5 DEF Single
    <2>3. QED
      BY <1>1, <1>2, <1>3, <1>5, <2>1, <2>2 DEF Single
  <1>6. QED
    BY <1>4, <1>5

(* Every step leaves one socket alive at most. *)
LEMMA SingleStep == OneConnect /\ IInv /\ Single /\ [Next]_vars => Single'
  <1> SUFFICES ASSUME OneConnect, IInv, Single, [Next]_vars PROVE Single'
    OBVIOUS
  <1>a. CASE UNCHANGED <<config, codec, retry, sock>>
    BY <1>a DEF Single, MayRetry
  <1>1. CASE Connect
    <2>1. /\ CanDial /\ Dial("dialing") /\ retry = "off" /\ retry' = retry /\ config' = config
          /\ \A c \in Conns : sock[c] # "dialing"
      BY <1>1 DEF Connect, OneConnect, loop
    <2>2. \A c \in Conns : sock[c] # "redialing"
      BY <2>1 DEF Single
    <2>3. QED
      BY <2>1, <2>2, DialSingle
  <1>2. CASE Disconnect
    BY <1>2 DEF Disconnect, OneConnect, IInv, Types, LoopTypes
  <1>3. CASE RetryTick
    <2>0. /\ \A c \in Conns : sock[c] \notin {"dialing", "redialing", "errored", "open"}
          /\ retry = "sleep" /\ config' = config
      BY <1>3 DEF RetryTick, TimerMayFire, Single
    <2>1. CASE CanDial
      <3>1. Dial("redialing") /\ retry' = "dial"
        BY <1>3, <2>1 DEF RetryTick, WhileDialing
      <3>2. QED
        BY <2>0, <2>1, <3>1, DialSingle
    <2>2. CASE ~CanDial
      <3>1. sock' = sock
        BY <1>3, <2>2 DEF RetryTick
      <3>2. QED
        BY <2>0, <3>1 DEF Single, Alive
    <2>3. QED
      BY <2>1, <2>2
  <1>4. CASE Resume
    BY <1>4, <1>a DEF Resume, loop
  <1>5. ASSUME NEW k \in Callers, Begin(k) \/ Poll(k) \/ Written(k) \/ TimeOut(k) PROVE Single'
    BY <1>5, <1>a DEF Begin, Poll, Written, TimeOut, loop
  <1>6. ASSUME NEW c \in Conns, Connected(c) PROVE Single'
    <2>1. /\ sock' = [sock EXCEPT ![c] = "open"] /\ codec' = c /\ config' = config
          /\ sock[c] \in Alive /\ retry' = "off" /\ \A d \in Conns : sock[d] # "errored"
      BY <1>6 DEF Connected, TimerMayFire, Single, Alive
    <2>2. \A d \in Conns : sock'[d] = IF d = c THEN "open" ELSE sock[d]
      BY <2>1 DEF IInv, Types, ConnTypes
    <2>3. \A d \in Conns : sock[d] \in Alive => d = c
      BY <2>1 DEF Single
    <2>4. \A d \in Conns : d # c => sock'[d] \notin {"dialing", "redialing", "open", "errored"}
      BY <2>1, <2>2, <2>3 DEF Alive
    <2>5. QED
      BY <2>1, <2>2, <2>4 DEF Single, Alive
  <1>7. ASSUME NEW c \in Conns, SocketClose(c) \/ SocketError(c) PROVE Single'
    BY <1>7, LostSingle DEF SocketClose, SocketError
  <1>8. ASSUME NEW c \in Conns, NEW n \in 1 .. Len(toCli[c]), Data(c, n) PROVE Single'
    BY <1>8, <1>a DEF Data, loop
  <1>9. CASE ServerDown \/ ServerStart \/ UNCHANGED vars
    BY <1>9, <1>a DEF ServerDown, ServerStart, ServerOnly, vars, loop
  <1>10. ASSUME NEW c \in Conns, SrvServe(c) \/ SrvReply(c) \/ SrvDrop(c) PROVE Single'
    BY <1>10, <1>a DEF SrvServe, SrvReply, SrvDrop, ServerOnly, loop
  <1>11. QED
    BY <1>1, <1>2, <1>3, <1>4, <1>5, <1>6, <1>7, <1>8, <1>9, <1>10
    DEF Next, Quiescent

(* So it is in every reachable state, for a user with one connect() at a time. *)
LEMMA SingleInvariant == OneConnect /\ Spec => [](IInv /\ Single)
  <1>1. SUFFICES ASSUME OneConnect PROVE Spec => [](IInv /\ Single)
    OBVIOUS
  <1>2. Init => Single
    BY SingleInit
  <1>3. IInv /\ Single /\ [Next]_vars => Single'
    BY <1>1, SingleStep
  <1>4. QED
    BY <1>2, <1>3, Invariant, PTL DEF Spec

(* isConnected is true while a socket of the client is open: of two connections, the end *)
(* of the one never resets the codec that stands on the other.                          *)
THEOREM ConnectedIsAccurate == OneConnect /\ Spec => []IsConnectedAccurate
  <1>1. IInv /\ Single => IsConnectedAccurate
    BY DEF Single, IsConnectedAccurate, Conns
  <1>2. QED
    BY <1>1, SingleInvariant, PTL

-----------------------------------------------------------------------------
(* Words taken, and words moved from one place to the next. *)

(* Words taken from the buffer are the first of all that are there or on the way. *)
LEMMA TakeWords ==
  ASSUME NEW S, NEW b \in Seq(S), NEW t \in Seq(S), NEW n \in Nat, n <= Len(b)
  PROVE  /\ SubSeq(b, 0 + 1, n) = SubSeq(b \o t, 0 + 1, n)
         /\ SubSeq(b, n + 1, Len(b)) \o t = SubSeq(b \o t, n + 1, Len(b \o t))
  <1>1. /\ Len(b) \in Nat /\ Len(t) \in Nat /\ b \o t \in Seq(S) /\ Len(b \o t) = Len(b) + Len(t)
        /\ \A i \in 1 .. Len(b) + Len(t) :
             (b \o t)[i] = IF i <= Len(b) THEN b[i] ELSE t[i - Len(b)]
    BY ConcatProperties
  <1> DEFINE bt == b \o t
  <1>2. SubSeq(b, 0 + 1, n) = SubSeq(bt, 0 + 1, n)
    <2>1. /\ SubSeq(b, 0 + 1, n) \in Seq(S) /\ Len(SubSeq(b, 0 + 1, n)) = n
          /\ \A i \in 1 .. n : SubSeq(b, 0 + 1, n)[i] = b[i]
      BY Cut
    <2>2. /\ SubSeq(bt, 0 + 1, n) \in Seq(S) /\ Len(SubSeq(bt, 0 + 1, n)) = n
          /\ \A i \in 1 .. n : SubSeq(bt, 0 + 1, n)[i] = bt[i]
      <3> HIDE DEF bt
      <3>1. n <= Len(bt) /\ bt \in Seq(S)
        BY <1>1 DEF bt
      <3>2. QED
        BY <3>1, Cut
    <2>3. \A i \in 1 .. n : bt[i] = b[i]
      BY <1>1
    <2> HIDE DEF bt
    <2>4. QED
      BY <2>1, <2>2, <2>3, SeqEqual
  <1>3. SubSeq(b, n + 1, Len(b)) \o t = SubSeq(bt, n + 1, Len(bt))
    <2> DEFINE x == SubSeq(b, n + 1, Len(b))
               y == SubSeq(bt, n + 1, Len(bt))
    <2>1. /\ x \in Seq(S) /\ Len(x) = Len(b) - n
          /\ \A i \in 1 .. (Len(b) - n) : x[i] = b[n + i]
      <3>1. Len(b) <= Len(b)
        BY <1>1
      <3>2. QED
        BY <1>1, <3>1, Cut
    <2>2. /\ y \in Seq(S) /\ Len(y) = Len(bt) - n
          /\ \A i \in 1 .. (Len(bt) - n) : y[i] = bt[n + i]
      <3>1. bt \in Seq(S) /\ n <= Len(bt) /\ Len(bt) <= Len(bt) /\ Len(bt) \in Nat
        BY <1>1
      <3> HIDE DEF bt
      <3>2. QED
        BY <3>1, Cut
    <2> HIDE DEF x, y
    <2>3. /\ x \o t \in Seq(S) /\ Len(x \o t) = Len(x) + Len(t)
          /\ \A i \in 1 .. Len(x) + Len(t) :
               (x \o t)[i] = IF i <= Len(x) THEN x[i] ELSE t[i - Len(x)]
      BY <2>1, ConcatProperties
    <2>4. Len(x \o t) = Len(y)
      BY <1>1, <2>1, <2>2, <2>3
    <2>5. ASSUME NEW i \in 1 .. Len(x \o t) PROVE (x \o t)[i] = y[i]
      <3>1. i \in 1 .. (Len(bt) - n) /\ n + i \in 1 .. Len(b) + Len(t)
        BY <1>1, <2>1, <2>3
      <3>2. y[i] = IF n + i <= Len(b) THEN b[n + i] ELSE t[n + i - Len(b)]
        BY <1>1, <2>2, <3>1
      <3>3. CASE n + i <= Len(b)
        <4>1. i \in 1 .. (Len(b) - n) /\ i <= Len(x) /\ i \in 1 .. Len(x) + Len(t)
          BY <1>1, <2>1, <3>1, <3>3
        <4>2. QED
          BY <2>1, <2>3, <3>2, <3>3, <4>1
      <3>4. CASE ~(n + i <= Len(b))
        <4>1. ~(i <= Len(x)) /\ i - Len(x) = n + i - Len(b) /\ i \in 1 .. Len(x) + Len(t)
          BY <1>1, <2>1, <2>3, <3>1, <3>4
        <4>2. QED
          BY <2>3, <3>2, <3>4, <4>1
      <3>5. QED
        BY <3>3, <3>4
    <2>6. QED
      BY <2>2, <2>3, <2>4, <2>5, SeqEqual DEF x, y
  <1>4. QED
    BY <1>2, <1>3

(* Words that reach the buffer keep their order. *)
LEMMA MoveWords ==
  ASSUME NEW S, NEW b \in Seq(S), NEW t \in Seq(S), NEW n \in Nat, n <= Len(t)
  PROVE  (b \o SubSeq(t, 1, n)) \o SubSeq(t, n + 1, Len(t)) = b \o t
  <1>0. Len(t) \in Nat /\ Len(t) <= Len(t) /\ 0 <= n /\ 0 + 1 = 1
    OBVIOUS
  <1>1. SubSeq(t, 0 + 1, n) \in Seq(S) /\ SubSeq(t, n + 1, Len(t)) \in Seq(S)
    BY <1>0, Cut
  <1>2. SubSeq(t, 1, n) \o SubSeq(t, n + 1, Len(t)) = SubSeq(t, 1, Len(t))
    <2>1. 1 \in 1 .. Len(t) + 1 /\ n \in 1 - 1 .. Len(t) /\ Len(t) \in n .. Len(t)
      BY <1>0
    <2>2. QED
      BY <2>1, ConcatAdjacentSubSeq
  <1>3. SubSeq(t, 1, Len(t)) = t
    BY SubSeqFull
  <1>4. SubSeq(t, 1, n) \in Seq(S)
    BY <1>0, <1>1
  <1>5. (b \o SubSeq(t, 1, n)) \o SubSeq(t, n + 1, Len(t))
          = b \o (SubSeq(t, 1, n) \o SubSeq(t, n + 1, Len(t)))
    <2> DEFINE u == SubSeq(t, 1, n)
               v == SubSeq(t, n + 1, Len(t))
    <2>1. u \in Seq(S) /\ v \in Seq(S)
      BY <1>1, <1>4
    <2> HIDE DEF u, v
    <2>2. (b \o u) \o v = b \o (u \o v)
      BY <2>1, ConcatAssociative
    <2>3. QED
      BY <2>2 DEF u, v
  <1>6. QED
    BY <1>2, <1>3, <1>5

(* A pair, written word by word. *)
LEMMA TwoWords ==
  ASSUME NEW a, NEW b
  PROVE  Append(<<a>>, b) = <<a, b>>
  <1> DEFINE S == {a, b}
             x == Append(<<a>>, b)
  <1>1. <<a>> \in Seq(S) /\ Len(<<a>>) = 1 /\ <<a, b>> \in Seq(S) /\ Len(<<a, b>>) = 2
    OBVIOUS
  <1>2. /\ x \in Seq(S) /\ Len(x) = 2 /\ x[2] = b
        /\ \A i \in 1 .. 1 : x[i] = <<a>>[i]
    BY <1>1, AppendProperties
  <1> HIDE DEF x
  <1>3. \A i \in 1 .. Len(x) : x[i] = <<a, b>>[i]
    BY <1>2
  <1>4. QED
    BY <1>1, <1>2, <1>3, SeqEqual DEF x

(* The parts of a response. *)
LEMMA FullParts ==
  ASSUME NEW i
  PROVE  /\ Len(Full(i)) = 3 /\ Len(Response(i)) = 2
         /\ SubSeq(Full(i), 0 + 1, 1) = <<Word("header", i)>>
         /\ SubSeq(Full(i), 1 + 1, 3) = Response(i)
         /\ SubSeq(Response(i), 0 + 1, 2) = Response(i)
         /\ SubSeq(Response(i), 2 + 1, 2) = <<>>
         /\ Append(<<>>, Word("header", i)) \o Response(i) = Full(i)
  <1> DEFINE h == Word("header", i)
             f == Word("first", i)
             r == Word("rest", i)
  <1> HIDE DEF h, f, r
  <1> DEFINE S == {h, f, r}
  <1>1. /\ <<h, f, r>> \in Seq(S) /\ Len(<<h, f, r>>) = 3
        /\ <<f, r>> \in Seq(S) /\ Len(<<f, r>>) = 2 /\ <<h>> \in Seq(S) /\ Len(<<h>>) = 1
    OBVIOUS
  <1>2. SubSeq(<<h, f, r>>, 0 + 1, 1) = <<h>>
    <2> DEFINE x == SubSeq(<<h, f, r>>, 0 + 1, 1)
    <2>1. /\ x \in Seq(S) /\ Len(x) = 1 - 0
          /\ \A j \in 1 .. (1 - 0) : x[j] = <<h, f, r>>[0 + j]
      BY <1>1, Cut
    <2> HIDE DEF x
    <2>2. Len(x) = Len(<<h>>) /\ \A j \in 1 .. Len(x) : x[j] = <<h>>[j]
      BY <2>1
    <2>3. QED
      BY <1>1, <2>1, <2>2, SeqEqual DEF x
  <1>3. SubSeq(<<h, f, r>>, 1 + 1, 3) = <<f, r>>
    <2> DEFINE x == SubSeq(<<h, f, r>>, 1 + 1, 3)
    <2>1. /\ x \in Seq(S) /\ Len(x) = 3 - 1
          /\ \A j \in 1 .. (3 - 1) : x[j] = <<h, f, r>>[1 + j]
      BY <1>1, Cut
    <2> HIDE DEF x
    <2>2. Len(x) = Len(<<f, r>>) /\ \A j \in 1 .. Len(x) : x[j] = <<f, r>>[j]
      BY <2>1
    <2>3. QED
      BY <1>1, <2>1, <2>2, SeqEqual DEF x
  <1>4. SubSeq(<<f, r>>, 0 + 1, 2) = <<f, r>>
    <2>1. 0 + 1 = 1 /\ Len(<<f, r>>) = 2
      BY <1>1
    <2>2. SubSeq(<<f, r>>, 1, Len(<<f, r>>)) = <<f, r>>
      BY <1>1, SubSeqFull
    <2>3. QED
      BY <2>1, <2>2
  <1>5. SubSeq(<<f, r>>, 2 + 1, 2) = <<>>
    BY SubSeqEmpty
  <1>6. Append(<<>>, h) \o <<f, r>> = <<h, f, r>>
    <2>1. Append(<<>>, h) = <<h>>
      OBVIOUS
    <2> DEFINE x == <<h>> \o <<f, r>>
    <2>2. /\ x \in Seq(S) /\ Len(x) = 1 + 2
          /\ \A j \in 1 .. 1 + 2 : x[j] = IF j <= 1 THEN <<h>>[j] ELSE <<f, r>>[j - 1]
      BY <1>1, ConcatProperties
    <2> HIDE DEF x
    <2>3. Len(x) = Len(<<h, f, r>>) /\ \A j \in 1 .. Len(x) : x[j] = <<h, f, r>>[j]
      BY <2>2
    <2>4. x = <<h, f, r>>
      BY <1>1, <2>2, <2>3, SeqEqual
    <2>5. QED
      BY <2>1, <2>4 DEF x
  <1>7. QED
    BY <1>1, <1>2, <1>3, <1>4, <1>5, <1>6 DEF Full, Response, h, f, r

-----------------------------------------------------------------------------
(* One request at a time. *)

(* Nothing is coming in when buffer and socket are empty. *)
LEMMA InIs ==
  ASSUME WordTypes, NEW c \in Conns
  PROVE  /\ buffer[c] \in Seq(Reply) /\ toCli[c] \in Seq(Reply)
         /\ Len(buffer[c]) \in Nat /\ Len(toCli[c]) \in Nat
         /\ In(c) = <<>> <=> buffer[c] = <<>> /\ toCli[c] = <<>>
  <1>1. buffer[c] \in Seq(Reply) /\ toCli[c] \in Seq(Reply)
    BY DEF WordTypes
  <1>2. QED
    BY <1>1, ConcatEqualIffEmpty DEF In

(* Nothing is on its way at the start. *)
LEMMA OrderInit == Init => InOrder
  <1> SUFFICES ASSUME Init PROVE InOrder
    OBVIOUS
  <1>1. \A c \in Conns : Unused(c)
    <2>1. <<>> \o <<>> = <<>>
      OBVIOUS
    <2>2. QED
      BY <2>1 DEF Init, Unused, Silent, Idle, In
  <1>2. \A k \in Callers : pc[k] \notin InCall
    BY DEF Init, InCall, Sending
  <1>3. QED
    BY <1>1, <1>2 DEF Init, InOrder, Conns

(* The call in flight, if there is one. *)
LEMMA OneInCall ==
  ASSUME OneInFlight, NEW k \in Callers, pc[k] \in InCall
  PROVE  \A j \in Callers \ {k} : pc[j] \notin InCall
  BY DEF OneInFlight

(* The codec and the words on the connection in use stay. *)
LEMMA OrderStays ==
  ASSUME InOrder,
         UNCHANGED <<codec, calls, reads, toCli, toSrv, serving, timeouts>>,
         codec # 0 => srv' = srv,
         \A c \in Conns : sock'[c] \in {"none", "dialing", "redialing"}
                            => sock[c] \in {"none", "dialing", "redialing"}
  PROVE  InOrder'
  <1>1. /\ UNCHANGED <<pc, id, wconn, buffer, waiters, micro>>
        /\ \A c \in Conns : Unused(c) => Unused(c)'
    BY DEF calls, reads, Unused, Silent, Idle, In
  <1>2. ASSUME NEW c \in Conns, codec = c PROVE Order(c)'
    <2>1. codec # 0
      BY <1>2 DEF Conns
    <2>2. ASSUME NEW k \in Callers, pc[k] \in InCall PROVE Position(c, k)'
      <3>1. Position(c, k)
        BY <1>2, <2>2 DEF InOrder, Order
      <3>2. QED
        BY <1>1, <2>1, <3>1 DEF Position, Reading, Begun, Away, Rest, Silent, Idle, In, NoRead,
             Continues, Waits
    <2>3. QED
      BY <1>1, <1>2, <2>2 DEF InOrder, Order
  <1>3. QED
    BY <1>1, <1>2 DEF InOrder

(* A connection that is made carries nothing. *)
LEMMA ConnectedOrder ==
  ASSUME IInv, Single, InOrder, NEW c \in Conns, Connected(c)
  PROVE  InOrder'
  <1>1. /\ sock[c] \in {"dialing", "redialing"} /\ codec' = c
        /\ sock' = [sock EXCEPT ![c] = "open"]
        /\ UNCHANGED <<timeouts, pc, id, wconn, buffer, waiters, micro, toCli, toSrv, serving>>
    BY DEF Connected, calls, reads, net, bounds
  <1>2. codec = 0
    <2>1. ASSUME codec # 0 PROVE FALSE
      <3>1. codec \in Conns
        BY <2>1, ClientAssumption DEF IInv, Types, CallTypes, Conns
      <3>2. sock[codec] = "open"
        BY <2>1 DEF IInv, Safety, CodecIsOpen
      <3>3. codec = c
        BY <1>1, <3>1, <3>2 DEF Single, Alive
      <3>4. QED
        BY <1>1, <3>2, <3>3
    <2>2. QED
      BY <2>1
  <1>3. micro = <<>> /\ Unused(c) /\ \A k \in Callers : pc[k] \notin InCall
    BY <1>1, <1>2 DEF InOrder
  <1>4. \A d \in Conns : Unused(d) => Unused(d)'
    BY <1>1 DEF Unused, Silent, Idle, In
  <1>5. Order(c)'
    BY <1>1, <1>3, <1>4 DEF Order
  <1>6. \A d \in Conns : sock'[d] \in {"none", "dialing", "redialing"} => Unused(d)'
    BY <1>1, <1>4 DEF InOrder, IInv, Types, ConnTypes
  <1>7. QED
    BY <1>1, <1>5, <1>6 DEF InOrder, Conns

(* The call in flight ends with the connection: none is left. *)
LEMMA LostOrder ==
  ASSUME IInv, Single, InOrder, TaskMayRun, NEW c \in Conns, NEW s \in {"errored", "closed"},
         Lost(c, s), sock[c] \in {"open", "errored"}
  PROVE  InOrder'
  <1> DEFINE K == Readers(c) \cup Writers(c)
  <1>1. /\ sock' = [sock EXCEPT ![c] = s] /\ codec' = 0 /\ timeouts' = timeouts
        /\ Finish(K, "error") /\ waiters' = [waiters EXCEPT ![c] = <<>>]
        /\ toCli' = [toCli EXCEPT ![c] = <<>>]
        /\ UNCHANGED <<buffer, micro, toSrv, serving>>
    BY DEF Lost, ResetCodec, RejectWaiters, bounds
  <1>2. micro = <<>>
    BY DEF TaskMayRun
  <1>3. ASSUME NEW k \in Callers, pc[k] \in InCall PROVE k \in K
    <2>1. codec # 0
      BY <1>3 DEF InOrder
    <2>2. codec = c
      <3>1. codec \in Conns /\ sock[codec] = "open"
        BY <2>1, ClientAssumption DEF IInv, Types, CallTypes, Conns, Safety, CodecIsOpen
      <3>2. QED
        BY <3>1 DEF Single, Alive
    <2>3. Position(c, k)
      BY <1>3, <2>2 DEF InOrder, Order
    <2>4. CASE pc[k] \in Sending
      BY <2>3, <2>4 DEF Position, Writers, Sending
    <2>5. CASE pc[k] = "recv"
      <3>1. Reading(c, id[k])
        BY <2>3, <2>5 DEF Position
      <3>2. PICK p \in {"header", "payload"}, n \in {1, 2} : Waits(c, id[k], p, n)
        BY <1>2, <3>1 DEF Reading, Continues
      <3>3. 1 \in DOMAIN waiters[c] /\ waiters[c][1].id = id[k]
        BY <3>2 DEF Waits
      <3>4. QED
        BY <2>5, <3>3 DEF Readers, CallersOf
    <2>6. QED
      BY <1>3, <2>4, <2>5 DEF InCall
  <1>4. \A k \in Callers : pc'[k] \notin InCall
    <2>1. \A k \in Callers : pc'[k] = IF k \in K THEN "idle" ELSE pc[k]
      BY <1>1 DEF Finish
    <2>2. "idle" \notin InCall
      BY DEF InCall, Sending
    <2>3. QED
      BY <1>3, <2>1, <2>2
  <1>5. ASSUME NEW d \in Conns, sock'[d] \in {"none", "dialing", "redialing"} PROVE Unused(d)'
    <2>1. d # c
      BY <1>1, <1>5 DEF IInv, Types, ConnTypes
    <2>2. Unused(d)
      BY <1>1, <1>5, <2>1 DEF InOrder, IInv, Types, ConnTypes
    <2>3. waiters'[d] = waiters[d] /\ toCli'[d] = toCli[d]
      BY <1>1, <2>1 DEF IInv, Types, WordTypes
    <2>4. QED
      BY <1>1, <2>2, <2>3 DEF Unused, Silent, Idle, In
  <1>6. QED
    BY <1>1, <1>2, <1>4, <1>5 DEF InOrder, Conns

(* A call begins on a connection that carries nothing. *)
LEMMA StartOrder ==
  ASSUME IInv, InOrder, NEW k \in Callers, pc[k] \in {"idle", "wait"}, codec # 0, Start(k),
         UNCHANGED <<codec, sock, reads, toCli, srv, serving, timeouts>>
  PROVE  InOrder'
  <1>0. "idle" \notin InCall /\ "wait" \notin InCall
    BY DEF InCall, Sending
  <1>1. PICK c \in Conns : codec = c /\ sock[c] = "open"
    BY ClientAssumption DEF IInv, Types, CallTypes, Conns, Safety, CodecIsOpen
  <1>2. UNCHANGED <<buffer, waiters, micro>>
    BY DEF reads
  <1>3. CASE Busy(k)
    <2>1. /\ UNCHANGED <<id, wconn, toSrv>>
          /\ \A j \in Callers : pc'[j] = pc[j] \/ (pc[j] \notin InCall /\ pc'[j] \notin InCall)
      BY <1>0, <1>3 DEF Start, IInv, Types, CallTypes
    <2>2. \A j \in Callers : pc'[j] \in InCall <=> pc[j] \in InCall
      BY <2>1
    <2>3. \A d \in Conns : Unused(d) => Unused(d)'
      BY <1>2, <2>1 DEF Unused, Silent, Idle, In
    <2>4. ASSUME NEW j \in Callers, pc'[j] \in InCall PROVE Position(c, j)'
      <3>1. pc'[j] = pc[j] /\ Position(c, j)
        BY <1>1, <2>1, <2>4 DEF InOrder, Order
      <3>2. QED
        BY <1>2, <2>1, <3>1 DEF Position, Reading, Begun, Away, Rest, Silent, Idle, In, NoRead,
             Continues, Waits
    <2>5. Order(c)'
      BY <1>1, <1>2, <2>2, <2>3, <2>4 DEF InOrder, Order
    <2>6. QED
      BY <1>1, <2>3, <2>5 DEF InOrder, Conns
  <1>4. CASE ~Busy(k)
    <2>1. /\ Write(k, c, "header", nextRequestId) /\ id' = [id EXCEPT ![k] = nextRequestId]
          /\ id'[k] = nextRequestId
      BY <1>1, <1>4 DEF Start, IInv, Types, CallTypes
    <2>2. \A j \in Callers : pc[j] \notin InCall
      BY <1>4 DEF Busy, IInv, Safety, OneInFlight
    <2>3. micro = <<>> /\ Unused(c)
      BY <1>1, <2>2 DEF InOrder, Order
    <2>4. /\ wconn'[k] = c /\ pc'[k] \in InCall
          /\ \A j \in Callers \ {k} : pc'[j] \notin InCall
          /\ \A d \in Conns \ {c} : toSrv'[d] = toSrv[d]
      BY <2>1, <2>2 DEF Write, IInv, Types, CallTypes, WordTypes, InCall, Sending
    <2>5. In(c)' = In(c) /\ NoRead(c)'
      BY <1>2, <2>3 DEF In, NoRead, Unused
    <2>6. Position(c, k)'
      <3>1. CASE srv[c] = "open"
        <4>1. toSrv[c] = <<>> /\ serving[c] = 0 /\ In(c) = <<>>
          BY <2>3 DEF Unused, Silent, Idle
        <4>2. toSrv'[c] = Append(<<>>, Word("header", nextRequestId))
          BY <2>1, <3>1, <4>1 DEF Write, IInv, Types, WordTypes
        <4>3. toSrv'[c] = <<Word("header", id'[k])>>
          BY <2>1, <4>2
        <4>4. pc'[k] = "send_header"
          BY <2>1, <3>1 DEF Write, IInv, Types, CallTypes
        <4>5. In(c)' = <<>> /\ serving'[c] = 0
          BY <2>5, <4>1
        <4>6. QED
          BY <2>4, <2>5, <4>3, <4>4, <4>5 DEF Position, Begun, Word
      <3>2. CASE srv[c] # "open"
        <4>1. toSrv' = toSrv /\ pc'[k] = "unsent"
          BY <2>1, <3>2 DEF Write, IInv, Types, CallTypes
        <4>2. Silent(c)'
          BY <2>3, <2>5, <4>1 DEF Unused, Silent, Idle
        <4>3. QED
          BY <2>4, <2>5, <4>1, <4>2 DEF Position
      <3>3. QED
        BY <3>1, <3>2
    <2>7. Order(c)'
      BY <2>4, <2>6 DEF Order
    <2>8. ASSUME NEW d \in Conns, sock[d] \in {"none", "dialing", "redialing"} PROVE Unused(d)'
      <3>1. d # c /\ Unused(d)
        BY <1>1, <2>8 DEF InOrder
      <3>2. QED
        BY <1>2, <2>4, <3>1 DEF Unused, Silent, Idle, In
    <2>9. QED
      BY <1>1, <2>7, <2>8 DEF InOrder, Conns
  <1>5. QED
    BY <1>3, <1>4

(* A step of the connection in use. *)
LEMMA OrderNext ==
  ASSUME InOrder, NEW c \in Conns, sock[c] = "open", Order(c)',
         codec' = c, UNCHANGED <<sock, timeouts>>,
         \A d \in Conns \ {c} : Unused(d) => Unused(d)'
  PROVE  InOrder'
  BY DEF InOrder, Conns

(* The call in flight stands on the open socket, alone, at a known position. *)
LEMMA InUse ==
  ASSUME IInv, InOrder, NEW k \in Callers, pc[k] \in InCall
  PROVE  /\ codec \in Conns /\ sock[codec] = "open" /\ \A j \in Callers \ {k} : pc[j] \notin InCall
         /\ \A c \in Conns : codec = c => Position(c, k)
  <1>1. codec # 0
    BY DEF InOrder
  <1>2. codec \in Conns /\ sock[codec] = "open"
    BY <1>1, ClientAssumption DEF IInv, Types, CallTypes, Conns, Safety, CodecIsOpen
  <1>3. \A j \in Callers \ {k} : pc[j] \notin InCall
    BY DEF IInv, Safety, OneInFlight
  <1>4. QED
    BY <1>2, <1>3 DEF InOrder, Order

(* The payload follows the header; the read follows the payload, on the same connection. *)
LEMMA WrittenOrder ==
  ASSUME IInv, InOrder, NEW k \in Callers, Written(k)
  PROVE  InOrder'
  <1>0. pc[k] \in {"send_header", "send_payload"} /\ pc[k] \in InCall
    BY DEF Written, InCall, Sending
  <1>1. PICK c \in Conns : codec = c /\ sock[c] = "open" /\ Position(c, k)
    BY <1>0, InUse
  <1>2. \A j \in Callers \ {k} : pc[j] \notin InCall
    BY <1>0, InUse
  <1>3. /\ UNCHANGED <<codec, sock, timeouts, buffer, waiters, toCli, serving, srv>>
        /\ codec # 0
    BY <1>1 DEF Written, bounds, Conns
  <1>4. NoRead(c) /\ wconn[k] = c
    BY <1>0, <1>1 DEF Position
  <1>5. In(c)' = In(c) /\ \A d \in Conns : buffer'[d] = buffer[d] /\ toCli'[d] = toCli[d]
    BY <1>3 DEF In
  <1>6. CASE pc[k] = "send_header"
    <2>1. /\ Write(k, c, "payload", id[k]) /\ UNCHANGED <<id, micro>>
      BY <1>4, <1>6 DEF Written
    <2>2. /\ wconn'[k] = c /\ pc'[k] \in InCall
          /\ \A j \in Callers \ {k} : pc'[j] \notin InCall
          /\ \A d \in Conns \ {c} : toSrv'[d] = toSrv[d]
      BY <1>2, <2>1 DEF Write, IInv, Types, CallTypes, WordTypes, InCall, Sending
    <2>3. Begun(c, id[k]) /\ NoRead(c)'
      BY <1>1, <1>3, <1>4, <1>6, <2>1 DEF Position, NoRead
    <2>4. In(c) = <<>> /\ serving[c] = 0
      BY <2>3 DEF Begun, Silent, Idle
    <2>5. CASE srv[c] = "open"
      <3>1. toSrv[c] = <<Word("header", id[k])>>
        BY <2>3, <2>5 DEF Begun
      <3>2. toSrv'[c] = Append(<<Word("header", id[k])>>, Word("payload", id[k]))
        BY <2>1, <2>5, <3>1 DEF Write, IInv, Types, WordTypes
      <3>3. toSrv'[c] = <<Word("header", id'[k]), Word("payload", id'[k])>>
        BY <2>1, <3>2, TwoWords
      <3>4. pc'[k] = "send_payload"
        BY <2>1, <2>5 DEF Write, IInv, Types, CallTypes
      <3>5. In(c)' = <<>> /\ serving'[c] = 0
        BY <1>3, <1>5, <2>4
      <3>6. Position(c, k)'
        BY <2>2, <2>3, <3>3, <3>4, <3>5 DEF Position, Away, Word
      <3>7. Order(c)'
        BY <2>2, <3>6 DEF Order
      <3>8. QED
        BY <1>1, <1>3, <2>2, <3>7, OrderNext DEF Unused, Silent, Idle, In
    <2>6. CASE srv[c] # "open"
      <3>1. toSrv' = toSrv /\ pc'[k] = "unsent"
        BY <2>1, <2>6 DEF Write, IInv, Types, CallTypes
      <3>2. toSrv[c] = <<>>
        BY <2>6 DEF IInv, Safety, DeadIsClosed
      <3>3. Silent(c)'
        BY <1>3, <1>5, <2>4, <3>1, <3>2 DEF Silent, Idle
      <3>4. Position(c, k)'
        BY <2>2, <2>3, <3>1, <3>3 DEF Position
      <3>5. Order(c)'
        BY <2>2, <3>4 DEF Order
      <3>6. QED
        BY <1>1, <1>3, <2>2, <3>5, OrderNext DEF Unused, Silent, Idle, In
    <2>7. QED
      BY <2>5, <2>6
  <1>7. CASE pc[k] = "send_payload"
    <2>1. /\ pc'[k] = "recv" /\ \A j \in Callers \ {k} : pc'[j] = pc[j]
          /\ micro' = <<[conn |-> c, id |-> id[k], step |-> "start", got |-> <<>>]>>
          /\ UNCHANGED <<id, toSrv>>
      BY <1>1, <1>3, <1>7 DEF Written, IInv, Types, CallTypes
    <2>2. Away(c, id[k])
      BY <1>1, <1>7 DEF Position
    <2>3. Reading(c, id[k])'
      <3>1. Away(c, id[k])'
        BY <1>3, <1>5, <2>1, <2>2 DEF Away, Silent, Idle, Full, Word
      <3>2. Continues(c, id[k], "start", <<>>)'
        BY <1>3, <1>4, <2>1 DEF Continues, NoRead
      <3>3. QED
        BY <3>1, <3>2 DEF Reading
    <2>4. Position(c, k)'
      BY <2>1, <2>3 DEF Position
    <2>5. Order(c)'
      BY <1>2, <2>1, <2>4 DEF Order, InCall
    <2>6. QED
      BY <1>1, <1>3, <2>1, <2>5, OrderNext DEF Unused, Silent, Idle, In
  <1>8. QED
    BY <1>0, <1>6, <1>7

(* A continuation is one of the call in flight. *)
LEMMA ContinuesIs ==
  ASSUME NEW c, NEW i, NEW s, NEW got, Continues(c, i, s, got)
  PROVE  /\ Head(micro).conn = c /\ Head(micro).id = i /\ Head(micro).step = s
         /\ Head(micro).got = got /\ Tail(micro) = <<>>
         /\ Head(micro) = [conn |-> c, id |-> i, step |-> s, got |-> got]
  BY DEF Continues

(* The read of n words, which are in the buffer or not. *)
LEMMA ReadOrder ==
  ASSUME IInv, InOrder, NEW c \in Conns, NEW i, NEW s0, NEW got0, Continues(c, i, s0, got0),
         NEW s, NEW n \in {1, 2}, Read(Head(micro), s, n), UNCHANGED toCli
  PROVE  /\ UNCHANGED calls
         /\ \A d \in Conns \ {c} : waiters'[d] = waiters[d] /\ buffer'[d] = buffer[d]
         /\ \/ /\ Len(buffer[c]) >= n
               /\ \E got \in {SubSeq(In(c), 0 + 1, n)} : Continues(c, i, s, got)'
               /\ In(c)' = SubSeq(In(c), n + 1, Len(In(c)))
            \/ /\ Len(buffer[c]) < n /\ Waits(c, i, s, n)'
               /\ buffer' = buffer /\ In(c)' = In(c)
  <1> DEFINE m == [conn |-> c, id |-> i, step |-> s0, got |-> got0]
  <1>1. Head(micro) = m /\ m.conn = c /\ m.id = i /\ Tail(micro) = <<>> /\ waiters[c] = <<>>
    BY ContinuesIs DEF Continues
  <1>2. /\ buffer[c] \in Seq(Reply) /\ toCli[c] \in Seq(Reply) /\ Len(buffer[c]) \in Nat
        /\ n \in Nat
    BY InIs DEF IInv, Types
  <1>3. CASE Len(buffer[c]) >= n
    <2>1. /\ buffer' = [buffer EXCEPT ![c] = SubSeq(@, n + 1, Len(@))] /\ waiters' = waiters
          /\ micro' = Append(<<>>, [m EXCEPT !.step = s, !.got = SubSeq(buffer[c], 1, n)])
      BY <1>1, <1>3 DEF Read
    <2>2. micro' = <<[conn |-> c, id |-> i, step |-> s, got |-> SubSeq(buffer[c], 1, n)]>>
      <3> DEFINE got == SubSeq(buffer[c], 1, n)
      <3> HIDE DEF got
      <3>1. [m EXCEPT !.step = s, !.got = got] = [conn |-> c, id |-> i, step |-> s, got |-> got]
        <4>1. [m EXCEPT !.step = s, !.got = got] = [[m EXCEPT !.step = s] EXCEPT !.got = got]
          OBVIOUS
        <4>2. [m EXCEPT !.step = s] = [conn |-> c, id |-> i, step |-> s, got |-> got0]
          OBVIOUS
        <4>3. [[conn |-> c, id |-> i, step |-> s, got |-> got0] EXCEPT !.got = got]
                = [conn |-> c, id |-> i, step |-> s, got |-> got]
          OBVIOUS
        <4>4. QED
          BY <4>1, <4>2, <4>3
      <3>2. micro' = Append(<<>>, [conn |-> c, id |-> i, step |-> s, got |-> got])
        BY <2>1, <3>1 DEF got
      <3>3. QED
        BY <3>2 DEF got
    <2>3. /\ SubSeq(buffer[c], 0 + 1, n) = SubSeq(buffer[c] \o toCli[c], 0 + 1, n)
          /\ SubSeq(buffer[c], n + 1, Len(buffer[c])) \o toCli[c]
               = SubSeq(buffer[c] \o toCli[c], n + 1, Len(buffer[c] \o toCli[c]))
      BY <1>2, <1>3, TakeWords
    <2>4. SubSeq(buffer[c], 1, n) = SubSeq(In(c), 0 + 1, n)
      <3>1. 0 + 1 = 1
        OBVIOUS
      <3>2. QED
        BY <2>3, <3>1 DEF In
    <2>5. In(c)' = SubSeq(In(c), n + 1, Len(In(c)))
      BY <2>1, <2>3 DEF In, IInv, Types, WordTypes
    <2>6. PICK got : got = SubSeq(In(c), 0 + 1, n)
      OBVIOUS
    <2>7. Continues(c, i, s, got)'
      BY <1>1, <2>1, <2>2, <2>4, <2>6 DEF Continues
    <2>8. \A d \in Conns \ {c} : waiters'[d] = waiters[d] /\ buffer'[d] = buffer[d]
      BY <2>1 DEF IInv, Types, WordTypes
    <2>9. UNCHANGED calls
      BY DEF Read
    <2>10. QED
      BY <1>3, <2>5, <2>6, <2>7, <2>8, <2>9
  <1>4. CASE ~(Len(buffer[c]) >= n)
    <2>1. /\ waiters' = [waiters EXCEPT ![c] = Append(@, [id |-> i, step |-> s, need |-> n])]
          /\ micro' = <<>> /\ buffer' = buffer
      BY <1>1, <1>4 DEF Read
    <2>2. waiters'[c] = <<[id |-> i, step |-> s, need |-> n]>>
      <3>1. waiters'[c] = Append(<<>>, [id |-> i, step |-> s, need |-> n])
        BY <1>1, <2>1 DEF IInv, Types, WordTypes
      <3>2. QED
        BY <3>1
    <2>3. \A d \in Conns \ {c} : waiters'[d] = waiters[d]
      BY <2>1 DEF IInv, Types, WordTypes
    <2>4. Waits(c, i, s, n)'
      BY <2>1, <2>2 DEF Waits
    <2>5. In(c)' = In(c)
      BY <2>1 DEF In
    <2>6. UNCHANGED calls /\ Len(buffer[c]) < n
      BY <1>2, <1>4 DEF Read
    <2>7. QED
      BY <2>1, <2>3, <2>4, <2>5, <2>6
  <1>5. QED
    BY <1>3, <1>4

(* The read of the call goes on with its own words, or waits for them. *)
LEMMA ResumeOrder ==
  ASSUME IInv, InOrder, Resume
  PROVE  InOrder'
  <1> DEFINE m == Head(micro)
  <1>0. /\ micro # <<>>
        /\ UNCHANGED <<codec, sock, timeouts, srv, toSrv, toCli, serving, nextRequestId>>
    BY DEF Resume, net, bounds
  <1>1. PICK k \in Callers : pc[k] \in InCall
    <2>1. codec # 0
      BY <1>0 DEF InOrder
    <2>2. codec \in Conns
      BY <2>1, ClientAssumption DEF IInv, Types, CallTypes, Conns
    <2>3. QED
      BY <1>0, <2>2 DEF InOrder, Order
  <1>2. PICK c \in Conns : codec = c /\ sock[c] = "open" /\ Position(c, k)
    BY <1>1, InUse
  <1>3. \A j \in Callers \ {k} : pc[j] \notin InCall
    BY <1>1, InUse
  <1>4. PICK i : i = id[k]
    OBVIOUS
  <1>5. pc[k] = "recv" /\ Reading(c, i)
    BY <1>0, <1>2, <1>4 DEF Position, NoRead
  <1>6. \/ m.step = "start" /\ Read(m, "header", 1)
        \/ m.step = "header" /\ \E n \in Lengths(m.got[1]) : Read(m, "payload", n)
        \/ m.step = "header" /\ MayBeTooLarge(m.got[1]) /\ EndRead(m, "garbled")
        \/ m.step = "payload" /\ EndRead(m, Decoded(m))
    BY DEF Resume
  <1>7. /\ buffer[c] \in Seq(Reply) /\ Len(buffer[c]) \in Nat
        /\ In(c) = <<>> => buffer[c] = <<>>
    BY InIs DEF IInv, Types
  <1>8. Idle(c) => Idle(c)'
    BY <1>0 DEF Idle
  <1>9. ASSUME UNCHANGED calls, Reading(c, i)',
               \A d \in Conns \ {c} : waiters'[d] = waiters[d] /\ buffer'[d] = buffer[d]
        PROVE  InOrder'
    <2>1. UNCHANGED <<pc, id>>
      BY <1>9 DEF calls
    <2>2. Position(c, k)'
      <3>1. Reading(c, id[k])'
        BY <1>4, <1>9, <2>1 DEF Reading, Continues, Waits, Away, Rest, Silent, Idle, Full, Response,
           Word
      <3>2. QED
        BY <1>5, <2>1, <3>1 DEF Position
    <2>3. Order(c)'
      BY <1>1, <1>3, <2>1, <2>2 DEF Order
    <2>4. QED
      BY <1>0, <1>2, <1>9, <2>3, OrderNext DEF Unused, Silent, Idle, In
  <1>10. CASE Continues(c, i, "start", <<>>) /\ Away(c, i)
    <2>1. Read(m, "header", 1)
      BY <1>6, <1>10, ContinuesIs
    <2>2. /\ UNCHANGED calls
          /\ \A d \in Conns \ {c} : waiters'[d] = waiters[d] /\ buffer'[d] = buffer[d]
          /\ \/ /\ Len(buffer[c]) >= 1
                /\ \E got \in {SubSeq(In(c), 0 + 1, 1)} : Continues(c, i, "header", got)'
                /\ In(c)' = SubSeq(In(c), 1 + 1, Len(In(c)))
             \/ /\ Len(buffer[c]) < 1 /\ Waits(c, i, "header", 1)'
                /\ buffer' = buffer /\ In(c)' = In(c)
      BY <1>0, <1>10, <2>1, ReadOrder
    <2>3. CASE Len(buffer[c]) >= 1
      <3>1. Idle(c) /\ In(c) = Full(i)
        BY <1>7, <1>10, <2>3 DEF Away, Silent
      <3>2. In(c)' = Response(i) /\ Continues(c, i, "header", <<Word("header", i)>>)'
        <4>1. /\ SubSeq(In(c), 0 + 1, 1) = <<Word("header", i)>>
              /\ SubSeq(In(c), 1 + 1, Len(In(c))) = Response(i)
          BY <3>1, FullParts
        <4>2. PICK got \in {SubSeq(In(c), 0 + 1, 1)} : Continues(c, i, "header", got)'
          BY <1>7, <2>2, <2>3
        <4>3. In(c)' = Response(i)
          <5>1. In(c)' = SubSeq(In(c), 1 + 1, Len(In(c)))
            BY <1>7, <2>2, <2>3
          <5>2. QED
            BY <4>1, <5>1
        <4>4. QED
          BY <4>1, <4>2, <4>3 DEF Continues, Word
      <3>3. Reading(c, i)'
        BY <1>8, <3>1, <3>2 DEF Reading, Rest
      <3>4. QED
        BY <1>9, <2>2, <3>3
    <2>4. CASE ~(Len(buffer[c]) >= 1)
      <3>1. /\ Waits(c, i, "header", 1)' /\ buffer' = buffer /\ In(c)' = In(c)
            /\ buffer[c] = <<>>
        BY <1>7, <2>2, <2>4, EmptySeq
      <3>2. Away(c, i)'
        BY <1>0, <1>10, <3>1 DEF Away, Silent, Idle
      <3>3. Reading(c, i)'
        BY <3>1, <3>2 DEF Reading
      <3>4. QED
        BY <1>9, <2>2, <3>3
    <2>5. QED
      BY <2>3, <2>4
  <1>11. CASE Continues(c, i, "header", <<Word("header", i)>>) /\ Rest(c, i)
    <2>1. Read(m, "payload", 2)
      <3>1. m.step = "header" /\ m.got = <<Word("header", i)>>
        BY <1>11, ContinuesIs
      <3>2. m.got[1].part = "header"
        BY <3>1 DEF Word
      <3>3. Lengths(m.got[1]) = {2} /\ ~MayBeTooLarge(m.got[1])
        BY <3>2 DEF Lengths, MayBeTooLarge
      <3>4. QED
        BY <1>6, <3>1, <3>3
    <2>2. /\ UNCHANGED calls
          /\ \A d \in Conns \ {c} : waiters'[d] = waiters[d] /\ buffer'[d] = buffer[d]
          /\ \/ /\ Len(buffer[c]) >= 2
                /\ \E got \in {SubSeq(In(c), 0 + 1, 2)} : Continues(c, i, "payload", got)'
                /\ In(c)' = SubSeq(In(c), 2 + 1, Len(In(c)))
             \/ /\ Len(buffer[c]) < 2 /\ Waits(c, i, "payload", 2)'
                /\ buffer' = buffer /\ In(c)' = In(c)
      BY <1>0, <1>11, <2>1, ReadOrder
    <2>3. CASE Len(buffer[c]) >= 2
      <3>1. In(c)' = <<>> /\ Continues(c, i, "payload", Response(i))'
        <4>1. /\ SubSeq(In(c), 0 + 1, 2) = Response(i)
              /\ SubSeq(In(c), 2 + 1, Len(In(c))) = <<>>
          BY <1>11, FullParts DEF Rest
        <4>2. PICK got \in {SubSeq(In(c), 0 + 1, 2)} : Continues(c, i, "payload", got)'
          BY <1>7, <2>2, <2>3
        <4>3. In(c)' = <<>>
          <5>1. In(c)' = SubSeq(In(c), 2 + 1, Len(In(c)))
            BY <1>7, <2>2, <2>3
          <5>2. QED
            BY <4>1, <5>1
        <4>4. QED
          BY <4>1, <4>2, <4>3 DEF Continues, Response, Word
      <3>2. Reading(c, i)'
        BY <1>8, <1>11, <3>1 DEF Reading, Rest, Silent
      <3>3. QED
        BY <1>9, <2>2, <3>2
    <2>4. CASE ~(Len(buffer[c]) >= 2)
      <3>1. Rest(c, i)'
        BY <1>8, <1>11, <2>2, <2>4 DEF Rest
      <3>2. Reading(c, i)'
        BY <2>2, <2>4, <3>1 DEF Reading
      <3>3. QED
        BY <1>9, <2>2, <3>2
    <2>5. QED
      BY <2>3, <2>4
  <1>12. CASE Continues(c, i, "payload", Response(i)) /\ Silent(c)
    <2>1. /\ m.id = i /\ Tail(micro) = <<>> /\ EndRead(m, Decoded(m)) /\ waiters[c] = <<>>
      BY <1>6, <1>12, ContinuesIs DEF Continues
    <2>2. /\ micro' = <<>> /\ UNCHANGED <<buffer, waiters>>
          /\ \A j \in Callers : pc'[j] = IF j \in CallersOf(i) THEN "idle" ELSE pc[j]
      BY <2>1 DEF EndRead, Finish
    <2>3. k \in CallersOf(i)
      BY <1>4, <1>5 DEF CallersOf
    <2>4. \A j \in Callers : pc'[j] \notin InCall
      BY <1>3, <2>2, <2>3 DEF InCall, Sending
    <2>5. Unused(c)'
      BY <1>0, <1>12, <2>1, <2>2 DEF Unused, Silent, Idle, In
    <2>6. Order(c)'
      BY <2>2, <2>4, <2>5 DEF Order
    <2>7. QED
      BY <1>0, <1>2, <2>2, <2>6, OrderNext DEF Unused, Silent, Idle, In
  <1>13. QED
    BY <1>0, <1>5, <1>10, <1>11, <1>12 DEF Reading, Waits

(* The words that arrive are given to the read that waits, or stay in the buffer. *)
LEMMA DataMoves ==
  ASSUME IInv, NEW c \in Conns, NEW n \in 1 .. Len(toCli[c]), Data(c, n), Len(waiters[c]) <= 1
  PROVE  LET need == waiters[c][1].need IN
         \/ /\ micro' = <<>> /\ waiters'[c] = waiters[c] /\ In(c)' = In(c)
            /\ waiters[c] # <<>> => Len(buffer'[c]) < need
            /\ Len(buffer'[c]) = Len(buffer[c]) + n
         \/ /\ waiters[c] # <<>> /\ waiters'[c] = <<>> /\ need <= Len(buffer[c]) + n
            /\ \E got \in {SubSeq(In(c), 0 + 1, need)}, i \in {waiters[c][1].id},
                  s \in {waiters[c][1].step} : Continues(c, i, s, got)'
            /\ In(c)' = SubSeq(In(c), need + 1, Len(In(c)))
  <1> DEFINE words == buffer[c] \o SubSeq(toCli[c], 1, n)
             rest == SubSeq(toCli[c], n + 1, Len(toCli[c]))
  <1>1. /\ buffer[c] \in Seq(Reply) /\ toCli[c] \in Seq(Reply) /\ waiters[c] \in Seq(Waiter)
        /\ Len(buffer[c]) \in Nat /\ Len(toCli[c]) \in Nat /\ Len(waiters[c]) \in {0, 1}
        /\ words \in Seq(Reply) /\ Len(words) = Len(buffer[c]) + n
        /\ n \in Nat /\ n <= Len(toCli[c])
    <2>1. /\ buffer[c] \in Seq(Reply) /\ toCli[c] \in Seq(Reply)
          /\ Len(buffer[c]) \in Nat /\ Len(toCli[c]) \in Nat
      BY InIs DEF IInv, Types
    <2>2. waiters[c] \in Seq(Waiter)
      BY DEF IInv, Types, WordTypes
    <2>3. words \in Seq(Reply) /\ Len(words) = Len(buffer[c]) + n
      BY DataFacts DEF IInv, Types
    <2>4. Len(waiters[c]) \in {0, 1}
      <3>1. Len(waiters[c]) \in Nat /\ Len(waiters[c]) <= 1
        BY <2>2
      <3>2. \A x \in Nat : x <= 1 => x \in {0, 1}
        OBVIOUS
      <3>3. QED
        BY <3>1, <3>2
    <2>6. n \in Nat /\ n <= Len(toCli[c])
      BY <2>1
    <2>5. QED
      BY <2>1, <2>2, <2>3, <2>4, <2>6
  <1>2. rest \in Seq(Reply) /\ words \o rest = In(c)
    <2>1. rest \in Seq(Reply)
      <3>1. Len(toCli[c]) <= Len(toCli[c])
        BY <1>1
      <3>2. QED
        BY <1>1, <3>1, Cut
    <2>2. QED
      BY <1>1, <2>1, MoveWords DEF In
  <1>3. PICK served \in 0 .. Len(waiters[c]) :
              /\ Need(c, served) \in Nat /\ Need(c, served) <= Len(words)
              /\ served < Len(waiters[c]) => Need(c, served + 1) > Len(words)
              /\ buffer' = [buffer EXCEPT ![c] = SubSeq(words, Need(c, served) + 1, Len(words))]
              /\ waiters' = [waiters EXCEPT ![c] = SubSeq(@, served + 1, Len(@))]
              /\ micro' = [j \in 1 .. served |-> Served(c, n, j)]
    BY DataFacts DEF IInv, Types
  <1>4. /\ buffer'[c] = SubSeq(words, Need(c, served) + 1, Len(words)) /\ toCli'[c] = rest
        /\ waiters'[c] = SubSeq(waiters[c], served + 1, Len(waiters[c]))
    BY <1>3 DEF Data, IInv, Types, WordTypes
  <1>5. /\ Need(c, 0) = 0
        /\ Len(waiters[c]) = 1 => Need(c, 1) = waiters[c][1].need /\ waiters[c][1] \in Waiter
    <2>1. Need(c, 0) = 0
      BY NeedFacts DEF IInv, Types
    <2>2. ASSUME Len(waiters[c]) = 1
          PROVE  Need(c, 1) = waiters[c][1].need /\ waiters[c][1] \in Waiter
      <3>1. 1 \in 1 .. Len(waiters[c]) /\ 1 - 1 = 0
        BY <2>2
      <3>2. waiters[c][1] \in Waiter
        BY <1>1, <3>1, ElementOfSeq
      <3>3. Need(c, 1) = Need(c, 1 - 1) + waiters[c][1].need
        BY <3>1, NeedFacts DEF IInv, Types
      <3>4. waiters[c][1].need \in Nat
        BY <3>2 DEF Waiter, Reader
      <3>5. QED
        BY <2>1, <3>1, <3>2, <3>3, <3>4
    <2>3. QED
      BY <2>1, <2>2
  <1>6. In(c)' = SubSeq(In(c), Need(c, served) + 1, Len(In(c)))
    <2> HIDE DEF words, rest
    <2>1. SubSeq(words, Need(c, served) + 1, Len(words)) \o rest
            = SubSeq(words \o rest, Need(c, served) + 1, Len(words \o rest))
      BY <1>1, <1>2, <1>3, TakeWords
    <2>2. QED
      BY <1>2, <1>4, <2>1 DEF In
  <1>7. CASE served = 0
    <2>1. micro' = <<>>
      BY <1>3, <1>7
    <2>2. waiters'[c] = waiters[c]
      <3>1. SubSeq(waiters[c], 1, Len(waiters[c])) = waiters[c]
        BY <1>1, SubSeqFull
      <3>2. 0 + 1 = 1
        OBVIOUS
      <3>3. QED
        BY <1>4, <1>7, <3>1, <3>2
    <2> HIDE DEF words
    <2>3. buffer'[c] = words
      <3>1. SubSeq(words, 1, Len(words)) = words
        BY <1>1, SubSeqFull
      <3>2. 0 + 1 = 1
        OBVIOUS
      <3>3. QED
        BY <1>4, <1>5, <1>7, <3>1, <3>2
    <2>4. In(c)' = In(c)
      BY <1>2, <1>4, <2>3 DEF In
    <2>5. waiters[c] # <<>> => Len(words) < waiters[c][1].need
      <3>1. waiters[c] # <<>> => Len(waiters[c]) = 1
        BY <1>1, EmptySeq
      <3>2. ASSUME Len(waiters[c]) = 1 PROVE Len(words) < waiters[c][1].need
        <4>1. Need(c, 0 + 1) > Len(words) /\ 0 + 1 = 1
          BY <1>3, <1>7, <3>2
        <4>2. waiters[c][1].need \in Nat /\ Len(words) \in Nat
          BY <1>1, <1>5, <3>2 DEF Waiter, Reader
        <4>3. QED
          BY <1>5, <3>2, <4>1, <4>2
      <3>3. QED
        BY <3>1, <3>2
    <2>6. QED
      BY <1>1, <2>1, <2>2, <2>3, <2>4, <2>5
  <1>8. CASE served = 1
    <2>1. Len(waiters[c]) = 1 /\ waiters[c] # <<>>
      BY <1>1, <1>8
    <2>2. Need(c, served) = waiters[c][1].need
      BY <1>5, <1>8, <2>1
    <2>3. waiters'[c] = <<>>
      BY <1>4, <1>8, <2>1
    <2>4. micro' = <<Served(c, n, 1)>>
      BY <1>3, <1>8
    <2>5. Served(c, n, 1) = [conn |-> c, id |-> waiters[c][1].id, step |-> waiters[c][1].step,
                             got |-> SubSeq(In(c), 0 + 1, waiters[c][1].need)]
      <3> HIDE DEF words, rest
      <3>1. SubSeq(words, 0 + 1, Need(c, 1)) = SubSeq(words \o rest, 0 + 1, Need(c, 1))
        BY <1>1, <1>2, <1>3, <1>8, TakeWords
      <3>2. Need(c, 1 - 1) = 0
        BY <1>5
      <3>3. QED
        BY <1>2, <1>5, <2>1, <3>1, <3>2 DEF Served, words
    <2>6. PICK got : got = SubSeq(In(c), 0 + 1, waiters[c][1].need)
      OBVIOUS
    <2>7. PICK i, s : i = waiters[c][1].id /\ s = waiters[c][1].step
      OBVIOUS
    <2>8. Continues(c, i, s, got)'
      BY <2>3, <2>4, <2>5, <2>6, <2>7 DEF Continues
    <2>9. waiters[c][1].need <= Len(buffer[c]) + n
      BY <1>1, <1>3, <2>2
    <2>10. QED
      BY <1>6, <2>1, <2>2, <2>3, <2>6, <2>7, <2>8, <2>9
  <1>9. QED
    BY <1>1, <1>7, <1>8

(* Words that come are those the waiting read of the call wants. *)
LEMMA DataOrder ==
  ASSUME IInv, Single, InOrder, NEW c \in Conns, NEW n \in 1 .. Len(toCli[c]), Data(c, n)
  PROVE  InOrder'
  <1>0. /\ sock[c] = "open" /\ micro = <<>>
        /\ UNCHANGED <<codec, sock, timeouts, srv, toSrv, serving, pc, id, wconn>>
        /\ \A d \in Conns \ {c} : /\ waiters'[d] = waiters[d] /\ buffer'[d] = buffer[d]
                                  /\ toCli'[d] = toCli[d]
    BY DEF Data, TaskMayRun, calls, bounds, IInv, Types, WordTypes
  <1>1. codec = c
    BY <1>0 DEF Single
  <1>2. /\ Len(toCli[c]) \in Nat /\ Len(buffer[c]) \in Nat /\ toCli[c] # <<>> /\ In(c) # <<>>
    <2>1. Len(toCli[c]) \in Nat /\ Len(buffer[c]) \in Nat
      BY InIs DEF IInv, Types
    <2>2. toCli[c] # <<>>
      <3>1. Len(toCli[c]) # 0
        BY <2>1
      <3>2. QED
        BY <3>1, EmptySeq
    <2>3. QED
      BY <2>1, <2>2, InIs DEF IInv, Types
  <1>3. PICK k \in Callers : pc[k] \in InCall
    BY <1>1, <1>2 DEF InOrder, Order, Unused, Silent
  <1>4. Position(c, k) /\ \A j \in Callers \ {k} : pc[j] \notin InCall
    BY <1>1, <1>3, InUse
  <1>5. PICK i : i = id[k]
    OBVIOUS
  <1>6. Idle(c) => Idle(c)'
    BY <1>0 DEF Idle
  <1>7. ASSUME Position(c, k)' PROVE InOrder'
    <2>1. Order(c)'
      BY <1>0, <1>3, <1>4, <1>7 DEF Order
    <2>2. QED
      BY <1>0, <1>1, <2>1, OrderNext DEF Unused, Silent, Idle, In
  <1>8. ASSUME In(c)' = In(c), Away(c, i) PROVE Away(c, i)'
    BY <1>0, <1>8 DEF Away, Silent, Idle
  <1>9. CASE pc[k] = "send_payload" /\ NoRead(c) /\ Away(c, i) /\ wconn[k] = c
    <2>1. Len(waiters[c]) <= 1 /\ waiters[c] = <<>>
      BY <1>9 DEF NoRead
    <2>2. micro' = <<>> /\ waiters'[c] = waiters[c] /\ In(c)' = In(c)
      BY <2>1, DataMoves
    <2>3. NoRead(c)' /\ Away(c, i)'
      BY <1>8, <1>9, <2>1, <2>2 DEF NoRead
    <2>4. Position(c, k)'
      BY <1>0, <1>5, <1>9, <2>3 DEF Position, Away, Full, Word
    <2>5. QED
      BY <1>7, <2>4
  <1>10. ASSUME pc[k] = "recv", Reading(c, i)' PROVE InOrder'
    <2>1. Reading(c, id[k])'
      BY <1>0, <1>5, <1>10 DEF Reading, Continues, Waits, Away, Rest, Silent, Idle, Full,
         Response, Word
    <2>2. Position(c, k)'
      BY <1>0, <1>10, <2>1 DEF Position
    <2>3. QED
      BY <1>7, <2>2
  <1>11. CASE pc[k] = "recv" /\ Waits(c, i, "header", 1) /\ buffer[c] = <<>> /\ Away(c, i)
    <2>1. /\ waiters[c] # <<>> /\ Len(waiters[c]) <= 1
          /\ waiters[c][1] = [id |-> i, step |-> "header", need |-> 1]
      BY <1>11 DEF Waits
    <2>2. waiters[c][1].need = 1 /\ waiters[c][1].id = i /\ waiters[c][1].step = "header"
      BY <2>1
    <2>3. /\ waiters'[c] = <<>>
          /\ \E got \in {SubSeq(In(c), 0 + 1, 1)}, j \in {i}, s \in {"header"} :
               Continues(c, j, s, got)'
          /\ In(c)' = SubSeq(In(c), 1 + 1, Len(In(c)))
      <3>1. Len(buffer[c]) + n = n /\ ~(n < 1)
        BY <1>2, <1>11
      <3>2. \/ Len(buffer'[c]) < 1 /\ Len(buffer'[c]) = Len(buffer[c]) + n
            \/ /\ waiters'[c] = <<>>
               /\ \E got \in {SubSeq(In(c), 0 + 1, 1)}, j \in {i}, s \in {"header"} :
                    Continues(c, j, s, got)'
               /\ In(c)' = SubSeq(In(c), 1 + 1, Len(In(c)))
        BY <2>1, <2>2, DataMoves
      <3>3. QED
        BY <3>1, <3>2
    <2>4. Idle(c) /\ In(c) = Full(i)
      BY <1>2, <1>11 DEF Away, Silent
    <2>5. /\ SubSeq(In(c), 0 + 1, 1) = <<Word("header", i)>>
          /\ SubSeq(In(c), 1 + 1, Len(In(c))) = Response(i)
      BY <2>4, FullParts
    <2>6. PICK got : got = <<Word("header", i)>> /\ Continues(c, i, "header", got)'
      BY <2>3, <2>5
    <2>7. In(c)' = Response(i)
      BY <2>3, <2>5
    <2>8. Reading(c, i)'
      BY <1>6, <2>4, <2>6, <2>7 DEF Reading, Rest, Continues, Word, Response
    <2>9. QED
      BY <1>10, <1>11, <2>8
  <1>12. CASE pc[k] = "recv" /\ Waits(c, i, "payload", 2) /\ Len(buffer[c]) < 2 /\ Rest(c, i)
    <2>1. /\ waiters[c] # <<>> /\ Len(waiters[c]) <= 1
          /\ waiters[c] = <<[id |-> i, step |-> "payload", need |-> 2]>>
          /\ waiters[c][1] = [id |-> i, step |-> "payload", need |-> 2]
      BY <1>12 DEF Waits
    <2>2. waiters[c][1].need = 2 /\ waiters[c][1].id = i /\ waiters[c][1].step = "payload"
      BY <2>1
    <2>3. \/ /\ micro' = <<>> /\ waiters'[c] = waiters[c] /\ In(c)' = In(c)
             /\ Len(buffer'[c]) < 2
          \/ /\ waiters'[c] = <<>>
             /\ \E got \in {SubSeq(In(c), 0 + 1, 2)}, j \in {i}, s \in {"payload"} :
                  Continues(c, j, s, got)'
             /\ In(c)' = SubSeq(In(c), 2 + 1, Len(In(c)))
      BY <2>1, <2>2, DataMoves
    <2>4. Idle(c) /\ In(c) = Response(i)
      BY <1>12 DEF Rest
    <2>5. CASE micro' = <<>> /\ waiters'[c] = waiters[c] /\ In(c)' = In(c) /\ Len(buffer'[c]) < 2
      <3>1. Waits(c, i, "payload", 2)' /\ Rest(c, i)'
        BY <1>6, <2>1, <2>4, <2>5 DEF Waits, Rest
      <3>2. Reading(c, i)'
        BY <2>5, <3>1 DEF Reading
      <3>3. QED
        BY <1>10, <1>12, <3>2
    <2>6. CASE /\ waiters'[c] = <<>>
               /\ \E got \in {SubSeq(In(c), 0 + 1, 2)}, j \in {i}, s \in {"payload"} :
                    Continues(c, j, s, got)'
               /\ In(c)' = SubSeq(In(c), 2 + 1, Len(In(c)))
      <3>1. /\ SubSeq(In(c), 0 + 1, 2) = Response(i)
            /\ SubSeq(In(c), 2 + 1, Len(In(c))) = <<>>
        BY <2>4, FullParts
      <3>2. PICK got : got = Response(i) /\ Continues(c, i, "payload", got)'
        BY <2>6, <3>1
      <3>3. Silent(c)'
        BY <1>6, <2>4, <2>6, <3>1 DEF Silent
      <3>4. Reading(c, i)'
        BY <3>2, <3>3 DEF Reading, Continues, Response, Word
      <3>5. QED
        BY <1>10, <1>12, <3>4
    <2>7. QED
      BY <2>3, <2>5, <2>6
  <1>13. QED
    BY <1>0, <1>2, <1>4, <1>5, <1>9, <1>11, <1>12
    DEF Position, Begun, Silent, Reading, Continues

(* A step of the server, which moves the request or its answer, or loses it. *)
LEMMA ServerOrder ==
  ASSUME InOrder,
         UNCHANGED <<codec, sock, calls, reads, timeouts>>,
         \A c \in Conns : Unused(c) => Unused(c)',
         \A c \in Conns : Silent(c) => Silent(c)',
         \A c \in Conns, i \in Ids : /\ Begun(c, i) => Begun(c, i)'
                                     /\ Away(c, i) => Away(c, i)'
                                     /\ Rest(c, i) => Rest(c, i)',
         \A k \in Callers : pc[k] \in InCall => id[k] \in Ids
  PROVE  InOrder'
  <1>1. UNCHANGED <<pc, id, wconn, buffer, waiters, micro>>
    BY DEF calls, reads
  <1>2. ASSUME NEW c \in Conns, NEW k \in Callers, pc[k] \in InCall, Position(c, k)
        PROVE  Position(c, k)'
    <2>1. PICK i \in Ids : i = id[k]
      BY <1>2
    <2>2. /\ Begun(c, i) => Begun(c, i)'
          /\ Silent(c) => Silent(c)'
          /\ Away(c, i) => Away(c, i)'
          /\ Rest(c, i) => Rest(c, i)'
      BY <2>1
    <2>3. Reading(c, i) => Reading(c, i)'
      BY <1>1, <2>2 DEF Reading, Continues, Waits, Word, Response
    <2>4. NoRead(c) => NoRead(c)'
      BY <1>1 DEF NoRead
    <2>5. /\ Begun(c, i)' => Begun(c, id[k])'
          /\ Away(c, i)' => Away(c, id[k])'
          /\ Reading(c, i)' => Reading(c, id[k])'
      BY <1>1, <2>1 DEF Begun, Away, Reading, Continues, Waits, Rest, Full, Response, Word
    <2>6. QED
      BY <1>1, <1>2, <2>1, <2>2, <2>3, <2>4, <2>5 DEF Position
  <1>3. ASSUME NEW c \in Conns, codec = c PROVE Order(c)'
    BY <1>1, <1>2, <1>3 DEF InOrder, Order
  <1>4. QED
    BY <1>1, <1>3 DEF InOrder

(* A call in flight has an id. *)
LEMMA CallIds == Types => \A k \in Callers : pc[k] \in InCall => id[k] \in Ids
  BY DEF Types, CallTypes, CallFields, Ids

(* The request is a pair of words. *)
LEMMA RequestParts ==
  ASSUME NEW a, NEW b
  PROVE  /\ Len(<<a>>) = 1 /\ Len(<<a, b>>) = 2 /\ <<a, b>>[2] = b
         /\ SubSeq(<<a, b>>, 3, 2) = <<>>
  BY SubSeqEmpty

(* It runs the handler of the request, and its answer follows. *)
LEMMA ServeOrder ==
  ASSUME IInv, InOrder, NEW c \in Conns, SrvServe(c)
  PROVE  InOrder'
  <1>1. /\ UNCHANGED <<codec, sock, calls, reads, timeouts, srv, toCli, buffer, waiters>>
        /\ serving[c] = 0 /\ Len(toSrv[c]) >= 2
        /\ serving'[c] = toSrv[c][2].id /\ toSrv'[c] = SubSeq(toSrv[c], 3, Len(toSrv[c]))
        /\ \A d \in Conns \ {c} : toSrv'[d] = toSrv[d] /\ serving'[d] = serving[d]
    BY DEF SrvServe, ServerOnly, bounds, reads, IInv, Types, WordTypes, ServerTypes
  <1>2. \A d \in Conns : In(d)' = In(d)
    BY <1>1 DEF In
  <1>3. toSrv[c] # <<>>
    BY <1>1
  <1>4. ASSUME NEW i PROVE Len(<<Word("header", i)>>) = 1 /\ toSrv[c] # <<Word("header", i)>>
    BY <1>1, RequestParts
  <1>5. ASSUME NEW i, toSrv[c] = <<Word("header", i), Word("payload", i)>>
        PROVE  toSrv'[c] = <<>> /\ serving'[c] = i
    <2>1. /\ Len(toSrv[c]) = 2 /\ toSrv[c][2] = Word("payload", i)
          /\ SubSeq(toSrv[c], 3, 2) = <<>>
      BY <1>5, RequestParts
    <2>2. toSrv[c][2].id = i
      BY <2>1 DEF Word
    <2>3. QED
      BY <1>1, <2>1, <2>2
  <1>6. ~Silent(c) /\ ~Unused(c) /\ \A i : ~Begun(c, i) /\ ~Rest(c, i)
    BY <1>3, <1>4 DEF Silent, Idle, Unused, Begun, Rest
  <1>7. \A d \in Conns : (Silent(d) => Silent(d)') /\ (Unused(d) => Unused(d)')
    BY <1>1, <1>2, <1>6 DEF Silent, Unused, Idle
  <1>8. \A d \in Conns, i \in Ids : /\ Begun(d, i) => Begun(d, i)'
                                    /\ Away(d, i) => Away(d, i)'
                                    /\ Rest(d, i) => Rest(d, i)'
    <2> TAKE d \in Conns, i \in Ids
    <2>1. CASE d = c
      BY <1>1, <1>2, <1>3, <1>5, <1>6, <2>1 DEF Away, Idle, Silent, Word
    <2>2. CASE d # c
      BY <1>1, <1>2, <2>2 DEF Begun, Away, Rest, Idle, Silent, Word, Full, Response
    <2>3. QED
      BY <2>1, <2>2
  <1>9. UNCHANGED <<codec, sock, calls, reads, timeouts>>
    BY <1>1
  <1>10. \A k \in Callers : pc[k] \in InCall => id[k] \in Ids
    BY CallIds DEF IInv
  <1>11. /\ \A d \in Conns : Silent(d) => Silent(d)'
         /\ \A d \in Conns : Unused(d) => Unused(d)'
    BY <1>7
  <1>12. QED
    BY <1>8, <1>9, <1>10, <1>11, ServerOrder

(* What the server answers is the request of the call in flight. *)
LEMMA ReplyOrder ==
  ASSUME IInv, InOrder, NEW c \in Conns, SrvReply(c)
  PROVE  InOrder'
  <1>1. /\ UNCHANGED <<codec, sock, calls, reads, timeouts, srv, toSrv, buffer, waiters>>
        /\ serving[c] # 0 /\ serving'[c] = 0
        /\ toCli'[c] = Append(toCli[c], Word("header", serving[c])) \o Response(serving[c])
        /\ \A d \in Conns \ {c} : toCli'[d] = toCli[d] /\ serving'[d] = serving[d]
    BY DEF SrvReply, ServerOnly, bounds, reads, IInv, Types, WordTypes, ServerTypes
  <1>2. \A d \in Conns \ {c} : In(d)' = In(d)
    BY <1>1 DEF In
  <1>3. ASSUME NEW i, serving[c] = i, In(c) = <<>> PROVE In(c)' = Full(i)
    <2>1. toCli[c] = <<>> /\ buffer'[c] = <<>>
      BY <1>1, <1>3, InIs DEF IInv, Types
    <2>2. toCli'[c] = Full(i)
      BY <1>1, <1>3, <2>1, FullParts
    <2>3. <<>> \o Full(i) = Full(i)
      BY DEF Full
    <2>4. QED
      BY <2>1, <2>2, <2>3 DEF In
  <1>4. ~Silent(c) /\ ~Unused(c) /\ \A i : ~Begun(c, i) /\ ~Rest(c, i)
    BY <1>1 DEF Silent, Idle, Unused, Begun, Rest
  <1>5. \A d \in Conns : (Silent(d) => Silent(d)') /\ (Unused(d) => Unused(d)')
    BY <1>1, <1>2, <1>4 DEF Silent, Unused, Idle
  <1>6. \A d \in Conns, i \in Ids : /\ Begun(d, i) => Begun(d, i)'
                                    /\ Away(d, i) => Away(d, i)'
                                    /\ Rest(d, i) => Rest(d, i)'
    <2> TAKE d \in Conns, i \in Ids
    <2>1. CASE d = c
      <3>1. ASSUME Away(c, i) PROVE Away(c, i)'
        <4>1. toSrv[c] = <<>> /\ serving[c] = i /\ In(c) = <<>>
          BY <1>1, <1>4, <3>1 DEF Away, Idle
        <4>2. In(c)' = Full(i) /\ Idle(c)'
          BY <1>1, <1>3, <4>1 DEF Idle
        <4>3. QED
          BY <4>2 DEF Away, Full, Word
      <3>2. QED
        BY <1>4, <2>1, <3>1
    <2>2. CASE d # c
      BY <1>1, <1>2, <2>2 DEF Begun, Away, Rest, Idle, Silent, Word, Full, Response
    <2>3. QED
      BY <2>1, <2>2
  <1>7. UNCHANGED <<codec, sock, calls, reads, timeouts>>
    BY <1>1
  <1>8. \A k \in Callers : pc[k] \in InCall => id[k] \in Ids
    BY CallIds DEF IInv
  <1>9. /\ \A d \in Conns : Silent(d) => Silent(d)'
        /\ \A d \in Conns : Unused(d) => Unused(d)'
    BY <1>5
  <1>10. QED
    BY <1>6, <1>7, <1>8, <1>9, ServerOrder

(* The connections it closes lose what they carried towards it. *)
LEMMA CloseOrder ==
  ASSUME IInv, InOrder, NEW C, Close(C), UNCHANGED <<ServerOnly, toCli>>
  PROVE  InOrder'
  <1>1. UNCHANGED <<codec, sock, calls, reads, timeouts, toCli, buffer, waiters>>
    BY DEF ServerOnly, bounds, reads
  <1>2. \A d \in Conns : In(d)' = In(d)
    BY <1>1 DEF In
  <1>3. \A d \in Conns : \/ srv'[d] = srv[d] /\ toSrv'[d] = toSrv[d] /\ serving'[d] = serving[d]
                         \/ srv'[d] # "open" /\ toSrv'[d] = <<>> /\ serving'[d] = 0
    BY DEF Close
  <1>4. \A d \in Conns : (Silent(d) => Silent(d)') /\ (Unused(d) => Unused(d)')
    BY <1>1, <1>2, <1>3 DEF Silent, Unused, Idle
  <1>5. \A d \in Conns, i \in Ids : /\ Begun(d, i) => Begun(d, i)'
                                    /\ Away(d, i) => Away(d, i)'
                                    /\ Rest(d, i) => Rest(d, i)'
    BY <1>1, <1>2, <1>3 DEF Begun, Away, Rest, Idle, Silent, Word, Full, Response
  <1>6. UNCHANGED <<codec, sock, calls, reads, timeouts>>
    BY <1>1
  <1>7. \A k \in Callers : pc[k] \in InCall => id[k] \in Ids
    BY CallIds DEF IInv
  <1>9. \A d \in Conns : Silent(d) => Silent(d)'
    BY <1>4
  <1>10. \A d \in Conns : Unused(d) => Unused(d)'
    BY <1>4
  <1>11. QED
    BY <1>5, <1>6, <1>7, <1>9, <1>10, ServerOrder

(* Every step moves the request of the call in flight on by one position, or not at all. *)
LEMMA OrderStep == OneConnect /\ NoTimeout /\ IInv /\ Single /\ InOrder /\ [Next]_vars => InOrder'
  <1> SUFFICES ASSUME OneConnect, NoTimeout, IInv, Single, InOrder, [Next]_vars PROVE InOrder'
    OBVIOUS
  <1>1. CASE Connect \/ RetryTick
    <2>1. /\ UNCHANGED <<calls, reads, toCli, toSrv, serving, codec, timeouts>>
          /\ \/ CanDial /\ \E s \in {"dialing", "redialing"} : Dial(s)
             \/ UNCHANGED <<sock, srv>>
      BY <1>1 DEF Connect, RetryTick, bounds
    <2>2. CASE UNCHANGED <<sock, srv>>
      BY <2>1, <2>2, OrderStays
    <2>3. ASSUME CanDial, NEW s \in {"dialing", "redialing"}, Dial(s) PROVE InOrder'
      <3>1. opened + 1 \in Conns /\ opened + 1 > opened /\ codec = 0
        BY <2>3, ClientAssumption DEF CanDial, IInv, Types, ConnTypes, Conns
      <3>2. sock[opened + 1] = "none"
        BY <3>1 DEF IInv, Types, ConnTypes
      <3>3. \A c \in Conns : c # opened + 1 => sock'[c] = sock[c]
        BY <2>3, <3>1 DEF Dial, IInv, Types, ConnTypes
      <3>4. QED
        BY <2>1, <3>1, <3>2, <3>3, OrderStays
    <2>4. QED
      BY <2>1, <2>2, <2>3
  <1>2. CASE Disconnect
    BY <1>2 DEF Disconnect, OneConnect, IInv, Types, LoopTypes
  <1>3. CASE Resume
    BY <1>3, ResumeOrder
  <1>4. ASSUME NEW k \in Callers, Begin(k) \/ Poll(k) PROVE InOrder'
    <2>1. /\ UNCHANGED <<codec, sock, reads, toCli, srv, serving, timeouts>>
          /\ pc[k] \in {"idle", "wait"} /\ (Begin(k) => pc[k] = "idle")
      BY <1>4 DEF Begin, Poll, bounds
    <2>2. CASE codec # 0 /\ Start(k)
      BY <2>1, <2>2, StartOrder
    <2>3. CASE ~(codec # 0 /\ Start(k))
      <3>1. codec = 0 /\ micro = <<>> /\ \A j \in Callers : pc[j] \notin InCall
        BY <1>4, <2>3 DEF Begin, Poll, InOrder
      <3>2. /\ \A j \in Callers : pc'[j] \notin InCall /\ UNCHANGED <<id, wconn, toSrv>>
        BY <1>4, <2>3, <3>1 DEF Begin, Poll, IInv, Types, CallTypes, InCall, Sending
      <3>3. \A c \in Conns : Unused(c) => Unused(c)'
        BY <2>1, <3>2 DEF reads, Unused, Silent, Idle, In
      <3>4. QED
        BY <2>1, <3>1, <3>2, <3>3 DEF InOrder, reads, Conns
    <2>4. QED
      BY <2>2, <2>3
  <1>5. ASSUME NEW k \in Callers, Written(k) PROVE InOrder'
    BY <1>5, WrittenOrder
  <1>6. ASSUME NEW k \in Callers, TimeOut(k) PROVE InOrder'
    BY <1>6 DEF TimeOut, NoTimeout, InOrder
  <1>7. ASSUME NEW c \in Conns, Connected(c) PROVE InOrder'
    BY <1>7, ConnectedOrder
  <1>8. ASSUME NEW c \in Conns, SocketClose(c) \/ SocketError(c) PROVE InOrder'
    BY <1>8, LostOrder DEF SocketClose, SocketError
  <1>9. ASSUME NEW c \in Conns, NEW n \in 1 .. Len(toCli[c]), Data(c, n) PROVE InOrder'
    BY <1>9, DataOrder
  <1>10. ASSUME NEW c \in Conns, SrvServe(c) PROVE InOrder'
    BY <1>10, ServeOrder
  <1>11. ASSUME NEW c \in Conns, SrvReply(c) PROVE InOrder'
    BY <1>11, ReplyOrder
  <1>12. CASE ServerDown \/ \E c \in Conns : SrvDrop(c)
    BY <1>12, CloseOrder DEF ServerDown, SrvDrop
  <1>13. CASE ServerStart \/ UNCHANGED vars
    BY <1>13, OrderStays DEF ServerStart, ServerOnly, vars, net, bounds
  <1>14. QED
    BY <1>1, <1>2, <1>3, <1>4, <1>5, <1>6, <1>7, <1>8, <1>9, <1>10, <1>11, <1>12, <1>13
    DEF Next, Quiescent

(* "Maintains a single connection" with "one outstanding request at a time" (client.ts:60): *)
(* between two calls the connection carries nothing in either direction, so that no call    *)
(* reads the answer of another one.                                                        *)
THEOREM OneRequestAtATime == OneConnect /\ NoTimeout /\ Spec => []OneOutstanding
  <1>1. SUFFICES ASSUME OneConnect, NoTimeout PROVE Spec => []OneOutstanding
    OBVIOUS
  <1>2. Init => InOrder
    BY OrderInit
  <1>3. IInv /\ Single /\ InOrder /\ [Next]_vars => InOrder'
    BY <1>1, OrderStep
  <1>4. IInv /\ Single /\ InOrder => OneOutstanding
    <2> SUFFICES ASSUME IInv, Single, InOrder PROVE OneOutstanding
      OBVIOUS
    <2>1. Cardinality({c \in Conns : sock[c] \in Alive}) <= 1
      <3> DEFINE A == {c \in Conns : sock[c] \in Alive}
      <3>1. CASE A = {}
        BY <3>1, FS_EmptySet
      <3>2. CASE A # {}
        <4>1. PICK c \in A : TRUE
          BY <3>2
        <4>2. A = {c}
          BY <4>1 DEF Single
        <4>3. QED
          BY <4>2, FS_Singleton
      <3>3. QED
        BY <3>1, <3>2
    <2>2. ASSUME ~callInFlight, codec # 0 PROVE Quiet(codec)
      <3>1. codec \in Conns
        BY <2>2, ClientAssumption DEF IInv, Types, CallTypes, Conns
      <3>2. \A k \in Callers : pc[k] \notin InCall
        BY <2>2 DEF IInv, Safety, OneInFlight
      <3>3. Unused(codec)
        BY <3>1, <3>2 DEF InOrder, Order
      <3>4. QED
        BY <3>1, <3>3, InIs DEF Quiet, Unused, Silent, Idle, IInv, Types
    <2>3. QED
      BY <2>1, <2>2 DEF OneOutstanding
  <1>5. Spec => [](IInv /\ Single)
    BY <1>1, SingleInvariant
  <1>6. QED
    BY <1>2, <1>3, <1>4, <1>5, PTL DEF Spec

=============================================================================
