-------------------------- MODULE CppClient_proof --------------------------
(***************************************************************************)
(* Proofs about CppClient.  The invariant IndInv is inductive: one lemma   *)
(* per action shows that the action keeps each of its parts, with lemmas   *)
(* of their own for the types and for the parts that need an argument.     *)
(* The theorems at the end draw from it the safety properties and the      *)
(* refinement of RpcCall.                                                  *)
(***************************************************************************)
EXTENDS CppClient, SequenceTheorems, TLAPS

USE DEF IndInv
-----------------------------------------------------------------------------
(* Frames, and the steps that several actions share. *)

\* A header and a frame are non-empty, differ, and a frame determines its request.
LEMMA FrameFacts ==
  ASSUME NEW i \in Nat, NEW j \in Nat
  PROVE  /\ HeaderOnly(i) \in Seq(Parts) /\ Frame(i) \in Seq(Parts)
         /\ HeaderOnly(i) # <<>> /\ Frame(i) # <<>> /\ HeaderOnly(i) # Frame(j)
         /\ Frame(i) = Frame(j) => i = j
         /\ Len(HeaderOnly(i)) = 1 /\ Len(Frame(i)) = 2
         /\ Frame(i)[2].id = i
<1>1. Part("header", i) \in Parts /\ Part("payload", i) \in Parts
  BY DEF Part, Parts
<1>2. HeaderOnly(i) \in Seq(Parts) /\ Frame(i) \in Seq(Parts)
  BY <1>1 DEF HeaderOnly, Frame
<1>3. Len(HeaderOnly(i)) = 1 /\ Len(Frame(i)) = 2 /\ Len(Frame(j)) = 2
  BY DEF HeaderOnly, Frame
<1>4. Frame(i)[2] = Part("payload", i) /\ Frame(j)[2] = Part("payload", j)
  BY DEF Frame
<1>5. Part("payload", i).id = i /\ Part("payload", j).id = j
  BY DEF Part
<1>6. HeaderOnly(i) # Frame(j)
  BY <1>3
<1>7. HeaderOnly(i) # <<>> /\ Frame(i) # <<>>
  BY DEF HeaderOnly, Frame
<1> QED BY <1>2, <1>3, <1>4, <1>5, <1>6, <1>7

\* Appending to a one-element sequence.
LEMMA AppendPair ==
  ASSUME NEW S, NEW x \in S, NEW y \in S
  PROVE  Append(<<x>>, y) = <<x, y>>
<1>1. <<x>> \in Seq(S) /\ <<x, y>> \in Seq(S) /\ Len(<<x>>) = 1 /\ Len(<<x, y>>) = 2
  OBVIOUS
<1>2. /\ Append(<<x>>, y) \in Seq(S) /\ Len(Append(<<x>>, y)) = 2
      /\ Append(<<x>>, y)[1] = x /\ Append(<<x>>, y)[2] = y
  BY <1>1
<1>3. \A i \in 1..2 : Append(<<x>>, y)[i] = <<x, y>>[i]
  BY <1>2
<1> QED BY <1>1, <1>2, <1>3, SeqEqual

\* Writing the header and then the payload on an empty connection makes a frame;
\* reading that frame leaves nothing (framing.cpp send_frame, recv_frame).
LEMMA WriteFacts ==
  ASSUME NEW i \in Nat
  PROVE  /\ Append(<<>>, Part("header", i)) = HeaderOnly(i)
         /\ Append(HeaderOnly(i), Part("payload", i)) = Frame(i)
         /\ SubSeq(Frame(i), 3, 2) = <<>>
<1>1. Append(<<>>, Part("header", i)) = HeaderOnly(i)
  BY DEF HeaderOnly
<1>2. Append(HeaderOnly(i), Part("payload", i)) = Frame(i)
  <2>1. Part("header", i) \in Parts /\ Part("payload", i) \in Parts
    BY DEF Part, Parts
  <2> QED BY <2>1, AppendPair DEF HeaderOnly, Frame
<1>3. SubSeq(Frame(i), 3, 2) = <<>>
  BY DEF Frame
<1> QED BY <1>1, <1>2, <1>3

\* A returning call() keeps the client's types.
LEMMA ReturnType ==
  ASSUME ClientTypeOK, AttemptOK, NEW t \in Threads,
         NEW v \in {"ok", "error", "protocol_error"}, Return(t, v),
         UNCHANGED <<config, conn, nextId, notified, begun>>
  PROVE  ClientTypeOK' /\ AttemptOK'
<1>1. outcome' \in [Ids -> {"pending", "ok", "error", "protocol_error"}]
  BY DEF Return, ClientTypeOK
<1>2. /\ pc' \in [Threads -> PCs] /\ mutex' \in Threads \cup {None}
      /\ resent' \in [Threads -> BOOLEAN]
  BY DEF Return, ClientTypeOK, PCs
<1>3. id' \in [Threads -> 0..(nextId - 1)]
  BY DEF Return, ClientTypeOK
<1>4. AttemptOK'
  BY DEF Return, AttemptOK
<1> QED BY <1>1, <1>2, <1>3, <1>4 DEF ClientTypeOK, Ids

\* attempt_reconnect() entered keeps the client's types.
LEMMA RetryType ==
  ASSUME ClientTypeOK, AttemptOK, NEW t \in Threads, StartRetrying(t),
         UNCHANGED <<config, conn, nextId, notified, begun>>
  PROVE  ClientTypeOK' /\ AttemptOK'
<1>1. CASE Return(t, "error")
  BY <1>1, ReturnType
<1>2. CASE /\ pc' = [pc EXCEPT ![t] = "sleep"]
           /\ attempt' = [attempt EXCEPT ![t] = 0]
           /\ UNCHANGED <<mutex, id, resent, outcome>>
  <2>1. pc' \in [Threads -> PCs] BY <1>2 DEF ClientTypeOK, PCs
  <2>2. AttemptOK' BY <1>2 DEF AttemptOK
  <2> QED BY <1>2, <2>1, <2>2 DEF ClientTypeOK, Ids
<1> QED BY <1>1, <1>2 DEF StartRetrying

\* handle_disconnect() keeps the types of what it changes.
LEMMA LoseType ==
  ASSUME ClientTypeOK, LoseConnection, ClientAssumption
  PROVE  /\ conn' \in 0..MaxConns /\ mutex' \in Threads \cup {None}
         /\ notified' \in [Conns -> Nat]
<1>1. conn' \in 0..MaxConns /\ mutex' \in Threads \cup {None}
  BY DEF LoseConnection, ClientAssumption
<1>2. /\ notified \in [Conns -> Nat]
      /\ notified' = [notified EXCEPT ![conn] = notified[conn] + 1]
  BY DEF LoseConnection, ClientTypeOK
<1>3. notified' \in [Conns -> Nat]
  <2>1. conn \in Conns => notified[conn] + 1 \in Nat
    BY <1>2
  <2> QED BY <1>2, <2>1
<1> QED BY <1>1, <1>3

\* connect_locked() succeeding keeps the types of what it changes.
LEMMA OpenType ==
  ASSUME ServerTypeOK, CanDial, OpenConnection, ClientAssumption
  PROVE  /\ conn' \in 0..MaxConns /\ opened' \in 0..MaxConns
         /\ opened' \in Conns
         /\ srv' \in [Conns -> {"unused", "open", "closed"}]
<1>1. /\ conn' \in 0..MaxConns /\ opened' \in 0..MaxConns /\ opened' \in Conns
  BY DEF ServerTypeOK, CanDial, OpenConnection, ClientAssumption, Conns
<1>2. srv' \in [Conns -> {"unused", "open", "closed"}]
  BY DEF ServerTypeOK, OpenConnection
<1> QED BY <1>1, <1>2

\* One write of send_frame() keeps the server's types.
LEMMA WriteType ==
  ASSUME ClientTypeOK, ServerTypeOK, NEW t \in Threads, NEW p \in {"header", "payload"}, Write(t, p)
  PROVE  ServerTypeOK'
<1>1. Part(p, id[t]) \in Parts
  BY DEF Part, Parts, ClientTypeOK
<1>2. toSrv' \in [Conns -> Seq(Parts)]
  <2>1. /\ toSrv \in [Conns -> Seq(Parts)]
        /\ toSrv' = [toSrv EXCEPT ![conn] = Append(toSrv[conn], Part(p, id[t]))]
    BY DEF Write, ServerTypeOK
  <2>2. conn \in Conns => Append(toSrv[conn], Part(p, id[t])) \in Seq(Parts)
    BY <1>1, <2>1, AppendProperties
  <2> QED BY <2>1, <2>2
<1> QED BY <1>2 DEF Write, ServerTypeOK, Ids

\* Closing every connection keeps the type of the server's ends.
LEMMA CloseAllType ==
  ASSUME ServerTypeOK, CloseAll PROVE srv' \in [Conns -> {"unused", "open", "closed"}]
BY DEF ServerTypeOK, CloseAll

\* A thread in the middle of a request holds mutex_, has an id and a connection,
\* and no other thread is past the lock.
LEMMA Sending_Facts ==
  ASSUME IndInv, NEW t \in Threads, pc[t] \in {"send_header", "send_payload", "recv"}
  PROVE  /\ conn \in Conns /\ conn # 0 /\ id[t] \in Ids /\ id[t] \in Nat /\ mutex = t
         /\ \A u \in Threads : pc[u] \in Locked => u = t
<1>1. conn \in Conns /\ conn # 0
  BY ClientAssumption DEF ClientAssumption, CodecInv, UsesCodec, TypeOK, ClientTypeOK, Conns
<1>2. id[t] \in Ids /\ id[t] \in Nat
  BY DEF IdInv, TypeOK, ClientTypeOK, Ids
<1>3. mutex = t /\ \A u \in Threads : pc[u] \in Locked => u = t
  BY DEF MutexInv, Locked
<1> QED BY <1>1, <1>2, <1>3

\* A connection just opened carries nothing.
LEMMA Opened_Quiet ==
  ASSUME IndInv, CanDial, OpenConnection, UNCHANGED <<toSrv, toCli, stage>>
  PROVE  conn' \in Conns /\ conn' # 0 /\ Quiet(conn')
<1>1. opened \in Nat /\ MaxConns \in Nat /\ opened + 1 \in Conns
  BY ClientAssumption DEF ClientAssumption, CanDial, TypeOK, ServerTypeOK, Conns
<1> QED BY <1>1 DEF OpenConnection, ConnInv

\* handle_disconnect() counts its callback for the connection it drops, once.
LEMMA Lose_ConnInv ==
  ASSUME IndInv, LoseConnection, UNCHANGED server
  PROVE  ConnInv'
<1>1. conn' <= opened' /\ conn' = 0
  BY DEF LoseConnection, server, TypeOK, ServerTypeOK
<1>2. ASSUME NEW c \in Conns, c > opened PROVE notified'[c] = 0
  BY <1>2 DEF LoseConnection, ConnInv, TypeOK, ClientTypeOK, ServerTypeOK, Conns
<1> QED BY <1>1, <1>2 DEF ConnInv, Quiet, server

\* After a stop or a crash every connection ever opened is closed.
LEMMA CloseAll_Facts ==
  ASSUME IndInv, CloseAll
  PROVE  \A c \in Conns : c <= opened => srv'[c] = "closed"
BY DEF CloseAll, ConnInv, TypeOK, ServerTypeOK, Conns

-----------------------------------------------------------------------------
(* One lemma per action: steps of a calling thread. *)

\* Begin keeps the inductive invariant.
LEMMA BeginInd ==
  ASSUME IndInv, NEW t \in Threads, Begin(t)
  PROVE  IndInv'
<1>1. TypeOK'
  <2>1. ClientTypeOK'
    BY DEF Begin, TypeOK, ClientTypeOK, PCs, Ids, server
  <2>2. AttemptOK'
    BY DEF Begin, TypeOK, AttemptOK, ClientTypeOK, server
  <2>3. ServerTypeOK'
    BY DEF Begin, TypeOK, ServerTypeOK, ClientTypeOK, Ids, server
  <2> QED BY <2>1, <2>2, <2>3 DEF TypeOK
<1>2. MutexInv'
  BY ClientAssumption DEF ClientAssumption, Begin, TypeOK, ClientTypeOK, MutexInv, Locked, server
<1>3. CodecInv'
  BY DEF Begin, TypeOK, ClientTypeOK, MutexInv, CodecInv, Locked, UsesCodec, server
<1>4. ConnInv'
  BY DEF Begin, TypeOK, ClientTypeOK, ServerTypeOK, ConnInv, Quiet, server
<1>5. FrameInv'
  BY DEF Begin, FrameInv, Ids, server
<1>6. IdInv'
  BY DEF Begin, TypeOK, ClientTypeOK, IdInv, Ids, server
<1>7. ExecInv'
  BY DEF Begin, TypeOK, ClientTypeOK, ServerTypeOK, ExecInv, Deliverable, Ids, server
<1>8. UnsentInv'
  BY DEF Begin, TypeOK, ClientTypeOK, ServerTypeOK, UnsentInv, Deliverable, Ids, server
<1>9. ChannelInv'
  BY DEF Begin, TypeOK, ClientTypeOK, ServerTypeOK, MutexInv, Locked, ChannelInv, Outstanding,
     Quiet, server
<1>10. OutcomeInv'
  BY DEF Begin, TypeOK, ClientTypeOK, ServerTypeOK, OutcomeInv, Ids, server
<1>11. NotifiedOnce'
  BY DEF Begin, TypeOK, ClientTypeOK, ServerTypeOK, NotifiedOnce, ConnInv, Conns, server
<1> QED BY <1>1, <1>2, <1>3, <1>4, <1>5, <1>6, <1>7, <1>8, <1>9, <1>10, <1>11

\* Enter keeps the types.
LEMMA EnterType == ASSUME TypeOK, NEW t \in Threads, Enter(t) PROVE TypeOK'
<1>1. ClientTypeOK' /\ AttemptOK'
  <2>1. CASE conn = 0
    BY <2>1, RetryType DEF Enter, TypeOK
  <2>2. CASE conn # 0
    BY <2>2 DEF Enter, TypeOK, ClientTypeOK, AttemptOK, PCs, Ids
  <2> QED BY <2>1, <2>2
<1>2. ServerTypeOK'
  BY DEF Enter, TypeOK, ServerTypeOK, Ids, server
<1> QED BY <1>1, <1>2 DEF TypeOK

\* Enter keeps UnsentInv: that an unsent request was never delivered.
LEMMA Enter_UnsentInv ==
  ASSUME IndInv, NEW t \in Threads, Enter(t)
  PROVE  UnsentInv'
<1>1. id[t] = 0
  BY DEF Enter, IdInv
<1>2. id' = id /\ \A u \in Threads \ {t} : pc'[u] = pc[u]
  <2>1. CASE conn # 0
    BY <2>1 DEF Enter, TypeOK, ClientTypeOK
  <2>2. CASE Return(t, "error")
    BY <1>1, <2>2 DEF Return, TypeOK, ClientTypeOK
  <2>3. CASE MayRetry /\ pc' = [pc EXCEPT ![t] = "sleep"] /\ UNCHANGED id
    BY <2>3 DEF TypeOK, ClientTypeOK
  <2> QED BY <2>1, <2>2, <2>3 DEF Enter, StartRetrying
<1> QED BY <1>1, <1>2 DEF Enter, UnsentInv, Deliverable, server

\* Enter keeps the inductive invariant.
LEMMA EnterInd ==
  ASSUME IndInv, NEW t \in Threads, Enter(t)
  PROVE  IndInv'
<1>1. TypeOK'
  BY EnterType
<1>2. MutexInv'
  BY ClientAssumption DEF ClientAssumption, Enter, StartRetrying, Return, MayRetry, TypeOK,
     ClientTypeOK, MutexInv, Locked, server
<1>3. CodecInv'
  BY DEF Enter, StartRetrying, Return, MayRetry, TypeOK, ClientTypeOK, MutexInv, CodecInv,
     Locked, UsesCodec, server
<1>4. ConnInv'
  BY DEF Enter, StartRetrying, Return, MayRetry, TypeOK, ClientTypeOK, ServerTypeOK, ConnInv,
     Quiet, server
<1>5. FrameInv'
  BY DEF Enter, StartRetrying, Return, MayRetry, FrameInv, Ids, server
<1>6. IdInv'
  BY DEF Enter, StartRetrying, Return, MayRetry, TypeOK, ClientTypeOK, IdInv, Ids, server
<1>7. ExecInv'
  BY DEF Enter, StartRetrying, Return, MayRetry, TypeOK, ClientTypeOK, ServerTypeOK, ExecInv,
     Deliverable, Ids, server
<1>8. UnsentInv'
  BY Enter_UnsentInv
<1>9. ChannelInv'
  <2>1. CASE Return(t, "error")
    BY <2>1 DEF Enter, Return, TypeOK, ClientTypeOK, MutexInv, Locked, ChannelInv, Outstanding,
       Quiet, server
  <2>2. CASE /\ pc' = [pc EXCEPT ![t] = "sleep"]
             /\ UNCHANGED <<mutex, id, resent, outcome>>
    BY <2>2 DEF Enter, TypeOK, ClientTypeOK, MutexInv, Locked, ChannelInv, Outstanding, Quiet,
       server
  <2>3. CASE pc' = [pc EXCEPT ![t] = "issue"] /\ UNCHANGED id
    BY <2>3 DEF Enter, TypeOK, ClientTypeOK, MutexInv, Locked, ChannelInv, Outstanding, Quiet,
       server
  <2> QED BY <2>1, <2>2, <2>3 DEF Enter, StartRetrying
<1>10. OutcomeInv'
  BY DEF Enter, StartRetrying, Return, MayRetry, TypeOK, ClientTypeOK, ServerTypeOK, OutcomeInv,
     Ids, server
<1>11. NotifiedOnce'
  BY DEF Enter, StartRetrying, Return, MayRetry, TypeOK, ClientTypeOK, ServerTypeOK,
     NotifiedOnce, ConnInv, Conns, server
<1> QED BY <1>1, <1>2, <1>3, <1>4, <1>5, <1>6, <1>7, <1>8, <1>9, <1>10, <1>11

\* WakeUp keeps the inductive invariant.
LEMMA WakeUpInd ==
  ASSUME IndInv, NEW t \in Threads, WakeUp(t)
  PROVE  IndInv'
<1>1. TypeOK'
  <2>1. ClientTypeOK'
    BY DEF WakeUp, TypeOK, ClientTypeOK, PCs, Ids, server
  <2>2. AttemptOK'
    BY DEF WakeUp, TypeOK, AttemptOK, ClientTypeOK, server
  <2>3. ServerTypeOK'
    BY DEF WakeUp, TypeOK, ServerTypeOK, ClientTypeOK, Ids, server
  <2> QED BY <2>1, <2>2, <2>3 DEF TypeOK
<1>2. MutexInv'
  BY ClientAssumption DEF ClientAssumption, WakeUp, TypeOK, ClientTypeOK, MutexInv, Locked, server
<1>3. CodecInv'
  BY DEF WakeUp, TypeOK, ClientTypeOK, MutexInv, CodecInv, Locked, UsesCodec, server
<1>4. ConnInv'
  BY DEF WakeUp, TypeOK, ClientTypeOK, ServerTypeOK, ConnInv, Quiet, server
<1>5. FrameInv'
  BY DEF WakeUp, FrameInv, Ids, server
<1>6. IdInv'
  BY DEF WakeUp, TypeOK, ClientTypeOK, IdInv, Ids, server
<1>7. ExecInv'
  BY DEF WakeUp, TypeOK, ClientTypeOK, ServerTypeOK, ExecInv, Deliverable, Ids, server
<1>8. UnsentInv'
  BY DEF WakeUp, TypeOK, ClientTypeOK, ServerTypeOK, UnsentInv, Deliverable, Ids, server
<1>9. ChannelInv'
  BY DEF WakeUp, TypeOK, ClientTypeOK, ServerTypeOK, MutexInv, Locked, ChannelInv, Outstanding,
     Quiet, server
<1>10. OutcomeInv'
  BY DEF WakeUp, TypeOK, ClientTypeOK, ServerTypeOK, OutcomeInv, Ids, server
<1>11. NotifiedOnce'
  BY DEF WakeUp, TypeOK, ClientTypeOK, ServerTypeOK, NotifiedOnce, ConnInv, Conns, server
<1> QED BY <1>1, <1>2, <1>3, <1>4, <1>5, <1>6, <1>7, <1>8, <1>9, <1>10, <1>11

\* DialOk keeps the types.
LEMMA DialOkType == ASSUME TypeOK, NEW t \in Threads, DialOk(t) PROVE TypeOK'
<1>1. ClientTypeOK' /\ AttemptOK'
  <2>1. pc' \in [Threads -> PCs] /\ resent' \in [Threads -> BOOLEAN]
    BY DEF DialOk, TypeOK, ClientTypeOK, PCs
  <2> QED BY <2>1, OpenType, ClientAssumption DEF DialOk, TypeOK, ClientTypeOK, AttemptOK, Ids
<1>2. ServerTypeOK'
  BY OpenType, ClientAssumption DEF DialOk, TypeOK, ServerTypeOK, Ids
<1> QED BY <1>1, <1>2 DEF TypeOK

\* DialOk keeps ConnInv: the bookkeeping of connections.
LEMMA DialOk_ConnInv ==
  ASSUME IndInv, NEW t \in Threads, DialOk(t)
  PROVE  ConnInv'
<1>1. opened \in Nat /\ MaxConns \in Nat /\ opened + 1 \in Conns
  BY ClientAssumption DEF ClientAssumption, DialOk, CanDial, TypeOK, ServerTypeOK, Conns
<1>2. conn' <= opened'
  BY <1>1 DEF DialOk, OpenConnection
<1>3. conn' # 0 => notified'[conn'] = 0
  BY <1>1 DEF DialOk, OpenConnection, ConnInv
<1>4. ASSUME NEW c \in Conns
      PROVE  /\ srv'[c] = "unused" <=> c > opened'
             /\ c > opened' => Quiet(c)' /\ notified'[c] = 0
             /\ stage'[c] # "reading" => request'[c] # 0 /\ toSrv'[c] = <<>>
  <2>1. c \in Nat /\ opened' = opened + 1
    BY DEF DialOk, OpenConnection, Conns
  <2>2. UNCHANGED <<toSrv, toCli, stage, request, notified>>
    BY DEF DialOk
  <2>3. /\ srv' = [srv EXCEPT ![opened + 1] = "open"]
        /\ srv \in [Conns -> {"unused", "open", "closed"}]
    BY DEF DialOk, OpenConnection, TypeOK, ServerTypeOK
  <2>4. CASE c = opened + 1
    BY <1>1, <2>1, <2>2, <2>3, <2>4 DEF ConnInv, Quiet
  <2>5. CASE c # opened + 1
    <3>1. srv'[c] = srv[c] /\ (c > opened' <=> c > opened)
      BY <1>1, <2>1, <2>3, <2>5
    <3> QED BY <2>2, <3>1 DEF ConnInv, Quiet
  <2> QED BY <2>4, <2>5
<1> QED BY <1>2, <1>3, <1>4 DEF ConnInv

\* DialOk keeps ChannelInv: that the request in progress is alone on its connection.
LEMMA DialOk_ChannelInv ==
  ASSUME IndInv, NEW t \in Threads, DialOk(t)
  PROVE  ChannelInv'
<1>0. conn' \in Conns /\ conn' # 0 /\ Quiet(conn')
  BY Opened_Quiet DEF DialOk
<1>1. ASSUME NEW u \in Threads PROVE Outstanding(u)'
  BY DEF DialOk, TypeOK, ClientTypeOK, MutexInv, Locked, Outstanding
<1>2. Quiet(conn)'
  BY <1>0 DEF DialOk, Quiet
<1> QED BY <1>1, <1>2 DEF ChannelInv

\* DialOk keeps the inductive invariant.
LEMMA DialOkInd ==
  ASSUME IndInv, NEW t \in Threads, DialOk(t)
  PROVE  IndInv'
<1>1. TypeOK'
  BY DialOkType
<1>2. MutexInv'
  BY ClientAssumption DEF ClientAssumption, DialOk, CanDial, OpenConnection, TypeOK,
     ClientTypeOK, MutexInv, Locked
<1>3. CodecInv'
  <2>1. conn' # 0
    BY Opened_Quiet DEF DialOk
  <2> QED BY <2>1 DEF CodecInv
<1>4. ConnInv'
  BY DialOk_ConnInv
<1>5. FrameInv'
  BY DEF DialOk, CanDial, OpenConnection, FrameInv, Ids
<1>6. IdInv'
  BY DEF DialOk, CanDial, OpenConnection, TypeOK, ClientTypeOK, IdInv, Ids
<1>7. ExecInv'
  BY DEF DialOk, CanDial, OpenConnection, TypeOK, ClientTypeOK, ServerTypeOK, ExecInv,
     Deliverable, Ids
<1>8. UnsentInv'
  BY DEF DialOk, CanDial, OpenConnection, TypeOK, ClientTypeOK, ServerTypeOK, UnsentInv,
     Deliverable, Ids
<1>9. ChannelInv'
  BY DialOk_ChannelInv
<1>10. OutcomeInv'
  BY DEF DialOk, CanDial, OpenConnection, TypeOK, ClientTypeOK, ServerTypeOK, OutcomeInv, Ids
<1>11. NotifiedOnce'
  BY DEF DialOk, CanDial, OpenConnection, TypeOK, ClientTypeOK, ServerTypeOK, NotifiedOnce,
     ConnInv, Conns
<1> QED BY <1>1, <1>2, <1>3, <1>4, <1>5, <1>6, <1>7, <1>8, <1>9, <1>10, <1>11

\* DialFail keeps the types.
LEMMA DialFailType == ASSUME TypeOK, NEW t \in Threads, DialFail(t) PROVE TypeOK'
<1>1. ClientTypeOK' /\ AttemptOK'
  <2>1. CASE Return(t, "error")
    BY <2>1, ReturnType DEF DialFail, TypeOK
  <2>2. CASE /\ ~LastAttempt(t)
             /\ attempt' = [attempt EXCEPT ![t] = NextAttempt(t)]
             /\ pc' = [pc EXCEPT ![t] = "sleep"]
             /\ mutex' = None
             /\ UNCHANGED <<id, resent, outcome>>
    <3>1. pc' \in [Threads -> PCs] /\ mutex' \in Threads \cup {None}
      BY <2>2 DEF TypeOK, ClientTypeOK, PCs
    <3>2. ClientTypeOK'
      BY <2>2, <3>1 DEF DialFail, TypeOK, ClientTypeOK, Ids
    <3>3. attempt[t] \in Nat /\ config.max_attempts \in Int
      BY ClientAssumption DEF ClientAssumption, TypeOK, AttemptOK, ClientTypeOK, ConfigSet
    <3>4. NextAttempt(t) \in Nat /\ (NextAttempt(t) # 0 => NextAttempt(t) < config.max_attempts)
      BY <2>2, <3>3 DEF LastAttempt, NextAttempt, Unlimited, TypeOK, AttemptOK
    <3>5. AttemptOK'
      BY <2>2, <3>4 DEF DialFail, TypeOK, AttemptOK
    <3> QED BY <3>2, <3>5
  <2> QED BY <2>1, <2>2 DEF DialFail
<1>2. ServerTypeOK'
  BY DEF DialFail, TypeOK, ServerTypeOK, Ids, server
<1> QED BY <1>1, <1>2 DEF TypeOK

\* DialFail keeps IdInv: that ids belong to one thread.
LEMMA DialFail_IdInv ==
  ASSUME IndInv, NEW t \in Threads, DialFail(t)
  PROVE  IdInv'
<1>1. CASE Return(t, "error")
  BY <1>1 DEF DialFail, Return, TypeOK, ClientTypeOK, IdInv, Ids
<1>2. CASE pc' = [pc EXCEPT ![t] = "sleep"] /\ UNCHANGED <<id, resent, outcome>>
  BY <1>2 DEF DialFail, TypeOK, ClientTypeOK, IdInv, Ids
<1> QED BY <1>1, <1>2 DEF DialFail

\* DialFail keeps the inductive invariant.
LEMMA DialFailInd ==
  ASSUME IndInv, NEW t \in Threads, DialFail(t)
  PROVE  IndInv'
<1>1. TypeOK'
  BY DialFailType
<1>2. MutexInv'
  BY ClientAssumption DEF ClientAssumption, DialFail, LastAttempt, NextAttempt, Return,
     Unlimited, TypeOK, ClientTypeOK, MutexInv, Locked, server
<1>3. CodecInv'
  BY DEF DialFail, LastAttempt, NextAttempt, Return, Unlimited, TypeOK, ClientTypeOK, MutexInv,
     CodecInv, Locked, UsesCodec, server
<1>4. ConnInv'
  BY DEF DialFail, LastAttempt, NextAttempt, Return, Unlimited, TypeOK, ClientTypeOK,
     ServerTypeOK, ConnInv, Quiet, server
<1>5. FrameInv'
  BY DEF DialFail, LastAttempt, NextAttempt, Return, Unlimited, FrameInv, Ids, server
<1>6. IdInv'
  BY DialFail_IdInv
<1>7. ExecInv'
  BY DEF DialFail, LastAttempt, NextAttempt, Return, Unlimited, TypeOK, ClientTypeOK,
     ServerTypeOK, ExecInv, Deliverable, Ids, server
<1>8. UnsentInv'
  BY DEF DialFail, LastAttempt, NextAttempt, Return, Unlimited, TypeOK, ClientTypeOK,
     ServerTypeOK, UnsentInv, Deliverable, Ids, server
<1>9. ChannelInv'
  BY DEF DialFail, LastAttempt, NextAttempt, Return, Unlimited, TypeOK, ClientTypeOK,
     ServerTypeOK, MutexInv, Locked, ChannelInv, Outstanding, Quiet, server
<1>10. OutcomeInv'
  BY DEF DialFail, LastAttempt, NextAttempt, Return, Unlimited, TypeOK, ClientTypeOK,
     ServerTypeOK, OutcomeInv, Ids, server
<1>11. NotifiedOnce'
  BY DEF DialFail, LastAttempt, NextAttempt, Return, Unlimited, TypeOK, ClientTypeOK,
     ServerTypeOK, NotifiedOnce, ConnInv, Conns, server
<1> QED BY <1>1, <1>2, <1>3, <1>4, <1>5, <1>6, <1>7, <1>8, <1>9, <1>10, <1>11

\* IssueId keeps ExecInv: that a request is delivered once.
LEMMA IssueId_ExecInv ==
  ASSUME IndInv, NEW t \in Threads, IssueId(t)
  PROVE  ExecInv'
<1>1. nextId \in Nat \ {0} /\ nextId' = nextId + 1
  BY DEF IssueId, TypeOK, ClientTypeOK
<1>2. \A i \in Ids : executed'[i] = executed[i]
  BY <1>1 DEF IssueId, Ids
<1>3. executed'[nextId] = 0
  BY <1>1 DEF IssueId
<1>4. \A i \in Ids' : i \in Ids \/ i = nextId
  BY <1>1 DEF Ids
<1>5. \A c \in Conns : ~Deliverable(c, nextId)
  <2> SUFFICES ASSUME NEW c \in Conns PROVE ~Deliverable(c, nextId)
    OBVIOUS
  <2>1. request[c] # nextId
    BY <1>1 DEF TypeOK, ServerTypeOK
  <2>2. toSrv[c] # Frame(nextId)
    BY <1>1, FrameFacts DEF FrameInv, Ids
  <2> QED BY <2>1, <2>2 DEF Deliverable
<1>6. \A c \in Conns : \A i \in Nat : Deliverable(c, i)' <=> Deliverable(c, i)
  BY DEF IssueId, Deliverable
<1>7. \A c \in Conns : stage[c] = "executed" => request[c] \in Ids
  BY <1>1 DEF ConnInv, TypeOK, ServerTypeOK, Ids
<1>8. \A i \in Ids' : executed'[i] \in {0, 1}
  BY <1>2, <1>3, <1>4 DEF ExecInv
<1>9. \A c \in Conns : stage'[c] = "executed" => executed'[request'[c]] = 1
  BY <1>2, <1>7 DEF ExecInv, IssueId
<1>10. \A i \in Ids' : i \in Nat
  BY <1>1 DEF Ids
<1>11. ASSUME NEW i \in Ids', NEW c \in Conns, Deliverable(c, i)'
       PROVE  executed'[i] = 0 /\ \A d \in Conns : Deliverable(d, i)' => c = d
  <2>1. Deliverable(c, i) /\ i \in Ids
    BY <1>4, <1>5, <1>6, <1>10, <1>11
  <2> QED BY <1>2, <1>6, <1>10, <2>1 DEF ExecInv
<1> QED BY <1>8, <1>9, <1>11 DEF ExecInv

\* IssueId keeps UnsentInv: that an unsent request was never delivered.
LEMMA IssueId_UnsentInv ==
  ASSUME IndInv, NEW t \in Threads, IssueId(t)
  PROVE  UnsentInv'
<1>1. nextId \in Nat \ {0} /\ id' = [id EXCEPT ![t] = nextId]
  BY DEF IssueId, FreshId, TypeOK, ClientTypeOK
<1>2. ASSUME NEW c \in Conns PROVE request[c] # nextId /\ toSrv[c] # Frame(nextId)
  <2>1. request[c] # nextId
    BY <1>1 DEF TypeOK, ServerTypeOK
  <2>2. toSrv[c] # Frame(nextId)
    BY <1>1, FrameFacts DEF FrameInv, Ids
  <2> QED BY <2>1, <2>2
<1>3. \A c \in Conns : ~Deliverable(c, nextId)
  BY <1>2 DEF Deliverable
<1>4. executed'[nextId] = 0
  BY <1>1 DEF IssueId
<1>5. \A c \in Conns : \A i \in Nat : Deliverable(c, i)' <=> Deliverable(c, i)
  BY DEF IssueId, Deliverable
<1>6. ASSUME NEW u \in Threads, id'[u] # 0,
             pc'[u] \in {"sleep", "dial", "send_header", "send_payload", "callback_retry"}
      PROVE  (executed[id[u]] = 0 /\ \A c \in Conns : ~Deliverable(c, id[u]))'
  <2>1. CASE u = t
    <3>1. id'[u] = nextId /\ nextId \in Nat
      BY <1>1, <2>1 DEF TypeOK, ClientTypeOK
    <3>2. \A i \in Nat : i = nextId => \A c \in Conns : ~Deliverable(c, i)'
      BY <1>3, <1>5
    <3> QED BY <1>4, <3>1, <3>2 DEF Deliverable
  <2>2. CASE u # t
    <3>1. id'[u] = id[u] /\ pc'[u] = pc[u]
      BY <2>2 DEF IssueId, TypeOK, ClientTypeOK
    <3>2. executed[id[u]] = 0 /\ \A c \in Conns : ~Deliverable(c, id[u])
      BY <1>6, <3>1 DEF UnsentInv
    <3>3. id[u] \in 1..(nextId - 1)
      BY <1>1, <1>6, <3>1 DEF TypeOK, ClientTypeOK
    <3>4. executed'[id[u]] = 0
      BY <1>1, <3>2, <3>3 DEF IssueId
    <3> QED BY <3>1, <3>2, <3>4 DEF IssueId, Deliverable
  <2> QED BY <2>1, <2>2
<1> QED BY <1>6 DEF UnsentInv

\* IssueId keeps the inductive invariant.
LEMMA IssueIdInd ==
  ASSUME IndInv, NEW t \in Threads, IssueId(t)
  PROVE  IndInv'
<1>1. TypeOK'
  <2>1. ClientTypeOK'
    BY DEF IssueId, FreshId, TypeOK, ClientTypeOK, PCs, Ids
  <2>2. AttemptOK'
    BY DEF IssueId, FreshId, TypeOK, AttemptOK, ClientTypeOK
  <2>3. ServerTypeOK'
    BY DEF IssueId, FreshId, TypeOK, ServerTypeOK, ClientTypeOK, Ids
  <2> QED BY <2>1, <2>2, <2>3 DEF TypeOK
<1>2. MutexInv'
  BY ClientAssumption DEF ClientAssumption, IssueId, FreshId, TypeOK, ClientTypeOK, MutexInv, Locked
<1>3. CodecInv'
  BY DEF IssueId, FreshId, TypeOK, ClientTypeOK, MutexInv, CodecInv, Locked, UsesCodec
<1>4. ConnInv'
  BY DEF IssueId, FreshId, TypeOK, ClientTypeOK, ServerTypeOK, ConnInv, Quiet
<1>5. FrameInv'
  <2>1. \A i \in Ids : i \in Ids'
    BY DEF IssueId, Ids, TypeOK, ClientTypeOK
  <2> QED BY <2>1 DEF IssueId, FrameInv
<1>6. IdInv'
  BY DEF IssueId, FreshId, TypeOK, ClientTypeOK, IdInv, Ids
<1>7. ExecInv'
  BY IssueId_ExecInv
<1>8. UnsentInv'
  BY IssueId_UnsentInv
<1>9. ChannelInv'
  BY DEF IssueId, FreshId, TypeOK, ClientTypeOK, ServerTypeOK, MutexInv, Locked, ChannelInv,
     Outstanding, Quiet
<1>10. OutcomeInv'
  BY DEF IssueId, FreshId, TypeOK, ClientTypeOK, ServerTypeOK, OutcomeInv, Ids
<1>11. NotifiedOnce'
  BY DEF IssueId, FreshId, TypeOK, ClientTypeOK, ServerTypeOK, NotifiedOnce, ConnInv, Conns
<1> QED BY <1>1, <1>2, <1>3, <1>4, <1>5, <1>6, <1>7, <1>8, <1>9, <1>10, <1>11

\* A header is written on a connection that carries nothing: no call left anything behind.
LEMMA SendHeader_Facts ==
  ASSUME IndInv, NEW t \in Threads, SendHeader(t)
  PROVE  /\ toSrv[conn] = <<>> /\ Quiet(conn)
         /\ toSrv' = [toSrv EXCEPT ![conn] = HeaderOnly(id[t])]
<1>1. conn \in Conns /\ conn # 0 /\ id[t] \in Nat /\ \A u \in Threads : pc[u] \in Locked => u = t
  BY Sending_Facts DEF SendHeader
<1>2. \A u \in Threads : pc[u] \notin {"send_payload", "recv"}
  BY <1>1 DEF SendHeader, Locked
<1>3. Quiet(conn) /\ toSrv[conn] = <<>>
  BY <1>1, <1>2 DEF ChannelInv, Quiet
<1> QED BY <1>1, <1>3, WriteFacts DEF SendHeader, Write

\* SendHeader keeps the types.
LEMMA SendHeaderType == ASSUME TypeOK, NEW t \in Threads, SendHeader(t) PROVE TypeOK'
<1>1. ClientTypeOK' BY DEF SendHeader, Write, TypeOK, ClientTypeOK, PCs, Ids
<1>2. AttemptOK' BY DEF SendHeader, Write, TypeOK, AttemptOK
<1>3. ServerTypeOK' BY WriteType DEF SendHeader, TypeOK
<1> QED BY <1>1, <1>2, <1>3 DEF TypeOK

\* SendHeader keeps what is known of connections, requests in transit and executions.
LEMMA SendHeader_Server ==
  ASSUME IndInv, NEW t \in Threads, SendHeader(t)
  PROVE  ConnInv' /\ FrameInv' /\ ExecInv' /\ UnsentInv' /\ ChannelInv'
<1>1. /\ conn \in Conns /\ id[t] \in Ids /\ id[t] \in Nat /\ mutex = t
      /\ \A u \in Threads : pc[u] \in Locked => u = t
  BY Sending_Facts DEF SendHeader
<1>2. /\ Quiet(conn) /\ toSrv[conn] = <<>>
      /\ toSrv' = [toSrv EXCEPT ![conn] = HeaderOnly(id[t])]
      /\ toSrv \in [Conns -> Seq(Parts)]
  BY SendHeader_Facts DEF TypeOK, ServerTypeOK
<1>3. /\ UNCHANGED <<conn, nextId, id, opened, srv, stage, request, toCli, executed, notified>>
      /\ srv[conn] = "open"
      /\ pc' = [pc EXCEPT ![t] = "send_payload"] /\ pc[t] = "send_header"
  BY DEF SendHeader, Write
<1>4. \A c \in Conns : toSrv'[c] = IF c = conn THEN HeaderOnly(id[t]) ELSE toSrv[c]
  BY <1>2
<1>5. ConnInv'
  <2>1. ~(conn > opened)
    BY <1>1, <1>3 DEF ConnInv
  <2> QED BY <1>2, <1>3, <1>4, <2>1 DEF ConnInv, Quiet
<1>6. FrameInv'
  BY <1>1, <1>3, <1>4 DEF FrameInv, Ids
<1>7. \A c \in Conns : \A i \in Ids : Deliverable(c, i)' <=> Deliverable(c, i)
  <2>1. \A i \in Ids : HeaderOnly(id[t]) # Frame(i) /\ Frame(i) # <<>> /\ i \in Nat
    BY <1>1, FrameFacts DEF Ids, TypeOK, ClientTypeOK
  <2> QED BY <1>2, <1>3, <1>4, <2>1 DEF Deliverable
<1>8. ExecInv'
  <2>1. Ids' = Ids
    BY <1>3 DEF Ids
  <2> QED BY <1>3, <1>7, <2>1 DEF ExecInv
<1>9. UnsentInv'
  <2>1. \A u \in Threads : id[u] # 0 => id[u] \in Ids
    BY DEF TypeOK, ClientTypeOK, Ids
  <2>2. ASSUME NEW u \in Threads, id[u] # 0,
               pc'[u] \in {"sleep", "dial", "send_header", "send_payload", "callback_retry"}
        PROVE  executed[id[u]] = 0 /\ \A c \in Conns : ~Deliverable(c, id[u])
    BY <1>3, <2>2 DEF UnsentInv, TypeOK, ClientTypeOK
  <2>3. ASSUME NEW u \in Threads, id[u] # 0,
               pc'[u] \in {"sleep", "dial", "send_header", "send_payload", "callback_retry"}
        PROVE  \A c \in Conns : ~Deliverable(c, id[u])'
    BY <1>3, <1>7, <2>1, <2>2, <2>3 DEF Deliverable
  <2> QED BY <1>3, <2>2, <2>3 DEF UnsentInv
<1>10. ChannelInv'
  <2>1. ASSUME NEW u \in Threads PROVE Outstanding(u)'
    <3>1. CASE u = t
      BY <1>1, <1>2, <1>3, <1>4, <3>1 DEF Outstanding, Quiet, TypeOK, ClientTypeOK
    <3>2. CASE u # t
      BY <1>1, <1>3, <3>2 DEF Outstanding, Locked, TypeOK, ClientTypeOK
    <3> QED BY <3>1, <3>2
  <2>2. pc'[t] = "send_payload"
    BY <1>3 DEF TypeOK, ClientTypeOK
  <2> QED BY <2>1, <2>2 DEF ChannelInv
<1> QED BY <1>5, <1>6, <1>8, <1>9, <1>10

\* SendHeader keeps the inductive invariant.
LEMMA SendHeaderInd ==
  ASSUME IndInv, NEW t \in Threads, SendHeader(t)
  PROVE  IndInv'
<1>1. TypeOK'
  BY SendHeaderType
<1>2. MutexInv'
  BY ClientAssumption DEF ClientAssumption, SendHeader, Write, TypeOK, ClientTypeOK, MutexInv,
     Locked
<1>3. CodecInv'
  BY DEF SendHeader, Write, TypeOK, ClientTypeOK, MutexInv, CodecInv, Locked, UsesCodec
<1>4. ConnInv'
  BY SendHeader_Server
<1>5. FrameInv'
  BY SendHeader_Server
<1>6. IdInv'
  BY DEF SendHeader, Write, TypeOK, ClientTypeOK, IdInv, Ids
<1>7. ExecInv'
  BY SendHeader_Server
<1>8. UnsentInv'
  BY SendHeader_Server
<1>9. ChannelInv'
  BY SendHeader_Server
<1>10. OutcomeInv'
  BY DEF SendHeader, Write, TypeOK, ClientTypeOK, ServerTypeOK, OutcomeInv, Ids
<1>11. NotifiedOnce'
  BY DEF SendHeader, Write, TypeOK, ClientTypeOK, ServerTypeOK, NotifiedOnce, ConnInv, Conns
<1> QED BY <1>1, <1>2, <1>3, <1>4, <1>5, <1>6, <1>7, <1>8, <1>9, <1>10, <1>11

\* A payload completes the header the same call just wrote.
LEMMA SendPayload_Facts ==
  ASSUME IndInv, NEW t \in Threads, SendPayload(t)
  PROVE  /\ toSrv[conn] = HeaderOnly(id[t]) /\ toCli[conn] = <<>> /\ stage[conn] = "reading"
         /\ toSrv' = [toSrv EXCEPT ![conn] = Frame(id[t])]
<1>1. conn \in Conns /\ conn # 0 /\ id[t] \in Nat
  BY Sending_Facts DEF SendPayload
<1>2. toSrv[conn] = HeaderOnly(id[t]) /\ toCli[conn] = <<>> /\ stage[conn] = "reading"
  BY DEF SendPayload, ChannelInv, Outstanding
<1> QED BY <1>1, <1>2, WriteFacts DEF SendPayload, Write

\* SendPayload keeps the types.
LEMMA SendPayloadType == ASSUME TypeOK, NEW t \in Threads, SendPayload(t) PROVE TypeOK'
<1>1. ClientTypeOK' BY DEF SendPayload, Write, TypeOK, ClientTypeOK, PCs, Ids
<1>2. AttemptOK' BY DEF SendPayload, Write, TypeOK, AttemptOK
<1>3. ServerTypeOK' BY WriteType DEF SendPayload, TypeOK
<1> QED BY <1>1, <1>2, <1>3 DEF TypeOK

\* SendPayload keeps what is known of connections, requests in transit and executions.
LEMMA SendPayload_Server ==
  ASSUME IndInv, NEW t \in Threads, SendPayload(t)
  PROVE  ConnInv' /\ FrameInv' /\ ExecInv' /\ UnsentInv' /\ ChannelInv'
<1>1. /\ conn \in Conns /\ id[t] \in Ids /\ id[t] \in Nat /\ id[t] # 0 /\ mutex = t
      /\ \A u \in Threads : pc[u] \in Locked => u = t
  BY Sending_Facts DEF SendPayload, Ids
<1>2. /\ toSrv[conn] = HeaderOnly(id[t]) /\ toCli[conn] = <<>> /\ stage[conn] = "reading"
      /\ toSrv' = [toSrv EXCEPT ![conn] = Frame(id[t])]
      /\ toSrv \in [Conns -> Seq(Parts)]
  BY SendPayload_Facts DEF TypeOK, ServerTypeOK
<1>3. /\ UNCHANGED <<conn, nextId, id, opened, srv, stage, request, toCli, executed, notified>>
      /\ srv[conn] = "open"
      /\ pc' = [pc EXCEPT ![t] = "recv"] /\ pc[t] = "send_payload"
  BY DEF SendPayload, Write
<1>4. \A c \in Conns : toSrv'[c] = IF c = conn THEN Frame(id[t]) ELSE toSrv[c]
  BY <1>2
<1>5. ConnInv'
  <2>1. ~(conn > opened)
    BY <1>1, <1>3 DEF ConnInv
  <2> QED BY <1>2, <1>3, <1>4, <2>1 DEF ConnInv, Quiet
<1>6. FrameInv'
  BY <1>1, <1>3, <1>4 DEF FrameInv, Ids
<1>7. executed[id[t]] = 0 /\ \A c \in Conns : ~Deliverable(c, id[t])
  BY <1>1, <1>3 DEF UnsentInv
<1>8. \A c \in Conns : \A i \in Ids :
        Deliverable(c, i)' <=> (Deliverable(c, i) \/ (c = conn /\ i = id[t]))
  <2>1. \A i \in Ids : /\ i \in Nat /\ HeaderOnly(id[t]) # Frame(i)
                       /\ Frame(id[t]) = Frame(i) => id[t] = i
    BY <1>1, FrameFacts DEF Ids, TypeOK, ClientTypeOK
  <2> QED BY <1>2, <1>3, <1>4, <2>1 DEF Deliverable
<1>9. ExecInv'
  <2>1. Ids' = Ids
    BY <1>3 DEF Ids
  <2>2. \A i \in Ids : \A c \in Conns : Deliverable(c, i)' =>
          /\ executed[i] = 0
          /\ \A d \in Conns : Deliverable(d, i)' => c = d
    BY <1>1, <1>7, <1>8 DEF ExecInv
  <2> QED BY <1>3, <2>1, <2>2 DEF ExecInv
<1>10. UnsentInv'
  <2>1. \A u \in Threads : id[u] # 0 => id[u] \in Ids
    BY DEF TypeOK, ClientTypeOK, Ids
  <2>2. ASSUME NEW u \in Threads, id[u] # 0,
               pc'[u] \in {"sleep", "dial", "send_header", "send_payload", "callback_retry"}
        PROVE  /\ u # t /\ id[u] # id[t] /\ executed[id[u]] = 0
               /\ \A c \in Conns : ~Deliverable(c, id[u])
    <3>1. u # t
      BY <1>3, <2>2 DEF TypeOK, ClientTypeOK
    <3> QED BY <1>3, <2>2, <3>1 DEF UnsentInv, IdInv, TypeOK, ClientTypeOK
  <2>3. ASSUME NEW u \in Threads, id[u] # 0,
               pc'[u] \in {"sleep", "dial", "send_header", "send_payload", "callback_retry"}
        PROVE  (\A c \in Conns : ~Deliverable(c, id[u]))'
    BY <1>3, <1>8, <2>1, <2>2, <2>3 DEF Deliverable
  <2> QED BY <1>3, <2>2, <2>3 DEF UnsentInv
<1>11. ChannelInv'
  <2>1. ASSUME NEW u \in Threads PROVE Outstanding(u)'
    <3>1. CASE u = t
      BY <1>1, <1>2, <1>3, <1>4, <3>1 DEF Outstanding, TypeOK, ClientTypeOK
    <3>2. CASE u # t
      BY <1>1, <1>3, <3>2 DEF Outstanding, Locked, TypeOK, ClientTypeOK
    <3> QED BY <3>1, <3>2
  <2>2. pc'[t] = "recv"
    BY <1>3 DEF TypeOK, ClientTypeOK
  <2> QED BY <2>1, <2>2 DEF ChannelInv
<1> QED BY <1>5, <1>6, <1>9, <1>10, <1>11

\* SendPayload keeps the inductive invariant.
LEMMA SendPayloadInd ==
  ASSUME IndInv, NEW t \in Threads, SendPayload(t)
  PROVE  IndInv'
<1>1. TypeOK'
  BY SendPayloadType
<1>2. MutexInv'
  BY ClientAssumption DEF ClientAssumption, SendPayload, Write, TypeOK, ClientTypeOK, MutexInv,
     Locked
<1>3. CodecInv'
  BY DEF SendPayload, Write, TypeOK, ClientTypeOK, MutexInv, CodecInv, Locked, UsesCodec
<1>4. ConnInv'
  BY SendPayload_Server
<1>5. FrameInv'
  BY SendPayload_Server
<1>6. IdInv'
  BY DEF SendPayload, Write, TypeOK, ClientTypeOK, IdInv, Ids
<1>7. ExecInv'
  BY SendPayload_Server
<1>8. UnsentInv'
  BY SendPayload_Server
<1>9. ChannelInv'
  BY SendPayload_Server
<1>10. OutcomeInv'
  BY DEF SendPayload, Write, TypeOK, ClientTypeOK, ServerTypeOK, OutcomeInv, Ids
<1>11. NotifiedOnce'
  BY DEF SendPayload, Write, TypeOK, ClientTypeOK, ServerTypeOK, NotifiedOnce, ConnInv, Conns
<1> QED BY <1>1, <1>2, <1>3, <1>4, <1>5, <1>6, <1>7, <1>8, <1>9, <1>10, <1>11

\* SendFail keeps the types.
LEMMA SendFailType == ASSUME TypeOK, NEW t \in Threads, SendFail(t) PROVE TypeOK'
<1>1. ClientTypeOK'
  <2>1. pc' \in [Threads -> PCs]
    BY DEF SendFail, AfterSendFailure, TypeOK, ClientTypeOK, PCs
  <2> QED BY <2>1, LoseType, ClientAssumption DEF SendFail, TypeOK, ClientTypeOK, Ids
<1>2. AttemptOK' BY DEF SendFail, TypeOK, AttemptOK
<1>3. ServerTypeOK' BY DEF SendFail, TypeOK, ServerTypeOK, server, Ids
<1> QED BY <1>1, <1>2, <1>3 DEF TypeOK

\* SendFail keeps the inductive invariant.
LEMMA SendFailInd ==
  ASSUME IndInv, NEW t \in Threads, SendFail(t)
  PROVE  IndInv'
<1>1. TypeOK'
  BY SendFailType
<1>2. MutexInv'
  BY ClientAssumption DEF ClientAssumption, SendFail, LoseConnection, AfterSendFailure, TypeOK,
     ClientTypeOK, MutexInv, Locked, server
<1>3. CodecInv'
  BY DEF SendFail, LoseConnection, AfterSendFailure, TypeOK, ClientTypeOK, MutexInv, CodecInv,
     Locked, UsesCodec, server
<1>4. ConnInv'
  BY Lose_ConnInv DEF SendFail
<1>5. FrameInv'
  BY DEF SendFail, LoseConnection, AfterSendFailure, FrameInv, Ids, server
<1>6. IdInv'
  BY DEF SendFail, LoseConnection, AfterSendFailure, TypeOK, ClientTypeOK, IdInv, Ids, server
<1>7. ExecInv'
  BY DEF SendFail, LoseConnection, AfterSendFailure, TypeOK, ClientTypeOK, ServerTypeOK,
     ExecInv, Deliverable, Ids, server
<1>8. UnsentInv'
  BY DEF SendFail, LoseConnection, AfterSendFailure, TypeOK, ClientTypeOK, ServerTypeOK,
     UnsentInv, Deliverable, Ids, server
<1>9. ChannelInv'
  BY DEF SendFail, LoseConnection, AfterSendFailure, TypeOK, ClientTypeOK, ServerTypeOK,
     MutexInv, Locked, ChannelInv, Outstanding, Quiet, server
<1>10. OutcomeInv'
  BY DEF SendFail, LoseConnection, AfterSendFailure, TypeOK, ClientTypeOK, ServerTypeOK,
     OutcomeInv, Ids, server
<1>11. NotifiedOnce'
  BY DEF SendFail, LoseConnection, AfterSendFailure, TypeOK, ClientTypeOK, ServerTypeOK,
     NotifiedOnce, ConnInv, Conns, server
<1> QED BY <1>1, <1>2, <1>3, <1>4, <1>5, <1>6, <1>7, <1>8, <1>9, <1>10, <1>11

\* The response a call reads is its own, and its handler ran.
LEMMA RecvReply_Facts ==
  ASSUME IndInv, NEW t \in Threads, RecvReply(t)
  PROVE  /\ conn \in Conns /\ id[t] \in Ids /\ mutex = t
         /\ toCli[conn] = <<id[t]>> /\ toSrv[conn] = <<>> /\ stage[conn] = "reading"
         /\ executed[id[t]] = 1
         /\ Head(toCli[conn]) = id[t] /\ Tail(toCli[conn]) = <<>>
<1>1. conn \in Conns /\ mutex = t
  BY ClientAssumption DEF ClientAssumption, RecvReply, CodecInv, UsesCodec, MutexInv, Locked,
     TypeOK, ClientTypeOK, Conns
<1>2. id[t] \in Ids
  BY DEF RecvReply, IdInv, TypeOK, ClientTypeOK, Ids
<1>3. /\ toCli[conn] = <<id[t]>> /\ toSrv[conn] = <<>>
      /\ stage[conn] = "reading" /\ executed[id[t]] = 1
  BY DEF RecvReply, ChannelInv, Outstanding, Quiet
<1>4. Head(<<id[t]>>) = id[t] /\ Tail(<<id[t]>>) = <<>>
  OBVIOUS
<1> QED BY <1>1, <1>2, <1>3, <1>4

\* RecvReply keeps the types.
LEMMA RecvReplyType == ASSUME TypeOK, NEW t \in Threads, RecvReply(t) PROVE TypeOK'
<1>1. ClientTypeOK' /\ AttemptOK'
  BY ReturnType DEF RecvReply, TypeOK
<1>2. ServerTypeOK'
  <2>1. toCli' \in [Conns -> Seq(Nat)]
    <3>1. /\ toCli \in [Conns -> Seq(Nat)] /\ toCli[conn] # <<>>
          /\ toCli' = [toCli EXCEPT ![conn] = Tail(toCli[conn])]
      BY DEF RecvReply, TypeOK, ServerTypeOK
    <3>2. conn \in Conns => Tail(toCli[conn]) \in Seq(Nat)
      BY <3>1, HeadTailProperties
    <3> QED BY <3>1, <3>2
  <2> QED BY <2>1 DEF RecvReply, TypeOK, ServerTypeOK, Ids
<1> QED BY <1>1, <1>2 DEF TypeOK

\* RecvReply keeps ChannelInv: that the request in progress is alone on its connection.
LEMMA RecvReply_ChannelInv ==
  ASSUME IndInv, NEW t \in Threads, RecvReply(t)
  PROVE  ChannelInv'
<1>1. ASSUME NEW u \in Threads PROVE Outstanding(u)'
  BY DEF RecvReply, Return, TypeOK, ClientTypeOK, MutexInv, Locked, Outstanding
<1>2. Quiet(conn)'
  BY RecvReply_Facts DEF RecvReply, Quiet, TypeOK, ServerTypeOK
<1> QED BY <1>1, <1>2 DEF ChannelInv

\* RecvReply keeps OutcomeInv: that only an executed request succeeds.
LEMMA RecvReply_OutcomeInv ==
  ASSUME IndInv, NEW t \in Threads, RecvReply(t)
  PROVE  OutcomeInv'
<1>1. Head(toCli[conn]) = id[t] /\ executed[id[t]] = 1 /\ id[t] # 0
  BY RecvReply_Facts DEF Ids
<1>2. outcome' = [outcome EXCEPT ![id[t]] = "ok"]
  BY <1>1 DEF RecvReply, Return
<1> QED BY <1>1, <1>2 DEF RecvReply, OutcomeInv, TypeOK, ClientTypeOK, Ids

\* RecvReply keeps the inductive invariant.
LEMMA RecvReplyInd ==
  ASSUME IndInv, NEW t \in Threads, RecvReply(t)
  PROVE  IndInv'
<1>1. TypeOK'
  BY RecvReplyType
<1>2. MutexInv'
  BY ClientAssumption DEF ClientAssumption, RecvReply, Return, TypeOK, ClientTypeOK, MutexInv,
     Locked
<1>3. CodecInv'
  BY DEF RecvReply, Return, TypeOK, ClientTypeOK, MutexInv, CodecInv, Locked, UsesCodec
<1>4. ConnInv'
  BY DEF RecvReply, Return, TypeOK, ClientTypeOK, ServerTypeOK, ConnInv, Quiet
<1>5. FrameInv'
  BY DEF RecvReply, Return, FrameInv, Ids
<1>6. IdInv'
  BY DEF RecvReply, Return, TypeOK, ClientTypeOK, IdInv, Ids
<1>7. ExecInv'
  BY DEF RecvReply, Return, TypeOK, ClientTypeOK, ServerTypeOK, ExecInv, Deliverable, Ids
<1>8. UnsentInv'
  BY DEF RecvReply, Return, TypeOK, ClientTypeOK, ServerTypeOK, UnsentInv, Deliverable, Ids
<1>9. ChannelInv'
  BY RecvReply_ChannelInv
<1>10. OutcomeInv'
  BY RecvReply_OutcomeInv
<1>11. NotifiedOnce'
  BY DEF RecvReply, Return, TypeOK, ClientTypeOK, ServerTypeOK, NotifiedOnce, ConnInv, Conns
<1> QED BY <1>1, <1>2, <1>3, <1>4, <1>5, <1>6, <1>7, <1>8, <1>9, <1>10, <1>11

\* RecvFail keeps the types.
LEMMA RecvFailType == ASSUME TypeOK, NEW t \in Threads, RecvFail(t) PROVE TypeOK'
<1>1. ClientTypeOK'
  <2>1. pc' \in [Threads -> PCs]
    BY DEF RecvFail, AfterRecvFailure, TypeOK, ClientTypeOK, PCs
  <2> QED BY <2>1, LoseType, ClientAssumption DEF RecvFail, TypeOK, ClientTypeOK, Ids
<1>2. AttemptOK' BY DEF RecvFail, TypeOK, AttemptOK
<1>3. ServerTypeOK' BY DEF RecvFail, TypeOK, ServerTypeOK, server, Ids
<1> QED BY <1>1, <1>2, <1>3 DEF TypeOK

\* RecvFail keeps the inductive invariant.
LEMMA RecvFailInd ==
  ASSUME IndInv, NEW t \in Threads, RecvFail(t)
  PROVE  IndInv'
<1>1. TypeOK'
  BY RecvFailType
<1>2. MutexInv'
  BY ClientAssumption DEF ClientAssumption, RecvFail, LoseConnection, AfterRecvFailure, TypeOK,
     ClientTypeOK, MutexInv, Locked, server
<1>3. CodecInv'
  BY DEF RecvFail, LoseConnection, AfterRecvFailure, TypeOK, ClientTypeOK, MutexInv, CodecInv,
     Locked, UsesCodec, server
<1>4. ConnInv'
  BY Lose_ConnInv DEF RecvFail
<1>5. FrameInv'
  BY DEF RecvFail, LoseConnection, AfterRecvFailure, FrameInv, Ids, server
<1>6. IdInv'
  BY DEF RecvFail, LoseConnection, AfterRecvFailure, TypeOK, ClientTypeOK, IdInv, Ids, server
<1>7. ExecInv'
  BY DEF RecvFail, LoseConnection, AfterRecvFailure, TypeOK, ClientTypeOK, ServerTypeOK,
     ExecInv, Deliverable, Ids, server
<1>8. UnsentInv'
  BY DEF RecvFail, LoseConnection, AfterRecvFailure, TypeOK, ClientTypeOK, ServerTypeOK,
     UnsentInv, Deliverable, Ids, server
<1>9. ChannelInv'
  BY DEF RecvFail, LoseConnection, AfterRecvFailure, TypeOK, ClientTypeOK, ServerTypeOK,
     MutexInv, Locked, ChannelInv, Outstanding, Quiet, server
<1>10. OutcomeInv'
  BY DEF RecvFail, LoseConnection, AfterRecvFailure, TypeOK, ClientTypeOK, ServerTypeOK,
     OutcomeInv, Ids, server
<1>11. NotifiedOnce'
  BY DEF RecvFail, LoseConnection, AfterRecvFailure, TypeOK, ClientTypeOK, ServerTypeOK,
     NotifiedOnce, ConnInv, Conns, server
<1> QED BY <1>1, <1>2, <1>3, <1>4, <1>5, <1>6, <1>7, <1>8, <1>9, <1>10, <1>11

\* AfterCallback keeps the types.
LEMMA AfterCallbackType == ASSUME TypeOK, NEW t \in Threads, AfterCallback(t) PROVE TypeOK'
<1>1. ClientTypeOK' /\ AttemptOK'
  BY RetryType, ReturnType DEF AfterCallback, TypeOK
<1>2. ServerTypeOK'
  BY DEF AfterCallback, TypeOK, ServerTypeOK, Ids, server
<1> QED BY <1>1, <1>2 DEF TypeOK

\* AfterCallback keeps IdInv: that ids belong to one thread.
LEMMA AfterCallback_IdInv ==
  ASSUME IndInv, NEW t \in Threads, AfterCallback(t)
  PROVE  IdInv'
<1>1. CASE Return(t, "error")
  BY <1>1 DEF AfterCallback, Return, TypeOK, ClientTypeOK, IdInv, Ids
<1>2. CASE pc' = [pc EXCEPT ![t] = "sleep"] /\ UNCHANGED <<id, resent, outcome>>
  BY <1>2 DEF AfterCallback, TypeOK, ClientTypeOK, IdInv, Ids
<1> QED BY <1>1, <1>2 DEF AfterCallback, StartRetrying

\* AfterCallback keeps the inductive invariant.
LEMMA AfterCallbackInd ==
  ASSUME IndInv, NEW t \in Threads, AfterCallback(t)
  PROVE  IndInv'
<1>1. TypeOK'
  BY AfterCallbackType
<1>2. MutexInv'
  BY ClientAssumption DEF ClientAssumption, AfterCallback, StartRetrying, Return, MayRetry,
     TypeOK, ClientTypeOK, MutexInv, Locked, server
<1>3. CodecInv'
  BY DEF AfterCallback, StartRetrying, Return, MayRetry, TypeOK, ClientTypeOK, MutexInv,
     CodecInv, Locked, UsesCodec, server
<1>4. ConnInv'
  BY DEF AfterCallback, StartRetrying, Return, MayRetry, TypeOK, ClientTypeOK, ServerTypeOK,
     ConnInv, Quiet, server
<1>5. FrameInv'
  BY DEF AfterCallback, StartRetrying, Return, MayRetry, FrameInv, Ids, server
<1>6. IdInv'
  BY AfterCallback_IdInv
<1>7. ExecInv'
  BY DEF AfterCallback, StartRetrying, Return, MayRetry, TypeOK, ClientTypeOK, ServerTypeOK,
     ExecInv, Deliverable, Ids, server
<1>8. UnsentInv'
  BY DEF AfterCallback, StartRetrying, Return, MayRetry, TypeOK, ClientTypeOK, ServerTypeOK,
     UnsentInv, Deliverable, Ids, server
<1>9. ChannelInv'
  <2>1. CASE Return(t, "error")
    BY <2>1 DEF AfterCallback, Return, TypeOK, ClientTypeOK, MutexInv, Locked, ChannelInv,
       Outstanding, Quiet, server
  <2>2. CASE /\ pc' = [pc EXCEPT ![t] = "sleep"]
             /\ UNCHANGED <<mutex, id, resent, outcome>>
    BY <2>2 DEF AfterCallback, TypeOK, ClientTypeOK, MutexInv, Locked, ChannelInv, Outstanding,
       Quiet, server
  <2> QED BY <2>1, <2>2 DEF AfterCallback, StartRetrying
<1>10. OutcomeInv'
  BY DEF AfterCallback, StartRetrying, Return, MayRetry, TypeOK, ClientTypeOK, ServerTypeOK,
     OutcomeInv, Ids, server
<1>11. NotifiedOnce'
  BY DEF AfterCallback, StartRetrying, Return, MayRetry, TypeOK, ClientTypeOK, ServerTypeOK,
     NotifiedOnce, ConnInv, Conns, server
<1> QED BY <1>1, <1>2, <1>3, <1>4, <1>5, <1>6, <1>7, <1>8, <1>9, <1>10, <1>11

\* Connect keeps the types.
LEMMA ConnectType == ASSUME TypeOK, NEW t \in Threads, Connect(t) PROVE TypeOK'
<1>1. ClientTypeOK' /\ AttemptOK'
  BY OpenType, ClientAssumption DEF Connect, TypeOK, ClientTypeOK, AttemptOK, Ids
<1>2. ServerTypeOK'
  BY OpenType, ClientAssumption DEF Connect, TypeOK, ServerTypeOK, Ids
<1> QED BY <1>1, <1>2 DEF TypeOK

\* Connect keeps ConnInv: the bookkeeping of connections.
LEMMA Connect_ConnInv ==
  ASSUME IndInv, NEW t \in Threads, Connect(t)
  PROVE  ConnInv'
<1>1. opened \in Nat /\ MaxConns \in Nat /\ opened + 1 \in Conns
  BY ClientAssumption DEF ClientAssumption, Connect, CanDial, TypeOK, ServerTypeOK, Conns
<1>2. conn' <= opened'
  BY <1>1 DEF Connect, OpenConnection
<1>3. conn' # 0 => notified'[conn'] = 0
  BY <1>1 DEF Connect, OpenConnection, ConnInv
<1>4. ASSUME NEW c \in Conns
      PROVE  /\ srv'[c] = "unused" <=> c > opened'
             /\ c > opened' => Quiet(c)' /\ notified'[c] = 0
             /\ stage'[c] # "reading" => request'[c] # 0 /\ toSrv'[c] = <<>>
  <2>1. c \in Nat /\ opened' = opened + 1
    BY DEF Connect, OpenConnection, Conns
  <2>2. UNCHANGED <<toSrv, toCli, stage, request, notified>>
    BY DEF Connect
  <2>3. /\ srv' = [srv EXCEPT ![opened + 1] = "open"]
        /\ srv \in [Conns -> {"unused", "open", "closed"}]
    BY DEF Connect, OpenConnection, TypeOK, ServerTypeOK
  <2>4. CASE c = opened + 1
    BY <1>1, <2>1, <2>2, <2>3, <2>4 DEF ConnInv, Quiet
  <2>5. CASE c # opened + 1
    <3>1. srv'[c] = srv[c] /\ (c > opened' <=> c > opened)
      BY <1>1, <2>1, <2>3, <2>5
    <3> QED BY <2>2, <3>1 DEF ConnInv, Quiet
  <2> QED BY <2>4, <2>5
<1> QED BY <1>2, <1>3, <1>4 DEF ConnInv

\* Connect keeps ChannelInv: that the request in progress is alone on its connection.
LEMMA Connect_ChannelInv ==
  ASSUME IndInv, NEW t \in Threads, Connect(t)
  PROVE  ChannelInv'
<1>0. conn' \in Conns /\ conn' # 0 /\ Quiet(conn')
  BY Opened_Quiet DEF Connect
<1>1. ASSUME NEW u \in Threads PROVE Outstanding(u)'
  <2>1. mutex = None /\ None \notin Threads
    BY ClientAssumption DEF ClientAssumption, Connect, MayUseClient
  <2>2. pc[u] \notin Locked
    BY <2>1 DEF MutexInv
  <2> QED BY <2>2 DEF Connect, Locked, Outstanding
<1>2. Quiet(conn)'
  BY <1>0 DEF Connect, Quiet
<1> QED BY <1>1, <1>2 DEF ChannelInv

\* Connect keeps the inductive invariant.
LEMMA ConnectInd ==
  ASSUME IndInv, NEW t \in Threads, Connect(t)
  PROVE  IndInv'
<1>1. TypeOK'
  BY ConnectType
<1>2. MutexInv'
  BY ClientAssumption DEF ClientAssumption, Connect, CanDial, OpenConnection, MayUseClient,
     TypeOK, ClientTypeOK, MutexInv, Locked
<1>3. CodecInv'
  BY DEF Connect, CanDial, OpenConnection, MayUseClient, TypeOK, ClientTypeOK, MutexInv,
     CodecInv, Locked, UsesCodec
<1>4. ConnInv'
  BY Connect_ConnInv
<1>5. FrameInv'
  BY DEF Connect, CanDial, OpenConnection, MayUseClient, FrameInv, Ids
<1>6. IdInv'
  BY DEF Connect, CanDial, OpenConnection, MayUseClient, TypeOK, ClientTypeOK, IdInv, Ids
<1>7. ExecInv'
  BY DEF Connect, CanDial, OpenConnection, MayUseClient, TypeOK, ClientTypeOK, ServerTypeOK,
     ExecInv, Deliverable, Ids
<1>8. UnsentInv'
  BY DEF Connect, CanDial, OpenConnection, MayUseClient, TypeOK, ClientTypeOK, ServerTypeOK,
     UnsentInv, Deliverable, Ids
<1>9. ChannelInv'
  BY Connect_ChannelInv
<1>10. OutcomeInv'
  BY DEF Connect, CanDial, OpenConnection, MayUseClient, TypeOK, ClientTypeOK, ServerTypeOK,
     OutcomeInv, Ids
<1>11. NotifiedOnce'
  BY DEF Connect, CanDial, OpenConnection, MayUseClient, TypeOK, ClientTypeOK, ServerTypeOK,
     NotifiedOnce, ConnInv, Conns
<1> QED BY <1>1, <1>2, <1>3, <1>4, <1>5, <1>6, <1>7, <1>8, <1>9, <1>10, <1>11

\* Disconnect keeps the types.
LEMMA DisconnectType == ASSUME TypeOK, NEW t \in Threads, Disconnect(t) PROVE TypeOK'
<1>1. conn' \in 0..MaxConns
  BY ClientAssumption DEF ClientAssumption, Disconnect
<1>2. ClientTypeOK' /\ AttemptOK'
  BY <1>1 DEF Disconnect, TypeOK, ClientTypeOK, AttemptOK, Ids
<1>3. ServerTypeOK'
  BY DEF Disconnect, TypeOK, ServerTypeOK, Ids, server
<1> QED BY <1>2, <1>3 DEF TypeOK

\* Disconnect keeps the inductive invariant.
LEMMA DisconnectInd ==
  ASSUME IndInv, NEW t \in Threads, Disconnect(t)
  PROVE  IndInv'
<1>1. TypeOK'
  BY DisconnectType
<1>2. MutexInv'
  BY ClientAssumption DEF ClientAssumption, Disconnect, MayUseClient, TypeOK, ClientTypeOK,
     MutexInv, Locked, server
<1>3. CodecInv'
  <2>1. \A u \in Threads : pc[u] \notin Locked
    BY ClientAssumption DEF ClientAssumption, Disconnect, MayUseClient, MutexInv
  <2> QED BY <2>1 DEF Disconnect, CodecInv, Locked, UsesCodec
<1>4. ConnInv'
  BY DEF Disconnect, MayUseClient, TypeOK, ClientTypeOK, ServerTypeOK, ConnInv, Quiet, server
<1>5. FrameInv'
  BY DEF Disconnect, MayUseClient, FrameInv, Ids, server
<1>6. IdInv'
  BY DEF Disconnect, MayUseClient, TypeOK, ClientTypeOK, IdInv, Ids, server
<1>7. ExecInv'
  BY DEF Disconnect, MayUseClient, TypeOK, ClientTypeOK, ServerTypeOK, ExecInv, Deliverable,
     Ids, server
<1>8. UnsentInv'
  BY DEF Disconnect, MayUseClient, TypeOK, ClientTypeOK, ServerTypeOK, UnsentInv, Deliverable,
     Ids, server
<1>9. ChannelInv'
  <2>1. \A u \in Threads : pc[u] \notin Locked
    BY ClientAssumption DEF ClientAssumption, Disconnect, MayUseClient, MutexInv
  <2> QED BY <2>1 DEF Disconnect, ChannelInv, Outstanding, Locked
<1>10. OutcomeInv'
  BY DEF Disconnect, MayUseClient, TypeOK, ClientTypeOK, ServerTypeOK, OutcomeInv, Ids, server
<1>11. NotifiedOnce'
  BY DEF Disconnect, MayUseClient, TypeOK, ClientTypeOK, ServerTypeOK, NotifiedOnce, ConnInv,
     Conns, server
<1> QED BY <1>1, <1>2, <1>3, <1>4, <1>5, <1>6, <1>7, <1>8, <1>9, <1>10, <1>11

\* What a handler reads is one whole frame.
LEMMA SrvTake_Facts ==
  ASSUME IndInv, NEW c \in Conns, SrvTake(c)
  PROVE  \E i \in Ids : /\ toSrv[c] = Frame(i)
                        /\ request' = [request EXCEPT ![c] = i]
                        /\ toSrv' = [toSrv EXCEPT ![c] = <<>>]
                        /\ stage' = [stage EXCEPT ![c] = "taken"]
                        /\ stage[c] = "reading" /\ srv[c] = "open"
<1>1. Len(<<>>) = 0
  OBVIOUS
<1>2. Len(toSrv[c]) >= 2
  BY DEF SrvTake
<1>3. PICK i \in Ids : toSrv[c] = HeaderOnly(i) \/ toSrv[c] = Frame(i)
  BY <1>1, <1>2 DEF FrameInv
<1>4. i \in Nat
  BY DEF Ids, TypeOK, ClientTypeOK
<1>5. toSrv[c] = Frame(i) /\ Len(toSrv[c]) = 2 /\ toSrv[c][2].id = i
  <2>1. Len(HeaderOnly(i)) = 1 /\ Len(Frame(i)) = 2 /\ Frame(i)[2].id = i
    BY <1>4, FrameFacts
  <2>2. toSrv[c] # HeaderOnly(i)
    BY <1>2, <2>1
  <2> QED BY <1>3, <2>1, <2>2
<1>6. SubSeq(toSrv[c], 3, Len(toSrv[c])) = <<>>
  BY <1>4, <1>5, WriteFacts
<1> QED BY <1>5, <1>6 DEF SrvTake

\* SrvTake keeps the types.
LEMMA SrvTakeType == ASSUME IndInv, NEW c \in Conns, SrvTake(c) PROVE TypeOK'
<1>1. PICK i \in Ids : /\ request' = [request EXCEPT ![c] = i]
                       /\ toSrv' = [toSrv EXCEPT ![c] = <<>>]
                       /\ stage' = [stage EXCEPT ![c] = "taken"]
  BY SrvTake_Facts
<1>2. ClientTypeOK' /\ AttemptOK'
  BY DEF SrvTake, TypeOK, ClientTypeOK, AttemptOK, Ids, client
<1>3. ServerTypeOK'
  <2>1. i \in 0..(nextId - 1)
    BY DEF Ids, TypeOK, ClientTypeOK
  <2>2. request' \in [Conns -> 0..(nextId - 1)]
    BY <1>1, <2>1 DEF TypeOK, ServerTypeOK
  <2>3. toSrv' \in [Conns -> Seq(Parts)]
    BY <1>1 DEF TypeOK, ServerTypeOK
  <2>4. stage' \in [Conns -> {"reading", "taken", "executed"}]
    BY <1>1 DEF TypeOK, ServerTypeOK
  <2> QED BY <2>2, <2>3, <2>4 DEF SrvTake, TypeOK, ServerTypeOK, Ids, client
<1> QED BY <1>2, <1>3 DEF TypeOK

\* SrvTake keeps what is known of connections, requests in transit and executions.
LEMMA SrvTake_Server ==
  ASSUME IndInv, NEW c \in Conns, SrvTake(c)
  PROVE  ConnInv' /\ FrameInv' /\ ExecInv' /\ UnsentInv' /\ ChannelInv'
<1>1. PICK i \in Ids : /\ toSrv[c] = Frame(i)
                       /\ request' = [request EXCEPT ![c] = i]
                       /\ toSrv' = [toSrv EXCEPT ![c] = <<>>]
                       /\ stage' = [stage EXCEPT ![c] = "taken"]
                       /\ stage[c] = "reading" /\ srv[c] = "open"
  BY SrvTake_Facts
<1>2. /\ i \in Nat /\ i # 0 /\ Frame(i) # <<>>
      /\ \A j \in Nat : HeaderOnly(j) # Frame(i) /\ (Frame(i) = Frame(j) => i = j)
  <2>1. i \in Nat /\ i # 0
    BY DEF Ids, TypeOK, ClientTypeOK
  <2> QED BY <2>1, FrameFacts
<1>3. UNCHANGED <<conn, nextId, id, pc, opened, srv, toCli, executed, notified>>
  BY DEF SrvTake, client
<1>4. \A d \in Conns : /\ request'[d] = IF d = c THEN i ELSE request[d]
                       /\ toSrv'[d] = IF d = c THEN <<>> ELSE toSrv[d]
                       /\ stage'[d] = IF d = c THEN "taken" ELSE stage[d]
  BY <1>1 DEF TypeOK, ServerTypeOK
<1>5. ConnInv'
  BY <1>1, <1>2, <1>3, <1>4 DEF ConnInv, Quiet
<1>6. FrameInv'
  BY <1>3, <1>4 DEF FrameInv, Ids
<1>7. \A d \in Conns : \A j \in Nat : Deliverable(d, j)' <=> Deliverable(d, j)
  BY <1>1, <1>2, <1>3, <1>4, FrameFacts DEF Deliverable
<1>8. Ids' = Ids /\ \A j \in Ids : j \in Nat
  BY <1>3 DEF Ids
<1>9. ExecInv'
  BY <1>3, <1>4, <1>7, <1>8 DEF ExecInv
<1>10. UnsentInv'
  <2>1. \A u \in Threads : id[u] \in Nat
    BY DEF TypeOK, ClientTypeOK
  <2>2. \A u \in Threads : (\A d \in Conns : ~Deliverable(d, id[u])) =>
                              (\A d \in Conns : ~Deliverable(d, id[u]))'
    BY <1>3, <1>7, <2>1 DEF Deliverable
  <2> QED BY <1>3, <2>2 DEF UnsentInv
<1>11. ChannelInv'
  <2>1. ASSUME NEW u \in Threads PROVE Outstanding(u)'
    <3>1. CASE conn = c /\ pc[u] = "recv"
      <4>1. toSrv[conn] = Frame(id[u]) /\ toCli[conn] = <<>>
        BY <1>1, <1>2, <3>1 DEF ChannelInv, Outstanding, Quiet
      <4>2. id[u] = i
        BY <1>1, <1>2, <3>1, <4>1 DEF TypeOK, ClientTypeOK
      <4> QED BY <1>3, <1>4, <3>1, <4>1, <4>2 DEF Outstanding
    <3>2. CASE conn = c /\ pc[u] = "send_payload"
      BY <1>1, <1>2, <3>2 DEF ChannelInv, Outstanding, TypeOK, ClientTypeOK
    <3>3. CASE conn # c
      <4>1. conn \in Conns \/ pc[u] \notin UsesCodec
        BY ClientAssumption DEF ClientAssumption, CodecInv, TypeOK, ClientTypeOK, Conns
      <4> QED BY <1>3, <1>4, <3>3, <4>1 DEF ChannelInv, Outstanding, UsesCodec, Quiet
    <3>4. CASE pc[u] \notin {"recv", "send_payload"}
      BY <1>3, <3>4 DEF Outstanding
    <3> QED BY <3>1, <3>2, <3>3, <3>4
  <2>2. (conn # 0 /\ \A u \in Threads : pc[u] \notin {"send_payload", "recv"}) => conn # c
    BY <1>1, <1>2 DEF ChannelInv, Quiet
  <2>3. conn # 0 => conn \in Conns
    BY ClientAssumption DEF ClientAssumption, TypeOK, ClientTypeOK, Conns
  <2> QED BY <1>3, <1>4, <2>1, <2>2, <2>3 DEF ChannelInv, Quiet
<1> QED BY <1>5, <1>6, <1>9, <1>10, <1>11

\* SrvTake keeps the inductive invariant.
LEMMA SrvTakeInd ==
  ASSUME IndInv, NEW c \in Conns, SrvTake(c)
  PROVE  IndInv'
<1>1. TypeOK'
  BY SrvTakeType
<1>2. MutexInv'
  BY DEF SrvTake, TypeOK, ClientTypeOK, MutexInv, Locked, client
<1>3. CodecInv'
  BY DEF SrvTake, TypeOK, ClientTypeOK, MutexInv, CodecInv, Locked, UsesCodec, client
<1>4. ConnInv'
  BY SrvTake_Server
<1>5. FrameInv'
  BY SrvTake_Server
<1>6. IdInv'
  BY DEF SrvTake, TypeOK, ClientTypeOK, IdInv, Ids, client
<1>7. ExecInv'
  BY SrvTake_Server
<1>8. UnsentInv'
  BY SrvTake_Server
<1>9. ChannelInv'
  BY SrvTake_Server
<1>10. OutcomeInv'
  BY DEF SrvTake, TypeOK, ClientTypeOK, ServerTypeOK, OutcomeInv, Ids, client
<1>11. NotifiedOnce'
  BY DEF SrvTake, TypeOK, ClientTypeOK, ServerTypeOK, NotifiedOnce, ConnInv, Conns, client
<1> QED BY <1>1, <1>2, <1>3, <1>4, <1>5, <1>6, <1>7, <1>8, <1>9, <1>10, <1>11

\* SrvExecute keeps the types.
LEMMA SrvExecuteType == ASSUME TypeOK, NEW c \in Conns, SrvExecute(c) PROVE TypeOK'
<1>1. ClientTypeOK' /\ AttemptOK'
  BY DEF SrvExecute, TypeOK, ClientTypeOK, AttemptOK, Ids, client
<1>2. ServerTypeOK'
  <2>1. stage' \in [Conns -> {"reading", "taken", "executed"}]
    BY DEF SrvExecute, TypeOK, ServerTypeOK
  <2>2. executed' \in [Ids -> Nat]
    <3>1. /\ executed \in [Ids -> Nat]
          /\ executed' = [executed EXCEPT ![request[c]] = executed[request[c]] + 1]
      BY DEF SrvExecute, TypeOK, ServerTypeOK
    <3>2. request[c] \in Ids => executed[request[c]] + 1 \in Nat
      BY <3>1
    <3> QED BY <3>1, <3>2
  <2> QED BY <2>1, <2>2 DEF SrvExecute, TypeOK, ServerTypeOK, Ids, client
<1> QED BY <1>1, <1>2 DEF TypeOK

\* SrvExecute keeps what is known of connections, requests in transit and executions.
LEMMA SrvExecute_Server ==
  ASSUME IndInv, NEW c \in Conns, SrvExecute(c)
  PROVE  ExecInv' /\ UnsentInv' /\ ChannelInv' /\ OutcomeInv'
<1> DEFINE r == request[c]
<1>1. /\ r \in Ids /\ Deliverable(c, r) /\ executed[r] = 0
      /\ \A d \in Conns : Deliverable(d, r) => c = d
  <2>1. r \in Ids
    BY DEF SrvExecute, ConnInv, TypeOK, ClientTypeOK, ServerTypeOK, Ids
  <2> QED BY <2>1 DEF SrvExecute, ExecInv, Deliverable
<1>2. /\ UNCHANGED <<conn, nextId, id, pc, outcome, srv, toSrv, request, toCli>>
      /\ stage' = [stage EXCEPT ![c] = "executed"] /\ stage[c] = "taken"
      /\ executed' = [executed EXCEPT ![r] = executed[r] + 1]
  BY DEF SrvExecute, client
<1>3. \A i \in Ids : executed'[i] = IF i = r THEN 1 ELSE executed[i]
  BY <1>1, <1>2 DEF TypeOK, ServerTypeOK
<1>4. \A d \in Conns : stage'[d] = IF d = c THEN "executed" ELSE stage[d]
  BY <1>2 DEF TypeOK, ServerTypeOK
<1>5. Ids' = Ids
  BY <1>2 DEF Ids
<1>6. toSrv[c] = <<>> /\ \A i \in Nat : Frame(i) # <<>>
  BY <1>2, FrameFacts DEF ConnInv
<1>7. \A i \in Ids : i \in Nat
  BY DEF Ids, TypeOK, ClientTypeOK
<1>8. \A d \in Conns : \A i \in Nat : Deliverable(d, i)' <=> Deliverable(d, i) /\ d # c
  BY <1>2, <1>4, <1>6 DEF Deliverable
<1>9. ExecInv'
  <2>1. \A d \in Conns : stage[d] = "executed" => request[d] \in Ids
    BY DEF ConnInv, TypeOK, ClientTypeOK, ServerTypeOK, Ids
  <2>2. \A d \in Conns : stage'[d] = "executed" => executed'[request'[d]] = 1
    BY <1>1, <1>2, <1>3, <1>4, <2>1 DEF ExecInv
  <2>3. \A i \in Ids : \A d \in Conns : Deliverable(d, i)' =>
          executed'[i] = 0 /\ \A e \in Conns : Deliverable(e, i)' => d = e
    BY <1>1, <1>3, <1>7, <1>8 DEF ExecInv
  <2> QED BY <1>3, <1>5, <2>2, <2>3 DEF ExecInv
<1>10. UnsentInv'
  <2> SUFFICES ASSUME NEW u \in Threads, id[u] # 0,
                      pc[u] \in {"sleep", "dial", "send_header", "send_payload", "callback_retry"}
               PROVE  executed'[id[u]] = 0 /\ (\A d \in Conns : ~Deliverable(d, id[u]))'
    BY <1>2 DEF UnsentInv
  <2>1. id[u] \in Ids /\ executed[id[u]] = 0 /\ \A d \in Conns : ~Deliverable(d, id[u])
    BY DEF UnsentInv, TypeOK, ClientTypeOK, Ids
  <2>2. id[u] # r
    BY <1>1, <2>1
  <2>3. (\A d \in Conns : ~Deliverable(d, id[u]))'
    BY <1>2, <1>7, <1>8, <2>1 DEF Deliverable
  <2> QED BY <1>3, <2>1, <2>2, <2>3
<1>11. ChannelInv'
  <2>1. ASSUME NEW u \in Threads PROVE Outstanding(u)'
    <3>1. pc[u] = "recv" => id[u] \in Ids
      BY DEF IdInv, TypeOK, ClientTypeOK, Ids
    <3>2. conn \in Conns \/ pc[u] \notin UsesCodec
      BY ClientAssumption DEF ClientAssumption, CodecInv, TypeOK, ClientTypeOK, Conns
    <3> QED BY <1>2, <1>3, <1>4, <3>1, <3>2 DEF ChannelInv, Outstanding, UsesCodec, Quiet
  <2>2. conn # 0 => conn \in Conns
    BY ClientAssumption DEF ClientAssumption, TypeOK, ClientTypeOK, Conns
  <2> QED BY <1>2, <1>4, <2>1, <2>2 DEF ChannelInv, Quiet
<1>12. OutcomeInv'
  BY <1>2, <1>3, <1>5 DEF OutcomeInv
<1> QED BY <1>9, <1>10, <1>11, <1>12

\* SrvExecute keeps the inductive invariant.
LEMMA SrvExecuteInd ==
  ASSUME IndInv, NEW c \in Conns, SrvExecute(c)
  PROVE  IndInv'
<1>1. TypeOK'
  BY SrvExecuteType
<1>2. MutexInv'
  BY DEF SrvExecute, TypeOK, ClientTypeOK, MutexInv, Locked, client
<1>3. CodecInv'
  BY DEF SrvExecute, TypeOK, ClientTypeOK, MutexInv, CodecInv, Locked, UsesCodec, client
<1>4. ConnInv'
  BY DEF SrvExecute, TypeOK, ClientTypeOK, ServerTypeOK, ConnInv, Quiet, client
<1>5. FrameInv'
  BY DEF SrvExecute, FrameInv, Ids, client
<1>6. IdInv'
  BY DEF SrvExecute, TypeOK, ClientTypeOK, IdInv, Ids, client
<1>7. ExecInv'
  BY SrvExecute_Server
<1>8. UnsentInv'
  BY SrvExecute_Server
<1>9. ChannelInv'
  BY SrvExecute_Server
<1>10. OutcomeInv'
  BY SrvExecute_Server
<1>11. NotifiedOnce'
  BY DEF SrvExecute, TypeOK, ClientTypeOK, ServerTypeOK, NotifiedOnce, ConnInv, Conns, client
<1> QED BY <1>1, <1>2, <1>3, <1>4, <1>5, <1>6, <1>7, <1>8, <1>9, <1>10, <1>11

\* SrvReply keeps the types.
LEMMA SrvReplyType == ASSUME TypeOK, NEW c \in Conns, SrvReply(c) PROVE TypeOK'
<1>1. ClientTypeOK' /\ AttemptOK'
  BY DEF SrvReply, TypeOK, ClientTypeOK, AttemptOK, Ids, client
<1>2. ServerTypeOK'
  <2>1. stage' \in [Conns -> {"reading", "taken", "executed"}]
    BY DEF SrvReply, TypeOK, ServerTypeOK
  <2>2. srv' \in [Conns -> {"unused", "open", "closed"}]
    BY DEF SrvReply, TypeOK, ServerTypeOK
  <2>3. request[c] \in Nat
    BY DEF TypeOK, ClientTypeOK, ServerTypeOK
  <2>4. toCli' \in [Conns -> Seq(Nat)]
    <3>1. toCli \in [Conns -> Seq(Nat)] /\ Append(toCli[c], request[c]) \in Seq(Nat)
      BY <2>3, AppendProperties DEF TypeOK, ServerTypeOK
    <3> QED BY <3>1 DEF SrvReply
  <2> QED BY <2>1, <2>2, <2>4 DEF SrvReply, TypeOK, ServerTypeOK, Ids, client
<1> QED BY <1>1, <1>2 DEF TypeOK

\* SrvReply keeps ChannelInv: that the request in progress is alone on its connection.
LEMMA SrvReply_ChannelInv ==
  ASSUME IndInv, NEW c \in Conns, SrvReply(c)
  PROVE  ChannelInv'
<1>1. /\ UNCHANGED <<conn, id, pc, toSrv, request, executed>>
      /\ stage' = [stage EXCEPT ![c] = "reading"] /\ stage[c] = "executed"
      /\ executed[request[c]] = 1
  BY DEF SrvReply, client, ExecInv
<1>2. \A d \in Conns : stage'[d] = IF d = c THEN "reading" ELSE stage[d]
  BY <1>1 DEF TypeOK, ServerTypeOK
<1>3. toSrv[c] = <<>>
  BY <1>1 DEF ConnInv
<1>4. \A d \in Conns : d # c => toCli'[d] = toCli[d] /\ (srv[d] = "closed" => srv'[d] = "closed")
  BY DEF SrvReply, TypeOK, ServerTypeOK
<1>5. conn # 0 => conn \in Conns
  BY ClientAssumption DEF ClientAssumption, TypeOK, ClientTypeOK, Conns
<1>6. ASSUME NEW u \in Threads PROVE Outstanding(u)'
  <2>1. CASE conn = c /\ pc[u] = "recv"
    <3>1. toCli[c] = <<>> /\ request[c] = id[u] /\ executed[id[u]] = 1
      BY <1>1, <2>1 DEF ChannelInv, Outstanding, Quiet
    <3>2. CASE srv[c] = "open"
      <4>1. toCli' = [toCli EXCEPT ![c] = Append(toCli[c], request[c])]
        BY <2>1, <3>2 DEF SrvReply
      <4>2. Append(<<>>, request[c]) = <<request[c]>>
        OBVIOUS
      <4>3. toCli'[c] = <<id[u]>>
        BY <3>1, <4>1, <4>2 DEF TypeOK, ServerTypeOK
      <4> QED BY <1>1, <1>2, <1>3, <2>1, <3>1, <4>3 DEF Outstanding
    <3>3. CASE srv[c] # "open"
      <4>1. toCli' = toCli /\ srv'[c] = "closed"
        BY <3>3 DEF SrvReply, TypeOK, ServerTypeOK
      <4> QED BY <1>1, <1>2, <1>3, <2>1, <3>1, <4>1 DEF Outstanding, Quiet
    <3> QED BY <3>2, <3>3
  <2>2. CASE conn = c /\ pc[u] = "send_payload"
    BY <1>1, <2>2 DEF ChannelInv, Outstanding
  <2>3. CASE conn # c
    <3>1. conn \in Conns \/ pc[u] \notin UsesCodec
      BY <1>5 DEF CodecInv
    <3> QED BY <1>1, <1>2, <1>4, <2>3, <3>1 DEF ChannelInv, Outstanding, UsesCodec, Quiet
  <2>4. CASE pc[u] \notin {"recv", "send_payload"}
    BY <1>1, <2>4 DEF Outstanding
  <2> QED BY <2>1, <2>2, <2>3, <2>4
<1>7. (conn # 0 /\ \A u \in Threads : pc[u] \notin {"send_payload", "recv"}) => conn # c
  BY <1>1 DEF ChannelInv, Quiet
<1> QED BY <1>1, <1>2, <1>4, <1>5, <1>6, <1>7 DEF ChannelInv, Quiet

\* SrvReply keeps the inductive invariant.
LEMMA SrvReplyInd ==
  ASSUME IndInv, NEW c \in Conns, SrvReply(c)
  PROVE  IndInv'
<1>1. TypeOK'
  BY SrvReplyType
<1>2. MutexInv'
  BY DEF SrvReply, TypeOK, ClientTypeOK, MutexInv, Locked, client
<1>3. CodecInv'
  BY DEF SrvReply, TypeOK, ClientTypeOK, MutexInv, CodecInv, Locked, UsesCodec, client
<1>4. ConnInv'
  BY DEF SrvReply, TypeOK, ClientTypeOK, ServerTypeOK, ConnInv, Quiet, client
<1>5. FrameInv'
  BY DEF SrvReply, FrameInv, Ids, client
<1>6. IdInv'
  BY DEF SrvReply, TypeOK, ClientTypeOK, IdInv, Ids, client
<1>7. ExecInv'
  BY DEF SrvReply, TypeOK, ClientTypeOK, ServerTypeOK, ExecInv, Deliverable, Ids, client
<1>8. UnsentInv'
  BY DEF SrvReply, TypeOK, ClientTypeOK, ServerTypeOK, UnsentInv, Deliverable, Ids, client
<1>9. ChannelInv'
  BY SrvReply_ChannelInv
<1>10. OutcomeInv'
  BY DEF SrvReply, TypeOK, ClientTypeOK, ServerTypeOK, OutcomeInv, Ids, client
<1>11. NotifiedOnce'
  BY DEF SrvReply, TypeOK, ClientTypeOK, ServerTypeOK, NotifiedOnce, ConnInv, Conns, client
<1> QED BY <1>1, <1>2, <1>3, <1>4, <1>5, <1>6, <1>7, <1>8, <1>9, <1>10, <1>11

\* SrvEof keeps the inductive invariant.
LEMMA SrvEofInd ==
  ASSUME IndInv, NEW c \in Conns, SrvEof(c)
  PROVE  IndInv'
<1>1. TypeOK'
  <2>1. ClientTypeOK'
    BY DEF SrvEof, TypeOK, ClientTypeOK, PCs, Ids, client
  <2>2. AttemptOK'
    BY DEF SrvEof, TypeOK, AttemptOK, ClientTypeOK, client
  <2>3. ServerTypeOK'
    BY DEF SrvEof, TypeOK, ServerTypeOK, ClientTypeOK, Ids, client
  <2> QED BY <2>1, <2>2, <2>3 DEF TypeOK
<1>2. MutexInv'
  BY DEF SrvEof, TypeOK, ClientTypeOK, MutexInv, Locked, client
<1>3. CodecInv'
  BY DEF SrvEof, TypeOK, ClientTypeOK, MutexInv, CodecInv, Locked, UsesCodec, client
<1>4. ConnInv'
  BY DEF SrvEof, TypeOK, ClientTypeOK, ServerTypeOK, ConnInv, Quiet, client
<1>5. FrameInv'
  BY DEF SrvEof, FrameInv, Ids, client
<1>6. IdInv'
  BY DEF SrvEof, TypeOK, ClientTypeOK, IdInv, Ids, client
<1>7. ExecInv'
  <2>1. UNCHANGED <<nextId, toSrv, stage, request, executed>>
    BY DEF SrvEof, client
  <2> QED BY <2>1 DEF ExecInv, Deliverable, Ids
<1>8. UnsentInv'
  BY DEF SrvEof, TypeOK, ClientTypeOK, ServerTypeOK, UnsentInv, Deliverable, Ids, client
<1>9. ChannelInv'
  BY DEF SrvEof, TypeOK, ClientTypeOK, ServerTypeOK, MutexInv, Locked, ChannelInv, Outstanding,
     Quiet, client
<1>10. OutcomeInv'
  BY DEF SrvEof, TypeOK, ClientTypeOK, ServerTypeOK, OutcomeInv, Ids, client
<1>11. NotifiedOnce'
  BY DEF SrvEof, TypeOK, ClientTypeOK, ServerTypeOK, NotifiedOnce, ConnInv, Conns, client
<1> QED BY <1>1, <1>2, <1>3, <1>4, <1>5, <1>6, <1>7, <1>8, <1>9, <1>10, <1>11

\* SrvDrop keeps the inductive invariant.
LEMMA SrvDropInd ==
  ASSUME IndInv, NEW c \in Conns, SrvDrop(c)
  PROVE  IndInv'
<1>1. TypeOK'
  <2>1. ClientTypeOK'
    BY DEF SrvDrop, TypeOK, ClientTypeOK, PCs, Ids, client
  <2>2. AttemptOK'
    BY DEF SrvDrop, TypeOK, AttemptOK, ClientTypeOK, client
  <2>3. ServerTypeOK'
    BY DEF SrvDrop, TypeOK, ServerTypeOK, ClientTypeOK, Ids, client
  <2> QED BY <2>1, <2>2, <2>3 DEF TypeOK
<1>2. MutexInv'
  BY DEF SrvDrop, TypeOK, ClientTypeOK, MutexInv, Locked, client
<1>3. CodecInv'
  BY DEF SrvDrop, TypeOK, ClientTypeOK, MutexInv, CodecInv, Locked, UsesCodec, client
<1>4. ConnInv'
  BY DEF SrvDrop, TypeOK, ClientTypeOK, ServerTypeOK, ConnInv, Quiet, client
<1>5. FrameInv'
  BY DEF SrvDrop, FrameInv, Ids, client
<1>6. IdInv'
  BY DEF SrvDrop, TypeOK, ClientTypeOK, IdInv, Ids, client
<1>7. ExecInv'
  <2>1. UNCHANGED <<nextId, toSrv, stage, request, executed>>
    BY DEF SrvDrop, client
  <2> QED BY <2>1 DEF ExecInv, Deliverable, Ids
<1>8. UnsentInv'
  BY DEF SrvDrop, TypeOK, ClientTypeOK, ServerTypeOK, UnsentInv, Deliverable, Ids, client
<1>9. ChannelInv'
  BY DEF SrvDrop, TypeOK, ClientTypeOK, ServerTypeOK, MutexInv, Locked, ChannelInv, Outstanding,
     Quiet, client
<1>10. OutcomeInv'
  BY DEF SrvDrop, TypeOK, ClientTypeOK, ServerTypeOK, OutcomeInv, Ids, client
<1>11. NotifiedOnce'
  BY DEF SrvDrop, TypeOK, ClientTypeOK, ServerTypeOK, NotifiedOnce, ConnInv, Conns, client
<1> QED BY <1>1, <1>2, <1>3, <1>4, <1>5, <1>6, <1>7, <1>8, <1>9, <1>10, <1>11

\* ServerStop keeps the types.
LEMMA ServerStopType == ASSUME TypeOK, ServerStop PROVE TypeOK'
<1>1. ClientTypeOK' /\ AttemptOK'
  BY DEF ServerStop, TypeOK, ClientTypeOK, AttemptOK, Ids, client
<1>2. ServerTypeOK'
  <2>1. faults' \in Nat
    BY DEF ServerStop, TypeOK, ServerTypeOK
  <2>4. up' \in BOOLEAN
    BY DEF ServerStop
  <2>2. srv' \in [Conns -> {"unused", "open", "closed"}]
    BY CloseAllType DEF ServerStop, TypeOK
  <2> QED BY <2>1, <2>2, <2>4 DEF ServerStop, TypeOK, ServerTypeOK, Ids, client
<1> QED BY <1>1, <1>2 DEF TypeOK

\* ServerStop keeps ChannelInv: that the request in progress is alone on its connection.
LEMMA ServerStop_ChannelInv ==
  ASSUME IndInv, ServerStop
  PROVE  ChannelInv'
<1>1. /\ UNCHANGED <<conn, id, pc, toSrv, request, executed, stage, toCli>>
      /\ \A c \in Conns : c <= opened => srv'[c] = "closed"
  BY CloseAll_Facts DEF ServerStop, client
<1>2. conn # 0 => conn \in Conns /\ conn <= opened
  BY ClientAssumption DEF ClientAssumption, TypeOK, ClientTypeOK, Conns, ConnInv
<1>3. ASSUME NEW u \in Threads PROVE Outstanding(u)'
  BY <1>1, <1>2 DEF ChannelInv, CodecInv, UsesCodec, Outstanding, Quiet
<1> QED BY <1>1, <1>3 DEF ChannelInv, Quiet

\* ServerStop keeps the inductive invariant.
LEMMA ServerStopInd ==
  ASSUME IndInv, ServerStop
  PROVE  IndInv'
<1>1. TypeOK'
  BY ServerStopType
<1>2. MutexInv'
  BY DEF ServerStop, CloseAll, TypeOK, ClientTypeOK, MutexInv, Locked, client
<1>3. CodecInv'
  BY DEF ServerStop, CloseAll, TypeOK, ClientTypeOK, MutexInv, CodecInv, Locked, UsesCodec, client
<1>4. ConnInv'
  BY DEF ServerStop, CloseAll, TypeOK, ClientTypeOK, ServerTypeOK, ConnInv, Quiet, client
<1>5. FrameInv'
  BY DEF ServerStop, CloseAll, FrameInv, Ids, client
<1>6. IdInv'
  BY DEF ServerStop, CloseAll, TypeOK, ClientTypeOK, IdInv, Ids, client
<1>7. ExecInv'
  BY DEF ServerStop, CloseAll, TypeOK, ClientTypeOK, ServerTypeOK, ExecInv, Deliverable, Ids, client
<1>8. UnsentInv'
  BY DEF ServerStop, CloseAll, TypeOK, ClientTypeOK, ServerTypeOK, UnsentInv, Deliverable, Ids,
     client
<1>9. ChannelInv'
  BY ServerStop_ChannelInv
<1>10. OutcomeInv'
  BY DEF ServerStop, CloseAll, TypeOK, ClientTypeOK, ServerTypeOK, OutcomeInv, Ids, client
<1>11. NotifiedOnce'
  BY DEF ServerStop, CloseAll, TypeOK, ClientTypeOK, ServerTypeOK, NotifiedOnce, ConnInv, Conns,
     client
<1> QED BY <1>1, <1>2, <1>3, <1>4, <1>5, <1>6, <1>7, <1>8, <1>9, <1>10, <1>11

\* ServerCrash keeps the types.
LEMMA ServerCrashType == ASSUME TypeOK, ServerCrash PROVE TypeOK'
<1>1. ClientTypeOK' /\ AttemptOK'
  BY DEF ServerCrash, TypeOK, ClientTypeOK, AttemptOK, Ids, client
<1>2. ServerTypeOK'
  <2>1. stage' \in [Conns -> {"reading", "taken", "executed"}]
    BY DEF ServerCrash
  <2>2. faults' \in Nat
    BY DEF ServerCrash, TypeOK, ServerTypeOK
  <2>4. up' \in BOOLEAN
    BY DEF ServerCrash
  <2>3. srv' \in [Conns -> {"unused", "open", "closed"}]
    BY CloseAllType DEF ServerCrash, TypeOK
  <2> QED BY <2>1, <2>2, <2>3, <2>4 DEF ServerCrash, TypeOK, ServerTypeOK, Ids, client
<1> QED BY <1>1, <1>2 DEF TypeOK

\* ServerCrash keeps ChannelInv: that the request in progress is alone on its connection.
LEMMA ServerCrash_ChannelInv ==
  ASSUME IndInv, ServerCrash
  PROVE  ChannelInv'
<1>1. /\ UNCHANGED <<conn, id, pc, toSrv, request, executed, toCli>>
      /\ \A c \in Conns : c <= opened => srv'[c] = "closed"
      /\ \A c \in Conns : stage'[c] = "reading"
  BY CloseAll_Facts DEF ServerCrash, client
<1>2. conn # 0 => conn \in Conns /\ conn <= opened
  BY ClientAssumption DEF ClientAssumption, TypeOK, ClientTypeOK, Conns, ConnInv
<1>3. ASSUME NEW u \in Threads PROVE Outstanding(u)'
  BY <1>1, <1>2 DEF ChannelInv, CodecInv, UsesCodec, Outstanding, Quiet
<1> QED BY <1>1, <1>2, <1>3 DEF ChannelInv, Quiet

\* ServerCrash keeps the inductive invariant.
LEMMA ServerCrashInd ==
  ASSUME IndInv, ServerCrash
  PROVE  IndInv'
<1>1. TypeOK'
  BY ServerCrashType
<1>2. MutexInv'
  BY DEF ServerCrash, CloseAll, TypeOK, ClientTypeOK, MutexInv, Locked, client
<1>3. CodecInv'
  BY DEF ServerCrash, CloseAll, TypeOK, ClientTypeOK, MutexInv, CodecInv, Locked, UsesCodec, client
<1>4. ConnInv'
  BY DEF ServerCrash, CloseAll, TypeOK, ClientTypeOK, ServerTypeOK, ConnInv, Quiet, client
<1>5. FrameInv'
  BY DEF ServerCrash, CloseAll, FrameInv, Ids, client
<1>6. IdInv'
  BY DEF ServerCrash, CloseAll, TypeOK, ClientTypeOK, IdInv, Ids, client
<1>7. ExecInv'
  BY DEF ServerCrash, CloseAll, TypeOK, ClientTypeOK, ServerTypeOK, ExecInv, Deliverable, Ids,
     client
<1>8. UnsentInv'
  BY DEF ServerCrash, CloseAll, TypeOK, ClientTypeOK, ServerTypeOK, UnsentInv, Deliverable, Ids,
     client
<1>9. ChannelInv'
  BY ServerCrash_ChannelInv
<1>10. OutcomeInv'
  BY DEF ServerCrash, CloseAll, TypeOK, ClientTypeOK, ServerTypeOK, OutcomeInv, Ids, client
<1>11. NotifiedOnce'
  BY DEF ServerCrash, CloseAll, TypeOK, ClientTypeOK, ServerTypeOK, NotifiedOnce, ConnInv,
     Conns, client
<1> QED BY <1>1, <1>2, <1>3, <1>4, <1>5, <1>6, <1>7, <1>8, <1>9, <1>10, <1>11

\* ServerStart keeps the inductive invariant.
LEMMA ServerStartInd ==
  ASSUME IndInv, ServerStart
  PROVE  IndInv'
<1>1. TypeOK'
  <2>1. ClientTypeOK'
    BY DEF ServerStart, TypeOK, ClientTypeOK, PCs, Ids, client
  <2>2. AttemptOK'
    BY DEF ServerStart, TypeOK, AttemptOK, ClientTypeOK, client
  <2>3. ServerTypeOK'
    BY DEF ServerStart, TypeOK, ServerTypeOK, ClientTypeOK, Ids, client
  <2> QED BY <2>1, <2>2, <2>3 DEF TypeOK
<1>2. MutexInv'
  BY DEF ServerStart, TypeOK, ClientTypeOK, MutexInv, Locked, client
<1>3. CodecInv'
  BY DEF ServerStart, TypeOK, ClientTypeOK, MutexInv, CodecInv, Locked, UsesCodec, client
<1>4. ConnInv'
  BY DEF ServerStart, TypeOK, ClientTypeOK, ServerTypeOK, ConnInv, Quiet, client
<1>5. FrameInv'
  BY DEF ServerStart, FrameInv, Ids, client
<1>6. IdInv'
  BY DEF ServerStart, TypeOK, ClientTypeOK, IdInv, Ids, client
<1>7. ExecInv'
  BY DEF ServerStart, TypeOK, ClientTypeOK, ServerTypeOK, ExecInv, Deliverable, Ids, client
<1>8. UnsentInv'
  BY DEF ServerStart, TypeOK, ClientTypeOK, ServerTypeOK, UnsentInv, Deliverable, Ids, client
<1>9. ChannelInv'
  BY DEF ServerStart, TypeOK, ClientTypeOK, ServerTypeOK, MutexInv, Locked, ChannelInv,
     Outstanding, Quiet, client
<1>10. OutcomeInv'
  BY DEF ServerStart, TypeOK, ClientTypeOK, ServerTypeOK, OutcomeInv, Ids, client
<1>11. NotifiedOnce'
  BY DEF ServerStart, TypeOK, ClientTypeOK, ServerTypeOK, NotifiedOnce, ConnInv, Conns, client
<1> QED BY <1>1, <1>2, <1>3, <1>4, <1>5, <1>6, <1>7, <1>8, <1>9, <1>10, <1>11

-----------------------------------------------------------------------------
\* A client just constructed satisfies the invariant.
LEMMA InitInd == Init => IndInv
<1> SUFFICES ASSUME Init PROVE IndInv
  OBVIOUS
<1>1. TypeOK
  BY ClientAssumption DEF ClientAssumption, Init, TypeOK, ClientTypeOK, AttemptOK, ServerTypeOK,
     PCs, Ids
<1>2. MutexInv /\ CodecInv /\ IdInv /\ UnsentInv
  BY ClientAssumption DEF ClientAssumption, Init, MutexInv, Locked, CodecInv, UsesCodec, IdInv,
     UnsentInv
<1>3. ConnInv /\ FrameInv /\ NotifiedOnce
  BY DEF Init, ConnInv, Quiet, FrameInv, NotifiedOnce, Conns
<1>4. Ids = {}
  BY DEF Init, Ids
<1>5. ExecInv /\ OutcomeInv
  BY <1>4 DEF Init, ExecInv, OutcomeInv
<1>6. ChannelInv
  BY DEF Init, ChannelInv, Outstanding
<1> QED BY <1>1, <1>2, <1>3, <1>5, <1>6

\* A step that changes nothing keeps the invariant.
LEMMA StutterInd == IndInv /\ UNCHANGED vars => IndInv'
<1> SUFFICES ASSUME IndInv, UNCHANGED vars PROVE IndInv'
  OBVIOUS
<1> USE DEF vars, client, server
<1>1. TypeOK'
  BY DEF TypeOK, ClientTypeOK, AttemptOK, ServerTypeOK, Ids
<1>2. MutexInv' /\ CodecInv' /\ IdInv' /\ NotifiedOnce'
  BY DEF MutexInv, CodecInv, IdInv, NotifiedOnce
<1>3. ConnInv' /\ FrameInv' /\ ChannelInv'
  BY DEF ConnInv, FrameInv, ChannelInv, Outstanding, Quiet, Ids
<1>4. ExecInv' /\ UnsentInv' /\ OutcomeInv'
  BY DEF ExecInv, UnsentInv, OutcomeInv, Deliverable, Ids
<1> QED BY <1>1, <1>2, <1>3, <1>4

\* Every step of the client and of the server keeps the invariant.
LEMMA NextInd == IndInv /\ [Next]_vars => IndInv'
<1> USE DEF Next
<1> SUFFICES ASSUME IndInv, [Next]_vars PROVE IndInv'
  OBVIOUS
<1>1. CASE UNCHANGED vars
  BY <1>1, StutterInd
<1>2. CASE \E t \in Threads : Begin(t) \/ CallStep(t) \/ Connect(t) \/ Disconnect(t)
  BY <1>2, BeginInd, EnterInd, WakeUpInd, DialOkInd, DialFailInd, IssueIdInd, SendHeaderInd,
     SendPayloadInd, SendFailInd, RecvReplyInd, RecvFailInd, AfterCallbackInd, ConnectInd,
     DisconnectInd DEF CallStep
<1>3. CASE \E c \in Conns : HandlerStep(c) \/ SrvDrop(c)
  BY <1>3, SrvTakeInd, SrvExecuteInd, SrvReplyInd, SrvEofInd, SrvDropInd DEF HandlerStep
<1>4. CASE ServerStop \/ ServerCrash \/ ServerStart
  BY <1>4, ServerStopInd, ServerCrashInd, ServerStartInd
<1> QED BY <1>1, <1>2, <1>3, <1>4 DEF Quiescent

\* The inductive invariant holds in every reachable state, for any number of threads,
\* connections, calls and faults and any reconnect configuration.
THEOREM Invariant == Spec => []IndInv
BY InitInd, NextInd, PTL DEF Spec

\* Every variable keeps its type; in particular attempt_reconnect never counts past max_attempts.
THEOREM TypeCorrect == Spec => []TypeOK
<1>1. IndInv => TypeOK
  OBVIOUS
<1> QED BY <1>1, Invariant, PTL

\* call() never dereferences a null codec_, whatever the other threads do
\* while it sleeps in attempt_reconnect or runs on_disconnect.
THEOREM CodecNeverNull == Spec => []CodecNotNull
<1>1. IndInv => CodecNotNull
  BY DEF CodecInv, MutexInv, CodecNotNull, UsesCodec, Locked
<1> QED BY <1>1, Invariant, PTL

\* No request's handler runs twice, although call() may send it twice (client.cpp:139-155).
THEOREM RunsAtMostOnce == Spec => []AtMostOnce
<1>1. IndInv => AtMostOnce
  BY DEF ExecInv, AtMostOnce
<1> QED BY <1>1, Invariant, PTL

\* A successful call's handler ran once, and the id check of client.cpp:165 never fires.
THEOREM ResponsesCorrelated == Spec => []Correlated
<1>1. IndInv => Correlated
  BY DEF OutcomeInv, Correlated
<1> QED BY <1>1, Invariant, PTL

\* Whenever mutex_ is free the connection in use carries nothing (one outstanding request).
THEOREM ConnectionQuietBetweenCalls == Spec => []OneOutstanding
<1>1. IndInv => OneOutstanding
  BY ClientAssumption DEF ClientAssumption, ChannelInv, MutexInv, OneOutstanding, Locked
<1> QED BY <1>1, Invariant, PTL

\* on_disconnect fires at most once for a connection.
THEOREM NotifiesOnce == Spec => []NotifiedOnce
<1>1. IndInv => NotifiedOnce
  OBVIOUS
<1> QED BY <1>1, Invariant, PTL
-----------------------------------------------------------------------------
\* The initial states map to the initial state of the contract.
LEMMA InitContract == Init => Contract!AInit
BY DEF Init, Contract!AInit

\* A returning call() succeeds or fails in the contract, or never had an id.
LEMMA ReturnContract ==
  ASSUME IndInv, NEW t \in Threads, NEW v \in {"ok", "error"}, Return(t, v),
         v = "ok" => id[t] # 0 /\ executed[id[t]] = 1,
         UNCHANGED <<nextId, executed>>
  PROVE  [Contract!ANext]_(Contract!avars)
<1>1. CASE id[t] = 0
  BY <1>1 DEF Return, Contract!avars
<1>2. CASE id[t] # 0
  <2>1. id[t] \in 1..(nextId - 1) /\ outcome[id[t]] = "pending"
    BY <1>2 DEF IdInv, TypeOK, ClientTypeOK
  <2>2. outcome' = [outcome EXCEPT ![id[t]] = v]
    BY <1>2 DEF Return
  <2>3. CASE v = "ok"
    BY <2>1, <2>2, <2>3 DEF Contract!ANext, Contract!Succeed
  <2>4. CASE v = "error"
    BY <2>1, <2>2, <2>4 DEF Contract!ANext, Contract!Fail
  <2> QED BY <2>3, <2>4
<1> QED BY <1>1, <1>2

\* Every step maps to a step of the contract or leaves its variables alone.
LEMMA StepContract == IndInv /\ [Next]_vars => [Contract!ANext]_(Contract!avars)
<1> SUFFICES ASSUME IndInv, [Next]_vars PROVE [Contract!ANext]_(Contract!avars)
  OBVIOUS
<1>1. CASE UNCHANGED <<nextId, outcome, executed>>
  BY <1>1 DEF Contract!avars
<1>2. ASSUME NEW t \in Threads, IssueId(t)
      PROVE  [Contract!ANext]_(Contract!avars)
  <2>1. nextId \in Nat /\ nextId' - 1 = nextId
    BY <1>2 DEF IssueId, TypeOK, ClientTypeOK
  <2>2. Contract!Issue
    BY <1>2, <2>1 DEF IssueId, Contract!Issue
  <2> QED BY <2>2 DEF Contract!ANext
<1>3. ASSUME NEW t \in Threads, RecvReply(t)
      PROVE  [Contract!ANext]_(Contract!avars)
  <2>1. Head(toCli[conn]) = id[t] /\ id[t] # 0 /\ executed[id[t]] = 1
    BY <1>3, RecvReply_Facts DEF Ids
  <2> QED BY <1>3, <2>1, ReturnContract DEF RecvReply
<1>4. ASSUME NEW t \in Threads, Enter(t) \/ DialFail(t) \/ AfterCallback(t)
      PROVE  [Contract!ANext]_(Contract!avars)
  <2>1. Return(t, "error") \/ UNCHANGED outcome
    BY <1>4 DEF Enter, DialFail, AfterCallback, StartRetrying
  <2>2. UNCHANGED <<nextId, executed>>
    BY <1>4 DEF Enter, DialFail, AfterCallback, server
  <2> QED BY <2>1, <2>2, ReturnContract DEF Contract!avars
<1>5. ASSUME NEW c \in Conns, SrvExecute(c)
      PROVE  [Contract!ANext]_(Contract!avars)
  <2>1. request[c] \in Ids
    BY <1>5 DEF SrvExecute, ConnInv, TypeOK, ClientTypeOK, ServerTypeOK, Ids
  <2>2. executed[request[c]] = 0
    BY <1>5, <2>1 DEF SrvExecute, ExecInv, Deliverable
  <2>3. outcome[request[c]] # "ok"
    BY <2>1, <2>2 DEF OutcomeInv
  <2>4. executed' = [executed EXCEPT ![request[c]] = 1] /\ UNCHANGED <<nextId, outcome>>
    BY <1>5, <2>2 DEF SrvExecute, client
  <2>5. Contract!Execute(request[c]) /\ request[c] \in 1..(nextId - 1)
    BY <2>1, <2>2, <2>3, <2>4 DEF Contract!Execute, Ids
  <2> QED BY <2>5 DEF Contract!ANext
<1>6. ASSUME NEW t \in Threads,
             Begin(t) \/ WakeUp(t) \/ DialOk(t) \/ SendHeader(t) \/ SendPayload(t)
             \/ SendFail(t) \/ RecvFail(t) \/ Connect(t) \/ Disconnect(t)
      PROVE  UNCHANGED <<nextId, outcome, executed>>
  BY <1>6 DEF Begin, WakeUp, DialOk, SendHeader, SendPayload, Write, SendFail, RecvFail,
     Connect, Disconnect, server
<1>7. ASSUME NEW c \in Conns, SrvTake(c) \/ SrvReply(c) \/ SrvEof(c) \/ SrvDrop(c)
      PROVE  UNCHANGED <<nextId, outcome, executed>>
  BY <1>7 DEF SrvTake, SrvReply, SrvEof, SrvDrop, client
<1>8. ASSUME ServerStop \/ ServerCrash \/ ServerStart \/ UNCHANGED vars
      PROVE  UNCHANGED <<nextId, outcome, executed>>
  BY <1>8 DEF ServerStop, ServerCrash, ServerStart, vars, client, server
<1> QED
  BY <1>1, <1>2, <1>3, <1>4, <1>5, <1>6, <1>7, <1>8
     DEF Next, CallStep, HandlerStep, Quiescent

\* The client with its connections and servers implements the contract RpcCall:
\* at most one execution per call, success only after it.
THEOREM ImplementsContract == Spec => ContractSpec
BY InitContract, StepContract, Invariant, PTL DEF Spec, ContractSpec, Contract!ASpec

-----------------------------------------------------------------------------
(* Request ids grow on each connection. *)

\* Whatever is on its way to the server on a connection is newer than what it read
\* there: a call writes its fresh id, or an older one on a new connection.
OrderInv ==
  /\ \A c \in Conns : c > opened => request[c] = 0
  /\ \A c \in Conns : toSrv[c] # <<>> => request[c] < toSrv[c][1].id
  /\ \A t \in Threads : pc[t] = "send_header" => request[conn] < id[t]

\* What a header and a frame start with.
LEMMA FirstPart ==
  ASSUME NEW i \in Nat
  PROVE  HeaderOnly(i)[1].id = i /\ Frame(i)[1].id = i
<1>1. Part("header", i).id = i
  BY DEF Part
<1> QED BY <1>1 DEF HeaderOnly, Frame

\* A new connection has read nothing, so that also an old request may go there.
LEMMA DialOkOrder ==
  ASSUME IndInv, OrderInv, NEW t \in Threads, DialOk(t)
  PROVE  OrderInv'
<1>1. /\ opened \in Nat /\ opened < MaxConns /\ MaxConns \in Nat /\ conn' = opened + 1
      /\ opened' = opened + 1 /\ opened + 1 \in Conns
      /\ UNCHANGED <<id, toSrv, request>>
      /\ mutex = t /\ \A u \in Threads : pc[u] \in Locked => u = t
  BY ClientAssumption DEF ClientAssumption, DialOk, CanDial, OpenConnection, Conns, TypeOK,
     ServerTypeOK, MutexInv, Locked
<1>2. request[opened + 1] = 0
  BY <1>1 DEF OrderInv
<1>3. ASSUME NEW u \in Threads, pc'[u] = "send_header" PROVE request[opened + 1] < id[u]
  <2>1. u = t
    BY <1>1, <1>3 DEF DialOk, TypeOK, ClientTypeOK, Locked
  <2>2. id[t] # 0 /\ id[t] \in Nat
    BY <1>3, <2>1 DEF DialOk, TypeOK, ClientTypeOK
  <2> QED BY <1>2, <2>1, <2>2
<1>4. \A c \in Conns : c > opened' => request[c] = 0
  BY <1>1 DEF OrderInv, Conns
<1> QED BY <1>1, <1>3, <1>4 DEF OrderInv

\* A fresh id is above every id that was ever read.
LEMMA IssueIdOrder ==
  ASSUME IndInv, OrderInv, NEW t \in Threads, IssueId(t)
  PROVE  OrderInv'
<1>1. /\ conn \in Conns /\ nextId \in Nat /\ UNCHANGED <<conn, opened, toSrv, request>>
      /\ id' = [id EXCEPT ![t] = nextId] /\ pc' = [pc EXCEPT ![t] = "send_header"]
      /\ \A u \in Threads : pc[u] \in Locked => u = t
  BY ClientAssumption DEF ClientAssumption, IssueId, FreshId, TypeOK, ClientTypeOK, Conns,
     CodecInv, UsesCodec, MutexInv, Locked
<1>2. request[conn] < nextId
  BY <1>1 DEF TypeOK, ServerTypeOK
<1>3. \A u \in Threads : pc'[u] = "send_header" => u = t /\ id'[u] = nextId
  BY <1>1 DEF TypeOK, ClientTypeOK, Locked
<1> QED BY <1>1, <1>2, <1>3 DEF OrderInv

\* A header goes out on a connection that has read only older requests.
LEMMA SendHeaderOrder ==
  ASSUME IndInv, OrderInv, NEW t \in Threads, SendHeader(t)
  PROVE  OrderInv'
<1>1. /\ conn \in Conns /\ id[t] \in Nat /\ toSrv' = [toSrv EXCEPT ![conn] = HeaderOnly(id[t])]
      /\ UNCHANGED <<conn, id, opened, request>> /\ pc' = [pc EXCEPT ![t] = "send_payload"]
  BY SendHeader_Facts, Sending_Facts DEF SendHeader, Write
<1>2. request[conn] < id[t]
  BY DEF OrderInv, SendHeader
<1>3. \A c \in Conns : toSrv'[c] # <<>> => request[c] < toSrv'[c][1].id
  BY <1>1, <1>2, FirstPart DEF OrderInv, TypeOK, ServerTypeOK
<1>4. \A u \in Threads : pc'[u] = "send_header" => pc[u] = "send_header"
  BY <1>1 DEF TypeOK, ClientTypeOK
<1> QED BY <1>1, <1>3, <1>4 DEF OrderInv

\* The payload follows the header of the same request.
LEMMA SendPayloadOrder ==
  ASSUME IndInv, OrderInv, NEW t \in Threads, SendPayload(t)
  PROVE  OrderInv'
<1>1. /\ conn \in Conns /\ id[t] \in Nat /\ toSrv[conn] = HeaderOnly(id[t])
      /\ toSrv' = [toSrv EXCEPT ![conn] = Frame(id[t])]
      /\ UNCHANGED <<conn, id, opened, request>> /\ pc' = [pc EXCEPT ![t] = "recv"]
  BY SendPayload_Facts, Sending_Facts DEF SendPayload, Write
<1>2. request[conn] < id[t]
  BY <1>1, FirstPart, FrameFacts DEF OrderInv
<1>3. \A c \in Conns : toSrv'[c] # <<>> => request[c] < toSrv'[c][1].id
  BY <1>1, <1>2, FirstPart DEF OrderInv, TypeOK, ServerTypeOK
<1>4. \A u \in Threads : pc'[u] = "send_header" => pc[u] = "send_header"
  BY <1>1 DEF TypeOK, ClientTypeOK
<1> QED BY <1>1, <1>3, <1>4 DEF OrderInv

\* A handler reads the newest request so far, and no call that has yet to write
\* stands on its connection.
LEMMA SrvTakeOrder ==
  ASSUME IndInv, OrderInv, NEW c \in Conns, SrvTake(c)
  PROVE  OrderInv' /\ request'[c] > request[c]
<1>1. PICK i \in Ids : /\ toSrv[c] = Frame(i)
                       /\ request' = [request EXCEPT ![c] = i]
                       /\ toSrv' = [toSrv EXCEPT ![c] = <<>>]
  BY SrvTake_Facts
<1>2. i \in Nat /\ Frame(i) # <<>> /\ Frame(i)[1].id = i
  <2>1. i \in Nat
    BY DEF Ids, TypeOK, ClientTypeOK
  <2> QED BY <2>1, FirstPart, FrameFacts
<1>3. request[c] < i /\ request'[c] = i
  BY <1>1, <1>2 DEF OrderInv, TypeOK, ServerTypeOK
<1>4. UNCHANGED <<conn, id, pc, opened>>
  BY DEF SrvTake, client
<1>5. c \in Nat /\ ~(c > opened)
  BY <1>1, <1>2 DEF ConnInv, Quiet, Conns
<1>6. \A t \in Threads : pc[t] = "send_header" => conn # c
  <2>1. ASSUME NEW t \in Threads, pc[t] = "send_header" PROVE toSrv[conn] = <<>>
    <3>1. conn # 0 /\ \A u \in Threads : pc[u] \in Locked => u = t
      BY <2>1 DEF CodecInv, UsesCodec, MutexInv, Locked
    <3>2. \A u \in Threads : pc[u] \notin {"send_payload", "recv"}
      BY <2>1, <3>1 DEF Locked
    <3> QED BY <3>1, <3>2 DEF ChannelInv, Quiet
  <2> QED BY <1>1, <1>2, <2>1
<1>7. \A d \in Conns : d # c => request'[d] = request[d] /\ toSrv'[d] = toSrv[d]
  BY <1>1 DEF TypeOK, ServerTypeOK
<1>8. toSrv'[c] = <<>>
  BY <1>1 DEF TypeOK, ServerTypeOK
<1>9. ASSUME NEW t \in Threads, pc[t] = "send_header" PROVE request'[conn] < id[t]
  <2>1. conn \in Conns
    BY <1>9, Sending_Facts
  <2> QED BY <1>6, <1>7, <1>9, <2>1 DEF OrderInv
<1> QED BY <1>3, <1>4, <1>5, <1>7, <1>8, <1>9 DEF OrderInv

\* The order stands as long as nothing is written or read, and a call about to
\* write keeps its id and its connection.
LEMMA OrderKept ==
  ASSUME TypeOK, TypeOK', OrderInv, UNCHANGED <<request, toSrv>>, opened' >= opened,
         \A t \in Threads : pc'[t] = "send_header" =>
           pc[t] = "send_header" /\ id'[t] = id[t] /\ conn' = conn
  PROVE  OrderInv'
<1>1. opened \in Nat /\ opened' \in Nat
  BY DEF TypeOK, ServerTypeOK
<1>2. \A c \in Conns : c > opened' => request'[c] = 0
  BY <1>1 DEF OrderInv, Conns
<1> QED BY <1>2 DEF OrderInv

\* Every other step of a thread: it writes nothing, and changes the connection in
\* use only while no other thread is about to write.
LEMMA ThreadOrder ==
  ASSUME IndInv, IndInv', OrderInv, NEW t \in Threads,
         Begin(t) \/ Enter(t) \/ WakeUp(t) \/ DialFail(t) \/ SendFail(t) \/ RecvReply(t)
         \/ RecvFail(t) \/ AfterCallback(t) \/ Connect(t) \/ Disconnect(t)
  PROVE  OrderInv'
<1>1. UNCHANGED <<request, toSrv>>
  BY DEF Begin, Enter, WakeUp, DialFail, SendFail, RecvReply, RecvFail, AfterCallback, Connect,
     Disconnect, server
<1>2. opened \in Nat /\ opened' >= opened
  BY DEF Begin, Enter, WakeUp, DialFail, SendFail, RecvReply, RecvFail, AfterCallback, Connect,
     Disconnect, OpenConnection, server, TypeOK, ServerTypeOK
<1>3. ASSUME NEW u \in Threads, pc'[u] = "send_header"
      PROVE  pc[u] = "send_header" /\ id'[u] = id[u]
  BY <1>3 DEF Begin, Enter, WakeUp, DialFail, SendFail, RecvReply, RecvFail, AfterCallback,
     Connect, Disconnect, StartRetrying, Return, AfterSendFailure, AfterRecvFailure, TypeOK,
     ClientTypeOK
<1>4. ASSUME NEW u \in Threads, pc'[u] = "send_header" PROVE conn' = conn
  <2>1. mutex = u
    BY <1>3, <1>4 DEF MutexInv, Locked
  <2>2. mutex' = u
    BY <1>4 DEF MutexInv, Locked
  <2>3. u # None
    BY ClientAssumption DEF ClientAssumption
  <2> QED BY <2>1, <2>2, <2>3 DEF Begin, Enter, WakeUp, DialFail, SendFail, RecvReply, RecvFail,
      AfterCallback, LoseConnection, Connect, Disconnect, MayUseClient
<1> QED BY <1>1, <1>2, <1>3, <1>4, OrderKept

\* Every other step of the server changes nothing the order speaks of.
LEMMA ServerOrder ==
  ASSUME IndInv, IndInv', OrderInv,
         \/ \E c \in Conns : SrvExecute(c) \/ SrvReply(c) \/ SrvEof(c) \/ SrvDrop(c)
         \/ ServerStop \/ ServerCrash \/ ServerStart \/ UNCHANGED vars
  PROVE  OrderInv'
<1>1. UNCHANGED <<request, toSrv, opened, pc, id, conn>>
  BY DEF SrvExecute, SrvReply, SrvEof, SrvDrop, ServerStop, ServerCrash, ServerStart, vars,
     client, server
<1> QED BY <1>1 DEF OrderInv

\* Every step keeps the order.
LEMMA OrderStep == IndInv /\ OrderInv /\ [Next]_vars => OrderInv'
<1> SUFFICES ASSUME IndInv, OrderInv, [Next]_vars PROVE OrderInv'
  OBVIOUS
<1>1. IndInv'
  BY NextInd
<1>2. ASSUME NEW t \in Threads, Begin(t) \/ CallStep(t) \/ Connect(t) \/ Disconnect(t)
      PROVE  OrderInv'
  BY <1>1, <1>2, DialOkOrder, IssueIdOrder, SendHeaderOrder, SendPayloadOrder, ThreadOrder
     DEF CallStep
<1>3. ASSUME NEW c \in Conns, HandlerStep(c) \/ SrvDrop(c)
      PROVE  OrderInv'
  BY <1>1, <1>3, SrvTakeOrder, ServerOrder DEF HandlerStep
<1>4. CASE ServerStop \/ ServerCrash \/ ServerStart \/ UNCHANGED vars
  BY <1>1, <1>4, ServerOrder
<1> QED BY <1>2, <1>3, <1>4 DEF Next, Quiescent

\* Only a handler that reads a request enters the stage "taken", and the request is
\* newer than the last it read.
LEMMA TakenIsNewer ==
  ASSUME IndInv, OrderInv, [Next]_vars, NEW c \in Conns,
         stage[c] = "reading", stage'[c] = "taken"
  PROVE  request'[c] > request[c]
<1>1. CASE SrvTake(c)
  BY <1>1, SrvTakeOrder
<1>2. CASE UNCHANGED stage
  BY <1>2
<1>3. ASSUME NEW d \in Conns, HandlerStep(d), ~SrvTake(c)
      PROVE  stage'[c] # "taken"
  BY <1>3 DEF HandlerStep, SrvTake, SrvExecute, SrvReply, SrvEof, TypeOK, ServerTypeOK
<1>4. CASE ServerCrash
  BY <1>4 DEF ServerCrash
<1>5. ASSUME NEW t \in Threads, Begin(t) \/ CallStep(t) \/ Connect(t) \/ Disconnect(t)
      PROVE  UNCHANGED stage
  BY <1>5 DEF Begin, CallStep, Enter, WakeUp, DialOk, DialFail, IssueId, SendHeader, SendPayload,
     Write, SendFail, RecvReply, RecvFail, AfterCallback, Connect, Disconnect, server
<1>6. ASSUME (\E d \in Conns : SrvDrop(d)) \/ ServerStop \/ ServerStart \/ UNCHANGED vars
      PROVE  UNCHANGED stage
  BY <1>6 DEF SrvDrop, ServerStop, ServerStart, vars, server
<1> QED BY <1>1, <1>2, <1>3, <1>4, <1>5, <1>6 DEF Next, Quiescent

\* On each connection the server reads requests in the order of their ids, although a
\* failed send is repeated after calls of other threads took later ids (client.cpp:130-144).
THEOREM IdsGrow == Spec => RequestIdsIncrease
<1>1. Init => OrderInv
  BY DEF Init, OrderInv
<1>2. Spec => []OrderInv
  BY <1>1, OrderStep, Invariant, PTL DEF Spec
<1>3. IndInv /\ OrderInv /\ [Next]_vars
        => [\A c \in Conns : stage[c] = "reading" /\ stage'[c] = "taken"
                               => request'[c] > request[c]]_vars
  BY TakenIsNewer
<1> QED BY <1>2, <1>3, Invariant, PTL DEF Spec, RequestIdsIncrease
=============================================================================
