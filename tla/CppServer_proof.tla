-------------------------- MODULE CppServer_proof --------------------------
(***************************************************************************)
(* Proofs about CppServer, for every limit and every number of clients,    *)
(* users and descriptors.  IndInv is inductive: each of its parts is kept  *)
(* by every action, with a lemma for each part.  From it follow the types, *)
(* the connection limit and that no client is left hanging; with one user, *)
(* StopInv adds what each point of stop() has behind it, and with that     *)
(* that a stop() which returns leaves nothing.                             *)
(***************************************************************************)
EXTENDS CppServer, FiniteSetTheorems, SequenceTheorems, TLAPS

USE DEF life, accepting, serving, users, clients

-----------------------------------------------------------------------------
(* Lemmas on the data. *)

\* A client that connects joins the backlog (ClientConnect).
LEMMA BacklogGrows ==
  ASSUME NEW n \in Nat, NEW s \in Seq(1..n)
  PROVE  Append(s, n + 1) \in Seq(1..(n + 1))
<1>1. s \in Seq(1..(n + 1))
  <2>1. \A i \in 1..Len(s) : s[i] \in 1..(n + 1)
    OBVIOUS
  <2> QED BY <2>1, SeqDef
<1> QED BY <1>1, AppendProperties

\* active_connections_ and its parts are finite.
LEMMA CardinalityType ==
  ASSUME TypeOK
  PROVE  IsFiniteSet(active) /\ Cardinality(active) \in Nat
<1>1. IsFiniteSet(Conns)
  BY ServerAssumption, FS_Interval DEF Conns
<1>2. IsFiniteSet(active)
  BY <1>1, FS_Subset DEF TypeOK
<1> QED BY <1>2, FS_CardinalityType

\* It counts one more or one less after an addition or a removal (Admit, RemoveConnection).
LEMMA ActiveCounts ==
  ASSUME TypeOK, NEW c \in Conns
  PROVE  /\ Cardinality(active) \in Nat
         /\ Cardinality(active \cup {c}) \in Nat
         /\ Cardinality(active \cup {c}) <= Cardinality(active) + 1
         /\ Cardinality(active \ {c}) \in Nat
         /\ Cardinality(active \ {c}) <= Cardinality(active)
<1>1. IsFiniteSet(active) /\ Cardinality(active) \in Nat
  BY CardinalityType
<1>2. /\ IsFiniteSet(active \cup {c})
      /\ Cardinality(active \cup {c}) = IF c \in active THEN Cardinality(active)
                                                      ELSE Cardinality(active) + 1
  BY <1>1, FS_AddElement
<1>3. /\ IsFiniteSet(active \ {c})
      /\ Cardinality(active \ {c}) = IF c \in active THEN Cardinality(active) - 1
                                                    ELSE Cardinality(active)
  BY <1>1, FS_RemoveElement
<1>4. Cardinality(active \cup {c}) \in Nat /\ Cardinality(active \ {c}) \in Nat
  BY <1>2, <1>3, FS_CardinalityType
<1> QED BY <1>1, <1>2, <1>3, <1>4
-----------------------------------------------------------------------------
(* Types. *)

\* The types hold at the start.
LEMMA InitTypeOK == Init => TypeOK
<1> SUFFICES ASSUME Init PROVE TypeOK
  OBVIOUS
<1>1. opened = 0 /\ backlog = <<>> /\ backlog \in Seq(1..opened)
  BY DEF Init
<1>2. 0 \in 0..MaxConns /\ 0 \in 0..MaxStarts /\ 0 \in 0..MaxRequests
  BY ServerAssumption
<1> QED BY <1>1, <1>2 DEF Init, TypeOK

\* The accept thread keeps the types.
LEMMA AcceptorTypeOK ==
  ASSUME TypeOK, Acceptor
  PROVE  TypeOK'
<1>1. CASE AcceptCheck
  BY <1>1, ServerAssumption DEF AcceptCheck, Close, TypeOK, Conns
<1>2. CASE AcceptFails
  BY <1>2, ServerAssumption DEF AcceptFails, Close, TypeOK, Conns
<1>3. CASE AcceptBlocks
  BY <1>3, ServerAssumption DEF AcceptBlocks, Close, TypeOK, Conns
<1>4. CASE Accept
  <2>1. Head(backlog) \in 1..opened /\ Tail(backlog) \in Seq(1..opened)
    BY <1>4, HeadTailProperties DEF Accept, TypeOK
  <2>2. Head(backlog) \in Conns /\ Head(backlog) # 0
    BY <2>1, ServerAssumption DEF TypeOK, Conns
  <2>3. <<>> \in Seq(1..opened)
    OBVIOUS
  <2> QED BY <1>4, <2>1, <2>2, <2>3 DEF Accept, TypeOK, Conns
<1>5. CASE AcceptWoken
  BY <1>5, ServerAssumption DEF AcceptWoken, Close, TypeOK, Conns
<1>6. CASE Refuse
  BY <1>6, ServerAssumption DEF Refuse, Close, TypeOK, Conns
<1>7. CASE UnderLimit
  BY <1>7, ServerAssumption DEF UnderLimit, Close, TypeOK, Conns
<1>8. CASE Admit
  BY <1>8, ServerAssumption DEF Admit, Close, TypeOK, Conns
<1> QED BY <1>1, <1>2, <1>3, <1>4, <1>5, <1>6, <1>7, <1>8 DEF Acceptor

\* A handler thread keeps the types.
LEMMA HandlerTypeOK ==
  ASSUME TypeOK, NEW c \in Conns, Handler(c)
  PROVE  TypeOK'
<1>1. CASE ReadFails(c)
  BY <1>1 DEF ReadFails, Close, Disconnected, GoTo, TypeOK, Conns
<1>2. CASE ReadBlocks(c)
  BY <1>2 DEF ReadBlocks, Close, Disconnected, GoTo, TypeOK, Conns
<1>3. CASE ReadHeader(c)
  BY <1>3 DEF ReadHeader, Close, Disconnected, GoTo, TypeOK, Conns
<1>4. CASE ReadPayload(c)
  BY <1>4 DEF ReadPayload, Close, Disconnected, GoTo, TypeOK, Conns
<1>5. CASE ReadBad(c)
  BY <1>5 DEF ReadBad, Close, Disconnected, GoTo, TypeOK, Conns
<1>6. CASE ReadEnd(c)
  BY <1>6 DEF ReadEnd, Close, Disconnected, GoTo, TypeOK, Conns
<1>7. CASE ReadWoken(c)
  BY <1>7 DEF ReadWoken, Close, Disconnected, GoTo, TypeOK, Conns
<1>8. CASE Respond(c)
  BY <1>8 DEF Respond, Close, Disconnected, GoTo, TypeOK, Conns
<1>9. CASE RespondFails(c)
  BY <1>9 DEF RespondFails, Close, Disconnected, GoTo, TypeOK, Conns
<1>10. CASE RemoveConnection(c)
  BY <1>10 DEF RemoveConnection, Close, Disconnected, GoTo, TypeOK, Conns
<1>11. CASE ThreadEnds(c)
  BY <1>11 DEF ThreadEnds, Close, Disconnected, GoTo, TypeOK, Conns
<1> QED BY <1>1, <1>2, <1>3, <1>4, <1>5, <1>6, <1>7, <1>8, <1>9, <1>10, <1>11 DEF Handler

\* start() and stop() keep the types.
LEMMA UserTypeOK ==
  ASSUME TypeOK, LifeInv, NEW u \in Users, User(u)
  PROVE  TypeOK'
<1>1. CASE Start(u)
  <2>1. acceptor = "none"
    BY <1>1 DEF Start, LifeInv, BeforeJoin
  <2> QED BY <1>1, <2>1, ServerAssumption DEF Start, TypeOK, Conns
<1>2. CASE StopBegins(u)
  BY <1>2, ServerAssumption DEF StopBegins, UserAt, TypeOK, Conns
<1>3. CASE CloseListener(u)
  <2>1. <<>> \in Seq(1..opened)
    OBVIOUS
  <2> QED BY <1>3, <2>1 DEF CloseListener, UserAt, TypeOK, Conns
<1>4. CASE Unlink(u)
  BY <1>4, ServerAssumption DEF Unlink, UserAt, TypeOK, Conns
<1>5. CASE JoinAcceptor(u)
  BY <1>5, ServerAssumption DEF JoinAcceptor, UserAt, TypeOK, Conns
<1>6. CASE JoinHandlers(u)
  BY <1>6, ServerAssumption DEF JoinHandlers, UserAt, TypeOK, Conns
<1>7. CASE StopReturned(u)
  BY <1>7, ServerAssumption DEF StopReturned, UserAt, TypeOK, Conns
<1>8. ASSUME NEW c \in Conns, CloseConnection(u, c) PROVE TypeOK'
  BY <1>8 DEF CloseConnection, Close, UserAt, TypeOK, Conns
<1> QED BY <1>1, <1>2, <1>3, <1>4, <1>5, <1>6, <1>7, <1>8 DEF User, Stopping

\* The clients keep the types.
LEMMA ClientTypeOK ==
  ASSUME TypeOK, ClientConnect \/ \E c \in Conns : Client(c)
  PROVE  TypeOK'
<1>1. CASE ClientConnect
  <2>1. Append(backlog, opened + 1) \in Seq(1..(opened + 1))
    BY <1>1, ServerAssumption, BacklogGrows DEF TypeOK
  <2> QED BY <1>1, <2>1, ServerAssumption DEF ClientConnect, TypeOK, Conns
<1>2. ASSUME NEW c \in Conns, NEW data \in {"request", "bad"}, ClientSend(c, data) PROVE TypeOK'
  BY <1>2, ServerAssumption DEF ClientSend, TypeOK, Conns
<1>3. ASSUME NEW c \in Conns, ClientClose(c) PROVE TypeOK'
  BY <1>3 DEF ClientClose, TypeOK, Conns
<1> QED BY <1>1, <1>2, <1>3 DEF Client
-----------------------------------------------------------------------------
(* The other parts of the invariant, each kept by every action. *)

\* The connection limit: only Admit adds, and only what UnderLimit found room for.
LEMMA LimitKept ==
  ASSUME IndInv, Next
  PROVE  LimitInv'
<1>1. CASE AcceptCheck
  BY <1>1 DEF AcceptCheck, IndInv, TypeOK, LimitInv, Alive
<1>2. CASE AcceptFails
  BY <1>2 DEF AcceptFails, IndInv, TypeOK, LimitInv, Alive
<1>3. CASE AcceptBlocks
  BY <1>3 DEF AcceptBlocks, IndInv, TypeOK, LimitInv, Alive
<1>4. CASE Accept
  BY <1>4 DEF Accept, IndInv, TypeOK, LimitInv, Alive
<1>5. CASE AcceptWoken
  BY <1>5 DEF AcceptWoken, IndInv, TypeOK, LimitInv, Alive
<1>6. CASE Refuse
  BY <1>6 DEF Refuse, Close, IndInv, TypeOK, LimitInv, Alive
<1>7. CASE UnderLimit
  <2>1. Cardinality(active) \in Nat
    BY CardinalityType DEF IndInv
  <2> QED BY <1>7, <2>1, ServerAssumption
         DEF UnderLimit, AtLimit, IndInv, TypeOK, LimitInv, Alive
<1>8. CASE Admit
  <2>1. held \in Conns
    BY <1>8 DEF Admit, IndInv, TypeOK
  <2>2. Cardinality(active \cup {held}) <= Cardinality(active) + 1
        /\ Cardinality(active) \in Nat /\ Cardinality(active \cup {held}) \in Nat
    BY <2>1, ActiveCounts DEF IndInv
  <2> QED BY <1>8, <2>1, <2>2, ServerAssumption DEF Admit, IndInv, TypeOK, LimitInv, Alive
<1>9. ASSUME NEW c \in Conns, ReadFails(c) PROVE LimitInv'
  BY <1>9 DEF ReadFails, Disconnected, GoTo, IndInv, TypeOK, LimitInv, Alive
<1>10. ASSUME NEW c \in Conns, ReadBlocks(c) PROVE LimitInv'
  BY <1>10 DEF ReadBlocks, GoTo, IndInv, TypeOK, LimitInv, Alive
<1>11. ASSUME NEW c \in Conns, ReadHeader(c) PROVE LimitInv'
  BY <1>11 DEF ReadHeader, GoTo, IndInv, TypeOK, LimitInv, Alive
<1>12. ASSUME NEW c \in Conns, ReadPayload(c) PROVE LimitInv'
  BY <1>12 DEF ReadPayload, GoTo, IndInv, TypeOK, LimitInv, Alive
<1>13. ASSUME NEW c \in Conns, ReadBad(c) PROVE LimitInv'
  BY <1>13 DEF ReadBad, GoTo, IndInv, TypeOK, LimitInv, Alive
<1>14. ASSUME NEW c \in Conns, ReadEnd(c) PROVE LimitInv'
  BY <1>14 DEF ReadEnd, Disconnected, GoTo, IndInv, TypeOK, LimitInv, Alive
<1>15. ASSUME NEW c \in Conns, ReadWoken(c) PROVE LimitInv'
  BY <1>15 DEF ReadWoken, Disconnected, GoTo, IndInv, TypeOK, LimitInv, Alive
<1>16. ASSUME NEW c \in Conns, Respond(c) PROVE LimitInv'
  BY <1>16 DEF Respond, GoTo, IndInv, TypeOK, LimitInv, Alive
<1>17. ASSUME NEW c \in Conns, RespondFails(c) PROVE LimitInv'
  BY <1>17 DEF RespondFails, Disconnected, GoTo, IndInv, TypeOK, LimitInv, Alive
<1>18. ASSUME NEW c \in Conns, RemoveConnection(c) PROVE LimitInv'
  <2>1. Cardinality(active \ {c}) <= Cardinality(active) /\ Cardinality(active) \in Nat
        /\ Cardinality(active \ {c}) \in Nat
    BY ActiveCounts DEF IndInv
  <2> QED BY <1>18, <2>1, ServerAssumption
         DEF RemoveConnection, GoTo, IndInv, TypeOK, LimitInv, Alive
<1>19. ASSUME NEW c \in Conns, ThreadEnds(c) PROVE LimitInv'
  BY <1>19 DEF ThreadEnds, Close, GoTo, IndInv, TypeOK, LimitInv, Alive
<1>20. ASSUME NEW u \in Users, Start(u) PROVE LimitInv'
  BY <1>20 DEF Start, IndInv, TypeOK, LimitInv, Alive
<1>21. ASSUME NEW u \in Users, StopBegins(u) PROVE LimitInv'
  BY <1>21 DEF StopBegins, UserAt, IndInv, TypeOK, LimitInv, Alive
<1>22. ASSUME NEW u \in Users, CloseListener(u) PROVE LimitInv'
  BY <1>22 DEF CloseListener, UserAt, IndInv, TypeOK, LimitInv, Alive
<1>23. ASSUME NEW u \in Users, Unlink(u) PROVE LimitInv'
  BY <1>23 DEF Unlink, UserAt, IndInv, TypeOK, LimitInv, Alive
<1>24. ASSUME NEW u \in Users, JoinAcceptor(u) PROVE LimitInv'
  BY <1>24 DEF JoinAcceptor, UserAt, IndInv, TypeOK, LimitInv, Alive
<1>25. ASSUME NEW u \in Users, JoinHandlers(u) PROVE LimitInv'
  BY <1>25 DEF JoinHandlers, UserAt, IndInv, TypeOK, LimitInv, Alive
<1>26. ASSUME NEW u \in Users, StopReturned(u) PROVE LimitInv'
  BY <1>26 DEF StopReturned, UserAt, IndInv, TypeOK, LimitInv, Alive
<1>27. ASSUME NEW u \in Users, NEW c \in Conns, CloseConnection(u, c) PROVE LimitInv'
  BY <1>27 DEF CloseConnection, Close, UserAt, IndInv, TypeOK, LimitInv, Alive
<1>28. CASE ClientConnect
  BY <1>28 DEF ClientConnect, IndInv, TypeOK, LimitInv, Alive
<1>29. ASSUME NEW c \in Conns, NEW data \in {"request", "bad"}, ClientSend(c, data) PROVE LimitInv'
  BY <1>29 DEF ClientSend, IndInv, TypeOK, LimitInv, Alive
<1>30. ASSUME NEW c \in Conns, ClientClose(c) PROVE LimitInv'
  BY <1>30 DEF ClientClose, IndInv, TypeOK, LimitInv, Alive
<1> QED BY <1>1, <1>2, <1>3, <1>4, <1>5, <1>6, <1>7, <1>8, <1>9, <1>10,
           <1>11, <1>12, <1>13, <1>14, <1>15, <1>16, <1>17, <1>18, <1>19,
           <1>20, <1>21, <1>22, <1>23, <1>24, <1>25, <1>26, <1>27, <1>28,
           <1>29, <1>30
       DEF Next, Acceptor, Handler, User, Stopping, Client

\* Who is in stop(), and whether the accept thread is there.
LEMMA LifeKept ==
  ASSUME IndInv, Next
  PROVE  LifeInv'
<1>1. CASE AcceptCheck
  BY <1>1 DEF AcceptCheck, IndInv, TypeOK, LifeInv, InStop, BeforeJoin
<1>2. CASE AcceptFails
  BY <1>2 DEF AcceptFails, IndInv, TypeOK, LifeInv, InStop, BeforeJoin
<1>3. CASE AcceptBlocks
  BY <1>3 DEF AcceptBlocks, IndInv, TypeOK, LifeInv, InStop, BeforeJoin
<1>4. CASE Accept
  BY <1>4 DEF Accept, IndInv, TypeOK, LifeInv, InStop, BeforeJoin
<1>5. CASE AcceptWoken
  BY <1>5 DEF AcceptWoken, IndInv, TypeOK, LifeInv, InStop, BeforeJoin
<1>6. CASE Refuse
  BY <1>6 DEF Refuse, Close, IndInv, TypeOK, LifeInv, InStop, BeforeJoin
<1>7. CASE UnderLimit
  BY <1>7 DEF UnderLimit, IndInv, TypeOK, LifeInv, InStop, BeforeJoin
<1>8. CASE Admit
  BY <1>8 DEF Admit, IndInv, TypeOK, LifeInv, InStop, BeforeJoin
<1>9. ASSUME NEW c \in Conns, ReadFails(c) PROVE LifeInv'
  BY <1>9 DEF ReadFails, Disconnected, GoTo, IndInv, TypeOK, LifeInv, InStop, BeforeJoin
<1>10. ASSUME NEW c \in Conns, ReadBlocks(c) PROVE LifeInv'
  BY <1>10 DEF ReadBlocks, GoTo, IndInv, TypeOK, LifeInv, InStop, BeforeJoin
<1>11. ASSUME NEW c \in Conns, ReadHeader(c) PROVE LifeInv'
  BY <1>11 DEF ReadHeader, GoTo, IndInv, TypeOK, LifeInv, InStop, BeforeJoin
<1>12. ASSUME NEW c \in Conns, ReadPayload(c) PROVE LifeInv'
  BY <1>12 DEF ReadPayload, GoTo, IndInv, TypeOK, LifeInv, InStop, BeforeJoin
<1>13. ASSUME NEW c \in Conns, ReadBad(c) PROVE LifeInv'
  BY <1>13 DEF ReadBad, GoTo, IndInv, TypeOK, LifeInv, InStop, BeforeJoin
<1>14. ASSUME NEW c \in Conns, ReadEnd(c) PROVE LifeInv'
  BY <1>14 DEF ReadEnd, Disconnected, GoTo, IndInv, TypeOK, LifeInv, InStop, BeforeJoin
<1>15. ASSUME NEW c \in Conns, ReadWoken(c) PROVE LifeInv'
  BY <1>15 DEF ReadWoken, Disconnected, GoTo, IndInv, TypeOK, LifeInv, InStop, BeforeJoin
<1>16. ASSUME NEW c \in Conns, Respond(c) PROVE LifeInv'
  BY <1>16 DEF Respond, GoTo, IndInv, TypeOK, LifeInv, InStop, BeforeJoin
<1>17. ASSUME NEW c \in Conns, RespondFails(c) PROVE LifeInv'
  BY <1>17 DEF RespondFails, Disconnected, GoTo, IndInv, TypeOK, LifeInv, InStop, BeforeJoin
<1>18. ASSUME NEW c \in Conns, RemoveConnection(c) PROVE LifeInv'
  BY <1>18 DEF RemoveConnection, GoTo, IndInv, TypeOK, LifeInv, InStop, BeforeJoin
<1>19. ASSUME NEW c \in Conns, ThreadEnds(c) PROVE LifeInv'
  BY <1>19 DEF ThreadEnds, Close, GoTo, IndInv, TypeOK, LifeInv, InStop, BeforeJoin
<1>20. ASSUME NEW u \in Users, Start(u) PROVE LifeInv'
  BY <1>20 DEF Start, IndInv, TypeOK, LifeInv, InStop, BeforeJoin
<1>21. ASSUME NEW u \in Users, StopBegins(u) PROVE LifeInv'
  BY <1>21 DEF StopBegins, UserAt, IndInv, TypeOK, LifeInv, InStop, BeforeJoin
<1>22. ASSUME NEW u \in Users, CloseListener(u) PROVE LifeInv'
  BY <1>22 DEF CloseListener, UserAt, IndInv, TypeOK, LifeInv, InStop, BeforeJoin
<1>23. ASSUME NEW u \in Users, Unlink(u) PROVE LifeInv'
  BY <1>23 DEF Unlink, UserAt, IndInv, TypeOK, LifeInv, InStop, BeforeJoin
<1>24. ASSUME NEW u \in Users, JoinAcceptor(u) PROVE LifeInv'
  BY <1>24 DEF JoinAcceptor, UserAt, IndInv, TypeOK, LifeInv, InStop, BeforeJoin
<1>25. ASSUME NEW u \in Users, JoinHandlers(u) PROVE LifeInv'
  BY <1>25 DEF JoinHandlers, UserAt, IndInv, TypeOK, LifeInv, InStop, BeforeJoin
<1>26. ASSUME NEW u \in Users, StopReturned(u) PROVE LifeInv'
  BY <1>26 DEF StopReturned, UserAt, IndInv, TypeOK, LifeInv, InStop, BeforeJoin
<1>27. ASSUME NEW u \in Users, NEW c \in Conns, CloseConnection(u, c) PROVE LifeInv'
  BY <1>27 DEF CloseConnection, Close, UserAt, IndInv, TypeOK, LifeInv, InStop, BeforeJoin
<1>28. CASE ClientConnect
  BY <1>28 DEF ClientConnect, IndInv, TypeOK, LifeInv, InStop, BeforeJoin
<1>29. ASSUME NEW c \in Conns, NEW data \in {"request", "bad"}, ClientSend(c, data) PROVE LifeInv'
  BY <1>29 DEF ClientSend, IndInv, TypeOK, LifeInv, InStop, BeforeJoin
<1>30. ASSUME NEW c \in Conns, ClientClose(c) PROVE LifeInv'
  BY <1>30 DEF ClientClose, IndInv, TypeOK, LifeInv, InStop, BeforeJoin
<1> QED BY <1>1, <1>2, <1>3, <1>4, <1>5, <1>6, <1>7, <1>8, <1>9, <1>10,
           <1>11, <1>12, <1>13, <1>14, <1>15, <1>16, <1>17, <1>18, <1>19,
           <1>20, <1>21, <1>22, <1>23, <1>24, <1>25, <1>26, <1>27, <1>28,
           <1>29, <1>30
       DEF Next, Acceptor, Handler, User, Stopping, Client

\* Only a handler whose client has left, or whose descriptor is closed, clears connected_ alone.
LEMMA DescriptorsKept ==
  ASSUME IndInv, Next
  PROVE  DescriptorInv'
<1>1. CASE AcceptCheck
  BY <1>1 DEF AcceptCheck, IndInv, TypeOK, DescriptorInv
<1>2. CASE AcceptFails
  BY <1>2 DEF AcceptFails, IndInv, TypeOK, DescriptorInv
<1>3. CASE AcceptBlocks
  BY <1>3 DEF AcceptBlocks, IndInv, TypeOK, DescriptorInv
<1>4. CASE Accept
  <2>1. Head(backlog) \in 1..opened
    BY <1>4, HeadTailProperties DEF Accept, IndInv, TypeOK
  <2>2. opened \in Nat /\ Head(backlog) \in Conns /\ Head(backlog) <= opened
    BY <2>1, ServerAssumption DEF IndInv, TypeOK, Conns
  <2> QED BY <1>4, <2>2 DEF Accept, IndInv, TypeOK, DescriptorInv
<1>5. CASE AcceptWoken
  BY <1>5 DEF AcceptWoken, IndInv, TypeOK, DescriptorInv
<1>6. CASE Refuse
  BY <1>6 DEF Refuse, Close, IndInv, TypeOK, DescriptorInv
<1>7. CASE UnderLimit
  BY <1>7 DEF UnderLimit, IndInv, TypeOK, DescriptorInv
<1>8. CASE Admit
  BY <1>8 DEF Admit, IndInv, TypeOK, DescriptorInv
<1>9. ASSUME NEW c \in Conns, ReadFails(c) PROVE DescriptorInv'
  BY <1>9 DEF ReadFails, Disconnected, GoTo, IndInv, TypeOK, DescriptorInv
<1>10. ASSUME NEW c \in Conns, ReadBlocks(c) PROVE DescriptorInv'
  BY <1>10 DEF ReadBlocks, GoTo, IndInv, TypeOK, DescriptorInv
<1>11. ASSUME NEW c \in Conns, ReadHeader(c) PROVE DescriptorInv'
  BY <1>11 DEF ReadHeader, GoTo, IndInv, TypeOK, DescriptorInv
<1>12. ASSUME NEW c \in Conns, ReadPayload(c) PROVE DescriptorInv'
  BY <1>12 DEF ReadPayload, GoTo, IndInv, TypeOK, DescriptorInv
<1>13. ASSUME NEW c \in Conns, ReadBad(c) PROVE DescriptorInv'
  BY <1>13 DEF ReadBad, GoTo, IndInv, TypeOK, DescriptorInv
<1>14. ASSUME NEW c \in Conns, ReadEnd(c) PROVE DescriptorInv'
  BY <1>14 DEF ReadEnd, Disconnected, GoTo, IndInv, TypeOK, DescriptorInv
<1>15. ASSUME NEW c \in Conns, ReadWoken(c) PROVE DescriptorInv'
  BY <1>15 DEF ReadWoken, Disconnected, GoTo, IndInv, TypeOK, DescriptorInv
<1>16. ASSUME NEW c \in Conns, Respond(c) PROVE DescriptorInv'
  BY <1>16 DEF Respond, GoTo, IndInv, TypeOK, DescriptorInv
<1>17. ASSUME NEW c \in Conns, RespondFails(c) PROVE DescriptorInv'
  BY <1>17 DEF RespondFails, Disconnected, GoTo, IndInv, TypeOK, DescriptorInv
<1>18. ASSUME NEW c \in Conns, RemoveConnection(c) PROVE DescriptorInv'
  BY <1>18 DEF RemoveConnection, GoTo, IndInv, TypeOK, DescriptorInv
<1>19. ASSUME NEW c \in Conns, ThreadEnds(c) PROVE DescriptorInv'
  BY <1>19 DEF ThreadEnds, Close, GoTo, IndInv, TypeOK, DescriptorInv
<1>20. ASSUME NEW u \in Users, Start(u) PROVE DescriptorInv'
  BY <1>20 DEF Start, IndInv, TypeOK, DescriptorInv
<1>21. ASSUME NEW u \in Users, StopBegins(u) PROVE DescriptorInv'
  BY <1>21 DEF StopBegins, UserAt, IndInv, TypeOK, DescriptorInv
<1>22. ASSUME NEW u \in Users, CloseListener(u) PROVE DescriptorInv'
  BY <1>22 DEF CloseListener, UserAt, IndInv, TypeOK, DescriptorInv
<1>23. ASSUME NEW u \in Users, Unlink(u) PROVE DescriptorInv'
  BY <1>23 DEF Unlink, UserAt, IndInv, TypeOK, DescriptorInv
<1>24. ASSUME NEW u \in Users, JoinAcceptor(u) PROVE DescriptorInv'
  BY <1>24 DEF JoinAcceptor, UserAt, IndInv, TypeOK, DescriptorInv
<1>25. ASSUME NEW u \in Users, JoinHandlers(u) PROVE DescriptorInv'
  BY <1>25 DEF JoinHandlers, UserAt, IndInv, TypeOK, DescriptorInv
<1>26. ASSUME NEW u \in Users, StopReturned(u) PROVE DescriptorInv'
  BY <1>26 DEF StopReturned, UserAt, IndInv, TypeOK, DescriptorInv
<1>27. ASSUME NEW u \in Users, NEW c \in Conns, CloseConnection(u, c) PROVE DescriptorInv'
  BY <1>27 DEF CloseConnection, Close, UserAt, IndInv, TypeOK, DescriptorInv
<1>28. CASE ClientConnect
  <2>1. opened \in Nat /\ opened + 1 \in Conns
    BY <1>28, ServerAssumption DEF ClientConnect, IndInv, TypeOK, Conns
  <2> QED BY <1>28, <2>1 DEF ClientConnect, IndInv, TypeOK, DescriptorInv, Conns
<1>29. ASSUME NEW c \in Conns, NEW data \in {"request", "bad"}, ClientSend(c, data)
       PROVE  DescriptorInv'
  BY <1>29 DEF ClientSend, IndInv, TypeOK, DescriptorInv
<1>30. ASSUME NEW c \in Conns, ClientClose(c) PROVE DescriptorInv'
  BY <1>30 DEF ClientClose, IndInv, TypeOK, DescriptorInv
<1> QED BY <1>1, <1>2, <1>3, <1>4, <1>5, <1>6, <1>7, <1>8, <1>9, <1>10,
           <1>11, <1>12, <1>13, <1>14, <1>15, <1>16, <1>17, <1>18, <1>19,
           <1>20, <1>21, <1>22, <1>23, <1>24, <1>25, <1>26, <1>27, <1>28,
           <1>29, <1>30
       DEF Next, Acceptor, Handler, User, Stopping, Client

\* A connection leaves the hands of the server closed, or with its client gone.
LEMMA ToldKept ==
  ASSUME IndInv, Next
  PROVE  ClientIsTold'
<1>1. CASE AcceptCheck
  BY <1>1, ServerAssumption
     DEF AcceptCheck, IndInv, TypeOK, DescriptorInv, ClientIsTold, Conns
<1>2. CASE AcceptFails
  BY <1>2, ServerAssumption
     DEF AcceptFails, IndInv, TypeOK, DescriptorInv, ClientIsTold, Conns
<1>3. CASE AcceptBlocks
  BY <1>3, ServerAssumption
     DEF AcceptBlocks, IndInv, TypeOK, DescriptorInv, ClientIsTold, Conns
<1>4. CASE Accept
  <2>1. Head(backlog) \in 1..opened
    BY <1>4, HeadTailProperties DEF Accept, IndInv, TypeOK
  <2>2. opened \in Nat /\ Head(backlog) \in Conns /\ Head(backlog) <= opened
    BY <2>1, ServerAssumption DEF IndInv, TypeOK, Conns
  <2> QED BY <1>4, <2>2 DEF Accept, IndInv, TypeOK, ClientIsTold
<1>5. CASE AcceptWoken
  BY <1>5, ServerAssumption
     DEF AcceptWoken, IndInv, TypeOK, DescriptorInv, ClientIsTold, Conns
<1>6. CASE Refuse
  BY <1>6, ServerAssumption
     DEF Refuse, Close, IndInv, TypeOK, DescriptorInv, ClientIsTold, Conns
<1>7. CASE UnderLimit
  BY <1>7, ServerAssumption
     DEF UnderLimit, IndInv, TypeOK, DescriptorInv, ClientIsTold, Conns
<1>8. CASE Admit
  BY <1>8, ServerAssumption DEF Admit, IndInv, TypeOK, DescriptorInv, ClientIsTold, Conns
<1>9. ASSUME NEW c \in Conns, ReadFails(c) PROVE ClientIsTold'
  BY <1>9, ServerAssumption
     DEF ReadFails, Disconnected, GoTo, IndInv, TypeOK, DescriptorInv, ClientIsTold, Conns
<1>10. ASSUME NEW c \in Conns, ReadBlocks(c) PROVE ClientIsTold'
  BY <1>10, ServerAssumption
     DEF ReadBlocks, GoTo, IndInv, TypeOK, DescriptorInv, ClientIsTold, Conns
<1>11. ASSUME NEW c \in Conns, ReadHeader(c) PROVE ClientIsTold'
  BY <1>11, ServerAssumption
     DEF ReadHeader, GoTo, IndInv, TypeOK, DescriptorInv, ClientIsTold, Conns
<1>12. ASSUME NEW c \in Conns, ReadPayload(c) PROVE ClientIsTold'
  BY <1>12, ServerAssumption
     DEF ReadPayload, GoTo, IndInv, TypeOK, DescriptorInv, ClientIsTold, Conns
<1>13. ASSUME NEW c \in Conns, ReadBad(c) PROVE ClientIsTold'
  BY <1>13, ServerAssumption
     DEF ReadBad, GoTo, IndInv, TypeOK, DescriptorInv, ClientIsTold, Conns
<1>14. ASSUME NEW c \in Conns, ReadEnd(c) PROVE ClientIsTold'
  BY <1>14, ServerAssumption
     DEF ReadEnd, Disconnected, GoTo, IndInv, TypeOK, DescriptorInv, ClientIsTold, Conns
<1>15. ASSUME NEW c \in Conns, ReadWoken(c) PROVE ClientIsTold'
  BY <1>15, ServerAssumption
     DEF ReadWoken, Disconnected, GoTo, IndInv, TypeOK, DescriptorInv, ClientIsTold, Conns
<1>16. ASSUME NEW c \in Conns, Respond(c) PROVE ClientIsTold'
  BY <1>16, ServerAssumption
     DEF Respond, GoTo, IndInv, TypeOK, DescriptorInv, ClientIsTold, Conns
<1>17. ASSUME NEW c \in Conns, RespondFails(c) PROVE ClientIsTold'
  BY <1>17, ServerAssumption
     DEF RespondFails, Disconnected, GoTo, IndInv, TypeOK, DescriptorInv, ClientIsTold,
         Conns
<1>18. ASSUME NEW c \in Conns, RemoveConnection(c) PROVE ClientIsTold'
  BY <1>18, ServerAssumption
     DEF RemoveConnection, GoTo, IndInv, TypeOK, DescriptorInv, ClientIsTold, Conns
<1>19. ASSUME NEW c \in Conns, ThreadEnds(c) PROVE ClientIsTold'
  BY <1>19, ServerAssumption
     DEF ThreadEnds, Close, GoTo, IndInv, TypeOK, DescriptorInv, ClientIsTold, Conns
<1>20. ASSUME NEW u \in Users, Start(u) PROVE ClientIsTold'
  BY <1>20, ServerAssumption DEF Start, IndInv, TypeOK, DescriptorInv, ClientIsTold, Conns
<1>21. ASSUME NEW u \in Users, StopBegins(u) PROVE ClientIsTold'
  BY <1>21, ServerAssumption
     DEF StopBegins, UserAt, IndInv, TypeOK, DescriptorInv, ClientIsTold, Conns
<1>22. ASSUME NEW u \in Users, CloseListener(u) PROVE ClientIsTold'
  BY <1>22, ServerAssumption
     DEF CloseListener, UserAt, IndInv, TypeOK, DescriptorInv, ClientIsTold, Conns
<1>23. ASSUME NEW u \in Users, Unlink(u) PROVE ClientIsTold'
  BY <1>23, ServerAssumption
     DEF Unlink, UserAt, IndInv, TypeOK, DescriptorInv, ClientIsTold, Conns
<1>24. ASSUME NEW u \in Users, JoinAcceptor(u) PROVE ClientIsTold'
  BY <1>24, ServerAssumption
     DEF JoinAcceptor, UserAt, IndInv, TypeOK, DescriptorInv, ClientIsTold, Conns
<1>25. ASSUME NEW u \in Users, JoinHandlers(u) PROVE ClientIsTold'
  BY <1>25, ServerAssumption
     DEF JoinHandlers, UserAt, IndInv, TypeOK, DescriptorInv, ClientIsTold, Conns
<1>26. ASSUME NEW u \in Users, StopReturned(u) PROVE ClientIsTold'
  BY <1>26, ServerAssumption
     DEF StopReturned, UserAt, IndInv, TypeOK, DescriptorInv, ClientIsTold, Conns
<1>27. ASSUME NEW u \in Users, NEW c \in Conns, CloseConnection(u, c) PROVE ClientIsTold'
  BY <1>27, ServerAssumption
     DEF CloseConnection, Close, UserAt, IndInv, TypeOK, DescriptorInv, ClientIsTold, Conns
<1>28. CASE ClientConnect
  BY <1>28, ServerAssumption
     DEF ClientConnect, IndInv, TypeOK, DescriptorInv, ClientIsTold, Conns
<1>29. ASSUME NEW c \in Conns, NEW data \in {"request", "bad"}, ClientSend(c, data)
       PROVE  ClientIsTold'
  BY <1>29, ServerAssumption
     DEF ClientSend, IndInv, TypeOK, DescriptorInv, ClientIsTold, Conns
<1>30. ASSUME NEW c \in Conns, ClientClose(c) PROVE ClientIsTold'
  BY <1>30, ServerAssumption
     DEF ClientClose, IndInv, TypeOK, DescriptorInv, ClientIsTold, Conns
<1> QED BY <1>1, <1>2, <1>3, <1>4, <1>5, <1>6, <1>7, <1>8, <1>9, <1>10,
           <1>11, <1>12, <1>13, <1>14, <1>15, <1>16, <1>17, <1>18, <1>19,
           <1>20, <1>21, <1>22, <1>23, <1>24, <1>25, <1>26, <1>27, <1>28,
           <1>29, <1>30
       DEF Next, Acceptor, Handler, User, Stopping, Client

\* The backlog goes with its listening socket; a thread is in the list until it is joined.
LEMMA OwnersKept ==
  ASSUME IndInv, Next
  PROVE  OwnerInv'
<1>1. CASE AcceptCheck
  BY <1>1 DEF AcceptCheck, IndInv, TypeOK, OwnerInv, OutlivesClose, LifeInv
<1>2. CASE AcceptFails
  BY <1>2 DEF AcceptFails, IndInv, TypeOK, OwnerInv, OutlivesClose, LifeInv
<1>3. CASE AcceptBlocks
  BY <1>3 DEF AcceptBlocks, IndInv, TypeOK, OwnerInv, OutlivesClose, LifeInv
<1>4. CASE Accept
  BY <1>4 DEF Accept, IndInv, TypeOK, OwnerInv, OutlivesClose, LifeInv
<1>5. CASE AcceptWoken
  BY <1>5 DEF AcceptWoken, IndInv, TypeOK, OwnerInv, OutlivesClose, LifeInv
<1>6. CASE Refuse
  BY <1>6 DEF Refuse, Close, IndInv, TypeOK, OwnerInv, OutlivesClose, LifeInv
<1>7. CASE UnderLimit
  BY <1>7 DEF UnderLimit, IndInv, TypeOK, OwnerInv, OutlivesClose, LifeInv
<1>8. CASE Admit
  BY <1>8 DEF Admit, IndInv, TypeOK, OwnerInv, OutlivesClose, LifeInv
<1>9. ASSUME NEW c \in Conns, ReadFails(c) PROVE OwnerInv'
  BY <1>9
     DEF ReadFails, Disconnected, GoTo, IndInv, TypeOK, OwnerInv, OutlivesClose, LifeInv
<1>10. ASSUME NEW c \in Conns, ReadBlocks(c) PROVE OwnerInv'
  BY <1>10 DEF ReadBlocks, GoTo, IndInv, TypeOK, OwnerInv, OutlivesClose, LifeInv
<1>11. ASSUME NEW c \in Conns, ReadHeader(c) PROVE OwnerInv'
  BY <1>11 DEF ReadHeader, GoTo, IndInv, TypeOK, OwnerInv, OutlivesClose, LifeInv
<1>12. ASSUME NEW c \in Conns, ReadPayload(c) PROVE OwnerInv'
  BY <1>12 DEF ReadPayload, GoTo, IndInv, TypeOK, OwnerInv, OutlivesClose, LifeInv
<1>13. ASSUME NEW c \in Conns, ReadBad(c) PROVE OwnerInv'
  BY <1>13 DEF ReadBad, GoTo, IndInv, TypeOK, OwnerInv, OutlivesClose, LifeInv
<1>14. ASSUME NEW c \in Conns, ReadEnd(c) PROVE OwnerInv'
  BY <1>14 DEF ReadEnd, Disconnected, GoTo, IndInv, TypeOK, OwnerInv, OutlivesClose, LifeInv
<1>15. ASSUME NEW c \in Conns, ReadWoken(c) PROVE OwnerInv'
  BY <1>15
     DEF ReadWoken, Disconnected, GoTo, IndInv, TypeOK, OwnerInv, OutlivesClose, LifeInv
<1>16. ASSUME NEW c \in Conns, Respond(c) PROVE OwnerInv'
  BY <1>16 DEF Respond, GoTo, IndInv, TypeOK, OwnerInv, OutlivesClose, LifeInv
<1>17. ASSUME NEW c \in Conns, RespondFails(c) PROVE OwnerInv'
  BY <1>17
     DEF RespondFails, Disconnected, GoTo, IndInv, TypeOK, OwnerInv, OutlivesClose, LifeInv
<1>18. ASSUME NEW c \in Conns, RemoveConnection(c) PROVE OwnerInv'
  BY <1>18 DEF RemoveConnection, GoTo, IndInv, TypeOK, OwnerInv, OutlivesClose, LifeInv
<1>19. ASSUME NEW c \in Conns, ThreadEnds(c) PROVE OwnerInv'
  BY <1>19 DEF ThreadEnds, Close, GoTo, IndInv, TypeOK, OwnerInv, OutlivesClose, LifeInv
<1>20. ASSUME NEW u \in Users, Start(u) PROVE OwnerInv'
  BY <1>20 DEF Start, IndInv, TypeOK, OwnerInv, OutlivesClose, LifeInv
<1>21. ASSUME NEW u \in Users, StopBegins(u) PROVE OwnerInv'
  BY <1>21 DEF StopBegins, UserAt, IndInv, TypeOK, OwnerInv, OutlivesClose, LifeInv
<1>22. ASSUME NEW u \in Users, CloseListener(u) PROVE OwnerInv'
  BY <1>22 DEF CloseListener, UserAt, IndInv, TypeOK, OwnerInv, OutlivesClose, LifeInv
<1>23. ASSUME NEW u \in Users, Unlink(u) PROVE OwnerInv'
  BY <1>23 DEF Unlink, UserAt, IndInv, TypeOK, OwnerInv, OutlivesClose, LifeInv
<1>24. ASSUME NEW u \in Users, JoinAcceptor(u) PROVE OwnerInv'
  BY <1>24 DEF JoinAcceptor, UserAt, IndInv, TypeOK, OwnerInv, OutlivesClose, LifeInv
<1>25. ASSUME NEW u \in Users, JoinHandlers(u) PROVE OwnerInv'
  BY <1>25 DEF JoinHandlers, UserAt, IndInv, TypeOK, OwnerInv, OutlivesClose, LifeInv
<1>26. ASSUME NEW u \in Users, StopReturned(u) PROVE OwnerInv'
  BY <1>26 DEF StopReturned, UserAt, IndInv, TypeOK, OwnerInv, OutlivesClose, LifeInv
<1>27. ASSUME NEW u \in Users, NEW c \in Conns, CloseConnection(u, c) PROVE OwnerInv'
  BY <1>27
     DEF CloseConnection, Close, UserAt, IndInv, TypeOK, OwnerInv, OutlivesClose, LifeInv
<1>28. CASE ClientConnect
  BY <1>28 DEF ClientConnect, IndInv, TypeOK, OwnerInv, OutlivesClose, LifeInv
<1>29. ASSUME NEW c \in Conns, NEW data \in {"request", "bad"}, ClientSend(c, data) PROVE OwnerInv'
  BY <1>29 DEF ClientSend, IndInv, TypeOK, OwnerInv, OutlivesClose, LifeInv
<1>30. ASSUME NEW c \in Conns, ClientClose(c) PROVE OwnerInv'
  BY <1>30 DEF ClientClose, IndInv, TypeOK, OwnerInv, OutlivesClose, LifeInv
<1> QED BY <1>1, <1>2, <1>3, <1>4, <1>5, <1>6, <1>7, <1>8, <1>9, <1>10,
           <1>11, <1>12, <1>13, <1>14, <1>15, <1>16, <1>17, <1>18, <1>19,
           <1>20, <1>21, <1>22, <1>23, <1>24, <1>25, <1>26, <1>27, <1>28,
           <1>29, <1>30
       DEF Next, Acceptor, Handler, User, Stopping, Client

\* One user: stop() goes through its points with nobody in between.
LEMMA StopKept ==
  ASSUME IndInv, StopInv, OneUser, Next
  PROVE  StopInv'
<1>1. CASE AcceptCheck
  BY <1>1
     DEF AcceptCheck, IndInv, TypeOK, LifeInv, StopInv, Stopped, OneUser, InStop, BeforeJoin
<1>2. CASE AcceptFails
  BY <1>2
     DEF AcceptFails, IndInv, TypeOK, LifeInv, StopInv, Stopped, OneUser, InStop, BeforeJoin
<1>3. CASE AcceptBlocks
  BY <1>3
     DEF AcceptBlocks, IndInv, TypeOK, LifeInv, StopInv, Stopped, OneUser, InStop,
         BeforeJoin
<1>4. CASE Accept
  BY <1>4 DEF Accept, IndInv, TypeOK, LifeInv, StopInv, Stopped, OneUser, InStop, BeforeJoin
<1>5. CASE AcceptWoken
  BY <1>5
     DEF AcceptWoken, IndInv, TypeOK, LifeInv, StopInv, Stopped, OneUser, InStop, BeforeJoin
<1>6. CASE Refuse
  BY <1>6
     DEF Refuse, Close, IndInv, TypeOK, LifeInv, StopInv, Stopped, OneUser,
         InStop, BeforeJoin
<1>7. CASE UnderLimit
  BY <1>7
     DEF UnderLimit, IndInv, TypeOK, LifeInv, StopInv, Stopped, OneUser, InStop, BeforeJoin
<1>8. CASE Admit
  BY <1>8 DEF Admit, IndInv, TypeOK, LifeInv, StopInv, Stopped, OneUser, InStop, BeforeJoin
<1>9. ASSUME NEW c \in Conns, ReadFails(c) PROVE StopInv'
  BY <1>9
     DEF ReadFails, Disconnected, GoTo, IndInv, TypeOK, LifeInv, StopInv, Stopped, OneUser,
         InStop, BeforeJoin
<1>10. ASSUME NEW c \in Conns, ReadBlocks(c) PROVE StopInv'
  BY <1>10
     DEF ReadBlocks, GoTo, IndInv, TypeOK, LifeInv, StopInv, Stopped, OneUser, InStop,
         BeforeJoin
<1>11. ASSUME NEW c \in Conns, ReadHeader(c) PROVE StopInv'
  BY <1>11
     DEF ReadHeader, GoTo, IndInv, TypeOK, LifeInv, StopInv, Stopped, OneUser, InStop,
         BeforeJoin
<1>12. ASSUME NEW c \in Conns, ReadPayload(c) PROVE StopInv'
  BY <1>12
     DEF ReadPayload, GoTo, IndInv, TypeOK, LifeInv, StopInv, Stopped, OneUser, InStop,
         BeforeJoin
<1>13. ASSUME NEW c \in Conns, ReadBad(c) PROVE StopInv'
  BY <1>13
     DEF ReadBad, GoTo, IndInv, TypeOK, LifeInv, StopInv, Stopped, OneUser, InStop,
         BeforeJoin
<1>14. ASSUME NEW c \in Conns, ReadEnd(c) PROVE StopInv'
  BY <1>14
     DEF ReadEnd, Disconnected, GoTo, IndInv, TypeOK, LifeInv, StopInv, Stopped, OneUser,
         InStop, BeforeJoin
<1>15. ASSUME NEW c \in Conns, ReadWoken(c) PROVE StopInv'
  BY <1>15
     DEF ReadWoken, Disconnected, GoTo, IndInv, TypeOK, LifeInv, StopInv, Stopped, OneUser,
         InStop, BeforeJoin
<1>16. ASSUME NEW c \in Conns, Respond(c) PROVE StopInv'
  BY <1>16
     DEF Respond, GoTo, IndInv, TypeOK, LifeInv, StopInv, Stopped, OneUser, InStop,
         BeforeJoin
<1>17. ASSUME NEW c \in Conns, RespondFails(c) PROVE StopInv'
  BY <1>17
     DEF RespondFails, Disconnected, GoTo, IndInv, TypeOK, LifeInv, StopInv, Stopped,
         OneUser, InStop, BeforeJoin
<1>18. ASSUME NEW c \in Conns, RemoveConnection(c) PROVE StopInv'
  BY <1>18
     DEF RemoveConnection, GoTo, IndInv, TypeOK, LifeInv, StopInv, Stopped, OneUser, InStop,
         BeforeJoin
<1>19. ASSUME NEW c \in Conns, ThreadEnds(c) PROVE StopInv'
  BY <1>19
     DEF ThreadEnds, Close, GoTo, IndInv, TypeOK, LifeInv, StopInv, Stopped, OneUser,
         InStop, BeforeJoin
<1>20. ASSUME NEW u \in Users, Start(u) PROVE StopInv'
  BY <1>20 DEF Start, IndInv, TypeOK, LifeInv, StopInv, Stopped, OneUser, InStop, BeforeJoin
<1>21. ASSUME NEW u \in Users, StopBegins(u) PROVE StopInv'
  BY <1>21
     DEF StopBegins, UserAt, IndInv, TypeOK, LifeInv, StopInv, Stopped, OneUser, InStop,
         BeforeJoin
<1>22. ASSUME NEW u \in Users, CloseListener(u) PROVE StopInv'
  BY <1>22
     DEF CloseListener, UserAt, IndInv, TypeOK, LifeInv, StopInv, Stopped, OneUser, InStop,
         BeforeJoin
<1>23. ASSUME NEW u \in Users, Unlink(u) PROVE StopInv'
  BY <1>23
     DEF Unlink, UserAt, IndInv, TypeOK, LifeInv, StopInv, Stopped, OneUser, InStop,
         BeforeJoin
<1>24. ASSUME NEW u \in Users, JoinAcceptor(u) PROVE StopInv'
  BY <1>24
     DEF JoinAcceptor, UserAt, IndInv, TypeOK, LifeInv, StopInv, Stopped, OneUser, InStop,
         BeforeJoin
<1>25. ASSUME NEW u \in Users, JoinHandlers(u) PROVE StopInv'
  BY <1>25
     DEF JoinHandlers, UserAt, IndInv, TypeOK, LifeInv, StopInv, Stopped, OneUser, InStop,
         BeforeJoin
<1>26. ASSUME NEW u \in Users, StopReturned(u) PROVE StopInv'
  BY <1>26
     DEF StopReturned, UserAt, IndInv, TypeOK, LifeInv, StopInv, Stopped, OneUser, InStop,
         BeforeJoin
<1>27. ASSUME NEW u \in Users, NEW c \in Conns, CloseConnection(u, c) PROVE StopInv'
  BY <1>27
     DEF CloseConnection, Close, UserAt, IndInv, TypeOK, LifeInv, StopInv, Stopped, OneUser,
         InStop, BeforeJoin
<1>28. CASE ClientConnect
  BY <1>28
     DEF ClientConnect, IndInv, TypeOK, LifeInv, StopInv, Stopped, OneUser, InStop,
         BeforeJoin
<1>29. ASSUME NEW c \in Conns, NEW data \in {"request", "bad"}, ClientSend(c, data) PROVE StopInv'
  BY <1>29
     DEF ClientSend, IndInv, TypeOK, LifeInv, StopInv, Stopped, OneUser, InStop, BeforeJoin
<1>30. ASSUME NEW c \in Conns, ClientClose(c) PROVE StopInv'
  BY <1>30
     DEF ClientClose, IndInv, TypeOK, LifeInv, StopInv, Stopped, OneUser, InStop, BeforeJoin
<1> QED BY <1>1, <1>2, <1>3, <1>4, <1>5, <1>6, <1>7, <1>8, <1>9, <1>10,
           <1>11, <1>12, <1>13, <1>14, <1>15, <1>16, <1>17, <1>18, <1>19,
           <1>20, <1>21, <1>22, <1>23, <1>24, <1>25, <1>26, <1>27, <1>28,
           <1>29, <1>30
       DEF Next, Acceptor, Handler, User, Stopping, Client
-----------------------------------------------------------------------------
(* The invariant is inductive. *)

\* The server starts with no thread, no connection and no client.
LEMMA InitInv == Init => IndInv /\ StopInv
<1> SUFFICES ASSUME Init PROVE IndInv /\ StopInv
  OBVIOUS
<1>1. TypeOK
  BY InitTypeOK
<1>2. LimitInv
  <2>1. Cardinality(active) = 0
    BY FS_EmptySet DEF Init
  <2> QED BY <2>1, ServerAssumption DEF Init, LimitInv, Alive
<1>3. LifeInv /\ OwnerInv /\ StopInv
  BY DEF Init, LifeInv, InStop, BeforeJoin, OwnerInv, StopInv, Stopped
<1>4. DescriptorInv /\ ClientIsTold
  BY DEF Init, DescriptorInv, ClientIsTold, Conns
<1> QED BY <1>1, <1>2, <1>3, <1>4 DEF IndInv

\* Every action of the server and of its clients keeps the types.
LEMMA TypesKept ==
  ASSUME IndInv, Next
  PROVE  TypeOK'
<1>1. TypeOK /\ LifeInv
  BY DEF IndInv
<1>2. CASE Acceptor
  BY <1>1, <1>2, AcceptorTypeOK
<1>3. CASE ClientConnect
  BY <1>1, <1>3, ClientTypeOK
<1>4. ASSUME NEW c \in Conns, Handler(c) PROVE TypeOK'
  BY <1>1, <1>4, HandlerTypeOK
<1>5. ASSUME NEW c \in Conns, Client(c) PROVE TypeOK'
  BY <1>1, <1>5, ClientTypeOK
<1>6. ASSUME NEW u \in Users, User(u) PROVE TypeOK'
  BY <1>1, <1>6, UserTypeOK
<1> QED BY <1>2, <1>3, <1>4, <1>5, <1>6 DEF Next

\* IndInv is inductive.
LEMMA NextInv == IndInv /\ [Next]_vars => IndInv'
<1> SUFFICES ASSUME IndInv, [Next]_vars PROVE IndInv'
  OBVIOUS
<1>1. CASE Next
  BY <1>1, TypesKept, LimitKept, LifeKept, DescriptorsKept, ToldKept, OwnersKept DEF IndInv
<1>2. CASE UNCHANGED vars
  <2>1. TypeOK' /\ LimitInv'
    BY <1>2 DEF vars, IndInv, TypeOK, LimitInv
  <2>2. LifeInv' /\ OwnerInv'
    BY <1>2 DEF vars, IndInv, LifeInv, OwnerInv, OutlivesClose
  <2>3. DescriptorInv' /\ ClientIsTold'
    BY <1>2 DEF vars, IndInv, DescriptorInv, ClientIsTold
  <2> QED BY <2>1, <2>2, <2>3 DEF IndInv
<1> QED BY <1>1, <1>2

\* The invariant holds of every execution, for every number of users.
THEOREM Invariant == Spec => []IndInv
<1>1. Init => IndInv
  BY InitInv
<1> QED BY <1>1, NextInv, PTL DEF Spec

\* With one user StopInv does too.
LEMMA StopInvariant ==
  ASSUME OneUser
  PROVE  Spec => [](IndInv /\ StopInv)
<1>1. IndInv /\ StopInv /\ [Next]_vars => StopInv'
  <2> SUFFICES ASSUME IndInv, StopInv, [Next]_vars PROVE StopInv'
    OBVIOUS
  <2>1. CASE Next
    BY <2>1, StopKept
  <2>2. CASE UNCHANGED vars
    BY <2>2 DEF vars, StopInv, Stopped
  <2> QED BY <2>1, <2>2
<1> QED BY <1>1, InitInv, NextInv, PTL DEF Spec
-----------------------------------------------------------------------------
(* What follows from it. *)

\* The variables have their types, and the control points mean what TypeOK says.
THEOREM TypeCorrect == Spec => []TypeOK
<1>1. IndInv => TypeOK
  BY DEF IndInv
<1> QED BY <1>1, Invariant, PTL

\* config_.max_connections holds for every value of it (server.cpp:96).
THEOREM LimitHolds == Spec => []WithinLimit
<1>1. IndInv => WithinLimit
  <2> SUFFICES ASSUME IndInv PROVE WithinLimit
    OBVIOUS
  <2> DEFINE served == {c \in Conns : handler[c] \in Alive}
  <2>1. served \subseteq active
    BY DEF IndInv, LimitInv
  <2>2. IsFiniteSet(active) /\ Cardinality(active) \in Nat
    BY CardinalityType DEF IndInv
  <2>3. Cardinality(served) \in Nat /\ Cardinality(served) <= Cardinality(active)
    BY <2>1, <2>2, FS_Subset, FS_CardinalityType
  <2>4. Cardinality(served) <= MaxConnections
    BY <2>2, <2>3, ServerAssumption DEF IndInv, LimitInv
  <2> QED BY <2>1, <2>4 DEF WithinLimit
<1> QED BY <1>1, Invariant, PTL

\* No client is left with an open connection that nobody serves
\* (handle_connection, ~UnixSocketConnection, stop).
THEOREM ClientsAreTold == Spec => []ClientIsTold
<1>1. IndInv => ClientIsTold
  BY DEF IndInv
<1> QED BY <1>1, Invariant, PTL

\* A stop() that one user calls leaves nothing behind (server.cpp:56).
THEOREM StopIsComplete ==
  ASSUME OneUser
  PROVE  Spec => []StopLeavesNothing
<1>1. IndInv /\ StopInv => StopLeavesNothing
  <2> SUFFICES ASSUME IndInv, StopInv, NEW u \in Users, pc[u] = "return"
               PROVE  /\ acceptor = "none" /\ \A c \in Conns : handler[c] \in {"none", "done"}
                      /\ ~listening /\ ~path /\ backlog = <<>>
                      /\ \A c \in fds : peer[c] = "closed"
    BY DEF StopLeavesNothing
  <2>1. ~running /\ ~listening /\ ~path /\ threads = {}
    BY DEF StopInv, Stopped
  <2>2. acceptor = "none"
    BY <2>1 DEF IndInv, LifeInv, BeforeJoin, OneUser
  <2>3. \A c \in Conns : handler[c] \in {"none", "done"}
    BY <2>1 DEF IndInv, OwnerInv
  <2>4. backlog = <<>>
    BY <2>1, <2>2 DEF IndInv, OwnerInv, OutlivesClose
  <2>5. held = 0 /\ \A v \in Users : snapshot[v] = {}
    BY <2>2 DEF IndInv, TypeOK, OneUser
  <2>6. ASSUME NEW c \in fds PROVE peer[c] = "closed"
    <3>1. c \in Conns /\ c # 0 /\ c \in 1..opened /\ peer[c] \in {"open", "closed"}
      BY ServerAssumption DEF IndInv, TypeOK, DescriptorInv, Conns
    <3>2. peer[c] # "open"
      BY <2>3, <2>5, <3>1 DEF IndInv, ClientIsTold
    <3> QED BY <3>1, <3>2
  <2> QED BY <2>1, <2>2, <2>3, <2>4, <2>6
<1> QED BY <1>1, StopInvariant, PTL
=============================================================================
