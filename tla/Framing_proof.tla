---------------------------- MODULE Framing_proof ----------------------------
(***************************************************************************)
(* Proof that a framed connection is a channel of whole messages           *)
(* (ChannelSpec), for any messages, limit, capacity and cut of reads and   *)
(* writes.                                                                 *)
(*                                                                         *)
(* The invariant speaks of the tape: all units of all frames ever sent, in *)
(* one sequence.  Frame i ends at position ends[i] of the tape, `used`     *)
(* units of it were handed to the receiver's program, and behind them lie  *)
(* what is buffered, what the kernel holds, and what is still to be        *)
(* written.  Every step moves a boundary, none moves the tape: so whatever *)
(* way the bytes are cut, a read finds a frame where one was laid.         *)
(***************************************************************************)
EXTENDS Framing, SequenceTheorems, TLAPS

UnitsOf(s) == {s[i] : i \in 1 .. Len(s)}
Units ==
  {<<"length", k, n>> : k \in 1 .. HeaderSize, n \in Nat}
    \cup UNION {UnitsOf(Bytes(l, m)) : l \in Senders, m \in AllMessages}

Types ==
  /\ lang \in [snd : Senders, rcv : Receivers]
  /\ sent \in Seq(AllMessages) /\ got \in Seq(Seq(Units))
  /\ writing \in Seq(Units) /\ pipe \in Seq(Units) /\ buf \in Seq(Units)
  /\ writing # <<>> => Len(sent) > 0
  /\ wend \in {"open", "closed"} /\ rend \in {"open", "left", "failed"}
  /\ part \in {"idle", "header", "payload"} /\ need \in Nat

(* A frame lies on the tape behind position n. *)
Frame(tape, n, payload) ==
  /\ \A k \in 1 .. HeaderSize : tape[n + k] = <<"length", k, Len(payload)>>
  /\ \A k \in 1 .. Len(payload) : tape[n + HeaderSize + k] = payload[k]

(* Frame i lies on the tape right after frame i - 1. *)
Whole(tape, ends, i) ==
  /\ ends[i] = ends[i - 1] + HeaderSize + Len(Payload(sent[i]))
  /\ ends[i] <= Len(tape)
  /\ Frame(tape, ends[i - 1], Payload(sent[i]))

Laid(tape, ends) ==
  /\ ends[Len(sent)] = Len(tape)
  /\ \A i \in 1 .. Len(sent) : Whole(tape, ends, i)

(* What was used are the frames the program got, and perhaps a header. *)
Position(ends, used) ==
  /\ Len(got) <= Len(sent)
  /\ part # "payload" => used = ends[Len(got)]
  /\ part = "header" => need = HeaderSize
  /\ part = "payload" =>
       /\ Len(got) < Len(sent)
       /\ used = ends[Len(got)] + HeaderSize
       /\ need = Len(Payload(sent[Len(got) + 1]))
       /\ need \in 1 .. MaxFrame

(* The units after position n of the tape begin with those of s. *)
Holds(tape, n, s) == \A k \in 1 .. Len(s) : s[k] = tape[n + k]

Flow(tape, used) ==
  /\ Holds(tape, used, buf)
  /\ Holds(tape, used + Len(buf), pipe)
  /\ used + Len(buf) + Len(pipe) <= Len(tape)
  /\ wend = "open" =>
       /\ Holds(tape, used + Len(buf) + Len(pipe), writing)
       /\ used + Len(buf) + Len(pipe) + Len(writing) = Len(tape)

Stream(tape, ends, used) ==
  Laid(tape, ends) /\ Position(ends, used) /\ Flow(tape, used)

Tapes == Seq(Units)
Ends == [0 .. Len(sent) -> Nat]

IInv ==
  /\ Types
  /\ rend = "open" =>
       \E tape \in Tapes, ends \in Ends, used \in Nat : Stream(tape, ends, used)

-----------------------------------------------------------------------------
(* Payloads are sequences of units, and so are frames. *)

(* The bytes of a message are a finite sequence of units. *)
LEMMA PayloadType ==
  ASSUME NEW l \in Senders, NEW m \in AllMessages
  PROVE  Bytes(l, m) \in Seq(Units) /\ Len(Bytes(l, m)) \in Nat
  <1> DEFINE s == Bytes(l, m)
  <1>1. Len(s) \in Nat /\ s = [i \in 1 .. Len(s) |-> s[i]]
    BY FramingAssumption DEF IsSequence
  <1>2. ASSUME NEW i \in 1 .. Len(s) PROVE s[i] \in Units
    <2>1. s[i] \in UnitsOf(Bytes(l, m))
      BY DEF UnitsOf
    <2>2. UnitsOf(Bytes(l, m)) \subseteq Units
      BY DEF Units
    <2>3. QED
      BY <2>1, <2>2
  <1>3. s \in [1 .. Len(s) -> Units]
    BY <1>1, <1>2
  <1>4. QED
    BY <1>1, <1>3, SeqDef

(* A header is HeaderSize units, which say the length. *)
LEMMA HeaderType ==
  ASSUME NEW n \in Nat
  PROVE  /\ Header(n) \in Seq(Units) /\ Len(Header(n)) = HeaderSize
         /\ \A k \in 1 .. HeaderSize : Header(n)[k] = <<"length", k, n>>
  <1>1. \A k \in 1 .. HeaderSize : <<"length", k, n>> \in Units
    BY DEF Units
  <1>2. Header(n) \in [1 .. HeaderSize -> Units]
    BY <1>1 DEF Header
  <1>3. HeaderSize \in Nat
    BY DEF HeaderSize
  <1>4. Header(n) \in Seq(Units)
    BY <1>2, <1>3, SeqDef
  <1>5. Len(Header(n)) = HeaderSize
    BY <1>2, <1>3, <1>4
  <1>6. QED
    BY <1>4, <1>5 DEF Header

(* A step takes the first k units of b and puts them behind a. *)
LEMMA Shift ==
  ASSUME NEW tape, NEW n \in Nat, NEW a \in Seq(Units), NEW b \in Seq(Units),
         Holds(tape, n, a), Holds(tape, n + Len(a), b), NEW k \in 0 .. Len(b),
         NEW a2, a2 = a \o SubSeq(b, 1, k),
         NEW b2, b2 = SubSeq(b, k + 1, Len(b))
  PROVE  /\ a2 \in Seq(Units) /\ b2 \in Seq(Units)
         /\ Len(a2) = Len(a) + k /\ Len(b2) = Len(b) - k
         /\ Holds(tape, n, a2) /\ Holds(tape, n + Len(a2), b2)
  <1> DEFINE h == SubSeq(b, 1, k)
  <1>0. Len(a) \in Nat /\ Len(b) \in Nat
    OBVIOUS
  <1>1. h \in Seq(Units) /\ Len(h) = k /\ \A i \in 1 .. k : h[i] = b[i]
    BY <1>0, SubSeqProperties
  <1>2. /\ b2 \in Seq(Units) /\ Len(b2) = Len(b) - k
        /\ \A i \in 1 .. Len(b) - k : b2[i] = b[k + i]
    BY <1>0, SubSeqProperties
  <1> HIDE DEF h
  <1>3. /\ a2 \in Seq(Units) /\ Len(a2) = Len(a) + k
        /\ \A i \in 1 .. Len(a) + k :
             a2[i] = IF i <= Len(a) THEN a[i] ELSE h[i - Len(a)]
    <2>1. a2 = a \o h
      BY DEF h
    <2>2. QED
      BY <1>0, <1>1, <2>1
  <1>4. Holds(tape, n, a2)
    <2>1. ASSUME NEW i \in 1 .. Len(a) + k PROVE a2[i] = tape[n + i]
      <3>1. CASE i <= Len(a)
        BY <1>0, <1>3, <3>1 DEF Holds
      <3>2. CASE i > Len(a)
        <4>1. i - Len(a) \in 1 .. k /\ i - Len(a) \in 1 .. Len(b)
          BY <1>0, <3>2
        <4>2. a2[i] = b[i - Len(a)]
          BY <1>0, <1>1, <1>3, <3>2, <4>1
        <4>3. b[i - Len(a)] = tape[(n + Len(a)) + (i - Len(a))]
          BY <4>1 DEF Holds
        <4>4. (n + Len(a)) + (i - Len(a)) = n + i
          BY <1>0
        <4>5. QED
          BY <4>2, <4>3, <4>4
      <3>3. QED
        BY <1>0, <3>1, <3>2
    <2>2. QED
      BY <1>3, <2>1 DEF Holds
  <1>5. Holds(tape, n + Len(a2), b2)
    <2>1. ASSUME NEW i \in 1 .. Len(b) - k
          PROVE  b2[i] = tape[n + Len(a2) + i]
      <3>1. k + i \in 1 .. Len(b)
        BY <1>0
      <3>2. b[k + i] = tape[(n + Len(a)) + (k + i)]
        BY <3>1 DEF Holds
      <3>3. (n + Len(a)) + (k + i) = n + Len(a2) + i
        <4>1. (n + Len(a)) + (k + i) = n + (Len(a) + k) + i
          BY <1>0
        <4>2. QED
          BY <1>3, <4>1
      <3>4. QED
        BY <1>2, <3>2, <3>3
    <2>2. QED
      BY <1>2, <2>1 DEF Holds
  <1>6. QED
    BY <1>2, <1>3, <1>4, <1>5

(* The program takes the first k units of what is buffered. *)
LEMMA Drop ==
  ASSUME NEW tape, NEW n \in Nat, NEW a \in Seq(Units), Holds(tape, n, a),
         NEW k \in 0 .. Len(a)
  PROVE  LET a2 == SubSeq(a, k + 1, Len(a))
         IN  /\ a2 \in Seq(Units) /\ Len(a2) = Len(a) - k
             /\ Holds(tape, n + k, a2)
  <1> DEFINE a2 == SubSeq(a, k + 1, Len(a))
  <1>0. Len(a) \in Nat
    OBVIOUS
  <1>1. /\ a2 \in Seq(Units) /\ Len(a2) = Len(a) - k
        /\ \A i \in 1 .. Len(a) - k : a2[i] = a[k + i]
    BY <1>0, SubSeqProperties
  <1>2. ASSUME NEW i \in 1 .. Len(a) - k PROVE a2[i] = tape[n + k + i]
    <2>1. a[k + i] = tape[n + (k + i)]
      BY <1>0 DEF Holds
    <2>2. n + (k + i) = n + k + i
      BY <1>0
    <2>3. QED
      BY <1>1, <2>1, <2>2
  <1>3. QED
    BY <1>1, <1>2 DEF Holds

(* The payload of everything that was sent is a finite sequence of units. *)
LEMMA SentPayload ==
  ASSUME Types, NEW i \in 1 .. Len(sent)
  PROVE  /\ sent[i] \in AllMessages
         /\ Payload(sent[i]) \in Seq(Units) /\ Len(Payload(sent[i])) \in Nat
  BY PayloadType DEF Types, Payload

-----------------------------------------------------------------------------
(* What a read finds. *)

(* A receiver that has a header to read has the header of the next frame. *)
LEMMA HeaderAhead ==
  ASSUME Types, NEW tape \in Tapes, NEW ends \in Ends, NEW used \in Nat,
         Stream(tape, ends, used), part = "header", Enough
  PROVE  LET next == Len(got) + 1
         IN  /\ next \in 1 .. Len(sent)
             /\ ends[next] = used + HeaderSize + Len(Payload(sent[next]))
             /\ buf[1][3] = Len(Payload(sent[next]))
  <1> DEFINE next == Len(got) + 1
  <1>1. /\ Len(got) \in Nat /\ Len(sent) \in Nat /\ Len(buf) \in Nat
        /\ Len(pipe) \in Nat /\ Len(tape) \in Nat
    BY DEF Types, Tapes
  <1>2. /\ need = HeaderSize /\ Len(buf) >= 2 /\ used = ends[Len(got)]
        /\ Len(got) <= Len(sent)
    BY DEF Stream, Position, Enough, HeaderSize
  <1>3. used + 2 <= Len(tape)
    BY <1>1, <1>2 DEF Stream, Flow
  <1>4. Len(got) # Len(sent)
    BY <1>1, <1>2, <1>3 DEF Stream, Laid
  <1>5. next \in 1 .. Len(sent)
    BY <1>1, <1>2, <1>4
  <1>6. Whole(tape, ends, next)
    BY <1>5 DEF Stream, Laid
  <1>7. next - 1 = Len(got)
    BY <1>1
  <1>8. tape[used + 1] = <<"length", 1, Len(Payload(sent[next]))>>
    BY <1>2, <1>6, <1>7 DEF Whole, Frame, HeaderSize
  <1>9. buf[1] = tape[used + 1]
    BY <1>1, <1>2 DEF Stream, Flow, Holds
  <1>10. QED
    BY <1>2, <1>5, <1>6, <1>7, <1>8, <1>9 DEF Whole

(* A receiver that has the payload it waits for has that of the next frame, *)
(* whole.                                                                   *)
LEMMA PayloadAhead ==
  ASSUME Types, NEW tape \in Tapes, NEW ends \in Ends, NEW used \in Nat,
         Stream(tape, ends, used), part = "payload", Enough
  PROVE  LET next == Len(got) + 1
         IN  /\ next \in 1 .. Len(sent)
             /\ ends[next] = used + need
             /\ need \in 1 .. MaxFrame
             /\ need = Len(Payload(sent[next]))
             /\ SubSeq(buf, 1, need) = Payload(sent[next])
  <1> DEFINE next == Len(got) + 1
             p == Payload(sent[next])
             read == SubSeq(buf, 1, need)
  <1>1. /\ Len(got) \in Nat /\ Len(sent) \in Nat /\ Len(buf) \in Nat
        /\ MaxFrame \in Nat
    BY FramingAssumption DEF Types
  <1>2. /\ need = Len(p) /\ need \in 1 .. MaxFrame
        /\ used = ends[Len(got)] + HeaderSize /\ Len(got) < Len(sent)
    BY DEF Stream, Position
  <1>3. next \in 1 .. Len(sent) /\ next - 1 = Len(got)
    BY <1>1, <1>2
  <1>4. p \in Seq(Units)
    BY <1>3, SentPayload
  <1>5. Whole(tape, ends, next)
    BY <1>3 DEF Stream, Laid
  <1>6. /\ read \in Seq(Units) /\ Len(read) = need
        /\ \A k \in 1 .. need : read[k] = buf[k]
    <2>1. need \in Nat /\ need <= Len(buf)
      BY <1>1, <1>2 DEF Enough
    <2>2. \A k \in 1 .. need : buf[k] \in Units
      BY <1>1, <2>1 DEF Types
    <2>3. QED
      BY <1>1, <1>2, <2>1, <2>2, SubSeqProperties
  <1>7. ASSUME NEW k \in 1 .. need PROVE read[k] = p[k]
    <2>1. buf[k] = tape[used + k]
      BY <1>1, <1>2 DEF Enough, Stream, Flow, Holds
    <2>2. tape[used + k] = p[k]
      BY <1>2, <1>3, <1>5 DEF Whole, Frame
    <2>3. QED
      BY <1>6, <2>1, <2>2
  <1>8. read = p
    BY <1>2, <1>4, <1>6, <1>7, SeqEqual
  <1>9. ends[next] = used + need
    BY <1>2, <1>3, <1>5 DEF Whole
  <1>10. QED
    BY <1>2, <1>3, <1>8, <1>9

-----------------------------------------------------------------------------
(* The types are kept. *)

(* The types hold at the start. *)
LEMMA TypesInit == Init => Types
  BY DEF Init, Types

(* A call of conn.send() writes a part of what is left to write. *)
LEMMA CallType ==
  ASSUME Types, writing # <<>>
  PROVE  CallLeft \in Nat /\ CallLeft <= Len(writing) /\ Len(writing) \in Nat
  <1>1. Len(sent) \in 1 .. Len(sent)
    BY DEF Types
  <1>2. Len(Payload(sent[Len(sent)])) \in Nat
    BY <1>1, SentPayload
  <1>3. Len(writing) \in Nat
    BY DEF Types
  <1>4. QED
    BY <1>2, <1>3 DEF CallLeft

(* A frame that is sent is the last of all. *)
LEMMA SendType ==
  ASSUME Types, NEW m \in AllMessages, Send(m)
  PROVE  /\ Types'
         /\ sent' \in Seq(AllMessages) /\ Len(sent') = Len(sent) + 1
         /\ \A i \in 1 .. Len(sent) : sent'[i] = sent[i]
         /\ sent'[Len(sent')] = m
         /\ Payload(m) \in Seq(Units) /\ Len(Payload(m)) \in Nat
         /\ Len(writing') = HeaderSize + Len(Payload(m))
         /\ \A k \in 1 .. HeaderSize :
              writing'[k] = <<"length", k, Len(Payload(m))>>
         /\ \A k \in 1 .. Len(Payload(m)) :
              writing'[HeaderSize + k] = Payload(m)[k]
  <1> DEFINE p == Payload(m)
             h == Header(Len(p))
  <1>1. p \in Seq(Units) /\ Len(p) \in Nat
    BY PayloadType DEF Types, Payload
  <1>2. /\ h \in Seq(Units) /\ Len(h) = HeaderSize
        /\ \A k \in 1 .. HeaderSize : h[k] = <<"length", k, Len(p)>>
    BY <1>1, HeaderType
  <1>3. /\ sent' \in Seq(AllMessages) /\ Len(sent') = Len(sent) + 1
        /\ \A i \in 1 .. Len(sent) : sent'[i] = sent[i]
        /\ sent'[Len(sent')] = m
    BY AppendProperties DEF Send, Types
  <1>4. writing' = h \o p
    BY DEF Send
  <1> HIDE DEF h, p
  <1>5. /\ writing' \in Seq(Units) /\ Len(writing') = HeaderSize + Len(p)
        /\ \A k \in 1 .. HeaderSize + Len(p) :
             writing'[k] = IF k <= HeaderSize THEN h[k] ELSE p[k - HeaderSize]
    BY <1>1, <1>2, <1>4, ConcatProperties
  <1>6. \A k \in 1 .. HeaderSize : writing'[k] = <<"length", k, Len(p)>>
    BY <1>1, <1>2, <1>5 DEF HeaderSize
  <1>7. ASSUME NEW k \in 1 .. Len(p) PROVE writing'[HeaderSize + k] = p[k]
    <2> DEFINE j == HeaderSize + k
    <2>1. /\ j \in 1 .. HeaderSize + Len(p) /\ ~(j <= HeaderSize)
          /\ j - HeaderSize = k
      BY <1>1 DEF HeaderSize
    <2> HIDE DEF j
    <2>2. writing'[j] = p[k]
      BY <1>5, <2>1
    <2>3. QED
      BY <2>2 DEF j
  <1>8. Types'
    BY <1>3, <1>5 DEF Types, Send, sender, receiver
  <1>9. QED
    BY <1>1, <1>3, <1>5, <1>6, <1>7, <1>8 DEF p

(* Both parts of a sequence that is cut are sequences of units. *)
LEMMA PieceType ==
  ASSUME NEW s \in Seq(Units), NEW k \in 0 .. Len(s)
  PROVE  /\ SubSeq(s, 1, k) \in Seq(Units)
         /\ SubSeq(s, k + 1, Len(s)) \in Seq(Units)
  <1>1. Len(s) \in Nat /\ \A i \in 1 .. Len(s) : s[i] \in Units
    OBVIOUS
  <1>2. QED
    BY <1>1, SubSeqProperties

(* A write keeps the types. *)
LEMMA WriteType == ASSUME Types, Write PROVE Types'
  <1>1. PICK k \in 1 .. CallLeft :
          /\ pipe' = pipe \o SubSeq(writing, 1, k)
          /\ writing' = SubSeq(writing, k + 1, Len(writing))
    BY DEF Write
  <1>2. k \in 0 .. Len(writing) /\ writing \in Seq(Units) /\ pipe \in Seq(Units)
    BY CallType DEF Write, Types
  <1>3. writing' \in Seq(Units) /\ SubSeq(writing, 1, k) \in Seq(Units)
    BY <1>1, <1>2, PieceType
  <1>4. pipe' \in Seq(Units)
    BY <1>1, <1>2, <1>3, ConcatProperties
  <1>5. QED
    BY <1>3, <1>4 DEF Write, Types, receiver

(* Both ways of reading take some of what the kernel holds. *)
LEMMA FillTakes ==
  ASSUME Types, Fill
  PROVE  /\ rend = "open"
         /\ \E k \in 0 .. Len(pipe) : Take(k)
  BY DEF Fill, CppRead, TsData, Types

(* So does a read of bytes into the buffer. *)
LEMMA FillType == ASSUME Types, Fill PROVE Types'
  <1>1. PICK k \in 0 .. Len(pipe) : Take(k)
    BY FillTakes
  <1>2. SubSeq(pipe, 1, k) \in Seq(Units) /\ pipe' \in Seq(Units)
    BY <1>1, PieceType DEF Take, Types
  <1>3. buf' \in Seq(Units)
    BY <1>1, <1>2, ConcatProperties DEF Take, Types
  <1>4. QED
    BY <1>1, <1>2, <1>3 DEF Take, Types, sender

(* What a read leaves in the buffer is a sequence of units. *)
LEMMA RestType ==
  ASSUME Types, Enough
  PROVE  /\ Rest \in Seq(Units) /\ SubSeq(buf, 1, need) \in Seq(Units)
         /\ need \in 0 .. Len(buf)
  <1>1. need \in 0 .. Len(buf) /\ buf \in Seq(Units)
    BY DEF Types, Enough
  <1>2. QED
    BY <1>1, PieceType DEF Rest

(* A read that has enough keeps the types. *)
LEMMA ReadType ==
  ASSUME Types, Read PROVE Types'
  <1>1. CASE TakeHeader
    <2>1. Rest \in Seq(Units)
      BY <1>1, RestType DEF TakeHeader
    <2>2. <<>> \in Seq(Units)
      BY EmptySeq
    <2>3. got' \in Seq(Seq(Units))
      <3>1. got' = got \/ got' = Append(got, <<>>)
        BY <1>1 DEF TakeHeader
      <3>2. got \in Seq(Seq(Units))
        BY DEF Types
      <3>3. Append(got, <<>>) \in Seq(Seq(Units))
        BY <2>2, <3>2, AppendProperties, Zenon
      <3>4. QED
        BY <3>1, <3>2, <3>3, Zenon
    <2>4. need' \in Nat /\ rend' \in {"open", "failed"}
          /\ part' \in {"idle", "header", "payload"}
      BY <1>1 DEF TakeHeader, Types
    <2>5. QED
      BY <1>1, <2>1, <2>3, <2>4 DEF TakeHeader, Types, sender
  <1>2. CASE TakePayload
    <2>1. Rest \in Seq(Units) /\ SubSeq(buf, 1, need) \in Seq(Units)
      BY <1>2, RestType DEF TakePayload
    <2>2. got' \in Seq(Seq(Units))
      BY <1>2, <2>1, AppendProperties DEF TakePayload, Types
    <2>3. QED
      BY <1>2, <2>1, <2>2 DEF TakePayload, Types, sender
  <1>3. QED
    BY <1>1, <1>2 DEF Read

(* Every step keeps the types. *)
LEMMA TypesStep == Types /\ [Next]_vars => Types'
  <1> SUFFICES ASSUME Types, [Next]_vars PROVE Types'
    OBVIOUS
  <1>1. <<>> \in Seq(Units)
    BY EmptySeq
  <1>2. CASE WriteFails \/ Close
    BY <1>1, <1>2 DEF WriteFails, Close, Types, receiver
  <1>3. CASE Ask
    BY <1>3 DEF Ask, Types, sender, HeaderSize
  <1>4. CASE EndOfFile \/ Dropped \/ Leave
    BY <1>4 DEF EndOfFile, Dropped, Leave, Types, sender
  <1>5. CASE UNCHANGED vars
    BY <1>5 DEF vars, Types, sender, receiver
  <1>6. QED
    BY <1>2, <1>3, <1>4, <1>5, SendType, WriteType, FillType, ReadType DEF Next

-----------------------------------------------------------------------------
(* The tape: only Send makes it longer, and only behind what is there. *)

(* The tape is empty at the start. *)
LEMMA InvInit == Init => IInv
  <1> SUFFICES ASSUME Init PROVE IInv
    OBVIOUS
  <1>1. Types
    BY TypesInit
  <1> DEFINE zero == [i \in 0 .. 0 |-> 0]
  <1>2. <<>> \in Tapes /\ zero \in Ends
    BY EmptySeq DEF Init, Tapes, Ends
  <1>3. Stream(<<>>, zero, 0)
    BY DEF Init, Stream, Laid, Position, Flow, Holds
  <1>4. QED
    BY <1>1, <1>2, <1>3 DEF IInv

(* A frame stays where it is when the tape grows behind it. *)
LEMMA FrameStays ==
  ASSUME NEW tape, NEW tape2, NEW n \in Nat, NEW end \in Nat,
         NEW payload \in Seq(Units), Frame(tape, n, payload),
         n + HeaderSize + Len(payload) <= end,
         \A k \in 1 .. end : tape2[k] = tape[k]
  PROVE  Frame(tape2, n, payload)
  <1>1. Len(payload) \in Nat
    OBVIOUS
  <1>2. \A k \in 1 .. HeaderSize : n + k \in 1 .. end
    BY <1>1 DEF HeaderSize
  <1>3. \A k \in 1 .. Len(payload) : n + HeaderSize + k \in 1 .. end
    BY <1>1 DEF HeaderSize
  <1>4. QED
    BY <1>2, <1>3 DEF Frame

(* The frame that Send lays on the tape, behind all others. *)
LEMMA Lay ==
  ASSUME Types, NEW m \in AllMessages, Send(m),
         NEW tape \in Tapes, NEW ends \in Ends,
         Laid(tape, ends), NEW tape2 \in Tapes,
         NEW ends2 \in [0 .. Len(sent') -> Nat],
         Len(tape2) = Len(tape) + Len(writing'),
         \A k \in 1 .. Len(tape) : tape2[k] = tape[k],
         \A k \in 1 .. Len(writing') : tape2[Len(tape) + k] = writing'[k],
         \A i \in 0 .. Len(sent) : ends2[i] = ends[i],
         ends2[Len(sent')] = Len(tape2)
  PROVE  Laid(tape2, ends2)'
  <1>1. /\ Len(sent') = Len(sent) + 1 /\ sent'[Len(sent')] = m
        /\ \A i \in 1 .. Len(sent) : sent'[i] = sent[i]
        /\ Payload(m) \in Seq(Units) /\ Len(Payload(m)) \in Nat
        /\ Len(writing') = HeaderSize + Len(Payload(m))
        /\ \A k \in 1 .. HeaderSize :
             writing'[k] = <<"length", k, Len(Payload(m))>>
        /\ \A k \in 1 .. Len(Payload(m)) :
             writing'[HeaderSize + k] = Payload(m)[k]
    BY SendType
  <1>2. Len(sent) \in Nat /\ Len(tape) \in Nat
    BY DEF Types, Tapes
  <1>3. PICK n : n = Len(sent) + 1
    OBVIOUS
  <1>4. ASSUME NEW i \in 1 .. Len(sent) PROVE Whole(tape2, ends2, i)'
    <2> DEFINE p == Payload(sent[i])
    <2>1. Whole(tape, ends, i)
      BY DEF Laid
    <2>2. p \in Seq(Units) /\ Len(p) \in Nat
      BY SentPayload
    <2>3. Payload(sent[i])' = p
      BY <1>1 DEF Send, Payload
    <2>4. /\ ends2[i] = ends[i] /\ ends2[i - 1] = ends[i - 1]
          /\ ends[i] \in Nat /\ ends[i - 1] \in Nat
      BY <1>2 DEF Ends
    <2> HIDE DEF p
    <2>5. ends[i] = ends[i - 1] + HeaderSize + Len(p) /\ ends[i] <= Len(tape)
          /\ Frame(tape, ends[i - 1], p)
      BY <2>1 DEF Whole, p
    <2>6. Frame(tape2, ends[i - 1], p)
      BY <1>2, <2>2, <2>4, <2>5, FrameStays
    <2>7. ends[i] <= Len(tape2)
      BY <1>1, <1>2, <2>4, <2>5 DEF HeaderSize
    <2>8. QED
      BY <2>3, <2>4, <2>5, <2>6, <2>7 DEF Whole
  <1>5. Whole(tape2, ends2, n)'
    <2> DEFINE p == Payload(m)
    <2>1. Payload(sent[n])' = p
      BY <1>1, <1>3 DEF Payload, Send
    <2>2. ends2[n - 1] = Len(tape)
      BY <1>2, <1>3 DEF Laid
    <2>3. ends2[n] = ends2[n - 1] + HeaderSize + Len(p) /\ ends2[n] <= Len(tape2)
      BY <1>1, <1>2, <1>3, <2>2 DEF HeaderSize
    <2>4. Frame(tape2, Len(tape), p)
      <3>1. ASSUME NEW k \in 1 .. HeaderSize
            PROVE  tape2[Len(tape) + k] = <<"length", k, Len(p)>>
        BY <1>1 DEF HeaderSize
      <3>2. ASSUME NEW k \in 1 .. Len(p)
            PROVE  tape2[Len(tape) + HeaderSize + k] = p[k]
        <4> DEFINE j == HeaderSize + k
        <4>1. j \in 1 .. Len(writing')
              /\ Len(tape) + HeaderSize + k = Len(tape) + j
          BY <1>1, <1>2 DEF HeaderSize
        <4>2. writing'[j] = p[k]
          BY <1>1
        <4> HIDE DEF j
        <4>3. tape2[Len(tape) + j] = writing'[j]
          BY <4>1
        <4>4. QED
          BY <4>1, <4>2, <4>3
      <3>3. QED
        BY <3>1, <3>2 DEF Frame
    <2>5. QED
      BY <2>1, <2>2, <2>3, <2>4 DEF Whole
  <1>6. ASSUME NEW i \in 1 .. Len(sent') PROVE Whole(tape2, ends2, i)'
    <2>1. i \in 1 .. Len(sent) \/ i = n
      BY <1>1, <1>2, <1>3
    <2>2. QED
      BY <1>4, <1>5, <2>1
  <1>7. QED
    BY <1>6 DEF Laid

(* A frame that is sent is put at the end of the tape. *)
LEMMA InvSend ==
  ASSUME IInv, NEW m \in AllMessages, Send(m)
  PROVE  IInv'
  <1>1. Types /\ Types'
    BY SendType DEF IInv
  <1>2. ASSUME rend = "open"
        PROVE  \E tape \in Tapes, ends \in Ends', used \in Nat :
                 Stream(tape, ends, used)'
    <2>1. PICK tape \in Tapes, ends \in Ends, used \in Nat :
            Stream(tape, ends, used)
      BY <1>2 DEF IInv
    <2>2. PICK tape2 : tape2 = tape \o writing'
      OBVIOUS
    <2>3. /\ writing' \in Seq(Units) /\ Len(writing') \in Nat
          /\ tape \in Seq(Units) /\ Len(tape) \in Nat
      BY <1>1 DEF Types, Tapes
    <2>4. /\ tape2 \in Tapes /\ Len(tape2) = Len(tape) + Len(writing')
          /\ \A k \in 1 .. Len(tape) : tape2[k] = tape[k]
          /\ \A k \in 1 .. Len(writing') : tape2[Len(tape) + k] = writing'[k]
      BY <2>2, <2>3, ConcatProperties DEF Tapes
    <2>5. Len(sent) \in Nat /\ Len(sent') = Len(sent) + 1
      BY <1>1, SendType DEF Types
    <2>6. PICK ends2 : ends2 = [i \in 0 .. Len(sent') |->
                                  IF i <= Len(sent) THEN ends[i] ELSE Len(tape2)]
      OBVIOUS
    <2>7. /\ ends2 \in [0 .. Len(sent') -> Nat]
          /\ \A i \in 0 .. Len(sent) : ends2[i] = ends[i]
          /\ ends2[Len(sent')] = Len(tape2)
      BY <2>3, <2>4, <2>5, <2>6 DEF Ends
    <2>8. ends2 \in Ends'
      BY <2>7 DEF Ends
    <2>9. Laid(tape2, ends2)'
      BY <1>1, <2>1, <2>4, <2>7, Lay DEF Stream
    <2>10. Position(ends2, used)'
      <3>1. Position(ends, used) /\ Len(got) \in Nat
        BY <1>1, <2>1 DEF Stream, Types
      <3>2. ends2[Len(got)] = ends[Len(got)]
        BY <2>5, <2>7, <3>1 DEF Position
      <3>3. part = "payload" =>
              Payload(sent[Len(got) + 1])' = Payload(sent[Len(got) + 1])
        BY <1>1, <2>5, <3>1, SendType DEF Position, Payload, Send, receiver
      <3>4. QED
        BY <2>5, <3>1, <3>2, <3>3 DEF Position, Send, receiver
    <2>11. Flow(tape2, used)'
      <3>1. /\ wend = "open" /\ writing = <<>> /\ wend' = wend
            /\ buf' = buf /\ pipe' = pipe
        BY DEF Send, receiver
      <3>2. /\ Len(buf) \in Nat /\ Len(pipe) \in Nat
            /\ used + Len(buf) + Len(pipe) = Len(tape)
        BY <1>1, <2>1, <2>3, <3>1 DEF Stream, Flow, Types
      <3>3. \A k \in 1 .. Len(buf) : buf[k] = tape2[used + k]
        BY <2>1, <2>3, <2>4, <3>2 DEF Stream, Flow, Holds
      <3>4. \A k \in 1 .. Len(pipe) : pipe[k] = tape2[used + Len(buf) + k]
        BY <2>1, <2>3, <2>4, <3>2 DEF Stream, Flow, Holds
      <3>5. \A k \in 1 .. Len(writing') :
              writing'[k] = tape2[used + Len(buf) + Len(pipe) + k]
        BY <2>4, <3>2
      <3>6. used + Len(buf) + Len(pipe) + Len(writing') = Len(tape2)
        BY <2>4, <3>2
      <3>7. used + Len(buf) + Len(pipe) <= Len(tape2)
        BY <2>3, <3>2, <3>6
      <3>8. QED
        BY <3>1, <3>3, <3>4, <3>5, <3>6, <3>7 DEF Flow, Holds
    <2>12. QED
      BY <2>4, <2>8, <2>9, <2>10, <2>11 DEF Stream
  <1>3. QED
    BY <1>1, <1>2 DEF IInv, Send, receiver

-----------------------------------------------------------------------------
(* The other steps move a boundary on the tape. *)

(* The tape stands as long as nothing is sent. *)
LEMMA LaidStays ==
  ASSUME sent' = sent, lang' = lang, NEW tape, NEW ends, Laid(tape, ends)
  PROVE  Laid(tape, ends)'
  BY DEF Laid, Whole, Payload

(* The reader's place stands as long as it takes nothing. *)
LEMMA PositionStays ==
  ASSUME sent' = sent, lang' = lang, got' = got, part' = part, need' = need,
         NEW ends, NEW used, Position(ends, used)
  PROVE  Position(ends, used)'
  BY DEF Position, Payload

(* What is written was next to write. *)
LEMMA WriteMoves ==
  ASSUME Types, Write
  PROVE  \E k \in 0 .. Len(writing) :
           /\ pipe' = pipe \o SubSeq(writing, 1, k)
           /\ writing' = SubSeq(writing, k + 1, Len(writing))
  <1>1. CallLeft \in Nat /\ CallLeft <= Len(writing) /\ Len(writing) \in Nat
    BY CallType DEF Write
  <1>2. PICK k \in 1 .. CallLeft :
          /\ pipe' = pipe \o SubSeq(writing, 1, k)
          /\ writing' = SubSeq(writing, k + 1, Len(writing))
    BY DEF Write
  <1>3. k \in 0 .. Len(writing)
    BY <1>1
  <1>4. QED
    BY <1>2, <1>3

(* A write moves the boundary between what is to be written and the kernel. *)
LEMMA InvWrite ==
  ASSUME Types, Write, NEW tape \in Tapes, NEW ends \in Ends, NEW used \in Nat,
         Stream(tape, ends, used)
  PROVE  Stream(tape, ends, used)'
  <1>1. PICK k \in 0 .. Len(writing) :
          /\ pipe' = pipe \o SubSeq(writing, 1, k)
          /\ writing' = SubSeq(writing, k + 1, Len(writing))
    BY WriteMoves
  <1>2. /\ writing \in Seq(Units) /\ pipe \in Seq(Units) /\ Len(buf) \in Nat
        /\ Len(writing) \in Nat /\ Len(pipe) \in Nat
    BY DEF Types
  <1>3. PICK n \in Nat : n = used + Len(buf)
    BY <1>2
  <1>4. /\ Holds(tape, n, pipe) /\ Holds(tape, n + Len(pipe), writing)
        /\ n + Len(pipe) + Len(writing) = Len(tape)
    BY <1>3 DEF Stream, Flow, Write
  <1>5. /\ Len(pipe') = Len(pipe) + k /\ Len(writing') = Len(writing) - k
        /\ Holds(tape, n, pipe') /\ Holds(tape, n + Len(pipe'), writing')
    <2>1. PICK a, b, a2, b2 :
            a = pipe /\ b = writing /\ a2 = pipe' /\ b2 = writing'
      OBVIOUS
    <2>2. /\ a \in Seq(Units) /\ b \in Seq(Units) /\ n \in Nat
          /\ k \in 0 .. Len(b)
      BY <1>2, <2>1
    <2>3. Holds(tape, n, a) /\ Holds(tape, n + Len(a), b)
      BY <1>4, <2>1
    <2>4. a2 = a \o SubSeq(b, 1, k) /\ b2 = SubSeq(b, k + 1, Len(b))
      BY <1>1, <2>1
    <2>5. Len(a2) = Len(a) + k
      BY <2>2, <2>3, <2>4, Shift
    <2>6. Len(b2) = Len(b) - k
      BY <2>2, <2>3, <2>4, Shift
    <2>7. Holds(tape, n, a2)
      BY <2>2, <2>3, <2>4, Shift
    <2>8. Holds(tape, n + Len(a2), b2)
      BY <2>2, <2>3, <2>4, Shift
    <2>9. QED
      BY <2>1, <2>5, <2>6, <2>7, <2>8
  <1>6. buf' = buf /\ wend' = wend
    BY DEF Write, receiver
  <1>7. Flow(tape, used)'
    <2>1. Holds(tape, used, buf)
      BY DEF Stream, Flow
    <2>2. n + Len(pipe') + Len(writing') = Len(tape)
      BY <1>2, <1>4, <1>5
    <2>3. n + Len(pipe') <= Len(tape)
      BY <1>2, <1>4, <1>5
    <2>4. QED
      BY <1>3, <1>5, <1>6, <2>1, <2>2, <2>3 DEF Flow, Holds
  <1>8. QED
    BY <1>7, LaidStays, PositionStays DEF Stream, Write, receiver

(* A read of bytes moves the boundary between the kernel and the buffer. *)
LEMMA InvFill ==
  ASSUME Types, Fill, NEW tape \in Tapes, NEW ends \in Ends, NEW used \in Nat,
         Stream(tape, ends, used)
  PROVE  Stream(tape, ends, used)'
  <1>1. PICK k \in 0 .. Len(pipe) : Take(k)
    BY FillTakes
  <1>2. /\ buf' = buf \o SubSeq(pipe, 1, k)
        /\ pipe' = SubSeq(pipe, k + 1, Len(pipe))
        /\ wend' = wend /\ writing' = writing
        /\ sent' = sent /\ lang' = lang /\ got' = got
        /\ part' = part /\ need' = need
    BY <1>1 DEF Take, sender
  <1>3. /\ buf \in Seq(Units) /\ pipe \in Seq(Units)
        /\ Len(buf) \in Nat /\ Len(pipe) \in Nat
    BY DEF Types
  <1>4. Holds(tape, used, buf) /\ Holds(tape, used + Len(buf), pipe)
    BY DEF Stream, Flow
  <1>5. /\ Len(buf') = Len(buf) + k /\ Len(pipe') = Len(pipe) - k
        /\ Holds(tape, used, buf') /\ Holds(tape, used + Len(buf'), pipe')
    <2>1. PICK a, b, a2, b2 :
            a = buf /\ b = pipe /\ a2 = buf' /\ b2 = pipe'
      OBVIOUS
    <2>2. /\ a \in Seq(Units) /\ b \in Seq(Units) /\ used \in Nat
          /\ k \in 0 .. Len(b)
      BY <1>3, <2>1
    <2>3. Holds(tape, used, a) /\ Holds(tape, used + Len(a), b)
      BY <1>4, <2>1
    <2>4. a2 = a \o SubSeq(b, 1, k) /\ b2 = SubSeq(b, k + 1, Len(b))
      BY <1>2, <2>1
    <2>5. Len(a2) = Len(a) + k
      BY <2>2, <2>3, <2>4, Shift
    <2>6. Len(b2) = Len(b) - k
      BY <2>2, <2>3, <2>4, Shift
    <2>7. Holds(tape, used, a2)
      BY <2>2, <2>3, <2>4, Shift
    <2>8. Holds(tape, used + Len(a2), b2)
      BY <2>2, <2>3, <2>4, Shift
    <2>9. QED
      BY <2>1, <2>5, <2>6, <2>7, <2>8
  <1>6. used + Len(buf') + Len(pipe') = used + Len(buf) + Len(pipe)
    BY <1>3, <1>5
  <1>7. Flow(tape, used)'
    BY <1>2, <1>5, <1>6 DEF Stream, Flow, Holds
  <1>8. QED
    BY <1>2, <1>7, LaidStays, PositionStays DEF Stream

(* A read that used n units of the buffer leaves the rest in place. *)
LEMMA Used ==
  ASSUME Types, NEW n \in 0 .. Len(buf), buf' = SubSeq(buf, n + 1, Len(buf)),
         UNCHANGED <<sender, pipe>>,
         NEW tape \in Tapes, NEW used \in Nat, Flow(tape, used)
  PROVE  Flow(tape, used + n)'
  <1>1. buf \in Seq(Units) /\ Len(buf) \in Nat /\ Len(pipe) \in Nat /\ n \in Nat
    BY DEF Types
  <1>2. Len(buf') = Len(buf) - n /\ Holds(tape, used + n, buf')
    BY <1>1, Drop DEF Flow
  <1>3. used + n + Len(buf') = used + Len(buf)
    <2>1. used + n + (Len(buf) - n) = used + Len(buf)
      BY <1>1
    <2>2. QED
      BY <1>2, <2>1
  <1>4. QED
    BY <1>2, <1>3 DEF Flow, Holds, sender

(* A header that is taken is the next on the tape. *)
LEMMA InvTakeHeader ==
  ASSUME Types, TakeHeader, rend' = "open",
         NEW tape \in Tapes, NEW ends \in Ends, NEW used \in Nat,
         Stream(tape, ends, used)
  PROVE  Stream(tape, ends, used + HeaderSize)'
  <1> DEFINE next == Len(got) + 1
             length == Len(Payload(sent[next]))
  <1>1. /\ next \in 1 .. Len(sent) /\ buf[1][3] = length
        /\ ends[next] = used + HeaderSize + length
    BY HeaderAhead DEF TakeHeader
  <1>2. length \in Nat /\ Len(sent) \in Nat /\ Len(got) \in Nat
    BY <1>1, SentPayload DEF Types
  <1>3. need = HeaderSize /\ need \in 0 .. Len(buf) /\ used = ends[Len(got)]
    BY RestType DEF TakeHeader, Stream, Position
  <1>4. Flow(tape, used + HeaderSize)'
    BY <1>3, Used DEF Stream, TakeHeader, Rest
  <1>5. sent' = sent /\ lang' = lang
    BY DEF TakeHeader, sender
  <1>6. Laid(tape, ends)'
    BY <1>5, LaidStays DEF Stream
  <1>7. Position(ends, used + HeaderSize)'
    <2>1. CASE length = 0
      <3>1. got' = Append(got, <<>>) /\ part' = "idle"
        BY <1>1, <2>1 DEF TakeHeader
      <3>2. Len(got') = next
        BY <3>1 DEF Types
      <3>3. used + HeaderSize = ends[next]
        BY <1>1, <2>1 DEF HeaderSize
      <3>4. QED
        BY <1>1, <1>2, <1>5, <3>1, <3>2, <3>3 DEF Position
    <2>2. CASE length # 0
      <3>1. /\ length \in 1 .. MaxFrame /\ got' = got
            /\ part' = "payload" /\ need' = length
        BY <1>1, <2>2 DEF TakeHeader
      <3>2. Payload(sent[next])' = Payload(sent[next])
        BY <1>5, <3>1 DEF Payload
      <3>3. Len(got) < Len(sent)
        BY <1>1, <1>2
      <3>4. QED
        BY <1>3, <1>5, <3>1, <3>2, <3>3 DEF Position
    <2>3. QED
      BY <2>1, <2>2
  <1>8. QED
    BY <1>4, <1>6, <1>7 DEF Stream

(* A payload that is taken ends where its frame ends on the tape. *)
LEMMA InvTakePayload ==
  ASSUME Types, TakePayload, NEW n, n = need,
         NEW tape \in Tapes, NEW ends \in Ends, NEW used \in Nat,
         Stream(tape, ends, used)
  PROVE  Stream(tape, ends, used + n)'
  <1> DEFINE next == Len(got) + 1
  <1>1. /\ next \in 1 .. Len(sent) /\ ends[next] = used + need
        /\ need \in 0 .. Len(buf)
    BY PayloadAhead, RestType DEF TakePayload
  <1>2. sent' = sent /\ lang' = lang /\ part' = "idle"
    BY DEF TakePayload, sender
  <1>3. Flow(tape, used + n)'
    BY <1>1, Used DEF Stream, TakePayload, Rest
  <1>4. Laid(tape, ends)'
    BY <1>2, LaidStays DEF Stream
  <1>5. Position(ends, used + n)'
    <2>1. got' = Append(got, SubSeq(buf, 1, need))
      BY DEF TakePayload
    <2>2. SubSeq(buf, 1, need) \in Seq(Units)
      BY RestType DEF TakePayload
    <2>3. Len(got') = next
      <3>1. got \in Seq(Seq(Units))
        BY DEF Types
      <3>2. QED
        BY <2>1, <2>2, <3>1, AppendProperties
    <2>4. QED
      BY <1>1, <1>2, <2>3 DEF Position, Types
  <1>6. QED
    BY <1>3, <1>4, <1>5 DEF Stream

(* Asking for a frame moves nothing. *)
LEMMA InvAsk ==
  ASSUME Ask, NEW tape, NEW ends, NEW used, Stream(tape, ends, used)
  PROVE  Stream(tape, ends, used)'
  <1>1. Laid(tape, ends)'
    BY LaidStays DEF Ask, Stream, sender
  <1>2. Position(ends, used)'
    BY DEF Ask, Stream, Position, sender
  <1>3. Flow(tape, used)'
    BY DEF Ask, Stream, Flow, Holds, sender
  <1>4. QED
    BY <1>1, <1>2, <1>3 DEF Stream

(* A sender that closes gives up what it has not written. *)
LEMMA InvClose ==
  ASSUME Close, NEW tape, NEW ends, NEW used, Stream(tape, ends, used)
  PROVE  Stream(tape, ends, used)'
  <1>1. Laid(tape, ends)'
    BY LaidStays DEF Close, Stream, receiver
  <1>2. Position(ends, used)'
    BY PositionStays DEF Close, Stream, receiver
  <1>3. Flow(tape, used)'
    BY DEF Close, Stream, Flow, Holds, receiver
  <1>4. QED
    BY <1>1, <1>2, <1>3 DEF Stream

(* Nothing changes when nothing does. *)
LEMMA InvStutter ==
  ASSUME UNCHANGED vars,
         NEW tape, NEW ends, NEW used, Stream(tape, ends, used)
  PROVE  Stream(tape, ends, used)'
  <1>1. Laid(tape, ends)' /\ Position(ends, used)'
    BY LaidStays, PositionStays DEF Stream, vars, sender, receiver
  <1>2. Flow(tape, used)'
    BY DEF Stream, Flow, Holds, vars, sender, receiver
  <1>3. QED
    BY <1>1, <1>2 DEF Stream

(* While the receiver's end is open, every step keeps the stream: the tape *)
(* and the frames are the same, `used` moves by what a read took.          *)
LEMMA StreamStep ==
  ASSUME Types, [Next]_vars, rend' = "open",
         ~ \E m \in AllMessages : Send(m),
         NEW tape \in Tapes, NEW ends \in Ends, NEW used \in Nat,
         Stream(tape, ends, used)
  PROVE  \E now \in Nat : Stream(tape, ends, now)'
  <1>1. CASE Write
    BY <1>1, InvWrite
  <1>2. CASE Fill
    BY <1>2, InvFill
  <1>3. CASE TakeHeader
    <2>1. used + HeaderSize \in Nat
      BY DEF HeaderSize
    <2>2. QED
      BY <1>3, <2>1, InvTakeHeader
  <1>4. CASE TakePayload
    <2>1. PICK n : n = need
      OBVIOUS
    <2>2. used + n \in Nat
      BY <2>1 DEF Types
    <2>3. Stream(tape, ends, used + n)'
      BY <1>4, <2>1, InvTakePayload
    <2>4. QED
      BY <2>2, <2>3
  <1>5. CASE Ask
    BY <1>5, InvAsk
  <1>6. CASE Close
    BY <1>6, InvClose
  <1>7. CASE UNCHANGED vars
    BY <1>7, InvStutter
  <1>8. CASE WriteFails
    BY <1>8 DEF WriteFails, receiver
  <1>9. CASE EndOfFile \/ Dropped \/ Leave
    BY <1>9 DEF EndOfFile, Dropped, Leave
  <1>10. QED
    BY <1>1, <1>2, <1>3, <1>4, <1>5, <1>6, <1>7, <1>8, <1>9 DEF Next, Read

(* Every step keeps the invariant. *)
LEMMA InvStep == IInv /\ [Next]_vars => IInv'
  <1> SUFFICES ASSUME IInv, [Next]_vars PROVE IInv'
    OBVIOUS
  <1>1. Types /\ Types'
    BY TypesStep DEF IInv
  <1>2. CASE \E m \in AllMessages : Send(m)
    BY <1>2, InvSend
  <1>3. CASE ~ \E m \in AllMessages : Send(m)
    <2>1. ASSUME rend' = "open"
          PROVE  \E tape \in Tapes, ends \in Ends', used \in Nat :
                   Stream(tape, ends, used)'
      <3>1. rend = "open" /\ sent' = sent
        BY <1>3, <2>1
        DEF Next, Write, WriteFails, Close, Ask, Fill, CppRead, TsData, Take,
            Read, TakeHeader, TakePayload, EndOfFile, Dropped, Leave,
            vars, sender, receiver
      <3>2. PICK tape \in Tapes, ends \in Ends, used \in Nat :
              Stream(tape, ends, used)
        BY <3>1 DEF IInv
      <3>3. PICK now \in Nat : Stream(tape, ends, now)'
        BY <1>1, <1>3, <2>1, <3>2, StreamStep
      <3>4. ends \in Ends'
        BY <3>1, <3>2 DEF Ends
      <3>5. QED
        BY <3>2, <3>3, <3>4
    <2>2. QED
      BY <1>1, <2>1 DEF IInv
  <1>4. QED
    BY <1>2, <1>3

(* What the receiver buffers, what the kernel holds and what is still to   *)
(* be written follow one another on the tape of all frames, wherever reads *)
(* and writes are cut (framing.cpp:13-105, framing.ts:16-41,               *)
(* unix-socket.ts:64-103).                                                 *)
THEOREM Invariant == Spec => []IInv
  <1>1. Init => IInv
    BY InvInit
  <1>2. IInv /\ [Next]_vars => IInv'
    BY InvStep
  <1>3. QED
    BY <1>1, <1>2, PTL DEF Spec

-----------------------------------------------------------------------------
(* Every step is a step of the channel, or none of its business. *)

(* `sent` as the channel sees it. *)
Sent == [i \in DOMAIN sent |-> Payload(sent[i])]

(* What the channel calls sent are the payloads. *)
LEMMA SentType ==
  ASSUME Types
  PROVE  /\ Sent \in Seq(Seq(Units)) /\ Len(Sent) = Len(sent)
         /\ \A i \in 1 .. Len(sent) : Sent[i] = Payload(sent[i])
  <1>1. Len(sent) \in Nat /\ DOMAIN sent = 1 .. Len(sent)
    BY DEF Types
  <1>2. Sent \in [1 .. Len(sent) -> Seq(Units)]
    BY <1>1, SentPayload DEF Sent
  <1>3. Sent \in Seq(Seq(Units))
    BY <1>1, <1>2, SeqDef
  <1>4. Len(Sent) = Len(sent)
    BY <1>1, <1>2, <1>3, LenProperties
  <1>5. QED
    BY <1>1, <1>3, <1>4 DEF Sent

(* The initial states map to that of the channel. *)
LEMMA ChanInit == Init => Chan!CInit
  BY DEF Init, Chan!CInit

(* A frame that is sent is a message the channel takes. *)
LEMMA ChanSend ==
  ASSUME Types, NEW m \in AllMessages, Send(m)
  PROVE  Chan!CNext
  <1>1. /\ Types' /\ Len(sent') = Len(sent) + 1 /\ Len(sent) \in Nat
        /\ \A i \in 1 .. Len(sent) : sent'[i] = sent[i]
        /\ sent'[Len(sent')] = m /\ Payload(m) \in Seq(Units)
        /\ sent \in Seq(AllMessages) /\ sent' \in Seq(AllMessages)
    BY SendType DEF Types
  <1>2. lang' = lang /\ wend = "open" /\ wend' = wend
        /\ got' = got /\ rend' = rend
    BY DEF Send, receiver
  <1>3. PICK a, b : a = Sent /\ b = Sent'
    OBVIOUS
  <1>4. a \in Seq(Seq(Units)) /\ Len(a) = Len(sent)
        /\ \A i \in 1 .. Len(sent) : a[i] = Payload(sent[i])
    BY <1>3, SentType
  <1>5. /\ DOMAIN sent' = 1 .. Len(sent) + 1
        /\ b = [i \in 1 .. Len(sent) + 1 |-> Payload(sent'[i])]
    BY <1>1, <1>2, <1>3 DEF Sent, Payload
  <1>6. PICK c : c = Append(a, Payload(m))
    OBVIOUS
  <1>7. c = b
    <2>1. c \in Seq(Seq(Units))
      BY <1>1, <1>4, <1>6, AppendProperties, Zenon
    <2>2. Len(c) = Len(sent) + 1
      BY <1>1, <1>4, <1>6, AppendProperties
    <2>3. \A i \in 1 .. Len(sent) : c[i] = Payload(sent[i])
      BY <1>1, <1>4, <1>6, AppendProperties
    <2>4. c[Len(sent) + 1] = Payload(m)
      BY <1>1, <1>4, <1>6, AppendProperties
    <2>5. \A i \in 1 .. Len(sent) + 1 : c[i] = Payload(sent'[i])
      BY <1>1, <2>3, <2>4
    <2>6. c = [i \in 1 .. Len(sent) + 1 |-> c[i]]
      BY <1>1, <2>1, <2>2
    <2>7. QED
      BY <1>5, <2>5, <2>6
  <1>8. Sent' = Append(Sent, Payload(m))
    BY <1>3, <1>6, <1>7
  <1>9. Chan!CSend(Payload(m))
    BY <1>2, <1>8 DEF Chan!CSend, Sent
  <1>10. Payload(m) \in {Bytes(l, x) : l \in Senders, x \in AllMessages}
    BY DEF Payload, Types
  <1>11. QED
    BY <1>9, <1>10 DEF Chan!CNext

(* The channel's messages stand as long as nothing is sent. *)
LEMMA SentStays ==
  ASSUME sent' = sent, lang' = lang
  PROVE  Sent' = Sent
  BY DEF Sent, Payload

(* The frame a read finds is the one the channel gives next. *)
LEMMA ChanHeader ==
  ASSUME Types, TakeHeader, NEW tape \in Tapes, NEW ends \in Ends,
         NEW used \in Nat, Stream(tape, ends, used)
  PROVE  [Chan!CNext]_(Chan!cvars)
  <1>1. PICK next : next = Len(got) + 1
    OBVIOUS
  <1>2. next \in 1 .. Len(sent) /\ buf[1][3] = Len(Payload(sent[next]))
    BY <1>1, HeaderAhead DEF TakeHeader
  <1>3. /\ Payload(sent[next]) \in Seq(Units) /\ Len(Payload(sent[next])) \in Nat
        /\ Len(got) < Len(Sent) /\ Sent[next] = Payload(sent[next])
        /\ MaxFrame \in Nat
    <2>1. Payload(sent[next]) \in Seq(Units)
      BY <1>2, SentPayload
    <2>2. Len(Payload(sent[next])) \in Nat
      BY <1>2, SentPayload
    <2>3. Len(got) \in Nat /\ Len(sent) \in Nat
      BY DEF Types
    <2>4. Len(got) < Len(Sent) /\ Sent[next] = Payload(sent[next])
      BY <1>1, <1>2, <2>3, SentType
    <2>5. QED
      BY <2>1, <2>2, <2>4, FramingAssumption
  <1>4. /\ sent' = sent /\ lang' = lang /\ wend' = wend /\ rend = "open"
        /\ Sent' = Sent
    BY SentStays DEF TakeHeader, sender
  <1>5. CASE Len(Payload(sent[next])) > MaxFrame
    <2>1. rend' = "failed" /\ got' = got
      BY <1>2, <1>3, <1>5 DEF TakeHeader
    <2>2. Chan!More /\ Len(Chan!Next1) > MaxFrame
      BY <1>1, <1>3, <1>5 DEF Chan!More, Chan!Next1, Sent
    <2>3. Chan!CFail
      BY <1>4, <2>1, <2>2 DEF Chan!CFail, Sent
    <2>4. QED
      BY <2>3 DEF Chan!CNext
  <1>6. CASE Len(Payload(sent[next])) = 0
    <2>1. rend' = "open" /\ got' = Append(got, <<>>)
      BY <1>2, <1>3, <1>4, <1>6 DEF TakeHeader
    <2>2. Payload(sent[next]) = <<>>
      BY <1>3, <1>6, EmptySeq
    <2>3. Chan!More /\ Chan!Next1 = <<>> /\ Len(Chan!Next1) <= MaxFrame
      BY <1>1, <1>3, <1>6, <2>2 DEF Chan!More, Chan!Next1, Sent
    <2>4. Chan!CReceive
      BY <1>4, <2>1, <2>3 DEF Chan!CReceive, Sent
    <2>5. QED
      BY <2>4 DEF Chan!CNext
  <1>7. CASE Len(Payload(sent[next])) \in 1 .. MaxFrame
    <2>1. rend' = rend /\ got' = got
      BY <1>2, <1>3, <1>7 DEF TakeHeader
    <2>2. QED
      BY <1>4, <2>1 DEF Chan!cvars, Sent
  <1>8. QED
    BY <1>3, <1>5, <1>6, <1>7

(* A payload that is taken is the message the channel hands over. *)
LEMMA ChanPayload ==
  ASSUME Types, TakePayload, NEW tape \in Tapes, NEW ends \in Ends,
         NEW used \in Nat, Stream(tape, ends, used)
  PROVE  Chan!CNext
  <1>1. PICK next : next = Len(got) + 1
    OBVIOUS
  <1>2. /\ next \in 1 .. Len(sent) /\ need \in 1 .. MaxFrame
        /\ need = Len(Payload(sent[next]))
        /\ SubSeq(buf, 1, need) = Payload(sent[next])
    BY <1>1, PayloadAhead DEF TakePayload
  <1>3. Len(got) < Len(Sent) /\ Sent[next] = Payload(sent[next])
    <2>1. Len(Sent) = Len(sent) /\ Sent[next] = Payload(sent[next])
      BY <1>2, SentType
    <2>2. Len(got) \in Nat /\ Len(sent) \in Nat
      BY DEF Types
    <2>3. QED
      BY <1>1, <1>2, <2>1, <2>2
  <1>4. /\ wend' = wend /\ rend = "open" /\ rend' = rend /\ Sent' = Sent
        /\ got' = Append(got, Payload(sent[next]))
    BY <1>2, SentStays DEF TakePayload, sender
  <1>5. /\ Chan!More /\ Chan!Next1 = Payload(sent[next])
        /\ Len(Chan!Next1) <= MaxFrame
    BY <1>1, <1>2, <1>3, FramingAssumption DEF Chan!More, Chan!Next1, Sent
  <1>6. Chan!CReceive
    BY <1>4, <1>5 DEF Chan!CReceive, Sent
  <1>7. QED
    BY <1>6 DEF Chan!CNext

(* Every step maps to a step of the channel, or to none. *)
LEMMA ChanStep == IInv /\ [Next]_vars => [Chan!CNext]_(Chan!cvars)
  <1> SUFFICES ASSUME IInv, [Next]_vars PROVE [Chan!CNext]_(Chan!cvars)
    OBVIOUS
  <1>1. Types
    BY DEF IInv
  <1>2. ASSUME NEW m \in AllMessages, Send(m) PROVE Chan!CNext
    BY <1>1, <1>2, ChanSend
  <1>3. CASE Read
    <2>1. rend = "open"
      BY <1>3 DEF Read, TakeHeader, TakePayload
    <2>2. PICK tape \in Tapes, ends \in Ends, used \in Nat :
            Stream(tape, ends, used)
      BY <2>1 DEF IInv
    <2>3. QED
      BY <1>1, <1>3, <2>2, ChanHeader, ChanPayload DEF Read
  <1>4. CASE WriteFails \/ Close
    <2>1. /\ wend = "open" /\ wend' = "closed" /\ got' = got /\ rend' = rend
          /\ Sent' = Sent
      BY <1>4, SentStays DEF WriteFails, Close, receiver
    <2>2. Chan!CClose
      BY <2>1 DEF Chan!CClose, Sent
    <2>3. QED
      BY <2>2 DEF Chan!CNext
  <1>5. CASE EndOfFile \/ Dropped
    <2>1. /\ wend = "closed" /\ wend' = wend /\ got' = got
          /\ rend = "open" /\ rend' = "failed" /\ Sent' = Sent
      BY <1>5, SentStays DEF EndOfFile, Dropped, sender
    <2>2. Chan!CFail
      BY <2>1 DEF Chan!CFail, Sent
    <2>3. QED
      BY <2>2 DEF Chan!CNext
  <1>6. CASE Leave
    <2>1. /\ wend' = wend /\ got' = got
          /\ rend = "open" /\ rend' = "left" /\ Sent' = Sent
      BY <1>6, SentStays DEF Leave, sender
    <2>2. Chan!CLeave
      BY <2>1 DEF Chan!CLeave, Sent
    <2>3. QED
      BY <2>2 DEF Chan!CNext
  <1>7. CASE Write \/ Ask \/ Fill \/ UNCHANGED vars
    <2>1. wend' = wend /\ got' = got /\ rend' = rend /\ Sent' = Sent
      BY <1>7, SentStays
      DEF Write, Ask, Fill, CppRead, TsData, Take, vars, sender, receiver
    <2>2. QED
      BY <2>1 DEF Chan!cvars, Sent
  <1>8. QED
    BY <1>2, <1>3, <1>4, <1>5, <1>6, <1>7 DEF Next

(* The receiver gets the frames that were sent, whole, in order, each      *)
(* once, refuses what is above the limit, and a read fails for no other    *)
(* reason than that or the sender's end being closed (framing.cpp:49-105,  *)
(* framing.ts:30-41, unix-socket.ts:69-103).                               *)
THEOREM IsAChannel == Spec => ChannelSpec
  <1>1. Init => Chan!CInit
    BY ChanInit
  <1>2. IInv /\ [Next]_vars => [Chan!CNext]_(Chan!cvars)
    BY ChanStep
  <1>3. QED
    BY <1>1, <1>2, Invariant, PTL DEF Spec, ChannelSpec, Chan!CSpec
=============================================================================
