------------------------------ MODULE Framing ------------------------------
(***************************************************************************)
(* FramedConnection over a Unix domain socket, in one direction, in both   *)
(* SDKs: the sender writes a length header and then the payload, the       *)
(* kernel takes and gives as many bytes at a time as it likes, and the     *)
(* receiver puts the frames together again (framing.cpp, framing.ts,       *)
(* unix_socket_transport.cpp, unix-socket.ts).                             *)
(*                                                                         *)
(* Bytes(l, m) is the payload a sender of language l writes for message m, *)
(* as a sequence of units; Wire says which.  The header is two units long, *)
(* enough for a read that ends inside it.                                  *)
(*                                                                         *)
(* Each end has one user at a time: a thread that holds the client's       *)
(* mutex, a handler thread, a dispatch loop.  After a failed read that     *)
(* user closes the connection.  (The TypeScript client does neither: a     *)
(* call that times out or meets a frame above the limit leaves the         *)
(* connection as it is, which is the subject of JsClient.)                 *)
(***************************************************************************)
EXTENDS Integers, Sequences

CONSTANTS
  Messages,     (* Messages[i]: what the i-th frame may be asked to carry   *)
  Bytes(_, _),  (* the payload a sender writes, by language and message     *)
  MaxFrame,     (* MAX_FRAME_SIZE, in units                                 *)
  Capacity      (* units the kernel holds between the two ends              *)

MaxSent == Len(Messages)   \* bound on the number of frames
AllMessages == UNION {Messages[i] : i \in 1 .. MaxSent}

(* "other" is a program that writes frames but is built with neither SDK:  *)
(* it need not keep to the limit.                                          *)
Senders == {"cpp", "ts", "other"}
Receivers == {"cpp", "ts"}

IsSequence(s) ==
  Len(s) \in Nat /\ s = [i \in 1 .. Len(s) |-> s[i]]
ASSUME FramingAssumption ==
  /\ MaxFrame \in Nat /\ Capacity \in Nat
  /\ \A l \in Senders, m \in AllMessages : IsSequence(Bytes(l, m))

HeaderSize == 2
Header(n) == [k \in 1 .. HeaderSize |-> <<"length", k, n>>]

VARIABLES
  lang,     (* languages of the two ends                                    *)
  sent,     (* messages whose send began, in order                          *)
  writing,  (* what the sender has still to write of the frame              *)
  wend,     (* the sender's end: "open" or "closed"                         *)
  pipe,     (* what the kernel holds                                        *)
  rend,     (* the receiver's end: "open", "left" or "failed"               *)
  part,     (* what recv_frame() waits for: "header", "payload", or "idle"  *)
  need,     (* how many units it waits for                                  *)
  buf,      (* what was read and not used yet                               *)
  got       (* frames the receiver's program got, in order                  *)

sender   == <<sent, writing, wend>>
receiver == <<rend, part, need, buf, got>>
vars     == <<lang, sender, pipe, receiver>>

Payload(m) == Bytes(lang.snd, m)

Init ==
  /\ lang \in [snd : Senders, rcv : Receivers]
  /\ sent = <<>> /\ writing = <<>> /\ wend = "open"
  /\ pipe = <<>>
  /\ rend = "open" /\ part = "idle" /\ need = 0 /\ buf = <<>> /\ got = <<>>

-----------------------------------------------------------------------------
(* The sender *)

Fits_OffByOne(m) == lang.snd = "other" \/ Len(Payload(m)) <= MaxFrame + 1

(* An SDK refuses a frame above the limit before it writes anything.       *)
Fits(m) == lang.snd = "other" \/ Len(Payload(m)) <= MaxFrame

Send(m) ==
  /\ wend = "open" /\ writing = <<>>
  /\ Len(sent) < MaxSent /\ m \in Messages[Len(sent) + 1]
  /\ Fits(m)
  /\ sent' = Append(sent, m)
  /\ writing' = Header(Len(Payload(m))) \o Payload(m)
  /\ UNCHANGED <<lang, wend, pipe, receiver>>

(* What is left of the current call of conn.send(): header and payload are *)
(* two calls.                                                              *)
CallLeft ==
  LET size == Len(Payload(sent[Len(sent)]))
  IN  IF Len(writing) > size THEN Len(writing) - size ELSE Len(writing)

Write ==
  /\ wend = "open" /\ rend = "open" /\ writing # <<>>
  /\ \E k \in 1 .. CallLeft :
       /\ Len(pipe) + k <= Capacity
       /\ pipe' = pipe \o SubSeq(writing, 1, k)
       /\ writing' = SubSeq(writing, k + 1, Len(writing))
  /\ UNCHANGED <<lang, sent, wend, receiver>>

(* EPIPE: the caller closes the connection, the rest is not written.       *)
WriteFails ==
  /\ wend = "open" /\ rend # "open" /\ writing # <<>>
  /\ wend' = "closed" /\ writing' = <<>>
  /\ UNCHANGED <<lang, sent, pipe, receiver>>

(* disconnect(), stop(), or the end of the process, at any moment.  What   *)
(* the kernel has stays readable.                                          *)
Close ==
  /\ wend = "open"
  /\ wend' = "closed" /\ writing' = <<>>
  /\ UNCHANGED <<lang, sent, pipe, receiver>>

-----------------------------------------------------------------------------
(* The receiver *)

Ask ==
  /\ rend = "open" /\ part = "idle"
  /\ part' = "header" /\ need' = HeaderSize
  /\ UNCHANGED <<lang, sender, pipe, rend, buf, got>>

Take(k) ==
  /\ buf' = buf \o SubSeq(pipe, 1, k)
  /\ pipe' = SubSeq(pipe, k + 1, Len(pipe))
  /\ UNCHANGED <<lang, sender, rend, part, need, got>>

(* read_exact() asks for what is missing and takes what it gets.           *)
CppRead ==
  /\ lang.rcv = "cpp" /\ rend = "open" /\ part # "idle"
  /\ \E k \in 1 .. Len(pipe) : Len(buf) + k <= need /\ Take(k)

(* A data event comes with any amount, whether or not somebody waits.      *)
TsData ==
  /\ lang.rcv = "ts" /\ rend = "open"
  /\ \E k \in 1 .. Len(pipe) : Take(k)

Enough == part # "idle" /\ Len(buf) >= need
Rest_Emptied == <<>>
Rest == SubSeq(buf, need + 1, Len(buf))

TakeHeader ==
  /\ rend = "open" /\ part = "header" /\ Enough
  /\ LET length == buf[1][3]
     IN  \/ /\ length > MaxFrame
            /\ rend' = "failed"
            /\ UNCHANGED <<part, need, got>>
         \/ /\ length = 0
            /\ got' = Append(got, <<>>)
            /\ part' = "idle" /\ need' = 0
            /\ UNCHANGED rend
         \/ /\ length \in 1 .. MaxFrame
            /\ part' = "payload" /\ need' = length
            /\ UNCHANGED <<rend, got>>
  /\ buf' = Rest
  /\ UNCHANGED <<lang, sender, pipe>>

TakePayload ==
  /\ rend = "open" /\ part = "payload" /\ Enough
  /\ got' = Append(got, SubSeq(buf, 1, need))
  /\ part' = "idle" /\ need' = 0
  /\ buf' = Rest
  /\ UNCHANGED <<lang, sender, pipe, rend>>

(* read() returns 0; 'close' comes after the last data, asked for or not,  *)
(* and rejects the read that waits.  A C++ end that reads nothing is told  *)
(* nothing.                                                                *)
EndOfFile ==
  /\ rend = "open" /\ wend = "closed" /\ pipe = <<>>
  /\ ~Enough
  /\ lang.rcv = "cpp" => part # "idle"
  /\ rend' = "failed"
  /\ UNCHANGED <<lang, sender, pipe, part, need, buf, got>>

(* The receiver's own writes fail once the sender has gone, which ends the *)
(* connection with frames still unread.                                    *)
Dropped ==
  /\ rend = "open" /\ wend = "closed"
  /\ rend' = "failed"
  /\ UNCHANGED <<lang, sender, pipe, part, need, buf, got>>

(* The receiver's own program closes it, or ends. *)
Leave ==
  /\ rend = "open"
  /\ rend' = "left"
  /\ UNCHANGED <<lang, sender, pipe, part, need, buf, got>>

-----------------------------------------------------------------------------

Fill == CppRead \/ TsData
Read == TakeHeader \/ TakePayload

Next ==
  \/ \E m \in AllMessages : Send(m)
  \/ Write \/ WriteFails \/ Close
  \/ Ask \/ Fill \/ Read \/ EndOfFile \/ Dropped \/ Leave

(* The kernel moves what it has room for, a closed connection is reported  *)
(* to who uses it, the event loop or thread goes on with what it has, and  *)
(* a receiver asks for the next frame: handler threads and dispatch loops  *)
(* do nothing else, a client does while it waits for its response.         *)
Fairness ==
  /\ WF_vars(Write) /\ WF_vars(WriteFails)
  /\ WF_vars(Ask) /\ WF_vars(Fill) /\ WF_vars(Read) /\ WF_vars(EndOfFile)

Spec == Init /\ [][Next]_vars /\ Fairness

-----------------------------------------------------------------------------
(* Properties *)

(* The whole is a channel of whole messages: no frame is torn, joined with *)
(* a neighbour, lost or read twice, wherever reads and writes are cut, and *)
(* reading fails only if the sender has closed or exceeds the limit        *)
(* (framing.cpp:49-105, framing.ts:30-41, unix-socket.ts:69-103).          *)
Chan == INSTANCE Channel WITH
  Frames   <- {Bytes(l, m) : l \in Senders, m \in AllMessages},
  Limit    <- MaxFrame,
  sent     <- [i \in DOMAIN sent |-> Payload(sent[i])],
  received <- got,
  open     <- wend = "open",
  end      <- rend
ChannelSpec == Chan!CSpec

(* A frame an SDK agreed to send arrives unless an end is closed, also one *)
(* of exactly the limit (framing.cpp:18); a receiver that asks learns that *)
(* the sender has gone, and a sender that writes, that the receiver has.   *)
EverythingArrives ==
  /\ \A i \in 1 .. MaxSent :
       (Len(sent) >= i /\ lang.snd # "other")
         ~> (Len(got) >= i \/ wend = "closed" \/ rend = "left")
  /\ (wend = "closed") ~> (rend # "open")
  /\ (rend # "open" /\ writing # <<>>) ~> (writing = <<>>)
=============================================================================
