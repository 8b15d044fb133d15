------------------------------ MODULE Channel ------------------------------
(***************************************************************************)
(* What a framed connection promises in one direction: the receiver gets   *)
(* the messages that were sent, whole, in order, each once; it refuses a   *)
(* message above the limit; and as long as the sender stays and keeps to   *)
(* the limit, reading does not fail.                                       *)
(***************************************************************************)
EXTENDS Naturals, Sequences

CONSTANTS
  Frames,   (* the messages, as sequences of wire units *)
  Limit     (* the longest message a receiver takes     *)

VARIABLES
  sent,     (* messages the sender's program handed over, in order        *)
  received, (* messages the receiver's program got, in order              *)
  open,     (* the sender has not closed its end                          *)
  end       (* the receiver's end: "open", "left" (closed by its own      *)
            (* program) or "failed" (a read failed)                       *)

cvars == <<sent, received, open, end>>

CInit == sent = <<>> /\ received = <<>> /\ open = TRUE /\ end = "open"

More == Len(received) < Len(sent)
Next1 == sent[Len(received) + 1]

CSend(m) == /\ open
            /\ sent' = Append(sent, m)
            /\ UNCHANGED <<received, open, end>>

CReceive == /\ end = "open"
            /\ More
            /\ Len(Next1) <= Limit
            /\ received' = Append(received, Next1)
            /\ UNCHANGED <<sent, open, end>>

CClose == /\ open
          /\ open' = FALSE
          /\ UNCHANGED <<sent, received, end>>

CLeave == /\ end = "open"
          /\ end' = "left"
          /\ UNCHANGED <<sent, received, open>>

CFail == /\ end = "open"
         /\ open => More /\ Len(Next1) > Limit
         /\ end' = "failed"
         /\ UNCHANGED <<sent, received, open>>

CNext == \/ \E m \in Frames : CSend(m)
         \/ CReceive
         \/ CClose
         \/ CLeave
         \/ CFail

CSpec == CInit /\ [][CNext]_cvars
=============================================================================
