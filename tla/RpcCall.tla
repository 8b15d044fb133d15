------------------------------ MODULE RpcCall ------------------------------
(***************************************************************************)
(* What an ibridger client promises its caller, whatever the transport     *)
(* does.  A call is issued under a fresh request id, the server may run    *)
(* its handler at most once, and the call ends either with the handler's   *)
(* response or with an error.  An error says nothing about the server: the *)
(* handler may have run before the error, may run after it, or never.      *)
(*                                                                         *)
(* This is the contract of README.md ("Retry safety": only a request that  *)
(* the server never received is sent again) and of the client headers.     *)
(* Both clients are shown to implement it, by TLC and by proof.            *)
(***************************************************************************)
EXTENDS Integers

VARIABLES
  issued,     \* the number of request ids handed out: the ids are 1..issued
  status,     \* what the caller knows of each id
  runs        \* how often the server's handler ran for each id

avars == <<issued, status, runs>>

Statuses == {"pending", "ok", "error"}

ATypeOK ==
  /\ issued \in Nat
  /\ status \in [1..issued -> Statuses]
  /\ runs \in [1..issued -> {0, 1}]

AInit ==
  /\ issued = 0
  /\ status = [i \in 1..0 |-> "pending"]
  /\ runs = [i \in 1..0 |-> 0]

\* A caller starts a call under the next id.
Issue ==
  /\ issued' = issued + 1
  /\ status' = [i \in 1..issued' |-> IF i = issued' THEN "pending" ELSE status[i]]
  /\ runs' = [i \in 1..issued' |-> IF i = issued' THEN 0 ELSE runs[i]]

\* The server runs the handler of request i: never a second time.
Execute(i) ==
  /\ runs[i] = 0
  /\ status[i] # "ok"
  /\ runs' = [runs EXCEPT ![i] = 1]
  /\ UNCHANGED <<issued, status>>

\* The caller gets the response of its own request, which the handler made.
Succeed(i) ==
  /\ status[i] = "pending"
  /\ runs[i] = 1
  /\ status' = [status EXCEPT ![i] = "ok"]
  /\ UNCHANGED <<issued, runs>>

\* The caller gives the call up.
Fail(i) ==
  /\ status[i] = "pending"
  /\ status' = [status EXCEPT ![i] = "error"]
  /\ UNCHANGED <<issued, runs>>

ANext == Issue \/ \E i \in 1..issued : Execute(i) \/ Succeed(i) \/ Fail(i)

ASpec == AInit /\ [][ANext]_avars
=============================================================================
