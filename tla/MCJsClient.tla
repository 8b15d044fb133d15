----------------------------- MODULE MCJsClient -----------------------------
(***************************************************************************)
(* Instances of JsClient for TLC: two callers; the client built without    *)
(* reconnect, with two attempts, and with unlimited attempts.              *)
(***************************************************************************)
EXTENDS JsClient

NoReconnect == [reconnect |-> FALSE, maxAttempts |-> 0]
Reconnect(n) == [reconnect |-> TRUE, maxAttempts |-> n]

MCAll == {NoReconnect, Reconnect(2), Reconnect(-1)}
=============================================================================
