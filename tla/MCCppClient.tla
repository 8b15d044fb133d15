---------------------------- MODULE MCCppClient ----------------------------
(***************************************************************************)
(* Instances of CppClient for TLC: two threads, and the client built       *)
(* without reconnect, with two attempts, and with unlimited attempts.      *)
(***************************************************************************)
EXTENDS CppClient

NoReconnect == [reconnect |-> FALSE, max_attempts |-> 0]
Reconnect(n) == [reconnect |-> TRUE, max_attempts |-> n]

MCBounded == {NoReconnect, Reconnect(0), Reconnect(2)}
MCUnlimited == {Reconnect(-1)}
=============================================================================
