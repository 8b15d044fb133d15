----------------------------- MODULE MCEndpoint -----------------------------
(* Endpoint for TLC. *)
EXTENDS Endpoint
=============================================================================
