----------------------------- MODULE MCJsServer -----------------------------
(***************************************************************************)
(* The instances of JsServer for TLC: their constants are numbers and      *)
(* stand in the configurations.                                            *)
(***************************************************************************)
EXTENDS JsServer
=============================================================================
