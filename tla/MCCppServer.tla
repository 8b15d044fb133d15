---------------------------- MODULE MCCppServer ----------------------------
(***************************************************************************)
(* The instances of CppServer for TLC: one user; the other constants are   *)
(* numbers and stand in the configurations.                                *)
(***************************************************************************)
EXTENDS CppServer
=============================================================================
