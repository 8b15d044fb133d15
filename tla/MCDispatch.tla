----------------------------- MODULE MCDispatch -----------------------------
(***************************************************************************)
(* The instance of Dispatch for TLC.  Calls share nothing but the tables,  *)
(* so one call among registrations shows what any call may see.            *)
(***************************************************************************)
EXTENDS Dispatch
=============================================================================
