-------------------------- MODULE MCRuntimeManager --------------------------
(* The instance of RuntimeManager for TLC: its constants are sets of model  *)
(* values, two threads that press every button, and a number.               *)
EXTENDS RuntimeManager
=============================================================================
