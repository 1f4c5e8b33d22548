-------------------------- MODULE MCContextSwitch --------------------------
(* Model-checking instance of ContextSwitch: kernel_main plus five task  *)
(* slots (idle, shell and three spawned tasks).                             *)
EXTENDS ContextSwitch
=============================================================================
