---------------------------- MODULE MCAssistant ----------------------------
(* Assistant on a small instance. *)
EXTENDS Assistant
=============================================================================
