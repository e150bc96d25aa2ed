---------------------------- MODULE MCAsyncCalls ----------------------------
(* AsyncCalls on a small instance. *)
EXTENDS AsyncCalls
=============================================================================
