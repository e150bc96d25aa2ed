------------------------------- MODULE MCGui -------------------------------
(* Gui on a small instance. *)
EXTENDS Gui

ASSUME WindowAssumption == Windowed
=============================================================================
