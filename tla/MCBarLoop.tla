----------------------------- MODULE MCBarLoop -----------------------------
(* BarLoop for TLC: its CONSTANTS are numbers and sets of names, given by   *)
(* the configurations.                                                      *)
EXTENDS BarLoop
=============================================================================
