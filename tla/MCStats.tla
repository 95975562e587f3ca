------------------------------ MODULE MCStats ------------------------------
(* Stats on a clock of eight ticks: a window of one tick, a retention of two *)
(* ticks and days of three, so that events, the window and whole days age   *)
(* out within a run.                                                        *)
EXTENDS Stats, TLC

Symmetry == Permutations(Model)
=============================================================================
