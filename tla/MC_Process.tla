----------------------------- MODULE MC_Process -----------------------------
(* Three process records for a two-entry process table: the second fork   *)
(* already finds the table full.  One fd per process, two kfs slots, and  *)
(* SIGTERM as the catchable signal (SIGKILL is always among the inputs).  *)
EXTENDS Process, TLC
=============================================================================
