--------------------------- MODULE MCCrashStorm ----------------------------
(* A second of two ticks, a storm of three deaths in a window of three     *)
(* ticks, and a clock that outlasts the window.                            *)
EXTENDS CrashStorm
=============================================================================
