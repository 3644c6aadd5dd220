--------------------------- MODULE MCProcessBuilder ---------------------------
(* Model values for ProcessBuilder: two names, two field values, two      *)
(* conditions and two bodies besides the defaults.                         *)
EXTENDS ProcessBuilder

CONSTANTS n1, n2, v0, v1, undef, c1, b0, b1, bad, none

MCNames == {n1, n2}
MCVals == {v0, v1}
MCConds == {undef, c1}
\* The Tee body run: neither the field value nor the condition plays a
\* part in what it checks.
MCValsDefault == {v0}
MCCondsUndef == {undef}
MCBodies == {b0, b1}
=============================================================================
