----------------------------- MODULE MCKeepalive -----------------------------
(* Keepalive with a second of 5 milliseconds, 4 of them in the interval, a      *)
(* minimum of 10, 3 ticks in a second, an interval that wraps at 64 and a       *)
(* product with the tick rate that wraps at 156.                                *)
EXTENDS Keepalive, TLC

CONSTANTS q1, q2

\* 0 (the default), shorter than the minimum, on its boundary (2 and 3), ordinary and
\* just ample (10), periods that wrap to 0 and to 2 ticks (13, 14), and an interval that
\* wraps to 4 milliseconds (17).
MCConfigured == {0, 1, 2, 3, 10, 13, 14, 17}

\* Places for requests are interchangeable.
Symmetry == Permutations(Slots)
=============================================================================
