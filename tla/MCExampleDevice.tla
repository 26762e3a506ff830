--------------------------- MODULE MCExampleDevice ---------------------------
(* ExampleDevice with words of three values, and numbers on both sides of them. *)
EXTENDS ExampleDevice

MCWritten == {-1, 0, 2, Word + 1}
=============================================================================
