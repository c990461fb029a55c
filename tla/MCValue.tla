------------------------------ MODULE MCValue ------------------------------
(* Operands for TLC: 8-bit ints (TLC's own integers are 32-bit, so the   *)
(* 32-bit int is checked at a width whose differences TLC can hold) at    *)
(* the ends of the range and around 0,                                     *)
(* floats one epsilon apart and inside one epsilon, CHARS(3) payloads over *)
(* two letters and NUL.                                                    *)
EXTENDS Value, TLC

MCIntVals     == {IntMin, -1, 0, 1, IntMax}
MCFloatVals   == {-10, 0, 5, 10, 15}
MCBytes       == {0, 97, 98}
=============================================================================
