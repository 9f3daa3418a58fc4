--------------------------- MODULE MCOutputBuffer ---------------------------
(***************************************************************************)
(* OutputBuffer with a 7-bit usize: large enough for every strategy to     *)
(* grow several times and to reach the limit, also through wrap-around.    *)
(***************************************************************************)
EXTENDS OutputBuffer

MCRequested == 0 .. 20
MCWrites    == 1 .. MaxCap
=============================================================================
