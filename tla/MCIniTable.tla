----------------------------- MODULE MCIniTable -----------------------------
(***************************************************************************)
(* IniTable with two entries; PHP refuses one value for one of them.       *)
(***************************************************************************)
EXTENDS IniTable

CONSTANTS k1, k2, off, on, high

MCDefault  == [k \in {k1, k2} |-> off]
MCAccepted == [key : {k1, k2}, val : {off, on, high}] \ {[key |-> k1, val |-> on]}
=============================================================================
