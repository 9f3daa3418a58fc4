----------------------------- MODULE MCSapiInit -----------------------------
(***************************************************************************)
(* SapiInit with three threads: one that starts the engine, one that waits *)
(* for it, and one that may shut it down meanwhile.                        *)
(***************************************************************************)
EXTENDS SapiInit

CONSTANTS t1, t2, t3

MCThreads == {t1, t2, t3}
=============================================================================
