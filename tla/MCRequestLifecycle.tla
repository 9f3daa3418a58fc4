------------------------ MODULE MCRequestLifecycle ------------------------
(***************************************************************************)
(* Instances of RequestLifecycle for TLC.  The calls are interchangeable:  *)
(* no definition names one of them.                                        *)
(***************************************************************************)
EXTENDS RequestLifecycle, TLC

CallSymmetry == Permutations(Calls)

=============================================================================
