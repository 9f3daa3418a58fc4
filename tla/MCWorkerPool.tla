---------------------------- MODULE MCWorkerPool ----------------------------
(***************************************************************************)
(* WorkerPool with the requests the benchmarks make, PooledBackend without *)
(* a body and with one that is or is not UTF-8, and with Pool::exec given  *)
(* every option.  Three requests to two workers come back to the first.    *)
(***************************************************************************)
EXTENDS WorkerPool

Text(v) == [type |-> "text", val |-> v]
Body(t) == [type |-> t, val |-> "body"]

Bare == [uri |-> Absent, ctype |-> Absent, body |-> Absent]
Json(t) == [Bare EXCEPT !.ctype = Text("json"), !.body = Body(t)]
Full == [uri |-> Text("uri"), ctype |-> Text("json"), body |-> Body("binary")]

MCRequests  == {Bare, Json("binary"), Full}
MCWithABody == {Json("utf8")}
=============================================================================
