--------------------------- MODULE ServerContext ---------------------------
(***************************************************************************)
(* The per-request record behind sapi_globals.server_context               *)
(* (src/sapi/server_context.rs) and the operations the SAPI callbacks      *)
(* perform on it.  The request body is the sequence of its bytes; a piece  *)
(* of output, a header and a log message are opaque values.  How the       *)
(* output buffer's capacity grows is module OutputBuffer.                  *)
(***************************************************************************)
EXTENDS Naturals, Sequences

\* `ServerContext::new` followed by `From<ExecutionContext>`: status 200,
\* nothing read, nothing written.  streaming: an output callback is set.
NewContext(post, streaming) ==
    [ status |-> 200, post |-> post, pos |-> 0, out |-> <<>>,
      messages |-> <<>>, headers |-> <<>>, streaming |-> streaming ]

\* The bytes the next read of at most n bytes copies out.
PostSlice(x, n) ==
    LET remaining == Len(x.post) - x.pos
        toCopy    == IF remaining < n THEN remaining ELSE n
    IN  SubSeq(x.post, x.pos + 1, x.pos + toCopy)

\* Mutant: the position is not moved.
ReadPostStuck(x, n) == IF n = 0 THEN x ELSE [x EXCEPT !.pos = @]

ReadPost(x, n) == [x EXCEPT !.pos = @ + Len(PostSlice(x, n))]

\* Mutant: the callback's branch does not return.
WriteOutputTwice(x, data) == [x EXCEPT !.out = @ \o data]

\* With a callback the data is handed over and nothing is buffered.
WriteOutput(x, data) ==
    IF x.streaming THEN x ELSE [x EXCEPT !.out = @ \o data]

SetStatus(x, code) == [x EXCEPT !.status = code]

AddMessage(x, m) == [x EXCEPT !.messages = Append(@, m)]

\* `into_result` and the construction at the end of execute_with_hooks.
IntoResult(x, body, headers) ==
    [ status |-> x.status, body |-> body,
      headers |-> headers, messages |-> x.messages ]
=============================================================================
