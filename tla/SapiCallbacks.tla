--------------------------- MODULE SapiCallbacks ---------------------------
(***************************************************************************)
(* What the SAPI callbacks of src/sapi/callbacks.rs do to the context that *)
(* get_context returns.  g is the part of sapi_globals a callback reads:   *)
(* g.code and g.hdrs are PHP's sapi_headers, g.headersSent the flag that   *)
(* guards them.  A header PHP lists is a record whose field wellFormed     *)
(* tells whether ResponseHeader::parse accepts the line.                   *)
(***************************************************************************)
EXTENDS ServerContext, Filtering

StatusMin      == 100
StatusMax      == 599
StatusFallback == 500

ClampStatus(code) ==
    IF code \in StatusMin .. StatusMax THEN code ELSE StatusFallback

\* ripht_sapi_send_header adds the lines that parse and drops the others.
ParsedHeaders(hdrs) ==
    Kept(hdrs, {i \in DOMAIN hdrs : hdrs[i].wellFormed})

\* Mutant: the code is stored as PHP gives it.
SendHeadersUnclamped(x, g) ==
    [SetStatus(x, g.code) EXCEPT !.headers = ParsedHeaders(g.hdrs)]

\* ripht_sapi_send_headers: replaces status and headers, never merges.
SendHeaders(x, g) ==
    [SetStatus(x, ClampStatus(g.code)) EXCEPT !.headers = ParsedHeaders(g.hdrs)]

\* The prologue of ub_write and flush.
EnsureHeaders(x, g) == IF g.headersSent THEN x ELSE SendHeaders(x, g)

\* Mutant: the body is written without sending the headers first.
UbWriteHeadless(x, g, data) ==
    IF data = <<>> \/ g.headersSent THEN x ELSE WriteOutput(x, data)

\* ripht_sapi_ub_write and ripht_sapi_flush on a context; str_length is never
\* 0 when PHP has something to write, an empty write returns early.
UbWrite(x, g, data) ==
    IF data = <<>> THEN x ELSE WriteOutput(EnsureHeaders(x, g), data)

Flush(x, g) == EnsureHeaders(x, g)

LogMessage(x, m) == AddMessage(x, m)
=============================================================================
