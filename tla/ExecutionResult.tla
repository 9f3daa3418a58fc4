--------------------------- MODULE ExecutionResult ---------------------------
(***************************************************************************)
(* What a caller gets back (src/execution/result.rs), the headers and      *)
(* messages in it (header.rs, message.rs) and its conversion to the        *)
(* response type of the http crate.  A header line is a record of what     *)
(* tells lines apart: has it a colon, the class of its name, its value.    *)
(***************************************************************************)
EXTENDS Integers, Filtering

CONSTANT NoHeader   \* what ResponseHeader::parse makes of a malformed line

\* Names that leave no header: nothing before the colon, only white space,
\* bytes that are not UTF-8.
BadNames == {"", "blank", "bytes"}

\* A value that is not UTF-8 is kept, with replacement characters.
Lossy(value) == IF value = "bytes" THEN "replaced" ELSE value

\* ResponseHeader::parse.
Parse(line) ==
    IF ~line.colon \/ line.name \in BadNames THEN NoHeader
    ELSE [name |-> line.name, value |-> Lossy(line.value)]

\* Syslog priorities, 0 (Emergency) to 7 (Debug).
Emergency == 0
Error     == 3
Debug     == 7

\* SyslogLevel::from_raw.
FromRaw(raw) ==
    IF raw \in Emergency .. Debug THEN raw
    ELSE IF raw < 0 THEN Emergency ELSE Debug

\* is_error_or_worse, and ExecutionResult::has_errors and errors.
IsError(m) == m.level \in Emergency .. Error

HasErrors(r) == \E i \in DOMAIN r.messages : IsError(r.messages[i])

Errors(r) ==
    Kept(r.messages, {i \in DOMAIN r.messages : IsError(r.messages[i])})

\* Names are compared without case: the two spellings of a name here.
SameName(a, b) == a = b \/ {a, b} = {"Name", "name"}

\* header_vals, and header_val: the first of them.
HeaderVals(r, name) ==
    LET found == Kept(r.headers,
                      {i \in DOMAIN r.headers : SameName(r.headers[i].name, name)})
    IN  [i \in DOMAIN found |-> found[i].value]

HeaderVal(r, name) ==
    LET found == {i \in DOMAIN r.headers : SameName(r.headers[i].name, name)}
    IN  IF found = {} THEN NoHeader
        ELSE r.headers[CHOOSE i \in found : \A j \in found : i <= j].value

\* is_success, is_redirect, is_client_error and is_server_error.
Classes(r) ==
    {class \in {"success", "redirect", "client", "server"} :
        r.status \in CASE class = "success"  -> 200 .. 299
                       [] class = "redirect" -> 300 .. 399
                       [] class = "client"   -> 400 .. 499
                       [] class = "server"   -> 500 .. 599}

\* What the http crate refuses: a name that is no token, a value with a
\* control character.
HttpAccepts(h) == h.name # "two words" /\ h.value # "control"

\* http::Response::new(Vec::new()): status 200, nothing in it.
BareResponse == [status |-> 200, headers |-> <<>>, body |-> <<>>]

\* into_http_response: the first error of the builder stays, and then all of
\* the response is given up.
IntoHttpResponse(r) ==
    IF \A i \in DOMAIN r.headers : HttpAccepts(r.headers[i])
    THEN [status |-> r.status, headers |-> r.headers, body |-> r.body]
    ELSE BareResponse
=============================================================================
