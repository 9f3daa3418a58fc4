--------------------------- MODULE RequestBuilder ---------------------------
(***************************************************************************)
(* What PHP is told about a request: the calls a caller makes on           *)
(* WebRequest or CliRequest (src/adapters), or from_http_parts makes for   *)
(* him, build(), the calls on the ExecutionContext that comes out          *)
(* (src/execution/context.rs), and its conversion to the C strings PHP     *)
(* reads (src/sapi/server_vars.rs, server_context.rs).  A special variable *)
(* goes two ways from there: as a pointer in request_info and as an entry  *)
(* of $_SERVER.                                                            *)
(*                                                                         *)
(* A value is a string or Nul, a string with a NUL byte in it, which no    *)
(* CString can hold; "own" stands for a value the builder makes up.  Host, *)
(* port, scheme and document root have setters like the others and no      *)
(* bearing on the properties: they keep their defaults.                    *)
(***************************************************************************)
EXTENDS Naturals, SequencesExt, Filtering

CONSTANTS
    Texts,      \* values a caller may give
    Nul, None,  \* a value with a NUL in it; Option::None, a null pointer
    Opaque,     \* a header value with bytes that are not visible ASCII
    BodySizes,  \* sizes of a body
    MaxCalls    \* bound on the calls made on a builder and its context

\* Every string that is a value here: a caller's, or one the code makes up.
Strings ==
    Texts \cup {"", "GET", "POST", "own", "cookies", "octet-stream"}
    \cup {ToString(n) : n \in BodySizes}

ASSUME BuilderAssumption ==
    /\ MaxCalls \in Nat /\ BodySizes \subseteq Nat
    /\ \A v \in {Nul, None, Opaque} : v \notin Strings
    /\ Nul \notin {None, Opaque}

VARIABLES
    stage,  \* "building", "sealed" (from_http_parts), "built", "failed", "entered"
    kind,   \* "web", "cli", or "raw": ExecutionContext::script
    req,    \* the builder
    ec,     \* the ExecutionContext
    sc,     \* what the ServerContext has of it
    later,  \* what was changed on the ExecutionContext: keys, "input"
    asked,  \* the INI overrides and the environment the caller gave
    calls

vars == <<stage, kind, req, ec, sc, later, asked, calls>>
-----------------------------------------------------------------------------
(* ServerVars. *)

SpecialKeys == {"HTTP_COOKIE", "CONTENT_TYPE", "QUERY_STRING", "REQUEST_METHOD"}

Pair(k, v) == [key |-> k, val |-> v]

Own(keys) == [i \in DOMAIN keys |-> Pair(keys[i], "own")]

NoVars == [list |-> <<>>, special |-> [k \in SpecialKeys |-> None]]

\* Mutant: the first value is kept.
TrackSpecialFirst(special, p) ==
    IF p.key \in SpecialKeys /\ special[p.key] = None
    THEN [special EXCEPT ![p.key] = p.val] ELSE special

TrackSpecial(special, p) ==
    IF p.key \in SpecialKeys THEN [special EXCEPT ![p.key] = p.val] ELSE special

Set(sv, p) ==
    [list |-> Append(sv.list, p), special |-> TrackSpecial(sv.special, p)]

SetAll(sv, pairs) ==
    LET upTo[n \in 0 .. Len(pairs)] ==
            IF n = 0 THEN sv ELSE Set(upTo[n - 1], pairs[n])
    IN  upTo[Len(pairs)]

\* Mutant: the prefix is forgotten.
HttpHeaderBare(h) == Pair(h.name, h.val)

\* h.name is the header's name in upper case with "_" for "-".
HttpHeader(h) ==
    Pair(CASE h.name = "COOKIE" -> "HTTP_COOKIE"
           [] h.name = "QUERY_STRING" -> "HTTP_QUERY_STRING"
           [] h.name \in {"CONTENT_TYPE", "CONTENT_LENGTH"} -> h.name, h.val)

\* Where a list has the pairs of a name.
At(pairs, name) == {i \in DOMAIN pairs : pairs[i].key = name}

\* CString::new(..).ok(): a pair with a NUL is dropped and the others stay in
\* their order, here at their places; a tracked value is none.
CStrings(pairs) == Restrict(pairs, {i \in DOMAIN pairs : pairs[i].val # Nul})

CStringOrNull(v) == IF v = Nul THEN None ELSE v

\* into_cstring_pairs and From<ExecutionContext>.
IntoContext(e) ==
    [ vars    |-> CStrings(e.vars.list),
      special |-> [k \in SpecialKeys |-> CStringOrNull(e.vars.special[k])],
      ini     |-> CStrings(e.ini),
      env     |-> CStrings(e.env),
      post    |-> e.input ]
-----------------------------------------------------------------------------
(* The builders. *)

Defaults(k) ==
    CASE k = "web" -> Own(<<"log_errors", "html_errors", "request_order", "display_errors",
                            "implicit_flush", "variables_order", "output_buffering">>)
      [] k = "cli" -> Own(<<"html_errors", "display_errors", "implicit_flush",
                            "max_input_time", "output_buffering", "max_execution_time">>)
      [] k = "raw" -> <<>>

NewRequest(k, method) ==
    [ method |-> method, query |-> "", headers |-> <<>>, cookies |-> <<>>,
      body |-> 0, ini |-> Defaults(k), env |-> <<>> ]

\* The cookies in one string: "k=v; k=v".
Joined(cookies) ==
    IF \E i \in DOMAIN cookies : cookies[i] = Nul THEN Nul ELSE "cookies"

\* Does a header compare equal to this name, but for its case?  A name spelled
\* with "_" becomes the same variable and does not.
HasHeader(r, name) ==
    \E i \in DOMAIN r.headers : r.headers[i].name = name /\ r.headers[i].dashed

OctetStream == Pair("CONTENT_TYPE", "octet-stream")

\* Mutant: the type is not asked for.
BodyDefaultsBlind(r) ==
    IF r.body = 0 THEN <<>>
    ELSE <<OctetStream>>
         \o (IF HasHeader(r, "CONTENT_LENGTH") THEN <<>>
             ELSE <<Pair("CONTENT_LENGTH", ToString(r.body))>>)

\* What build() says of a body nobody described.
BodyDefaults(r) ==
    IF r.body = 0 THEN <<>>
    ELSE (IF HasHeader(r, "CONTENT_TYPE") THEN <<>> ELSE <<OctetStream>>)
         \o (IF HasHeader(r, "CONTENT_LENGTH") THEN <<>>
             ELSE <<Pair("CONTENT_LENGTH", ToString(r.body))>>)

\* The URI has the query string in it.
WebVars(r) ==
    Own(<<"GATEWAY_INTERFACE", "REQUEST_TIME", "REQUEST_TIME_FLOAT">>)
    \o <<Pair("REQUEST_METHOD", r.method),
         Pair("REQUEST_URI", IF r.query = Nul THEN Nul ELSE "own"),
         Pair("QUERY_STRING", r.query)>>
    \o Own(<<"SCRIPT_FILENAME", "SCRIPT_NAME", "PHP_SELF", "DOCUMENT_ROOT",
             "SERVER_NAME", "SERVER_PORT", "SERVER_ADDR", "REMOTE_ADDR",
             "REMOTE_PORT", "SERVER_PROTOCOL", "REQUEST_SCHEME">>)
    \o (IF r.cookies = <<>> THEN <<>> ELSE <<Pair("HTTP_COOKIE", Joined(r.cookies))>>)
    \o [i \in DOMAIN r.headers |-> HttpHeader(r.headers[i])]
    \o BodyDefaults(r)

CliVars ==
    Own(<<"REQUEST_TIME", "REQUEST_TIME_FLOAT", "DOCUMENT_ROOT", "SCRIPT_FILENAME",
          "SCRIPT_NAME", "PHP_SELF", "PATH_TRANSLATED", "argc", "argv">>)

\* Method::try_from, whatever the case; None stands for InvalidMethod.
MethodOf(word) ==
    CASE word \in {"GET", "get"} -> "GET" [] word = "POST" -> "POST" [] OTHER -> None

\* from_http_parts up to build(): values that are not visible ASCII are left out.
FromHttp(method, query, headers, n) ==
    [ NewRequest("web", MethodOf(method)) EXCEPT
        !.query   = query,
        !.headers = Kept(headers, {i \in DOMAIN headers : headers[i].val # Opaque}),
        !.body    = n ]

Context(pairs, r) ==
    [vars |-> SetAll(NoVars, pairs), input |-> r.body, ini |-> r.ini, env |-> r.env]

NoContext == Context(<<>>, NewRequest("raw", None))

Values == Texts \cup {Nul}

\* Names with a meaning here, and one that is that of another variable; of
\* the spellings with "_" one.
HeadersOf(values) ==
    [name : {"CONTENT_TYPE", "CONTENT_LENGTH", "COOKIE", "QUERY_STRING"},
     dashed : {TRUE}, val : values]
    \cup [name : {"CONTENT_TYPE"}, dashed : {FALSE}, val : values]

Headers == HeadersOf(Values)

\* Those of an http::Request, whose values are bytes without NUL.
HttpHeaders ==
    LET Http == HeadersOf(Texts \cup {Opaque})
    IN  {<<>>} \cup {<<h>> : h \in Http} \cup (Http \X Http)

\* Nobody calls anything on the builder of from_http_parts ("sealed"), and its
\* context is not amended either: that is no different from another's.
Init ==
    /\ \/ kind = "raw" /\ stage = "built" /\ req = NewRequest("raw", None) /\ calls = 0
       \/ kind = "cli" /\ stage = "building" /\ req = NewRequest("cli", None) /\ calls = 0
       \/ /\ kind = "web" /\ stage = "building"
          /\ \E method \in {None, "GET", "POST"} : req = NewRequest("web", method)
          /\ calls = 0
       \/ /\ kind = "web"
          /\ \E method \in {"GET", "get", "POST", "PURGE"}, query \in Texts \cup {""},
                headers \in HttpHeaders, n \in BodySizes :
                    req = FromHttp(method, query, headers, n)
          /\ stage = IF req.method = None THEN "failed" ELSE "sealed"
          /\ calls = MaxCalls
    /\ ec    = NoContext
    /\ sc    = IntoContext(NoContext)
    /\ later = {}
    /\ asked = [ini |-> <<>>, env |-> <<>>]

\* A call on the builder, which only becomes r.
Configure(r) ==
    /\ stage = "building" /\ calls < MaxCalls
    /\ calls' = calls + 1
    /\ req'   = r
    /\ UNCHANGED <<stage, kind, ec, sc, later>>

WithHeader(h) ==
    /\ kind = "web"
    /\ Configure([req EXCEPT !.headers = Append(@, h)])
    /\ UNCHANGED asked

WithCookie(v) ==
    /\ kind = "web"
    /\ Configure([req EXCEPT !.cookies = Append(@, v)])
    /\ UNCHANGED asked

WithUri(query) ==
    /\ kind = "web"
    /\ Configure([req EXCEPT !.query = query])
    /\ UNCHANGED asked

\* with_body, with_stdin.
WithBody(n) == Configure([req EXCEPT !.body = n]) /\ UNCHANGED asked

WithIni(p) ==
    /\ Configure([req EXCEPT !.ini = Append(@, p)])
    /\ asked' = [asked EXCEPT !.ini = Append(@, p)]

WithEnv(p) ==
    /\ Configure([req EXCEPT !.env = Append(@, p)])
    /\ asked' = [asked EXCEPT !.env = Append(@, p)]

\* MissingMethod, ScriptNotFound, or a context.
Build(found) ==
    /\ stage \in {"building", "sealed"}
    /\ IF (kind = "web" /\ req.method = None) \/ ~found
       THEN stage' = "failed" /\ UNCHANGED ec
       ELSE /\ stage' = "built"
            /\ ec' = Context(IF kind = "web" THEN WebVars(req) ELSE CliVars, req)
    /\ UNCHANGED <<kind, req, sc, later, asked, calls>>

\* A call on the ExecutionContext.
Amend(e, what) ==
    /\ stage = "built" /\ calls < MaxCalls
    /\ calls' = calls + 1
    /\ ec'    = e
    /\ later' = later \cup {what}
    /\ UNCHANGED <<stage, kind, req, sc>>

Var(p) == Amend([ec EXCEPT !.vars = Set(@, p)], p.key) /\ UNCHANGED asked

Input(n) == Amend([ec EXCEPT !.input = n], "input") /\ UNCHANGED asked

Ini(p) ==
    /\ Amend([ec EXCEPT !.ini = Append(@, p)], "ini")
    /\ asked' = [asked EXCEPT !.ini = Append(@, p)]

Env(p) ==
    /\ Amend([ec EXCEPT !.env = Append(@, p)], "env")
    /\ asked' = [asked EXCEPT !.env = Append(@, p)]

\* The first line of execute that uses the context: Box<ServerContext>::from.
Enter ==
    /\ stage = "built"
    /\ stage' = "entered"
    /\ sc'    = IntoContext(ec)
    /\ UNCHANGED <<kind, req, ec, later, asked, calls>>

Configures ==
    \/ \E h \in Headers : WithHeader(h)
    \/ \E v \in Values : WithCookie(v) \/ WithUri(v)
    \/ \E n \in BodySizes : WithBody(n)
    \/ \E k \in {"display_errors", "memory_limit"}, v \in Values : WithIni(Pair(k, v))
    \/ \E v \in Values : WithEnv(Pair("APP_ENV", v))

Amends ==
    \/ \E k \in SpecialKeys \cup {"CONTENT_LENGTH"}, v \in Values : Var(Pair(k, v))
    \/ \E n \in BodySizes : Input(n)
    \/ \E k \in {"display_errors", "memory_limit"}, v \in Values : Ini(Pair(k, v))
    \/ \E v \in Values : Env(Pair("APP_ENV", v))

Next == Configures \/ (\E found \in BOOLEAN : Build(found)) \/ Amends \/ Enter

Spec == Init /\ [][Next]_vars
-----------------------------------------------------------------------------
(* What PHP sees. *)

Names(pairs) == {pairs[i].key : i \in DOMAIN pairs}

\* A table in which an entry replaces the one before it.
Table(pairs) == [k \in Names(pairs) |-> pairs[Max(At(pairs, k))].val]

\* register_server_variables: SERVER_SOFTWARE, then the list.
Server ==
    LET table == Table(sc.vars)
    IN  [k \in Names(sc.vars) \cup {"SERVER_SOFTWARE"} |->
            IF k \in Names(sc.vars) THEN table[k] ELSE "own"]

\* setup_globals and read_cookies.
Info(k) ==
    IF k = "REQUEST_METHOD" /\ sc.special[k] = None THEN "GET" ELSE sc.special[k]

\* Mutant: an entry that was altered is not altered again.
IniInEffectFirst == [k \in Names(sc.ini) |-> sc.ini[Min(At(sc.ini, k))].val]

\* apply_ini_overrides: each alters the engine's entry.
IniInEffect == Table(sc.ini)

\* Mutant: a later entry replaces the one before it, as in $_SERVER.
GetenvLast(name) ==
    IF At(sc.env, name) = {} THEN None ELSE sc.env[Max(At(sc.env, name))].val

\* get_env: the first entry.  None has PHP ask the process's own environment.
Getenv(name) ==
    IF At(sc.env, name) = {} THEN None ELSE sc.env[Min(At(sc.env, name))].val
-----------------------------------------------------------------------------
(* Properties. *)

\* The two copies of a special variable agree, however often and wherever it
\* was set: request_info points to the value $_SERVER has.  The pointer is
\* null, or the default method, with an entry in $_SERVER only where a later
\* value had a NUL in it.
InfoMatchesServer ==
    LET array == Server
    IN  stage = "entered" => \A k \in SpecialKeys :
            IF sc.special[k] # None
            THEN k \in DOMAIN array /\ array[k] = Info(k)
            ELSE k \in DOMAIN array => Pair(k, Nul) \in Range(ec.vars.list)

\* What the caller's headers gave for a variable, however spelled.
Given(name) ==
    {req.headers[i].val : i \in {j \in DOMAIN req.headers : req.headers[j].name = name}}

\* A variable of $_SERVER is the caller's if he gave one, or the one made up
\* for a body when no header has its name; it is missing only without a body
\* or when the caller's could not be used.
CallersOr(array, name, made) ==
    IF name \in DOMAIN array
    THEN \/ array[name] \in Given(name)
         \/ req.body > 0 /\ ~HasHeader(req, name) /\ array[name] = made
    ELSE req.body = 0 \/ Nul \in Given(name)

\* A body given to the builder is described in $_SERVER: by the type and the
\* length the caller gave in a header, however often and before or after the
\* body, and else by octet-stream and the body's own length.  Without a body
\* no type or length is made up.
BodyIsDescribed ==
    stage = "entered" /\ kind = "web" /\ later = {} =>
        /\ CallersOr(Server, "CONTENT_TYPE", "octet-stream")
        /\ CallersOr(Server, "CONTENT_LENGTH", ToString(req.body))

\* No header, whatever its name, changes the method or the query string.
RequestLineKept ==
    stage = "entered" /\ kind = "web" =>
        /\ "REQUEST_METHOD" \notin later => Info("REQUEST_METHOD") = req.method
        /\ "QUERY_STRING" \notin later => Info("QUERY_STRING") = CStringOrNull(req.query)

\* Where the caller gave a value for a name that PHP can hold.
GivenAt(name, pairs) == {i \in At(pairs, name) : pairs[i].val # Nul}

\* The INI override in effect is the last one the caller gave that PHP can
\* hold, on the builder or on the context; else the builder's default.
CallersIniWins ==
    LET table    == IniInEffect
        given(k) == GivenAt(k, asked.ini)
    IN  stage = "entered" =>
            \A k \in {"display_errors", "memory_limit"} :
                IF given(k) # {} THEN table[k] = asked.ini[Max(given(k))].val
                ELSE (k \in DOMAIN table) <=> (k = "display_errors" /\ kind # "raw")

\* The environment goes the other way: getenv answers with the first value the
\* caller gave that PHP can hold, so a value on the context never replaces one
\* given to the builder, except one with a NUL in it, which was never kept.
FirstEnvWins ==
    LET given == GivenAt("APP_ENV", asked.env)
    IN  stage = "entered" =>
            Getenv("APP_ENV") = (IF given = {} THEN None ELSE asked.env[Min(given)].val)
=============================================================================
