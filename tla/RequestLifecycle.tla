-------------------------- MODULE RequestLifecycle --------------------------
(***************************************************************************)
(* One PHP engine, one set of SAPI globals, and the calls of               *)
(* Executor::execute_streaming and Executor::execute_with_hooks            *)
(* (src/sapi/executor.rs) that use them.  A call hands its boxed           *)
(* ServerContext to C with Box::into_raw, publishes the pointer in         *)
(* sapi_globals.server_context, lets php_request_startup,                  *)
(* php_execute_script and php_request_shutdown call back into it, and      *)
(* takes the box back with Box::from_raw.                                  *)
(*                                                                         *)
(* The steps of a call are split at the points where other code runs: the  *)
(* hooks, which may panic or (Reentrant) start another call, and the three *)
(* engine functions, during which the engine calls back any number of      *)
(* times in any order.  The engine is external: it is modelled by how      *)
(* src/sapi uses it.                                                       *)
(***************************************************************************)
EXTENDS SapiCallbacks

CONSTANTS
    Calls,        \* the calls of execute made in a behaviour
    None,         \* the null pointer, "no call"
    Reentrant,    \* whether a hook may itself call execute
    PostLen,      \* bound on the request body
    ReadSizes,    \* buffer sizes PHP passes to read_post
    Codes,        \* values a script gives http_response_code
    MaxChunks, MaxHeaders, MaxLogs   \* bounds on what one script says

ASSUME NoneAssumption  == None \notin Calls
ASSUME FlagAssumption  == Reentrant \in BOOLEAN
ASSUME BoundAssumption == /\ PostLen \in Nat /\ MaxChunks \in Nat
                          /\ MaxHeaders \in Nat /\ MaxLogs \in Nat
                          /\ ReadSizes \subseteq Nat \ {0} /\ Codes \subseteq Nat

VARIABLES
    pc,       \* where each call is
    mode,     \* "hooks" (execute_with_hooks, execute) or "stream"
    running,  \* the innermost call in progress
    parent,   \* the call whose hook started a call
    sg,       \* sapi_globals
    php,      \* the engine: its output buffer, whether a request is open
    heap,     \* who owns a call's context: "none", "raw", "owned", "freed"
    ctx,      \* the contents of a call's context
    said,     \* what PHP said and read while it worked for a call
    heard,    \* what the streaming callback of a call was given
    fault,    \* the phases in which a callback dereferenced a freed context
    last      \* the last call that ended, and what it returned

vars == <<pc, mode, running, parent, sg, php, heap, ctx, said, heard, fault, last>>

Outcomes  == {"ok", "startup_failed", "panicked", "rejected"}
EnginePcs == {"startup", "script", "drain", "failed"}
HookPcs   == {"creating", "starting", "started", "executed", "report"}
ActivePcs == EnginePcs \cup HookPcs \cup {"reclaim", "failing"}

\* request_info's pointers into the context's C strings.
InfoFields == {"method", "ctype", "query", "cookie"}

Blank     == NewContext(<<>>, FALSE)
Silent    == [chunks |-> 0, logs |-> 0, hdrs |-> <<>>, code |-> 200, post |-> <<>>]
Deaf      == [got |-> <<>>, whole |-> TRUE]
NoPointer == [f \in InfoFields |-> None]
NoResult  == IntoResult(Blank, <<>>, <<>>)

Init ==
    /\ pc      = [c \in Calls |-> "idle"]
    /\ mode    = [c \in Calls |-> "hooks"]
    /\ running = None
    /\ parent  = [c \in Calls |-> None]
    /\ sg      = [ctx |-> None, info |-> NoPointer, code |-> 200, hdrs |-> <<>>,
                  headersSent |-> FALSE, postRead |-> FALSE]
    /\ php     = [ob |-> <<>>, open |-> FALSE]
    /\ heap    = [c \in Calls |-> "none"]
    /\ ctx     = [c \in Calls |-> Blank]
    /\ said    = [c \in Calls |-> Silent]
    /\ heard   = [c \in Calls |-> Deaf]
    /\ fault   = {}
    /\ last    = [call |-> None, outcome |-> "rejected",
                  response |-> NoResult, heard |-> Deaf]
-----------------------------------------------------------------------------
(* The executor. *)

AtHook(c) == mode[c] = "hooks" /\ pc[c] \in HookPcs

Goto(c, from, to) == pc[c] = from /\ running = c /\ pc' = [pc EXCEPT ![c] = to]

\* The call ends; control goes back to the hook it was made from, if any.
End(c, from, outcome, response) ==
    /\ Goto(c, from, outcome)
    /\ running' = parent[c]
    /\ parent'  = [parent EXCEPT ![c] = None]
    /\ said'    = [said EXCEPT ![c] = Silent]
    /\ heard'   = [heard EXCEPT ![c] = Deaf]
    /\ last'    = [call |-> c, outcome |-> outcome,
                   response |-> response, heard |-> heard[c]]

MayStart(c) ==
    /\ pc[c] = "idle"
    /\ \/ running = None
       \/ Reentrant /\ running # None /\ AtHook(running)

\* The checks passed; on_context_created runs next.
Begin(c, m) ==
    /\ MayStart(c)
    /\ pc'      = [pc EXCEPT ![c] = "creating"]
    /\ mode'    = [mode EXCEPT ![c] = m]
    /\ running' = c
    /\ parent'  = [parent EXCEPT ![c] = running]
    /\ UNCHANGED <<sg, php, heap, ctx, said, heard, fault, last>>

\* Not initialized, no such script, or a NUL in its path: nothing is touched.
Reject(c) ==
    /\ MayStart(c)
    /\ pc'   = [pc EXCEPT ![c] = "rejected"]
    /\ last' = [call |-> c, outcome |-> "rejected", response |-> NoResult, heard |-> Deaf]
    /\ UNCHANGED <<mode, running, parent, sg, php, heap, ctx, said, heard, fault>>

\* Mutant: the query string of the previous request stays.
SetupGlobalsOldQuery(g, c) ==
    [g EXCEPT !.info = [f \in InfoFields |-> IF f \in {"cookie", "query"} THEN @[f] ELSE c],
              !.code = 200]

SetupGlobals(g, c) ==
    [g EXCEPT !.info = [f \in InfoFields |-> IF f = "cookie" THEN @[f] ELSE c],
              !.code = 200]

\* The context is built, its ownership given up, its address published.
Publish(c) ==
    /\ Goto(c, "creating", "starting")
    /\ heap' = [heap EXCEPT ![c] = "raw"]
    /\ \E n \in 0 .. PostLen :
          ctx' = [ctx EXCEPT ![c] = NewContext([i \in 1 .. n |-> i], mode[c] = "stream")]
    /\ sg'   = SetupGlobals([sg EXCEPT !.ctx = c], c)
    /\ UNCHANGED <<mode, running, parent, php, said, heard, fault, last>>

\* The call of php_request_startup: PHP resets its request state and asks
\* read_cookies for the Cookie header.
EnterStartup(c) ==
    /\ Goto(c, "starting", "startup")
    /\ sg'  = [sg EXCEPT !.headersSent = FALSE, !.postRead = FALSE, !.code = 200,
                         !.hdrs = <<>>, !.info["cookie"] = sg.ctx]
    /\ php' = [ob |-> <<>>, open |-> TRUE]
    /\ UNCHANGED <<mode, running, parent, heap, ctx, said, heard, fault, last>>

\* Mutants: the box is not dropped; the startup is tried again; the request
\* is not shut down; the box is left in a state nothing accounts for.
DropFailedLeak(c) ==
    /\ Goto(c, "startup", "failed")
    /\ UNCHANGED <<mode, running, parent, sg, php, heap, ctx, said, heard, fault, last>>

DropFailedRetry(c) ==
    /\ Goto(c, "startup", "starting")
    /\ UNCHANGED <<mode, running, parent, sg, php, heap, ctx, said, heard, fault, last>>

DropFailedNoShutdown(c) ==
    /\ Goto(c, "startup", "failing")
    /\ heap' = [heap EXCEPT ![c] = "freed"]
    /\ ctx'  = [ctx EXCEPT ![c] = Blank]
    /\ UNCHANGED <<mode, running, parent, sg, php, said, heard, fault, last>>

DropFailedTwice(c) ==
    /\ Goto(c, "startup", "failed")
    /\ heap' = [heap EXCEPT ![c] = "freed twice"]
    /\ UNCHANGED <<mode, running, parent, sg, php, ctx, said, heard, fault, last>>

\* php_request_startup returns FAILURE: the box is dropped, and then
\* php_request_shutdown is called.
DropFailed(c) ==
    /\ Goto(c, "startup", "failed")
    /\ heap' = [heap EXCEPT ![c] = "freed"]
    /\ ctx'  = [ctx EXCEPT ![c] = Blank]
    /\ UNCHANGED <<mode, running, parent, sg, php, said, heard, fault, last>>

ReturnStartupFailed(c) ==
    /\ End(c, "failing", "startup_failed", NoResult)
    /\ sg' = [sg EXCEPT !.ctx = None]
    /\ UNCHANGED <<mode, php, heap, ctx, fault>>

RunScript(c) ==
    /\ Goto(c, "started", "script")
    /\ UNCHANGED <<mode, running, parent, sg, php, heap, ctx, said, heard, fault, last>>

\* Mutant: the box is dropped before php_request_shutdown, the order of the
\* failure path.
BeginShutdownDropped(c) ==
    /\ Goto(c, "executed", "drain")
    /\ sg'   = [sg EXCEPT !.postRead = TRUE]
    /\ heap' = [heap EXCEPT ![c] = "freed"]
    /\ UNCHANGED <<mode, running, parent, php, ctx, said, heard, fault, last>>

\* post_read = 1, then php_request_shutdown.
BeginShutdown(c) ==
    /\ Goto(c, "executed", "drain")
    /\ sg' = [sg EXCEPT !.postRead = TRUE]
    /\ UNCHANGED <<mode, running, parent, php, heap, ctx, said, heard, fault, last>>

\* Mutant: cookie_data is not cleared.
CleanupGlobalsNotCookie(g) ==
    [g EXCEPT !.ctx = None, !.info["ctype"] = None, !.info["query"] = None]

CleanupGlobals(g) ==
    [g EXCEPT !.ctx = None, !.info["ctype"] = None, !.info["query"] = None,
              !.info["cookie"] = None]

Reclaim(c) ==
    /\ Goto(c, "reclaim", "report")
    /\ heap' = [heap EXCEPT ![c] = "owned"]
    /\ sg'   = CleanupGlobals(sg)
    /\ UNCHANGED <<mode, running, parent, php, ctx, said, heard, fault, last>>

\* on_header filters, on_output keeps the body or takes it (Done); a streaming
\* call returns no body and every header.
Return(c) ==
    /\ IF mode[c] = "stream"
       THEN End(c, "report", "ok", IntoResult(ctx[c], <<>>, ctx[c].headers))
       ELSE \E keep \in SUBSET (1 .. Len(ctx[c].headers)),
               body \in {ctx[c].out, <<>>} :
               End(c, "report", "ok",
                   IntoResult(ctx[c], body, Kept(ctx[c].headers, keep)))
    /\ heap' = [heap EXCEPT ![c] = "freed"]
    /\ ctx'  = [ctx EXCEPT ![c] = Blank]
    /\ UNCHANGED <<mode, sg, php, fault>>

\* Mutant: unwinding drops the raw box as well, the request still open.
HookPanicsDropsRaw(c) ==
    /\ AtHook(c)
    /\ End(c, pc[c], "panicked", NoResult)
    /\ IF heap[c] # "none"
       THEN heap' = [heap EXCEPT ![c] = "freed"] /\ ctx' = [ctx EXCEPT ![c] = Blank]
       ELSE UNCHANGED <<heap, ctx>>
    /\ UNCHANGED <<mode, sg, php, fault>>

\* A hook panics and the call unwinds: a box is dropped, a raw pointer is not.
HookPanics(c) ==
    /\ AtHook(c)
    /\ End(c, pc[c], "panicked", NoResult)
    /\ IF heap[c] = "owned"
       THEN heap' = [heap EXCEPT ![c] = "freed"] /\ ctx' = [ctx EXCEPT ![c] = Blank]
       ELSE UNCHANGED <<heap, ctx>>
    /\ UNCHANGED <<mode, sg, php, fault>>
-----------------------------------------------------------------------------
(* The engine, inside a function that call c made, and the callbacks it    *)
(* invokes on whatever context is published.                               *)

InEngine(c, phases) == pc[c] \in phases /\ running = c

\* get_context: not null.  Freed memory passes that test.
HasContext == sg.ctx # None
Live       == HasContext /\ heap[sg.ctx] # "freed"

\* A callback leaves context y behind, or touches freed memory.
Touch(c, y) ==
    /\ ctx'   = IF Live THEN [ctx EXCEPT ![sg.ctx] = y] ELSE ctx
    /\ fault' = IF HasContext /\ ~Live THEN fault \cup {pc[c]} ELSE fault

\* sapi_send_headers took effect: the callback did not report SEND_FAILED.
HeadersOut == sg.headersSent \/ HasContext

StartupOk(c) ==
    /\ Goto(c, "startup", "started")
    /\ UNCHANGED <<mode, running, parent, sg, php, heap, ctx, said, heard, fault, last>>

ScriptEnd(c) ==
    /\ Goto(c, "script", "executed")
    /\ UNCHANGED <<mode, running, parent, sg, php, heap, ctx, said, heard, fault, last>>

\* The script, or a shutdown function of it, writes; PHP buffers.
Echo(c) ==
    /\ InEngine(c, {"script", "drain"})
    /\ said[c].chunks < MaxChunks
    /\ said' = [said EXCEPT ![c].chunks = @ + 1]
    /\ php'  = [php EXCEPT !.ob = Append(@, <<c, said[c].chunks + 1>>)]
    /\ UNCHANGED <<pc, mode, running, parent, sg, heap, ctx, heard, fault, last>>

\* header() and http_response_code() before the headers are out.
SetHeader(c, wellFormed) ==
    LET h == [of |-> c, n |-> Len(said[c].hdrs) + 1, wellFormed |-> wellFormed]
    IN  /\ InEngine(c, {"script", "drain"})
        /\ ~sg.headersSent
        /\ Len(said[c].hdrs) < MaxHeaders
        /\ said' = [said EXCEPT ![c].hdrs = Append(@, h)]
        /\ sg'   = [sg EXCEPT !.hdrs = Append(@, h)]
        /\ UNCHANGED <<pc, mode, running, parent, php, heap, ctx, heard, fault, last>>

SetCode(c, code) ==
    /\ InEngine(c, {"script", "drain"})
    /\ ~sg.headersSent
    /\ said' = [said EXCEPT ![c].code = code]
    /\ sg'   = [sg EXCEPT !.code = code]
    /\ UNCHANGED <<pc, mode, running, parent, php, heap, ctx, heard, fault, last>>

\* ub_write with all PHP has buffered.  With no context the output is lost;
\* so it is when the streaming callback panics (panics), inside catch_unwind.
CallUbWrite(c, panics) ==
    LET t         == sg.ctx
        streaming == Live /\ ctx[t].streaming
    IN  /\ InEngine(c, {"script", "drain"})
        /\ php.ob # <<>>
        /\ panics => streaming
        /\ php'   = [php EXCEPT !.ob = <<>>]
        /\ Touch(c, UbWrite(ctx[t], sg, php.ob))
        /\ sg'    = [sg EXCEPT !.headersSent = HeadersOut]
        /\ heard' = IF ~streaming THEN heard
                    ELSE IF panics THEN [heard EXCEPT ![t].whole = FALSE]
                    ELSE [heard EXCEPT ![t].got = @ \o php.ob]
        /\ UNCHANGED <<pc, mode, running, parent, heap, said, last>>

CallFlush(c) ==
    /\ InEngine(c, {"script", "drain"})
    /\ Touch(c, Flush(ctx[sg.ctx], sg))
    /\ sg' = [sg EXCEPT !.headersSent = HeadersOut]
    /\ UNCHANGED <<pc, mode, running, parent, php, heap, said, heard, last>>

\* read_post with a buffer of n bytes; a short read ends the body for PHP.
CallReadPost(c, n) ==
    LET bytes == IF Live THEN PostSlice(ctx[sg.ctx], n) ELSE <<>>
    IN  /\ InEngine(c, {"startup", "script", "drain"})
        /\ ~sg.postRead
        /\ Touch(c, ReadPost(ctx[sg.ctx], n))
        /\ said' = [said EXCEPT ![c].post = @ \o bytes]
        /\ sg'   = IF Len(bytes) < n THEN [sg EXCEPT !.postRead = TRUE] ELSE sg
        /\ UNCHANGED <<pc, mode, running, parent, php, heap, heard, last>>

CallLogMessage(c) ==
    /\ InEngine(c, EnginePcs)
    /\ said[c].logs < MaxLogs
    /\ said' = [said EXCEPT ![c].logs = @ + 1]
    /\ Touch(c, LogMessage(ctx[sg.ctx], <<c, said[c].logs + 1>>))
    /\ UNCHANGED <<pc, mode, running, parent, sg, php, heap, heard, last>>

\* The end of php_request_shutdown: buffers are empty, headers not yet sent
\* are sent, a body nobody read to its end is read and thrown away.
Deactivate(c) ==
    LET answered == EnsureHeaders(ctx[sg.ctx], sg)
        drained  == IF sg.postRead THEN answered ELSE ReadPost(answered, PostLen)
    IN  /\ \/ Goto(c, "drain", "reclaim")
           \/ Goto(c, "failed", "failing")
        /\ php.ob = <<>>
        /\ IF sg.headersSent /\ sg.postRead
           THEN UNCHANGED <<ctx, fault>>
           ELSE Touch(c, drained)
        /\ sg'  = [sg EXCEPT !.headersSent = HeadersOut, !.hdrs = <<>>]
        /\ php' = [php EXCEPT !.open = FALSE]
        /\ UNCHANGED <<mode, running, parent, heap, said, heard, last>>
-----------------------------------------------------------------------------
Executor(c) ==
    \/ Publish(c) \/ EnterStartup(c) \/ RunScript(c) \/ BeginShutdown(c)
    \/ Reclaim(c) \/ Return(c) \/ ReturnStartupFailed(c)

\* What brings an engine function to its end.
EngineCompletes(c) ==
    \/ StartupOk(c) \/ DropFailed(c) \/ ScriptEnd(c) \/ Deactivate(c)
    \/ CallUbWrite(c, FALSE)

EngineSpeaks(c) ==
    \/ Echo(c) \/ CallFlush(c) \/ CallLogMessage(c) \/ CallUbWrite(c, TRUE)
    \/ \E wellFormed \in BOOLEAN : SetHeader(c, wellFormed)
    \/ \E code \in Codes : SetCode(c, code)
    \/ \E n \in ReadSizes : CallReadPost(c, n)

Starts(c) == Reject(c) \/ \E m \in {"hooks", "stream"} : Begin(c, m)

Next == \E c \in Calls :
    Starts(c) \/ Executor(c) \/ HookPanics(c) \/ EngineCompletes(c) \/ EngineSpeaks(c)

(* The thread that made a call keeps running it, and PHP ends what it was  *)
(* asked to do: the script is assumed to terminate, as it does under a     *)
(* non-zero max_execution_time.  Nothing makes anyone start a call or      *)
(* makes a hook panic.                                                     *)
Fairness == \A c \in Calls : WF_vars(Executor(c)) /\ WF_vars(EngineCompletes(c))

Spec == Init /\ [][Next]_vars /\ Fairness
-----------------------------------------------------------------------------
(* Properties. *)

Pointers == Calls \cup {None}

TypeOK ==
    /\ pc \in [Calls -> {"idle"} \cup ActivePcs \cup Outcomes]
    /\ mode \in [Calls -> {"hooks", "stream"}]
    /\ running \in Pointers
    /\ parent \in [Calls -> Pointers]
    /\ sg.ctx \in Pointers
    /\ sg.info \in [InfoFields -> Pointers]
    /\ sg.headersSent \in BOOLEAN /\ sg.postRead \in BOOLEAN
    /\ php.open \in BOOLEAN
    /\ heap \in [Calls -> {"none", "raw", "owned", "freed"}]
    /\ fault \subseteq EnginePcs

\* The pieces PHP wrote for c, in the order it wrote them.
Pieces(c) == [i \in 1 .. said[c].chunks |-> <<c, i>>]
Logs(c)   == [i \in 1 .. said[c].logs |-> <<c, i>>]

\* From the published pointer to the reclaimed box.
Exposed == {"starting", "startup", "started", "script", "executed", "drain"}

\* Whatever earlier calls did, panicking hooks and failed startups included,
\* PHP works for a call with that call's own context published, not yet given
\* back, and with request_info pointing into it (setup_globals, read_cookies).
RunsInOwnContext == \A c \in Calls :
    running = c /\ pc[c] \in Exposed =>
        /\ sg.ctx = c /\ heap[c] = "raw"
        /\ \A f \in InfoFields \ {"cookie"} : sg.info[f] = c
        /\ pc[c] # "starting" => sg.info["cookie"] = c

\* A pointer of sapi_globals into freed memory.
Dangling(p) == p # None /\ heap[p] = "freed"

\* server_context and the pointers cleanup_globals clears refer to freed
\* memory only after a startup that failed, the path that does not clean up.
\* request_method it never clears: that one dangles after every call.
StaleOnlyAfterFailedStartup ==
    \A p \in {sg.ctx} \cup {sg.info[f] : f \in InfoFields \ {"method"}} :
        Dangling(p) => pc[p] \in {"failed", "failing", "startup_failed"}

\* A callback dereferences a freed context only in the php_request_shutdown
\* that follows a failed startup.
FaultsOnlyAfterFailedStartup == fault \subseteq {"failed"}

\* Every call that returns has had its context freed; only a panicking hook
\* leaves one behind, and a rejected call never had one.
OnlyPanicsLeak == \A c \in Calls :
    /\ pc[c] \in {"ok", "startup_failed"} => heap[c] = "freed"
    /\ pc[c] = "rejected" => heap[c] = "none"
    /\ pc[c] = "panicked" => heap[c] # "owned"

\* No byte PHP wrote for c reaches c's context, or c's streaming callback,
\* before c's status and headers are in the context, and they are the last
\* ones the script set: PHP cannot change them any more.
HeadersBeforeBody == \A c \in Calls :
    running = c /\ pc[c] \in Exposed /\ (ctx[c].out # <<>> \/ heard[c].got # <<>>) =>
        /\ sg.headersSent
        /\ ctx[c].headers = ParsedHeaders(said[c].hdrs)
        /\ ctx[c].status  = ClampStatus(said[c].code)

\* When the box is back, it holds all PHP said for this call and nothing PHP
\* said for another: output (unless streamed), headers, status, messages.
ContextHoldsWhatWasSaid == \A c \in Calls :
    pc[c] = "report" =>
        /\ ctx[c].out      = IF mode[c] = "stream" THEN <<>> ELSE Pieces(c)
        /\ ctx[c].headers  = ParsedHeaders(said[c].hdrs)
        /\ ctx[c].status   = ClampStatus(said[c].code)
        /\ ctx[c].messages = Logs(c)
        /\ mode[c] = "stream" /\ heard[c].whole => heard[c].got = Pieces(c)

\* PHP is given the request body once, in order, from its first byte.
PostReadOnce == \A c \in Calls :
    said[c].post = [i \in 1 .. Len(said[c].post) |-> i]

\* A context is taken back or dropped only when PHP has closed the request,
\* or when php_request_startup failed.
FreedAfterShutdown ==
    [][\A c \in Calls : heap[c] = "raw" /\ heap'[c] # "raw" =>
           ~php.open \/ pc[c] = "startup"]_vars

\* Every call that starts comes back.
EveryCallReturns == \A c \in Calls : pc[c] = "creating" ~> pc[c] \in Outcomes

\* A request PHP opened for a call is closed again, also when the startup
\* fails, unless a hook of that call panics.
OpenRequestIsClosed == \A c \in Calls :
    (running = c /\ php.open /\ pc[c] = "startup") ~> (~php.open \/ pc[c] = "panicked")

\* The contract of execute (RequestContract), with the state of the engine,
\* the globals and the heap hidden.
Contract == INSTANCE RequestContract WITH
    phase <- [c \in Calls |-> IF pc[c] = "idle" THEN "idle"
                              ELSE IF pc[c] \in Outcomes THEN "over" ELSE "running"]

ImplementsContract == Contract!Spec

\* executor.rs says of the box: "reclaimed after php_request_shutdown. All
\* error paths clean up properly."
NoUseAfterFree == fault = {}

\* callbacks.rs: "One request executes at a time."  True as long as no hook
\* calls execute.
OneRequestAtATime ==
    \A c, d \in Calls : pc[c] \in Exposed /\ pc[d] \in Exposed => c = d
=============================================================================
