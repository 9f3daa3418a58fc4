---------------------------- MODULE HookDelivery ----------------------------
(***************************************************************************)
(* One call of execute_with_hooks (src/sapi/executor.rs), with a step for  *)
(* each call of a hook (src/execution/hooks.rs) and a record of what the   *)
(* hook was told and answered.  RequestLifecycle is about the memory of    *)
(* many calls and lumps the hooks together; here PHP's output is not       *)
(* buffered and the context is never shared.                               *)
(***************************************************************************)
EXTENDS SapiCallbacks, ExecutionResult, SequencesExt

CONSTANTS
    Call, None,       \* the call, and no call
    Lines,            \* header lines a script may set
    Codes,            \* values it gives http_response_code
    RawLevels,        \* priorities the engine logs with
    MaxChunks, MaxHeaders, MaxLogs   \* bounds on what a script says

ASSUME HookBounds == /\ MaxChunks \in Nat /\ MaxHeaders \in Nat /\ MaxLogs \in Nat
                     /\ Codes \subseteq Nat /\ RawLevels \subseteq Int

VARIABLES
    pc,       \* the next step of the call
    kind,     \* whose hooks: "noop", "streaming" (StreamingCallback), "custom"
    told,     \* the calls of each hook: argument, answer
    ctx, g,   \* the context, and PHP's headers (SapiCallbacks)
    said,     \* what PHP said: the history the properties compare with
    flushed,  \* whether PHP flushed its output
    result    \* what on_request_finished is told and the call returns

vars == <<pc, kind, told, ctx, g, said, flushed, result>>

Kinds     == {"noop", "streaming", "custom"}
EnginePcs == {"startup", "script", "shutdown"}
HookPcs   == {"created", "starting", "started", "executing", "executed",
              "finishing", "headers", "status", "messages", "output", "finished"}
Hooks     == {"on_context_created", "on_request_starting", "on_request_started",
          "on_script_executing", "on_script_executed", "on_request_finishing",
          "on_header", "on_status", "on_php_message", "on_output",
          "on_request_finished"}
Outcomes  == {"rejected", "startup_failed", "panicked", "ok"}

Quiet    == [out |-> <<>>, hdrs |-> <<>>, code |-> 200, logs |-> <<>>]
NoResult == IntoResult(NewContext(<<>>, FALSE), <<>>, <<>>)

Init ==
    /\ pc      = "idle"
    /\ kind    \in Kinds
    /\ told    = [h \in Hooks |-> <<>>]
    /\ ctx     = NewContext(<<>>, FALSE)
    /\ g       = [code |-> 200, hdrs |-> <<>>, headersSent |-> FALSE]
    /\ said    = Quiet
    /\ flushed = FALSE
    /\ result  = NoResult
-----------------------------------------------------------------------------
(* The hooks. *)

Goto(from, to) == pc = from /\ pc' = to

\* Hook h is called with argument a and answers r.
Tell(h, a, r) == told' = [told EXCEPT ![h] = Append(@, [arg |-> a, answer |-> r])]

Arguments(h) == [i \in DOMAIN told[h] |-> told[h][i].arg]

\* A hook that is told something, answers nothing and is followed by the next
\* step; the context, PHP and the result stay as they are.
Plain(from, to, h, a) ==
    /\ Goto(from, to)
    /\ Tell(h, a, "")
    /\ UNCHANGED <<kind, ctx, g, said, flushed, result>>

Start ==
    /\ \E to \in {"created", "rejected"} : Goto("idle", to)
    /\ UNCHANGED <<kind, told, ctx, g, said, flushed, result>>

\* on_context_created, the context and its publication, on_request_starting;
\* after php_request_startup the INI overrides, and on_request_started.
OnContextCreated   == Plain("created", "starting", "on_context_created", "")
OnRequestStarting  == Plain("starting", "startup", "on_request_starting", "")
OnRequestStarted   == Plain("started", "executing", "on_request_started", "")
OnScriptExecuting  == Plain("executing", "script", "on_script_executing", "")

\* Mutant: the context is read before php_request_shutdown, not after it.
OnRequestFinishingLate ==
    /\ Goto("finishing", "headers")
    /\ Tell("on_request_finishing", "", "")
    /\ UNCHANGED <<kind, ctx, g, said, flushed, result>>

OnRequestFinishing == Plain("finishing", "shutdown", "on_request_finishing", "")

\* php_execute_script has returned, with or without success.
OnScriptExecuted ==
    \E success \in BOOLEAN : Plain("executed", "finishing", "on_script_executed", success)

\* Mutant: a header the hook suppressed is kept.
OnHeaderIgnored(allowed) ==
    LET i == Len(told["on_header"]) + 1
        h == ctx.headers[i]
    IN  /\ pc = "headers" /\ kind # "noop" /\ i <= Len(ctx.headers)
        /\ kind = "streaming" => allowed
        /\ Tell("on_header", h, allowed)
        /\ result' = [result EXCEPT !.headers = Append(@, h)]
        /\ UNCHANGED <<pc, kind, ctx, g, said, flushed>>

\* on_header for the next header; false leaves it out.
OnHeader(allowed) ==
    LET i == Len(told["on_header"]) + 1
        h == ctx.headers[i]
    IN  /\ pc = "headers" /\ kind # "noop" /\ i <= Len(ctx.headers)
        /\ kind = "streaming" => allowed
        /\ Tell("on_header", h, allowed)
        /\ result' = IF allowed THEN [result EXCEPT !.headers = Append(@, h)] ELSE result
        /\ UNCHANGED <<pc, kind, ctx, g, said, flushed>>

\* For NoOpHooks the list of headers is taken as it is.
HeadersDone ==
    /\ Goto("headers", "status")
    /\ kind # "noop" => Len(told["on_header"]) = Len(ctx.headers)
    /\ result' = IF kind = "noop"
                 THEN [result EXCEPT !.headers = ctx.headers]
                 ELSE result
    /\ UNCHANGED <<kind, told, ctx, g, said, flushed>>

OnStatus == Plain("status", "messages", "on_status", ctx.status)

OnPhpMessage ==
    LET i == Len(told["on_php_message"]) + 1
    IN  /\ i <= Len(ctx.messages)
        /\ Plain("messages", "messages", "on_php_message", ctx.messages[i])

MessagesDone ==
    /\ Goto("messages", "output")
    /\ Len(told["on_php_message"]) = Len(ctx.messages)
    /\ UNCHANGED <<kind, told, ctx, g, said, flushed, result>>

\* on_output is given all of the output; Done keeps it out of the result.
OnOutput(action) ==
    /\ Goto("output", "finished")
    /\ action = CASE kind = "noop" -> "Continue" [] kind = "streaming" -> "Done"
                  [] kind = "custom" -> action
    /\ Tell("on_output", ctx.out, action)
    /\ result' = IntoResult(ctx, IF action = "Continue" THEN ctx.out ELSE <<>>,
                            result.headers)
    /\ UNCHANGED <<kind, ctx, g, said, flushed>>

OnRequestFinished == Plain("finished", "ok", "on_request_finished", result)

\* The caller's code panics: nothing is caught on the way out of the call.
HookPanics ==
    /\ CASE kind = "noop"      -> FALSE
         [] kind = "streaming" -> pc = "output"
         [] kind = "custom"    -> pc \in HookPcs
    /\ pc'     = "panicked"
    /\ result' = NoResult
    /\ UNCHANGED <<kind, told, ctx, g, said, flushed>>
-----------------------------------------------------------------------------
(* The engine and its callbacks. *)

StartupOk == Goto("startup", "started") /\ UNCHANGED <<kind, told, ctx, g, said, flushed, result>>

\* StartupFailed: on_context_created and on_request_starting stay alone.
StartupFails ==
    /\ Goto("startup", "startup_failed")
    /\ UNCHANGED <<kind, told, ctx, g, said, flushed, result>>

ScriptEnds == Goto("script", "executed") /\ UNCHANGED <<kind, told, ctx, g, said, flushed, result>>

\* The end of php_request_shutdown sends headers that are not out yet.
ShutdownEnds ==
    /\ Goto("shutdown", "headers")
    /\ ctx' = EnsureHeaders(ctx, g)
    /\ g'   = [g EXCEPT !.headersSent = TRUE]
    /\ UNCHANGED <<kind, told, said, flushed, result>>

\* The script, or a shutdown function, writes a piece of output.
Write ==
    LET piece == <<Call, Len(said.out) + 1>>
    IN  /\ pc \in {"script", "shutdown"} /\ Len(said.out) < MaxChunks
        /\ said' = [said EXCEPT !.out = Append(@, piece)]
        /\ ctx'  = UbWrite(ctx, g, <<piece>>)
        /\ g'    = [g EXCEPT !.headersSent = TRUE]
        /\ UNCHANGED <<pc, kind, told, flushed, result>>

\* PHP flushes; ServerContext::flush_callback is set by nobody.
PhpFlushes ==
    /\ pc \in {"script", "shutdown"} /\ ~flushed
    /\ flushed' = TRUE
    /\ ctx' = Flush(ctx, g)
    /\ g'   = [g EXCEPT !.headersSent = TRUE]
    /\ UNCHANGED <<pc, kind, told, said, result>>

\* The n-th header line the script set, with what parse will make of it.
Listed(n, line) ==
    LET h == Parse(line)
    IN  IF h = NoHeader THEN [n |-> n, wellFormed |-> FALSE]
        ELSE [n |-> n, wellFormed |-> TRUE, name |-> h.name, value |-> h.value]

SetHeader(line) ==
    LET h == Listed(Len(said.hdrs) + 1, line)
    IN  /\ pc \in {"script", "shutdown"} /\ ~g.headersSent
        /\ Len(said.hdrs) < MaxHeaders
        /\ said' = [said EXCEPT !.hdrs = Append(@, h)]
        /\ g'    = [g EXCEPT !.hdrs = Append(@, h)]
        /\ UNCHANGED <<pc, kind, told, ctx, flushed, result>>

SetCode(code) ==
    /\ pc \in {"script", "shutdown"} /\ ~g.headersSent
    /\ said' = [said EXCEPT !.code = code]
    /\ g'    = [g EXCEPT !.code = code]
    /\ UNCHANGED <<pc, kind, told, ctx, flushed, result>>

\* ExecutionMessage::from_syslog.
FromSyslog(raw, n) == [level |-> FromRaw(raw), no |-> <<Call, n>>]

Log(raw) ==
    LET n == Len(said.logs) + 1
    IN  /\ pc \in EnginePcs /\ n <= MaxLogs
        /\ said' = [said EXCEPT !.logs = Append(@, raw)]
        /\ ctx'  = LogMessage(ctx, FromSyslog(raw, n))
        /\ UNCHANGED <<pc, kind, told, g, flushed, result>>

-----------------------------------------------------------------------------
Executor ==
    \/ Start \/ OnContextCreated \/ OnRequestStarting \/ OnRequestStarted
    \/ OnScriptExecuting \/ OnScriptExecuted \/ OnRequestFinishing
    \/ (\E allowed \in BOOLEAN : OnHeader(allowed)) \/ HeadersDone \/ OnStatus
    \/ OnPhpMessage \/ MessagesDone
    \/ (\E action \in {"Continue", "Done"} : OnOutput(action)) \/ OnRequestFinished

Engine ==
    \/ StartupOk \/ StartupFails \/ ScriptEnds \/ ShutdownEnds
    \/ Write \/ PhpFlushes
    \/ (\E line \in Lines : SetHeader(line)) \/ (\E code \in Codes : SetCode(code))
    \/ (\E raw \in RawLevels : Log(raw))

Next == Executor \/ HookPanics \/ Engine

Spec == Init /\ [][Next]_vars
-----------------------------------------------------------------------------
(* Properties. *)

\* Once the result is complete, the hooks have been told all PHP said: in a
\* shutdown function and while the request was closed as well as in the
\* script; every header that parses, the last status, messages with their
\* levels in order, and all of the output, each byte once and in order.
\* Nothing is said of how often and when on_output is called.
HooksHearAll == pc \in {"finished", "ok"} =>
    /\ kind # "noop" => Arguments("on_header") = ParsedHeaders(said.hdrs)
    /\ Arguments("on_status") = <<ClampStatus(said.code)>>
    /\ Arguments("on_php_message") =
          [i \in DOMAIN said.logs |-> FromSyslog(said.logs[i], i)]
    /\ FlattenSeq(Arguments("on_output")) = said.out

\* The headers the hooks were told of and let through; NoOpHooks: all.
LetThrough ==
    Kept(ctx.headers, {i \in DOMAIN ctx.headers :
                           kind = "noop" \/ told["on_header"][i].answer})

\* What the call returns is what on_request_finished saw, and what its caller
\* reads from it follows the hooks' answers: headers by name and in order,
\* the body unless on_output said Done, an error exactly when PHP logged one,
\* whatever priority it gave it, and at most one class of status.  As a
\* response of the http crate it is the same, or, when a header that was let
\* through is not to the crate's liking, an empty 200.
ResultAsReported == pc = "ok" =>
    /\ Arguments("on_request_finished") = <<result>>
    /\ result.headers = LetThrough
    /\ \A name \in {"name", "other"} :
          LET vals == HeaderVals(result, name)
          IN  HeaderVal(result, name) = IF vals = <<>> THEN NoHeader ELSE Head(vals)
    /\ result.body = IF told["on_output"][1].answer = "Done" THEN <<>> ELSE said.out
    /\ HasErrors(result) <=> \E i \in DOMAIN said.logs : said.logs[i] <= Error
    /\ HasErrors(result) <=> Errors(result) # <<>>
    /\ \A a, b \in Classes(result) : a = b
    /\ Classes(result) = {} <=> result.status < 200
    /\ IntoHttpResponse(result) \in
          {BareResponse, [status |-> ClampStatus(said.code), headers |-> LetThrough,
                          body |-> result.body]}
    /\ IntoHttpResponse(result) = BareResponse /\ result.status # 200 =>
          \E i \in DOMAIN said.hdrs : said.hdrs[i].wellFormed /\ ~HttpAccepts(said.hdrs[i])

\* The contract of execute, reached through the hooks one by one.
Over   == pc \in Outcomes
Working == ~Over /\ pc # "idle"

Contract == INSTANCE RequestContract WITH
    Calls   <- {Call},
    PostLen <- 0,
    mode    <- [c \in {Call} |-> "hooks"],
    phase   <- [c \in {Call} |-> IF Working THEN "running" ELSE IF Over THEN "over" ELSE "idle"],
    said    <- [c \in {Call} |->
                   [chunks |-> IF Working THEN Len(said.out) ELSE 0,
                    logs   |-> IF Working THEN Len(said.logs) ELSE 0,
                    hdrs   |-> IF Working THEN said.hdrs ELSE <<>>,
                    code   |-> IF Working THEN said.code ELSE 200,
                    post   |-> <<>>]],
    heard   <- [c \in {Call} |-> [got |-> <<>>, whole |-> TRUE]],
    last    <- [call     |-> IF Over THEN Call ELSE None,
                outcome  |-> IF Over THEN pc ELSE "rejected",
                response |-> IF ~Over THEN NoResult
                             ELSE [result EXCEPT !.messages =
                                       [i \in DOMAIN result.messages |-> result.messages[i].no]],
                heard    |-> [got |-> <<>>, whole |-> TRUE]]

ImplementsContract == Contract!Spec
=============================================================================
