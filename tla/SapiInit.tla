------------------------------ MODULE SapiInit ------------------------------
(***************************************************************************)
(* How the PHP engine of the process comes up and goes down                *)
(* (src/sapi/mod.rs): RiphtSapi::instance, called by any thread, starts it *)
(* once through PHP_INIT_RESULT, a OnceLock that keeps the outcome for     *)
(* ever; RiphtSapi::shutdown stops it and tells nobody.  The two engine    *)
(* functions are external: php_module_startup succeeds or fails.           *)
(***************************************************************************)
EXTENDS Naturals

CONSTANTS
    Threads,       \* the threads of the process
    MaxCalls,      \* bound on the calls of instance() of one thread
    MaxShutdowns   \* bound on the calls of shutdown()

ASSUME InitBounds == MaxCalls \in Nat /\ MaxShutdowns \in Nat

VARIABLES
    cell,       \* PHP_INIT_RESULT: "empty", "running", "ok", "failed"
    thread,     \* where each thread is
    answer,     \* what instance() last told it: a handle or a panic
    calls,      \* how often it called instance()
    engine,     \* whether the SAPI layer and the module are up
    startups,   \* how often php_module_startup was called
    shutdowns   \* how often shutdown() was called

vars == <<cell, thread, answer, calls, engine, startups, shutdowns>>

Down == [sapi |-> FALSE, module |-> FALSE]

Init ==
    /\ cell      = "empty"
    /\ thread    = [t \in Threads |-> "out"]
    /\ answer    = [t \in Threads |-> "none"]
    /\ calls     = [t \in Threads |-> 0]
    /\ engine    = Down
    /\ startups  = 0
    /\ shutdowns = 0

Move(t, from, to) == thread[t] = from /\ thread' = [thread EXCEPT ![t] = to]

\* instance() is called: get_or_init.
Ask(t) ==
    /\ Move(t, "out", "asking")
    /\ calls[t] < MaxCalls
    /\ calls' = [calls EXCEPT ![t] = @ + 1]
    /\ UNCHANGED <<cell, answer, engine, startups, shutdowns>>

\* Mutants: the flag is not taken before the closure runs; a failure is
\* tried again; an engine that was shut down is started again.
EnterClosureUnlocked(t) ==
    /\ Move(t, "asking", "starting")
    /\ cell \in {"empty", "running"}
    /\ cell'   = "running"
    /\ engine' = [engine EXCEPT !.sapi = TRUE]
    /\ UNCHANGED <<answer, calls, startups, shutdowns>>

EnterClosureRetry(t) ==
    /\ Move(t, "asking", "starting")
    /\ cell \in {"empty", "failed"}
    /\ cell'   = "running"
    /\ engine' = [engine EXCEPT !.sapi = TRUE]
    /\ UNCHANGED <<answer, calls, startups, shutdowns>>

EnterClosureRevive(t) ==
    /\ Move(t, "asking", "starting")
    /\ cell = "empty" \/ (cell = "ok" /\ engine = Down)
    /\ cell'   = "running"
    /\ engine' = [engine EXCEPT !.sapi = TRUE]
    /\ UNCHANGED <<answer, calls, startups, shutdowns>>

\* The first thread runs the closure: the callbacks are registered and
\* sapi_startup is called.  The others wait for it in get_or_init.
EnterClosure(t) ==
    /\ Move(t, "asking", "starting")
    /\ cell = "empty"
    /\ cell'   = "running"
    /\ engine' = [engine EXCEPT !.sapi = TRUE]
    /\ UNCHANGED <<answer, calls, startups, shutdowns>>

ModuleStartup(t) ==
    /\ Move(t, "starting", "started")
    /\ startups' = startups + 1
    /\ engine'   = [engine EXCEPT !.module = TRUE]
    /\ UNCHANGED <<cell, answer, calls, shutdowns>>

\* FAILURE, and sapi_shutdown.
ModuleStartupFails(t) ==
    /\ Move(t, "starting", "failed")
    /\ startups' = startups + 1
    /\ engine'   = [engine EXCEPT !.sapi = FALSE]
    /\ UNCHANGED <<cell, answer, calls, shutdowns>>

\* Mutant: a closure that unwinds poisons the cell, as a Once would.
PublishPoisoned(t) ==
    /\ \/ Move(t, "started", "asking") /\ cell' = "ok"
       \/ Move(t, "failed", "asking") /\ cell' = "poisoned"
    /\ UNCHANGED <<answer, calls, engine, startups, shutdowns>>

\* The closure returns: its result stays in PHP_INIT_RESULT.
Publish(t) ==
    /\ \/ Move(t, "started", "asking") /\ cell' = "ok"
       \/ Move(t, "failed", "asking") /\ cell' = "failed"
    /\ UNCHANGED <<answer, calls, engine, startups, shutdowns>>

\* Mutants: a thread that finds the start in progress does not wait for it;
\* one that never gets past a failed start.
AnswerEarly(t) ==
    /\ cell # "empty"
    /\ answer' = [answer EXCEPT ![t] = IF cell = "failed" THEN "failed" ELSE "ok"]
    /\ Move(t, "asking", IF cell = "failed" THEN "out" ELSE "holding")
    /\ UNCHANGED <<cell, calls, engine, startups, shutdowns>>

AnswerOnlyOk(t) ==
    /\ cell = "ok"
    /\ answer' = [answer EXCEPT ![t] = "ok"]
    /\ Move(t, "asking", "holding")
    /\ UNCHANGED <<cell, calls, engine, startups, shutdowns>>

\* get_or_init returns: a handle, or the error, on which `expect` panics.
Answer(t) ==
    /\ cell \in {"ok", "failed"}
    /\ answer' = [answer EXCEPT ![t] = cell]
    /\ Move(t, "asking", IF cell = "ok" THEN "holding" ELSE "out")
    /\ UNCHANGED <<cell, calls, engine, startups, shutdowns>>

\* RiphtSapi has no Drop: the engine stays up.
DropHandle(t) ==
    /\ Move(t, "holding", "out")
    /\ UNCHANGED <<cell, answer, calls, engine, startups, shutdowns>>

IsInitialized == cell = "ok"

\* execute and its variants: executor() asks is_initialized, that is whether the
\* cell holds Ok, and not whether the engine is up or who else is executing.
\* The handle is !Send, but every thread can get one of its own.
Execute(t) ==
    /\ Move(t, "holding", "executing")
    /\ IsInitialized
    /\ UNCHANGED <<cell, answer, calls, engine, startups, shutdowns>>

Return(t) ==
    /\ Move(t, "executing", "holding")
    /\ UNCHANGED <<cell, answer, calls, engine, startups, shutdowns>>

\* An associated function: no handle is needed, and PHP_INIT_RESULT stays.
Shutdown(t) ==
    /\ thread[t] \in {"out", "holding"}
    /\ shutdowns < MaxShutdowns
    /\ shutdowns' = shutdowns + 1
    /\ engine'    = Down
    /\ UNCHANGED <<cell, thread, answer, calls, startups>>

Starting(t) ==
    \/ EnterClosure(t) \/ ModuleStartup(t) \/ ModuleStartupFails(t)
    \/ Publish(t) \/ Answer(t)

Next == \E t \in Threads :
    \/ Ask(t) \/ Starting(t) \/ DropHandle(t) \/ Shutdown(t)
    \/ Execute(t) \/ Return(t)

(* A thread inside get_or_init keeps running or is woken up when the result *)
(* is there, and php_module_startup returns.  Nobody has to call anything.  *)
Fairness == \A t \in Threads : WF_vars(Starting(t))

Spec == Init /\ [][Next]_vars /\ Fairness
-----------------------------------------------------------------------------
(* Properties. *)

Cells == {"empty", "running", "ok", "failed"}

TypeOK ==
    /\ cell \in Cells
    /\ thread \in [Threads -> {"out", "asking", "starting", "started", "failed",
                             "holding", "executing"}]
    /\ answer \in [Threads -> {"none", "ok", "failed"}]
    /\ calls \in [Threads -> 0 .. MaxCalls]
    /\ engine \in [sapi : BOOLEAN, module : BOOLEAN]
    /\ startups \in Nat
    /\ shutdowns \in 0 .. MaxShutdowns

\* php_module_startup is called at most once in the process, whatever threads
\* ask at the same time, whatever it returned, and also after a shutdown.
StartedOnce == startups <= 1

\* Every thread that asked was told the same, and it is what is_initialized
\* says: executor() never returns NotInitialized to the owner of a handle.
SameAnswer == \A t \in Threads :
    /\ answer[t] # "none" => answer[t] = cell
    /\ thread[t] \in {"holding", "executing"} => cell = "ok"

\* A handle means that the engine is up, and stays up while it is used to
\* execute a script, until someone calls shutdown().
UpWhileHeld == \A t \in Threads :
    thread[t] \in {"holding", "executing"} /\ shutdowns = 0 =>
        engine.sapi /\ engine.module

\* A start that failed leaves nothing up, whenever threads ask again.
DownWhenFailed == cell = "failed" => engine = Down

\* shutdown() is final: handles are still given out, the engine stays down.
NoRevival == [][cell = "ok" /\ engine = Down => engine' = Down]_vars

\* Every call of instance() returns or panics.
AskIsAnswered == \A t \in Threads :
    thread[t] = "asking" ~> thread[t] \in {"holding", "out"}

\* lib.rs: "PHP runs in NTS (non-thread-safe) mode with one request executing
\* at a time."
OneRequestAtATime ==
    \A t, u \in Threads : thread[t] = "executing" /\ thread[u] = "executing" => t = u
=============================================================================
