# A TLA+ model of ripht-php-sapi

`ripht-php-sapi` embeds the PHP engine in a Rust process: it registers SAPI
callbacks, starts the engine once, and executes scripts one after the other
with `RiphtSapi::execute`, `execute_streaming` and `execute_with_hooks`. Its
benchmarks drive the library through a pool of worker processes and compare it
with php-fpm and FrankenPHP. This directory holds TLA+ models of both, TLC
configurations for small instances, and proofs for TLAPS. Paths below are relative to the repository.

## The system

| Component | Source | State it keeps | Operations |
|---|---|---|---|
| Engine start and stop | `src/sapi/mod.rs` | `PHP_INIT_RESULT` (a `OnceLock`), `sapi_module` | `instance`, `init`, `is_initialized`, `shutdown`, `set_ini`, `get_ini` |
| Request execution | `src/sapi/executor.rs`, `src/execution/hooks.rs` | who owns the boxed `ServerContext`, `sapi_globals` | `execute`, `execute_streaming`, `execute_with_hooks` |
| SAPI callbacks | `src/sapi/callbacks.rs` | none of their own | `ub_write`, `flush`, `send_headers`, `send_header`, `read_post`, `read_cookies`, `register_server_variables`, `log_message`, `getenv` |
| Server context | `src/sapi/server_context.rs` | body and position, output buffer, status, headers, messages, variables | `read_post`, `write_output`, `set_status`, `add_header`, `add_message`, `into_result` |
| Request builders | `src/adapters/*.rs`, `src/execution/context.rs` | the request under construction | `with_*`, `build`, `var`, `input`, `env`, `ini` |
| Server variables | `src/sapi/server_vars.rs` | list of variables, tracked special ones | `set`, `http_header`, `into_cstring_pairs` |
| Results | `src/execution/{result,header,message}.rs` | immutable values | accessors, `ResponseHeader::parse`, `into_http_response` |
| Worker pool | `benches/shared/{pool,worker}.rs` | round-robin index, one process and two pipes per worker | `send`, `exec`, `echo`, `drop`, the worker loop |
| Worker protocol | `benches/shared/protocol.rs` | none | `write_message`, `read_message` |
| Other backends | `benches/shared/{backend,fpm,frankenphp,env}.rs`, `benches/sapi_comparison.rs` | child process, socket file, port, a counter of numbers | `run_suite`, `start`, `execute`, `drop` |
| Adapter trait, FFI, build script, examples | `src/adapters/mod.rs`, `src/sapi/ffi.rs`, `build.rs`, `examples/` | | |

How they interact. A caller builds an `ExecutionContext` and calls `execute`.
The executor turns it into a boxed `ServerContext`, gives up the box with
`Box::into_raw`, stores the pointer in the global `sapi_globals.server_context`
and the addresses of some of its strings in `request_info`, and calls
`php_request_startup`, `php_execute_script` and `php_request_shutdown`. From
within these three, PHP calls the callbacks, which find the context through the
global pointer. Afterwards the executor takes the box back and turns it into a
result. Hooks, the caller's code, run between these steps. INI overrides of a
request and `set_ini` write the same table of the engine. In the benchmarks
the same happens inside worker processes, each fed over a pipe by a pool that
sends one request at a time; the other backends spawn a server, wait for its
socket, and speak FastCGI or HTTP to it.

What is hard about it:

* memory shared with C through one global pointer, in an order only comments
  state; failures and unwinding in the middle of that order;
* callbacks in any number and order, some after the script has ended;
* the same global reused by every request, so what one request leaves behind
  is what the next one finds;
* one-time initialisation asked for by several threads, and a shutdown that
  the one-time cell does not know of;
* processes that crash, pipes that fill up, and responses that are matched to
  requests by nothing but their order;
* servers that come up late, or never, and that outlive the process that
  started them, under socket names and ports which the next one uses again.

`PROJECT.json` lists each hazard with its line and the properties that cover it.

## The modules

| Module | Models | Notes |
|---|---|---|
| `ServerContext` | `server_context.rs` | operators on the context record |
| `SapiCallbacks` | `callbacks.rs` | what each callback does to a context, extends `ServerContext` |
| `RequestLifecycle` | `executor.rs`, `hooks.rs`, `get_context` | the state machine, extends `SapiCallbacks` |
| `RequestContract` | the promise of `execute` | abstract specification; `RequestLifecycle` and `HookDelivery` implement it |
| `Filtering` | loops that keep some elements of a list | one operator, `Kept` |
| `ExecutionResult` | `result.rs`, `header.rs`, `message.rs` | operators on results, header lines, priorities |
| `HookDelivery` | `execute_with_hooks`, `hooks.rs` | one call, hook by hook, extends `SapiCallbacks` and `ExecutionResult` |
| `IniTable` | `set_ini`, `get_ini`, `apply_ini_overrides` | the engine's INI table across requests |
| `OutputBuffer` | `buffer_policy`, `write_output` | the growth arithmetic alone |
| `SapiInit` | `mod.rs` | threads, `PHP_INIT_RESULT`, engine |
| `RequestBuilder` | `adapters/{web,cli}.rs`, `context.rs`, `server_vars.rs` and what reads them | what PHP is told about a request |
| `WorkerProtocol` | `protocol.rs` | encoding and decoding of a request |
| `WorkerPool` | `pool.rs`, `worker.rs` | client, workers and pipes, extends `WorkerProtocol` |
| `FcgiFraming` | FastCGI in `fpm.rs` | records, parameters, output of an answer, and how a server reads a request |
| `Backends` | `fpm.rs`, `frankenphp.rs`, `backend.rs`, `env.rs`, `run_suite` | benchmark processes and servers, extends `FcgiFraming` |
| `MC*` | | values and symmetry for TLC |
| `*_proofs` | | theorems |

Operators whose comment begins with "Mutant" are deliberately wrong variants of
the definition that follows them. No specification uses them; each shows which
mistake in the code one of the properties would catch.

### RequestLifecycle

One thread of control and a set `Calls` of calls. `pc[c]` is the place of call
`c` in the function; the steps are cut where other code runs:

| `pc` | Code |
|---|---|
| `creating` | the checks passed, `on_context_created` |
| `starting` | pointer published, `on_request_starting` |
| `startup` | inside `php_request_startup` |
| `started` | INI overrides applied, `on_request_started`, `on_script_executing` |
| `script` | inside `php_execute_script` |
| `executed` | `on_script_executed`, `on_request_finishing` |
| `drain` | inside `php_request_shutdown` |
| `reclaim`, `report` | box taken back; `on_header` ... `on_request_finished` |
| `failed`, `failing` | startup failed, box dropped: inside the second `php_request_shutdown`, and after it |
| `ok`, `startup_failed`, `panicked`, `rejected` | the ways a call ends |

`heap[c]` says who owns the context (`raw` between `into_raw` and `from_raw`),
`ctx[c]` what is in it, `sg` is `sapi_globals`, `php` the engine's output buffer
and whether a request is open. `said` and `heard` record what PHP said for a
call and what its streaming callback was given; they are history the properties
compare results with. `fault` collects the phases in which a callback touched
freed memory: the model keeps the machine running after such a step, the callback
leaving every context as it is. That is one of the outcomes undefined behaviour
allows; no property about contents is claimed of a run in which it matters,
since the only call it happens in is the one that fails.

`execute_streaming` calls no hooks of the caller's: its calls have `mode` `"stream"`, and
`AtHook` is false for them. A hook may panic (`HookPanics`) wherever a hook is
called. With `Reentrant` a hook may also start another call.

The engine is external. Modelled of it: it resets its request state at startup;
between startup and shutdown it calls the callbacks in any order; `ub_write`
comes with whatever it has buffered; headers and status can be changed until
headers have been sent; a `read_post` that returns less than it was asked for
ends the body; `php_request_shutdown` flushes output, sends headers that are not
yet out, and drains a body nobody read to its end.

### SapiInit

Any set of threads. `cell` is `PHP_INIT_RESULT`; `running` is the state of a
`OnceLock` while the first caller is inside the closure. The closure is cut at
`sapi_startup`, `php_module_startup` and its return, which is when the cell is
set. `instance()` ends with a handle or with the panic of `expect`.
A thread that holds a handle may execute (`executing`): `executor()` looks at
the cell and at nothing else. `RiphtSapi::shutdown` may come from any thread that
is not inside `instance()` or `execute`, at any time.

### HookDelivery and ExecutionResult

One call of `execute_with_hooks`, a step for every hook, with what each hook was
told and answered in `told`. `kind` says whose hooks they are: `NoOpHooks`, for
which `execute` takes the headers as they are, `StreamingCallback`, or the
caller's own, whose answers are arbitrary and which may panic. `g` is PHP's side
of the headers and `said` what the script said. Header lines are classes of
lines (`MCHookDelivery` has one of each): what `ResponseHeader::parse` refuses,
two spellings of a name, a value that is not UTF-8, a name that is no token of
HTTP. The result is compared with the answers of the hooks, through the accessors
a caller would use. The same abstract specification `RequestContract` that
`RequestLifecycle` implements is implemented here, with the hooks spelled out
and the memory left out.

### IniTable

`table` is the engine's INI table and `saved` the value an entry had before it
was first altered, which the end of `php_request_shutdown` puts back; that much
of PHP is external. `wanted` are the overrides of the current request and the
values a hook sets after it has started, `base` and `left` are history: what
`set_ini` asked for between requests, and whether a panic left a request open.
The model shows what is easy to miss: `set_ini` between two requests lasts for
one request, since shutdown puts back whatever was altered.

### WorkerPool and WorkerProtocol

`WorkerProtocol` is about the three options of `Request::Exec`, which are the
fields that can be absent. In `WorkerPool` frames travel in units through pipes
of `PipeCap` units; the client writes the whole request before it reads, as
`Worker::send` does. A request that the worker cannot decode is answered with an
error and the loop goes on, end of file ends it.

### FcgiFraming and Backends

A benchmark process (`pc`, `own`, `nextId`) starts the backends `todo` lists, one
after another: `start` with its polls, some requests, `drop`. It may be killed
at any point, and another follows that counts from the same number. `srv` are the
server processes, `file` and `port` who made the socket of a number or listens on
it. A server makes its socket when it likes, may crash, and may never answer.
`orphans` is history: the servers nobody will kill, and whether they had made
their socket when they were left.

Requests and answers are sequences of bytes. `Base` stands for 256, and `0x80` for
half of it, so that with 8 for 256 the 16-bit length of a record wraps at 64 and
a length takes four bytes from 4 on. `ReadRequest` reads the client's bytes as the
FastCGI specification has it, with a server that checks the version of a record
and one that does not, because the record that begins a request is written with
version 0 and all others with version 1. A reply arrives `Segment` bytes at a time
and may stop anywhere. It has a `form`: php-fpm's records, or the page behind the
headers of HTTP, as it is or in the chunks that HTTP/1.1 allows and Go's servers use
for a page that is flushed or long. `http_execute` strips the headers and nothing
else, so `Body` is what a reader can expect of each form, and of a chunked answer
that is not the page. When the server dies the connection ends (`ReadEnds`) or is
reset (`ReadIsReset`); `fcgi_execute` takes an error for the end, `http_execute`
has no answer then.

### OutputBuffer

The capacity and length of the buffer, with a machine word of `2 * MaxCap + 2`
values. `Vec::reserve` is taken to double at least, and to panic above
`isize::MAX` (`MaxCap`); `ub_write` catches that panic.

### RequestBuilder

One request from `WebRequest::new`, `CliRequest::new` or
`ExecutionContext::script` to `Box<ServerContext>::from`. `req` is the builder,
`ec` the `ExecutionContext` that `Build` makes of it, `sc` what the
`ServerContext` keeps. Every setter is one action, and there may be `MaxCalls`
of them on the builder and on the context together. A value is plain, or has a
NUL byte in it, which `CString::new` refuses; whoever converts drops such a
value in silence. A header is its name as a variable, and whether it is spelled
with `-`: `build()` compares names as the caller spelled them, PHP sees
variables. `from_http_parts` makes its calls before `Build` in one piece
(`FromHttp`): its caller sees no builder. `Server`, `Info`, `IniInEffect` and
`Getenv` are what PHP ends up with in `$_SERVER`, in `request_info`, in its INI
table and from `getenv`, computed from `sc` the way `register_server_variables`,
`setup_globals`, `apply_ini_overrides` and `ripht_sapi_getenv` do.
A list of pairs with some dropped keeps the places the others had (`CStrings`), so
that `At`, the places of a name, tells the first and the last of them.

## What TLC checks

| Run | Instance | Shows |
|---|---|---|
| `ownership` | two calls, one after the other or one from a hook of the other, one piece of output, one log message | `TypeOK`, `StaleOnlyAfterFailedStartup`, `FaultsOnlyAfterFailedStartup`, `OnlyPanicsLeak`, `FreedAfterShutdown`, and under fairness `EveryCallReturns`, `OpenRequestIsClosed` |
| `contract` | two calls in turn, a body of up to 2 bytes read one at a time, two pieces of output, a header that may be malformed, a status out of range, a log message | `RunsInOwnContext`, `PostReadOnce`, `HeadersBeforeBody`, `ContextHoldsWhatWasSaid`, and `ImplementsContract` |
| `hooks` | one call with each kind of hooks, two header lines of six kinds, two pieces of output, two messages with priorities in and out of range | `HooksHearAll`, `ResultAsReported`, and `ImplementsContract` |
| `ini` | two entries, three values, one of which PHP refuses for one entry, up to two settings per request, any number of requests | `ScriptSeesItsSettings` |
| `buffer` | 7-bit word, all strategies, all piece lengths | `NoUnderflow`, `GrowthIsEnough`, `RefusedOnlyAtLimit` |
| `init` | three threads, two calls each, one shutdown | `TypeOK`, `StartedOnce`, `SameAnswer`, `UpWhileHeld`, `NoRevival`, `AskIsAnswered` |
| `pool` | two workers, three requests, frames of 1 or 3 units, pipes of 2, one crash | `AnswersInOrder`, `QuietWhenIdle`, `PanicOnlyAfterCrash`, `SendComesBack`, `WorkersExit` |
| `builder` | three kinds of request, up to three calls, two values and one with a NUL, bodies of 0 and 5 bytes; `http::Request`s with up to two headers | `InfoMatchesServer`, `BodyIsDescribed`, `RequestLineKept`, `CallersIniWins`, `FirstEnvWins` |
| `backends` | two benchmark processes with one suite of up to two backends, one poll, two requests, one crash; bodies of 0, 63 and 64 bytes where a length wraps at 64 | `FpmAnswersForItself`, `OnlyOrphansOutlive`, `RequestReadAsMeant`, `AnswerOnlyCutAtTheEnd`, `RunEnds` |

Why the bounds are enough. The globals hold one pointer per field and remember at
most one predecessor, so two calls, the second after or inside the first, let one
meet what another left behind, and in `ownership` any of them may be rejected,
fail to start, or be unwound by a hook. Two pieces of output are what it takes to
write before and after headers are sent, or to lose one of two. Two bytes read one
at a time give a full read, one that leaves a rest, and one past the end. In
`hooks` two headers and two messages are the least for an order to be wrong, for
one to be suppressed and the other kept, and for two spellings of one name.
`IniTable` has no bound on requests; two settings let one replace the other and
let one be refused before another, and the theorems cover the rest. With three
requests to two workers the first worker is used twice, and frames of three units
do not fit in a pipe of two, so both sides block on a full pipe. In the buffer, 63
bytes against an initial buffer of 4 to 20 allow several growths and reach
saturation and wrap-around. In `builder` three calls set a variable twice with a
third in between, once on the builder and again on the context, or give a body,
its type and its length; no property relates more than three calls. In
`backends` a script name of 4 bytes has a length of four bytes, the other
parameters one of one; 63 bytes are the longest body of one record and 64 the first that wraps;
segments of 4 end inside a header, inside contents and inside the blank line
that ends the headers; two processes are what it takes to meet the sockets of
another, and more polls only wait longer.

Calls are symmetric in `contract`, which checks no liveness: its refinement is
a safety property. The runs of `RequestLifecycle`, `HookDelivery`, `SapiInit`,
`WorkerPool`, `RequestBuilder` and `Backends` switch off the deadlock check because
the system may rightly stop: when all calls have been made, no thread asks again,
all processes have ended, or the request has been built and handed over.

### Runs that show a disagreement

| Run | Says | Code |
|---|---|---|
| `failed_startup` | `executor.rs:90`: reclaimed after `php_request_shutdown`, all error paths clean up properly | the box is dropped before `php_request_shutdown`, with the pointer still published; a `log_message` or `send_headers` in it touches freed memory |
| `lost_body` | `protocol.rs:100`: a request survives the round trip | with content type and body but no uri, what `PooledBackend` sends for a POST, the fields arrive shifted |
| `two_executions` | `lib.rs:8`: one request executing at a time | every thread can get a handle of its own, and two of them are in `execute` on the same globals |

Disagreements read in the code for which there is no run:

* `executor.rs:282` clears request-related pointers "to prevent stale access", but
  not `request_method`, which dangles after every call (`StaleOnlyAfterFailedStartup`
  is about the pointer to the context).
* `lib.rs:9` says that state is cleaned up after execution; a panicking hook leaks
  the context and leaves the request open. `OnlyPanicsLeak` and
  `OpenRequestIsClosed` name that case.
* `hooks.rs:63` says that `on_output` is "Called when PHP writes to its output buffer",
  and the README (line 123) shows it streaming "output as it arrives": it is called
  once, after `php_request_shutdown`, and `HooksHearAll` therefore says of it only that
  it is given all of the output in order. `on_flush` and `is_connection_alive`
  (lines 70 and 89) are called nowhere.
* `frankenphp.rs:70` and `82` ask with HTTP/1.1 and lines 105 to 112 strip headers
  only: of a chunked answer what is returned has the sizes of the chunks in it and is
  not the page, which `AnswerOnlyCutAtTheEnd` states as it is. php-fpm's answers
  and FrankenPHP's are then not the same bytes for the same page.
* `into_http_response` answers an empty 200 when the `http` crate refuses one
  header of the result.
* The FastCGI record that begins a request has version 0 (`fpm.rs:122`). A server
  that checks it, closes the connection; the client takes that for an empty
  answer, and the benchmark measures it. `RequestReadAsMeant` is about the requests
  that are read; `RequestRead` in `Backends_proofs` says that such a server reads none.
* `sapi_comparison.rs:141` names a module `support` that does not exist. The model
  reads `shared`.

## Fairness

* `RequestLifecycle`: the thread that made a call keeps running it, and the
  engine's functions end (the script terminates, as it does under a
  `max_execution_time`). Nobody has to start a call.
* `SapiInit`: a thread in `get_or_init` keeps running or is woken when the result
  is there; `php_module_startup` returns.
* `Backends`: the benchmark process keeps running; its loops have deadlines and its
  reads time out after 5 seconds. Nothing is asked of the servers, which may hang.
* `HookDelivery`, `IniTable`, `RequestBuilder`, `OutputBuffer`: none, as they have no
  liveness properties.
* `WorkerPool`: client and workers are scheduled by the operating system, and
  scripts end. The client need neither ask nor drop the pool; nobody has to crash.

## What is proved

`tlapm` checks every step of the `_proofs` modules. The theorems hold for every
value of the constants that satisfies the named assumptions.

**RequestLifecycle_proofs**, first part: who owns a context and who can reach it.
`TypeCorrect`, `StaleOnlyAfterFailure`, `FaultsAfterFailure`, `NoOtherLeak` and
`ReclaimedAfterShutdown` hold whatever hooks do, also when they call `execute`
again; `OwnContext` and `Serial` need `Reentrant = FALSE`, and without it they are
false: two contexts are then exposed at once. None of the properties is inductive.
The invariant `Inv` adds: a call that is not at a hook is the one running
(`WorkingIsRunning`); the owner of each box by `pc` (`HeapByPc`); and which calls
the global pointer and `request_info` can still point to (`CtxAccounted`,
`InfoAccounted`). `HeapByPc` is what makes
the pointer facts inductive: a pointer to `c` dangles only if `c` has ended after
its startup failed. `Alone` adds what holds without re-entrant hooks. Callbacks
move none of this state, which one lemma says for all of them (`QuietStep`).

Second part, for `Reentrant = FALSE`: `BodyReadOnce`, `HeadersFirst`, `FullAccount`
and `KeepsContract`, the refinement of `RequestContract`. The invariant `Content`
relates what PHP said, what PHP still holds (its buffer, the headers and the status
not yet sent) and what has reached the context or the callback: at each `pc` the
third and the second together are the first, in order. Every step is then a step
of the contract or a stutter, and what PHP read of the body only grows.

**HookDelivery_proofs**: `EverythingIsTold`, `AnswersAreFollowed` and
`KeepsContract`, for any script, any kind of hooks and any answers. `told` grows by
one with each hook, and what a result must contain is stated with `Kept`, a
recursive function. What is proved about it (the kept elements are those of the
list, in order; one more position appends one more element; keeping all is the
list itself) is by induction on its length, in the form the prover can use: the
least counterexample of a set of naturals (`WFMin` of the library). The refinement
needs one more fact than the run's properties: nothing is said before the request
has started.

**RequestBuilder_proofs**: `InfoAgrees`, `BodyDescribed`, `LineIsKept`, `IniWins`
and `EnvIsFirst`, all five properties of the run, for any values, sizes and
number of calls. The invariant says that `ServerVars` tracks the latest value of
each special variable (`SpecialsTracked`), that the lists are the defaults followed
by what the caller gave (`ListsAsAsked`), what the context of a web request says as
long as nobody changed it (`WebContext`) and that PHP is handed just that
(`Handed`). The lemmas are about lists: the latest pair of a name in a list that
is put together of others (`LatestConcat`), what `CStrings` leaves of it
(`TableOfCStrings`), and what `SetAll` computes (`AllTracked`), again by induction,
for which the existence of a function defined by recursion is proved first
(`Recursion`).

**OutputBuffer_proofs**: `Holds`, `OneReallocation`, `NoWrap`, `RefusalIsRare`,
for every word size, policy and sequence of pieces. The work is in the rounding
of the fixed strategy (`RoundUp`) and in showing that the sum which may wrap
only does so where the request is refused anyway.

**SapiInit_proofs**: `TypeCorrect`, `EngineStartedOnce`, `EveryoneToldTheSame`,
`HandleMeansUp`, `ShutdownIsFinal`, for any set of threads. The invariant says
that the thread inside the closure is alone and exists exactly while the cell is
`running`, and counts start-ups by the cell.

**WorkerPool_proofs**: `NoGapRoundTrip` (decoding undoes encoding if no present
option follows an absent one) and `GapIsFilled` (otherwise it never does) for the
protocol. For the pool, with any workers, pipes, requests and crashes:
`TypeCorrect`, `InOrder`, `Quiet`, `PanicsAfterCrash`, `GapsAloneAreLost` and
`WithoutGapsIntact`. The invariant says where the one frame in transit is at each
step of client and worker, in which pipe and how many units of it have gone, and
that all other pipes of living workers are empty. The last two theorems are the
positive half of `lost_body`: only a request with a gap changes on its way.

**IniTable_proofs**: `OwnSettings` and `LeaksEnd`, for any entries, values and
overrides. The invariant says what the table is made of at each `pc`
(`TableByPoint`: the settings applied so far over what `set_ini` asked for) and
that putting back what is saved gives the defaults, whatever was altered and
however often; the second half is `LeaksEnd` and needs no assumption on panics.

**Backends_proofs**: `OwnServerAnswers` and `NoOtherSurvivor`, for any number of
benchmark processes, suites, polls, requests and crashes. A socket of a number may
be made at any time by a server nobody holds any more, so the invariant must say
who can still make one: `BootingKnown` (a server that is still booting and not held
was orphaned before it had a socket) and `SocketKnown` (the file of the backend in
use is its own server's or such a one's). That `start` removes the file first makes
`SocketKnown` true, and it needs the numbers to last for all suites (`NumbersLeft`).

Second, for any `Base` and any lengths, the bytes: `ReadAsMeant` and
`AnswerCutAtTheEnd`. What reads bytes is recursive over positions (`StreamIn`,
`PairsIn`, `StdoutIn`). `Descent` and `Scan` show that a recursion which only moves
forward in its data defines a function, and with it that one unfolds at every
position. What the client writes is then found where it was written: `Holds` says
that data has a piece at a position, `RecordHeld`, `LengthHeld` and `PairHeld` what a
reader takes a record, a length of one or of four bytes, and a pair for that lie
there. `ParamsReadBack` is for any list of parameters, by induction on how many
have been read; `RequestRead` puts the five records of a request together, and says
also when a request is complete. It needs each record's content to be shorter than
`Base * Base`, which is the hypothesis `Fits` of the property; that every single
length then fits its bytes is `EachFits`. For an answer, `FpmOutput` says what
is left of php-fpm's records for each place where they can break off, and
`HeadersStripped` of headers with any body behind them. The
invariants are small: a request being read is one that was asked (`AskKnown`), and
no more of an answer is read than was written (`SentKnown`).

Every safety property of the passing runs is stated by a theorem. Only model-checked
is liveness, which the prover does not cover: `EveryCallReturns`,
`OpenRequestIsClosed`, `AskIsAnswered`, `SendComesBack`, `WorkersExit` and
`RunEnds`. Where a theorem assumes `Reentrant = FALSE`, the run `ownership`
checks what is left in the other case. Induction over a list or a number is written
out where it is needed, as above; the induction theorems of the library have an
operator as a parameter, which the provers cannot instantiate.

## What is not modelled

* setters of host, port, scheme, document root, path info, arguments and working
  directory, which only change values;
* the callbacks `treat_data`, `input_filter` and `get_request_time`, which hand on to
  the engine or read the clock;
* `echo` of the worker pool, which is answered as `exec` is; frames of 4 GB;
* `input()` on a built context leaves `CONTENT_LENGTH` as it was (`context.rs:54`):
  `BodyIsDescribed` is about contexts nobody changed after `build()`, and
  `request_info.content_length` is right in any case;
* contents of values, formatting, tracing;
* two operating-system threads inside `execute` at the same time: a data race. That
  it can come to it is what `two_executions` shows;
* two benchmark processes at the same time; a php-fpm master's own workers, which
  outlive it when it is killed;
* the adapter trait, FFI layouts, the build script, the examples and the other
  benchmarks: no state of their own, or straight-line callers.

## Plan

Written, in this order: `ServerContext`, `SapiCallbacks` and `RequestLifecycle`,
then `RequestContract`, `OutputBuffer`, `SapiInit`, `WorkerProtocol` and
`WorkerPool`, `RequestBuilder`; then `ExecutionResult` and `HookDelivery`,
`IniTable`, `FcgiFraming` and `Backends`; then the proofs, component by component.
What is left:

1. Some theorems of `RequestLifecycle` assume `Reentrant = FALSE`. What a context
   holds when a hook calls `execute` again is neither stated nor proved: PHP's own
   state is then shared by two requests, of which the model says little.
2. That the abstract contract is kept is proved for `RequestLifecycle` and for
   `HookDelivery`; a contract of `Worker::send` (an answer, an error or a panic
   for each request, in order) would say the same of `WorkerPool`.
3. The arithmetic of the frames' length prefix in `protocol.rs` (4 bytes,
   little-endian) is abstracted to units.
