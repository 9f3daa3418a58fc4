----------------------------- MODULE WorkerPool -----------------------------
(***************************************************************************)
(* The pool of PHP worker processes of the benchmarks                      *)
(* (benches/shared/pool.rs, worker.rs).  The client sends one request at a *)
(* time to the workers in turn, over a pipe to the worker's stdin, and     *)
(* reads the response from its stdout; when a worker is gone it panics,    *)
(* and the pool is dropped on the way out.  A worker answers in a loop     *)
(* until it reads Shutdown, finds an end of its pipes closed, or crashes   *)
(* with the PHP engine it embeds.                                          *)
(*                                                                         *)
(* A frame travels in size units through a pipe that holds PipeCap of      *)
(* them: writers block on a full pipe and readers on an empty one.         *)
(***************************************************************************)
EXTENDS WorkerProtocol

CONSTANTS
    N,             \* the number of workers
    PipeCap,       \* units a pipe holds
    Sizes,         \* units a frame may have
    Requests,      \* what the client may ask
    MaxRequests,   \* bound on the requests
    MaxCrashes     \* bound on the workers that crash

ASSUME PoolAssumption ==
    /\ N \in Nat \ {0} /\ PipeCap \in Nat \ {0} /\ Sizes \subseteq Nat \ {0}
    /\ MaxRequests \in Nat /\ MaxCrashes \in Nat
    /\ \A r \in Requests : IsRequest(r)

Workers == 0 .. N - 1

VARIABLES
    client,     \* "idle", "writing", "reading", "dropping", "gone"
    panicked,   \* whether an `expect` failed
    next, cur,  \* Pool.next, and the worker in use
    asked,      \* the requests made
    answers,    \* the responses the client got
    worker,     \* "booting", "reading", "working", "writing", "dead"
    job,        \* the request a worker has read
    request,    \* the frame the client writes, and how far it is
    reply,      \* the frame a worker writes, and how far it is
    toWorker, toClient,  \* the pipes
    crashes

vars == <<client, panicked, next, cur, asked, answers,
          worker, job, request, reply, toWorker, toClient, crashes>>

NoJob  == [no |-> 0, data |-> <<>>]
NoMsg  == [kind |-> "none", no |-> 0]

\* A frame on its way out; the message counts with its last unit.
Frame(msg, size) == [msg |-> msg, size |-> size, done |-> 0]

Unit(f) == [msg |-> f.msg, last |-> f.done + 1 = f.size]

Room(pipe) == Len(pipe) < PipeCap

Init ==
    /\ client   = "idle"
    /\ panicked = FALSE
    /\ next     = 0
    /\ cur      = 0
    /\ asked    = <<>>
    /\ answers  = <<>>
    /\ worker   = [w \in Workers |-> "booting"]
    /\ job      = [w \in Workers |-> NoJob]
    /\ request  = Frame(NoMsg, 1)
    /\ reply    = [w \in Workers |-> Frame(NoMsg, 1)]
    /\ toWorker = [w \in Workers |-> <<>>]
    /\ toClient = [w \in Workers |-> <<>>]
    /\ crashes  = 0
-----------------------------------------------------------------------------
(* The client. *)

Asking(r) == [kind |-> "exec", no |-> Len(asked) + 1, data |-> Encode(r)]

\* Pool::exec and Pool::send: the next worker in turn, and write_message.
Ask(r, size) ==
    /\ client = "idle" /\ Len(asked) < MaxRequests
    /\ client'  = "writing"
    /\ cur'     = next
    /\ next'    = (next + 1) % N
    /\ asked'   = Append(asked, r)
    /\ request' = Frame(Asking(r), size)
    /\ UNCHANGED <<panicked, answers, worker, job, reply, toWorker, toClient, crashes>>

ClientWrites ==
    /\ client = "writing"
    /\ worker[cur] # "dead" /\ Room(toWorker[cur])
    /\ toWorker' = [toWorker EXCEPT ![cur] = Append(@, Unit(request))]
    /\ request' = [request EXCEPT !.done = @ + 1]
    /\ client' = IF Unit(request).last THEN "reading" ELSE "writing"
    /\ UNCHANGED <<panicked, next, cur, asked, answers, worker, job, reply, toClient, crashes>>

ClientReads ==
    /\ client = "reading"
    /\ toClient[cur] # <<>>
    /\ LET u == Head(toClient[cur])
       IN  IF u.last
           THEN client' = "idle" /\ answers' = Append(answers, u.msg)
           ELSE UNCHANGED <<client, answers>>
    /\ toClient' = [toClient EXCEPT ![cur] = Tail(@)]
    /\ UNCHANGED <<panicked, next, cur, asked, worker, job, request, reply, toWorker, crashes>>

\* Mutant: the failure is swallowed and the request given up.
ClientGivesUp ==
    /\ \/ client = "writing"
       \/ client = "reading"
    /\ client' = "idle"
    /\ UNCHANGED <<panicked, next, cur, asked, answers, worker, job, request, reply,
                   toWorker, toClient, crashes>>

\* "failed to write request" on a broken pipe, "failed to read response" at
\* its end: unwinding drops the pool.
ClientPanics ==
    /\ \/ client = "writing"
       \/ client = "reading" /\ toClient[cur] = <<>>
    /\ worker[cur] = "dead"
    /\ panicked' = TRUE
    /\ client'   = "dropping"
    /\ cur'      = 0
    /\ UNCHANGED <<next, asked, answers, worker, job, request, reply, toWorker, toClient, crashes>>

DropPool ==
    /\ client = "idle"
    /\ client' = "dropping"
    /\ cur'    = 0
    /\ UNCHANGED <<panicked, next, asked, answers, worker, job, request, reply,
                   toWorker, toClient, crashes>>

Shutdown == [msg |-> [kind |-> "shutdown"], last |-> TRUE]

\* Drop for Pool: Shutdown to each worker, failures ignored; then the fields
\* are dropped, which closes the pipes.  Nobody waits for the processes.
DropWorker ==
    /\ client = "dropping"
    /\ IF worker[cur] = "dead" THEN UNCHANGED toWorker
       ELSE /\ Room(toWorker[cur])
            /\ toWorker' = [toWorker EXCEPT ![cur] = Append(@, Shutdown)]
    /\ IF cur < N - 1 THEN cur' = cur + 1 /\ UNCHANGED client
       ELSE client' = "gone" /\ UNCHANGED cur
    /\ UNCHANGED <<panicked, next, asked, answers, worker, job, request, reply, toClient, crashes>>
\* The process is killed, or exits without dropping the pool.
ClientKilled ==
    /\ client # "gone"
    /\ client' = "gone"
    /\ UNCHANGED <<panicked, next, cur, asked, answers, worker, job, request, reply,
                   toWorker, toClient, crashes>>
-----------------------------------------------------------------------------
(* The workers: run_worker_loop. *)

Become(w, from, to) == worker[w] = from /\ worker' = [worker EXCEPT ![w] = to]

\* RiphtSapi::instance() in a new process.
Boot(w) ==
    /\ Become(w, "booting", "reading")
    /\ UNCHANGED <<client, panicked, next, cur, asked, answers, job, request, reply,
                   toWorker, toClient, crashes>>

\* Writing a response to request no.
Responds(w, no, kind, size) ==
    reply' = [reply EXCEPT ![w] = Frame([kind |-> kind, no |-> no, by |-> w], size)]

\* Mutant: a request that cannot be decoded is skipped without an answer.
WorkerReadsSilently(w) ==
    LET u == Head(toWorker[w])
    IN  /\ worker[w] = "reading" /\ toWorker[w] # <<>>
        /\ toWorker' = [toWorker EXCEPT ![w] = Tail(@)]
        /\ IF ~u.last \/ (u.msg.kind = "exec" /\ ~Decodes(u.msg.data))
           THEN UNCHANGED <<worker, job, reply>>
           ELSE IF u.msg.kind = "shutdown"
           THEN Become(w, "reading", "dead") /\ UNCHANGED <<job, reply>>
           ELSE /\ Become(w, "reading", "working")
                /\ job' = [job EXCEPT ![w] = [no |-> u.msg.no, data |-> Decode(u.msg.data)]]
                /\ UNCHANGED reply
        /\ UNCHANGED <<client, panicked, next, cur, asked, answers, request, toClient, crashes>>

\* Mutant: the loop ends at a request that cannot be decoded.
WorkerReadsOrLeaves(w) ==
    LET u == Head(toWorker[w])
    IN  /\ worker[w] = "reading" /\ toWorker[w] # <<>>
        /\ toWorker' = [toWorker EXCEPT ![w] = Tail(@)]
        /\ IF ~u.last THEN UNCHANGED <<worker, job>>
           ELSE IF u.msg.kind = "shutdown" \/ ~Decodes(u.msg.data)
           THEN Become(w, "reading", "dead") /\ UNCHANGED job
           ELSE /\ Become(w, "reading", "working")
                /\ job' = [job EXCEPT ![w] = [no |-> u.msg.no, data |-> Decode(u.msg.data)]]
        /\ UNCHANGED <<client, panicked, next, cur, asked, answers, request, reply,
                       toClient, crashes>>

\* A message is complete: exit, a request to execute, or one that read_message
\* cannot decode, which is answered with an error.
WorkerReads(w) ==
    LET u == Head(toWorker[w])
    IN  /\ worker[w] = "reading" /\ toWorker[w] # <<>>
        /\ toWorker' = [toWorker EXCEPT ![w] = Tail(@)]
        /\ IF ~u.last THEN UNCHANGED <<worker, job, reply>>
           ELSE IF u.msg.kind = "shutdown"
           THEN Become(w, "reading", "dead") /\ UNCHANGED <<job, reply>>
           ELSE IF Decodes(u.msg.data)
           THEN /\ Become(w, "reading", "working")
                /\ job' = [job EXCEPT ![w] = [no |-> u.msg.no, data |-> Decode(u.msg.data)]]
                /\ UNCHANGED reply
           ELSE /\ Become(w, "reading", "writing")
                /\ \E size \in Sizes : Responds(w, u.msg.no, "unreadable", size)
                /\ UNCHANGED job
        /\ UNCHANGED <<client, panicked, next, cur, asked, answers, request, toClient, crashes>>

\* execute_php: a result, or an error for a script that is not there or an
\* execute that fails.  (Request::Echo is answered here without PHP.)
Execute(w) ==
    /\ Become(w, "working", "writing")
    /\ \E kind \in {"exec", "error"}, size \in Sizes : Responds(w, job[w].no, kind, size)
    /\ UNCHANGED <<client, panicked, next, cur, asked, answers, job, request,
                   toWorker, toClient, crashes>>

\* Mutant: the response may be written once more.
WorkerWritesAgain(w) ==
    /\ worker[w] = "writing" /\ client # "gone" /\ Room(toClient[w])
    /\ toClient' = [toClient EXCEPT ![w] = Append(@, Unit(reply[w]))]
    /\ IF Unit(reply[w]).last
       THEN /\ worker' \in {worker, [worker EXCEPT ![w] = "reading"]}
            /\ reply'  = [reply EXCEPT ![w].done = 0]
       ELSE UNCHANGED worker /\ reply' = [reply EXCEPT ![w].done = @ + 1]
    /\ UNCHANGED <<client, panicked, next, cur, asked, answers, job, request,
                   toWorker, crashes>>

WorkerWrites(w) ==
    /\ worker[w] = "writing" /\ client # "gone" /\ Room(toClient[w])
    /\ toClient' = [toClient EXCEPT ![w] = Append(@, Unit(reply[w]))]
    /\ reply'    = [reply EXCEPT ![w].done = @ + 1]
    /\ worker'   = IF Unit(reply[w]).last THEN [worker EXCEPT ![w] = "reading"] ELSE worker
    /\ UNCHANGED <<client, panicked, next, cur, asked, answers, job, request,
                   toWorker, crashes>>

\* Mutant: the end of stdin is an error like the others: answered, ignored.
WorkerIgnoresEof(w) ==
    /\ client = "gone"
    /\ Become(w, "writing", "dead")
    /\ UNCHANGED <<client, panicked, next, cur, asked, answers, job, request, reply,
                   toWorker, toClient, crashes>>

\* The other end is closed: UnexpectedEof on reading, an error on writing,
\* ignored for the answer to a request that could not be read.
WorkerFindsClosed(w) ==
    /\ client = "gone"
    /\ \/ toWorker[w] = <<>> /\ Become(w, "reading", "dead")
       \/ reply[w].msg.kind # "unreadable" /\ Become(w, "writing", "dead")
       \/ reply[w].msg.kind = "unreadable" /\ Become(w, "writing", "reading")
    /\ UNCHANGED <<client, panicked, next, cur, asked, answers, job, request, reply,
                   toWorker, toClient, crashes>>

\* The engine does not start, or takes the process down with it.
Crash(w) ==
    /\ worker[w] # "dead"
    /\ crashes < MaxCrashes
    /\ worker'  = [worker EXCEPT ![w] = "dead"]
    /\ crashes' = crashes + 1
    /\ UNCHANGED <<client, panicked, next, cur, asked, answers, job, request, reply,
                   toWorker, toClient>>
-----------------------------------------------------------------------------
Asks == \E r \in Requests, size \in Sizes : Ask(r, size)

ClientGoesOn == ClientWrites \/ ClientReads \/ ClientPanics \/ DropWorker

WorkerGoesOn(w) ==
    \/ Boot(w) \/ WorkerReads(w) \/ Execute(w)
    \/ WorkerWrites(w) \/ WorkerFindsClosed(w)

Next ==
    \/ Asks \/ DropPool \/ ClientKilled \/ ClientGoesOn
    \/ \E w \in Workers : WorkerGoesOn(w) \/ Crash(w)

(* The processes are scheduled, and the scripts of the benchmarks end.  The *)
(* client need not ask anything or drop the pool.                           *)
Fairness == WF_vars(ClientGoesOn) /\ \A w \in Workers : WF_vars(WorkerGoesOn(w))

Spec == Init /\ [][Next]_vars /\ Fairness
-----------------------------------------------------------------------------
(* Properties. *)

TypeOK ==
    /\ client \in {"idle", "writing", "reading", "dropping", "gone"}
    /\ panicked \in BOOLEAN
    /\ next \in Workers /\ cur \in Workers
    /\ worker \in [Workers -> {"booting", "reading", "working", "writing", "dead"}]
    /\ \A w \in Workers : Len(toWorker[w]) <= PipeCap /\ Len(toClient[w]) <= PipeCap
    /\ crashes \in 0 .. MaxCrashes

\* The k-th answer belongs to the k-th request and comes from the worker
\* whose turn it was, also after answers that are errors: no response is left
\* in a pipe for a later request to find.
AnswersInOrder == \A k \in 1 .. Len(answers) :
    answers[k].no = k /\ answers[k].by = (k - 1) % N

\* Between requests nothing is under way: every worker waits, with both of
\* its pipes empty.
QuietWhenIdle == client = "idle" =>
    \A w \in Workers : worker[w] # "dead" =>
        worker[w] \in {"booting", "reading"} /\ toWorker[w] = <<>> /\ toClient[w] = <<>>

\* The client panics only because a worker died on it.
PanicOnlyAfterCrash == panicked => crashes > 0

\* Every send comes back, by returning or by panicking, whatever the sizes of
\* the frames and of the pipes and whichever workers crash.
SendComesBack ==
    client \in {"writing", "reading"} ~> client \in {"idle", "dropping", "gone"}

\* No worker outlives the pool, also when a panic drops it, and when the
\* client is killed in the middle of a frame.
WorkersExit ==
    client \in {"dropping", "gone"} ~> \A w \in Workers : worker[w] = "dead"

\* The test test_roundtrip_exec_request: what is decoded is what was encoded.
RequestArrivesIntact == \A w \in Workers :
    worker[w] = "working" => job[w].data = asked[job[w].no]
=============================================================================
