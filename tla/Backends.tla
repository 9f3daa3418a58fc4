------------------------------ MODULE Backends ------------------------------
(***************************************************************************)
(* The benchmarks' php-fpm and FrankenPHP backends                         *)
(* (benches/shared/fpm.rs, frankenphp.rs): a benchmark process starts one  *)
(* server after another, waits for it, sends it requests and kills it when *)
(* the backend is dropped.  Benchmark processes run one after the other;   *)
(* each counts its sockets and ports from the same number, and one that is *)
(* killed leaves its server and its socket file behind.                    *)
(***************************************************************************)
EXTENDS FcgiFraming, FiniteSets

CONSTANTS
    None,
    MaxRuns,       \* benchmark processes, one after the other
    Suites,        \* calls of run_suite in each
    MaxTries,      \* polls for a server; 50 in the code
    MaxAsks,       \* requests to a backend
    MaxCrashes,    \* servers that crash
    Segment,       \* bytes of an answer that arrive together
    Scripts,       \* lengths of SCRIPT_FILENAME
    Bodies         \* lengths of bodies

ASSUME BackendBounds == /\ MaxRuns \in Nat /\ Suites \in Nat /\ MaxTries \in Nat
                        /\ MaxAsks \in Nat /\ MaxCrashes \in Nat /\ Segment \in Nat \ {0}
                        /\ Scripts \subseteq Nat /\ Bodies \subseteq Nat
                        /\ None \notin (1 .. MaxRuns) \X (0 .. 2 * Suites - 1)

Ids     == 0 .. 2 * Suites - 1
Servers == (1 .. MaxRuns) \X Ids

VARIABLES
    run,      \* benchmark processes started so far
    pc,       \* what the last of them does
    todo,     \* the backends it still has to start
    nextId,   \* NEXT_PORT, from 0
    own,      \* the Child the backend (or start) holds
    tries, asks,
    srv,      \* the server processes: "none", "booting", "bound", "serving", "dead"
    file,     \* socket files: who made the one of each number
    port,     \* ports: who listens
    conn,     \* the connection: to whom, what for, what the server read, in which
              \* form it answers and how much of it it sent
    last,     \* what execute returned, until the process goes on
    orphans,  \* servers whose start timed out or whose benchmark was killed,
              \* and whether their socket was there by then
    crashes

vars == <<run, pc, todo, nextId, own, tries, asks, srv, file, port, conn, last,
          orphans, crashes>>

Process == <<run, todo, nextId, own, tries, asks>>
World   == <<srv, file, port, orphans, crashes>>

Id(s)   == s[2]
Kind    == srv[own].kind
NoBody  == -1
NoAsk   == [script |-> 0, body |-> NoBody]
NoConn  == [to |-> None, ask |-> NoAsk, read |-> None, form |-> "none", sent |-> 0]
NoReply == [answered |-> FALSE, form |-> "none", sent |-> 0]

Init ==
    /\ run = 0 /\ pc = "off" /\ todo = <<>> /\ nextId = 0 /\ own = None
    /\ tries = 0 /\ asks = 0
    /\ srv  = [s \in Servers |-> [kind |-> "none", st |-> "none"]]
    /\ file = [i \in Ids |-> None]
    /\ port = [i \in Ids |-> None]
    /\ conn = NoConn /\ last = NoReply /\ orphans = {} /\ crashes = 0
-----------------------------------------------------------------------------
(* The benchmark process. *)

Goto(from, to) == pc = from /\ pc' = to

AllSuites(wanted) ==
    [i \in 1 .. Suites * Len(wanted) |-> wanted[1 + ((i - 1) % Len(wanted))]]

\* The suites, with the backends the environment asks for and has binaries of.
BeginRun ==
    /\ run < MaxRuns
    /\ Goto("off", "next")
    /\ run' = run + 1
    /\ \E wanted \in {<<"fpm">>, <<"frankenphp">>, <<"fpm", "frankenphp">>} :
          todo' = AllSuites(wanted)
    /\ nextId' = 0
    /\ UNCHANGED <<own, tries, asks, World, conn, last>>

EndRun ==
    /\ Goto("next", "off") /\ todo = <<>>
    /\ UNCHANGED <<Process, World, conn, last>>

Spawn(kind) ==
    LET s == <<run, nextId>>
    IN  /\ Goto("next", "polling")
        /\ todo # <<>> /\ Head(todo) = kind
        /\ todo'   = Tail(todo)
        /\ nextId' = nextId + 1
        /\ own'    = s
        /\ tries'  = 0
        /\ srv'    = [srv EXCEPT ![s] = [kind |-> kind, st |-> "booting"]]

\* Mutant: the socket file of an earlier server stays.
StartFpmOnOldSocket ==
    /\ Spawn("fpm")
    /\ UNCHANGED <<run, asks, file, port, conn, last, orphans, crashes>>

\* FpmBackend::start up to its loop: the socket file is removed first.
StartFpm ==
    /\ Spawn("fpm")
    /\ file' = [file EXCEPT ![nextId] = None]
    /\ UNCHANGED <<run, asks, port, conn, last, orphans, crashes>>

StartFrankenPhp ==
    /\ Spawn("frankenphp")
    /\ UNCHANGED <<run, asks, file, port, conn, last, orphans, crashes>>

\* The binary or the configuration file cannot be used: a number is used up.
StartFails ==
    /\ pc = "next" /\ todo # <<>>
    /\ todo'   = Tail(todo)
    /\ nextId' = nextId + 1
    /\ file'   = IF Head(todo) = "fpm" THEN [file EXCEPT ![nextId] = None] ELSE file
    /\ UNCHANGED <<run, pc, own, tries, asks, srv, port, conn, last, orphans, crashes>>

\* socket_path.exists(), or a connect: whoever made the file or listens.
Found == IF Kind = "fpm" THEN file[Id(own)] # None ELSE port[Id(own)] # None

StartSucceeds ==
    /\ Goto("polling", "ready")
    /\ tries < MaxTries /\ Found
    /\ asks' = 0
    /\ UNCHANGED <<run, todo, nextId, own, tries, World, conn, last>>

PollAgain ==
    /\ pc = "polling" /\ tries < MaxTries /\ ~Found
    /\ tries' = tries + 1
    /\ UNCHANGED <<run, pc, todo, nextId, own, asks, World, conn, last>>

\* The Child held now is left to itself.
Orphaned == {[server |-> own, made |-> srv[own].st # "booting"]}

\* start gives up; the Child is dropped, which does not end the process.
StartTimesOut ==
    /\ Goto("polling", "next")
    /\ tries = MaxTries
    /\ own' = None
    /\ orphans' = orphans \cup Orphaned
    /\ UNCHANGED <<run, todo, nextId, tries, asks, srv, file, port, conn, last, crashes>>

\* Who answers a connect: a file whose server is gone refuses.
Listener ==
    LET s == IF Kind = "fpm" THEN file[Id(own)] ELSE port[Id(own)]
    IN  IF s # None /\ srv[s].st = "serving" THEN s ELSE None

Asks == [script : Scripts, body : Bodies \cup {NoBody}]

Text(n) == [i \in 1 .. n |-> 40 + i]

\* content_len.to_string().
Digits(n) ==
    LET of[k \in 0 .. n] ==
            IF k < 10 THEN <<48 + k>> ELSE Append(of[k \div 10], 48 + (k % 10))
    IN  of[n]

\* fcgi_execute's parameters; those that are the same for every request are
\* left out.
ParamsOf(ask) ==
    <<[name |-> <<70>>, value |-> Text(ask.script)],                                \* SCRIPT_FILENAME
      [name |-> <<71>>, value |-> IF ask.body = NoBody THEN <<>> ELSE <<60>>],      \* CONTENT_TYPE
      [name |-> <<72>>, value |-> Digits(IF ask.body = NoBody THEN 0 ELSE ask.body)]>>

BodyOf(ask) == IF ask.body = NoBody THEN <<>> ELSE Text(ask.body)

\* FCGI_BEGIN_REQUEST, written out; its version is 0.
BeginRecord == <<0, 1, 0, 1, 0, 8, 0, 0, 0, 1, 0, 0, 0, 0, 0, 0>>

FcgiRequest(ask) ==
    BeginRecord
        \o Record(Params, BuildParams(ParamsOf(ask))) \o Record(Params, <<>>)
        \o (IF ask.body = NoBody THEN <<>> ELSE Record(Stdin, BodyOf(ask)))
        \o Record(Stdin, <<>>)

\* http_execute's request: the body goes with its length in the head.
HttpRequest(ask) ==
    [complete |-> TRUE, params |-> ParamsOf(ask), body |-> BodyOf(ask)]

\* execute up to its connect, which succeeds.
Connect(ask) ==
    /\ Goto("ready", "connected")
    /\ asks < MaxAsks /\ Listener # None
    /\ asks' = asks + 1
    /\ conn' = [NoConn EXCEPT !.to = Listener, !.ask = ask]
    /\ last' = NoReply
    /\ UNCHANGED <<run, todo, nextId, own, tries, World>>

ConnectFails ==
    /\ pc = "ready"
    /\ asks < MaxAsks /\ Listener = None
    /\ asks' = asks + 1
    /\ last' = NoReply
    /\ UNCHANGED <<run, pc, todo, nextId, own, tries, World, conn>>

WriteRequest ==
    /\ Goto("connected", "reading")
    /\ srv[conn.to].st = "serving"
    /\ UNCHANGED <<Process, World, conn, last>>

\* What a server sends for a page with a blank line in it.
Page == <<30, 13, 10, 13, 10, 31>>
Http == <<20, 21>> \o BlankLine

FpmReply == Record(Stdout, Http) \o Record(Stderr, <<50>>) \o Record(Stdout, Page)
                \o Record(3, Zeros(8))

CrLf == <<13, 10>>

\* A chunk of HTTP/1.1's chunked coding: its size, its bytes.
Chunk(data) == <<48 + Len(data)>> \o CrLf \o data \o CrLf

\* The page in two chunks and the last one.
Chunked == Chunk(SubSeq(Page, 1, 3)) \o Chunk(SubSeq(Page, 4, 6)) \o Chunk(<<>>)

\* An HTTP/1.1 server sends a page as it is, or chunked when it does not know
\* its length in time (a flushed or a long one); php-fpm sends records.
Forms(kind) == IF kind = "fpm" THEN {"records"} ELSE {"plain", "chunked"}

\* What follows the headers.
Body(form) == IF form = "chunked" THEN Chunked ELSE Page

ReplyOf(form) == IF form = "records" THEN FpmReply ELSE Http \o Body(form)

Reply == ReplyOf(conn.form)

\* What execute makes of the first n bytes of a reply; no coding is undone.
Answer(form, n) ==
    LET bytes == SubSeq(ReplyOf(form), 1, n)
    IN  IF form = "records" THEN ExtractStdout(bytes) ELSE StripHeaders(bytes)

\* execute returns: an answer made of what arrived, or none.
Finish(answered) ==
    /\ pc'   = "ready"
    /\ last' = [answered |-> answered, form |-> conn.form, sent |-> conn.sent]
    /\ conn' = NoConn
    /\ UNCHANGED <<Process, World>>

\* The connection breaks, or the server takes nothing for 5 seconds.
WriteFails == pc = "connected" /\ Finish(FALSE)

\* The server has closed the connection: it sent all, cannot read the request
\* or is gone.
Closed == \/ srv[conn.to].st = "dead"
          \/ conn.read # None /\ ~conn.read.complete
          \/ conn.sent = Len(Reply)

ReadEnds == pc = "reading" /\ Closed /\ Finish(TRUE)

\* The server is gone and the connection is reset: an error, which only
\* fcgi_execute takes for the end of the answer.
ReadIsReset == pc = "reading" /\ srv[conn.to].st = "dead" /\ Finish(Kind = "fpm")

\* Mutant: a read that timed out is tried again.
ReadTimesOutRetry ==
    /\ pc = "reading" /\ ~Closed
    /\ UNCHANGED vars

\* Nothing came for 5 seconds: fcgi_execute takes what there is for the
\* answer, http_execute has none.
ReadTimesOut == pc = "reading" /\ ~Closed /\ Finish(Kind = "fpm")

Killed(s) ==
    /\ srv'  = [srv EXCEPT ![s].st = "dead"]
    /\ port' = [i \in Ids |-> IF port[i] = s THEN None ELSE port[i]]

\* Mutant: the Child is dropped as it is.
DropBackendOnly ==
    /\ Goto("ready", "next")
    /\ own'  = None
    /\ file' = IF Kind = "fpm" THEN [file EXCEPT ![Id(own)] = None] ELSE file
    /\ last' = NoReply
    /\ UNCHANGED <<run, todo, nextId, tries, asks, srv, port, conn, orphans, crashes>>

\* Drop: kill, wait, and the socket file is removed.
DropBackend ==
    /\ Goto("ready", "next")
    /\ own' = None
    /\ Killed(own)
    /\ file' = IF Kind = "fpm" THEN [file EXCEPT ![Id(own)] = None] ELSE file
    /\ last' = NoReply
    /\ UNCHANGED <<run, todo, nextId, tries, asks, conn, orphans, crashes>>

\* The benchmark process is killed: nothing is dropped.
RunKilled ==
    /\ pc # "off" /\ pc' = "off"
    /\ own' = None
    /\ orphans' = IF own = None THEN orphans ELSE orphans \cup Orphaned
    /\ conn' = NoConn
    /\ last' = NoReply
    /\ UNCHANGED <<run, todo, nextId, tries, asks, srv, file, port, crashes>>
-----------------------------------------------------------------------------
(* The servers. *)

\* php-fpm takes the socket file's name unless someone listens on it already;
\* it listens a moment after the file is there.
MakeSocket(s) ==
    /\ srv[s] = [kind |-> "fpm", st |-> "booting"]
    /\ LET t == file[Id(s)]
       IN  IF t # None /\ srv[t].st = "serving"
           THEN srv' = [srv EXCEPT ![s].st = "dead"] /\ UNCHANGED file
           ELSE srv' = [srv EXCEPT ![s].st = "bound"] /\ file' = [file EXCEPT ![Id(s)] = s]
    /\ UNCHANGED <<pc, Process, port, conn, last, orphans, crashes>>

Listen(s) ==
    /\ srv[s].st = "bound"
    /\ srv' = [srv EXCEPT ![s].st = "serving"]
    /\ UNCHANGED <<pc, Process, file, port, conn, last, orphans, crashes>>

BindPort(s) ==
    /\ srv[s] = [kind |-> "frankenphp", st |-> "booting"]
    /\ IF port[Id(s)] = None
       THEN srv' = [srv EXCEPT ![s].st = "serving"] /\ port' = [port EXCEPT ![Id(s)] = s]
       ELSE srv' = [srv EXCEPT ![s].st = "dead"] /\ UNCHANGED port
    /\ UNCHANGED <<pc, Process, file, conn, last, orphans, crashes>>

\* What a server makes of a request depends on whether it checks the version
\* of the first record.
Readings == {[ask |-> ask, read |-> DecodeRequest(FcgiRequest(ask), checks)] :
                 ask \in Asks, checks \in BOOLEAN}

ReadRequest ==
    /\ pc = "reading" /\ conn.read = None /\ srv[conn.to].st = "serving"
    /\ \E form \in Forms(Kind) :
          \/ /\ Kind = "fpm"
             /\ \E r \in Readings :
                   r.ask = conn.ask /\ conn' = [conn EXCEPT !.read = r.read, !.form = form]
          \/ /\ Kind = "frankenphp"
             /\ conn' = [conn EXCEPT !.read = HttpRequest(conn.ask), !.form = form]
    /\ UNCHANGED <<pc, Process, World, last>>

SendReply ==
    /\ pc = "reading" /\ conn.read # None /\ ~Closed
    /\ conn' = [conn EXCEPT !.sent = Min({@ + Segment, Len(Reply)})]
    /\ UNCHANGED <<pc, Process, World, last>>

ServerCrashes(s) ==
    /\ crashes < MaxCrashes /\ srv[s].st \in {"booting", "bound", "serving"}
    /\ crashes' = crashes + 1
    /\ Killed(s)
    /\ UNCHANGED <<pc, Process, file, conn, last, orphans>>
-----------------------------------------------------------------------------
Benchmark ==
    \/ EndRun \/ StartFpm \/ StartFrankenPhp \/ StartFails
    \/ StartSucceeds \/ PollAgain \/ StartTimesOut
    \/ (\E ask \in Asks : Connect(ask)) \/ ConnectFails
    \/ WriteRequest \/ WriteFails \/ ReadEnds \/ ReadIsReset \/ ReadTimesOut \/ DropBackend

Server(s) == MakeSocket(s) \/ Listen(s) \/ BindPort(s) \/ ServerCrashes(s)

Next == \/ BeginRun \/ Benchmark \/ RunKilled
        \/ ReadRequest \/ SendReply \/ \E s \in Servers : Server(s)

(* The benchmark process keeps running; nothing is asked of the servers,   *)
(* which may hang.                                                         *)
Spec == Init /\ [][Next]_vars /\ WF_vars(Benchmark)
-----------------------------------------------------------------------------
(* Properties. *)

Alive(s) == srv[s].st \in {"booting", "bound", "serving"}

\* The answers measured for php-fpm come from the process this start spawned,
\* whatever sockets and servers earlier benchmarks left behind under the same
\* number, but for one that was killed so early that its server had yet to
\* make the socket.  (For FrankenPHP they may come from any that is left.)
FpmAnswersForItself ==
    pc \in {"connected", "reading"} /\ Kind = "fpm" /\ conn.to # own =>
        [server |-> conn.to, made |-> FALSE] \in orphans

\* Servers that outlive their backend come only from a start that gave up and
\* from a benchmark process that was killed; only they can answer for another.
OnlyOrphansOutlive == \A s \in Servers : Alive(s) =>
    s = own \/ \E o \in orphans : o.server = s

\* A request whose records fit their 16-bit lengths is read as it was meant,
\* if it is read at all, paths of any length included.
Fits(ask) == ask.body < Base * Base /\ Len(BuildParams(ParamsOf(ask))) < Base * Base

RequestReadAsMeant ==
    conn.read # None /\ Fits(conn.ask) /\ conn.read.complete =>
        conn.read.params = ParamsOf(conn.ask) /\ conn.read.body = BodyOf(conn.ask)

\* What execute returns is what the server sent for the page, without headers
\* and without what PHP wrote to stderr; or the server or the time ran out,
\* and it is the beginning of that or of the headers.  That is the page itself,
\* unless an HTTP server answered chunked: http_execute asks with HTTP/1.1,
\* which allows it, and leaves the sizes of the chunks in what it returns.
AnswerOnlyCutAtTheEnd ==
    last.answered =>
        LET got == Answer(last.form, last.sent)
        IN  /\ IsPrefix(got, Body(last.form)) \/ IsPrefix(got, Http)
            /\ last.sent = Len(ReplyOf(last.form)) => got = Body(last.form)

\* A benchmark process comes to its end, also when servers do not start, crash
\* or hang.
RunEnds == pc # "off" ~> pc = "off"
=============================================================================
