-------------------------- MODULE Backends_proofs --------------------------
(***************************************************************************)
(* Proofs about Backends, for any number of benchmark processes, suites,   *)
(* polls, requests and crashes: who answers and who is left behind; that   *)
(* a FastCGI server reads a request as it was meant, whatever the lengths  *)
(* of names, values and bodies; and that an answer which breaks off loses  *)
(* only its end.  The recursive functions of FcgiFraming are shown to be   *)
(* defined by scans that only move forward; what was written at a position *)
(* is then found there, record by record and pair by pair.                 *)
(***************************************************************************)
EXTENDS Backends, WellFoundedInduction, SequenceTheorems, TLAPS

\* What a start left behind is remembered as it was when it was left.
Early(s) == [server |-> s, made |-> FALSE]

States == {"none", "booting", "bound", "serving", "dead"}

Types ==
    /\ pc \in {"off", "next", "polling", "ready", "connected", "reading"}
    /\ run \in 0 .. MaxRuns
    /\ nextId \in Nat
    /\ todo \in Seq({"fpm", "frankenphp"})
    /\ own \in Servers \cup {None}
    /\ srv \in [Servers -> [kind : {"none", "fpm", "frankenphp"}, st : States]]
    /\ file \in [Ids -> Servers \cup {None}]
    /\ conn = [to |-> conn.to, ask |-> conn.ask, read |-> conn.read,
                form |-> conn.form, sent |-> conn.sent]

\* Every backend still to start has a number of its own.
NumbersLeft == pc # "off" => run > 0 /\ nextId + Len(todo) <= 2 * Suites

\* No Child is held between two backends.
NoneHeld == pc \in {"off", "next"} => own = None
Held     == pc \in {"polling", "ready", "connected", "reading"} => own \in Servers

\* A server that has yet to make its socket, and that nobody holds, was left
\* that way.
BootingKnown == \A s \in Servers :
    srv[s].st = "booting" /\ s # own => Early(s) \in orphans

\* The socket of the backend in use is its own server's or that of one left
\* before it had made it.
SocketKnown == own # None /\ Kind = "fpm" =>
    \/ file[Id(own)] \in {None, own}
    \/ Early(file[Id(own)]) \in orphans

Inv == /\ Types /\ NumbersLeft /\ NoneHeld /\ Held
       /\ BootingKnown /\ OnlyOrphansOutlive /\ SocketKnown /\ FpmAnswersForItself

-----------------------------------------------------------------------------
\* Nothing of what the invariant is about has begun.
LEMMA InitInv == Init => Inv
<1> SUFFICES ASSUME Init
             PROVE  Inv
    OBVIOUS
<1>1. Types
      BY BackendBounds DEF Init, Types, States, NoConn, Ids
<1>2. \A s \in Servers : srv[s].st = "none"
      BY DEF Init
<1> QED
    BY <1>1, <1>2 DEF Init, Inv, NumbersLeft, NoneHeld, Held, BootingKnown,
       OnlyOrphansOutlive, Alive, SocketKnown, FpmAnswersForItself

\* The suites to come are as many backends as there are numbers.
LEMMA SuitesFit ==
  ASSUME NEW wanted \in {<<"fpm">>, <<"frankenphp">>, <<"fpm", "frankenphp">>}
  PROVE  /\ AllSuites(wanted) \in Seq({"fpm", "frankenphp"})
         /\ Len(AllSuites(wanted)) <= 2 * Suites
<1>1. CASE Len(wanted) = 1
  <2>1. AllSuites(wanted) \in [1 .. Suites -> {"fpm", "frankenphp"}]
        BY <1>1, BackendBounds DEF AllSuites
  <2> QED
      BY <2>1, BackendBounds
<1>2. CASE wanted = <<"fpm", "frankenphp">>
  <2>1. AllSuites(wanted) \in [1 .. 2 * Suites -> {"fpm", "frankenphp"}]
        BY <1>2, BackendBounds DEF AllSuites
  <2> QED
      BY <2>1, BackendBounds
<1> QED
    BY <1>1, <1>2

\* A server takes a number of its own, and nobody was held before.
LEMMA SpawnSafe ==
  ASSUME Inv, NEW kind \in {"fpm", "frankenphp"}, Spawn(kind),
         file' \in [Ids -> Servers \cup {None}], UNCHANGED <<run, conn, orphans>>,
         kind = "fpm" => file'[nextId] = None
  PROVE  Inv'
<1> DEFINE s == <<run, nextId>>
<1>1. s \in Servers /\ nextId \in Ids
  <2>1. run \in 1 .. MaxRuns /\ nextId \in Nat /\ nextId + Len(todo) <= 2 * Suites
        BY BackendBounds DEF Inv, Types, NumbersLeft, Spawn, Goto
  <2>2. Len(todo) \in Nat \ {0}
        BY DEF Inv, Types, Spawn
  <2>3. nextId \in Ids
        BY <2>1, <2>2, BackendBounds DEF Ids
  <2> QED
      BY <2>1, <2>3 DEF Servers
<1>2. own = None /\ None \notin Servers
      BY BackendBounds DEF Inv, NoneHeld, Spawn, Goto, Servers, Ids
<1>3. /\ own' = s /\ srv' \in [Servers -> [kind : {"none", "fpm", "frankenphp"}, st : States]]
      /\ srv'[s] = [kind |-> kind, st |-> "booting"]
      /\ \A t \in Servers : t # s => srv'[t] = srv[t]
      BY <1>1 DEF Spawn, Inv, Types, States
<1>4. Types' /\ NumbersLeft' /\ NoneHeld' /\ Held'
      BY <1>1, <1>3 DEF Spawn, Goto, Inv, Types, NumbersLeft, NoneHeld, Held
<1>5. BootingKnown' /\ OnlyOrphansOutlive'
      BY <1>2, <1>3 DEF Inv, BootingKnown, OnlyOrphansOutlive, Alive, Early
<1>6. SocketKnown' /\ FpmAnswersForItself'
  <2>1. Id(own') = nextId /\ Kind' = kind
        BY <1>3 DEF Id, Kind
  <2> QED
      BY <2>1 DEF SocketKnown, FpmAnswersForItself, Spawn, Goto, Id
<1> QED
    BY <1>4, <1>5, <1>6 DEF Inv

\* Steps of the process on the backend it has, or on its connection, which
\* leave the servers and their sockets as they are.
LEMMA UseSafe ==
  ASSUME Inv, UNCHANGED <<run, todo, nextId, own, World>>,
         pc \in {"polling", "ready", "connected", "reading"},
         pc' \in {"polling", "ready", "connected", "reading"},
         conn' = [to |-> conn'.to, ask |-> conn'.ask, read |-> conn'.read,
                   form |-> conn'.form, sent |-> conn'.sent],
         pc' \in {"connected", "reading"} =>
             \/ pc = "ready" /\ conn'.to = Listener /\ Listener # None
             \/ pc \in {"connected", "reading"} /\ conn'.to = conn.to
  PROVE  Inv'
<1>1. Types' /\ NumbersLeft' /\ NoneHeld' /\ Held'
      BY DEF World, Inv, Types, NumbersLeft, NoneHeld, Held
<1>2. BootingKnown' /\ OnlyOrphansOutlive' /\ SocketKnown'
      BY DEF World, Inv, BootingKnown, OnlyOrphansOutlive, Alive, SocketKnown, Kind, Id, Early
<1>3. FpmAnswersForItself'
  <2> SUFFICES ASSUME pc' \in {"connected", "reading"}, Kind = "fpm", conn'.to # own
               PROVE  Early(conn'.to) \in orphans
      BY DEF FpmAnswersForItself, World, Kind, Early
  <2>1. CASE pc = "ready" /\ conn'.to = Listener /\ Listener # None
    <3>1. own \in Servers /\ own # None
          BY <2>1, BackendBounds DEF Inv, Held, Servers, Ids
    <3>2. SocketKnown
          BY DEF Inv
    <3>3. conn'.to = file[Id(own)]
          BY <2>1 DEF Listener
    <3> QED
        BY <2>1, <3>1, <3>2, <3>3 DEF SocketKnown
  <2>2. CASE pc \in {"connected", "reading"} /\ conn'.to = conn.to
        BY <2>2 DEF Inv, FpmAnswersForItself, Early
  <2> QED
      BY <2>1, <2>2
<1> QED
    BY <1>1, <1>2, <1>3 DEF Inv

\* The backend is let go of: what it had started is remembered or dead.
LEMMA LetGoSafe ==
  ASSUME Inv, own' = None, UNCHANGED <<run, todo, nextId>>,
         pc' \in {"off", "next"}, pc # "off",
         file' \in [Ids -> Servers \cup {None}],
         conn' = [to |-> conn'.to, ask |-> conn'.ask, read |-> conn'.read,
                   form |-> conn'.form, sent |-> conn'.sent],
         \/ UNCHANGED srv /\ orphans' = orphans \cup (IF own = None THEN {} ELSE Orphaned)
         \/ srv' = [srv EXCEPT ![own].st = "dead"] /\ orphans' = orphans
  PROVE  Inv'
<1>1. srv' \in [Servers -> [kind : {"none", "fpm", "frankenphp"}, st : States]]
      BY DEF Inv, Types, States
<1>2. Types' /\ NumbersLeft' /\ NoneHeld' /\ Held'
      BY <1>1 DEF Inv, Types, NumbersLeft, NoneHeld, Held
<1>3. ASSUME NEW s \in Servers, Alive(s)'
      PROVE  /\ \E o \in orphans' : o.server = s
             /\ srv'[s].st = "booting" => Early(s) \in orphans'
  <2>1. s # None
        BY BackendBounds DEF Servers, Ids
  <2>2. CASE s = own
    <3>1. UNCHANGED srv /\ orphans' = orphans \cup Orphaned
      <4>1. srv' = [srv EXCEPT ![own].st = "dead"] => srv'[s].st = "dead"
            BY <2>2 DEF Inv, Types
      <4> QED
          BY <1>3, <2>1, <2>2, <4>1 DEF Alive
    <3>2. [server |-> s, made |-> srv[s].st # "booting"] \in orphans'
          BY <2>2, <3>1 DEF Orphaned
    <3>3. srv'[s].st = "booting" => (srv[s].st # "booting") = FALSE
          BY <3>1
    <3>4. srv'[s].st = "booting" => Early(s) \in orphans'
          BY <3>2, <3>3, Zenon DEF Early
    <3> QED
        BY <3>2, <3>4
  <2>3. CASE s # own
    <3>1. srv'[s] = srv[s] /\ orphans \subseteq orphans'
          BY <2>3 DEF Inv, Types
    <3>2. Alive(s)
          BY <1>3, <3>1 DEF Alive
    <3>3. \E o \in orphans : o.server = s
          BY <2>3, <3>2 DEF Inv, OnlyOrphansOutlive
    <3>4. srv[s].st = "booting" => Early(s) \in orphans
          BY <2>3 DEF Inv, BootingKnown
    <3> QED
        BY <3>1, <3>3, <3>4
  <2> QED
      BY <2>2, <2>3
<1>4. BootingKnown' /\ OnlyOrphansOutlive'
      BY <1>3 DEF BootingKnown, OnlyOrphansOutlive, Alive, Early
<1>5. SocketKnown' /\ FpmAnswersForItself'
      BY DEF SocketKnown, FpmAnswersForItself
<1> QED
    BY <1>2, <1>4, <1>5 DEF Inv

\* A server that nobody lets go of changes: it makes its socket, listens or is
\* gone.
LEMMA ServerSafe ==
  ASSUME Inv, NEW s \in Servers, Server(s)
  PROVE  Inv'
<1>1. /\ UNCHANGED <<pc, run, todo, nextId, own, orphans, conn>>
      /\ srv' \in [Servers -> [kind : {"none", "fpm", "frankenphp"}, st : States]]
      /\ \A t \in Servers : srv'[t].kind = srv[t].kind
      /\ \A t \in Servers : Alive(t)' => Alive(t)
      /\ \A t \in Servers : srv'[t].st = "booting" => srv[t].st = "booting"
  <2>1. UNCHANGED <<pc, run, todo, nextId, own, orphans>>
        BY DEF Server, MakeSocket, Listen, BindPort, ServerCrashes, Process
  <2>2. UNCHANGED conn
        BY DEF Server, MakeSocket, Listen, BindPort, ServerCrashes
  <2>3. /\ srv[s].st \in {"booting", "bound", "serving"}
        /\ \E st \in {"bound", "serving", "dead"} : srv' = [srv EXCEPT ![s].st = st]
    <3>1. CASE MakeSocket(s)
          BY <3>1 DEF MakeSocket
    <3>2. CASE Listen(s)
          BY <3>2 DEF Listen
    <3>3. CASE BindPort(s)
          BY <3>3 DEF BindPort
    <3>4. CASE ServerCrashes(s)
          BY <3>4 DEF ServerCrashes, Killed
    <3> QED
        BY <3>1, <3>2, <3>3, <3>4 DEF Server
  <2>4. PICK st \in {"bound", "serving", "dead"} : srv' = [srv EXCEPT ![s].st = st]
        BY <2>3
  <2>5. /\ srv[s] = [kind |-> srv[s].kind, st |-> srv[s].st]
        /\ srv[s].kind \in {"none", "fpm", "frankenphp"}
        BY DEF Inv, Types
  <2>6. srv'[s] = [kind |-> srv[s].kind, st |-> st] /\ \A t \in Servers : t # s => srv'[t] = srv[t]
        BY <2>4, <2>5 DEF Inv, Types
  <2>7. srv' \in [Servers -> [kind : {"none", "fpm", "frankenphp"}, st : States]]
        BY <2>4, <2>5, <2>6 DEF Inv, Types, States
  <2>8. ASSUME NEW t \in Servers
        PROVE  /\ srv'[t].kind = srv[t].kind
               /\ Alive(t)' => Alive(t)
               /\ srv'[t].st = "booting" => srv[t].st = "booting"
    <3>1. CASE t = s
          BY <2>3, <2>6, <3>1 DEF Alive
    <3>2. CASE t # s
          BY <2>6, <3>2 DEF Alive
    <3> QED
        BY <3>1, <3>2
  <2> QED
      BY <2>1, <2>2, <2>7, <2>8
<1>2. \/ UNCHANGED file
      \/ /\ srv[s].st = "booting" /\ Id(s) \in Ids
         /\ file' = [file EXCEPT ![Id(s)] = s]
  <2>1. Id(s) \in Ids
        BY DEF Id, Servers
  <2> QED
      BY <2>1 DEF Server, MakeSocket, Listen, BindPort, ServerCrashes
<1>3. Types' /\ NumbersLeft' /\ NoneHeld' /\ Held'
      BY <1>1, <1>2 DEF Inv, Types, NumbersLeft, NoneHeld, Held
<1>4. BootingKnown' /\ OnlyOrphansOutlive'
      BY <1>1 DEF Inv, BootingKnown, OnlyOrphansOutlive, Early
<1>5. ASSUME own # None, Kind = "fpm"
      PROVE  \/ file'[Id(own)] \in {None, own}
             \/ Early(file'[Id(own)]) \in orphans
  <2>1. CASE file'[Id(own)] = file[Id(own)]
        BY <1>5, <2>1 DEF Inv, SocketKnown
  <2>2. CASE file'[Id(own)] # file[Id(own)]
    <3>1. srv[s].st = "booting" /\ file' = [file EXCEPT ![Id(s)] = s] /\ Id(s) \in Ids
          BY <1>2, <2>2
    <3>2. own \in Servers
          BY <1>5 DEF Inv, Types
    <3>3. Id(own) \in Ids
          BY <3>2 DEF Id, Servers
    <3>4. file'[Id(own)] = s
          BY <2>2, <3>1, <3>3 DEF Inv, Types
    <3> QED
        BY <3>1, <3>4 DEF Inv, BootingKnown
  <2> QED
      BY <2>1, <2>2
<1>6. own # None => own \in Servers /\ Kind' = Kind
      BY <1>1 DEF Inv, Types, Kind
<1>7. SocketKnown'
      BY <1>1, <1>5, <1>6 DEF SocketKnown, Early, Id
<1>8. FpmAnswersForItself'
  <2>1. pc \in {"connected", "reading"} => own \in Servers /\ own # None
        BY BackendBounds DEF Inv, Held, Servers, Ids
  <2> QED
      BY <1>1, <1>6, <2>1 DEF Inv, FpmAnswersForItself
<1> QED
    BY <1>3, <1>4, <1>7, <1>8 DEF Inv

\* Each step preserves the invariant.
LEMMA NextInv == Inv /\ [Next]_vars => Inv'
<1> SUFFICES ASSUME Inv, [Next]_vars
             PROVE  Inv'
    OBVIOUS
<1>0. /\ conn = [to |-> conn.to, ask |-> conn.ask, read |-> conn.read,
                form |-> conn.form, sent |-> conn.sent]
      /\ file \in [Ids -> Servers \cup {None}]
      BY DEF Inv, Types
<1>1. CASE BeginRun
  <2>1. PICK wanted \in {<<"fpm">>, <<"frankenphp">>, <<"fpm", "frankenphp">>} :
           todo' = AllSuites(wanted)
        BY <1>1 DEF BeginRun
  <2>2. /\ todo' \in Seq({"fpm", "frankenphp"}) /\ Len(todo') <= 2 * Suites
        /\ nextId' = 0 /\ run' = run + 1 /\ run < MaxRuns /\ pc = "off" /\ pc' = "next"
        /\ UNCHANGED <<own, srv, file, conn, orphans>>
        BY <1>1, <2>1, SuitesFit DEF BeginRun, Goto, World
  <2>3. Types' /\ NumbersLeft' /\ NoneHeld' /\ Held'
    <3>1. run' \in 0 .. MaxRuns /\ run' > 0
          BY <2>2, BackendBounds DEF Inv, Types
    <3>2. Types'
          BY <2>2, <3>1 DEF Inv, Types
    <3>3. NumbersLeft'
          BY <2>2, <3>1, BackendBounds DEF NumbersLeft
    <3>4. NoneHeld' /\ Held'
          BY <2>2 DEF Inv, NoneHeld, Held
    <3> QED
        BY <3>2, <3>3, <3>4
  <2>4. BootingKnown' /\ OnlyOrphansOutlive' /\ SocketKnown' /\ FpmAnswersForItself'
        BY <2>2 DEF Inv, BootingKnown, OnlyOrphansOutlive, Alive, Early, SocketKnown, Kind,
           Id, FpmAnswersForItself
  <2> QED
      BY <2>3, <2>4 DEF Inv
<1>2. CASE EndRun
  <2>1. /\ pc = "next" /\ pc' = "off"
        /\ UNCHANGED <<run, todo, nextId, own, srv, file, conn, orphans>>
        BY <1>2 DEF EndRun, Goto, Process, World
  <2>2. Types' /\ NumbersLeft' /\ NoneHeld' /\ Held'
        BY <2>1 DEF Inv, Types, NumbersLeft, NoneHeld, Held
  <2>3. BootingKnown' /\ OnlyOrphansOutlive' /\ SocketKnown' /\ FpmAnswersForItself'
        BY <2>1 DEF Inv, BootingKnown, OnlyOrphansOutlive, Alive, Early, SocketKnown, Kind,
           Id, FpmAnswersForItself
  <2> QED
      BY <2>2, <2>3 DEF Inv
<1>3. CASE StartFpm
  <2>1. Spawn("fpm") /\ file' = [file EXCEPT ![nextId] = None] /\ UNCHANGED <<run, conn, orphans>>
        BY <1>3 DEF StartFpm
  <2>2. nextId \in Ids
    <3>1. Len(todo) \in Nat \ {0} /\ pc # "off"
          BY <2>1 DEF Spawn, Goto, Inv, Types
    <3> QED
        BY <3>1, BackendBounds DEF Inv, Types, NumbersLeft, Ids
  <2>3. file' \in [Ids -> Servers \cup {None}] /\ file'[nextId] = None
        BY <1>0, <2>1, <2>2
  <2> QED
      BY <2>1, <2>3, SpawnSafe
<1>4. CASE StartFrankenPhp
  <2>1. Spawn("frankenphp") /\ UNCHANGED <<run, file, conn, orphans>>
        BY <1>4 DEF StartFrankenPhp
  <2> QED
      BY <1>0, <2>1, SpawnSafe
<1>5. CASE StartFails
  <2>1. /\ pc = "next" /\ todo # <<>> /\ todo' = Tail(todo) /\ nextId' = nextId + 1
        /\ file' = [file EXCEPT ![nextId] = None] \/ file' = file
        /\ UNCHANGED <<run, pc, own, srv, conn, orphans>>
        BY <1>5 DEF StartFails
  <2>2. /\ todo' \in Seq({"fpm", "frankenphp"}) /\ Len(todo') = Len(todo) - 1
        /\ Len(todo) \in Nat
        BY <2>1 DEF Inv, Types
  <2>3. Types' /\ NumbersLeft' /\ NoneHeld' /\ Held'
    <3>1. nextId \in Nat /\ file' \in [Ids -> Servers \cup {None}]
          BY <1>0, <2>1 DEF Inv, Types
    <3>2. Types'
          BY <2>1, <2>2, <3>1 DEF Inv, Types
    <3>3. NumbersLeft'
      <4>1. run > 0 /\ nextId + Len(todo) <= 2 * Suites
            BY <2>1 DEF Inv, NumbersLeft
      <4>2. nextId' + Len(todo') = nextId + Len(todo)
            BY <2>1, <2>2, <3>1
      <4> QED
          BY <2>1, <4>1, <4>2 DEF NumbersLeft
    <3>4. NoneHeld' /\ Held'
          BY <2>1 DEF Inv, NoneHeld, Held
    <3> QED
        BY <3>2, <3>3, <3>4
  <2>4. own = None
        BY <2>1 DEF Inv, NoneHeld
  <2>5. BootingKnown' /\ OnlyOrphansOutlive' /\ SocketKnown' /\ FpmAnswersForItself'
        BY <2>1, <2>4 DEF Inv, BootingKnown, OnlyOrphansOutlive, Alive, Early, SocketKnown,
           FpmAnswersForItself
  <2> QED
      BY <2>3, <2>5 DEF Inv
<1>6. CASE StartSucceeds \/ PollAgain
      BY <1>0, <1>6, UseSafe DEF StartSucceeds, PollAgain, Goto
<1>7. CASE StartTimesOut
  <2>1. pc = "polling" /\ own # None
        BY <1>7, BackendBounds DEF StartTimesOut, Goto, Inv, Held, Servers, Ids
  <2> QED
      BY <1>0, <1>7, <2>1, LetGoSafe DEF StartTimesOut, Goto
<1>8. ASSUME NEW ask \in Asks, Connect(ask)
      PROVE  Inv'
  <2>1. conn' = [to |-> Listener, ask |-> ask, read |-> None, form |-> "none", sent |-> 0]
        BY <1>8 DEF Connect, NoConn
  <2> QED
      BY <1>8, <2>1, UseSafe DEF Connect, Goto
<1>9. CASE ConnectFails
      BY <1>0, <1>9, UseSafe DEF ConnectFails
<1>10. CASE WriteRequest
       BY <1>0, <1>10, UseSafe DEF WriteRequest, Goto, Process
<1>11. CASE WriteFails \/ ReadEnds \/ ReadIsReset \/ ReadTimesOut
  <2>1. PICK answered \in BOOLEAN : Finish(answered)
    <3>1. CASE WriteFails
          BY <3>1 DEF WriteFails
    <3>2. CASE ReadEnds
          BY <3>2 DEF ReadEnds
    <3>3. CASE ReadIsReset \/ ReadTimesOut
      <4>1. (Kind = "fpm") \in BOOLEAN
            OBVIOUS
      <4> QED
          BY <3>3, <4>1 DEF ReadIsReset, ReadTimesOut
    <3> QED
        BY <1>11, <3>1, <3>2, <3>3
  <2>2. pc \in {"connected", "reading"}
        BY <1>11 DEF WriteFails, ReadEnds, ReadIsReset, ReadTimesOut
  <2> QED
      BY <2>1, <2>2, UseSafe DEF Finish, NoConn, Process
<1>12. CASE DropBackend
  <2>1. /\ pc = "ready" /\ pc' = "next" /\ own' = None
        /\ srv' = [srv EXCEPT ![own].st = "dead"]
        /\ file' = [file EXCEPT ![Id(own)] = None] \/ file' = file
        /\ UNCHANGED <<run, todo, nextId, conn, orphans>>
        BY <1>12 DEF DropBackend, Goto, Killed
  <2>2. file' \in [Ids -> Servers \cup {None}]
        BY <1>0, <2>1
  <2> QED
      BY <1>0, <2>1, <2>2, LetGoSafe
<1>13. CASE RunKilled
  <2>1. conn' = [to |-> None, ask |-> NoAsk, read |-> None, form |-> "none", sent |-> 0]
        BY <1>13 DEF RunKilled, NoConn
  <2>2. orphans' = orphans \cup (IF own = None THEN {} ELSE Orphaned)
        BY <1>13 DEF RunKilled
  <2> QED
      BY <1>0, <1>13, <2>1, <2>2, LetGoSafe DEF RunKilled
<1>14. ASSUME NEW s \in Servers, Server(s)
       PROVE  Inv'
       BY <1>14, ServerSafe
<1>15. CASE ReadRequest \/ SendReply
  <2>1. pc = "reading" /\ UNCHANGED <<pc, Process, World>>
        BY <1>15 DEF ReadRequest, SendReply
  <2>2. PICK r, form, n : \/ conn' = [conn EXCEPT !.read = r, !.form = form]
                          \/ conn' = [conn EXCEPT !.sent = n]
        BY <1>15 DEF ReadRequest, SendReply
  <2>3. /\ conn' = [to |-> conn'.to, ask |-> conn'.ask, read |-> conn'.read,
                   form |-> conn'.form, sent |-> conn'.sent]
        /\ conn'.to = conn.to
        BY <1>0, <2>2
  <2> QED
      BY <2>1, <2>3, UseSafe DEF Process
<1>16. CASE UNCHANGED vars
  <2>1. Types' /\ NumbersLeft' /\ NoneHeld' /\ Held'
        BY <1>16 DEF vars, World, Process, Inv, Types, NumbersLeft, NoneHeld, Held
  <2>2. BootingKnown' /\ OnlyOrphansOutlive' /\ SocketKnown' /\ FpmAnswersForItself'
        BY <1>16 DEF vars, World, Process, Inv, BootingKnown, OnlyOrphansOutlive, Alive, Early,
           SocketKnown, Kind, Id, FpmAnswersForItself
  <2> QED
      BY <2>1, <2>2 DEF Inv
<1> QED
    BY <1>1, <1>2, <1>3, <1>4, <1>5, <1>6, <1>7, <1>8, <1>9, <1>10, <1>11, <1>12, <1>13,
       <1>14, <1>15, <1>16 DEF Next, Benchmark

\* The invariant holds at every step.
LEMMA InvAlways == Spec => []Inv
  BY InitInv, NextInv, PTL DEF Spec

(* However many benchmarks were killed before, and whatever sockets and    *)
(* servers they left: php-fpm's numbers come from the process this start   *)
(* spawned, or from one abandoned before it had made its socket.           *)
THEOREM OwnServerAnswers == Spec => []FpmAnswersForItself
<1>1. Inv => FpmAnswersForItself
      BY DEF Inv
<1> QED
    BY <1>1, InvAlways, PTL

(* Every server that outlives its backend was left by a start that gave up *)
(* or by a benchmark that was killed.                                      *)
THEOREM NoOtherSurvivor == Spec => []OnlyOrphansOutlive
<1>1. Inv => OnlyOrphansOutlive
      BY DEF Inv
<1> QED
    BY <1>1, InvAlways, PTL

-----------------------------------------------------------------------------
(* What is defined by recursion over positions. *)

\* A set of naturals that is not empty has a least element.
LEMMA LeastOfNaturals ==
    ASSUME NEW T \in SUBSET Nat, T # {}
    PROVE  \E x \in T : \A y \in T : x <= y
<1> DEFINE Less == OpToRel(<, Nat)
<1>1. PICK x \in T : \A y \in T : ~ (<<y, x>> \in Less)
  <2>1. IsWellFoundedOn(Less, Nat)
    BY NatLessThanWellFounded, Zenon
  <2> HIDE DEF Less
  <2> QED
    BY <2>1, WFMin
<1>2. ASSUME NEW y \in T PROVE x <= y
  <2>1. <<y, x>> \in Less <=> y < x
    BY DEF OpToRel
  <2>2. ~ (y < x)
    BY <1>1, <2>1, Zenon
  <2> QED
    BY <2>2
<1> QED
  BY <1>2

\* Induction up to m: a set that has 0 and with n < m has n + 1.
LEMMA UpTo ==
    ASSUME NEW m \in Nat, NEW T, 0 \in T, \A n \in 0 .. (m - 1) : n \in T => n + 1 \in T
    PROVE  0 .. m \subseteq T
<1> SUFFICES ASSUME 0 .. m \ T # {} PROVE FALSE
  OBVIOUS
<1> DEFINE missing == 0 .. m \ T
<1>1. PICK x \in missing : \A y \in missing : x <= y
  BY LeastOfNaturals, missing \in SUBSET Nat, missing # {}
<1>2. x \in 0 .. m /\ x # 0 /\ x \notin T
  OBVIOUS
<1>3. x - 1 \in 0 .. (m - 1) /\ x - 1 + 1 = x
  BY <1>2
<1>4. x - 1 \notin missing
  BY <1>1, <1>3
<1>5. x - 1 \in T
  BY <1>3, <1>4
<1>6. x - 1 + 1 \in T
  BY <1>3, <1>5
<1> QED
  BY <1>2, <1>3, <1>6

\* A function on D whose value at p is given, or follows from its value at
\* next[p], which is of a lower rank.
Descents(D, V, m, rank, next, base, step) ==
    /\ rank \in [D -> 0 .. m] /\ next \in [D -> D]
    /\ base \in [D -> V] /\ step \in [D \X V -> V]
    /\ \A p \in D : rank[p] # 0 => rank[next[p]] < rank[p]

Follows(D, V, rank, next, base, step, f) ==
    /\ f \in [D -> V]
    /\ \A p \in D : f[p] = IF rank[p] = 0 THEN base[p] ELSE step[<<p, f[next[p]]>>]

\* What is defined by descent exists.
LEMMA Descent ==
    ASSUME NEW m \in Nat, NEW D, NEW V, NEW rank, NEW next, NEW base, NEW step,
           Descents(D, V, m, rank, next, base, step)
    PROVE  \E f : Follows(D, V, rank, next, base, step, f)
<1> USE DEF Descents
<1> DEFINE Value(f, p) == IF rank[p] = 0 THEN base[p] ELSE step[<<p, f[next[p]]>>]
           Good(f, k)  == f \in [D -> V] /\ \A p \in D : rank[p] < k => f[p] = Value(f, p)
           T           == {k \in 0 .. (m + 1) : \E f : Good(f, k)}
<1>1. 0 \in T
  <2>1. Good(base, 0)
    OBVIOUS
  <2> HIDE DEF Good
  <2> QED
    BY <2>1, 0 \in 0 .. (m + 1)
<1>2. ASSUME NEW k \in 0 .. (m + 1 - 1), k \in T PROVE k + 1 \in T
  <2>1. PICK f : Good(f, k)
    BY <1>2
  <2> DEFINE h == [p \in D |-> Value(f, p)]
  <2>2. \A p \in D : Value(f, p) \in V
    BY <2>1
  <2>3. h \in [D -> V]
    BY <2>2
  <2>4. ASSUME NEW p \in D, rank[p] < k + 1 PROVE h[p] = Value(h, p)
    <3>1. CASE rank[p] = 0
      BY <3>1
    <3>2. CASE rank[p] # 0
      <4>1. next[p] \in D /\ rank[next[p]] < k
        BY <2>4, <3>2
      <4>2. f[next[p]] = h[next[p]]
        BY <2>1, <4>1
      <4>3. h[p] = step[<<p, f[next[p]]>>]
        BY <3>2
      <4> HIDE DEF h
      <4> QED
        BY <3>2, <4>2, <4>3
    <3> QED
      BY <3>1, <3>2
  <2> HIDE DEF h
  <2>5. Good(h, k + 1)
    BY <2>3, <2>4
  <2> HIDE DEF Good
  <2> QED
    BY <2>5
<1>3. 0 .. (m + 1) \subseteq T
  <2> HIDE DEF T
  <2> HIDE DEF Good
  <2>1. m + 1 \in Nat
    OBVIOUS
  <2> QED
    BY <1>1, <1>2, <2>1, UpTo
<1>4. PICK f : Good(f, m + 1)
  BY <1>3
<1>5. Follows(D, V, rank, next, base, step, f)
  BY <1>4 DEF Follows
<1> QED
  BY <1>5

\* Data of length m is scanned: what stands at a position of R counts, and the
\* scan goes on at a later one; at any other it ends with v0.
Scans(m, R, V, v0, next, step) ==
    /\ m \in Nat /\ R \in SUBSET (0 .. (m - 1)) /\ v0 \in V
    /\ next \in [R -> Nat] /\ step \in [R \X V -> V]
    /\ \A p \in R : next[p] > p

Scanned(R, V, v0, next, step, f) ==
    /\ f \in [Nat -> V]
    /\ \A p \in Nat : f[p] = IF p \in R THEN step[<<p, f[next[p]]>>] ELSE v0

\* What is defined by scanning data exists.
LEMMA Scan ==
    ASSUME NEW m, NEW R, NEW V, NEW v0, NEW next, NEW step, Scans(m, R, V, v0, next, step)
    PROVE  \E f : Scanned(R, V, v0, next, step, f)
<1> USE DEF Scans
<1> DEFINE Rank  == [p \in Nat |-> IF p \in R THEN m - p ELSE 0]
           Next0 == [p \in Nat |-> IF p \in R THEN next[p] ELSE 0]
           Base0 == [p \in Nat |-> v0]
           Step0 == [x \in Nat \X V |-> IF x[1] \in R THEN step[<<x[1], x[2]>>] ELSE v0]
<1>1. \A p \in R : p \in Nat /\ p < m /\ next[p] \in Nat /\ next[p] > p
  OBVIOUS
<1>2. Rank \in [Nat -> 0 .. m] /\ Next0 \in [Nat -> Nat] /\ Base0 \in [Nat -> V]
  BY <1>1
<1>3. Step0 \in [Nat \X V -> V]
  OBVIOUS
<1>4. ASSUME NEW p \in Nat, Rank[p] # 0 PROVE Rank[Next0[p]] < Rank[p]
  <2>1. p \in R
    BY <1>4
  <2>2. Next0[p] = next[p] /\ Rank[p] = m - p
    BY <2>1
  <2>3. Rank[next[p]] = IF next[p] \in R THEN m - next[p] ELSE 0
    BY <1>1, <2>1
  <2> HIDE DEF Rank, Next0
  <2> QED
    BY <1>1, <2>1, <2>2, <2>3
<1>5. ASSUME NEW p \in Nat, NEW v \in V
      PROVE  /\ Base0[p] = v0 /\ (Rank[p] = 0 <=> p \notin R)
             /\ p \in R => Next0[p] = next[p] /\ Step0[<<p, v>>] = step[<<p, v>>]
  BY <1>1
<1> HIDE DEF Rank, Next0, Base0, Step0
<1>6. PICK f : Follows(Nat, V, Rank, Next0, Base0, Step0, f)
  <2>1. Descents(Nat, V, m, Rank, Next0, Base0, Step0)
    BY <1>2, <1>3, <1>4 DEF Descents
  <2> QED
    BY <2>1, Descent
<1>7. f \in [Nat -> V]
  BY <1>6 DEF Follows
<1>8. ASSUME NEW p \in Nat PROVE f[p] = IF p \in R THEN step[<<p, f[next[p]]>>] ELSE v0
  <2>1. f[p] = IF Rank[p] = 0 THEN Base0[p] ELSE Step0[<<p, f[Next0[p]]>>]
    BY <1>6 DEF Follows
  <2>2. CASE p \in R
    <3>1. f[next[p]] \in V
      BY <1>1, <1>7, <2>2
    <3> QED
      BY <1>5, <2>1, <2>2, <3>1
  <2>3. CASE p \notin R
    BY <1>5, <2>1, <2>3
  <2> QED
    BY <2>2, <2>3
<1> QED
  BY <1>7, <1>8 DEF Scanned

-----------------------------------------------------------------------------
\* What is put together of two sequences, and how long it is.
LEMMA Concat ==
    ASSUME NEW a \in Seq(Nat), NEW b \in Seq(Nat)
    PROVE  a \o b \in Seq(Nat) /\ Len(a \o b) = Len(a) + Len(b) /\ Len(a) \in Nat /\ Len(b) \in Nat
  OBVIOUS

\* s is in data from the 0-based position p on.
Holds(data, p, s) ==
    /\ p \in Nat /\ p + Len(s) <= Len(data)
    /\ \A i \in 1 .. Len(s) : data[p + i] = s[i]

\* A sequence holds itself,
LEMMA HoldsSelf ==
    ASSUME NEW s \in Seq(Nat) PROVE Holds(s, 0, s)
  BY DEF Holds

\* what it holds when more is put behind it,
LEMMA HoldsLeft ==
    ASSUME NEW a \in Seq(Nat), NEW b \in Seq(Nat), NEW p, NEW s \in Seq(Nat), Holds(a, p, s)
    PROVE  Holds(a \o b, p, s)
  BY DEF Holds

\* and what was put behind it.
LEMMA HoldsRight ==
    ASSUME NEW a \in Seq(Nat), NEW b \in Seq(Nat)
    PROVE  Holds(a \o b, Len(a), b)
  BY DEF Holds

\* What a part of data holds, data holds.
LEMMA HoldsPart ==
    ASSUME NEW data \in Seq(Nat), NEW s \in Seq(Nat), NEW t \in Seq(Nat), NEW p, NEW q,
           Holds(data, p, s), Holds(s, q, t)
    PROVE  Holds(data, p + q, t)
<1>1. /\ p \in Nat /\ q \in Nat /\ Len(s) \in Nat /\ Len(t) \in Nat /\ Len(data) \in Nat
      /\ p + Len(s) <= Len(data) /\ q + Len(t) <= Len(s)
  BY DEF Holds
<1>2. ASSUME NEW i \in 1 .. Len(t) PROVE data[p + q + i] = t[i]
  <2>1. q + i \in 1 .. Len(s) /\ p + (q + i) = p + q + i
    BY <1>1
  <2>2. s[q + i] = t[i]
    BY DEF Holds
  <2>3. data[p + (q + i)] = s[q + i]
    BY <2>1 DEF Holds
  <2> QED
    BY <2>1, <2>2, <2>3
<1>3. p + q \in Nat /\ p + q + Len(t) <= Len(data)
  BY <1>1
<1> QED
  BY <1>2, <1>3, Zenon DEF Holds

\* What is held is what is read there.
LEMMA HeldIs ==
    ASSUME NEW data \in Seq(Nat), NEW s \in Seq(Nat), NEW p, Holds(data, p, s)
    PROVE  SubSeq(data, p + 1, p + Len(s)) = s
<1> DEFINE t == SubSeq(data, p + 1, p + Len(s))
<1>1. t \in Seq(Nat) /\ Len(t) = Len(s)
  <2> DEFINE l == Len(s)
             m == Len(data)
             a == p + 1
             b == p + l
  <2>1. p \in Nat /\ l \in Nat /\ m \in Nat /\ p + l <= m
    BY DEF Holds
  <2> HIDE DEF l, m
  <2>2. a \in Nat /\ a >= 1 /\ b \in Nat /\ b <= m /\ a <= b + 1 /\ b - a + 1 = l
    BY <2>1
  <2>3. t = SubSeq(data, a, b)
    BY DEF l
  <2> HIDE DEF a, b, t
  <2>4. SubSeq(data, a, b) \in Seq(Nat) /\ Len(SubSeq(data, a, b)) = b - a + 1
    BY <2>2, SMTT(20) DEF m
  <2> QED
    BY <2>2, <2>3, <2>4 DEF l
<1>2. ASSUME NEW i \in 1 .. Len(s) PROVE t[i] = s[i]
  <2>1. t[i] = data[p + 1 + i - 1] /\ p + 1 + i - 1 = p + i
    BY DEF Holds
  <2> QED
    BY <2>1 DEF Holds
<1> HIDE DEF t
<1>3. t = s
  BY <1>1, <1>2, SeqEqual, Zenon
<1> QED
  BY <1>3 DEF t

-----------------------------------------------------------------------------
\* A product of naturals is one.
LEMMA Products == \A a, b \in Nat : a * b \in Nat
  OBVIOUS

Streams == [ended : BOOLEAN, data : Seq(Nat)]

\* The numbers of a whole header, and the content that follows it.
LEMMA HeaderInData ==
    ASSUME NEW data \in Seq(Nat), NEW p \in Nat, p + 8 <= Len(data)
    PROVE  LET h == HeaderAt(data, p)
           IN  /\ h.start \in Nat /\ h.end \in Nat /\ h.padding \in Nat
               /\ h.start >= p + 8 /\ h.end >= p + 8 /\ p < Len(data)
               /\ h.end <= Len(data) => Content(data, h) \in Seq(Nat)
<1> DEFINE h == HeaderAt(data, p)
<1>1. Len(data) \in Nat /\ p + 8 <= Len(data)
  OBVIOUS
<1>2. p + 5 \in 1 .. Len(data) /\ p + 6 \in 1 .. Len(data) /\ p + 7 \in 1 .. Len(data)
  BY <1>1
<1>3. data[p + 5] \in Nat /\ data[p + 6] \in Nat /\ data[p + 7] \in Nat
  <2>1. \A k \in 1 .. Len(data) : data[k] \in Nat
    OBVIOUS
  <2> QED
    BY <1>2, <2>1
<1>4. data[p + 5] * Base \in Nat
  BY <1>3, BaseAssumption, Products
<1>5. h.start = p + 8 /\ h.end = p + 8 + data[p + 5] * Base + data[p + 6] /\ h.padding = data[p + 7]
  BY DEF HeaderAt
<1> HIDE DEF h
<1>6. h.start \in Nat /\ h.end \in Nat /\ h.padding \in Nat /\ h.start >= p + 8 /\ h.end >= p + 8
  <2> DEFINE x == data[p + 5] * Base
             y == data[p + 6]
             z == data[p + 7]
  <2>1. x \in Nat /\ y \in Nat /\ z \in Nat /\ h.start = p + 8 /\ h.end = p + 8 + x + y /\ h.padding = z
    BY <1>3, <1>4, <1>5
  <2> HIDE DEF x, y, z
  <2> QED
    BY <2>1
<1>7. ASSUME h.end <= Len(data) PROVE Content(data, h) \in Seq(Nat)
  <2> DEFINE a == h.start + 1
             b == h.end
  <2>1. a \in Nat /\ a >= 1 /\ b \in Nat /\ b <= Len(data)
    BY <1>6, <1>7
  <2> HIDE DEF a, b
  <2>2. SubSeq(data, a, b) \in Seq(Nat)
    BY <2>1
  <2> QED
    BY <2>2 DEF Content, a, b
<1>8. p < Len(data)
  BY <1>1
<1> QED
  BY <1>6, <1>7, <1>8 DEF h

\* A whole record lies within data, and the next comes after it.
LEMMA RecordInData ==
    ASSUME NEW data \in Seq(Nat), NEW checks \in BOOLEAN, NEW p \in Nat,
           IsRecord(data, checks, p)
    PROVE  /\ Content(data, HeaderAt(data, p)) \in Seq(Nat)
           /\ HeaderAt(data, p).end + HeaderAt(data, p).padding \in Nat
           /\ HeaderAt(data, p).end + HeaderAt(data, p).padding > p
           /\ p < Len(data)
<1> DEFINE h == HeaderAt(data, p)
           e == h.end
           g == h.padding
           l == Len(data)
<1>1. p + 8 <= l /\ e + g <= l
  BY DEF IsRecord
<1>2. e \in Nat /\ g \in Nat /\ e >= p + 8 /\ p < l /\ (e <= l => Content(data, h) \in Seq(Nat))
  BY <1>1, HeaderInData
<1> HIDE DEF e, g, h, l
<1>3. e + g \in Nat /\ e + g > p /\ (l \in Nat => e <= l)
  BY <1>1, <1>2
<1>4. l \in Nat
  BY DEF l
<1> QED
  BY <1>2, <1>3, <1>4 DEF e, g, h, l

\* A record makes a stream of a stream.
LEMMA TakenType ==
    ASSUME NEW mine \in BOOLEAN, NEW content \in Seq(Nat), NEW rest \in Streams
    PROVE  Taken(mine, content, rest) \in Streams
<1>1. Unended \in Streams /\ Ended \in Streams
  BY DEF Unended, Ended, Streams
<1>2. content \o rest.data \in Seq(Nat)
  BY DEF Streams
<1>3. [ended |-> TRUE, data |-> content \o rest.data] \in Streams
  BY <1>2 DEF Streams
<1> QED
  BY <1>1, <1>3 DEF Taken

\* How the stream of one type is read, record by record.
ReadsStream(data, checks, type, f) ==
    /\ StreamIn(data, checks, type) = f[0]
    /\ \A p \in Nat : ~IsRecord(data, checks, p) => f[p] = Unended
    /\ \A p \in Nat : IsRecord(data, checks, p) =>
          f[p] = Taken(HeaderAt(data, p).type = type, Content(data, HeaderAt(data, p)),
                       f[HeaderAt(data, p).end + HeaderAt(data, p).padding])

\* The recursion of StreamIn defines the stream.
LEMMA StreamIsRead ==
    ASSUME NEW data \in Seq(Nat), NEW checks \in BOOLEAN, NEW type
    PROVE  \E f : ReadsStream(data, checks, type, f)
<1> DEFINE R(p)  == IsRecord(data, checks, p)
           H(p)  == HeaderAt(data, p)
           C(p)  == Content(data, H(p))
           N(p)  == H(p).end + H(p).padding
           O(p)  == H(p).type = type
           F     == CHOOSE f : f = [p \in Nat |-> IF ~R(p) THEN Unended
                                                  ELSE Taken(O(p), C(p), f[N(p)])]
           m     == Len(data)
           whole == {p \in 0 .. (m - 1) : R(p)}
           next  == [p \in whole |-> N(p)]
           step  == [x \in whole \X Streams |-> Taken(O(x[1]), C(x[1]), x[2])]
<1>1. StreamIn(data, checks, type) = F[0]
  BY DEF StreamIn
<1>2. ASSUME NEW p \in Nat, R(p)
      PROVE  C(p) \in Seq(Nat) /\ N(p) \in Nat /\ N(p) > p /\ p < m /\ O(p) \in BOOLEAN
  BY <1>2, RecordInData
<1>3. m \in Nat /\ Unended \in Streams
  BY DEF Unended, Streams
<1> HIDE DEF R, H, C, N, O, m
<1>4. \A p \in Nat : p \in whole <=> R(p)
  BY <1>2, <1>3
<1>5. Scans(m, whole, Streams, Unended, next, step)
  <2>1. whole \in SUBSET (0 .. (m - 1)) /\ \A p \in whole : p \in Nat /\ R(p)
    BY <1>3
  <2>2. next \in [whole -> Nat] /\ \A p \in whole : next[p] > p
    BY <1>2, <2>1
  <2>3. step \in [whole \X Streams -> Streams]
    <3>1. ASSUME NEW p \in whole, NEW rest \in Streams
          PROVE  Taken(O(p), C(p), rest) \in Streams
      BY <1>2, <2>1, TakenType
    <3> QED
      BY <3>1
  <2> HIDE DEF whole, next, step
  <2> QED
    BY <1>3, <2>1, <2>2, <2>3 DEF Scans
<1>6. ASSUME NEW p \in whole, NEW rest \in Streams
      PROVE  next[p] = N(p) /\ step[<<p, rest>>] = Taken(O(p), C(p), rest) /\ N(p) \in Nat
  BY <1>2, <1>3
<1> HIDE DEF whole, next, step
<1>7. PICK f : Scanned(whole, Streams, Unended, next, step, f)
  BY <1>5, Scan
<1>8. f \in [Nat -> Streams]
  BY <1>7 DEF Scanned
<1>9. ASSUME NEW p \in Nat
      PROVE  f[p] = IF ~R(p) THEN Unended ELSE Taken(O(p), C(p), f[N(p)])
  <2>1. f[p] = IF p \in whole THEN step[<<p, f[next[p]]>>] ELSE Unended
    BY <1>7 DEF Scanned
  <2>2. p \in whole => next[p] = N(p) /\ f[next[p]] \in Streams
    BY <1>3, <1>6, <1>8
  <2> QED
    BY <1>4, <1>6, <2>1, <2>2
<1>10. f = [p \in Nat |-> IF ~R(p) THEN Unended ELSE Taken(O(p), C(p), f[N(p)])]
  BY <1>8, <1>9
<1>11. F = [p \in Nat |-> IF ~R(p) THEN Unended ELSE Taken(O(p), C(p), F[N(p)])]
  BY <1>10
<1> HIDE DEF F
<1>12. ASSUME NEW p \in Nat
       PROVE  F[p] = IF ~R(p) THEN Unended ELSE Taken(O(p), C(p), F[N(p)])
  BY <1>11
<1>13. ReadsStream(data, checks, type, F)
  BY <1>1, <1>12 DEF ReadsStream, R, H, C, N, O
<1> QED
  BY <1>13

-----------------------------------------------------------------------------
\* A length below Base * Base is the two bytes it is written as.
LEMMA TwoBytes ==
    ASSUME NEW n \in Nat, n < Base * Base
    PROVE  /\ Low(n \div Base) = n \div Base /\ n \div Base \in Nat /\ Low(n) \in Nat
           /\ Low(n \div Base) * Base + Low(n) = n
<1> DEFINE q == n \div Base
           r == n % Base
<1>1. Base \in Nat /\ Base > 0
  BY BaseAssumption
<1>2. q \in Nat /\ r \in Nat /\ r < Base /\ n = Base * q + r
  BY <1>1
<1> HIDE DEF q, r
<1>3. q < Base
  <2> SUFFICES ASSUME q >= Base PROVE FALSE
    BY <1>1, <1>2
  <2>1. Base * q >= Base * Base
    BY <1>1, <1>2
  <2> QED
    BY <1>1, <1>2, <2>1
<1>4. q % Base = q
  BY <1>1, <1>2, <1>3
<1>5. q * Base + r = n
  BY <1>1, <1>2
<1> QED
  BY <1>2, <1>4, <1>5 DEF Low, q, r

\* Padding is as long as it is asked to be.
LEMMA ZerosType ==
    ASSUME NEW n \in Nat PROVE Zeros(n) \in Seq(Nat) /\ Len(Zeros(n)) = n
  BY DEF Zeros

\* At p a server finds a record of len bytes.
RecordIs(data, p, type, content, len) ==
    /\ IsRecord(data, FALSE, p)
    /\ HeaderAt(data, p).type = type
    /\ HeaderAt(data, p).start = p + 8
    /\ HeaderAt(data, p).end = p + 8 + Len(content)
    /\ Content(data, HeaderAt(data, p)) = content
    /\ HeaderAt(data, p).end + HeaderAt(data, p).padding = p + len

\* A record that fits is found as it was written.
LEMMA RecordHeld ==
    ASSUME NEW type \in Nat, NEW content \in Seq(Nat), Len(content) < Base * Base
    PROVE  /\ Record(type, content) \in Seq(Nat)
           /\ Len(Record(type, content)) \in Nat
           /\ Len(Record(type, content)) >= 8 + Len(content)
           /\ \A data \in Seq(Nat), p \in Nat : Holds(data, p, Record(type, content)) =>
                  RecordIs(data, p, type, content, Len(Record(type, content)))
<1> DEFINE n       == Len(content)
           padding == (8 - (n % 8)) % 8
           hi      == Low(n \div Base)
           lo      == Low(n)
           head    == <<1, type, 0, 1, hi, lo, padding, 0>>
           zeros   == Zeros(padding)
           rec     == Record(type, content)
<1>1. n \in Nat /\ padding \in Nat
  OBVIOUS
<1>2. hi \in Nat /\ lo \in Nat /\ hi * Base + lo = n
  BY <1>1, TwoBytes
<1>3. zeros \in Seq(Nat) /\ Len(zeros) = padding
  BY <1>1, ZerosType
<1>4. rec = head \o content \o zeros
  BY DEF Record
<1> HIDE DEF n, padding, hi, lo, zeros, rec
<1>5. /\ head \in Seq(Nat) /\ Len(head) = 8
      /\ head[1] = 1 /\ head[2] = type /\ head[5] = hi /\ head[6] = lo /\ head[7] = padding
  BY <1>1, <1>2
<1> HIDE DEF head
<1>6. /\ head \o content \in Seq(Nat) /\ rec \in Seq(Nat)
      /\ Len(rec) = 8 + n + padding /\ Len(rec) \in Nat /\ Len(rec) >= 8 + n
  <2>1. head \o content \in Seq(Nat) /\ Len(head \o content) = 8 + n
    BY <1>5, Concat DEF n
  <2> DEFINE front == head \o content
  <2> HIDE DEF front
  <2>2. front \o zeros \in Seq(Nat) /\ Len(front \o zeros) = Len(front) + Len(zeros)
    BY <1>3, <2>1, Concat DEF front
  <2> QED
    BY <1>1, <1>3, <1>4, <2>1, <2>2 DEF front
<1>7. Holds(rec, 0, head) /\ Holds(rec, 8, content)
  <2>1. Holds(head \o content, 0, head)
    BY <1>5, HoldsSelf, HoldsLeft
  <2>2. Holds(head \o content, 8, content)
    <3>1. Holds(head \o content, Len(head), content)
      BY <1>5, HoldsRight
    <3> QED
      BY <1>5, <3>1
  <2> DEFINE front == head \o content
  <2>3. front \in Seq(Nat)
    BY <1>6
  <2> HIDE DEF front
  <2>4. Holds(front \o zeros, 0, head) /\ Holds(front \o zeros, 8, content)
    <3>1. Holds(front, 0, head) /\ Holds(front, 8, content)
      BY <2>1, <2>2 DEF front
    <3> QED
      BY <1>3, <1>5, <2>3, <3>1, HoldsLeft
  <2> QED
    BY <1>4, <2>4 DEF front
<1>8. ASSUME NEW data \in Seq(Nat), NEW p \in Nat, Holds(data, p, rec)
      PROVE  RecordIs(data, p, type, content, Len(rec))
  <2> DEFINE h == HeaderAt(data, p)
  <2>1. Holds(data, p, head) /\ Holds(data, p + 8, content)
    <3>1. Holds(data, p + 0, head) /\ Holds(data, p + 8, content)
      BY <1>5, <1>6, <1>7, <1>8, HoldsPart
    <3> QED
      BY <3>1
  <2>2. /\ data[p + 1] = 1 /\ data[p + 2] = type /\ data[p + 5] = hi
        /\ data[p + 6] = lo /\ data[p + 7] = padding /\ p + 8 <= Len(data)
    BY <1>5, <2>1 DEF Holds
  <2>3. /\ h.version = 1 /\ h.type = type /\ h.start = p + 8
        /\ h.end = p + 8 + hi * Base + lo /\ h.padding = padding
    BY <2>2 DEF HeaderAt
  <2> HIDE DEF h
  <2>4. h.end = p + 8 + n
    <3> DEFINE high == hi * Base
    <3>1. high \in Nat
      BY <1>2, BaseAssumption, Products
    <3>2. h.end = p + 8 + high + lo /\ high + lo = n
      BY <1>2, <2>3
    <3> HIDE DEF high
    <3> QED
      BY <1>1, <1>2, <3>1, <3>2
  <2>5. h.end + h.padding = p + Len(rec)
    BY <1>1, <1>6, <2>3, <2>4
  <2>6. p + Len(rec) <= Len(data)
    BY <1>8 DEF Holds
  <2>7. IsRecord(data, FALSE, p)
    BY <2>2, <2>3, <2>5, <2>6 DEF IsRecord, h
  <2>8. Content(data, h) = content
    <3>1. SubSeq(data, p + 8 + 1, p + 8 + Len(content)) = content
      BY <2>1, HeldIs
    <3> QED
      BY <2>3, <2>4, <3>1 DEF Content, n
  <2> QED
    BY <2>3, <2>4, <2>5, <2>7, <2>8 DEF h, n, RecordIs
<1> QED
  BY <1>6, <1>8 DEF rec, n

\* The first record as it is found: of version 0, so that a server which
\* checks versions takes nothing.
LEMMA BeginHeld ==
    /\ BeginRecord \in Seq(Nat) /\ Len(BeginRecord) = 16
    /\ \A data \in Seq(Nat) : Holds(data, 0, BeginRecord) =>
          /\ IsRecord(data, FALSE, 0) /\ ~IsRecord(data, TRUE, 0)
          /\ HeaderAt(data, 0).type = 1
          /\ HeaderAt(data, 0).end + HeaderAt(data, 0).padding = 16
<1>1. /\ BeginRecord \in Seq(Nat) /\ Len(BeginRecord) = 16
      /\ BeginRecord[1] = 0 /\ BeginRecord[2] = 1 /\ BeginRecord[5] = 0 /\ BeginRecord[6] = 8
      /\ BeginRecord[7] = 0
  BY DEF BeginRecord
<1>2. ASSUME NEW data \in Seq(Nat), Holds(data, 0, BeginRecord)
      PROVE  /\ IsRecord(data, FALSE, 0) /\ ~IsRecord(data, TRUE, 0)
             /\ HeaderAt(data, 0).type = 1
             /\ HeaderAt(data, 0).end + HeaderAt(data, 0).padding = 16
  <2> DEFINE h == HeaderAt(data, 0)
  <2>1. /\ data[0 + 1] = 0 /\ data[0 + 2] = 1 /\ data[0 + 5] = 0 /\ data[0 + 6] = 8
        /\ data[0 + 7] = 0 /\ 0 + 16 <= Len(data) /\ Len(data) \in Nat
    BY <1>1, <1>2 DEF Holds
  <2>2. 0 * Base = 0
    BY BaseAssumption
  <2>3. h.version = 0 /\ h.type = 1 /\ h.end = 16 /\ h.padding = 0
    BY <2>1, <2>2 DEF HeaderAt
  <2> HIDE DEF h
  <2>4. 0 + 8 <= Len(data) /\ h.end + h.padding = 16 /\ 16 <= Len(data) /\ h.version # 1
    BY <2>1, <2>3
  <2>5. IsRecord(data, FALSE, 0) /\ ~IsRecord(data, TRUE, 0)
    BY <2>4 DEF IsRecord, h
  <2> QED
    BY <2>3, <2>4, <2>5 DEF h
<1> QED
  BY <1>1, <1>2

-----------------------------------------------------------------------------
\* A length below Base * Base is found as it was written, in either form.
LEMMA LengthHeld ==
    ASSUME NEW text \in Seq(Nat), Len(text) < Base * Base
    PROVE  /\ LengthOf(text) \in Seq(Nat) /\ Len(LengthOf(text)) \in Nat \ {0}
           /\ \A data \in Seq(Nat), p \in Nat : Holds(data, p, LengthOf(text)) =>
                 /\ HasLength(data, p)
                 /\ SizeAt(data, p) = Len(LengthOf(text))
                 /\ LengthAt(data, p) = Len(text)
<1> DEFINE n    == Len(text)
           half == Base \div 2
           b2   == Base * Base
           b3   == Base * Base * Base
           hi   == Low(n \div Base)
           lo   == Low(n)
           L    == LengthOf(text)
<1>1. n \in Nat /\ half \in Nat /\ half < Base /\ Base \in Nat /\ Base > 0
  BY BaseAssumption
<1>2. hi \in Nat /\ lo \in Nat /\ hi * Base + lo = n
  BY <1>1, TwoBytes
<1>3. b2 \in Nat /\ b3 \in Nat /\ b2 > 0 /\ b3 > 0 /\ n < b2 /\ n < b3
  <2>1. b2 \in Nat /\ b2 >= Base
    BY <1>1
  <2>2. b3 = b2 * Base
    OBVIOUS
  <2> HIDE DEF b2, b3
  <2>3. b2 * Base >= b2 /\ b2 * Base \in Nat
    BY <1>1, <2>1
  <2>4. n < b2
    BY DEF b2
  <2> QED
    BY <1>1, <2>1, <2>2, <2>3, <2>4
<1>4. Low(n \div b3) = 0 /\ Low(n \div b2) = 0
  <2> HIDE DEF b2, b3, n
  <2>1. n \div b3 = 0 /\ n \div b2 = 0
    BY <1>1, <1>3
  <2>2. Low(0) = 0
    BY <1>1 DEF Low
  <2> QED
    BY <2>1, <2>2
<1>5. L = IF n < half THEN <<n>> ELSE <<half + Low(n \div b3), Low(n \div b2), hi, lo>>
  BY DEF LengthOf
<1> HIDE DEF n, half, b2, b3, hi, lo, L
<1>6. L = IF n < half THEN <<n>> ELSE <<half, 0, hi, lo>>
  <2>1. half + Low(n \div b3) = half
    BY <1>1, <1>4
  <2> QED
    BY <1>4, <1>5, <2>1
<1>7. CASE n < half
  <2>1. L \in Seq(Nat) /\ Len(L) = 1 /\ L[1] = n
    BY <1>1, <1>6, <1>7
  <2>2. ASSUME NEW data \in Seq(Nat), NEW p \in Nat, Holds(data, p, L)
        PROVE  HasLength(data, p) /\ SizeAt(data, p) = Len(L) /\ LengthAt(data, p) = n
    <3>1. data[p + 1] = n /\ p + 1 <= Len(data) /\ Len(data) \in Nat
      BY <2>1, <2>2 DEF Holds
    <3>2. SizeAt(data, p) = 1 /\ LengthAt(data, p) = n
      BY <1>7, <3>1 DEF SizeAt, LengthAt, half
    <3> QED
      BY <2>1, <3>1, <3>2 DEF HasLength
  <2> QED
    BY <2>1, <2>2 DEF n, L
<1>8. CASE ~(n < half)
  <2>1. L \in Seq(Nat) /\ Len(L) = 4 /\ L[1] = half /\ L[2] = 0 /\ L[3] = hi /\ L[4] = lo
    <3>1. L = <<half, 0, hi, lo>>
      BY <1>6, <1>8
    <3> QED
      BY <1>1, <1>2, <3>1
  <2>2. ASSUME NEW data \in Seq(Nat), NEW p \in Nat, Holds(data, p, L)
        PROVE  HasLength(data, p) /\ SizeAt(data, p) = Len(L) /\ LengthAt(data, p) = n
    <3>1. /\ data[p + 1] = half /\ data[p + 2] = 0 /\ data[p + 3] = hi /\ data[p + 4] = lo
          /\ p + 4 <= Len(data) /\ Len(data) \in Nat
      BY <2>1, <2>2 DEF Holds
    <3>2. ~(data[p + 1] < half)
      BY <1>1, <3>1
    <3>3. SizeAt(data, p) = 4
      BY <3>2 DEF SizeAt, half
    <3>4. LengthAt(data, p) = (half - half) * b3 + 0 * b2 + hi * Base + lo
      BY <3>1, <3>2 DEF LengthAt, half, b2, b3
    <3>5. (half - half) * b3 = 0 /\ 0 * b2 = 0
      BY <1>1, <1>3
    <3>6. LengthAt(data, p) = n
      <4> DEFINE high == hi * Base
      <4>1. high \in Nat /\ high + lo = n
        BY <1>1, <1>2, Products
      <4>2. LengthAt(data, p) = 0 + 0 + high + lo
        BY <3>4, <3>5
      <4> HIDE DEF high
      <4> QED
        BY <1>2, <4>1, <4>2
    <3> QED
      BY <2>1, <3>1, <3>3, <3>6 DEF HasLength
  <2> QED
    BY <2>1, <2>2 DEF n, L
<1> QED
  BY <1>7, <1>8

Texts == {text \in Seq(Nat) : Len(text) < Base * Base}

\* A pair is found as it was written.
LEMMA PairHeld ==
    ASSUME NEW p, p.name \in Texts, p.value \in Texts
    PROVE  /\ Pair(p) \in Seq(Nat) /\ Len(Pair(p)) \in Nat \ {0}
           /\ \A data \in Seq(Nat), q \in Nat : Holds(data, q, Pair(p)) =>
                 /\ IsPair(data, q)
                 /\ PairAt(data, q).end = q + Len(Pair(p))
                 /\ SubSeq(data, PairAt(data, q).start + 1, PairAt(data, q).middle) = p.name
                 /\ SubSeq(data, PairAt(data, q).middle + 1, PairAt(data, q).end) = p.value
<1> DEFINE a == LengthOf(p.name)
           b == LengthOf(p.value)
           c == p.name
           d == p.value
           s == Pair(p)
<1>1. c \in Seq(Nat) /\ Len(c) < Base * Base /\ d \in Seq(Nat) /\ Len(d) < Base * Base
  BY DEF Texts
<1>2. s = a \o b \o c \o d
  BY DEF Pair
<1> DEFINE Reads(t, size) ==
      \A data \in Seq(Nat), q \in Nat : Holds(data, q, size) =>
         HasLength(data, q) /\ SizeAt(data, q) = Len(size) /\ LengthAt(data, q) = Len(t)
<1>3. a \in Seq(Nat) /\ Len(a) \in Nat \ {0} /\ b \in Seq(Nat) /\ Len(b) \in Nat \ {0}
  BY <1>1, LengthHeld
<1>4. Reads(c, a) /\ Reads(d, b)
  <2>1. Reads(c, a)
    BY <1>1, LengthHeld, Zenon
  <2>2. Reads(d, b)
    BY <1>1, LengthHeld, Zenon
  <2> QED
    BY <2>1, <2>2
<1> HIDE DEF a, b, c, d, s
<1>5. a \o b \in Seq(Nat) /\ Len(a \o b) = Len(a) + Len(b)
  BY <1>3, Concat
<1>6. a \o b \o c \in Seq(Nat) /\ Len(a \o b \o c) = Len(a) + Len(b) + Len(c)
  BY <1>1, <1>3, <1>5, Concat
<1>7. s \in Seq(Nat) /\ Len(s) = Len(a) + Len(b) + Len(c) + Len(d)
  <2> DEFINE front == a \o b \o c
  <2>1. front \in Seq(Nat) /\ Len(front) = Len(a) + Len(b) + Len(c) /\ s = front \o d
    BY <1>2, <1>6
  <2> HIDE DEF front
  <2> QED
    BY <1>1, <2>1, Concat
<1>8. /\ Holds(s, 0, a) /\ Holds(s, Len(a), b) /\ Holds(s, Len(a) + Len(b), c)
      /\ Holds(s, Len(a) + Len(b) + Len(c), d)
  <2> DEFINE two   == a \o b
             three == two \o c
  <2>1. two \in Seq(Nat) /\ three \in Seq(Nat) /\ s = three \o d
    BY <1>2, <1>5, <1>6
  <2>2. Len(two) = Len(a) + Len(b) /\ Len(three) = Len(a) + Len(b) + Len(c)
    BY <1>5, <1>6
  <2>3. Holds(two, 0, a) /\ Holds(two, Len(a), b)
    BY <1>3, HoldsSelf, HoldsLeft, HoldsRight
  <2> HIDE DEF two
  <2>4. Holds(three, 0, a) /\ Holds(three, Len(a), b) /\ Holds(three, Len(a) + Len(b), c)
    <3>1. Holds(three, 0, a) /\ Holds(three, Len(a), b)
      BY <1>1, <1>3, <2>1, <2>3, HoldsLeft
    <3>2. Holds(three, Len(two), c)
      BY <1>1, <2>1, HoldsRight
    <3> QED
      BY <2>2, <3>1, <3>2
  <2> HIDE DEF three
  <2>5. Holds(three \o d, 0, a) /\ Holds(three \o d, Len(a), b) /\ Holds(three \o d, Len(a) + Len(b), c)
    BY <1>1, <1>3, <2>1, <2>4, HoldsLeft
  <2>6. Holds(three \o d, Len(three), d)
    BY <1>1, <2>1, HoldsRight
  <2> QED
    BY <2>1, <2>2, <2>5, <2>6
<1>9. Len(a) \in Nat \ {0} /\ Len(b) \in Nat \ {0} /\ Len(c) \in Nat /\ Len(d) \in Nat
  BY <1>1, <1>3
<1>10. ASSUME NEW data \in Seq(Nat), NEW q \in Nat, Holds(data, q, s)
       PROVE  /\ IsPair(data, q) /\ PairAt(data, q).end = q + Len(s)
              /\ SubSeq(data, PairAt(data, q).start + 1, PairAt(data, q).middle) = c
              /\ SubSeq(data, PairAt(data, q).middle + 1, PairAt(data, q).end) = d
  <2> DEFINE h == PairAt(data, q)
             x == q + Len(a)
             y == q + (Len(a) + Len(b))
             z == q + (Len(a) + Len(b) + Len(c))
  <2>1. Holds(data, q + 0, a) /\ Holds(data, x, b) /\ Holds(data, y, c) /\ Holds(data, z, d)
    BY <1>1, <1>3, <1>7, <1>8, <1>10, HoldsPart
  <2>2. x \in Nat /\ y \in Nat /\ z \in Nat /\ q + 0 = q
    BY <1>9
  <2>3. HasLength(data, q) /\ SizeAt(data, q) = Len(a) /\ LengthAt(data, q) = Len(c)
    BY <1>4, <2>1, <2>2
  <2>4. HasLength(data, x) /\ SizeAt(data, x) = Len(b) /\ LengthAt(data, x) = Len(d)
    BY <1>4, <2>1, <2>2
  <2>5. /\ h.start = q + Len(a) + Len(b) /\ h.middle = q + Len(a) + Len(b) + Len(c)
        /\ h.end = q + Len(a) + Len(b) + Len(c) + Len(d)
    BY <2>3, <2>4 DEF PairAt
  <2> HIDE DEF h
  <2>6. h.start = y /\ h.middle = z /\ h.end = z + Len(d) /\ h.middle = y + Len(c) /\ h.end = q + Len(s)
    BY <1>7, <1>9, <2>5
  <2>7. h.end <= Len(data)
    BY <1>10, <2>6 DEF Holds
  <2>8. IsPair(data, q)
    BY <2>3, <2>4, <2>7 DEF IsPair, h
  <2> HIDE DEF x, y, z
  <2>9. SubSeq(data, y + 1, y + Len(c)) = c /\ SubSeq(data, z + 1, z + Len(d)) = d
    BY <1>1, <2>1, <2>2, HeldIs
  <2> QED
    BY <2>6, <2>8, <2>9 DEF h
<1>11. Len(s) \in Nat \ {0}
  BY <1>7, <1>9
<1> QED
  BY <1>7, <1>10, <1>11 DEF c, d, s

-----------------------------------------------------------------------------
\* A whole length takes one byte or four and is a number.
LEMMA LengthInData ==
    ASSUME NEW data \in Seq(Nat), NEW p \in Nat, HasLength(data, p)
    PROVE  SizeAt(data, p) \in {1, 4} /\ LengthAt(data, p) \in Nat
<1>1. Len(data) \in Nat /\ p < Len(data) /\ p + SizeAt(data, p) <= Len(data)
  BY DEF HasLength
<1>2. \A k \in 1 .. Len(data) : data[k] \in Nat
  OBVIOUS
<1>3. data[p + 1] \in Nat
  BY <1>1, <1>2
<1>4. Base \in Nat /\ Base \div 2 \in Nat
  BY BaseAssumption
<1>5. CASE data[p + 1] < Base \div 2
  BY <1>3, <1>5 DEF SizeAt, LengthAt
<1>6. CASE ~(data[p + 1] < Base \div 2)
  <2>1. SizeAt(data, p) = 4 /\ p + 4 <= Len(data)
    BY <1>1, <1>6 DEF SizeAt
  <2>2. data[p + 2] \in Nat /\ data[p + 3] \in Nat /\ data[p + 4] \in Nat
    BY <1>1, <1>2, <2>1
  <2> DEFINE b2 == Base * Base
             b3 == Base * Base * Base
             t  == data[p + 1] - (Base \div 2)
  <2>3. b2 \in Nat /\ t \in Nat
    BY <1>3, <1>4, <1>6, Products
  <2>4. b3 \in Nat
    BY <1>4, <2>3, Products
  <2> HIDE DEF b2, b3, t
  <2>5. t * b3 \in Nat /\ data[p + 2] * b2 \in Nat /\ data[p + 3] * Base \in Nat
    BY <1>4, <2>2, <2>3, <2>4, Products
  <2>6. LengthAt(data, p) = t * b3 + data[p + 2] * b2 + data[p + 3] * Base + data[p + 4]
    BY <1>6 DEF LengthAt, t, b2, b3
  <2> DEFINE u == t * b3
             v == data[p + 2] * b2
             w == data[p + 3] * Base
             x == data[p + 4]
  <2>7. /\ u \in Nat /\ v \in Nat /\ w \in Nat /\ x \in Nat
        /\ LengthAt(data, p) = u + v + w + x
    BY <2>2, <2>5, <2>6
  <2> HIDE DEF u, v, w, x
  <2>8. u + v + w + x \in Nat
    BY <2>7
  <2> QED
    BY <2>1, <2>7, <2>8
<1> QED
  BY <1>5, <1>6

Named == [name : Seq(Nat), value : Seq(Nat)]

NamedAt(data, p) ==
    [name  |-> SubSeq(data, PairAt(data, p).start + 1, PairAt(data, p).middle),
     value |-> SubSeq(data, PairAt(data, p).middle + 1, PairAt(data, p).end)]

\* A whole pair lies within data, and the next comes after it.
LEMMA PairInData ==
    ASSUME NEW data \in Seq(Nat), NEW p \in Nat, IsPair(data, p)
    PROVE  /\ NamedAt(data, p) \in Named
           /\ PairAt(data, p).end \in Nat /\ PairAt(data, p).end > p /\ p < Len(data)
<1> DEFINE h == PairAt(data, p)
           x == p + SizeAt(data, p)
           a == SizeAt(data, p)
           b == SizeAt(data, x)
           c == LengthAt(data, p)
           d == LengthAt(data, x)
<1>1. a \in {1, 4} /\ c \in Nat
  BY LengthInData DEF IsPair
<1>2. x \in Nat
  BY <1>1
<1>3. b \in {1, 4} /\ d \in Nat
  BY <1>2, LengthInData DEF IsPair
<1>4. h.end <= Len(data) /\ p < Len(data)
  BY DEF IsPair, HasLength
<1>5. h.start = x + b /\ h.middle = h.start + c /\ h.end = h.middle + d
  BY DEF PairAt
<1>6. x = p + a
  OBVIOUS
<1> HIDE DEF h, a, b, c, d, x
<1>7. /\ h.start \in Nat /\ h.middle \in Nat /\ h.end \in Nat
      /\ h.start <= h.middle /\ h.middle <= h.end /\ h.end > p
  BY <1>1, <1>2, <1>3, <1>5, <1>6
<1> DEFINE i == h.start + 1
           j == h.middle
           k == h.middle + 1
           l == h.end
<1>8. i \in Nat /\ j \in Nat /\ k \in Nat /\ l \in Nat /\ i >= 1 /\ k >= 1 /\ j <= Len(data) /\ l <= Len(data)
  BY <1>4, <1>7
<1> HIDE DEF i, j, k, l
<1>9. SubSeq(data, i, j) \in Seq(Nat) /\ SubSeq(data, k, l) \in Seq(Nat)
  BY <1>8
<1>10. NamedAt(data, p) \in Named
  BY <1>9 DEF NamedAt, Named, i, j, k, l, h
<1> QED
  BY <1>4, <1>7, <1>10 DEF h

\* How parameters are read, pair by pair.
ReadsPairs(data, f) ==
    /\ PairsIn(data) = f[0]
    /\ \A p \in Nat : ~IsPair(data, p) => f[p] = <<>>
    /\ \A p \in Nat : IsPair(data, p) => f[p] = <<NamedAt(data, p)>> \o f[PairAt(data, p).end]

\* The recursion of PairsIn defines the pairs.
LEMMA PairsAreRead ==
    ASSUME NEW data \in Seq(Nat)
    PROVE  \E f : ReadsPairs(data, f)
<1> DEFINE R(p)  == IsPair(data, p)
           C(p)  == NamedAt(data, p)
           N(p)  == PairAt(data, p).end
           V     == Seq(Named)
           F     == CHOOSE f : f = [p \in Nat |-> IF ~R(p) THEN <<>> ELSE <<C(p)>> \o f[N(p)]]
           m     == Len(data)
           whole == {p \in 0 .. (m - 1) : R(p)}
           next  == [p \in whole |-> N(p)]
           step  == [x \in whole \X V |-> <<C(x[1])>> \o x[2]]
<1>1. PairsIn(data) = F[0]
  BY DEF PairsIn, NamedAt
<1>2. ASSUME NEW p \in Nat, R(p)
      PROVE  C(p) \in Named /\ N(p) \in Nat /\ N(p) > p /\ p < m
  BY <1>2, PairInData
<1>3. m \in Nat /\ <<>> \in V /\ \A x \in Named, q \in V : <<x>> \o q \in V
  OBVIOUS
<1> HIDE DEF R, C, N, V, m
<1>4. \A p \in Nat : p \in whole <=> R(p)
  BY <1>2, <1>3
<1>5. Scans(m, whole, V, <<>>, next, step)
  <2>1. whole \in SUBSET (0 .. (m - 1)) /\ \A p \in whole : p \in Nat /\ R(p)
    BY <1>3
  <2>2. next \in [whole -> Nat] /\ \A p \in whole : next[p] > p
    BY <1>2, <2>1
  <2>3. step \in [whole \X V -> V]
    BY <1>2, <1>3, <2>1
  <2> HIDE DEF whole, next, step
  <2> QED
    BY <1>3, <2>1, <2>2, <2>3 DEF Scans
<1>6. ASSUME NEW p \in whole, NEW rest \in V
      PROVE  next[p] = N(p) /\ step[<<p, rest>>] = <<C(p)>> \o rest /\ N(p) \in Nat
  BY <1>2, <1>3
<1> HIDE DEF whole, next, step
<1>7. PICK f : Scanned(whole, V, <<>>, next, step, f)
  BY <1>5, Scan
<1>8. f \in [Nat -> V]
  BY <1>7 DEF Scanned
<1>9. ASSUME NEW p \in Nat
      PROVE  f[p] = IF ~R(p) THEN <<>> ELSE <<C(p)>> \o f[N(p)]
  <2>1. f[p] = IF p \in whole THEN step[<<p, f[next[p]]>>] ELSE <<>>
    BY <1>7 DEF Scanned
  <2>2. p \in whole => next[p] = N(p) /\ f[next[p]] \in V
    BY <1>3, <1>6, <1>8
  <2> QED
    BY <1>4, <1>6, <2>1, <2>2, Zenon
<1>10. f = [p \in Nat |-> IF ~R(p) THEN <<>> ELSE <<C(p)>> \o f[N(p)]]
  BY <1>8, <1>9
<1>11. F = [p \in Nat |-> IF ~R(p) THEN <<>> ELSE <<C(p)>> \o F[N(p)]]
  BY <1>10, Zenon
<1> HIDE DEF F
<1>12. ASSUME NEW p \in Nat
       PROVE  F[p] = IF ~R(p) THEN <<>> ELSE <<C(p)>> \o F[N(p)]
  BY <1>11
<1>13. ReadsPairs(data, F)
  BY <1>1, <1>12 DEF ReadsPairs, R, C, N
<1> QED
  BY <1>13

\* The concatenation of a list of texts, text by text.
Flattens(seqs, f) ==
    /\ f \in [1 .. Len(seqs) -> Seq(Nat)]
    /\ f[1] = seqs[1]
    /\ \A i \in 2 .. Len(seqs) : f[i] = f[i - 1] \o seqs[i]
    /\ FlattenSeq(seqs) = f[Len(seqs)]

\* The recursion that joins the pairs of a request defines what is sent.
LEMMA FlatIsDefined ==
    ASSUME NEW seqs \in Seq(Seq(Nat)), Len(seqs) # 0
    PROVE  \E f : Flattens(seqs, f)
<1> DEFINE n    == Len(seqs)
           V    == Seq(Nat)
           F    == CHOOSE f : f = [i \in 1 .. n |-> IF i = 1 THEN seqs[i] ELSE f[i - 1] \o seqs[i]]
           rank == [i \in 1 .. n |-> i - 1]
           next == [i \in 1 .. n |-> IF i = 1 THEN 1 ELSE i - 1]
           base == [i \in 1 .. n |-> seqs[i]]
           step == [x \in (1 .. n) \X V |-> x[2] \o seqs[x[1]]]
<1>1. FlattenSeq(seqs) = F[n]
  BY DEF FlattenSeq
<1>2. n \in Nat /\ n > 0 /\ \A i \in 1 .. n : seqs[i] \in V
  OBVIOUS
<1>3. \A s, t \in V : s \o t \in V
  OBVIOUS
<1> HIDE DEF n, V
<1>4. Descents(1 .. n, V, n, rank, next, base, step)
  <2>1. rank \in [1 .. n -> 0 .. n] /\ next \in [1 .. n -> 1 .. n] /\ base \in [1 .. n -> V]
    BY <1>2
  <2>2. step \in [(1 .. n) \X V -> V]
    BY <1>2, <1>3
  <2>3. \A i \in 1 .. n : rank[i] # 0 => rank[next[i]] < rank[i]
    BY <1>2
  <2> HIDE DEF rank, next, base, step
  <2> QED
    BY <2>1, <2>2, <2>3 DEF Descents
<1>5. ASSUME NEW i \in 1 .. n, NEW s \in V
      PROVE  /\ base[i] = seqs[i] /\ step[<<i, s>>] = s \o seqs[i]
             /\ rank[i] = 0 <=> i = 1
             /\ i # 1 => next[i] = i - 1 /\ i - 1 \in 1 .. n
  <2>1. base[i] = seqs[i] /\ step[<<i, s>>] = s \o seqs[i]
    OBVIOUS
  <2>2. (rank[i] = 0 <=> i = 1) /\ (i # 1 => next[i] = i - 1 /\ i - 1 \in 1 .. n)
    BY <1>2
  <2> QED
    BY <2>1, <2>2
<1> HIDE DEF rank, next, base, step
<1>6. PICK f : Follows(1 .. n, V, rank, next, base, step, f)
  BY <1>2, <1>4, Descent
<1>7. f \in [1 .. n -> V]
  BY <1>6 DEF Follows
<1>8. ASSUME NEW i \in 1 .. n
      PROVE  f[i] = IF i = 1 THEN seqs[i] ELSE f[i - 1] \o seqs[i]
  <2>1. f[i] = IF rank[i] = 0 THEN base[i] ELSE step[<<i, f[next[i]]>>]
    BY <1>6 DEF Follows
  <2>2. f[i] \in V /\ (i # 1 => f[i - 1] \in V)
    BY <1>5, <1>7
  <2> QED
    BY <1>5, <2>1, <2>2
<1>9. f = [i \in 1 .. n |-> IF i = 1 THEN seqs[i] ELSE f[i - 1] \o seqs[i]]
  BY <1>7, <1>8
<1>10. F = [i \in 1 .. n |-> IF i = 1 THEN seqs[i] ELSE F[i - 1] \o seqs[i]]
  BY <1>9, Zenon
<1>11. ASSUME NEW i \in 1 .. n
       PROVE  F[i] = IF i = 1 THEN seqs[i] ELSE F[i - 1] \o seqs[i]
  <2> HIDE DEF F
  <2> QED
    BY <1>10
<1>12. DOMAIN F = 1 .. n
  <2> HIDE DEF F
  <2> QED
    BY <1>10
<1> HIDE DEF F
<1> DEFINE T == {i \in 0 .. n : i = 0 \/ F[i] \in V}
<1>13. 0 .. n \subseteq T
  <2>1. 0 \in T
    BY <1>2
  <2>2. ASSUME NEW i \in 0 .. (n - 1), i \in T PROVE i + 1 \in T
    <3>1. i + 1 \in 1 .. n /\ i + 1 - 1 = i /\ i + 1 \in 0 .. n
      BY <1>2
    <3>2. F[i + 1] = IF i + 1 = 1 THEN seqs[i + 1] ELSE F[i] \o seqs[i + 1]
      BY <1>11, <3>1
    <3>3. F[i + 1] \in V
      BY <1>2, <1>3, <2>2, <3>1, <3>2
    <3> QED
      BY <3>1, <3>3
  <2> HIDE DEF T
  <2> QED
    BY <1>2, <2>1, <2>2, UpTo
<1>14. F \in [1 .. n -> V]
  <2>1. \A i \in 1 .. n : F[i] \in V
    BY <1>2, <1>13
  <2> QED
    BY <1>10, <2>1
<1>15. F[1] = seqs[1] /\ \A i \in 2 .. n : F[i] = F[i - 1] \o seqs[i]
  <2>1. 1 \in 1 .. n /\ \A i \in 2 .. n : i \in 1 .. n /\ i # 1
    BY <1>2
  <2> QED
    BY <1>11, <2>1
<1>16. Flattens(seqs, F)
  BY <1>1, <1>14, <1>15 DEF Flattens, n, V
<1> QED
  BY <1>16

\* Any list of parameters is read back as it was built: names and values of
\* any length below Base * Base, in either form.
THEOREM ParamsReadBack ==
    ASSUME NEW params \in Seq([name : Texts, value : Texts]), params # <<>>
    PROVE  /\ BuildParams(params) \in Seq(Nat) /\ BuildParams(params) # <<>>
           /\ PairsIn(BuildParams(params)) = params
<1> DEFINE n    == Len(params)
           seqs == [i \in DOMAIN params |-> Pair(params[i])]
           data == BuildParams(params)
           P(i) == Pair(params[i])
<1>1. n \in Nat /\ n > 0 /\ \A i \in 1 .. n : params[i] \in [name : Texts, value : Texts]
  <2> DEFINE U == [name : Texts, value : Texts]
  <2>1. params \in Seq(U)
    OBVIOUS
  <2> HIDE DEF U
  <2>2. n \in Nat /\ (n = 0 => params = <<>>) /\ \A i \in 1 .. n : params[i] \in U
    BY <2>1
  <2> QED
    BY <2>2 DEF U
<1>2. ASSUME NEW i \in 1 .. n
      PROVE  /\ params[i].name \in Texts /\ params[i].value \in Texts
             /\ params[i] = [name |-> params[i].name, value |-> params[i].value]
  BY <1>1
<1>3. ASSUME NEW i \in 1 .. n PROVE P(i) \in Seq(Nat) /\ Len(P(i)) \in Nat \ {0}
  BY <1>2, PairHeld
<1>4. seqs \in Seq(Seq(Nat)) /\ Len(seqs) = n /\ \A i \in 1 .. n : seqs[i] = P(i)
  <2>1. DOMAIN params = 1 .. n
    OBVIOUS
  <2> HIDE DEF n, P
  <2>2. seqs = [i \in 1 .. n |-> P(i)]
    BY <2>1 DEF P
  <2> HIDE DEF seqs
  <2>3. seqs \in [1 .. n -> Seq(Nat)]
    BY <1>3, <2>2
  <2> QED
    BY <1>1, <2>2, <2>3
<1>5. data = FlattenSeq(seqs)
  BY DEF BuildParams
<1> HIDE DEF n, seqs, data, P
<1>6. PICK F : Flattens(seqs, F)
  <2>1. seqs \in Seq(Seq(Nat)) /\ Len(seqs) # 0
    BY <1>1, <1>4
  <2> QED
    BY <2>1, FlatIsDefined
<1>7. /\ F \in [1 .. n -> Seq(Nat)] /\ F[1] = P(1) /\ data = F[n]
      /\ \A i \in 2 .. n : F[i] = F[i - 1] \o P(i)
  <2>1. /\ F \in [1 .. n -> Seq(Nat)] /\ F[1] = seqs[1] /\ data = F[n]
        /\ \A i \in 2 .. n : F[i] = F[i - 1] \o seqs[i]
    BY <1>4, <1>5, <1>6 DEF Flattens
  <2>2. 1 \in 1 .. n /\ \A i \in 2 .. n : i \in 1 .. n
    BY <1>1
  <2> QED
    BY <1>4, <2>1, <2>2
<1> DEFINE End(i) == IF i = 0 THEN 0 ELSE Len(F[i])
           T      == {j \in 0 .. n : \A i \in 1 .. j : Holds(F[j], End(i - 1), P(i))}
<1>8. \A i \in 0 .. n : End(i) \in Nat
  BY <1>7
<1>9. ASSUME NEW i \in 1 .. n
      PROVE  End(i) = End(i - 1) + Len(P(i)) /\ i - 1 \in 0 .. n
  <2>1. CASE i = 1
    BY <1>1, <1>3, <1>7, <2>1
  <2>2. CASE i # 1
    <3>1. i \in 2 .. n /\ i - 1 \in 1 .. n /\ i - 1 # 0 /\ i # 0
      BY <1>1, <2>2
    <3>2. F[i] = F[i - 1] \o P(i) /\ F[i - 1] \in Seq(Nat) /\ P(i) \in Seq(Nat)
      BY <1>3, <1>7, <3>1
    <3>3. Len(F[i]) = Len(F[i - 1]) + Len(P(i))
      BY <3>2, Concat
    <3> QED
      BY <1>1, <3>1, <3>3
  <2> QED
    BY <2>1, <2>2
<1>10. 0 .. n \subseteq T
  <2>1. 0 \in T
    BY <1>1
  <2>2. ASSUME NEW j \in 0 .. (n - 1), j \in T PROVE j + 1 \in T
    <3>1. j + 1 \in 1 .. n /\ j + 1 \in 0 .. n /\ j + 1 - 1 = j
      BY <1>1
    <3>2. P(j + 1) \in Seq(Nat) /\ F[j + 1] \in Seq(Nat)
      BY <1>3, <1>7, <3>1
    <3>3. ASSUME NEW i \in 1 .. (j + 1) PROVE Holds(F[j + 1], End(i - 1), P(i))
      <4>1. CASE j = 0
        <5>1. i = 1 /\ i - 1 = 0 /\ j + 1 = 1
          BY <4>1
        <5>2. End(i - 1) = 0 /\ F[j + 1] = P(i) /\ P(i) \in Seq(Nat)
          BY <1>7, <3>2, <5>1
        <5> QED
          BY <5>2, HoldsSelf
      <4>2. CASE j # 0 /\ i = j + 1
        <5>1. /\ j + 1 \in 2 .. n /\ j \in 1 .. n /\ End(j) = Len(F[j]) /\ i - 1 = j
          BY <1>1, <3>1, <4>2
        <5>2. F[j + 1] = F[j + 1 - 1] \o P(j + 1) /\ F[j] \in Seq(Nat)
          BY <1>7, <5>1, SMTT(20)
        <5>3. Holds(F[j] \o P(j + 1), Len(F[j]), P(j + 1))
          BY <3>2, <5>2, HoldsRight
        <5> HIDE DEF End
        <5> QED
          BY <3>1, <4>2, <5>1, <5>2, <5>3
      <4>3. CASE j # 0 /\ i # j + 1
        <5>1. /\ j + 1 \in 2 .. n /\ j \in 1 .. n /\ i \in 1 .. j /\ i \in 1 .. n
          BY <1>1, <3>1, <4>3
        <5>2. F[j + 1] = F[j + 1 - 1] \o P(j + 1) /\ F[j] \in Seq(Nat)
          BY <1>7, <5>1, SMTT(20)
        <5>5. P(i) \in Seq(Nat)
          BY <1>3, <5>1
        <5> HIDE DEF End
        <5>3. Holds(F[j], End(i - 1), P(i))
          BY <2>2, <5>1
        <5>4. Holds(F[j] \o P(j + 1), End(i - 1), P(i))
          BY <3>2, <5>2, <5>3, <5>5, HoldsLeft
        <5> QED
          BY <3>1, <5>2, <5>4
      <4> QED
        BY <4>1, <4>2, <4>3
    <3> QED
      BY <3>1, <3>3
  <2> HIDE DEF T
  <2> QED
    BY <1>1, <2>1, <2>2, UpTo
<1>11. \A i \in 1 .. n : Holds(data, End(i - 1), P(i))
  <2>1. n \in 0 .. n
    BY <1>1
  <2>2. n \in T
    BY <1>10, <2>1
  <2> HIDE DEF End
  <2> QED
    BY <1>7, <2>2
<1>12. data \in Seq(Nat) /\ End(n) = Len(data) /\ End(0) = 0
  BY <1>1, <1>7
<1>13. data # <<>>
  <2>1. 1 \in 1 .. n
    BY <1>1
  <2>2. Holds(data, End(1 - 1), P(1)) /\ Len(P(1)) \in Nat \ {0} /\ 1 - 1 = 0
    BY <1>3, <1>11, <2>1
  <2>3. Len(data) # 0
    BY <2>2 DEF Holds
  <2> QED
    BY <2>3
<1>14. PICK f : ReadsPairs(data, f)
  BY <1>12, PairsAreRead
<1> HIDE DEF End
<1>15. ASSUME NEW i \in 1 .. n
       PROVE  f[End(i - 1)] = <<params[i]>> \o f[End(i)]
  <2> DEFINE p == End(i - 1)
  <2>0. \A d \in Seq(Nat), q \in Nat : Holds(d, q, P(i)) =>
           /\ IsPair(d, q)
           /\ PairAt(d, q).end = q + Len(P(i))
           /\ SubSeq(d, PairAt(d, q).start + 1, PairAt(d, q).middle) = params[i].name
           /\ SubSeq(d, PairAt(d, q).middle + 1, PairAt(d, q).end) = params[i].value
    BY <1>2, PairHeld DEF P
  <2>1. p \in Nat /\ Holds(data, p, P(i))
    BY <1>8, <1>9, <1>11
  <2> HIDE DEF p
  <2>2. /\ IsPair(data, p) /\ PairAt(data, p).end = p + Len(P(i))
        /\ SubSeq(data, PairAt(data, p).start + 1, PairAt(data, p).middle) = params[i].name
        /\ SubSeq(data, PairAt(data, p).middle + 1, PairAt(data, p).end) = params[i].value
    BY <1>12, <2>0, <2>1
  <2>3. PairAt(data, p).end = End(i)
    BY <1>9, <2>2 DEF p
  <2>4. NamedAt(data, p) = params[i]
    BY <1>2, <2>2 DEF NamedAt
  <2>5. f[p] = <<NamedAt(data, p)>> \o f[PairAt(data, p).end]
    BY <1>14, <2>1, <2>2 DEF ReadsPairs
  <2> QED
    BY <2>3, <2>4, <2>5 DEF p
<1> DEFINE K == {k \in 0 .. n : f[End(n - k)] = SubSeq(params, n - k + 1, n)}
<1>16. 0 .. n \subseteq K
  <2>1. 0 \in K
    <3>1. ~IsPair(data, Len(data)) /\ Len(data) \in Nat
      BY <1>12 DEF IsPair, HasLength
    <3>2. f[Len(data)] = <<>>
      BY <1>14, <3>1 DEF ReadsPairs
    <3>3. n - 0 = n /\ n - 0 + 1 = n + 1 /\ 0 \in 0 .. n
      BY <1>1
    <3>4. SubSeq(params, n + 1, n) = <<>>
      BY <1>1
    <3>5. f[End(n - 0)] = SubSeq(params, n - 0 + 1, n)
      BY <1>12, <3>2, <3>3, <3>4
    <3> QED
      BY <3>3, <3>5
  <2>2. ASSUME NEW k \in 0 .. (n - 1), k \in K PROVE k + 1 \in K
    <3> DEFINE i == n - k
    <3>1. i \in 1 .. n /\ n - (k + 1) = i - 1 /\ n - (k + 1) + 1 = i /\ k + 1 \in 0 .. n
      BY <1>1
    <3>2. f[End(i)] = SubSeq(params, i + 1, n)
      BY <2>2
    <3>3. f[End(i - 1)] = <<params[i]>> \o SubSeq(params, i + 1, n)
      BY <1>15, <3>1, <3>2
    <3>4. <<params[i]>> \o SubSeq(params, i + 1, n) = SubSeq(params, i, n)
      <4> HIDE DEF i
      <4> QED
        BY <1>1, <3>1 DEF n
    <3> QED
      BY <3>1, <3>3, <3>4
  <2> HIDE DEF K
  <2> QED
    BY <1>1, <2>1, <2>2, UpTo
<1>17. f[0] = params
  <2>1. n \in 0 .. n /\ n - n = 0 /\ n - n + 1 = 1
    BY <1>1
  <2>2. f[End(n - n)] = SubSeq(params, n - n + 1, n)
    BY <1>16, <2>1
  <2>3. SubSeq(params, 1, n) = params
    BY DEF n
  <2> QED
    BY <1>12, <2>1, <2>2, <2>3
<1>18. PairsIn(data) = params
  BY <1>14, <1>17 DEF ReadsPairs
<1> QED
  BY <1>12, <1>13, <1>18 DEF data

-----------------------------------------------------------------------------
\* A text of a length has that length.
LEMMA TextType ==
    ASSUME NEW n \in Nat PROVE Text(n) \in Seq(Nat) /\ Len(Text(n)) = n
  BY DEF Text

\* The decimal form of a number is a text.
LEMMA DigitsType ==
    ASSUME NEW n \in Nat PROVE Digits(n) \in Seq(Nat)
<1> DEFINE D    == 0 .. n
           V    == Seq(Nat)
           F    == CHOOSE f : f = [k \in D |-> IF k < 10 THEN <<48 + k>>
                                               ELSE Append(f[k \div 10], 48 + (k % 10))]
           rank == [k \in D |-> IF k < 10 THEN 0 ELSE k]
           next == [k \in D |-> k \div 10]
           base == [k \in D |-> <<48 + k>>]
           step == [x \in D \X V |-> Append(x[2], 48 + (x[1] % 10))]
<1>1. Digits(n) = F[n]
  BY DEF Digits
<1>2. ASSUME NEW k \in D
      PROVE  /\ k \in Nat /\ k \div 10 \in D /\ 48 + (k % 10) \in Nat /\ 48 + k \in Nat
             /\ k >= 10 => k \div 10 < k
  OBVIOUS
<1>3. \A c \in Nat : <<c>> \in V /\ \A s \in V : Append(s, c) \in V
  OBVIOUS
<1>4. n \in D /\ 0 \in D /\ D = 0 .. n
  OBVIOUS
<1> HIDE DEF D, V
<1>5. Descents(D, V, n, rank, next, base, step)
  <2>1. rank \in [D -> 0 .. n] /\ next \in [D -> D]
    BY <1>2, <1>4
  <2>2. base \in [D -> V] /\ step \in [D \X V -> V]
    BY <1>2, <1>3
  <2>3. \A k \in D : rank[k] # 0 => rank[next[k]] < rank[k]
    BY <1>2
  <2> HIDE DEF rank, next, base, step
  <2> QED
    BY <2>1, <2>2, <2>3 DEF Descents
<1>6. ASSUME NEW k \in D, NEW s \in V
      PROVE  /\ base[k] = <<48 + k>> /\ step[<<k, s>>] = Append(s, 48 + (k % 10))
             /\ next[k] = k \div 10 /\ (rank[k] = 0 <=> k < 10)
  BY <1>2
<1> HIDE DEF rank, next, base, step
<1>7. PICK f : Follows(D, V, rank, next, base, step, f)
  BY <1>5, Descent
<1>8. f \in [D -> V]
  BY <1>7 DEF Follows
<1>9. ASSUME NEW k \in D
      PROVE  f[k] = IF k < 10 THEN <<48 + k>> ELSE Append(f[k \div 10], 48 + (k % 10))
  <2>1. f[k] = IF rank[k] = 0 THEN base[k] ELSE step[<<k, f[next[k]]>>]
    BY <1>7 DEF Follows
  <2>2. f[k] \in V /\ f[k \div 10] \in V
    BY <1>2, <1>8
  <2> QED
    BY <1>6, <2>1, <2>2
<1>10. f = [k \in D |-> IF k < 10 THEN <<48 + k>> ELSE Append(f[k \div 10], 48 + (k % 10))]
  BY <1>8, <1>9
<1>11. F = [k \in D |-> IF k < 10 THEN <<48 + k>> ELSE Append(F[k \div 10], 48 + (k % 10))]
  BY <1>10, Zenon
<1>12. ASSUME NEW k \in D
       PROVE  F[k] = IF k < 10 THEN <<48 + k>> ELSE Append(F[k \div 10], 48 + (k % 10))
  <2> HIDE DEF F
  <2> QED
    BY <1>11
<1> HIDE DEF F
<1>15. ASSUME NEW k \in D
       PROVE  (k < 10 => F[k] \in V) /\ (k >= 10 /\ F[k \div 10] \in V => F[k] \in V)
  <2> DEFINE c == 48 + k
             d == 48 + (k % 10)
             s == F[k \div 10]
  <2>1. c \in Nat /\ d \in Nat /\ k \in Nat
    BY <1>2
  <2>2. F[k] = IF k < 10 THEN <<c>> ELSE Append(s, d)
    BY <1>12
  <2> HIDE DEF c, d, s
  <2>3. <<c>> \in V /\ (s \in V => Append(s, d) \in V)
    BY <1>3, <2>1
  <2>4. k < 10 => F[k] \in V
    BY <2>2, <2>3
  <2>5. k >= 10 /\ s \in V => F[k] \in V
    BY <2>1, <2>2, <2>3
  <2> QED
    BY <2>4, <2>5 DEF s
<1> DEFINE T == {j \in 0 .. n : \A k \in 0 .. j : F[k] \in V}
<1>13. 0 .. n \subseteq T
  <2>1. 0 \in T
    <3>1. F[0] \in V
      BY <1>4, <1>15
    <3> QED
      BY <3>1
  <2>2. ASSUME NEW j \in 0 .. (n - 1), j \in T PROVE j + 1 \in T
    <3>1. j + 1 \in D /\ j \in Nat
      BY <1>4
    <3>2. j + 1 >= 10 => (j + 1) \div 10 \in 0 .. j
      BY <3>1
    <3> DEFINE i == j + 1
    <3>3. F[j + 1] \in V
      <4>1. i \in D /\ i \in Nat
        BY <3>1
      <4>2. i >= 10 => F[i \div 10] \in V
        BY <2>2, <3>2
      <4> HIDE DEF i
      <4>3. F[i] \in V
        BY <1>15, <4>1, <4>2
      <4> QED
        BY <4>3 DEF i
    <3>4. \A k \in 0 .. (j + 1) : k \in 0 .. j \/ k = j + 1
      BY <3>1
    <3> QED
      BY <1>4, <2>2, <3>1, <3>3, <3>4
  <2> HIDE DEF T
  <2> QED
    BY <2>1, <2>2, UpTo
<1>14. F[n] \in V
  BY <1>13, <1>4
<1> QED
  BY <1>1, <1>14 DEF V

\* A pair is not shorter than its parts, however long these are.
LEMMA PairLength ==
    ASSUME NEW p \in Named
    PROVE  /\ Pair(p) \in Seq(Nat) /\ Len(Pair(p)) \in Nat
           /\ Len(p.name) <= Len(Pair(p)) /\ Len(p.value) <= Len(Pair(p))
<1>1. p.name \in Seq(Nat) /\ p.value \in Seq(Nat)
  BY DEF Named
<1>2. ASSUME NEW text \in Seq(Nat) PROVE LengthOf(text) \in Seq(Nat)
  <2> DEFINE n == Len(text)
             h == Base \div 2
             a == Low(n \div (Base * Base * Base))
             b == Low(n \div (Base * Base))
             c == Low(n \div Base)
             d == Low(n)
  <2>1. n \in Nat /\ Base \in Nat /\ Base > 0 /\ h \in Nat
    BY BaseAssumption
  <2>2. Base * Base \in Nat /\ Base * Base > 0
    BY <2>1
  <2>3. Base * Base * Base \in Nat /\ Base * Base * Base > 0
    <3> DEFINE b2 == Base * Base
    <3>1. b2 \in Nat /\ b2 > 0
      BY <2>2
    <3> HIDE DEF b2
    <3>2. b2 * Base \in Nat /\ b2 * Base > 0
      BY <2>1, <3>1
    <3> QED
      BY <3>2 DEF b2
  <2>4. \A m \in Nat, k \in Nat \ {0} : Low(m \div k) \in Nat
    BY <2>1 DEF Low
  <2>5. d \in Nat
    BY <2>1 DEF Low
  <2>6. a \in Nat /\ b \in Nat /\ c \in Nat
    <3> DEFINE b2 == Base * Base
               b3 == Base * Base * Base
    <3>1. b2 \in Nat \ {0} /\ b3 \in Nat \ {0} /\ Base \in Nat \ {0}
      BY <2>1, <2>2, <2>3
    <3> HIDE DEF n, b2, b3
    <3>2. Low(n \div b3) \in Nat /\ Low(n \div b2) \in Nat /\ Low(n \div Base) \in Nat
      BY <2>1, <2>4, <3>1
    <3> QED
      BY <3>2 DEF b2, b3
  <2>7. LengthOf(text) = IF n < h THEN <<n>> ELSE <<h + a, b, c, d>>
    BY DEF LengthOf
  <2> HIDE DEF n, h, a, b, c, d
  <2> QED
    BY <2>1, <2>5, <2>6, <2>7
<1> DEFINE a == LengthOf(p.name)
           b == LengthOf(p.value)
           c == p.name
           d == p.value
<1>3. a \in Seq(Nat) /\ b \in Seq(Nat) /\ c \in Seq(Nat) /\ d \in Seq(Nat)
  BY <1>1, <1>2
<1>4. Pair(p) = a \o b \o c \o d
  BY DEF Pair
<1> DEFINE ab == a \o b
           abc == ab \o c
<1> HIDE DEF a, b, c, d
<1>5. ab \in Seq(Nat) /\ Len(ab) \in Nat
  BY <1>3, Concat
<1>6. abc \in Seq(Nat) /\ Len(abc) = Len(ab) + Len(c) /\ Len(c) \in Nat
  <2> HIDE DEF ab
  <2> QED
    BY <1>3, <1>5, Concat
<1>7. Pair(p) \in Seq(Nat) /\ Len(Pair(p)) = Len(abc) + Len(d) /\ Len(d) \in Nat
  <2>1. Pair(p) = abc \o d
    BY <1>4
  <2> HIDE DEF ab, abc
  <2>2. Len(abc \o d) = Len(abc) + Len(d) /\ abc \o d \in Seq(Nat) /\ Len(d) \in Nat
    BY <1>3, <1>6, Concat, Zenon
  <2> QED
    BY <2>1, <2>2
<1> HIDE DEF ab, abc
<1>8. Len(Pair(p)) \in Nat /\ Len(c) <= Len(Pair(p)) /\ Len(d) <= Len(Pair(p))
  BY <1>5, <1>6, <1>7
<1> QED
  BY <1>7, <1>8 DEF c, d

\* What is asked for are three pairs and a body.
LEMMA ParamsType ==
    ASSUME NEW ask \in Asks
    PROVE  ParamsOf(ask) \in Seq(Named) /\ Len(ParamsOf(ask)) = 3 /\ BodyOf(ask) \in Seq(Nat)
<1>1. ask.script \in Nat /\ (ask.body \in Nat \/ ask.body = NoBody)
  BY BackendBounds DEF Asks
<1> DEFINE a == Text(ask.script)
           b == IF ask.body = NoBody THEN <<>> ELSE <<60>>
           c == Digits(IF ask.body = NoBody THEN 0 ELSE ask.body)
<1>2. a \in Seq(Nat)
  BY <1>1, TextType
<1>3. b \in Seq(Nat)
  OBVIOUS
<1>4. c \in Seq(Nat)
  <2>1. (IF ask.body = NoBody THEN 0 ELSE ask.body) \in Nat
    BY <1>1
  <2> QED
    BY <2>1, DigitsType
<1>5. ParamsOf(ask) = <<[name |-> <<70>>, value |-> a], [name |-> <<71>>, value |-> b],
                        [name |-> <<72>>, value |-> c]>>
  BY DEF ParamsOf
<1> HIDE DEF a, b, c
<1> DEFINE x == [name |-> <<70>>, value |-> a]
           y == [name |-> <<71>>, value |-> b]
           z == [name |-> <<72>>, value |-> c]
<1>6. x \in Named /\ y \in Named /\ z \in Named
  BY <1>2, <1>3, <1>4 DEF Named
<1>7. ParamsOf(ask) = <<x, y, z>>
  BY <1>5
<1> HIDE DEF x, y, z
<1>8. BodyOf(ask) \in Seq(Nat)
  BY <1>1, TextType DEF BodyOf
<1> QED
  BY <1>6, <1>7, <1>8

\* When they fit a record together, each of three parameters fits.
LEMMA EachFits ==
    ASSUME NEW params \in Seq(Named), Len(params) = 3,
           Len(BuildParams(params)) < Base * Base
    PROVE  params \in Seq([name : Texts, value : Texts]) /\ params # <<>>
<1>1. params \in [1 .. 3 -> Named]
  <2>1. params \in [1 .. Len(params) -> Named]
    BY LenProperties
  <2> QED
    BY <2>1
<1> DEFINE P(i) == Pair(params[i])
           seqs == [i \in DOMAIN params |-> P(i)]
<1>2. ASSUME NEW i \in 1 .. 3
      PROVE  /\ P(i) \in Seq(Nat) /\ Len(P(i)) \in Nat
             /\ Len(params[i].name) <= Len(P(i)) /\ Len(params[i].value) <= Len(P(i))
  BY <1>1, PairLength
<1>3. DOMAIN params = 1 .. 3
  BY <1>1
<1>4. BuildParams(params) = FlattenSeq(seqs)
  BY DEF BuildParams
<1> HIDE DEF P
<1>5. seqs \in Seq(Seq(Nat)) /\ Len(seqs) = 3 /\ \A i \in 1 .. 3 : seqs[i] = P(i)
  <2>1. seqs = [i \in 1 .. 3 |-> P(i)]
    BY <1>3
  <2> HIDE DEF seqs
  <2>2. seqs \in [1 .. 3 -> Seq(Nat)]
    BY <1>2, <2>1
  <2> QED
    BY <2>1, <2>2
<1> HIDE DEF seqs
<1>6. PICK F : Flattens(seqs, F)
  <2>1. seqs \in Seq(Seq(Nat)) /\ Len(seqs) # 0
    BY <1>5
  <2> QED
    BY <2>1, FlatIsDefined
<1>7. F[1] = P(1) /\ F[2] = F[1] \o P(2) /\ F[3] = F[2] \o P(3) /\ BuildParams(params) = F[3]
  <2>0. Len(seqs) = 3 /\ 2 \in 2 .. 3 /\ 3 \in 2 .. 3
    BY <1>5
  <2>1. F[1] = seqs[1] /\ F[2] = F[2 - 1] \o seqs[2] /\ F[3] = F[3 - 1] \o seqs[3]
    BY <1>6, <2>0, Zenon DEF Flattens
  <2>2. FlattenSeq(seqs) = F[3]
    BY <1>6, <2>0, Zenon DEF Flattens
  <2> QED
    <3>1. 2 - 1 = 1 /\ 3 - 1 = 2
      OBVIOUS
    <3>2. seqs[1] = P(1) /\ seqs[2] = P(2) /\ seqs[3] = P(3)
      BY <1>5
    <3> QED
      BY <1>4, <2>1, <2>2, <3>1, <3>2
<1>8. P(1) \in Seq(Nat) /\ P(2) \in Seq(Nat) /\ P(3) \in Seq(Nat)
  BY <1>2
<1>9. F[2] \in Seq(Nat) /\ Len(F[2]) = Len(P(1)) + Len(P(2))
  BY <1>7, <1>8, Concat
<1>10. Len(BuildParams(params)) = Len(P(1)) + Len(P(2)) + Len(P(3))
  BY <1>7, <1>8, <1>9, Concat
<1>11. \A i \in 1 .. 3 : Len(P(i)) <= Len(BuildParams(params))
  BY <1>2, <1>10, SMTT(20)
<1>12. ASSUME NEW i \in 1 .. 3 PROVE params[i] \in [name : Texts, value : Texts]
  <2> DEFINE b2 == Base * Base
             l  == Len(BuildParams(params))
  <2>1. /\ params[i].name \in Seq(Nat) /\ params[i].value \in Seq(Nat)
        /\ params[i] = [name |-> params[i].name, value |-> params[i].value]
    BY <1>1 DEF Named
  <2>2. b2 \in Nat /\ l \in Nat /\ l < b2
    BY <1>2, <1>10, BaseAssumption, Products
  <2>3. Len(P(i)) <= l /\ Len(P(i)) \in Nat /\ Len(params[i].name) <= Len(P(i))
        /\ Len(params[i].value) <= Len(P(i))
    BY <1>2, <1>11
  <2> HIDE DEF b2, l
  <2>4. Len(params[i].name) < b2 /\ Len(params[i].value) < b2
    BY <2>1, <2>2, <2>3
  <2>5. params[i].name \in Texts /\ params[i].value \in Texts
    BY <2>1, <2>4 DEF Texts, b2
  <2> QED
    BY <2>1, <2>5
<1> DEFINE U == [name : Texts, value : Texts]
<1>13. \A i \in 1 .. 3 : params[i] \in U
  BY <1>12
<1> HIDE DEF U
<1>14. params \in [1 .. 3 -> U]
  BY <1>1, <1>13
<1>15. params \in Seq(U) /\ params # <<>>
  <2>1. params \in Seq(U)
    <3>1. [1 .. 3 -> U] \in {[1 .. n -> U] : n \in Nat}
      OBVIOUS
    <3>2. params \in UNION {[1 .. n -> U] : n \in Nat}
      BY <1>14, <3>1
    <3> QED
      BY <3>2, SeqDef, Zenon
  <2>2. params # <<>>
    <3> SUFFICES ASSUME params = <<>> PROVE FALSE
      OBVIOUS
    <3>1. Len(params) = 3 /\ Len(<<>>) = 0
      OBVIOUS
    <3>2. Len(params) = Len(<<>>)
      OBVIOUS
    <3> QED
      BY <3>1, <3>2
  <2> QED
    BY <2>1, <2>2
<1> QED
  BY <1>15 DEF U

-----------------------------------------------------------------------------
\* Four texts one after the other, each where the ones before it
\* end.
InRow(all, a, b, c, d) ==
    /\ all \in Seq(Nat) /\ Len(all) = Len(a) + Len(b) + Len(c) + Len(d)
    /\ Holds(all, 0, a) /\ Holds(all, Len(a), b) /\ Holds(all, Len(a) + Len(b), c)
    /\ Holds(all, Len(a) + Len(b) + Len(c), d)

\* Texts put together are.
LEMMA FourHeld ==
    ASSUME NEW a \in Seq(Nat), NEW b \in Seq(Nat), NEW c \in Seq(Nat), NEW d \in Seq(Nat)
    PROVE  InRow(a \o b \o c \o d, a, b, c, d)
<1> DEFINE two   == a \o b
           three == two \o c
           four  == three \o d
<1>1. two \in Seq(Nat) /\ Len(two) = Len(a) + Len(b) /\ Holds(two, 0, a) /\ Holds(two, Len(a), b)
  BY Concat, HoldsSelf, HoldsLeft, HoldsRight
<1> HIDE DEF two
<1>2. /\ three \in Seq(Nat) /\ Len(three) = Len(a) + Len(b) + Len(c)
      /\ Holds(three, 0, a) /\ Holds(three, Len(a), b) /\ Holds(three, Len(two), c)
  <2>1. three \in Seq(Nat) /\ Len(three) = Len(two) + Len(c)
    BY <1>1, Concat
  <2> QED
    BY <1>1, <2>1, HoldsLeft, HoldsRight
<1> HIDE DEF three
<1>3. /\ four \in Seq(Nat) /\ Len(four) = Len(a) + Len(b) + Len(c) + Len(d)
      /\ Holds(four, 0, a) /\ Holds(four, Len(a), b) /\ Holds(four, Len(two), c)
      /\ Holds(four, Len(three), d)
  <2>1. four \in Seq(Nat) /\ Len(four) = Len(three) + Len(d)
    BY <1>2, Concat
  <2> QED
    BY <1>2, <2>1, HoldsLeft, HoldsRight
<1>4. a \o b \o c \o d = four
  BY DEF two, three, four
<1> HIDE DEF four
<1>5. InRow(four, a, b, c, d)
  BY <1>1, <1>2, <1>3 DEF InRow
<1> QED
  BY <1>4, <1>5

\* A fifth one behind them is found where they end.
LEMMA FiveHeld ==
    ASSUME NEW a \in Seq(Nat), NEW b \in Seq(Nat), NEW c \in Seq(Nat), NEW d \in Seq(Nat),
           NEW e \in Seq(Nat), NEW all, all = a \o b \o c \o d \o e
    PROVE  /\ all \in Seq(Nat)
           /\ Holds(all, 0, a) /\ Holds(all, Len(a), b) /\ Holds(all, Len(a) + Len(b), c)
           /\ Holds(all, Len(a) + Len(b) + Len(c), d)
           /\ Holds(all, Len(a) + Len(b) + Len(c) + Len(d), e)
<1> DEFINE four == a \o b \o c \o d
<1>1. InRow(four, a, b, c, d)
  BY FourHeld
<1>2. all = four \o e
  OBVIOUS
<1> HIDE DEF four
<1>3. /\ four \in Seq(Nat) /\ Len(four) = Len(a) + Len(b) + Len(c) + Len(d)
      /\ Holds(four, 0, a) /\ Holds(four, Len(a), b) /\ Holds(four, Len(a) + Len(b), c)
      /\ Holds(four, Len(a) + Len(b) + Len(c), d)
  BY <1>1 DEF InRow
<1>4. all \in Seq(Nat) /\ Holds(all, Len(four), e)
  <2>1. four \o e \in Seq(Nat)
    BY <1>3, Concat
  <2>2. Holds(four \o e, Len(four), e)
    BY <1>3, HoldsRight
  <2> QED
    BY <1>2, <2>1, <2>2, Zenon
<1>5. /\ Holds(all, 0, a) /\ Holds(all, Len(a), b) /\ Holds(all, Len(a) + Len(b), c)
      /\ Holds(all, Len(a) + Len(b) + Len(c), d)
  BY <1>2, <1>3, HoldsLeft
<1> QED
  BY <1>3, <1>4, <1>5

\* A server that does not check versions reads a request that fits to its end
\* and as it was meant; one that does reads nothing.
THEOREM RequestRead ==
    ASSUME NEW ask \in Asks, Fits(ask), NEW checks \in BOOLEAN
    PROVE  LET read == DecodeRequest(FcgiRequest(ask), checks)
           IN  /\ read.complete <=> ~checks
               /\ read.complete => read.params = ParamsOf(ask) /\ read.body = BodyOf(ask)
<1> DEFINE b2     == Base * Base
           params == BuildParams(ParamsOf(ask))
           body   == BodyOf(ask)
           r1     == Record(Params, params)
           r2     == Record(Params, <<>>)
           r3     == IF ask.body = NoBody THEN <<>> ELSE Record(Stdin, body)
           r4     == Record(Stdin, <<>>)
           data   == FcgiRequest(ask)
           p2     == 16 + Len(r1)
           p3     == p2 + Len(r2)
           p4     == p3 + Len(r3)
<1>1. /\ params \in Seq(Nat) /\ params # <<>> /\ Len(params) < b2
      /\ PairsIn(params) = ParamsOf(ask)
  <2>1. ParamsOf(ask) \in Seq(Named) /\ Len(ParamsOf(ask)) = 3
    BY ParamsType
  <2>2. Len(BuildParams(ParamsOf(ask))) < Base * Base
    BY DEF Fits
  <2>3. ParamsOf(ask) \in Seq([name : Texts, value : Texts]) /\ ParamsOf(ask) # <<>>
    BY <2>1, <2>2, EachFits
  <2> QED
    BY <2>2, <2>3, ParamsReadBack
<1>2. body \in Seq(Nat) /\ Len(body) < b2 /\ b2 > 0
  <2>1. b2 > 0
    BY BaseAssumption
  <2>2. ask.body < b2
    BY DEF Fits
  <2>3. ask.body = NoBody \/ ask.body \in Nat
    BY BackendBounds DEF Asks
  <2>4. CASE ask.body = NoBody
    BY <2>1, <2>4, ParamsType DEF BodyOf
  <2>5. CASE ask.body # NoBody
    <3>1. body = Text(ask.body) /\ ask.body \in Nat
      BY <2>3, <2>5 DEF BodyOf
    <3>2. Len(body) = ask.body /\ body \in Seq(Nat)
      BY <3>1, TextType
    <3> QED
      BY <2>1, <2>2, <3>2
  <2> QED
    BY <2>4, <2>5
<1>3. <<>> \in Seq(Nat) /\ Len(<<>>) < b2 /\ Params = 4 /\ Stdin = 5
  BY <1>2 DEF Params, Stdin
<1> HIDE DEF params, body
<1>4. r1 \in Seq(Nat) /\ r2 \in Seq(Nat) /\ r3 \in Seq(Nat) /\ r4 \in Seq(Nat)
  BY <1>1, <1>2, <1>3, RecordHeld
<1>5. ASSUME NEW d \in Seq(Nat), NEW p \in Nat
      PROVE  /\ Holds(d, p, r1) => RecordIs(d, p, Params, params, Len(r1))
             /\ Holds(d, p, r2) => RecordIs(d, p, Params, <<>>, Len(r2))
             /\ Holds(d, p, r3) /\ ask.body # NoBody => RecordIs(d, p, Stdin, body, Len(r3))
             /\ Holds(d, p, r4) => RecordIs(d, p, Stdin, <<>>, Len(r4))
  <2>1. /\ Holds(d, p, r1) => RecordIs(d, p, Params, params, Len(r1))
        /\ Holds(d, p, r2) => RecordIs(d, p, Params, <<>>, Len(r2))
        /\ Holds(d, p, r4) => RecordIs(d, p, Stdin, <<>>, Len(r4))
    BY <1>1, <1>3, RecordHeld
  <2>2. ask.body # NoBody => r3 = Record(Stdin, body)
    OBVIOUS
  <2>3. Holds(d, p, Record(Stdin, body)) => RecordIs(d, p, Stdin, body, Len(Record(Stdin, body)))
    BY <1>2, <1>3, RecordHeld
  <2> HIDE DEF r1, r2, r3, r4
  <2> QED
    BY <2>1, <2>2, <2>3
<1>6. data = BeginRecord \o r1 \o r2 \o r3 \o r4
  BY DEF FcgiRequest, params, body
<1> HIDE DEF r1, r2, r3, r4, data
<1>7. BeginRecord \in Seq(Nat) /\ Len(BeginRecord) = 16
  BY BeginHeld
<1>8. /\ data \in Seq(Nat) /\ Holds(data, 0, BeginRecord)
      /\ Holds(data, 16, r1) /\ Holds(data, p2, r2) /\ Holds(data, p3, r3) /\ Holds(data, p4, r4)
  <2>1. /\ Holds(data, Len(BeginRecord), r1)
        /\ Holds(data, Len(BeginRecord) + Len(r1), r2)
        /\ Holds(data, Len(BeginRecord) + Len(r1) + Len(r2), r3)
        /\ Holds(data, Len(BeginRecord) + Len(r1) + Len(r2) + Len(r3), r4)
        /\ data \in Seq(Nat) /\ Holds(data, 0, BeginRecord)
    BY <1>4, <1>6, <1>7, FiveHeld
  <2> QED
    BY <1>7, <2>1
<1>9. p2 \in Nat /\ p3 \in Nat /\ p4 \in Nat
  BY <1>4
<1> HIDE DEF p2, p3, p4
<1>10. /\ RecordIs(data, 16, Params, params, Len(r1)) /\ RecordIs(data, p2, Params, <<>>, Len(r2))
       /\ ask.body # NoBody => RecordIs(data, p3, Stdin, body, Len(r3))
       /\ RecordIs(data, p4, Stdin, <<>>, Len(r4))
  BY <1>5, <1>8, <1>9
<1>11. CASE checks
  <2>1. ASSUME NEW type PROVE StreamIn(data, TRUE, type) = Unended
    <3>1. PICK f : ReadsStream(data, TRUE, type, f)
      BY <1>8, StreamIsRead
    <3>2. ~IsRecord(data, TRUE, 0)
      BY <1>8, BeginHeld
    <3> QED
      BY <3>1, <3>2 DEF ReadsStream
  <2>3. checks = TRUE
    BY <1>11
  <2>2. ~DecodeRequest(data, checks).complete
    <3> DEFINE s == StreamIn(data, checks, Params)
    <3>1. s = Unended
      BY <2>1, <2>3
    <3>2. DecodeRequest(data, checks).complete => s.ended
      BY DEF DecodeRequest
    <3> HIDE DEF s
    <3> QED
      BY <3>1, <3>2 DEF Unended
  <2> QED
    BY <1>11, <2>2 DEF data
<1>12. CASE ~checks
  <2>1. ASSUME NEW type, NEW f, ReadsStream(data, FALSE, type, f)
        PROVE  /\ StreamIn(data, FALSE, type) = f[0]
               /\ type = Params => f[0] = Taken(TRUE, params, Ended)
               /\ type = Stdin  => f[0] = IF ask.body = NoBody THEN Ended
                                         ELSE Taken(TRUE, body, Ended)
    <3>1. \A p \in Nat : IsRecord(data, FALSE, p) =>
             f[p] = Taken(HeaderAt(data, p).type = type, Content(data, HeaderAt(data, p)),
                          f[HeaderAt(data, p).end + HeaderAt(data, p).padding])
      BY <2>1 DEF ReadsStream
    <3>2. /\ IsRecord(data, FALSE, 0) /\ HeaderAt(data, 0).type = 1
          /\ HeaderAt(data, 0).end + HeaderAt(data, 0).padding = 16
      BY <1>8, BeginHeld
    <3>3. type # 1 => f[0] = f[16]
      BY <3>1, <3>2 DEF Taken
    <3>0. ASSUME NEW p \in Nat, NEW t, NEW content, NEW len, RecordIs(data, p, t, content, len)
          PROVE  f[p] = Taken(t = type, content, f[p + len])
      BY <3>0, <3>1, Zenon DEF RecordIs
    <3>4. f[16] = Taken(Params = type, params, f[p2])
      BY <1>10, <3>0 DEF p2
    <3>5. f[p2] = Taken(Params = type, <<>>, f[p3])
      BY <1>9, <1>10, <3>0 DEF p3
    <3>6. ask.body # NoBody => f[p3] = Taken(Stdin = type, body, f[p4])
      BY <1>9, <1>10, <3>0 DEF p4
    <3>7. f[p4] = Taken(Stdin = type, <<>>, f[p4 + Len(r4)])
      BY <1>9, <1>10, <3>0
    <3>8. ask.body = NoBody => p3 = p4
      BY <1>9 DEF p4, r3
    <3>9. StreamIn(data, FALSE, type) = f[0]
      BY <2>1 DEF ReadsStream
    <3>10. ASSUME type = Params PROVE f[0] = Taken(TRUE, params, Ended)
      <4>1. f[p2] = Ended
        BY <3>5, <3>10 DEF Taken
      <4>2. (Params = type) = TRUE /\ type # 1
        BY <1>3, <3>10
      <4> QED
        BY <3>3, <3>4, <4>1, <4>2
    <3>11. ASSUME type = Stdin
           PROVE  f[0] = IF ask.body = NoBody THEN Ended ELSE Taken(TRUE, body, Ended)
      <4>1. f[p4] = Ended
        BY <3>7, <3>11 DEF Taken
      <4>2. (Stdin = type) = TRUE /\ ~(Params = type) /\ type # 1
        BY <1>3, <3>11
      <4>3. f[0] = f[p3]
        BY <3>3, <3>4, <3>5, <4>2 DEF Taken
      <4> QED
        BY <3>6, <3>8, <4>1, <4>2, <4>3
    <3> QED
      BY <3>9, <3>10, <3>11
  <2>2. ASSUME NEW text \in Seq(Nat), text # <<>>
        PROVE  Taken(TRUE, text, Ended) = [ended |-> TRUE, data |-> text]
    <3>1. text \o <<>> = text
      OBVIOUS
    <3>2. Ended.ended = TRUE /\ Ended.data = <<>>
      BY DEF Ended
    <3> QED
      BY <2>2, <3>1, <3>2 DEF Taken
  <2>3. StreamIn(data, FALSE, Params) = [ended |-> TRUE, data |-> params]
    <3>1. PICK f : ReadsStream(data, FALSE, Params, f)
      BY <1>8, StreamIsRead
    <3> QED
      BY <1>1, <2>1, <2>2, <3>1
  <2>4. StreamIn(data, FALSE, Stdin) = [ended |-> TRUE, data |-> body]
    <3>1. PICK f : ReadsStream(data, FALSE, Stdin, f)
      BY <1>8, StreamIsRead
    <3>2. CASE ask.body = NoBody
      <4>1. body = <<>>
        BY <3>2 DEF body, BodyOf
      <4> QED
        BY <2>1, <3>1, <3>2, <4>1 DEF Ended
    <3>3. CASE ask.body # NoBody /\ body # <<>>
      BY <1>2, <2>1, <2>2, <3>1, <3>3
    <3>4. CASE ask.body # NoBody /\ body = <<>>
      BY <2>1, <3>1, <3>4 DEF Ended, Taken
    <3> QED
      BY <3>2, <3>3, <3>4
  <2>5. /\ DecodeRequest(data, FALSE).complete
        /\ DecodeRequest(data, FALSE).params = ParamsOf(ask)
        /\ DecodeRequest(data, FALSE).body = body
    <3> DEFINE s == StreamIn(data, FALSE, Params)
               t == StreamIn(data, FALSE, Stdin)
               d == DecodeRequest(data, FALSE)
    <3>1. s = [ended |-> TRUE, data |-> params] /\ t = [ended |-> TRUE, data |-> body]
      BY <2>3, <2>4
    <3>2. d = [complete |-> s.ended /\ t.ended, params |-> PairsIn(s.data), body |-> t.data]
      BY DEF DecodeRequest
    <3> HIDE DEF s, t, d
    <3>3. s.ended /\ t.ended /\ s.data = params /\ t.data = body
      BY <3>1
    <3>4. d.complete /\ d.params = ParamsOf(ask) /\ d.body = body
      BY <1>1, <3>2, <3>3
    <3> QED
      BY <3>4 DEF d
  <2>6. checks = FALSE
    BY <1>12
  <2> QED
    BY <1>12, <2>5, <2>6 DEF data, body
<1> QED
  BY <1>11, <1>12

-----------------------------------------------------------------------------
(* What a server reads. *)

\* A connection is for a request of a suite.
AskKnown == pc \in {"connected", "reading"} => conn.ask \in Asks

\* What a server makes of a request is what was meant.
LEMMA ReadSafe ==
    ASSUME Inv, AskKnown, ReadRequest
    PROVE  AskKnown' /\ RequestReadAsMeant'
<1>1. pc = "reading" /\ pc' = pc /\ conn.ask \in Asks
  BY DEF ReadRequest, AskKnown
<1>2. conn = [to |-> conn.to, ask |-> conn.ask, read |-> conn.read,
                form |-> conn.form, sent |-> conn.sent]
  BY DEF Inv, Types
<1>3. CASE \E form : \E r \in Readings :
            r.ask = conn.ask /\ conn' = [conn EXCEPT !.read = r.read, !.form = form]
  <2>0. PICK form : \E r \in Readings :
            r.ask = conn.ask /\ conn' = [conn EXCEPT !.read = r.read, !.form = form]
    BY <1>3
  <2>1. PICK r \in Readings :
            r.ask = conn.ask /\ conn' = [conn EXCEPT !.read = r.read, !.form = form]
    BY <2>0
  <2>2. conn'.ask = conn.ask /\ conn'.read = r.read
    BY <1>2, <2>1
  <2>3. PICK ask \in Asks, checks \in BOOLEAN :
            r = [ask |-> ask, read |-> DecodeRequest(FcgiRequest(ask), checks)]
    BY DEF Readings
  <2>4. ask = conn'.ask /\ conn'.read = DecodeRequest(FcgiRequest(ask), checks)
    BY <2>1, <2>2, <2>3
  <2>5. Fits(ask) /\ conn'.read.complete =>
            conn'.read.params = ParamsOf(ask) /\ conn'.read.body = BodyOf(ask)
    BY <2>4, RequestRead
  <2> QED
    BY <1>1, <2>2, <2>4, <2>5 DEF AskKnown, RequestReadAsMeant
<1>4. CASE \E form : conn' = [conn EXCEPT !.read = HttpRequest(conn.ask), !.form = form]
  <2>1. conn'.ask = conn.ask /\ conn'.read = HttpRequest(conn.ask)
    BY <1>2, <1>4
  <2>2. HttpRequest(conn.ask).params = ParamsOf(conn.ask)
        /\ HttpRequest(conn.ask).body = BodyOf(conn.ask)
    BY DEF HttpRequest
  <2> QED
    BY <1>1, <2>1, <2>2 DEF AskKnown, RequestReadAsMeant
<1> QED
  BY <1>3, <1>4 DEF ReadRequest

\* Every other step keeps the request and what was read of it, or is not in
\* a connection.
LEMMA ReadKept ==
    ASSUME Inv, AskKnown, RequestReadAsMeant, [Next]_vars
    PROVE  AskKnown' /\ RequestReadAsMeant'
<1>1. ASSUME UNCHANGED conn, pc' \in {"connected", "reading"} => pc \in {"connected", "reading"}
      PROVE  AskKnown' /\ RequestReadAsMeant'
  BY <1>1 DEF AskKnown, RequestReadAsMeant
<1>2. ASSUME conn'.read = None, pc' \notin {"connected", "reading"} \/ conn'.ask \in Asks
      PROVE  AskKnown' /\ RequestReadAsMeant'
  BY <1>2 DEF AskKnown, RequestReadAsMeant
<1>3. NoConn.read = None
  BY DEF NoConn
<1>4. CASE BeginRun \/ EndRun \/ StartFpm \/ StartFrankenPhp \/ StartFails \/ StartSucceeds
              \/ PollAgain \/ StartTimesOut \/ ConnectFails \/ WriteRequest \/ DropBackend
  BY <1>1, <1>4 DEF BeginRun, EndRun, StartFpm, StartFrankenPhp, Spawn, StartFails, StartSucceeds,
     PollAgain, StartTimesOut, ConnectFails, WriteRequest, DropBackend, Goto
<1>5. ASSUME NEW ask \in Asks, Connect(ask) PROVE AskKnown' /\ RequestReadAsMeant'
  <2>1. conn' = [to |-> Listener, ask |-> ask, read |-> None, form |-> "none", sent |-> 0]
    BY <1>5 DEF Connect, NoConn
  <2>2. conn'.read = None /\ conn'.ask = ask
    BY <2>1
  <2> QED
    BY <1>2, <2>2
<1>6. CASE WriteFails \/ ReadEnds \/ ReadIsReset \/ ReadTimesOut
  BY <1>2, <1>3, <1>6 DEF WriteFails, ReadEnds, ReadIsReset, ReadTimesOut, Finish
<1>7. CASE RunKilled
  BY <1>2, <1>3, <1>7 DEF RunKilled
<1>8. ASSUME NEW s \in Servers, Server(s) PROVE AskKnown' /\ RequestReadAsMeant'
  BY <1>1, <1>8 DEF Server, MakeSocket, Listen, BindPort, ServerCrashes
<1>9. CASE SendReply
  <2>1. pc' = pc /\ conn'.ask = conn.ask /\ conn'.read = conn.read
    BY <1>9 DEF SendReply, Inv, Types
  <2> QED
    BY <2>1 DEF AskKnown, RequestReadAsMeant
<1>10. CASE UNCHANGED vars
  BY <1>1, <1>10 DEF vars
<1> QED
  BY <1>4, <1>5, <1>6, <1>7, <1>8, <1>9, <1>10, ReadSafe DEF Next, Benchmark

(* Of requests whose records fit their 16-bit lengths, whatever the lengths *)
(* of paths, names and bodies, php-fpm and FrankenPHP read what was meant,  *)
(* if they read them at all.                                                *)
THEOREM ReadAsMeant == Spec => []RequestReadAsMeant
<1>1. Init => AskKnown /\ RequestReadAsMeant
  <2>1. NoConn.read = None
    BY DEF NoConn
  <2> QED
    BY <2>1 DEF Init, AskKnown, RequestReadAsMeant
<1>2. Inv /\ AskKnown /\ RequestReadAsMeant /\ [Next]_vars => (AskKnown /\ RequestReadAsMeant)'
  BY ReadKept
<1> QED
  BY <1>1, <1>2, InvAlways, PTL DEF Spec

-----------------------------------------------------------------------------
(* What execute makes of an answer. *)

\* A header and the content it tells of have arrived.
Arrived(data, p) == p + 8 <= Len(data) /\ HeaderAt(data, p).end <= Len(data)

\* How the output in an answer is read, record by record.
ReadsStdout(data, f) ==
    /\ StdoutIn(data) = f[0]
    /\ \A p \in Nat : ~Arrived(data, p) => f[p] = <<>>
    /\ \A p \in Nat : Arrived(data, p) =>
          f[p] = (IF HeaderAt(data, p).type = Stdout THEN Content(data, HeaderAt(data, p)) ELSE <<>>)
                     \o f[HeaderAt(data, p).end + HeaderAt(data, p).padding]

\* The recursion of StdoutIn defines the output.
LEMMA StdoutIsRead ==
    ASSUME NEW data \in Seq(Nat)
    PROVE  \E f : ReadsStdout(data, f)
<1> DEFINE R(p)  == Arrived(data, p)
           H(p)  == HeaderAt(data, p)
           C(p)  == IF H(p).type = Stdout THEN Content(data, H(p)) ELSE <<>>
           N(p)  == H(p).end + H(p).padding
           V     == Seq(Nat)
           F     == CHOOSE f : f = [p \in Nat |->
                        IF p + 8 > Len(data) THEN <<>>
                        ELSE IF H(p).end > Len(data) THEN <<>> ELSE C(p) \o f[N(p)]]
           m     == Len(data)
           whole == {p \in 0 .. (m - 1) : R(p)}
           next  == [p \in whole |-> N(p)]
           G(p, rest) == C(p) \o rest
           step  == [x \in whole \X V |-> G(x[1], x[2])]
<1>1. StdoutIn(data) = F[0]
  BY DEF StdoutIn
<1>2. ASSUME NEW p \in Nat, R(p)
      PROVE  C(p) \in V /\ N(p) \in Nat /\ N(p) > p /\ p < m
  <2>1. p + 8 <= Len(data) /\ H(p).end <= Len(data)
    BY <1>2 DEF Arrived
  <2>2. /\ H(p).end \in Nat /\ H(p).padding \in Nat /\ H(p).end >= p + 8 /\ p < m
        /\ Content(data, H(p)) \in Seq(Nat)
    BY <2>1, HeaderInData
  <2>3. <<>> \in Seq(Nat)
    OBVIOUS
  <2> HIDE DEF H, m
  <2> QED
    BY <2>2, <2>3
<1>3. m \in Nat /\ <<>> \in V
  OBVIOUS
<1>0. ASSUME NEW p \in Nat
      PROVE  /\ ~R(p) => p + 8 > Len(data) \/ H(p).end > Len(data)
             /\ R(p) => ~(p + 8 > Len(data)) /\ ~(H(p).end > Len(data))
  <2>1. p + 8 <= Len(data) => H(p).end \in Nat
    BY HeaderInData
  <2> HIDE DEF H
  <2> QED
    BY <2>1 DEF Arrived, H
<1> HIDE DEF R, H, C, N, V, m
<1>4. \A p \in Nat : p \in whole <=> R(p)
  BY <1>2, <1>3
<1>5. Scans(m, whole, V, <<>>, next, step)
  <2>1. whole \in SUBSET (0 .. (m - 1)) /\ \A p \in whole : p \in Nat /\ R(p)
    BY <1>3
  <2>2. next \in [whole -> Nat] /\ \A p \in whole : next[p] > p
    BY <1>2, <2>1
  <2>3. step \in [whole \X V -> V]
    <3>1. ASSUME NEW p \in whole, NEW rest \in V
          PROVE  G(p, rest) \in V
      <4>1. C(p) \in V
        BY <1>2, <2>1
      <4> QED
        BY <4>1, Concat DEF V
    <3> HIDE DEF whole, G
    <3> QED
      BY <3>1
  <2> HIDE DEF whole, next, step
  <2> QED
    BY <1>3, <2>1, <2>2, <2>3 DEF Scans
<1>6. ASSUME NEW p \in whole, NEW rest \in V
      PROVE  next[p] = N(p) /\ step[<<p, rest>>] = G(p, rest) /\ N(p) \in Nat
  <2> HIDE DEF G
  <2> QED
    BY <1>2, <1>3
<1> HIDE DEF whole, next, step
<1>7. PICK f : Scanned(whole, V, <<>>, next, step, f)
  BY <1>5, Scan
<1>8. f \in [Nat -> V]
  BY <1>7 DEF Scanned
<1>9. ASSUME NEW p \in Nat
      PROVE  f[p] = IF p + 8 > Len(data) THEN <<>>
                    ELSE IF H(p).end > Len(data) THEN <<>> ELSE C(p) \o f[N(p)]
  <2>1. f[p] = IF p \in whole THEN step[<<p, f[next[p]]>>] ELSE <<>>
    BY <1>7 DEF Scanned
  <2>2. p \in whole => next[p] = N(p) /\ f[next[p]] \in V
    BY <1>3, <1>6, <1>8
  <2>3. f[p] = IF R(p) THEN C(p) \o f[N(p)] ELSE <<>>
    BY <1>4, <1>6, <2>1, <2>2, Zenon
  <2> QED
    BY <1>0, <2>3, Zenon
<1>10. f = [p \in Nat |-> IF p + 8 > Len(data) THEN <<>>
                          ELSE IF H(p).end > Len(data) THEN <<>> ELSE C(p) \o f[N(p)]]
  BY <1>8, <1>9, Zenon
<1>11. F = [p \in Nat |-> IF p + 8 > Len(data) THEN <<>>
                          ELSE IF H(p).end > Len(data) THEN <<>> ELSE C(p) \o F[N(p)]]
  BY <1>10, Zenon
<1> HIDE DEF F
<1>12. ASSUME NEW p \in Nat
       PROVE  F[p] = IF R(p) THEN C(p) \o F[N(p)] ELSE <<>>
  BY <1>0, <1>11, Zenon
<1>13. ReadsStdout(data, F)
  BY <1>1, <1>12, Zenon DEF ReadsStdout, R, H, C, N
<1> QED
  BY <1>13

\* The first n bytes of a reply: the bytes, and what is cut out of them.
LEMMA CutOff ==
    ASSUME NEW reply \in Seq(Nat), NEW n \in 0 .. Len(reply)
    PROVE  LET data == SubSeq(reply, 1, n)
           IN  /\ data \in Seq(Nat) /\ Len(data) = n
               /\ \A i \in 1 .. n : data[i] = reply[i]
               /\ \A a, b \in Nat : 1 <= a /\ b <= n => SubSeq(data, a, b) = SubSeq(reply, a, b)
<1> DEFINE data == SubSeq(reply, 1, n)
<1>1. data \in Seq(Nat) /\ Len(data) = n /\ \A i \in 1 .. n : data[i] = reply[i]
  OBVIOUS
<1> HIDE DEF data
<1>2. ASSUME NEW a \in Nat, NEW b \in Nat, 1 <= a, b <= n
      PROVE  SubSeq(data, a, b) = SubSeq(reply, a, b)
  <2>1. CASE b < a
    BY <2>1, SubSeqEmpty
  <2>2. CASE a <= b
    <3>1. /\ SubSeq(data, a, b) \in Seq(Nat) /\ SubSeq(reply, a, b) \in Seq(Nat)
          /\ Len(SubSeq(data, a, b)) = b - a + 1 /\ Len(SubSeq(reply, a, b)) = b - a + 1
      BY <1>1, <1>2, <2>2
    <3>2. ASSUME NEW i \in 1 .. (b - a + 1)
          PROVE  SubSeq(data, a, b)[i] = SubSeq(reply, a, b)[i]
      <4>1. a + i - 1 \in 1 .. n
        BY <1>2, <2>2
      <4>2. SubSeq(data, a, b)[i] = data[a + i - 1] /\ SubSeq(reply, a, b)[i] = reply[a + i - 1]
        BY <1>1, <1>2, <2>2
      <4> QED
        BY <1>1, <4>1, <4>2
    <3> QED
      BY <3>1, <3>2, SeqEqual
  <2> QED
    BY <2>1, <2>2
<1> QED
  BY <1>1, <1>2 DEF data

\* A record of a reply of which n bytes arrived: what it has is taken if all
\* of it came.
LEMMA CutRecord ==
    ASSUME NEW reply \in Seq(Nat), NEW n \in 0 .. Len(reply), NEW p \in Nat, NEW type,
           NEW content \in Seq(Nat), NEW len, RecordIs(reply, p, type, content, len),
           NEW f, ReadsStdout(SubSeq(reply, 1, n), f)
    PROVE  f[p] = IF p + 8 + Len(content) <= n
                  THEN (IF type = Stdout THEN content ELSE <<>>) \o f[p + len] ELSE <<>>
<1> DEFINE data == SubSeq(reply, 1, n)
           h    == HeaderAt(reply, p)
           g    == HeaderAt(data, p)
           e    == p + 8 + Len(content)
<1>1. /\ data \in Seq(Nat) /\ Len(data) = n /\ \A i \in 1 .. n : data[i] = reply[i]
      /\ \A a, b \in Nat : 1 <= a /\ b <= n => SubSeq(data, a, b) = SubSeq(reply, a, b)
  BY CutOff
<1>2. /\ h.type = type /\ h.start = p + 8 /\ h.end = e /\ Content(reply, h) = content
      /\ h.end + h.padding = p + len
  BY DEF RecordIs
<1>3. n \in Nat /\ e \in Nat /\ e >= p + 8
  OBVIOUS
<1>4. \A q \in Nat : ~Arrived(data, q) => f[q] = <<>>
  BY DEF ReadsStdout
<1>5. Arrived(data, p) => f[p] = (IF g.type = Stdout THEN Content(data, g) ELSE <<>>)
                                    \o f[g.end + g.padding]
  BY DEF ReadsStdout
<1>6. Arrived(data, p) <=> p + 8 <= Len(data) /\ g.end <= Len(data)
  BY DEF Arrived
<1>7. ASSUME p + 8 <= n PROVE g = h
  <2>1. ASSUME NEW k \in 1 .. 8 PROVE data[p + k] = reply[p + k]
    <3>1. p + k \in 1 .. n
      BY <1>3, <1>7
    <3> HIDE DEF data
    <3> QED
      BY <1>1, <3>1
  <2>2. data[p + 1] = reply[p + 1] /\ data[p + 2] = reply[p + 2] /\ data[p + 5] = reply[p + 5]
        /\ data[p + 6] = reply[p + 6] /\ data[p + 7] = reply[p + 7]
    <3> HIDE DEF data
    <3>1. 1 \in 1 .. 8 /\ 2 \in 1 .. 8 /\ 5 \in 1 .. 8 /\ 6 \in 1 .. 8 /\ 7 \in 1 .. 8
      OBVIOUS
    <3> QED
      BY <2>1, <3>1, Zenon
  <2> HIDE DEF data
  <2> QED
    BY <2>2, Zenon DEF HeaderAt
<1>8. ASSUME e <= n, g = h PROVE Content(data, g) = content
  <2> DEFINE a == p + 8 + 1
  <2>1. a \in Nat /\ 1 <= a
    OBVIOUS
  <2> HIDE DEF a, e, data
  <2>2. SubSeq(data, a, e) = SubSeq(reply, a, e)
    BY <1>1, <1>3, <1>8, <2>1
  <2>3. Content(data, g) = SubSeq(data, a, e) /\ content = SubSeq(reply, a, e)
    BY <1>2, <1>8 DEF Content, a
  <2> QED
    BY <2>2, <2>3
<1> HIDE DEF data, h, g, e
<1>9. CASE e <= n
  <2>1. p + 8 <= n /\ g = h
    BY <1>3, <1>7, <1>9
  <2>2. Arrived(data, p)
    BY <1>1, <1>2, <1>6, <1>9, <2>1
  <2>3. Content(data, g) = content
    BY <1>8, <1>9, <2>1
  <2>4. f[p] = (IF type = Stdout THEN content ELSE <<>>) \o f[p + len]
    BY <1>2, <1>5, <2>1, <2>2, <2>3
  <2> QED
    BY <1>9, <2>4 DEF e
<1>10. CASE ~(e <= n)
  <2>1. ~Arrived(data, p)
    BY <1>1, <1>2, <1>6, <1>7, <1>10
  <2> QED
    BY <1>4, <1>10, <2>1 DEF e
<1> QED
  BY <1>9, <1>10

\* The two parts of a page's answer.
LEMMA HttpIs ==
    /\ Http \in Seq(Nat) /\ Len(Http) = 6
    /\ Http[1] = 20 /\ Http[2] = 21 /\ Http[3] = 13 /\ Http[4] = 10 /\ Http[5] = 13 /\ Http[6] = 10
<1>1. <<20, 21>> \in Seq(Nat) /\ Len(<<20, 21>>) = 2
  OBVIOUS
<1>2. /\ BlankLine \in Seq(Nat) /\ Len(BlankLine) = 4
      /\ BlankLine[1] = 13 /\ BlankLine[2] = 10 /\ BlankLine[3] = 13 /\ BlankLine[4] = 10
  BY DEF BlankLine
<1>3. Http = <<20, 21>> \o BlankLine
  BY DEF Http
<1> DEFINE s == <<20, 21>>
<1>4. s[1] = 20 /\ s[2] = 21 /\ s \in Seq(Nat) /\ Len(s) = 2 /\ Http = s \o BlankLine
  BY <1>1, <1>3
<1> HIDE DEF s
<1>5. Len(Http) = 6 /\ Http \in Seq(Nat) /\ Holds(Http, 0, s) /\ Holds(Http, 2, BlankLine)
  <2>1. Http \in Seq(Nat) /\ Len(Http) = Len(s) + Len(BlankLine)
    BY <1>2, <1>4, Concat
  <2>2. Holds(Http, 0, s) /\ Holds(Http, Len(s), BlankLine)
    BY <1>2, <1>4, HoldsSelf, HoldsLeft, HoldsRight
  <2> QED
    BY <1>2, <1>4, <2>1, <2>2
<1>6. Http[0 + 1] = s[1] /\ Http[0 + 2] = s[2]
  <2>1. 1 \in 1 .. Len(s) /\ 2 \in 1 .. Len(s)
    BY <1>4
  <2> QED
    BY <1>5, <2>1, Zenon DEF Holds
<1>7. /\ Http[2 + 1] = BlankLine[1] /\ Http[2 + 2] = BlankLine[2]
      /\ Http[2 + 3] = BlankLine[3] /\ Http[2 + 4] = BlankLine[4]
  <2>1. \A i \in 1 .. 4 : i \in 1 .. Len(BlankLine)
    BY <1>2
  <2>2. 1 \in 1 .. 4 /\ 2 \in 1 .. 4 /\ 3 \in 1 .. 4 /\ 4 \in 1 .. 4
    OBVIOUS
  <2> QED
    BY <1>5, <2>1, <2>2, Zenon DEF Holds
<1>8. 0 + 1 = 1 /\ 0 + 2 = 2 /\ 2 + 1 = 3 /\ 2 + 2 = 4 /\ 2 + 3 = 5 /\ 2 + 4 = 6
  OBVIOUS
<1> QED
  BY <1>2, <1>4, <1>5, <1>6, <1>7, <1>8, Zenon

\* The page has six bytes.
LEMMA PageIs == Page \in Seq(Nat) /\ Len(Page) = 6
  BY DEF Page

\* r is a record, wherever it is found.
Written(r, type, content) ==
    /\ r \in Seq(Nat) /\ Len(r) \in Nat /\ Len(r) >= 8 + Len(content)
    /\ \A data \in Seq(Nat), p \in Nat :
          Holds(data, p, r) => RecordIs(data, p, type, content, Len(r))

\* What write_fcgi_record writes is.
LEMMA RecordWritten ==
    ASSUME NEW type \in Nat, NEW content \in Seq(Nat), Len(content) < Base * Base
    PROVE  Written(Record(type, content), type, content)
<1> DEFINE r == Record(type, content)
<1>1. /\ r \in Seq(Nat) /\ Len(r) \in Nat /\ Len(r) >= 8 + Len(content)
      /\ \A data \in Seq(Nat), p \in Nat :
            Holds(data, p, r) => RecordIs(data, p, type, content, Len(r))
  BY RecordHeld
<1> HIDE DEF r
<1>2. Written(r, type, content)
  BY <1>1, Zenon DEF Written
<1> QED
  BY <1>2 DEF r

\* What a page's answer is made of.
LEMMA PiecesAre ==
    /\ Http \in Seq(Nat) /\ Len(Http) = 6 /\ Page \in Seq(Nat) /\ Len(Page) = 6
    /\ <<50>> \in Seq(Nat) /\ Len(<<50>>) = 1 /\ Zeros(8) \in Seq(Nat) /\ Len(Zeros(8)) = 8
    /\ Stdout = 6 /\ Stderr = 7 /\ Stdout \in Nat /\ Stderr \in Nat /\ 3 \in Nat
<1>1. <<50>> \in Seq(Nat) /\ Len(<<50>>) = 1 /\ 8 \in Nat /\ 3 \in Nat
  OBVIOUS
<1>2. Stdout = 6 /\ Stderr = 7 /\ Stdout \in Nat /\ Stderr \in Nat
  BY DEF Stdout, Stderr
<1>3. Zeros(8) \in Seq(Nat) /\ Len(Zeros(8)) = 8
  BY <1>1, ZerosType, Zenon
<1> QED
  BY <1>1, <1>2, <1>3, HttpIs, PageIs, Zenon

\* php-fpm's reply: four records, one after the other.
LEMMA FpmReplyIs ==
    /\ Written(Record(Stdout, Http), Stdout, Http)
    /\ Written(Record(Stderr, <<50>>), Stderr, <<50>>)
    /\ Written(Record(Stdout, Page), Stdout, Page)
    /\ Written(Record(3, Zeros(8)), 3, Zeros(8))
    /\ InRow(FpmReply, Record(Stdout, Http), Record(Stderr, <<50>>), Record(Stdout, Page),
             Record(3, Zeros(8)))
<1> DEFINE r1 == Record(Stdout, Http)
           r2 == Record(Stderr, <<50>>)
           r3 == Record(Stdout, Page)
           r4 == Record(3, Zeros(8))
           b2 == Base * Base
<1>1. 6 < b2 /\ 1 < b2 /\ 8 < b2
  <2>1. Base >= 8 /\ Base \in Nat
    BY BaseAssumption
  <2>2. Base * Base >= 8 * Base /\ Base * Base \in Nat
    BY <2>1, Products
  <2> HIDE DEF b2
  <2>3. b2 >= 8 * Base /\ b2 \in Nat
    BY <2>2 DEF b2
  <2> QED
    BY <2>1, <2>3
<1>3. /\ Len(Http) < Base * Base /\ Len(<<50>>) < Base * Base /\ Len(Page) < Base * Base
      /\ Len(Zeros(8)) < Base * Base
  BY <1>1, PiecesAre, Zenon
<1>4. Written(r1, Stdout, Http)
  BY <1>3, PiecesAre, RecordWritten, Zenon
<1>5. Written(r2, Stderr, <<50>>)
  BY <1>3, PiecesAre, RecordWritten, Zenon
<1>6. Written(r3, Stdout, Page)
  BY <1>3, PiecesAre, RecordWritten, Zenon
<1>7. Written(r4, 3, Zeros(8))
  BY <1>3, PiecesAre, RecordWritten, Zenon
<1>8. FpmReply = r1 \o r2 \o r3 \o r4
  BY DEF FpmReply
<1> HIDE DEF r1, r2, r3, r4
<1>9. r1 \in Seq(Nat) /\ r2 \in Seq(Nat) /\ r3 \in Seq(Nat) /\ r4 \in Seq(Nat)
  BY <1>4, <1>5, <1>6, <1>7, Zenon DEF Written
<1>10. InRow(FpmReply, r1, r2, r3, r4)
  BY <1>8, <1>9, FourHeld, Zenon
<1> QED
  BY <1>4, <1>5, <1>6, <1>7, <1>10, Zenon DEF r1, r2, r3, r4

\* What is left of the output when n bytes of php-fpm's reply arrived.
LEMMA FpmOutput ==
    ASSUME NEW n \in 0 .. Len(FpmReply)
    PROVE  /\ StdoutIn(SubSeq(FpmReply, 1, n)) \in {<<>>, Http, Http \o Page}
           /\ n = Len(FpmReply) => StdoutIn(SubSeq(FpmReply, 1, n)) = Http \o Page
<1> DEFINE r1   == Record(Stdout, Http)
           r2   == Record(Stderr, <<50>>)
           r3   == Record(Stdout, Page)
           r4   == Record(3, Zeros(8))
           p2   == Len(r1)
           p3   == p2 + Len(r2)
           p4   == p3 + Len(r3)
           p5   == p4 + Len(r4)
           data == SubSeq(FpmReply, 1, n)
<1>1. Written(r1, Stdout, Http) /\ Written(r2, Stderr, <<50>>) /\ Written(r3, Stdout, Page)
      /\ Written(r4, 3, Zeros(8)) /\ InRow(FpmReply, r1, r2, r3, r4)
  BY FpmReplyIs
<1> HIDE DEF r1, r2, r3, r4
<1>2. /\ Http \in Seq(Nat) /\ Len(Http) = 6 /\ Page \in Seq(Nat) /\ Len(Page) = 6
      /\ <<50>> \in Seq(Nat) /\ Len(<<50>>) = 1 /\ Zeros(8) \in Seq(Nat) /\ Len(Zeros(8)) = 8
      /\ Stdout = 6 /\ Stderr = 7
  BY PiecesAre, Zenon
<1>9. /\ FpmReply \in Seq(Nat) /\ Holds(FpmReply, 0, r1) /\ Holds(FpmReply, p2, r2)
      /\ Holds(FpmReply, p3, r3) /\ Holds(FpmReply, p4, r4) /\ Len(FpmReply) = p5
  <2>1. p2 = Len(r1) /\ p3 = Len(r1) + Len(r2) /\ p4 = Len(r1) + Len(r2) + Len(r3)
        /\ p5 = Len(r1) + Len(r2) + Len(r3) + Len(r4)
    OBVIOUS
  <2> HIDE DEF p2, p3, p4, p5
  <2> QED
    BY <1>1, <2>1, Zenon DEF InRow
<1>10. /\ 0 \in Nat /\ p2 \in Nat /\ p3 \in Nat /\ p4 \in Nat /\ p5 \in Nat /\ n \in Nat /\ n <= p5
       /\ p2 >= 14 /\ p3 >= p2 + 9 /\ p4 >= p3 + 14 /\ p5 >= p4 + 16
  <2>1. /\ Len(r1) \in Nat /\ Len(r1) >= 8 + 6 /\ Len(r2) \in Nat /\ Len(r2) >= 8 + 1
        /\ Len(r3) \in Nat /\ Len(r3) >= 8 + 6 /\ Len(r4) \in Nat /\ Len(r4) >= 8 + 8
    BY <1>1, <1>2, Zenon DEF Written
  <2>2. n \in 0 .. p5
    BY <1>9
  <2> DEFINE l1 == Len(r1)
             l2 == Len(r2)
             l3 == Len(r3)
             l4 == Len(r4)
  <2>3. p2 = l1 /\ p3 = p2 + l2 /\ p4 = p3 + l3 /\ p5 = p4 + l4
    OBVIOUS
  <2>4. l1 \in Nat /\ l1 >= 14 /\ l2 \in Nat /\ l2 >= 9 /\ l3 \in Nat /\ l3 >= 14 /\ l4 \in Nat /\ l4 >= 16
    BY <2>1
  <2> HIDE DEF p2, p3, p4, p5, l1, l2, l3, l4
  <2> QED
    BY <2>2, <2>3, <2>4
<1>11. data \in Seq(Nat) /\ Len(data) = n
  BY <1>9, CutOff
<1>12. PICK f : ReadsStdout(data, f)
  BY <1>11, StdoutIsRead
<1> HIDE DEF data
<1>0. ASSUME NEW p \in Nat, NEW type, NEW content \in Seq(Nat), NEW len,
             RecordIs(FpmReply, p, type, content, len)
      PROVE  f[p] = IF p + 8 + Len(content) <= n
                    THEN (IF type = Stdout THEN content ELSE <<>>) \o f[p + len] ELSE <<>>
  BY <1>0, <1>9, <1>12, CutRecord, Zenon DEF data
<1>13. /\ RecordIs(FpmReply, 0, Stdout, Http, Len(r1)) /\ RecordIs(FpmReply, p2, Stderr, <<50>>, Len(r2))
       /\ RecordIs(FpmReply, p3, Stdout, Page, Len(r3)) /\ RecordIs(FpmReply, p4, 3, Zeros(8), Len(r4))
  <2> HIDE DEF p2, p3, p4
  <2> QED
    BY <1>1, <1>9, <1>10, Zenon DEF Written
<1>14. f[0] = IF 14 <= n THEN Http \o f[p2] ELSE <<>>
  <2>1. f[0] = IF 0 + 8 + Len(Http) <= n THEN (IF Stdout = Stdout THEN Http ELSE <<>>) \o f[0 + Len(r1)] ELSE <<>>
    <3> HIDE DEF p2, p3, p4
    <3>1. RecordIs(FpmReply, 0, Stdout, Http, Len(r1)) /\ 0 \in Nat /\ Http \in Seq(Nat)
      BY <1>2, <1>10, <1>13, Zenon
    <3> QED
      BY <1>0, <3>1, Zenon
  <2> QED
    BY <1>2, <2>1
<1>15. f[p2] = IF p2 + 9 <= n THEN <<>> \o f[p3] ELSE <<>>
  <2>1. f[p2] = IF p2 + 8 + Len(<<50>>) <= n
                THEN (IF Stderr = Stdout THEN <<50>> ELSE <<>>) \o f[p2 + Len(r2)] ELSE <<>>
    <3> HIDE DEF p2, p3, p4
    <3>1. RecordIs(FpmReply, p2, Stderr, <<50>>, Len(r2)) /\ p2 \in Nat /\ <<50>> \in Seq(Nat)
      BY <1>2, <1>10, <1>13, Zenon
    <3> QED
      BY <1>0, <3>1, Zenon
  <2> HIDE DEF p2
  <2> QED
    BY <1>2, <1>10, <2>1
<1>16. f[p3] = IF p3 + 14 <= n THEN Page \o f[p4] ELSE <<>>
  <2>1. f[p3] = IF p3 + 8 + Len(Page) <= n THEN (IF Stdout = Stdout THEN Page ELSE <<>>) \o f[p3 + Len(r3)] ELSE <<>>
    <3> HIDE DEF p2, p3, p4
    <3>1. RecordIs(FpmReply, p3, Stdout, Page, Len(r3)) /\ p3 \in Nat /\ Page \in Seq(Nat)
      BY <1>2, <1>10, <1>13, Zenon
    <3> QED
      BY <1>0, <3>1, Zenon
  <2> HIDE DEF p3
  <2> QED
    BY <1>2, <1>10, <2>1
<1>17. f[p4] = <<>>
  <2>1. f[p4] = IF p4 + 8 + Len(Zeros(8)) <= n
                THEN (IF 3 = Stdout THEN Zeros(8) ELSE <<>>) \o f[p4 + Len(r4)] ELSE <<>>
    <3> HIDE DEF p2, p3, p4
    <3>1. RecordIs(FpmReply, p4, 3, Zeros(8), Len(r4)) /\ p4 \in Nat /\ Zeros(8) \in Seq(Nat)
      BY <1>2, <1>10, <1>13, Zenon
    <3> QED
      BY <1>0, <3>1, Zenon
  <2>2. ~Arrived(data, p5)
    BY <1>10, <1>11 DEF Arrived
  <2>3. f[p5] = <<>>
    BY <1>10, <1>12, <2>2 DEF ReadsStdout
  <2>4. <<>> \o <<>> = <<>>
    OBVIOUS
  <2> QED
    BY <1>2, <2>1, <2>3, <2>4
<1> HIDE DEF p2, p3, p4, p5, data
<1>18. /\ Page \o <<>> = Page /\ <<>> \o Page = Page /\ <<>> \o <<>> = <<>> /\ Http \o <<>> = Http
  BY <1>2
<1>19. f[p3] = IF p3 + 14 <= n THEN Page ELSE <<>>
  BY <1>16, <1>17, <1>18
<1>20. f[p2] \in {<<>>, Page} /\ (n = p5 => f[p2] = Page)
  BY <1>10, <1>15, <1>18, <1>19
<1>21. f[0] \in {<<>>, Http, Http \o Page} /\ (n = p5 => f[0] = Http \o Page)
  <2>1. f[p2] = <<>> \/ f[p2] = Page
    BY <1>20
  <2>2. f[0] = <<>> \/ f[0] = Http \/ f[0] = Http \o Page
    BY <1>14, <1>18, <2>1, Zenon
  <2>3. n = p5 => 14 <= n
    BY <1>10
  <2>4. n = p5 => f[0] = Http \o Page
    BY <1>14, <1>20, <2>3, Zenon
  <2> QED
    BY <2>2, <2>4, Zenon
<1>22. StdoutIn(data) = f[0]
  BY <1>12 DEF ReadsStdout
<1> QED
  BY <1>9, <1>21, <1>22 DEF data

\* A sequence that agrees with a longer one is a prefix of it.
LEMMA PrefixIs ==
    ASSUME NEW s \in Seq(Nat), NEW t \in Seq(Nat), Len(s) <= Len(t),
           \A i \in 1 .. Len(s) : s[i] = t[i]
    PROVE  IsPrefix(s, t) /\ (Len(s) = Len(t) => s = t)
<1> DEFINE n == Len(s)
           a == SubSeq(s, 1, n)
           b == SubSeq(t, 1, n)
<1>1. n \in 0 .. Len(s) /\ n \in 0 .. Len(t)
  OBVIOUS
<1>2. a \in Seq(Nat) /\ Len(a) = n /\ \A i \in 1 .. n : a[i] = s[i]
  BY <1>1, CutOff
<1>3. b \in Seq(Nat) /\ Len(b) = n /\ \A i \in 1 .. n : b[i] = t[i]
  BY <1>1, CutOff
<1> HIDE DEF a, b
<1>4. a = b
  <2>1. \A i \in 1 .. Len(a) : a[i] = b[i]
    BY <1>2, <1>3
  <2> QED
    BY <1>2, <1>3, <2>1, SeqEqual, Zenon
<1>5. Len(s) = Len(t) => s = t
  BY SeqEqual, Zenon
<1> QED
  BY <1>4, <1>5, Zenon DEF IsPrefix, a, b

\* Headers, and a body behind them.
LEMMA HttpThen ==
    ASSUME NEW body \in Seq(Nat)
    PROVE  /\ Http \o body \in Seq(Nat) /\ Len(Http \o body) = 6 + Len(body) /\ Len(body) \in Nat
           /\ Holds(Http \o body, 0, Http) /\ Holds(Http \o body, 6, body)
<1>1. Http \o body \in Seq(Nat) /\ Len(Http \o body) = Len(Http) + Len(body) /\ Len(body) \in Nat
  BY HttpIs, Concat
<1>2. Holds(Http \o body, 0, Http) /\ Holds(Http \o body, Len(Http), body)
  BY HttpIs, HoldsSelf, HoldsLeft, HoldsRight
<1> QED
  BY <1>1, <1>2, HttpIs

\* The first n bytes of an answer: without their headers, if these are whole.
LEMMA HeadersStripped ==
    ASSUME NEW body \in Seq(Nat), NEW bytes \in Seq(Nat), NEW n \in 0 .. 6 + Len(body),
           Len(bytes) = n, \A i \in 1 .. n : bytes[i] = (Http \o body)[i]
    PROVE  StripHeaders(bytes) = IF n < 6 THEN bytes ELSE SubSeq(bytes, 7, n)
<1> DEFINE ends  == {i \in 4 .. Len(bytes) : SubSeq(bytes, i - 3, i) = BlankLine}
           first == CHOOSE i \in ends : \A j \in ends : i <= j
<1>1. /\ BlankLine \in Seq(Nat) /\ Len(BlankLine) = 4
      /\ BlankLine[1] = 13 /\ BlankLine[2] = 10 /\ BlankLine[3] = 13 /\ BlankLine[4] = 10
  BY DEF BlankLine
<1>2. ASSUME NEW i \in 1 .. 6, i <= n PROVE bytes[i] = Http[i]
  <2>1. i \in 1 .. n /\ i \in 1 .. Len(Http) /\ 0 + i = i
    BY <1>2, HttpIs
  <2>2. (Http \o body)[0 + i] = Http[i]
    BY <2>1, HttpThen, Zenon DEF Holds
  <2> QED
    BY <2>1, <2>2, Zenon
<1>3. ASSUME NEW i \in ends PROVE i \in 6 .. n
  <2>1. i \in 4 .. n /\ SubSeq(bytes, i - 3, i) = BlankLine
    OBVIOUS
  <2>2. SubSeq(bytes, i - 3, i)[1] = bytes[i - 3]
    BY <2>1
  <2>3. bytes[i - 3] = 13
    BY <1>1, <2>1, <2>2
  <2>4. i # 4
    <3> SUFFICES ASSUME i = 4 PROVE FALSE
      OBVIOUS
    <3>1. 1 \in 1 .. 6 /\ 1 <= n /\ i - 3 = 1
      BY <2>1
    <3> QED
      BY <1>2, <2>3, <3>1, HttpIs
  <2>5. i # 5
    <3> SUFFICES ASSUME i = 5 PROVE FALSE
      OBVIOUS
    <3>1. 2 \in 1 .. 6 /\ 2 <= n /\ i - 3 = 2
      BY <2>1
    <3> QED
      BY <1>2, <2>3, <3>1, HttpIs
  <2> HIDE DEF ends
  <2> QED
    BY <2>1, <2>4, <2>5, SMTT(20)
<1>4. ASSUME n >= 6 PROVE 6 \in ends
  <2>1. Holds(bytes, 2, BlankLine)
    <3>1. 3 \in 1 .. 6 /\ 4 \in 1 .. 6 /\ 5 \in 1 .. 6 /\ 6 \in 1 .. 6
          /\ 3 <= n /\ 4 <= n /\ 5 <= n /\ 6 <= n
      BY <1>4
    <3>2. bytes[3] = 13 /\ bytes[4] = 10 /\ bytes[5] = 13 /\ bytes[6] = 10
      BY <1>2, <3>1, HttpIs, Zenon
    <3>3. ASSUME NEW i \in 1 .. 4 PROVE bytes[2 + i] = BlankLine[i]
      BY <1>1, <3>2
    <3>4. 2 \in Nat /\ 2 + Len(BlankLine) <= Len(bytes)
      BY <1>1, <1>4
    <3> QED
      BY <1>1, <3>3, <3>4 DEF Holds
  <2>2. SubSeq(bytes, 2 + 1, 2 + Len(BlankLine)) = BlankLine
    BY <1>1, <2>1, HeldIs
  <2>3. 2 + 1 = 6 - 3 /\ 2 + Len(BlankLine) = 6 /\ 6 \in 4 .. Len(bytes)
    BY <1>1, <1>4
  <2> QED
    BY <2>2, <2>3
<1>5. StripHeaders(bytes) = IF ends = {} THEN bytes ELSE SubSeq(bytes, first + 1, Len(bytes))
  BY DEF StripHeaders
<1> HIDE DEF ends
<1>6. CASE n < 6
  <2>1. ends = {}
    BY <1>3, <1>6
  <2> QED
    BY <1>5, <1>6, <2>1
<1>7. CASE n >= 6
  <2>1. 6 \in ends /\ \A j \in ends : 6 <= j /\ j \in Nat
    BY <1>3, <1>4, <1>7
  <2>2. first \in ends /\ \A j \in ends : first <= j
    BY <2>1
  <2> HIDE DEF first
  <2>3. first = 6
    BY <2>1, <2>2
  <2>4. StripHeaders(bytes) = SubSeq(bytes, 6 + 1, Len(bytes))
    BY <1>5, <2>1, <2>3
  <2> QED
    BY <1>7, <2>4
<1> QED
  BY <1>6, <1>7

\* Of an answer that breaks off there is the beginning, of a whole one the body.
LEMMA StrippedIsCut ==
    ASSUME NEW body \in Seq(Nat), NEW bytes \in Seq(Nat), NEW n \in 0 .. 6 + Len(body),
           Len(bytes) = n, \A i \in 1 .. n : bytes[i] = (Http \o body)[i]
    PROVE  /\ IsPrefix(StripHeaders(bytes), body) \/ IsPrefix(StripHeaders(bytes), Http)
           /\ n = 6 + Len(body) => StripHeaders(bytes) = body
<1> DEFINE got == StripHeaders(bytes)
<1>1. got = IF n < 6 THEN bytes ELSE SubSeq(bytes, 7, n)
  BY HeadersStripped
<1> HIDE DEF got
<1>2. CASE n < 6
  <2>1. got = bytes /\ Len(got) <= Len(Http)
    BY <1>1, <1>2, HttpIs
  <2>2. ASSUME NEW i \in 1 .. Len(got) PROVE got[i] = Http[i]
    <3>1. i \in 1 .. n /\ i \in 1 .. Len(Http) /\ 0 + i = i
      BY <1>2, <2>1, HttpIs
    <3>2. (Http \o body)[0 + i] = Http[i]
      BY <3>1, HttpThen, Zenon DEF Holds
    <3> QED
      BY <2>1, <3>1, <3>2, Zenon
  <2>3. IsPrefix(got, Http)
    BY <2>1, <2>2, HttpIs, PrefixIs, Zenon
  <2> QED
    BY <1>2, <2>3 DEF got
<1>3. CASE ~(n < 6)
  <2>1. got = SubSeq(bytes, 7, n)
    BY <1>1, <1>3
  <2>2. /\ got \in Seq(Nat) /\ Len(got) = n - 6
        /\ \A i \in 1 .. (n - 6) : got[i] = bytes[6 + i]
    <3>1. 7 \in Int /\ n \in Int /\ \A i \in 7 .. n : bytes[i] \in Nat
      OBVIOUS
    <3>2. /\ got \in Seq(Nat) /\ Len(got) = IF 7 <= n THEN n - 7 + 1 ELSE 0
          /\ \A i \in 1 .. n - 7 + 1 : got[i] = bytes[7 + i - 1]
      BY <2>1, <3>1, SubSeqProperties
    <3>3. n - 7 + 1 = n - 6 /\ (IF 7 <= n THEN n - 7 + 1 ELSE 0) = n - 6
      BY <1>3
    <3>4. \A i \in 1 .. n - 6 : 7 + i - 1 = 6 + i
      OBVIOUS
    <3> QED
      BY <3>2, <3>3, <3>4
  <2>3. ASSUME NEW i \in 1 .. Len(got) PROVE got[i] = body[i]
    <3>1. i \in 1 .. (n - 6) /\ 6 + i \in 1 .. n /\ i \in 1 .. Len(body)
      BY <2>2, HttpThen
    <3>2. (Http \o body)[6 + i] = body[i]
      BY <3>1, HttpThen, Zenon DEF Holds
    <3> QED
      BY <2>2, <3>1, <3>2, Zenon
  <2>4. Len(got) <= Len(body) /\ (n = 6 + Len(body) => Len(got) = Len(body))
    BY <2>2, HttpThen
  <2>5. IsPrefix(got, body) /\ (Len(got) = Len(body) => got = body)
    BY <2>2, <2>3, <2>4, PrefixIs, Zenon
  <2> QED
    BY <2>4, <2>5 DEF got
<1> QED
  BY <1>2, <1>3

\* A chunk is a sequence of bytes.
LEMMA ChunkIs == ASSUME NEW data \in Seq(Nat) PROVE Chunk(data) \in Seq(Nat)
<1>1. <<48 + Len(data)>> \in Seq(Nat) /\ <<13, 10>> \in Seq(Nat)
  OBVIOUS
<1> QED
  BY <1>1, Concat DEF Chunk, CrLf

\* So is the body of an answer, in any coding.
LEMMA BodyIs == ASSUME NEW form PROVE Body(form) \in Seq(Nat)
<1>1. SubSeq(Page, 1, 3) \in Seq(Nat) /\ SubSeq(Page, 4, 6) \in Seq(Nat)
  <2>1. \A i \in 1 .. 6 : Page[i] \in Nat
    BY DEF Page
  <2>2. ASSUME NEW m \in 1 .. 6, NEW n \in 1 .. 6 PROVE SubSeq(Page, m, n) \in Seq(Nat)
    <3>1. m \in Int /\ n \in Int /\ \A i \in m .. n : Page[i] \in Nat
      BY <2>1
    <3> QED
      BY <3>1, SubSeqProperties
  <2> QED
    BY <2>2
<1>2. <<>> \in Seq(Nat)
  OBVIOUS
<1>3. Chunked \in Seq(Nat)
  BY <1>1, <1>2, ChunkIs, Concat DEF Chunked
<1> QED
  BY <1>3, PageIs DEF Body

\* What execute makes of the part of a reply that arrived.
CutAtTheEnd(form, n) ==
    LET got == Answer(form, n)
    IN  /\ IsPrefix(got, Body(form)) \/ IsPrefix(got, Http)
        /\ n = Len(ReplyOf(form)) => got = Body(form)

\* However much of a reply arrived, nothing is missing but its end.
LEMMA AnswerIsCut ==
    ASSUME NEW form, NEW n \in 0 .. Len(ReplyOf(form))
    PROVE  CutAtTheEnd(form, n)
<1> DEFINE body  == Body(form)
           bytes == SubSeq(ReplyOf(form), 1, n)
           Begins(got, k) == /\ k \in 0 .. 6 + Len(body) /\ got \in Seq(Nat) /\ Len(got) = k
                             /\ \A i \in 1 .. k : got[i] = (Http \o body)[i]
           Cut(got, whole) == /\ IsPrefix(got, body) \/ IsPrefix(got, Http)
                              /\ whole => got = body
<1>1. body \in Seq(Nat)
  BY BodyIs
<1>2. ASSUME Cut(Answer(form, n), n = Len(ReplyOf(form))) PROVE CutAtTheEnd(form, n)
  BY <1>2 DEF CutAtTheEnd
<1>3. form = "records" => body = Page
  BY DEF Body
<1> HIDE DEF body
<1>4. ASSUME NEW got, NEW k, Begins(got, k) PROVE Cut(StripHeaders(got), k = 6 + Len(body))
  BY <1>1, <1>4, StrippedIsCut
<1>5. CASE form = "records"
  <2> DEFINE out == StdoutIn(SubSeq(FpmReply, 1, n))
  <2>1. n \in 0 .. Len(FpmReply) /\ ReplyOf(form) = FpmReply
    BY <1>5 DEF ReplyOf
  <2>2. out \in {<<>>, Http, Http \o body} /\ (n = Len(FpmReply) => out = Http \o body)
    BY <1>3, <1>5, <2>1, FpmOutput
  <2>3. Answer(form, n) = StripHeaders(out)
    BY <1>5, <2>1 DEF Answer, ExtractStdout
  <2> HIDE DEF out, Cut
  <2>4. Begins(<<>>, 0)
    BY <1>1
  <2>5. Begins(Http, 6)
    <3>1. ASSUME NEW i \in 1 .. 6 PROVE Http[i] = (Http \o body)[i]
      <4>1. i \in 1 .. Len(Http) /\ 0 + i = i
        BY HttpIs
      <4>2. (Http \o body)[0 + i] = Http[i]
        BY <1>1, <4>1, HttpThen, Zenon DEF Holds
      <4> QED
        BY <4>1, <4>2, Zenon
    <3>2. 6 \in 0 .. 6 + Len(body)
      BY <1>1
    <3> QED
      BY <3>1, <3>2, HttpIs, Zenon
  <2>6. Begins(Http \o body, 6 + Len(body))
    <3>1. 6 + Len(body) \in 0 .. 6 + Len(body)
      BY <1>1
    <3> QED
      BY <1>1, <3>1, HttpThen, Zenon
  <2> HIDE DEF Begins
  <2>7. CASE n = Len(FpmReply)
    <3>1. Cut(StripHeaders(out), 6 + Len(body) = 6 + Len(body))
      BY <1>4, <2>2, <2>6, <2>7
    <3>2. Cut(StripHeaders(out), TRUE)
      BY <3>1 DEF Cut
    <3> QED
      BY <1>2, <2>1, <2>3, <3>2, Zenon DEF Cut
  <2>8. CASE n # Len(FpmReply)
    <3>1. \E got, k : Begins(got, k) /\ got = out
      BY <2>2, <2>4, <2>5, <2>6
    <3>2. PICK k : Cut(StripHeaders(out), k = 6 + Len(body))
      BY <1>4, <3>1
    <3> QED
      BY <1>2, <2>1, <2>3, <2>8, <3>2, Zenon DEF Cut
  <2> QED
    BY <2>7, <2>8
<1>6. CASE form # "records"
  <2>1. ReplyOf(form) = Http \o body
    BY <1>6 DEF ReplyOf, body
  <2>2. n \in 0 .. 6 + Len(body) /\ Len(ReplyOf(form)) = 6 + Len(body) /\ ReplyOf(form) \in Seq(Nat)
    BY <1>1, <2>1, HttpThen
  <2>3. /\ bytes \in Seq(Nat) /\ Len(bytes) = n
        /\ \A i \in 1 .. n : bytes[i] = (Http \o body)[i]
    BY <2>1, <2>2, CutOff
  <2>4. Answer(form, n) = StripHeaders(bytes)
    BY <1>6 DEF Answer
  <2> HIDE DEF bytes
  <2>5. Begins(bytes, n)
    BY <2>2, <2>3, Zenon
  <2> HIDE DEF Begins, Cut
  <2>6. Cut(StripHeaders(bytes), n = 6 + Len(body))
    BY <1>4, <2>5
  <2>7. Cut(Answer(form, n), n = Len(ReplyOf(form)))
    BY <2>2, <2>4, <2>6
  <2> QED
    BY <1>2, <2>7 DEF Cut
<1> QED
  BY <1>5, <1>6

\* The smaller of two numbers.
LEMMA MinOfTwo ==
    ASSUME NEW a \in Nat, NEW b \in Nat
    PROVE  Min({a, b}) \in Nat /\ Min({a, b}) <= b
<1> DEFINE S == {a, b}
           x == CHOOSE y \in S : \A z \in S : y <= z
<1>1. \E y \in S : \A z \in S : y <= z
  <2>1. CASE a <= b
    BY <2>1
  <2>2. CASE ~(a <= b)
    BY <2>2
  <2> QED
    BY <2>1, <2>2
<1>2. x \in S /\ \A z \in S : x <= z
  <2> HIDE DEF S
  <2> QED
    BY <1>1
<1>3. Min(S) = x
  BY DEF Min
<1> HIDE DEF x
<1> QED
  BY <1>2, <1>3

\* No more is taken for sent than there is to send.
SentKnown ==
    /\ conn.sent \in 0 .. Len(ReplyOf(conn.form))
    /\ conn.read = None => conn.sent = 0
    /\ last.answered => last.sent \in 0 .. Len(ReplyOf(last.form))

\* Replies have lengths.
LEMMA ReplyLong == \A form : Len(ReplyOf(form)) \in Nat
<1>1. FpmReply \in Seq(Nat)
  BY FpmReplyIs, Zenon DEF InRow
<1>2. ASSUME NEW form PROVE Http \o Body(form) \in Seq(Nat)
  BY BodyIs, HttpThen
<1> QED
  BY <1>1, <1>2 DEF ReplyOf

\* More of a reply arrives, never more than it has.
LEMMA SendKept == ASSUME Inv, SentKnown, SendReply PROVE SentKnown'
<1>1. UNCHANGED last /\ conn.read # None
  BY DEF SendReply
<1>2. conn.sent \in Nat /\ Len(Reply) \in Nat /\ Segment \in Nat
  BY ReplyLong, BackendBounds DEF SentKnown, Reply
<1>3. /\ conn'.sent = Min({conn.sent + Segment, Len(Reply)})
      /\ conn'.form = conn.form /\ conn'.read = conn.read
  BY DEF SendReply, Inv, Types
<1>4. conn'.sent \in 0 .. Len(Reply)
  <2> DEFINE a == conn.sent + Segment
             b == Len(Reply)
  <2>1. a \in Nat /\ b \in Nat
    BY <1>2
  <2> HIDE DEF a, b
  <2>2. Min({a, b}) \in Nat /\ Min({a, b}) <= b
    BY <2>1, MinOfTwo
  <2> QED
    BY <1>3, <2>1, <2>2 DEF a, b
<1> QED
  BY <1>1, <1>3, <1>4 DEF SentKnown, Reply

\* Every step keeps count of what was sent.
LEMMA SentKept == ASSUME Inv, SentKnown, [Next]_vars PROVE SentKnown'
<1>1. ASSUME UNCHANGED conn, UNCHANGED last \/ last' = NoReply PROVE SentKnown'
  BY <1>1 DEF SentKnown, NoReply
<1>2. 0 \in 0 .. Len(ReplyOf("none"))
  BY ReplyLong
<1>3. CASE BeginRun \/ EndRun \/ StartFpm \/ StartFrankenPhp \/ StartFails \/ StartSucceeds
              \/ PollAgain \/ StartTimesOut \/ ConnectFails \/ WriteRequest \/ DropBackend
  BY <1>1, <1>3 DEF BeginRun, EndRun, StartFpm, StartFrankenPhp, StartFails, StartSucceeds,
     PollAgain, StartTimesOut, ConnectFails, WriteRequest, DropBackend
<1>4. CASE RunKilled
  BY <1>2, <1>4 DEF RunKilled, NoConn, NoReply, SentKnown
<1>5. ASSUME NEW ask \in Asks, Connect(ask) PROVE SentKnown'
  <2>1. conn' = [to |-> Listener, ask |-> ask, read |-> None, form |-> "none", sent |-> 0]
        /\ last' = NoReply
    BY <1>5 DEF Connect, NoConn
  <2> QED
    BY <1>2, <2>1 DEF NoReply, SentKnown
<1>6. CASE WriteFails \/ ReadEnds \/ ReadIsReset \/ ReadTimesOut
  <2>1. PICK answered : Finish(answered)
    BY <1>6, Zenon DEF WriteFails, ReadEnds, ReadIsReset, ReadTimesOut
  <2>2. /\ conn' = NoConn
        /\ last' = [answered |-> answered, form |-> conn.form, sent |-> conn.sent]
    BY <2>1 DEF Finish
  <2> QED
    BY <1>2, <2>2 DEF NoConn, SentKnown
<1>7. ASSUME NEW s \in Servers, Server(s) PROVE SentKnown'
  BY <1>1, <1>7 DEF Server, MakeSocket, Listen, BindPort, ServerCrashes
<1>8. CASE ReadRequest
  <2>1. UNCHANGED last /\ conn.read = None
    BY <1>8 DEF ReadRequest
  <2>2. conn'.sent = conn.sent
    BY <1>8 DEF ReadRequest, Inv, Types
  <2>3. Len(ReplyOf(conn'.form)) \in Nat
    BY ReplyLong
  <2> QED
    BY <2>1, <2>2, <2>3 DEF SentKnown
<1>9. CASE UNCHANGED vars
  BY <1>1, <1>9 DEF vars
<1> QED
  BY <1>3, <1>4, <1>5, <1>6, <1>7, <1>8, <1>9, SendKept DEF Next, Benchmark

(* However an answer is cut into pieces and wherever it breaks off: what    *)
(* execute returns is what was sent for the page (of a chunked answer with  *)
(* its chunk sizes), or the beginning of that or of the headers, and never  *)
(* what PHP wrote to stderr.                                                *)
THEOREM AnswerCutAtTheEnd == Spec => []AnswerOnlyCutAtTheEnd
<1>1. Init => SentKnown
  <2>1. 0 \in 0 .. Len(ReplyOf("none"))
    BY ReplyLong
  <2> QED
    BY <2>1 DEF Init, SentKnown, NoConn, NoReply
<1>2. Inv /\ SentKnown /\ [Next]_vars => SentKnown'
  BY SentKept
<1>3. SentKnown => AnswerOnlyCutAtTheEnd
  <2> SUFFICES ASSUME SentKnown, last.answered
               PROVE  LET got == Answer(last.form, last.sent)
                      IN  /\ IsPrefix(got, Body(last.form)) \/ IsPrefix(got, Http)
                          /\ last.sent = Len(ReplyOf(last.form)) => got = Body(last.form)
    BY DEF AnswerOnlyCutAtTheEnd
  <2>1. CutAtTheEnd(last.form, last.sent)
    BY AnswerIsCut DEF SentKnown
  <2> QED
    BY <2>1 DEF CutAtTheEnd
<1> QED
  BY <1>1, <1>2, <1>3, InvAlways, PTL DEF Spec
=============================================================================
