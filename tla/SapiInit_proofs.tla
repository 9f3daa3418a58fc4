-------------------------- MODULE SapiInit_proofs --------------------------
(***************************************************************************)
(* What SapiInit guarantees for any set of threads and any number of calls *)
(* of instance() and shutdown().  Why a thread that asks is answered is a  *)
(* matter of fairness and left to TLC.                                     *)
(***************************************************************************)
EXTENDS SapiInit, TLAPS

\* A thread between EnterClosure and Publish.
Busy(t) == thread[t] \in {"starting", "started", "failed"}

\* get_or_init: the closure belongs to one thread, and while it runs there is
\* no result.
OneStarter ==
    /\ \A t \in Threads : Busy(t) => cell = "running"
    /\ \A t, u \in Threads : Busy(t) /\ Busy(u) => t = u

\* php_module_startup has not been called before the closure gets there.
CountOfStartups ==
    /\ cell = "empty" => startups = 0
    /\ \A t \in Threads : thread[t] = "starting" => startups = 0
    /\ StartedOnce

\* What is up at each point of the closure.
EngineByPoint ==
    /\ cell \in {"empty", "failed"} => engine = Down
    /\ shutdowns = 0 /\ cell = "ok" => engine.sapi /\ engine.module
    /\ \A t \in Threads :
          /\ thread[t] = "starting" =>
                ~engine.module /\ (shutdowns = 0 => engine.sapi)
          /\ thread[t] = "failed" => engine = Down
          /\ thread[t] = "started" /\ shutdowns = 0 => engine.sapi /\ engine.module

Inv == TypeOK /\ OneStarter /\ CountOfStartups /\ SameAnswer /\ EngineByPoint

\* Before the first call nothing is up and nothing was answered.
LEMMA InitInv == Init => Inv
  BY InitBounds DEF Init, Inv, TypeOK, Cells, Down, OneStarter, Busy,
     CountOfStartups, StartedOnce, SameAnswer, EngineByPoint

\* Each step of a thread preserves the invariant.
LEMMA NextInv == Inv /\ [Next]_vars => Inv'
<1> SUFFICES ASSUME Inv, [Next]_vars
             PROVE  Inv'
    OBVIOUS
<1> USE InitBounds DEF Inv, TypeOK, Cells, Down, OneStarter, Busy, CountOfStartups,
        StartedOnce, SameAnswer, EngineByPoint, Move
<1>1. ASSUME NEW t \in Threads, Ask(t)
      PROVE  Inv'
      BY <1>1 DEF Ask
<1>2. ASSUME NEW t \in Threads, EnterClosure(t)
      PROVE  Inv'
  <2>1. engine' = [sapi |-> TRUE, module |-> FALSE]
    <3>1. engine = Down
          BY <1>2 DEF EnterClosure
    <3> QED
        BY <1>2, <3>1 DEF EnterClosure
  <2>2. thread' = [thread EXCEPT ![t] = "starting"] /\ cell = "empty" /\ cell' = "running"
        BY <1>2 DEF EnterClosure
  <2>3. TypeOK'
        BY <1>2, <2>1, <2>2 DEF EnterClosure
  <2>6. OneStarter'
        BY <1>2, <2>1, <2>2 DEF EnterClosure
  <2>7. CountOfStartups'
        BY <1>2, <2>1, <2>2 DEF EnterClosure
  <2>4. SameAnswer'
        BY <1>2, <2>2 DEF EnterClosure
  <2>5. EngineByPoint'
        BY <1>2, <2>1, <2>2 DEF EnterClosure
  <2> QED
      BY <2>3, <2>4, <2>5, <2>6, <2>7
<1>3. ASSUME NEW t \in Threads, ModuleStartup(t)
      PROVE  Inv'
  <2>1. engine' = [sapi |-> engine.sapi, module |-> TRUE]
        BY <1>3 DEF ModuleStartup
  <2>2. thread' = [thread EXCEPT ![t] = "started"] /\ cell = "running" /\ cell' = cell
        BY <1>3 DEF ModuleStartup
  <2>3. TypeOK'
    <3>1. engine' \in [sapi : BOOLEAN, module : BOOLEAN]
          BY <2>1
    <3>2. startups' \in Nat
          BY <1>3 DEF ModuleStartup
    <3>3. thread' \in [Threads -> {"out", "asking", "starting", "started", "failed",
                               "holding", "executing"}]
          BY <2>2
    <3> QED
        BY <1>3, <2>2, <3>1, <3>2, <3>3 DEF ModuleStartup
  <2>6. OneStarter'
        BY <1>3, <2>1, <2>2 DEF ModuleStartup
  <2>7. CountOfStartups'
        BY <1>3, <2>1, <2>2 DEF ModuleStartup
  <2>4. SameAnswer'
        BY <1>3, <2>2 DEF ModuleStartup
  <2>5. EngineByPoint'
        BY <1>3, <2>1, <2>2 DEF ModuleStartup
  <2> QED
      BY <2>3, <2>4, <2>5, <2>6, <2>7
<1>4. ASSUME NEW t \in Threads, ModuleStartupFails(t)
      PROVE  Inv'
  <2>1. engine' = Down
        BY <1>4 DEF ModuleStartupFails
  <2>2. thread' = [thread EXCEPT ![t] = "failed"] /\ cell = "running" /\ cell' = cell
        BY <1>4 DEF ModuleStartupFails
  <2>3. TypeOK'
    <3>1. engine' \in [sapi : BOOLEAN, module : BOOLEAN]
          BY <2>1
    <3>2. startups' \in Nat
          BY <1>4 DEF ModuleStartupFails
    <3>3. thread' \in [Threads -> {"out", "asking", "starting", "started", "failed",
                               "holding", "executing"}]
          BY <2>2
    <3> QED
        BY <1>4, <2>2, <3>1, <3>2, <3>3 DEF ModuleStartupFails
  <2>6. OneStarter'
        BY <1>4, <2>1, <2>2 DEF ModuleStartupFails
  <2>7. CountOfStartups'
        BY <1>4, <2>1, <2>2 DEF ModuleStartupFails
  <2>4. SameAnswer'
        BY <1>4, <2>2 DEF ModuleStartupFails
  <2>5. EngineByPoint'
        BY <1>4, <2>1, <2>2 DEF ModuleStartupFails
  <2> QED
      BY <2>3, <2>4, <2>5, <2>6, <2>7
<1>5. ASSUME NEW t \in Threads, Publish(t)
      PROVE  Inv'
      BY <1>5 DEF Publish
<1>6. ASSUME NEW t \in Threads, Answer(t)
      PROVE  Inv'
      BY <1>6 DEF Answer
<1>7. ASSUME NEW t \in Threads, DropHandle(t)
      PROVE  Inv'
      BY <1>7 DEF DropHandle
<1>8. ASSUME NEW t \in Threads, Shutdown(t)
      PROVE  Inv'
      BY <1>8 DEF Shutdown
<1>9. ASSUME NEW t \in Threads, Execute(t)
      PROVE  Inv'
      BY <1>9 DEF Execute, IsInitialized
<1>10. ASSUME NEW t \in Threads, Return(t)
       PROVE  Inv'
       BY <1>10 DEF Return
<1>11. CASE UNCHANGED vars
       BY <1>11 DEF vars
<1> QED
    BY <1>1, <1>2, <1>3, <1>4, <1>5, <1>6, <1>7, <1>8, <1>9, <1>10, <1>11
       DEF Next, Starting

LEMMA InvAlways == Spec => []Inv
  BY InitInv, NextInv, PTL DEF Spec

(* The variables keep the types the code gives them.                       *)
THEOREM TypeCorrect == Spec => []TypeOK
<1>1. Inv => TypeOK
      BY DEF Inv
<1> QED
    BY <1>1, InvAlways, PTL

(* The engine is started at most once in the process: PHP_INIT_RESULT      *)
(* serializes the threads and keeps a failure.                             *)
THEOREM EngineStartedOnce == Spec => []StartedOnce
<1>1. Inv => StartedOnce
      BY DEF Inv, CountOfStartups
<1> QED
    BY <1>1, InvAlways, PTL

(* Every caller of instance() is told the same, and is_initialized agrees. *)
THEOREM EveryoneToldTheSame == Spec => []SameAnswer
<1>1. Inv => SameAnswer
      BY DEF Inv
<1> QED
    BY <1>1, InvAlways, PTL

(* Without a shutdown, whoever holds a RiphtSapi finds the engine up; and  *)
(* a start that failed has taken down what it had brought up.              *)
THEOREM HandleMeansUp == Spec => [](UpWhileHeld /\ DownWhenFailed)
<1>1. Inv => UpWhileHeld /\ DownWhenFailed
      BY DEF Inv, TypeOK, SameAnswer, EngineByPoint, UpWhileHeld, DownWhenFailed
<1> QED
    BY <1>1, InvAlways, PTL

(* No call of instance() brings an engine back that was shut down.         *)
THEOREM ShutdownIsFinal == Spec => NoRevival
<1>1. ASSUME Inv, [Next]_vars, cell = "ok", engine = Down
      PROVE  engine' = Down
  <2>1. ASSUME NEW t \in Threads, Starting(t)
        PROVE  engine' = Down
        BY <1>1, <2>1 DEF Inv, OneStarter, Busy, Starting, EnterClosure,
           ModuleStartup, ModuleStartupFails, Publish, Answer, Move
  <2> QED
      BY <1>1, <2>1 DEF Next, Ask, DropHandle, Shutdown, Execute, Return, vars
<1>2. Inv /\ [Next]_vars => [cell = "ok" /\ engine = Down => engine' = Down]_vars
      BY <1>1
<1> QED
    BY <1>2, InvAlways, PTL DEF Spec, NoRevival
=============================================================================
