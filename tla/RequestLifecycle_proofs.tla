----------------------- MODULE RequestLifecycle_proofs -----------------------
(***************************************************************************)
(* For every set of calls and all bounds, in two parts.                    *)
(*                                                                         *)
(* Who owns a request's context, and who can reach it.                     *)
(* The inductive invariant Inv says where each call is, who owns its box   *)
(* at each step, and which calls sapi_globals can still point to; it holds *)
(* whether or not hooks call execute again.  Alone adds what is true only  *)
(* when they do not: one call is in progress and the pointers are its own. *)
(* The engine's callbacks change none of this: lemma QuietStep deals with  *)
(* all of them at once.                                                    *)
(***************************************************************************)
EXTENDS RequestLifecycle, TLAPS

\* From the publication of a context until its pointer is cleared.
Published == Exposed \cup {"reclaim", "failed", "failing"}

\* The pointers cleanup_globals clears.
Cleared == InfoFields \ {"method"}

Shape ==
    /\ sg  = [ctx |-> sg.ctx, info |-> sg.info, code |-> sg.code, hdrs |-> sg.hdrs,
              headersSent |-> sg.headersSent, postRead |-> sg.postRead]
    /\ php = [ob |-> php.ob, open |-> php.open]

\* A call that is not at a hook is the one that is running.
WorkingIsRunning == \A c \in Calls : pc[c] \in ActivePcs \ HookPcs => running = c

HeapByPc == \A c \in Calls :
    /\ pc[c] \in {"idle", "creating", "rejected"} => heap[c] = "none"
    /\ pc[c] \in Exposed \cup {"reclaim"} => heap[c] = "raw"
    /\ pc[c] = "report" => heap[c] = "owned"
    /\ pc[c] \in {"failed", "failing", "ok", "startup_failed"} => heap[c] = "freed"
    /\ pc[c] = "panicked" => heap[c] \in {"none", "raw", "freed"}

\* A context that was leaked by a panicking hook stays valid memory.
Leaked(c) == pc[c] = "panicked" /\ heap[c] = "raw"

\* What server_context and the pointers cleanup_globals clears can point to.
CtxAccounted == sg.ctx # None => pc[sg.ctx] \in Published \/ Leaked(sg.ctx)

InfoAccounted == \A f \in Cleared : sg.info[f] # None =>
    \/ pc[sg.info[f]] \in Published \cup {"startup_failed"}
    \/ Leaked(sg.info[f])

ClosedAtReclaim == \A c \in Calls : pc[c] = "reclaim" => ~php.open

Inv ==
    /\ TypeOK /\ Shape /\ WorkingIsRunning /\ HeapByPc
    /\ CtxAccounted /\ InfoAccounted
    /\ ClosedAtReclaim /\ FaultsOnlyAfterFailedStartup

OneInProgress ==
    /\ \A c \in Calls : parent[c] = None
    /\ \A c \in Calls : pc[c] \in ActivePcs <=> running = c

OwnPointers == \A c \in Calls :
    /\ pc[c] \in Published => sg.ctx = c
    /\ pc[c] \in Exposed =>
          /\ \A f \in InfoFields \ {"cookie"} : sg.info[f] = c
          /\ pc[c] # "starting" => sg.info["cookie"] = c

Alone == OneInProgress /\ OwnPointers

\* A step inside the engine that calls back but moves no call on.
Quiet(c) ==
    /\ InEngine(c, EnginePcs)
    /\ UNCHANGED <<pc, mode, running, parent, heap>>
    /\ sg'  = [ctx |-> sg.ctx, info |-> sg.info, code |-> sg'.code, hdrs |-> sg'.hdrs,
               headersSent |-> sg'.headersSent, postRead |-> sg'.postRead]
    /\ sg'.headersSent \in BOOLEAN /\ sg'.postRead \in BOOLEAN
    /\ php' = [ob |-> php'.ob, open |-> php.open]
    /\ fault' = fault \/ (fault' = fault \cup {pc[c]} /\ HasContext /\ ~Live)

\* The engine finds a freed context published only after a failed startup.
LEMMA StaleIsFailed ==
    ASSUME Inv, NEW c \in Calls, InEngine(c, EnginePcs), HasContext, ~Live
    PROVE  pc[c] = "failed"
<1> USE NoneAssumption
<1>1. sg.ctx \in Calls /\ heap[sg.ctx] = "freed"
  BY DEF HasContext, Live, Inv, TypeOK, Pointers
<1>2. pc[sg.ctx] \in {"failed", "failing"}
  BY <1>1 DEF HasContext, Inv, CtxAccounted, HeapByPc, Published, Leaked
<1>3. running = sg.ctx
  BY <1>1, <1>2 DEF Inv, WorkingIsRunning, ActivePcs, EnginePcs, HookPcs
<1> QED
  BY <1>2, <1>3 DEF InEngine, EnginePcs

LEMMA QuietStep ==
    ASSUME Inv, NEW c \in Calls, Quiet(c)
    PROVE  Inv' /\ (Alone => Alone')
<1> USE NoneAssumption
<1>1. HasContext /\ ~Live => pc[c] = "failed"
  BY StaleIsFailed DEF Quiet
<1>2. fault' \subseteq {"failed"}
  BY <1>1 DEF Inv, Quiet, FaultsOnlyAfterFailedStartup
<1>3. sg'.ctx = sg.ctx /\ sg'.info = sg.info /\ php'.open = php.open
  BY DEF Quiet
<1>4. Shape'
  BY DEF Quiet, Shape
<1>5. TypeOK'
  BY <1>2, <1>3 DEF Inv, TypeOK, Quiet, EnginePcs
<1>6. WorkingIsRunning' /\ HeapByPc' /\ ClosedAtReclaim'
  BY <1>3 DEF Inv, Quiet, WorkingIsRunning, HeapByPc, ClosedAtReclaim
<1>7. CtxAccounted' /\ InfoAccounted'
  BY <1>3 DEF Inv, Quiet, CtxAccounted, InfoAccounted, Leaked
<1>8. Alone => Alone'
  BY <1>3 DEF Quiet, Alone, OneInProgress, OwnPointers
<1> QED
  BY <1>2, <1>4, <1>5, <1>6, <1>7, <1>8 DEF Inv, FaultsOnlyAfterFailedStartup

LEMMA SpeaksIsQuiet ==
    ASSUME Inv, NEW c \in Calls, EngineSpeaks(c) \/ CallUbWrite(c, FALSE)
    PROVE  Quiet(c)
<1> USE DEF Inv, TypeOK, Shape, Quiet, InEngine, EnginePcs
<1> DEFINE Touches == fault' = IF HasContext /\ ~Live THEN fault \cup {pc[c]} ELSE fault
<1>1. CASE Echo(c)
  BY <1>1 DEF Echo
<1>2. CASE \E wellFormed \in BOOLEAN : SetHeader(c, wellFormed)
  BY <1>2 DEF SetHeader
<1>3. CASE \E code \in Codes : SetCode(c, code)
  BY <1>3 DEF SetCode
<1>4. CASE \E panics \in BOOLEAN : CallUbWrite(c, panics)
  <2>1. Touches /\ php' = [php EXCEPT !.ob = <<>>]
        /\ sg' = [sg EXCEPT !.headersSent = HeadersOut]
        /\ UNCHANGED <<pc, mode, running, parent, heap>>
        /\ InEngine(c, {"script", "drain"})
    BY <1>4 DEF CallUbWrite, Touch
  <2> QED
    BY <2>1 DEF HeadersOut, HasContext
<1>5. CASE CallFlush(c)
  BY <1>5 DEF CallFlush, Touch, HeadersOut, HasContext
<1>6. CASE \E n \in ReadSizes : CallReadPost(c, n)
  <2>1. PICK n \in ReadSizes : CallReadPost(c, n)
    BY <1>6
  <2>2. sg' = sg \/ sg' = [sg EXCEPT !.postRead = TRUE]
    BY <2>1 DEF CallReadPost
  <2>3. Touches /\ UNCHANGED <<pc, mode, running, parent, heap, php>>
        /\ InEngine(c, {"startup", "script", "drain"})
    BY <2>1 DEF CallReadPost, Touch
  <2> QED
    BY <2>2, <2>3
<1>7. CASE CallLogMessage(c)
  BY <1>7 DEF CallLogMessage, Touch
<1> QED
  BY <1>1, <1>2, <1>3, <1>4, <1>5, <1>6, <1>7 DEF EngineSpeaks
-----------------------------------------------------------------------------

LEMMA InitInv == Init => Inv /\ Alone
<1> USE NoneAssumption
<1> SUFFICES ASSUME Init PROVE Inv /\ Alone
  OBVIOUS
<1>1. TypeOK /\ Shape /\ FaultsOnlyAfterFailedStartup
  BY DEF Init, TypeOK, Shape, FaultsOnlyAfterFailedStartup, NoPointer, Pointers
<1>2. WorkingIsRunning /\ OneInProgress /\ HeapByPc /\ ClosedAtReclaim
  BY DEF Init, WorkingIsRunning, OneInProgress, HeapByPc, ClosedAtReclaim,
         ActivePcs, EnginePcs, HookPcs, Exposed
<1>3. CtxAccounted /\ InfoAccounted /\ OwnPointers
  BY DEF Init, CtxAccounted, InfoAccounted, OwnPointers, NoPointer, Published, Exposed, Cleared
<1> QED
  BY <1>1, <1>2, <1>3 DEF Inv, Alone

\* The steps of a call that leave the globals and the heap alone.
LEMMA PlainStep ==
    ASSUME Inv, NEW c \in Calls, NEW from, NEW to, Goto(c, from, to),
           \/ from = "startup"  /\ to = "started"
           \/ from = "started"  /\ to = "script"
           \/ from = "script"   /\ to = "executed"
           \/ from = "executed" /\ to = "drain",
           UNCHANGED <<mode, running, parent, php, heap, fault>>,
           sg' = sg \/ sg' = [sg EXCEPT !.postRead = TRUE]
    PROVE  Inv' /\ (Alone => Alone')
<1> USE NoneAssumption
<1>1. /\ from \in {"startup", "started", "script", "executed"}
      /\ to \in {"started", "script", "executed", "drain"}
      /\ pc[c] = from /\ running = c /\ pc' = [pc EXCEPT ![c] = to]
  BY DEF Goto
<1>2. /\ sg'.ctx = sg.ctx /\ sg'.info = sg.info /\ Shape'
      /\ sg'.headersSent \in BOOLEAN /\ sg'.postRead \in BOOLEAN
  BY DEF Inv, Shape, TypeOK
<1>3. TypeOK' /\ FaultsOnlyAfterFailedStartup'
  BY <1>1, <1>2 DEF Inv, TypeOK, FaultsOnlyAfterFailedStartup, ActivePcs, EnginePcs, HookPcs
<1>4. WorkingIsRunning' /\ HeapByPc' /\ ClosedAtReclaim'
  BY <1>1 DEF Inv, TypeOK, WorkingIsRunning, HeapByPc, ClosedAtReclaim,
              ActivePcs, EnginePcs, HookPcs, Exposed
<1>5. CtxAccounted' /\ InfoAccounted'
  BY <1>1, <1>2 DEF Inv, TypeOK, CtxAccounted, InfoAccounted, Published, Exposed, Leaked
<1>6. Alone => OneInProgress'
  BY <1>1 DEF Inv, TypeOK, Alone, OneInProgress, ActivePcs, EnginePcs, HookPcs
<1>7. Alone => OwnPointers'
  BY <1>1, <1>2 DEF Inv, TypeOK, Alone, OwnPointers, Published, Exposed
<1> QED
  BY <1>2, <1>3, <1>4, <1>5, <1>6, <1>7 DEF Inv, Alone

\* A call starts; another one may be suspended in a hook.
LEMMA StartsStep ==
    ASSUME Inv, NEW c \in Calls, Starts(c)
    PROVE  Inv' /\ (~Reentrant /\ Alone => Alone')
<1> USE NoneAssumption
<1>1. pc[c] = "idle" /\ (running # None => AtHook(running) /\ Reentrant)
  BY DEF Starts, Reject, Begin, MayStart
<1>2. UNCHANGED <<sg, php, heap, fault>>
  BY DEF Starts, Reject, Begin
<1>3. PICK to \in {"creating", "rejected"} :
         /\ pc' = [pc EXCEPT ![c] = to]
         /\ running' = IF to = "creating" THEN c ELSE running
         /\ parent'  = IF to = "creating" THEN [parent EXCEPT ![c] = running] ELSE parent
         /\ mode' \in [Calls -> {"hooks", "stream"}]
  BY DEF Starts, Reject, Begin, Inv, TypeOK
<1>4. TypeOK' /\ Shape' /\ FaultsOnlyAfterFailedStartup'
  BY <1>1, <1>2, <1>3 DEF Inv, TypeOK, Shape, FaultsOnlyAfterFailedStartup,
     Pointers, ActivePcs, HookPcs, Outcomes
<1>5. WorkingIsRunning'
  <2> SUFFICES ASSUME NEW d \in Calls, pc'[d] \in ActivePcs \ HookPcs PROVE FALSE
    BY DEF WorkingIsRunning
  <2>1. d # c /\ pc[d] \in ActivePcs \ HookPcs
    BY <1>3 DEF Inv, TypeOK, ActivePcs, EnginePcs, HookPcs
  <2>2. running = d
    BY <2>1 DEF Inv, WorkingIsRunning
  <2> QED
    BY <1>1, <2>1, <2>2 DEF AtHook
<1>6. HeapByPc' /\ ClosedAtReclaim'
  BY <1>1, <1>2, <1>3 DEF Inv, TypeOK, HeapByPc, ClosedAtReclaim, Exposed
<1>7. CtxAccounted' /\ InfoAccounted'
  BY <1>1, <1>2, <1>3 DEF Inv, TypeOK, CtxAccounted, InfoAccounted, Published,
     Exposed, Leaked, Cleared
<1>8. ~Reentrant /\ Alone => Alone'
  BY <1>1, <1>2, <1>3 DEF Inv, TypeOK, Alone, OneInProgress, OwnPointers, Published, Exposed,
     ActivePcs, EnginePcs, HookPcs
<1> QED
  BY <1>4, <1>5, <1>6, <1>7, <1>8 DEF Inv

\* The box is built and published.
LEMMA PublishStep ==
    ASSUME Inv, NEW c \in Calls, Publish(c)
    PROVE  Inv' /\ (Alone => Alone')
<1> USE NoneAssumption
<1>1. /\ pc[c] = "creating" /\ running = c /\ pc' = [pc EXCEPT ![c] = "starting"]
      /\ heap' = [heap EXCEPT ![c] = "raw"]
      /\ UNCHANGED <<mode, running, parent, php, fault>>
  BY DEF Publish, Goto
<1>2. /\ sg'.ctx = c /\ Shape'
      /\ sg'.info = [f \in InfoFields |-> IF f = "cookie" THEN sg.info[f] ELSE c]
      /\ sg'.headersSent = sg.headersSent /\ sg'.postRead = sg.postRead
  BY DEF Publish, SetupGlobals, Inv, Shape
<1>3. TypeOK' /\ FaultsOnlyAfterFailedStartup'
  BY <1>1, <1>2 DEF Inv, TypeOK, FaultsOnlyAfterFailedStartup, Pointers, ActivePcs, HookPcs
<1>4. WorkingIsRunning' /\ HeapByPc' /\ ClosedAtReclaim'
  BY <1>1 DEF Inv, TypeOK, WorkingIsRunning, HeapByPc, ClosedAtReclaim,
              ActivePcs, EnginePcs, HookPcs, Exposed
<1>5. CtxAccounted'
  BY <1>1, <1>2 DEF Inv, TypeOK, CtxAccounted, Published, Exposed
<1>6. InfoAccounted'
  BY <1>1, <1>2 DEF Inv, TypeOK, InfoAccounted, Published, Exposed, Leaked, InfoFields, Cleared
<1>7. Alone => OneInProgress'
  BY <1>1 DEF Inv, TypeOK, Alone, OneInProgress, ActivePcs, EnginePcs, HookPcs
<1>8. Alone => OwnPointers'
  BY <1>1, <1>2 DEF Inv, TypeOK, Alone, OneInProgress, OwnPointers, Published, Exposed,
                    ActivePcs, EnginePcs, HookPcs, InfoFields
<1> QED
  BY <1>2, <1>3, <1>4, <1>5, <1>6, <1>7, <1>8 DEF Inv, Alone

LEMMA EnterStartupStep ==
    ASSUME Inv, NEW c \in Calls, EnterStartup(c)
    PROVE  Inv' /\ (Alone => Alone')
<1> USE NoneAssumption
<1>1. /\ pc[c] = "starting" /\ running = c /\ pc' = [pc EXCEPT ![c] = "startup"]
      /\ UNCHANGED <<mode, running, parent, heap, fault>>
  BY DEF EnterStartup, Goto
<1>2. /\ sg'.ctx = sg.ctx /\ Shape' /\ php'.open = TRUE
      /\ sg'.info = [sg.info EXCEPT !["cookie"] = sg.ctx]
      /\ sg'.headersSent = FALSE /\ sg'.postRead = FALSE
  BY DEF EnterStartup, Inv, Shape
<1>3. TypeOK' /\ FaultsOnlyAfterFailedStartup'
  <2>1. sg'.info \in [InfoFields -> Pointers]
    BY <1>2 DEF Inv, TypeOK
  <2>2. pc' \in [Calls -> {"idle"} \cup ActivePcs \cup Outcomes]
    BY <1>1 DEF Inv, TypeOK, ActivePcs, EnginePcs
  <2> QED
    BY <1>1, <1>2, <2>1, <2>2 DEF Inv, TypeOK, FaultsOnlyAfterFailedStartup
<1>4. WorkingIsRunning' /\ HeapByPc'
  BY <1>1 DEF Inv, TypeOK, WorkingIsRunning, HeapByPc, ActivePcs, EnginePcs, HookPcs, Exposed
<1>5. ClosedAtReclaim'
  BY <1>1 DEF Inv, TypeOK, WorkingIsRunning, ClosedAtReclaim, ActivePcs, EnginePcs, HookPcs
<1>6. CtxAccounted'
  BY <1>1, <1>2 DEF Inv, TypeOK, CtxAccounted, Published, Exposed, Leaked
<1>7. InfoAccounted'
  BY <1>1, <1>2 DEF Inv, TypeOK, CtxAccounted, InfoAccounted, Published, Exposed, Leaked,
                    InfoFields, Cleared
<1>8. Alone => OneInProgress'
  BY <1>1 DEF Inv, TypeOK, Alone, OneInProgress, ActivePcs, EnginePcs, HookPcs
<1>9. Alone => OwnPointers'
  BY <1>1, <1>2 DEF Inv, TypeOK, Alone, OneInProgress, OwnPointers, Published, Exposed,
                    ActivePcs, EnginePcs, HookPcs, InfoFields
<1> QED
  BY <1>2, <1>3, <1>4, <1>5, <1>6, <1>7, <1>8, <1>9 DEF Inv, Alone

LEMMA DropFailedStep ==
    ASSUME Inv, NEW c \in Calls, DropFailed(c)
    PROVE  Inv' /\ (Alone => Alone')
<1> USE NoneAssumption
<1>1. /\ pc[c] = "startup" /\ running = c /\ pc' = [pc EXCEPT ![c] = "failed"]
      /\ heap' = [heap EXCEPT ![c] = "freed"]
      /\ UNCHANGED <<mode, running, parent, sg, php, fault>>
  BY DEF DropFailed, Goto
<1>2. TypeOK' /\ Shape' /\ FaultsOnlyAfterFailedStartup'
  BY <1>1 DEF Inv, TypeOK, Shape, FaultsOnlyAfterFailedStartup, ActivePcs, EnginePcs
<1>3. WorkingIsRunning' /\ HeapByPc' /\ ClosedAtReclaim'
  BY <1>1 DEF Inv, TypeOK, WorkingIsRunning, HeapByPc, ClosedAtReclaim,
              ActivePcs, EnginePcs, HookPcs, Exposed
<1>4. CtxAccounted' /\ InfoAccounted'
  BY <1>1 DEF Inv, TypeOK, CtxAccounted, InfoAccounted, Published, Exposed, Leaked, Cleared
<1>5. Alone => Alone'
  BY <1>1 DEF Inv, TypeOK, Alone, OneInProgress, OwnPointers, Published, Exposed,
              ActivePcs, EnginePcs, HookPcs
<1> QED
  BY <1>2, <1>3, <1>4, <1>5 DEF Inv

\* The end of php_request_shutdown, on both paths.
LEMMA DeactivateStep ==
    ASSUME Inv, NEW c \in Calls, Deactivate(c)
    PROVE  Inv' /\ (Alone => Alone')
<1> USE NoneAssumption
<1>1. PICK from \in {"drain", "failed"}, to \in {"reclaim", "failing"} :
         /\ from = "drain" <=> to = "reclaim"
         /\ pc[c] = from /\ running = c /\ pc' = [pc EXCEPT ![c] = to]
         /\ UNCHANGED <<mode, running, parent, heap>>
  BY DEF Deactivate, Goto
<1>2. /\ sg'.ctx = sg.ctx /\ sg'.info = sg.info /\ Shape' /\ php'.open = FALSE
      /\ sg'.headersSent \in BOOLEAN /\ sg'.postRead = sg.postRead
  BY DEF Deactivate, Inv, Shape, TypeOK, HeadersOut, HasContext
<1>3. fault' = fault \/ (fault' = fault \cup {pc[c]} /\ HasContext /\ ~Live)
  BY DEF Deactivate, Touch
<1>4. HasContext /\ ~Live => pc[c] = "failed"
  BY <1>1, StaleIsFailed DEF InEngine, EnginePcs
<1>5. TypeOK' /\ FaultsOnlyAfterFailedStartup'
  BY <1>1, <1>2, <1>3, <1>4 DEF Inv, TypeOK, FaultsOnlyAfterFailedStartup, ActivePcs, EnginePcs
<1>6. WorkingIsRunning' /\ HeapByPc' /\ ClosedAtReclaim'
  BY <1>1, <1>2 DEF Inv, TypeOK, WorkingIsRunning, HeapByPc, ClosedAtReclaim,
              ActivePcs, EnginePcs, HookPcs, Exposed
<1>7. CtxAccounted' /\ InfoAccounted'
  BY <1>1, <1>2 DEF Inv, TypeOK, CtxAccounted, InfoAccounted, Published,
              Exposed, Leaked, Cleared
<1>8. Alone => OneInProgress'
  BY <1>1 DEF Inv, TypeOK, Alone, OneInProgress, ActivePcs, EnginePcs, HookPcs
<1>9. Alone => OwnPointers'
  BY <1>1, <1>2 DEF Inv, TypeOK, Alone, OwnPointers, Published, Exposed
<1> QED
  BY <1>2, <1>5, <1>6, <1>7, <1>8, <1>9 DEF Inv, Alone

\* The box is back, the globals are cleaned up.
LEMMA ReclaimStep ==
    ASSUME Inv, NEW c \in Calls, Reclaim(c)
    PROVE  Inv' /\ (Alone => Alone')
<1> USE NoneAssumption
<1>1. /\ pc[c] = "reclaim" /\ running = c /\ pc' = [pc EXCEPT ![c] = "report"]
      /\ heap' = [heap EXCEPT ![c] = "owned"]
      /\ UNCHANGED <<mode, running, parent, php, fault>>
  BY DEF Reclaim, Goto
<1>2. /\ sg'.ctx = None /\ Shape'
      /\ sg'.headersSent = sg.headersSent /\ sg'.postRead = sg.postRead
  BY DEF Reclaim, CleanupGlobals, Inv, Shape
<1>3. /\ sg'.info \in [InfoFields -> Pointers]
      /\ \A f \in Cleared : sg'.info[f] = None
  <2>1. sg'.info = [[[sg.info EXCEPT !["ctype"] = None] EXCEPT !["query"] = None]
                       EXCEPT !["cookie"] = None]
    BY DEF Reclaim, CleanupGlobals, Inv, Shape
  <2> QED
    BY <2>1 DEF Inv, TypeOK, Cleared, InfoFields, Pointers
<1>4. TypeOK' /\ FaultsOnlyAfterFailedStartup'
  <2>1. pc' \in [Calls -> {"idle"} \cup ActivePcs \cup Outcomes]
    BY <1>1 DEF Inv, TypeOK, ActivePcs, HookPcs
  <2> QED
    BY <1>1, <1>2, <1>3, <2>1 DEF Inv, TypeOK, FaultsOnlyAfterFailedStartup, Pointers
<1>5. WorkingIsRunning' /\ HeapByPc' /\ ClosedAtReclaim'
  BY <1>1 DEF Inv, TypeOK, WorkingIsRunning, HeapByPc, ClosedAtReclaim,
              ActivePcs, EnginePcs, HookPcs, Exposed
<1>6. CtxAccounted' /\ InfoAccounted'
  BY <1>2, <1>3 DEF CtxAccounted, InfoAccounted
<1>7. Alone => Alone'
  BY <1>1 DEF Inv, TypeOK, Alone, OneInProgress, OwnPointers, Published, Exposed,
              ActivePcs, EnginePcs, HookPcs
<1> QED
  BY <1>2, <1>4, <1>5, <1>6, <1>7 DEF Inv
\* The ways a call ends.
LEMMA EndStep ==
    ASSUME Inv, NEW c \in Calls, Return(c) \/ HookPanics(c) \/ ReturnStartupFailed(c)
    PROVE  Inv' /\ (Alone => Alone')
<1> USE NoneAssumption
<1>1. PICK outcome \in {"ok", "panicked", "startup_failed"} :
         /\ running = c /\ pc' = [pc EXCEPT ![c] = outcome]
         /\ running' = parent[c] /\ parent' = [parent EXCEPT ![c] = None]
         /\ outcome = "ok" => pc[c] = "report"
         /\ outcome = "panicked" => pc[c] \in HookPcs
         /\ outcome = "startup_failed" => pc[c] = "failing"
         /\ outcome = "ok" => heap' = [heap EXCEPT ![c] = "freed"] /\ sg' = sg
         /\ outcome = "panicked" =>
              /\ heap' = IF heap[c] = "owned" THEN [heap EXCEPT ![c] = "freed"] ELSE heap
              /\ sg' = sg
         /\ outcome = "startup_failed" => heap' = heap /\ sg' = [sg EXCEPT !.ctx = None]
         /\ UNCHANGED <<mode, php, fault>>
  BY DEF Return, HookPanics, ReturnStartupFailed, End, Goto, AtHook
<1>2. /\ Shape' /\ sg'.info = sg.info
      /\ sg'.ctx = IF outcome = "startup_failed" THEN None ELSE sg.ctx
      /\ sg'.headersSent = sg.headersSent /\ sg'.postRead = sg.postRead
  BY <1>1 DEF Inv, Shape
<1>3. heap' \in [Calls -> {"none", "raw", "owned", "freed"}]
  BY <1>1 DEF Inv, TypeOK
<1>4. TypeOK' /\ FaultsOnlyAfterFailedStartup'
  BY <1>1, <1>2, <1>3 DEF Inv, TypeOK, FaultsOnlyAfterFailedStartup, Pointers, Outcomes
<1>5. WorkingIsRunning' /\ ClosedAtReclaim'
  BY <1>1 DEF Inv, TypeOK, WorkingIsRunning, ClosedAtReclaim, ActivePcs, EnginePcs, HookPcs
<1>6. HeapByPc'
  BY <1>1 DEF Inv, TypeOK, HeapByPc, ActivePcs, EnginePcs, HookPcs, Exposed
<1>7. \A d \in Calls \ {c} : pc'[d] = pc[d] /\ heap'[d] = heap[d]
  BY <1>1 DEF Inv, TypeOK
<1>8. pc'[c] = outcome /\ ~Leaked(c)
  BY <1>1 DEF Inv, TypeOK, Leaked, HookPcs
<1>9. ASSUME NEW p \in Calls, pc[p] \in Published \/ Leaked(p)
      PROVE  IF p = c /\ outcome = "startup_failed" THEN pc'[p] = "startup_failed"
             ELSE pc'[p] \in Published \/ Leaked(p)'
  <2>1. CASE p # c
    BY <1>7, <1>9, <2>1 DEF Leaked
  <2>2. CASE p = c /\ outcome # "startup_failed"
    <3>1. pc[c] \in Published
      BY <1>8, <1>9, <2>2
    <3>2. outcome = "panicked" /\ heap[c] = "raw"
      BY <1>1, <2>2, <3>1 DEF Inv, HeapByPc, Published, Exposed, HookPcs
    <3> QED
      BY <1>1, <1>8, <2>2, <3>2 DEF Leaked
  <2> QED
    BY <1>8, <2>1, <2>2
<1>10. CtxAccounted'
  BY <1>2, <1>9 DEF Inv, TypeOK, CtxAccounted, Pointers
<1>11. InfoAccounted'
  <2> SUFFICES ASSUME NEW d \in Calls, NEW f \in Cleared, sg.info[f] = d
               PROVE  pc'[d] \in Published \cup {"startup_failed"} \/ Leaked(d)'
    BY <1>2 DEF Inv, TypeOK, Pointers, InfoAccounted, Leaked, Cleared
  <2>1. CASE pc[d] \in Published \/ Leaked(d)
    BY <1>9, <2>1
  <2>2. CASE pc[d] = "startup_failed"
    BY <1>1, <1>7, <2>2 DEF HookPcs
  <2> QED
    BY <2>1, <2>2 DEF Inv, InfoAccounted
<1>12. Alone => OneInProgress'
  BY <1>1 DEF Inv, TypeOK, Alone, OneInProgress, ActivePcs, EnginePcs, HookPcs
<1>13. Alone => OwnPointers'
  <2>1. Alone => \A d \in Calls : pc'[d] \notin Published
    BY <1>1, <1>7, <1>8 DEF Alone, OneInProgress, Published, Exposed, ActivePcs, EnginePcs, HookPcs
  <2> QED
    BY <2>1 DEF OwnPointers, Published
<1> QED
  BY <1>2, <1>4, <1>5, <1>6, <1>10, <1>11, <1>12, <1>13 DEF Inv, Alone
-----------------------------------------------------------------------------

LEMMA NextInv == Inv /\ [Next]_vars => Inv' /\ (~Reentrant /\ Alone => Alone')
<1> DEFINE Holds == Inv' /\ (~Reentrant /\ Alone => Alone')
<1> SUFFICES ASSUME Inv, [Next]_vars PROVE Holds
  OBVIOUS
<1>1. CASE UNCHANGED vars
  BY <1>1 DEF vars, Inv, TypeOK, Shape, WorkingIsRunning, HeapByPc, CtxAccounted,
     InfoAccounted, Leaked, ClosedAtReclaim, FaultsOnlyAfterFailedStartup,
     Alone, OneInProgress, OwnPointers
<1>2. ASSUME NEW c \in Calls, Starts(c) PROVE Holds
  BY <1>2, StartsStep
<1>3. ASSUME NEW c \in Calls, Executor(c) PROVE Holds
  <2>1. CASE Publish(c)
    BY <2>1, PublishStep
  <2>2. CASE EnterStartup(c)
    BY <2>2, EnterStartupStep
  <2>3. CASE RunScript(c)
    BY <2>3, PlainStep DEF RunScript
  <2>4. CASE BeginShutdown(c)
    BY <2>4, PlainStep DEF BeginShutdown
  <2>5. CASE Reclaim(c)
    BY <2>5, ReclaimStep
  <2>6. CASE Return(c) \/ ReturnStartupFailed(c)
    BY <2>6, EndStep
  <2> QED
    BY <1>3, <2>1, <2>2, <2>3, <2>4, <2>5, <2>6 DEF Executor
<1>4. ASSUME NEW c \in Calls, HookPanics(c) PROVE Holds
  BY <1>4, EndStep
<1>5. ASSUME NEW c \in Calls, EngineCompletes(c) PROVE Holds
  <2>1. CASE StartupOk(c)
    BY <2>1, PlainStep DEF StartupOk
  <2>2. CASE ScriptEnd(c)
    BY <2>2, PlainStep DEF ScriptEnd
  <2>3. CASE DropFailed(c)
    BY <2>3, DropFailedStep
  <2>4. CASE Deactivate(c)
    BY <2>4, DeactivateStep
  <2>5. CASE CallUbWrite(c, FALSE)
    BY <2>5, SpeaksIsQuiet, QuietStep
  <2> QED
    BY <1>5, <2>1, <2>2, <2>3, <2>4, <2>5 DEF EngineCompletes
<1>6. ASSUME NEW c \in Calls, EngineSpeaks(c) PROVE Holds
  BY <1>6, SpeaksIsQuiet, QuietStep
<1> QED
  BY <1>1, <1>2, <1>3, <1>4, <1>5, <1>6 DEF Next

LEMMA InvAlways == Spec => []Inv
<1>1. Init => Inv
  BY InitInv
<1>2. Inv /\ [Next]_vars => Inv'
  BY NextInv
<1> QED
  BY <1>1, <1>2, PTL DEF Spec

LEMMA AloneAlways == ASSUME Reentrant = FALSE PROVE Spec => [](Inv /\ Alone)
<1>1. (Inv /\ Alone) /\ [Next]_vars => (Inv /\ Alone)'
  BY NextInv
<1> QED
  BY InitInv, <1>1, PTL DEF Spec

(* The types of every variable the proofs rest on.                         *)
THEOREM TypeCorrect == Spec => []TypeOK
<1>1. Inv => TypeOK
  BY DEF Inv
<1> QED
  BY InvAlways, <1>1, PTL

(* sapi_globals points to freed memory only after a failed startup         *)
(* (request_method aside), also when hooks call execute.                   *)
THEOREM StaleOnlyAfterFailure == Spec => []StaleOnlyAfterFailedStartup
<1>1. ASSUME Inv PROVE StaleOnlyAfterFailedStartup
  <2> SUFFICES ASSUME NEW p \in {sg.ctx} \cup {sg.info[f] : f \in Cleared}, Dangling(p)
               PROVE  pc[p] \in {"failed", "failing", "startup_failed"}
    BY DEF StaleOnlyAfterFailedStartup, Cleared
  <2>1. p \in Calls /\ heap[p] = "freed"
    BY <1>1 DEF Inv, TypeOK, Pointers, Dangling, Cleared
  <2>2. pc[p] \in Published \cup {"startup_failed"}
    BY <1>1, <2>1 DEF Dangling, Inv, CtxAccounted, InfoAccounted, Leaked
  <2> QED
    BY <1>1, <2>1, <2>2 DEF Inv, HeapByPc, Published
<1> QED
  BY InvAlways, <1>1, PTL

(* Only the php_request_shutdown of a failed startup makes a callback      *)
(* dereference a freed context, also when hooks call execute.              *)
THEOREM FaultsAfterFailure == Spec => []FaultsOnlyAfterFailedStartup
<1>1. Inv => FaultsOnlyAfterFailedStartup
  BY DEF Inv
<1> QED
  BY InvAlways, <1>1, PTL

(* A call that returned has had its box freed; only one that panicked may  *)
(* have left it behind.                                                    *)
THEOREM NoOtherLeak == Spec => []OnlyPanicsLeak
<1>1. Inv => OnlyPanicsLeak
  BY DEF Inv, OnlyPanicsLeak, HeapByPc
<1> QED
  BY InvAlways, <1>1, PTL

(* A box leaves C's hands only when PHP has closed the request, or at the  *)
(* failure of php_request_startup: Box::from_raw never runs under an open  *)
(* request that PHP agreed to start.                                       *)
THEOREM ReclaimedAfterShutdown == Spec => FreedAfterShutdown
<1> DEFINE Step == \A c \in Calls : heap[c] = "raw" /\ heap'[c] # "raw" =>
                       ~php.open \/ pc[c] = "startup"
<1>1. ASSUME Inv, Next, NEW d \in Calls, heap[d] = "raw", heap'[d] # "raw"
      PROVE  ~php.open \/ pc[d] = "startup"
  <2>1. PICK c \in Calls : Starts(c) \/ Executor(c) \/ HookPanics(c)
                           \/ EngineCompletes(c) \/ EngineSpeaks(c)
    BY <1>1 DEF Next
  <2>2. heap \in [Calls -> {"none", "raw", "owned", "freed"}]
    BY <1>1 DEF Inv, TypeOK
  <2>3. CASE Reclaim(c) \/ DropFailed(c) \/ Publish(c) \/ Return(c)
    BY <1>1, <2>2, <2>3 DEF Reclaim, DropFailed, Publish, Return, End, Goto,
       Inv, HeapByPc, ClosedAtReclaim
  <2>4. CASE HookPanics(c)
    BY <1>1, <2>2, <2>4 DEF HookPanics
  <2>5. CASE EngineSpeaks(c) \/ CallUbWrite(c, FALSE)
    BY <1>1, <2>5, SpeaksIsQuiet DEF Quiet
  <2>6. CASE StartupOk(c) \/ ScriptEnd(c) \/ Deactivate(c) \/ EnterStartup(c)
             \/ RunScript(c) \/ BeginShutdown(c) \/ ReturnStartupFailed(c) \/ Starts(c)
    BY <1>1, <2>6 DEF StartupOk, ScriptEnd, Deactivate, EnterStartup, RunScript,
       BeginShutdown, ReturnStartupFailed, Starts, Begin, Reject
  <2> QED
    BY <2>1, <2>3, <2>4, <2>5, <2>6 DEF Executor, EngineCompletes
<1>2. Inv /\ [Next]_vars => [Step]_vars
  BY <1>1
<1> QED
  BY InvAlways, <1>2, PTL DEF Spec, FreedAfterShutdown

(* Without calls from hooks, PHP only ever works for a call with that      *)
(* call's own, live context published and request_info pointing into it:   *)
(* whatever earlier calls left in sapi_globals has been overwritten.       *)
THEOREM OwnContext == ASSUME Reentrant = FALSE PROVE Spec => []RunsInOwnContext
<1>1. Inv /\ Alone => RunsInOwnContext
  BY DEF Inv, Alone, RunsInOwnContext, HeapByPc, OwnPointers, Published
<1> QED
  BY AloneAlways, <1>1, PTL

(* With one thread and no calls from hooks, requests do run one at a time. *)
THEOREM Serial == ASSUME Reentrant = FALSE PROVE Spec => []OneRequestAtATime
<1>1. Alone => OneRequestAtATime
  BY DEF Alone, OneInProgress, OneRequestAtATime, ActivePcs, EnginePcs, HookPcs, Exposed
<1> QED
  BY AloneAlways, <1>1, PTL
-----------------------------------------------------------------------------
(* What PHP says for a call reaches that call's context, its streaming     *)
(* callback and its caller, whole and in order: RequestLifecycle           *)
(* implements RequestContract.                                             *)
(*                                                                         *)
(* Content relates, for the running call, what PHP said (said), what PHP   *)
(* still holds (php.ob, sg.hdrs, sg.code) and what has reached the context *)
(* or the callback (ctx, heard).  It is inductive together with Inv and    *)
(* Alone: when no hook calls execute, the context the callbacks find is    *)
(* the running call's own and stays live until PHP has closed the request. *)

\* A header a script sets, a piece of output it writes, what PHP says.
Header == [of : Calls, n : Nat, wellFormed : BOOLEAN]
Piece  == Calls \X Nat
Speech == [chunks : Nat, logs : Nat, hdrs : Seq(Header), code : Nat, post : Seq(Nat)]

Count(n)      == [i \in 1 .. n |-> i]
Written(c, n) == [i \in 1 .. n |-> <<c, i>>]

\* The engine works for a call; the call has a context.
Working == Exposed \ {"starting"}
Holding == Exposed \cup {"reclaim", "report"}

SpeechTypes ==
    /\ php.ob \in Seq(Piece)
    /\ said \in [Calls -> Speech]
    /\ heard \in [Calls -> [got : Seq(Piece), whole : BOOLEAN]]
    /\ DOMAIN ctx = Calls

\* The body PHP has been given, and the pieces the streaming callback has.
TakenInOrder(c) ==
    /\ said[c].post = Count(Len(said[c].post)) /\ Len(said[c].post) <= PostLen
    /\ mode[c] = "hooks" => heard[c] = Deaf
    /\ Len(heard[c].got) <= said[c].chunks
    /\ heard[c].whole => heard[c].got = Written(c, Len(heard[c].got))

\* A context has all its fields; its request and its mode never change.
IsContext(x) ==
    x = [status |-> x.status, post |-> x.post, pos |-> x.pos, out |-> x.out,
         messages |-> x.messages, headers |-> x.headers, streaming |-> x.streaming]

SameRequest(y, x) == y.post = x.post /\ y.streaming = x.streaming

ContextTypes(c) == pc[c] \in Holding =>
    /\ IsContext(ctx[c])
    /\ ctx[c].post = Count(Len(ctx[c].post)) /\ Len(ctx[c].post) \in 0 .. PostLen
    /\ ctx[c].pos \in 0 .. Len(ctx[c].post)
    /\ ctx[c].out \in Seq(Piece)
    /\ ctx[c].streaming <=> mode[c] = "stream"
    /\ mode[c] = "stream" \/ pc[c] = "starting" => ctx[c].out = <<>>
    /\ ctx[c].messages = Logs(c)

\* The context's read position is what PHP has read.
PositionKept(c) == pc[c] \in Exposed => said[c].post = Count(ctx[c].pos)

AnsweredWith(c) ==
    /\ ctx[c].headers = ParsedHeaders(said[c].hdrs)
    /\ ctx[c].status  = ClampStatus(said[c].code)

\* What has left PHP's buffer for c.
Sent(c) == IF mode[c] = "stream" THEN heard[c].got ELSE ctx[c].out

\* Before the headers are out PHP holds what was said; afterwards the context
\* does, and the script cannot change it any more.
HeadersAccounted(c) ==
    /\ pc[c] \in Working /\ sg.headersSent => AnsweredWith(c)
    /\ pc[c] \in Working /\ ~sg.headersSent =>
          sg.hdrs = said[c].hdrs /\ sg.code = said[c].code /\ Sent(c) = <<>>
    /\ pc[c] \in {"reclaim", "report"} => AnsweredWith(c)

\* What has left the buffer and what is still in it is what PHP wrote.
Accounted(c, rest) ==
    /\ Len(Sent(c)) + Len(rest) <= said[c].chunks
    /\ heard[c].whole => Sent(c) \o rest = Pieces(c)

BodyAccounted(c) ==
    /\ pc[c] \in Working => Accounted(c, php.ob)
    /\ pc[c] \in {"reclaim", "report"} => Accounted(c, <<>>)

Untouched(c) == said[c] = Silent /\ heard[c] = Deaf

AllSaid(c) ==
    /\ TakenInOrder(c) /\ ContextTypes(c) /\ PositionKept(c)
    /\ HeadersAccounted(c) /\ BodyAccounted(c)
    /\ pc[c] \in {"creating", "starting"} => Untouched(c)

Content ==
    /\ SpeechTypes
    /\ \A d \in Calls : d # running => Untouched(d)
    /\ \A c \in Calls : c = running => AllSaid(c)
-----------------------------------------------------------------------------
(* Sequences that grow, and the fields of records that change. *)

\* A list of what was written grows at its end.
LEMMA WriteOn ==
    ASSUME NEW c \in Calls, NEW n \in Nat
    PROVE  /\ Append(Written(c, n), <<c, n + 1>>) = Written(c, n + 1)
           /\ Written(c, n) \in Seq(Piece) /\ Len(Written(c, n)) = n
           /\ Written(c, 0) = <<>>
BY DEF Written, Piece

LEMMA AppendOn ==
    ASSUME NEW S, NEW s \in Seq(S), NEW t \in Seq(S), NEW x \in S
    PROVE  /\ s \o Append(t, x) = Append(s \o t, x)
           /\ s \o <<>> = s /\ <<>> \o s = s
           /\ (s \o t) \in Seq(S) /\ Len(s \o t) = Len(s) + Len(t)
<1>1. s \o Append(t, x) = Append(s \o t, x)
  OBVIOUS
<1>2. s \o <<>> = s /\ <<>> \o s = s
  OBVIOUS
<1>3. (s \o t) \in Seq(S) /\ Len(s \o t) = Len(s) + Len(t)
  OBVIOUS
<1> QED
  BY <1>1, <1>2, <1>3

\* A body of l bytes read from byte p on continues the bytes read before.
LEMMA ReadOn ==
    ASSUME NEW l \in Nat, NEW p \in 0 .. l, NEW k \in 0 .. (l - p)
    PROVE  Count(p) \o SubSeq(Count(l), p + 1, p + k) = Count(p + k)
<1>1. SubSeq(Count(l), p + 1, p + k) = [i \in 1 .. k |-> p + i]
  BY DEF Count
<1> QED
  BY <1>1 DEF Count

\* What changes in Speech when one of its fields is set.
LEMMA SpeechShape ==
    ASSUME NEW s \in Speech
    PROVE  s = [chunks |-> s.chunks, logs |-> s.logs, hdrs |-> s.hdrs,
                code |-> s.code, post |-> s.post]
BY DEF Speech

LEMMA SpeechFields ==
    ASSUME NEW s \in Speech
    PROVE  /\ s.chunks \in Nat /\ s.logs \in Nat /\ s.hdrs \in Seq(Header)
           /\ s.code \in Nat /\ s.post \in Seq(Nat)
BY DEF Speech

LEMMA ChunksSet ==
    ASSUME NEW s \in Speech, NEW v \in Nat
    PROVE  LET t == [s EXCEPT !.chunks = v]
           IN  /\ t \in Speech /\ t.chunks = v /\ t.logs = s.logs
               /\ t.hdrs = s.hdrs /\ t.code = s.code /\ t.post = s.post
<1>1. [s EXCEPT !.chunks = v] =
      [chunks |-> v, logs |-> s.logs, hdrs |-> s.hdrs, code |-> s.code, post |-> s.post]
  BY SpeechShape
<1> QED
  BY <1>1, SpeechFields DEF Speech

LEMMA LogsSet ==
    ASSUME NEW s \in Speech, NEW v \in Nat
    PROVE  LET t == [s EXCEPT !.logs = v]
           IN  /\ t \in Speech /\ t.logs = v /\ t.chunks = s.chunks
               /\ t.hdrs = s.hdrs /\ t.code = s.code /\ t.post = s.post
<1>1. [s EXCEPT !.logs = v] =
      [chunks |-> s.chunks, logs |-> v, hdrs |-> s.hdrs, code |-> s.code, post |-> s.post]
  BY SpeechShape
<1> QED
  BY <1>1, SpeechFields DEF Speech

LEMMA HeadersSet ==
    ASSUME NEW s \in Speech, NEW v \in Seq(Header)
    PROVE  LET t == [s EXCEPT !.hdrs = v]
           IN  /\ t \in Speech /\ t.hdrs = v /\ t.chunks = s.chunks
               /\ t.logs = s.logs /\ t.code = s.code /\ t.post = s.post
<1>1. [s EXCEPT !.hdrs = v] =
      [chunks |-> s.chunks, logs |-> s.logs, hdrs |-> v, code |-> s.code, post |-> s.post]
  BY SpeechShape
<1> QED
  BY <1>1, SpeechFields DEF Speech

LEMMA CodeSet ==
    ASSUME NEW s \in Speech, NEW v \in Nat
    PROVE  LET t == [s EXCEPT !.code = v]
           IN  /\ t \in Speech /\ t.code = v /\ t.chunks = s.chunks
               /\ t.logs = s.logs /\ t.hdrs = s.hdrs /\ t.post = s.post
<1>1. [s EXCEPT !.code = v] =
      [chunks |-> s.chunks, logs |-> s.logs, hdrs |-> s.hdrs, code |-> v, post |-> s.post]
  BY SpeechShape
<1> QED
  BY <1>1, SpeechFields DEF Speech

LEMMA PostSet ==
    ASSUME NEW s \in Speech, NEW v \in Seq(Nat)
    PROVE  LET t == [s EXCEPT !.post = v]
           IN  /\ t \in Speech /\ t.post = v /\ t.chunks = s.chunks
               /\ t.logs = s.logs /\ t.hdrs = s.hdrs /\ t.code = s.code
<1>1. [s EXCEPT !.post = v] =
      [chunks |-> s.chunks, logs |-> s.logs, hdrs |-> s.hdrs, code |-> s.code, post |-> v]
  BY SpeechShape
<1> QED
  BY <1>1, SpeechFields DEF Speech

LEMMA SaidOf ==
    ASSUME SpeechTypes, NEW c \in Calls, NEW s \in Speech, said' = [said EXCEPT ![c] = s]
    PROVE  /\ said' \in [Calls -> Speech] /\ said'[c] = s
           /\ \A d \in Calls : d # c => said'[d] = said[d]
BY DEF SpeechTypes

\* The operations of ServerContext and SapiCallbacks, field by field.
LEMMA Ensured ==
    ASSUME NEW x, IsContext(x), NEW g
    PROVE  LET y == EnsureHeaders(x, g)
           IN  /\ IsContext(y) /\ SameRequest(y, x) /\ y.pos = x.pos
               /\ y.out = x.out /\ y.messages = x.messages
               /\ g.headersSent => y = x
               /\ ~g.headersSent =>
                    y.headers = ParsedHeaders(g.hdrs) /\ y.status = ClampStatus(g.code)
BY DEF IsContext, SameRequest, EnsureHeaders, SendHeaders, SetStatus

LEMMA Noted ==
    ASSUME NEW x, IsContext(x), NEW m
    PROVE  LET y == LogMessage(x, m)
           IN  /\ IsContext(y) /\ SameRequest(y, x) /\ y.pos = x.pos
               /\ y.messages = Append(x.messages, m) /\ y.headers = x.headers
               /\ y.status = x.status /\ y.out = x.out
BY DEF IsContext, SameRequest, LogMessage, AddMessage

LEMMA Took ==
    ASSUME NEW x, IsContext(x), NEW n \in Nat,
           x.post = Count(Len(x.post)), Len(x.post) \in Nat, x.pos \in 0 .. Len(x.post)
    PROVE  LET y == ReadPost(x, n)
           IN  /\ IsContext(y) /\ SameRequest(y, x)
               /\ y.messages = x.messages /\ y.headers = x.headers
               /\ y.status = x.status /\ y.out = x.out
               /\ y.pos \in x.pos .. Len(x.post)
               /\ Count(x.pos) \o PostSlice(x, n) = Count(y.pos)
<1> DEFINE l == Len(x.post)
           p == x.pos
           k == IF l - p < n THEN l - p ELSE n
           slice == SubSeq(Count(l), p + 1, p + k)
           y == ReadPost(x, n)
<1>1. l \in Nat /\ p \in 0 .. l /\ k \in 0 .. (l - p)
  OBVIOUS
<1>2. PostSlice(x, n) = slice
  BY DEF PostSlice
<1>3. Count(p) \o slice = Count(p + k)
  BY <1>1, ReadOn
<1>4. Len(slice) = k
  BY <1>1 DEF Count
<1>5. /\ IsContext(y) /\ SameRequest(y, x)
      /\ y.messages = x.messages /\ y.headers = x.headers
      /\ y.status = x.status /\ y.out = x.out /\ y.pos = p + Len(PostSlice(x, n))
  BY DEF IsContext, SameRequest, ReadPost
<1>6. y.pos = p + k /\ Count(p) \o PostSlice(x, n) = Count(p + k)
  BY <1>2, <1>3, <1>4, <1>5
<1>7. p + k \in p .. l
  BY <1>1
<1> HIDE DEF k, y
<1> QED
  BY <1>5, <1>6, <1>7 DEF y
-----------------------------------------------------------------------------
(* Each step keeps the account. *)

\* The context the callbacks find.
LEMMA OwnIsLive ==
    ASSUME Inv, Alone, NEW c \in Calls, running = c, pc[c] \in Exposed
    PROVE  sg.ctx = c /\ HasContext /\ Live /\ HeadersOut
BY NoneAssumption DEF Inv, HeapByPc, Alone, OwnPointers, Published, HasContext, Live, HeadersOut

LEMMA InitContent == Init => Content
<1> SUFFICES ASSUME Init PROVE Content
  OBVIOUS
<1>1. SpeechTypes
  BY DEF Init, SpeechTypes, Silent, Deaf, Speech
<1>2. \A d \in Calls : Untouched(d)
  BY DEF Init, Untouched
<1> QED
  BY <1>1, <1>2, NoneAssumption DEF Init, Content

\* A call starts, or is rejected.
LEMMA StartsContent ==
    ASSUME Inv, Alone, Content, ~Reentrant, NEW c \in Calls, Starts(c)
    PROVE  Content'
<1>1. running = None /\ pc[c] = "idle" /\ c # running
  BY NoneAssumption DEF Starts, Reject, Begin, MayStart
<1>2. UNCHANGED <<php, said, heard, ctx>>
  BY DEF Starts, Reject, Begin
<1>3. SpeechTypes' /\ \A d \in Calls : Untouched(d)'
  BY <1>1, <1>2, NoneAssumption DEF Content, SpeechTypes, Untouched
<1>4. CASE Reject(c)
  BY <1>1, <1>3, <1>4, NoneAssumption DEF Reject, Content
<1>5. CASE \E m \in {"hooks", "stream"} : Begin(c, m)
  <2>1. running' = c /\ pc'[c] = "creating"
    BY <1>5 DEF Begin, Inv, TypeOK
  <2>2. said'[c] = Silent /\ heard'[c] = Deaf
    BY <1>3 DEF Untouched
  <2>3. TakenInOrder(c)'
    BY <2>2, WriteOn, BoundAssumption DEF TakenInOrder, Silent, Deaf, Count
  <2>4. ContextTypes(c)' /\ PositionKept(c)' /\ HeadersAccounted(c)' /\ BodyAccounted(c)'
    BY <2>1 DEF ContextTypes, PositionKept, HeadersAccounted, BodyAccounted,
       Holding, Working, Exposed
  <2> QED
    BY <1>3, <2>1, <2>3, <2>4 DEF Content, AllSaid
<1> QED
  BY <1>4, <1>5 DEF Starts

\* A call ends: what was said for it is forgotten.
LEMMA EndContent ==
    ASSUME Inv, Alone, Content, NEW c \in Calls,
           Return(c) \/ HookPanics(c) \/ ReturnStartupFailed(c)
    PROVE  Content'
<1>1. running = c /\ running' = None
      /\ said' = [said EXCEPT ![c] = Silent] /\ heard' = [heard EXCEPT ![c] = Deaf]
      /\ php' = php
  BY DEF Return, HookPanics, ReturnStartupFailed, End, Goto, Alone, OneInProgress
<1>2. DOMAIN ctx' = Calls
  BY DEF Return, HookPanics, ReturnStartupFailed, Content, SpeechTypes
<1>3. SpeechTypes'
  <2>1. Silent \in Speech /\ Deaf \in [got : Seq(Piece), whole : BOOLEAN]
    BY DEF Silent, Deaf, Speech
  <2> QED
    BY <1>1, <1>2, <2>1 DEF Content, SpeechTypes
<1>4. \A d \in Calls : Untouched(d)'
  BY <1>1 DEF Content, SpeechTypes, Untouched
<1> QED
  BY <1>1, <1>3, <1>4, NoneAssumption DEF Content

\* The box is built: nothing is in it yet but the request.
LEMMA PublishContent ==
    ASSUME Inv, Alone, Content, NEW c \in Calls, Publish(c)
    PROVE  Content'
<1>1. /\ running = c /\ running' = c /\ pc[c] = "creating" /\ pc'[c] = "starting"
      /\ UNCHANGED <<php, mode, said, heard>>
  BY DEF Publish, Goto, Inv, TypeOK
<1>2. PICK n \in 0 .. PostLen :
         ctx' = [ctx EXCEPT ![c] = NewContext(Count(n), mode[c] = "stream")]
  BY DEF Publish, Count
<1>3. AllSaid(c) /\ Untouched(c)
  BY <1>1 DEF Content, AllSaid
<1>4. ctx'[c] = NewContext(Count(n), mode[c] = "stream") /\ DOMAIN ctx' = Calls
  BY <1>2 DEF Content, SpeechTypes
<1>5. n \in Nat /\ n <= PostLen /\ Len(Count(n)) = n
  BY BoundAssumption DEF Count
<1>6. Logs(c)' = <<>>
  BY <1>1, <1>3 DEF Logs, Untouched, Silent
<1>7. ContextTypes(c)'
  <2> DEFINE y == ctx'[c]
  <2>1. y = [status |-> 200, post |-> Count(n), pos |-> 0, out |-> <<>>, messages |-> <<>>,
             headers |-> <<>>, streaming |-> mode[c] = "stream"]
    BY <1>4 DEF NewContext
  <2>2. y.streaming <=> mode[c] = "stream"
    <3> DEFINE flag == mode[c] = "stream"
    <3>1. flag \in BOOLEAN /\ y = NewContext(Count(n), flag)
      BY <1>4
    <3> HIDE DEF flag, y
    <3>2. y.streaming = flag
      BY <3>1 DEF NewContext
    <3> QED
      BY <3>2 DEF flag
  <2>3. /\ y = [status |-> y.status, post |-> y.post, pos |-> y.pos, out |-> y.out,
                 messages |-> y.messages, headers |-> y.headers, streaming |-> y.streaming]
        /\ y.post = Count(n) /\ y.pos = 0 /\ y.out = <<>> /\ y.messages = <<>>
    BY <2>1
  <2> HIDE DEF y
  <2>4. /\ y.post = Count(Len(y.post)) /\ Len(y.post) \in 0 .. PostLen
        /\ y.pos \in 0 .. Len(y.post) /\ y.out \in Seq(Piece)
    BY <1>5, <2>3, BoundAssumption
  <2> QED
    BY <1>1, <1>6, <2>2, <2>3, <2>4 DEF ContextTypes, IsContext, y
<1>8. PositionKept(c)'
  BY <1>1, <1>3, <1>4 DEF PositionKept, NewContext, Untouched, Silent, Count
<1>9. TakenInOrder(c)' /\ Untouched(c)'
  BY <1>1, <1>3 DEF AllSaid, TakenInOrder, Untouched
<1>10. HeadersAccounted(c)' /\ BodyAccounted(c)'
  BY <1>1 DEF HeadersAccounted, BodyAccounted, Working, Exposed
<1> QED
  BY <1>1, <1>4, <1>7, <1>8, <1>9, <1>10 DEF Content, SpeechTypes, AllSaid, Untouched

\* PHP starts the request with an empty buffer and its own defaults.
LEMMA EnterStartupContent ==
    ASSUME Inv, Alone, Content, NEW c \in Calls, EnterStartup(c)
    PROVE  Content'
<1>1. /\ running = c /\ running' = c /\ pc[c] = "starting" /\ pc'[c] = "startup"
      /\ UNCHANGED <<mode, ctx, said, heard>>
  BY DEF EnterStartup, Goto, Inv, TypeOK
<1>2. /\ php'.ob = <<>> /\ sg'.hdrs = <<>> /\ sg'.code = 200 /\ sg'.headersSent = FALSE
  BY DEF EnterStartup, Inv, Shape
<1>3. AllSaid(c) /\ Untouched(c)
  BY <1>1 DEF Content, AllSaid
<1>4. TakenInOrder(c)' /\ ContextTypes(c)' /\ PositionKept(c)'
  BY <1>1, <1>3 DEF AllSaid, TakenInOrder, ContextTypes, PositionKept, Holding, Exposed, Logs
<1>5. Sent(c)' = <<>>
  BY <1>1, <1>3 DEF AllSaid, ContextTypes, Holding, Exposed, Sent, Untouched, Deaf
<1>6. HeadersAccounted(c)'
  BY <1>1, <1>2, <1>3, <1>5 DEF HeadersAccounted, Untouched, Silent
<1>7. BodyAccounted(c)'
  BY <1>1, <1>2, <1>3, <1>5 DEF BodyAccounted, Accounted, Untouched, Silent, Pieces
<1> QED
  BY <1>1, <1>2, <1>4, <1>6, <1>7 DEF Content, SpeechTypes, AllSaid, Untouched

\* The steps between engine functions change none of it.
LEMMA PlainContent ==
    ASSUME Inv, Alone, Content, NEW c \in Calls,
           StartupOk(c) \/ RunScript(c) \/ ScriptEnd(c) \/ BeginShutdown(c)
    PROVE  Content'
<1>1. /\ running = c /\ running' = c /\ pc[c] \in Working /\ pc'[c] \in Working
      /\ UNCHANGED <<mode, php, ctx, said, heard>>
  BY DEF StartupOk, RunScript, ScriptEnd, BeginShutdown, Goto, Inv, TypeOK, Working, Exposed
<1>2. sg'.headersSent = sg.headersSent /\ sg'.hdrs = sg.hdrs /\ sg'.code = sg.code
  BY DEF StartupOk, RunScript, ScriptEnd, BeginShutdown, Inv, Shape
<1>3. AllSaid(c)
  BY <1>1 DEF Content
<1>4. TakenInOrder(c)' /\ ContextTypes(c)' /\ PositionKept(c)'
  BY <1>1, <1>3 DEF AllSaid, TakenInOrder, ContextTypes, PositionKept, Working, Holding,
     Exposed, Logs
<1>5. HeadersAccounted(c)' /\ BodyAccounted(c)'
  BY <1>1, <1>2, <1>3 DEF AllSaid, HeadersAccounted, BodyAccounted, AnsweredWith, Accounted,
     Sent, Pieces, Working, Exposed
<1> QED
  BY <1>1, <1>4, <1>5 DEF Content, SpeechTypes, AllSaid, Untouched, Working, Exposed

\* Startup failed: the context is gone, what was said stays.
LEMMA DropFailedContent ==
    ASSUME Inv, Alone, Content, NEW c \in Calls, DropFailed(c)
    PROVE  Content'
<1>1. /\ running = c /\ running' = c /\ pc'[c] = "failed" /\ DOMAIN ctx' = Calls
      /\ UNCHANGED <<mode, php, said, heard>>
  BY DEF DropFailed, Goto, Inv, TypeOK, Content, SpeechTypes
<1>2. TakenInOrder(c)'
  BY <1>1 DEF Content, AllSaid, TakenInOrder
<1>3. ContextTypes(c)' /\ PositionKept(c)' /\ HeadersAccounted(c)' /\ BodyAccounted(c)'
  BY <1>1 DEF ContextTypes, PositionKept, HeadersAccounted, BodyAccounted,
     Holding, Working, Exposed
<1> QED
  BY <1>1, <1>2, <1>3 DEF Content, SpeechTypes, AllSaid, Untouched

LEMMA ReclaimContent ==
    ASSUME Inv, Alone, Content, NEW c \in Calls, Reclaim(c)
    PROVE  Content'
<1>1. /\ running = c /\ running' = c /\ pc[c] = "reclaim" /\ pc'[c] = "report"
      /\ UNCHANGED <<mode, php, ctx, said, heard>>
  BY DEF Reclaim, Goto, Inv, TypeOK
<1>2. AllSaid(c)
  BY <1>1 DEF Content
<1>3. TakenInOrder(c)' /\ ContextTypes(c)' /\ PositionKept(c)'
  BY <1>1, <1>2 DEF AllSaid, TakenInOrder, ContextTypes, PositionKept, Holding, Exposed, Logs
<1>4. HeadersAccounted(c)' /\ BodyAccounted(c)'
  BY <1>1, <1>2 DEF AllSaid, HeadersAccounted, BodyAccounted, AnsweredWith, Accounted,
     Sent, Pieces, Working, Exposed
<1> QED
  BY <1>1, <1>3, <1>4 DEF Content, SpeechTypes, AllSaid, Untouched

\* The request is closed: what was not sent is sent now.
LEMMA DeactivateContent ==
    ASSUME Inv, Alone, Content, NEW c \in Calls, Deactivate(c)
    PROVE  Content'
<1> DEFINE x == ctx[c]
           y == ctx'[c]
<1>1. /\ running = c /\ running' = c /\ php.ob = <<>> /\ php'.ob = <<>>
      /\ UNCHANGED <<mode, said, heard>>
      /\ \/ pc[c] = "drain" /\ pc'[c] = "reclaim"
         \/ pc[c] = "failed" /\ pc'[c] = "failing"
  BY DEF Deactivate, Goto, Inv, TypeOK, Shape
<1>2. AllSaid(c)
  BY <1>1 DEF Content
<1>3. SpeechTypes' /\ TakenInOrder(c)'
  BY <1>1, <1>2 DEF Deactivate, Touch, Content, SpeechTypes, AllSaid, TakenInOrder
<1>4. CASE pc'[c] = "failing"
  BY <1>1, <1>3, <1>4 DEF Content, AllSaid, ContextTypes, PositionKept, HeadersAccounted,
     BodyAccounted, Holding, Working, Exposed, Untouched
<1>5. CASE pc[c] = "drain" /\ pc'[c] = "reclaim"
  <2>1. sg.ctx = c /\ Live
    BY <1>1, <1>5, OwnIsLive DEF Exposed
  <2>2. IsContext(x) /\ x.post = Count(Len(x.post)) /\ Len(x.post) \in Nat
        /\ x.pos \in 0 .. Len(x.post)
    BY <1>2, <1>5 DEF AllSaid, ContextTypes, Holding, Exposed
  <2>3. c \in DOMAIN ctx
    BY DEF Content, SpeechTypes
  <2> DEFINE answered == EnsureHeaders(x, sg)
             drained  == ReadPost(answered, PostLen)
  <2>4. (y = x /\ sg.headersSent) \/ y = answered \/ y = drained
    BY <2>1, <2>3 DEF Deactivate, Touch
  <2>5. /\ IsContext(answered) /\ SameRequest(answered, x) /\ answered.pos = x.pos
        /\ answered.out = x.out /\ answered.messages = x.messages
        /\ sg.headersSent => answered = x
        /\ ~sg.headersSent =>
             answered.headers = ParsedHeaders(sg.hdrs) /\ answered.status = ClampStatus(sg.code)
    BY <2>2, Ensured
  <2> HIDE DEF answered
  <2>6. /\ IsContext(drained) /\ SameRequest(drained, answered) /\ drained.out = answered.out
        /\ drained.messages = answered.messages /\ drained.headers = answered.headers
        /\ drained.status = answered.status /\ drained.pos \in answered.pos .. Len(x.post)
    BY <2>2, <2>5, Took, BoundAssumption DEF SameRequest
  <2> HIDE DEF drained
  <2>7. /\ IsContext(y) /\ SameRequest(y, x) /\ y.pos \in 0 .. Len(x.post)
        /\ y.out = x.out /\ y.messages = x.messages
        /\ sg.headersSent => y.headers = x.headers /\ y.status = x.status
        /\ ~sg.headersSent => y.headers = ParsedHeaders(sg.hdrs) /\ y.status = ClampStatus(sg.code)
    <3>1. CASE y = x /\ sg.headersSent
      BY <2>2, <3>1 DEF SameRequest
    <3>2. CASE y = answered
      BY <2>2, <2>5, <3>2
    <3>3. CASE y = drained
      BY <2>2, <2>5, <2>6, <3>3 DEF SameRequest
    <3> QED
      BY <2>4, <3>1, <3>2, <3>3
  <2> HIDE DEF x, y
  <2>8. ContextTypes(c)'
    BY <1>1, <1>2, <1>5, <2>7 DEF AllSaid, ContextTypes, Holding, Exposed, SameRequest, Logs, x, y
  <2>9. HeadersAccounted(c)'
    BY <1>1, <1>2, <1>5, <2>7 DEF AllSaid, HeadersAccounted, AnsweredWith, Working, Exposed, x, y
  <2>10. BodyAccounted(c)'
    BY <1>1, <1>2, <1>5, <2>7 DEF AllSaid, BodyAccounted, Accounted, Sent, Pieces,
       Working, Exposed, x, y
  <2> QED
    BY <1>1, <1>3, <1>5, <2>8, <2>9, <2>10 DEF Content, AllSaid, PositionKept, Exposed, Untouched
<1> QED
  BY <1>1, <1>4, <1>5

\* Where a callback that PHP makes for call c finds everything.
LEMMA Calling ==
    ASSUME Inv, Alone, Content, NEW c \in Calls, running = c, pc[c] \in Working
    PROVE  /\ AllSaid(c) /\ sg.ctx = c /\ HasContext /\ Live /\ HeadersOut
           /\ c \in DOMAIN ctx /\ IsContext(ctx[c]) /\ php.ob \in Seq(Piece)
           /\ said[c] \in Speech /\ heard[c] \in [got : Seq(Piece), whole : BOOLEAN]
           /\ ctx[c].out \in Seq(Piece) /\ pc[c] \in Holding /\ pc[c] \in Exposed
<1>1. pc[c] \in Exposed /\ pc[c] \in Holding
  BY DEF Working, Holding
<1>2. AllSaid(c)
  BY DEF Content
<1> QED
  BY <1>1, <1>2, OwnIsLive DEF AllSaid, ContextTypes, Content, SpeechTypes

\* What is left to show of a callback: the running call's own account.
LEMMA CallbackContent ==
    ASSUME Content, NEW c \in Calls, running = c, pc[c] \in EnginePcs, UNCHANGED <<pc, running>>,
           SpeechTypes', \A d \in Calls : d # c => said'[d] = said[d] /\ heard'[d] = heard[d],
           TakenInOrder(c)', ContextTypes(c)', PositionKept(c)', HeadersAccounted(c)',
           BodyAccounted(c)'
    PROVE  Content'
BY DEF Content, Untouched, AllSaid, EnginePcs

LEMMA EchoContent ==
    ASSUME Inv, Alone, Content, NEW c \in Calls, Echo(c)
    PROVE  Content'
<1> DEFINE n == said[c].chunks
<1>1. /\ running = c /\ pc[c] \in Working /\ pc[c] \in EnginePcs
      /\ UNCHANGED <<pc, mode, running, sg, ctx, heard>>
      /\ said' = [said EXCEPT ![c] = [said[c] EXCEPT !.chunks = n + 1]]
      /\ php'.ob = Append(php.ob, <<c, n + 1>>)
  BY DEF Echo, InEngine, Working, Exposed, EnginePcs, Inv, Shape
<1>2. AllSaid(c) /\ pc[c] \in Holding /\ said[c] \in Speech
      /\ php.ob \in Seq(Piece) /\ ctx[c].out \in Seq(Piece) /\ heard[c].got \in Seq(Piece)
  BY <1>1, Calling
<1>3. n \in Nat /\ n + 1 \in Nat
  BY <1>2 DEF Speech
<1>4. /\ said' \in [Calls -> Speech] /\ \A d \in Calls : d # c => said'[d] = said[d]
      /\ said'[c].chunks = n + 1 /\ said'[c].logs = said[c].logs
      /\ said'[c].hdrs = said[c].hdrs /\ said'[c].code = said[c].code
      /\ said'[c].post = said[c].post
  <2> DEFINE t == [said[c] EXCEPT !.chunks = n + 1]
  <2>1. /\ t \in Speech /\ t.chunks = n + 1 /\ t.logs = said[c].logs
        /\ t.hdrs = said[c].hdrs /\ t.code = said[c].code /\ t.post = said[c].post
    BY <1>2, <1>3, ChunksSet
  <2> HIDE DEF t
  <2> QED
    BY <1>1, <2>1, SaidOf DEF Content, t
<1>5. SpeechTypes'
  <2>1. <<c, n + 1>> \in Piece
    BY <1>3 DEF Piece
  <2>2. php'.ob \in Seq(Piece)
    BY <1>1, <1>2, <2>1
  <2> QED
    BY <1>1, <1>4, <2>2 DEF Content, SpeechTypes
<1>6. TakenInOrder(c)'
  <2>1. Len(heard[c].got) \in Nat
    BY <1>2
  <2> QED
    BY <1>1, <1>2, <1>3, <1>4, <2>1 DEF AllSaid, TakenInOrder
<1>7. ContextTypes(c)' /\ PositionKept(c)' /\ HeadersAccounted(c)'
  BY <1>1, <1>2, <1>4 DEF AllSaid, ContextTypes, PositionKept, HeadersAccounted,
     AnsweredWith, Sent, Logs
<1>8. BodyAccounted(c)'
  <2> DEFINE s == Sent(c)
  <2>1. s \in Seq(Piece) /\ Sent(c)' = s
    BY <1>1, <1>2 DEF Sent
  <2>2. Accounted(c, php.ob)
    BY <1>1, <1>2 DEF AllSaid, BodyAccounted
  <2>3. Len(s) + Len(php'.ob) <= n + 1
    BY <1>1, <1>2, <1>3, <2>1, <2>2 DEF Accounted
  <2>4. ASSUME heard[c].whole PROVE s \o php'.ob = Written(c, n + 1)
    <3>1. s \o php.ob = Written(c, n)
      BY <2>2, <2>4 DEF Accounted, Pieces, Written
    <3>2. s \o php'.ob = Append(s \o php.ob, <<c, n + 1>>)
      <4>1. <<c, n + 1>> \in Piece
        BY <1>3 DEF Piece
      <4> HIDE DEF s
      <4> QED
        BY <1>1, <1>2, <2>1, <4>1, AppendOn
    <3> QED
      BY <1>3, <3>1, <3>2, WriteOn
  <2>5. Pieces(c)' = Written(c, n + 1)
    BY <1>4 DEF Pieces, Written
  <2> HIDE DEF s
  <2>6. Accounted(c, php.ob)'
    BY <1>1, <1>4, <2>1, <2>3, <2>4, <2>5 DEF Accounted
  <2> QED
    BY <1>1, <2>6 DEF BodyAccounted, Working, Exposed
<1> QED
  BY <1>1, <1>4, <1>5, <1>6, <1>7, <1>8, CallbackContent

\* What a script sets before the headers are out, it sets in PHP.
LEMMA SetsContent ==
    ASSUME Inv, Alone, Content, NEW c \in Calls, NEW s \in Speech,
           InEngine(c, {"script", "drain"}), ~sg.headersSent,
           UNCHANGED <<pc, mode, running, php, ctx, heard>>, said' = [said EXCEPT ![c] = s],
           s.chunks = said[c].chunks, s.logs = said[c].logs, s.post = said[c].post,
           sg'.headersSent = sg.headersSent,
           sg.hdrs = said[c].hdrs => sg'.hdrs = s.hdrs,
           sg.code = said[c].code => sg'.code = s.code
    PROVE  Content'
<1>1. running = c /\ pc[c] \in Working /\ pc[c] \in EnginePcs
  BY DEF InEngine, Working, Exposed, EnginePcs
<1>2. AllSaid(c)
  BY <1>1, Calling
<1>3. sg.hdrs = said[c].hdrs /\ sg.code = said[c].code /\ Sent(c) = <<>>
  BY <1>1, <1>2 DEF AllSaid, HeadersAccounted
<1>4. /\ said' \in [Calls -> Speech] /\ said'[c] = s
      /\ \A d \in Calls : d # c => said'[d] = said[d]
  BY SaidOf DEF Content
<1>5. SpeechTypes'
  BY <1>4 DEF Content, SpeechTypes
<1>6. TakenInOrder(c)' /\ ContextTypes(c)' /\ PositionKept(c)'
  BY <1>2, <1>4 DEF AllSaid, TakenInOrder, ContextTypes, PositionKept, Logs
<1>7. HeadersAccounted(c)'
  BY <1>1, <1>3, <1>4 DEF HeadersAccounted, Sent, Working, Exposed
<1>8. BodyAccounted(c)'
  BY <1>2, <1>4 DEF AllSaid, BodyAccounted, Accounted, Sent, Pieces
<1> QED
  BY <1>1, <1>4, <1>5, <1>6, <1>7, <1>8, CallbackContent

LEMMA SetHeaderContent ==
    ASSUME Inv, Alone, Content, NEW c \in Calls, NEW wellFormed \in BOOLEAN,
           SetHeader(c, wellFormed)
    PROVE  Content'
<1> DEFINE h == [of |-> c, n |-> Len(said[c].hdrs) + 1, wellFormed |-> wellFormed]
           s == [said[c] EXCEPT !.hdrs = Append(said[c].hdrs, h)]
<1>1. said[c] \in Speech /\ said[c].hdrs \in Seq(Header)
  BY DEF Content, SpeechTypes, Speech
<1>2. h \in Header
  BY <1>1 DEF Header
<1>3. /\ InEngine(c, {"script", "drain"}) /\ ~sg.headersSent
      /\ UNCHANGED <<pc, mode, running, php, ctx, heard>>
      /\ said' = [said EXCEPT ![c] = s]
      /\ sg' = [sg EXCEPT !.hdrs = Append(sg.hdrs, h)]
  BY DEF SetHeader
<1> HIDE DEF h
<1>4. sg'.headersSent = sg.headersSent /\ sg'.code = sg.code /\ sg'.hdrs = Append(sg.hdrs, h)
  BY <1>3 DEF Inv, Shape
<1>5. Append(said[c].hdrs, h) \in Seq(Header)
  BY <1>1, <1>2
<1>6. /\ s \in Speech /\ s.chunks = said[c].chunks /\ s.logs = said[c].logs
      /\ s.hdrs = Append(said[c].hdrs, h) /\ s.code = said[c].code /\ s.post = said[c].post
  BY <1>1, <1>5, HeadersSet
<1> HIDE DEF s
<1> QED
  BY <1>3, <1>4, <1>6, SetsContent

LEMMA SetCodeContent ==
    ASSUME Inv, Alone, Content, NEW c \in Calls, NEW code \in Codes, SetCode(c, code)
    PROVE  Content'
<1> DEFINE s == [said[c] EXCEPT !.code = code]
<1>1. said[c] \in Speech /\ code \in Nat
  BY BoundAssumption DEF Content, SpeechTypes
<1>2. /\ InEngine(c, {"script", "drain"}) /\ ~sg.headersSent
      /\ UNCHANGED <<pc, mode, running, php, ctx, heard>>
      /\ said' = [said EXCEPT ![c] = s]
      /\ sg' = [sg EXCEPT !.code = code]
  BY DEF SetCode
<1>3. sg'.headersSent = sg.headersSent /\ sg'.code = code /\ sg'.hdrs = sg.hdrs
  BY <1>2 DEF Inv, Shape
<1>4. /\ s \in Speech /\ s.chunks = said[c].chunks /\ s.logs = said[c].logs
      /\ s.hdrs = said[c].hdrs /\ s.code = code /\ s.post = said[c].post
  BY <1>1, CodeSet
<1> HIDE DEF s
<1> QED
  BY <1>2, <1>3, <1>4, SetsContent

\* A message is noted in the context, or, after a failed startup, nowhere.
LEMMA LogMessageContent ==
    ASSUME Inv, Alone, Content, NEW c \in Calls, CallLogMessage(c)
    PROVE  Content'
<1> DEFINE n == said[c].logs
           s == [said[c] EXCEPT !.logs = n + 1]
           x == ctx[c]
           y == ctx'[c]
<1>1. /\ running = c /\ pc[c] \in EnginePcs
      /\ UNCHANGED <<pc, mode, running, sg, php, heard>>
      /\ said' = [said EXCEPT ![c] = s] /\ DOMAIN ctx' = DOMAIN ctx
      /\ Live => ctx' = [ctx EXCEPT ![sg.ctx] = LogMessage(ctx[sg.ctx], <<c, n + 1>>)]
  BY DEF CallLogMessage, InEngine, Touch
<1>2. said[c] \in Speech /\ n \in Nat /\ n + 1 \in Nat
  BY DEF Content, SpeechTypes, Speech
<1>3. /\ s \in Speech /\ s.chunks = said[c].chunks /\ s.logs = n + 1
      /\ s.hdrs = said[c].hdrs /\ s.code = said[c].code /\ s.post = said[c].post
  BY <1>2, LogsSet
<1> HIDE DEF s
<1>4. /\ said' \in [Calls -> Speech] /\ said'[c] = s
      /\ \A d \in Calls : d # c => said'[d] = said[d]
  BY <1>1, <1>3, SaidOf DEF Content
<1>5. SpeechTypes' /\ TakenInOrder(c)'
  BY <1>1, <1>3, <1>4 DEF Content, SpeechTypes, AllSaid, TakenInOrder
<1>6. CASE pc[c] = "failed"
  <2>1. ContextTypes(c)' /\ PositionKept(c)' /\ HeadersAccounted(c)' /\ BodyAccounted(c)'
    BY <1>1, <1>6 DEF ContextTypes, PositionKept, HeadersAccounted, BodyAccounted,
       Holding, Working, Exposed
  <2> QED
    BY <1>1, <1>4, <1>5, <2>1, CallbackContent
<1>7. CASE pc[c] \in Working
  <2>1. AllSaid(c) /\ sg.ctx = c /\ Live /\ c \in DOMAIN ctx /\ IsContext(x) /\ pc[c] \in Holding
    BY <1>1, <1>7, Calling
  <2>2. y = LogMessage(x, <<c, n + 1>>)
    BY <1>1, <2>1
  <2>3. /\ IsContext(y) /\ SameRequest(y, x) /\ y.pos = x.pos
        /\ y.messages = Append(x.messages, <<c, n + 1>>) /\ y.headers = x.headers
        /\ y.status = x.status /\ y.out = x.out
    BY <2>1, <2>2, Noted
  <2>4. y.messages = Logs(c)'
    <3>1. x.messages = Written(c, n)
      BY <2>1 DEF AllSaid, ContextTypes, Logs, Written
    <3>2. y.messages = Written(c, n + 1)
      BY <1>2, <2>3, <3>1, WriteOn
    <3> QED
      BY <1>3, <1>4, <3>2 DEF Logs, Written
  <2> HIDE DEF x, y
  <2>5. ContextTypes(c)'
    BY <1>1, <2>1, <2>3, <2>4 DEF AllSaid, ContextTypes, SameRequest, x, y
  <2>6. PositionKept(c)' /\ HeadersAccounted(c)'
    BY <1>1, <1>3, <1>4, <2>1, <2>3 DEF AllSaid, PositionKept, HeadersAccounted, AnsweredWith,
       Sent, x, y
  <2>7. BodyAccounted(c)'
    BY <1>1, <1>3, <1>4, <2>1, <2>3 DEF AllSaid, BodyAccounted, Accounted, Sent, Pieces, x, y
  <2> QED
    BY <1>1, <1>4, <1>5, <2>5, <2>6, <2>7, CallbackContent
<1> QED
  BY <1>1, <1>6, <1>7 DEF EnginePcs, Working, Exposed

\* The next bytes of the body: PHP and the context agree on how far it read.
LEMMA ReadPostContent ==
    ASSUME Inv, Alone, Content, NEW c \in Calls, NEW n \in ReadSizes, CallReadPost(c, n)
    PROVE  Content'
<1> DEFINE x == ctx[c]
           y == ctx'[c]
           post == said[c].post \o PostSlice(x, n)
           s == [said[c] EXCEPT !.post = post]
<1>1. running = c /\ pc[c] \in Working /\ pc[c] \in EnginePcs
      /\ UNCHANGED <<pc, mode, running, php, heard>>
  BY DEF CallReadPost, InEngine, Working, Exposed, EnginePcs
<1>2. /\ AllSaid(c) /\ sg.ctx = c /\ Live /\ c \in DOMAIN ctx /\ IsContext(x)
      /\ pc[c] \in Holding /\ pc[c] \in Exposed /\ said[c] \in Speech
  BY <1>1, Calling
<1>3. said' = [said EXCEPT ![c] = s]
  BY <1>2 DEF CallReadPost
<1>4. y = ReadPost(x, n) /\ DOMAIN ctx' = DOMAIN ctx
  BY <1>2 DEF CallReadPost, Touch
<1>5. sg'.headersSent = sg.headersSent /\ sg'.hdrs = sg.hdrs /\ sg'.code = sg.code
  <2>1. sg' = sg \/ sg' = [sg EXCEPT !.postRead = TRUE]
    BY DEF CallReadPost
  <2> QED
    BY <2>1 DEF Inv, Shape
<1>6. /\ x.post = Count(Len(x.post)) /\ Len(x.post) \in 0 .. PostLen
      /\ x.pos \in 0 .. Len(x.post) /\ said[c].post = Count(x.pos)
  BY <1>2 DEF AllSaid, ContextTypes, PositionKept
<1>7. Len(x.post) \in Nat /\ n \in Nat /\ PostLen \in Nat
  BY <1>6, BoundAssumption
<1>8. /\ IsContext(y) /\ SameRequest(y, x)
      /\ y.messages = x.messages /\ y.headers = x.headers
      /\ y.status = x.status /\ y.out = x.out /\ y.pos \in x.pos .. Len(x.post)
      /\ Count(x.pos) \o PostSlice(x, n) = Count(y.pos)
  BY <1>2, <1>4, <1>6, <1>7, Took
<1> HIDE DEF x, y
<1>9. post = Count(y.pos) /\ y.pos \in 0 .. Len(x.post)
  BY <1>6, <1>7, <1>8
<1> HIDE DEF post
<1>10. post \in Seq(Nat) /\ Len(post) = y.pos /\ Len(post) <= PostLen
  BY <1>6, <1>7, <1>9 DEF Count
<1>11. /\ s \in Speech /\ s.chunks = said[c].chunks /\ s.logs = said[c].logs
       /\ s.hdrs = said[c].hdrs /\ s.code = said[c].code /\ s.post = post
  BY <1>2, <1>10, PostSet
<1> HIDE DEF s
<1>12. /\ said' \in [Calls -> Speech] /\ said'[c] = s
       /\ \A d \in Calls : d # c => said'[d] = said[d]
  BY <1>3, <1>11, SaidOf DEF Content
<1>13. SpeechTypes'
  BY <1>1, <1>4, <1>12 DEF Content, SpeechTypes
<1>14. TakenInOrder(c)' /\ PositionKept(c)'
  BY <1>1, <1>2, <1>9, <1>10, <1>11, <1>12 DEF AllSaid, TakenInOrder, PositionKept, y
<1>15. ContextTypes(c)'
  BY <1>1, <1>2, <1>8, <1>9, <1>11, <1>12 DEF AllSaid, ContextTypes, SameRequest, Logs, x, y
<1>16. HeadersAccounted(c)'
  BY <1>1, <1>2, <1>5, <1>8, <1>11, <1>12 DEF AllSaid, HeadersAccounted, AnsweredWith,
     Sent, x, y
<1>17. BodyAccounted(c)'
  BY <1>1, <1>2, <1>8, <1>11, <1>12 DEF AllSaid, BodyAccounted, Accounted, Sent, Pieces, x, y
<1> QED
  BY <1>1, <1>12, <1>13, <1>14, <1>15, <1>16, <1>17, CallbackContent

\* A flush sends the headers and no output.
LEMMA FlushContent ==
    ASSUME Inv, Alone, Content, NEW c \in Calls, CallFlush(c)
    PROVE  Content'
<1> DEFINE x == ctx[c]
           answered == EnsureHeaders(x, sg)
<1>1. running = c /\ pc[c] \in Working /\ pc[c] \in EnginePcs
      /\ UNCHANGED <<pc, mode, running, php, said, heard>>
  BY DEF CallFlush, InEngine, Working, Exposed, EnginePcs
<1>2. /\ AllSaid(c) /\ sg.ctx = c /\ Live /\ c \in DOMAIN ctx /\ IsContext(x)
      /\ pc[c] \in Holding /\ HeadersOut
  BY <1>1, Calling
<1>3. ctx'[c] = answered /\ DOMAIN ctx' = DOMAIN ctx
  BY <1>2 DEF CallFlush, Touch, Flush
<1>4. sg'.headersSent = HeadersOut
  BY DEF CallFlush, Inv, Shape
<1>5. /\ IsContext(answered) /\ SameRequest(answered, x) /\ answered.pos = x.pos
      /\ answered.out = x.out /\ answered.messages = x.messages
      /\ sg.headersSent => answered = x
      /\ ~sg.headersSent => /\ answered.headers = ParsedHeaders(sg.hdrs)
                            /\ answered.status = ClampStatus(sg.code)
  BY <1>2, Ensured
<1> HIDE DEF x, answered
<1>6. SpeechTypes' /\ TakenInOrder(c)'
  BY <1>1, <1>2, <1>3 DEF Content, SpeechTypes, AllSaid, TakenInOrder
<1>7. ContextTypes(c)' /\ PositionKept(c)'
  BY <1>1, <1>2, <1>3, <1>5 DEF AllSaid, ContextTypes, PositionKept, SameRequest, Logs, x
<1>8. HeadersAccounted(c)'
  BY <1>1, <1>2, <1>3, <1>4, <1>5 DEF AllSaid, HeadersAccounted, AnsweredWith, Working, Exposed, x
<1>9. BodyAccounted(c)'
  BY <1>1, <1>2, <1>3, <1>5 DEF AllSaid, BodyAccounted, Accounted, Sent, Pieces, x
<1> QED
  BY <1>1, <1>6, <1>7, <1>8, <1>9, CallbackContent

\* PHP empties its buffer, behind the headers.
LEMMA UbWriteContent ==
    ASSUME Inv, Alone, Content, NEW c \in Calls, NEW panics \in BOOLEAN, CallUbWrite(c, panics)
    PROVE  Content'
<1> DEFINE x == ctx[c]
           y == ctx'[c]
           answered == EnsureHeaders(x, sg)
           wrote == WriteOutput(answered, php.ob)
<1>1. running = c /\ pc[c] \in Working /\ pc[c] \in EnginePcs
      /\ UNCHANGED <<pc, mode, running, said>> /\ php.ob # <<>>
  BY DEF CallUbWrite, InEngine, Working, Exposed, EnginePcs
<1>2. /\ AllSaid(c) /\ sg.ctx = c /\ Live /\ c \in DOMAIN ctx /\ IsContext(x)
      /\ pc[c] \in Holding /\ HeadersOut /\ php.ob \in Seq(Piece) /\ said[c] \in Speech
      /\ heard[c] \in [got : Seq(Piece), whole : BOOLEAN] /\ x.out \in Seq(Piece)
  BY <1>1, Calling
<1>3. y = wrote /\ DOMAIN ctx' = DOMAIN ctx
  BY <1>1, <1>2 DEF CallUbWrite, Touch, UbWrite
<1>4. sg'.headersSent = HeadersOut /\ php'.ob = <<>>
  BY DEF CallUbWrite, Inv, Shape
<1>5. /\ IsContext(answered) /\ SameRequest(answered, x) /\ answered.pos = x.pos
      /\ answered.out = x.out /\ answered.messages = x.messages
      /\ sg.headersSent => answered = x
      /\ ~sg.headersSent => /\ answered.headers = ParsedHeaders(sg.hdrs)
                            /\ answered.status = ClampStatus(sg.code)
  BY <1>2, Ensured
<1> HIDE DEF answered
<1>6. /\ IsContext(wrote) /\ SameRequest(wrote, answered) /\ wrote.pos = answered.pos
      /\ wrote.messages = answered.messages /\ wrote.headers = answered.headers
      /\ wrote.status = answered.status
      /\ answered.streaming => wrote.out = answered.out
      /\ ~answered.streaming => wrote.out = answered.out \o php.ob
  <2>1. IsContext(answered)
    BY <1>5
  <2> QED
    BY <2>1 DEF WriteOutput, IsContext, SameRequest
<1> HIDE DEF wrote
<1>7. x.streaming <=> mode[c] = "stream"
  BY <1>2 DEF AllSaid, ContextTypes
<1>8. /\ IsContext(y) /\ SameRequest(y, x) /\ y.pos = x.pos /\ y.messages = x.messages
      /\ sg.headersSent => y.headers = x.headers /\ y.status = x.status
      /\ ~sg.headersSent =>
           y.headers = ParsedHeaders(sg.hdrs) /\ y.status = ClampStatus(sg.code)
      /\ mode[c] = "stream" => y.out = x.out
      /\ mode[c] # "stream" => y.out = x.out \o php.ob
  BY <1>3, <1>5, <1>6, <1>7 DEF SameRequest
\* What the streaming callback makes of it.
<1>9. /\ mode[c] # "stream" => heard' = heard
      /\ mode[c] = "stream" /\ panics => heard' = [heard EXCEPT ![c].whole = FALSE]
      /\ mode[c] = "stream" /\ ~panics => heard' = [heard EXCEPT ![c].got = @ \o php.ob]
  BY <1>2, <1>7 DEF CallUbWrite, x
<1> HIDE DEF x, y
<1> DEFINE got  == heard[c].got
           sent == Sent(c)
<1>10. /\ got \in Seq(Piece) /\ got \o php.ob \in Seq(Piece) /\ Len(got) \in Nat
       /\ Len(got \o php.ob) = Len(got) + Len(php.ob)
       /\ heard[c] = [got |-> got, whole |-> heard[c].whole]
  BY <1>2
<1>11. /\ heard' \in [Calls -> [got : Seq(Piece), whole : BOOLEAN]]
       /\ \A d \in Calls : d # c => heard'[d] = heard[d]
       /\ mode[c] # "stream" => heard'[c] = heard[c]
       /\ mode[c] = "stream" /\ panics => heard'[c].got = got /\ heard'[c].whole = FALSE
       /\ mode[c] = "stream" /\ ~panics =>
            heard'[c].got = got \o php.ob /\ heard'[c].whole = heard[c].whole
  BY <1>9, <1>10 DEF Content, SpeechTypes
<1>12. SpeechTypes'
  <2>1. php'.ob \in Seq(Piece)
    BY <1>4
  <2> QED
    BY <1>1, <1>3, <1>11, <2>1 DEF Content, SpeechTypes
<1>13. Accounted(c, php.ob)
  BY <1>1, <1>2 DEF AllSaid, BodyAccounted
<1>14. /\ sent \in Seq(Piece) /\ Len(sent) \in Nat /\ Len(sent \o php.ob) = Len(sent) + Len(php.ob)
       /\ sent \o php.ob \in Seq(Piece)
  BY <1>2, <1>10 DEF Sent, x
<1>15. Sent(c)' = sent \o php.ob \/ (Sent(c)' = sent /\ heard'[c].whole = FALSE)
  BY <1>1, <1>8, <1>11 DEF Sent, x, y
<1>16. Accounted(c, <<>>)'
  <2>1. Pieces(c)' = Pieces(c)
    BY <1>1 DEF Pieces
  <2>2. heard'[c].whole => heard[c].whole
    BY <1>11
  <2>3. CASE Sent(c)' = sent \o php.ob
    <3>1. Sent(c)' \o <<>> = sent \o php.ob
      BY <1>14, <2>3
    <3> HIDE DEF sent
    <3>2. heard'[c].whole => Sent(c)' \o <<>> = Pieces(c)'
      BY <1>13, <2>1, <2>2, <3>1 DEF Accounted, sent
    <3>3. Len(Sent(c)') + Len(<<>>) <= said'[c].chunks
      BY <1>1, <1>2, <1>13, <1>14, <2>3 DEF Accounted, sent
    <3> QED
      BY <3>2, <3>3 DEF Accounted
  <2>4. CASE Sent(c)' = sent /\ heard'[c].whole = FALSE
    <3>1. said[c].chunks \in Nat /\ Len(php.ob) \in Nat
      BY <1>2, SpeechFields
    <3>2. Len(Sent(c)') + Len(<<>>) <= said'[c].chunks
      BY <1>1, <1>13, <1>14, <2>4, <3>1 DEF Accounted
    <3> QED
      BY <2>4, <3>2 DEF Accounted
  <2> QED
    BY <1>15, <2>3, <2>4
<1>17. BodyAccounted(c)'
  BY <1>1, <1>4, <1>16 DEF BodyAccounted, Working, Exposed
<1>18. HeadersAccounted(c)'
  BY <1>1, <1>2, <1>4, <1>8 DEF AllSaid, HeadersAccounted, AnsweredWith, Working, Exposed, x, y
<1>19. PositionKept(c)'
  BY <1>1, <1>2, <1>8 DEF AllSaid, PositionKept, x, y
<1>20. ContextTypes(c)'
  <2>1. y.out \in Seq(Piece)
    <3>1. x.out \in Seq(Piece) /\ php.ob \in Seq(Piece)
      BY <1>2
    <3>2. x.out \o php.ob \in Seq(Piece)
      BY <3>1
    <3> QED
      BY <1>8, <3>1, <3>2
  <2>2. pc[c] # "starting"
    BY <1>1 DEF Working
  <2> QED
    BY <1>1, <1>2, <1>7, <1>8, <2>1, <2>2 DEF AllSaid, ContextTypes, SameRequest, Logs, x, y
<1>21. TakenInOrder(c)'
  <2>1. CASE heard'[c] = heard[c]
    BY <1>1, <1>2, <2>1 DEF AllSaid, TakenInOrder
  <2>2. CASE mode[c] = "stream" /\ panics
    BY <1>1, <1>2, <1>11, <2>2 DEF AllSaid, TakenInOrder
  <2>3. CASE mode[c] = "stream" /\ ~panics
    <3>1. sent = got /\ heard'[c].got = got \o php.ob /\ heard'[c].whole = heard[c].whole
      BY <1>11, <2>3 DEF Sent
    <3>2. heard[c].whole => got \o php.ob = Written(c, said[c].chunks)
      BY <1>13, <3>1 DEF Accounted, Pieces, Written
    <3>3. Len(got \o php.ob) <= said[c].chunks
      BY <1>10, <1>13, <3>1 DEF Accounted
    <3>4. said[c].chunks \in Nat
      BY <1>2, SpeechFields
    <3>5. heard[c].whole => got \o php.ob = Written(c, Len(got \o php.ob))
      BY <3>2, <3>4, WriteOn
    <3> HIDE DEF got, sent
    <3> QED
      BY <1>1, <1>2, <2>3, <3>1, <3>3, <3>5 DEF AllSaid, TakenInOrder
  <2> QED
    BY <1>1, <1>11, <2>1, <2>2, <2>3 DEF Inv, TypeOK
<1> QED
  BY <1>1, <1>11, <1>12, <1>17, <1>18, <1>19, <1>20, <1>21, CallbackContent
-----------------------------------------------------------------------------
LEMMA NextContent ==
    ASSUME ~Reentrant, Inv, Alone, Content, [Next]_vars
    PROVE  Content'
<1>1. CASE UNCHANGED vars
  <2>1. UNCHANGED <<pc, mode, running, sg, php, ctx, said, heard>>
    BY <1>1 DEF vars
  <2>2. SpeechTypes' /\ \A d \in Calls : d # running' => Untouched(d)'
    BY <2>1 DEF Content, SpeechTypes, Untouched
  <2>3. ASSUME NEW c \in Calls, c = running' PROVE AllSaid(c)'
    <3>1. AllSaid(c)
      BY <2>1, <2>3 DEF Content
    <3>2. TakenInOrder(c)' /\ ContextTypes(c)' /\ PositionKept(c)'
      BY <2>1, <3>1 DEF AllSaid, TakenInOrder, ContextTypes, PositionKept, Logs
    <3>3. HeadersAccounted(c)' /\ BodyAccounted(c)'
      BY <2>1, <3>1 DEF AllSaid, HeadersAccounted, AnsweredWith, BodyAccounted, Accounted,
         Sent, Pieces
    <3> QED
      BY <2>1, <3>1, <3>2, <3>3 DEF AllSaid, Untouched
  <2> QED
    BY <2>2, <2>3 DEF Content
<1>2. ASSUME NEW c \in Calls, Starts(c) PROVE Content'
  BY <1>2, StartsContent
<1>3. ASSUME NEW c \in Calls, Executor(c) PROVE Content'
  <2>1. CASE Publish(c)
    BY <2>1, PublishContent
  <2>2. CASE EnterStartup(c)
    BY <2>2, EnterStartupContent
  <2>3. CASE RunScript(c) \/ BeginShutdown(c)
    BY <2>3, PlainContent
  <2>4. CASE Reclaim(c)
    BY <2>4, ReclaimContent
  <2>5. CASE Return(c) \/ ReturnStartupFailed(c)
    BY <2>5, EndContent
  <2> QED
    BY <1>3, <2>1, <2>2, <2>3, <2>4, <2>5 DEF Executor
<1>4. ASSUME NEW c \in Calls, HookPanics(c) PROVE Content'
  BY <1>4, EndContent
<1>5. ASSUME NEW c \in Calls, EngineCompletes(c) PROVE Content'
  <2>1. CASE StartupOk(c) \/ ScriptEnd(c)
    BY <2>1, PlainContent
  <2>2. CASE DropFailed(c)
    BY <2>2, DropFailedContent
  <2>3. CASE Deactivate(c)
    BY <2>3, DeactivateContent
  <2>4. CASE CallUbWrite(c, FALSE)
    BY <2>4, UbWriteContent
  <2> QED
    BY <1>5, <2>1, <2>2, <2>3, <2>4 DEF EngineCompletes
<1>6. ASSUME NEW c \in Calls, EngineSpeaks(c) PROVE Content'
  <2>1. CASE Echo(c)
    BY <2>1, EchoContent
  <2>2. CASE CallFlush(c)
    BY <2>2, FlushContent
  <2>3. CASE CallLogMessage(c)
    BY <2>3, LogMessageContent
  <2>4. CASE CallUbWrite(c, TRUE)
    BY <2>4, UbWriteContent
  <2>5. CASE \E wellFormed \in BOOLEAN : SetHeader(c, wellFormed)
    BY <2>5, SetHeaderContent
  <2>6. CASE \E code \in Codes : SetCode(c, code)
    BY <2>6, SetCodeContent
  <2>7. CASE \E n \in ReadSizes : CallReadPost(c, n)
    BY <2>7, ReadPostContent
  <2> QED
    BY <1>6, <2>1, <2>2, <2>3, <2>4, <2>5, <2>6, <2>7 DEF EngineSpeaks
<1> QED
  BY <1>1, <1>2, <1>3, <1>4, <1>5, <1>6 DEF Next

LEMMA ContentAlways ==
    ASSUME Reentrant = FALSE PROVE Spec => [](Inv /\ Alone /\ Content)
<1>1. Init => Inv /\ Alone /\ Content
  BY InitInv, InitContent
<1>2. (Inv /\ Alone /\ Content) /\ [Next]_vars => (Inv /\ Alone /\ Content)'
  BY NextInv, NextContent
<1> QED
  BY <1>1, <1>2, PTL DEF Spec

(* Whatever PHP reads in startup, in the script and while shutting down,   *)
(* and with any buffer sizes, it gets the body once, from its first byte,  *)
(* in order.                                                               *)
THEOREM BodyReadOnce == ASSUME Reentrant = FALSE PROVE Spec => []PostReadOnce
<1>1. Content => PostReadOnce
  <2> SUFFICES ASSUME Content, NEW c \in Calls
               PROVE  said[c].post = [i \in 1 .. Len(said[c].post) |-> i]
    BY DEF PostReadOnce
  <2>1. CASE c = running
    BY <2>1 DEF Content, AllSaid, TakenInOrder, Count
  <2>2. CASE c # running
    BY <2>2 DEF Content, Untouched, Silent
  <2> QED
    BY <2>1, <2>2
<1> QED
  BY ContentAlways, <1>1, PTL

(* No byte of the body gets past the headers, and once one is out the      *)
(* script cannot change them.                                              *)
THEOREM HeadersFirst == ASSUME Reentrant = FALSE PROVE Spec => []HeadersBeforeBody
<1>1. Inv /\ Content => HeadersBeforeBody
  <2> SUFFICES ASSUME Inv, Content, NEW c \in Calls, running = c, pc[c] \in Exposed,
                      ctx[c].out # <<>> \/ heard[c].got # <<>>
               PROVE  sg.headersSent /\ AnsweredWith(c)
    BY DEF HeadersBeforeBody, AnsweredWith
  <2>1. AllSaid(c)
    BY DEF Content
  <2>2. mode[c] \in {"hooks", "stream"}
    BY DEF Inv, TypeOK
  <2>3. mode[c] = "hooks" => heard[c].got = <<>>
    BY <2>1 DEF AllSaid, TakenInOrder, Deaf
  <2>4. mode[c] = "stream" \/ pc[c] = "starting" => ctx[c].out = <<>>
    BY <2>1 DEF AllSaid, ContextTypes, Holding
  <2>5. pc[c] # "starting"
    BY <2>1, <2>4 DEF AllSaid, Untouched, Deaf
  <2>6. Sent(c) # <<>>
    BY <2>2, <2>3, <2>4 DEF Sent
  <2> QED
    BY <2>1, <2>5, <2>6 DEF AllSaid, HeadersAccounted, Working
<1> QED
  BY ContentAlways, <1>1, PTL

LEMMA HoldsAll == Inv /\ Alone /\ Content => ContextHoldsWhatWasSaid
<1> SUFFICES ASSUME Inv, Alone, Content, NEW c \in Calls, pc[c] = "report"
             PROVE  /\ ctx[c].out = IF mode[c] = "stream" THEN <<>> ELSE Pieces(c)
                    /\ ctx[c].headers  = ParsedHeaders(said[c].hdrs)
                    /\ ctx[c].status   = ClampStatus(said[c].code)
                    /\ ctx[c].messages = Logs(c)
                    /\ mode[c] = "stream" /\ heard[c].whole => heard[c].got = Pieces(c)
  BY DEF ContextHoldsWhatWasSaid
<1>1. running = c
  BY DEF Alone, OneInProgress, ActivePcs, HookPcs
<1>2. AllSaid(c)
  BY <1>1 DEF Content
<1>3. AnsweredWith(c) /\ Accounted(c, <<>>)
  BY <1>2 DEF AllSaid, HeadersAccounted, BodyAccounted
<1>4. /\ ctx[c].out \in Seq(Piece) /\ ctx[c].messages = Logs(c)
      /\ mode[c] = "stream" => ctx[c].out = <<>>
  BY <1>2 DEF AllSaid, ContextTypes, Holding
<1>5. mode[c] \in {"hooks", "stream"} /\ heard[c].got \in Seq(Piece)
  BY DEF Inv, TypeOK, Content, SpeechTypes
<1>6. mode[c] # "stream" => heard[c].whole
  BY <1>2, <1>5 DEF AllSaid, TakenInOrder, Deaf
<1>7. Sent(c) \in Seq(Piece) /\ Sent(c) \o <<>> = Sent(c)
  BY <1>4, <1>5 DEF Sent
<1>8. heard[c].whole => Sent(c) = Pieces(c)
  BY <1>3, <1>7 DEF Accounted
<1> QED
  BY <1>3, <1>4, <1>6, <1>8 DEF AnsweredWith, Sent

(* Without calls from hooks, the box that comes back from C holds all that *)
(* PHP said for this call, in its order, and nothing said for another.     *)
THEOREM FullAccount == ASSUME Reentrant = FALSE PROVE Spec => []ContextHoldsWhatWasSaid
<1> QED
  BY ContentAlways, HoldsAll, PTL
-----------------------------------------------------------------------------
(* The calls keep the contract of execute (RequestContract): the initial   *)
(* states are those of the contract, and every step is a step of the       *)
(* contract or leaves its variables alone.                                 *)

Phases == [c \in Calls |-> IF pc[c] = "idle" THEN "idle"
                           ELSE IF pc[c] \in Outcomes THEN "over" ELSE "running"]

LEMMA ContractInit == Init => Contract!Init
BY DEF Init, Contract!Init, Silent, Deaf, NoResult, Blank, IntoResult, NewContext, Outcomes,
   Contract!Nothing, Contract!Unheard, Contract!NoAnswer, Contract!IntoResult,
   Contract!NewContext

\* The contract's operators that this module and RequestContract share.
LEMMA SameWords ==
    /\ Contract!Nothing = Silent /\ Contract!Unheard = Deaf /\ Contract!NoAnswer = NoResult
    /\ \A code : Contract!ClampStatus(code) = ClampStatus(code)
    /\ \A c, n : Contract!Written(c, n) = Written(c, n)
BY DEF Silent, Deaf, NoResult, Blank, IntoResult, NewContext, ClampStatus, Written,
   StatusMin, StatusMax, StatusFallback, Contract!StatusMin, Contract!StatusMax,
   Contract!StatusFallback, Contract!Nothing, Contract!Unheard, Contract!NoAnswer,
   Contract!IntoResult, Contract!NewContext, Contract!ClampStatus, Contract!Written

LEMMA SameFilter ==
    ASSUME NEW s, NEW positions PROVE Contract!Kept(s, positions) = Kept(s, positions)
BY DEF Contract!Kept, Kept

LEMMA SameHeaders ==
    ASSUME NEW hdrs PROVE Contract!ParsedHeaders(hdrs) = ParsedHeaders(hdrs)
BY SameFilter DEF Contract!ParsedHeaders, ParsedHeaders

LEMMA FilteredIsSubsequence ==
    ASSUME NEW hdrs, NEW positions \in SUBSET (1 .. Len(hdrs))
    PROVE  Contract!IsSubsequence(Kept(hdrs, positions), hdrs)
BY SameFilter DEF Contract!IsSubsequence

\* The call in progress is the one that is running.
LEMMA PhaseIsRunning ==
    ASSUME Inv, Alone
    PROVE  \A d \in Calls : Phases[d] = "running" <=> d = running
BY NoneAssumption DEF Inv, TypeOK, Alone, OneInProgress, Phases, ActivePcs, EnginePcs,
   HookPcs, Outcomes

LEMMA StartsKeeps ==
    ASSUME Inv, Alone, ~Reentrant, NEW c \in Calls, Starts(c)
    PROVE  Contract!Next
<1>1. running = None /\ pc[c] = "idle"
  BY DEF Starts, Reject, Begin, MayStart
<1>2. \A d \in Calls : Phases[d] # "running"
  BY <1>1, PhaseIsRunning, NoneAssumption
<1>3. Phases[c] = "idle"
  BY <1>1 DEF Phases
<1>4. CASE Reject(c)
  <2>1. Phases' = [Phases EXCEPT ![c] = "over"]
    BY <1>4 DEF Reject, Inv, TypeOK, Phases, Outcomes
  <2>2. last' = [call |-> c, outcome |-> "rejected", response |-> NoResult, heard |-> Deaf]
        /\ UNCHANGED <<mode, said, heard>>
    BY <1>4 DEF Reject
  <2>3. Contract!Refuse(c)
    BY <1>2, <1>3, <2>1, <2>2, SameWords DEF Contract!Refuse, Phases
  <2> QED
    BY <2>3 DEF Contract!Next
<1>5. CASE \E m \in {"hooks", "stream"} : Begin(c, m)
  <2>1. Phases' = [Phases EXCEPT ![c] = "running"]
    BY <1>5 DEF Begin, Inv, TypeOK, Phases, Outcomes
  <2>2. (\E m \in {"hooks", "stream"} : mode' = [mode EXCEPT ![c] = m])
        /\ UNCHANGED <<said, heard, last>>
    BY <1>5 DEF Begin
  <2>3. Contract!Start(c)
    BY <1>2, <1>3, <2>1, <2>2 DEF Contract!Start, Phases
  <2> QED
    BY <2>3 DEF Contract!Next
<1> QED
  BY <1>4, <1>5 DEF Starts

\* Steps nobody outside sees.
LEMMA HiddenKeeps ==
    ASSUME Inv, NEW c \in Calls, NEW from \in ActivePcs, NEW to \in ActivePcs,
           Goto(c, from, to), UNCHANGED <<mode, said, heard, last>>
    PROVE  UNCHANGED Contract!vars
<1>1. Phases' = Phases
  BY DEF Goto, Inv, TypeOK, Phases, ActivePcs, EnginePcs, HookPcs, Outcomes
<1> QED
  BY <1>1 DEF Contract!vars, Phases

\* Nothing is taken back: a sequence extends itself.
LEMMA ExtendsSame ==
    ASSUME NEW S, NEW t \in Seq(S)
    PROVE  Contract!Extends(t, t)
<1>1. SubSeq(t, 1, Len(t)) = t /\ Len(t) \in Nat
  OBVIOUS
<1> QED
  BY <1>1 DEF Contract!Extends

LEMMA ExtendsAppend ==
    ASSUME NEW S, NEW t \in Seq(S), NEW x \in S
    PROVE  Contract!Extends(Append(t, x), t)
<1>1. SubSeq(Append(t, x), 1, Len(t)) = t
      /\ Len(Append(t, x)) = Len(t) + 1 /\ Len(t) \in Nat
  OBVIOUS
<1> QED
  BY <1>1 DEF Contract!Extends

LEMMA ExtendsConcat ==
    ASSUME NEW S, NEW t \in Seq(S), NEW u \in Seq(S)
    PROVE  Contract!Extends(t \o u, t)
<1>1. SubSeq(t \o u, 1, Len(t)) = t
  OBVIOUS
<1>2. Len(t \o u) = Len(t) + Len(u) /\ Len(t) \in Nat /\ Len(u) \in Nat
  OBVIOUS
<1> QED
  BY <1>1, <1>2 DEF Contract!Extends

LEMMA SliceType ==
    ASSUME NEW S, NEW t \in Seq(S), NEW p \in Nat, NEW k \in Nat, p + k <= Len(t)
    PROVE  SubSeq(t, p + 1, p + k) \in Seq(S)
OBVIOUS

\* What a call of the engine says or hands on, the contract allows.
LEMMA SaysKeeps ==
    ASSUME Inv, Alone, Content, Content', NEW c \in Calls, NEW s \in Speech,
           running = c, UNCHANGED <<pc, mode, running, heard, last>>,
           said' = [said EXCEPT ![c] = s],
           s.chunks >= said[c].chunks, s.logs >= said[c].logs,
           Contract!Extends(s.hdrs, said[c].hdrs), Len(s.post) >= Len(said[c].post)
    PROVE  Contract!Next
<1>1. Phases[c] = "running" /\ UNCHANGED Phases
  BY PhaseIsRunning DEF Phases
<1>2. said'[c] = s /\ said' = [said EXCEPT ![c] = said'[c]]
  BY SaidOf DEF Content
<1>3. TakenInOrder(c) /\ TakenInOrder(c)'
  BY DEF Content, AllSaid
<1>4. Contract!Says(said[c], said'[c])
  BY <1>2, <1>3 DEF Contract!Says, TakenInOrder, Count
<1>5. heard[c].got \in Seq(Piece) /\ heard' = [heard EXCEPT ![c] = heard'[c]]
  BY DEF Content, SpeechTypes
<1>6. Contract!Extends(heard[c].got, heard[c].got)
  BY <1>5, ExtendsSame
<1>7. Contract!Hears(heard[c], heard'[c], c, said[c].chunks)
  BY <1>3, <1>6, SameWords DEF Contract!Hears, TakenInOrder
<1>8. Contract!Say(c)
  BY <1>1, <1>2, <1>4, <1>5, <1>7 DEF Contract!Say, Phases
<1> QED
  BY <1>8 DEF Contract!Next

\* The callbacks that say something.
LEMMA SpeechKeeps ==
    ASSUME Inv, Alone, Content, Content', NEW c \in Calls,
           \/ Echo(c) \/ CallLogMessage(c)
           \/ \E wellFormed \in BOOLEAN : SetHeader(c, wellFormed)
           \/ \E code \in Codes : SetCode(c, code)
           \/ \E n \in ReadSizes : CallReadPost(c, n)
    PROVE  Contract!Next
<1> DEFINE old == said[c]
<1>1. /\ old \in Speech /\ old.chunks \in Nat /\ old.logs \in Nat
      /\ old.hdrs \in Seq(Header) /\ old.post \in Seq(Nat) /\ Len(old.post) \in Nat
  BY DEF Content, SpeechTypes, Speech
<1>2. Contract!Extends(old.hdrs, old.hdrs)
  BY <1>1, ExtendsSame
<1>3. CASE Echo(c)
  <2> DEFINE s == [old EXCEPT !.chunks = old.chunks + 1]
  <2>1. /\ running = c /\ UNCHANGED <<pc, mode, running, heard, last>>
        /\ said' = [said EXCEPT ![c] = s]
    BY <1>3 DEF Echo, InEngine
  <2>2. old.chunks + 1 \in Nat
    BY <1>1
  <2>3. /\ s \in Speech /\ s.chunks = old.chunks + 1 /\ s.logs = old.logs
        /\ s.hdrs = old.hdrs /\ s.post = old.post
    BY <1>1, <2>2, ChunksSet
  <2> HIDE DEF s
  <2>4. /\ s.chunks >= old.chunks /\ s.logs >= old.logs
        /\ Contract!Extends(s.hdrs, old.hdrs) /\ Len(s.post) >= Len(old.post)
    BY <1>1, <1>2, <2>3
  <2> QED
    BY <2>1, <2>3, <2>4, SaysKeeps
<1>4. CASE CallLogMessage(c)
  <2> DEFINE s == [old EXCEPT !.logs = old.logs + 1]
  <2>1. /\ running = c /\ UNCHANGED <<pc, mode, running, heard, last>>
        /\ said' = [said EXCEPT ![c] = s]
    BY <1>4 DEF CallLogMessage, InEngine
  <2>2. old.logs + 1 \in Nat
    BY <1>1
  <2>3. /\ s \in Speech /\ s.chunks = old.chunks /\ s.logs = old.logs + 1
        /\ s.hdrs = old.hdrs /\ s.post = old.post
    BY <1>1, <2>2, LogsSet
  <2> HIDE DEF s
  <2>4. /\ s.chunks >= old.chunks /\ s.logs >= old.logs
        /\ Contract!Extends(s.hdrs, old.hdrs) /\ Len(s.post) >= Len(old.post)
    BY <1>1, <1>2, <2>3
  <2> QED
    BY <2>1, <2>3, <2>4, SaysKeeps
<1>5. ASSUME NEW wellFormed \in BOOLEAN, SetHeader(c, wellFormed) PROVE Contract!Next
  <2> DEFINE h == [of |-> c, n |-> Len(old.hdrs) + 1, wellFormed |-> wellFormed]
             s == [old EXCEPT !.hdrs = Append(old.hdrs, h)]
  <2>1. h \in Header
    BY <1>1 DEF Header
  <2>2. /\ running = c /\ UNCHANGED <<pc, mode, running, heard, last>>
        /\ said' = [said EXCEPT ![c] = s]
    BY <1>5 DEF SetHeader, InEngine
  <2> HIDE DEF h
  <2>3. Append(old.hdrs, h) \in Seq(Header) /\ Contract!Extends(Append(old.hdrs, h), old.hdrs)
    BY <1>1, <2>1, ExtendsAppend
  <2>4. /\ s \in Speech /\ s.chunks = old.chunks /\ s.logs = old.logs
        /\ s.hdrs = Append(old.hdrs, h) /\ s.post = old.post
    BY <1>1, <2>3, HeadersSet
  <2> HIDE DEF s
  <2>5. /\ s.chunks >= old.chunks /\ s.logs >= old.logs
        /\ Contract!Extends(s.hdrs, old.hdrs) /\ Len(s.post) >= Len(old.post)
    BY <1>1, <2>3, <2>4
  <2> QED
    BY <2>2, <2>4, <2>5, SaysKeeps
<1>6. ASSUME NEW code \in Codes, SetCode(c, code) PROVE Contract!Next
  <2> DEFINE s == [old EXCEPT !.code = code]
  <2>1. /\ running = c /\ UNCHANGED <<pc, mode, running, heard, last>>
        /\ said' = [said EXCEPT ![c] = s]
    BY <1>6 DEF SetCode, InEngine
  <2>2. code \in Nat
    BY BoundAssumption
  <2>3. /\ s \in Speech /\ s.chunks = old.chunks /\ s.logs = old.logs
        /\ s.hdrs = old.hdrs /\ s.post = old.post
    BY <1>1, <2>2, CodeSet
  <2> HIDE DEF s
  <2>4. /\ s.chunks >= old.chunks /\ s.logs >= old.logs
        /\ Contract!Extends(s.hdrs, old.hdrs) /\ Len(s.post) >= Len(old.post)
    BY <1>1, <1>2, <2>3
  <2> QED
    BY <2>1, <2>3, <2>4, SaysKeeps
<1>7. ASSUME NEW n \in ReadSizes, CallReadPost(c, n) PROVE Contract!Next
  <2> DEFINE bytes == PostSlice(ctx[c], n)
             s == [old EXCEPT !.post = old.post \o bytes]
  <2>1. /\ running = c /\ pc[c] \in Working /\ UNCHANGED <<pc, mode, running, heard, last>>
    BY <1>7 DEF CallReadPost, InEngine, Working, Exposed
  <2>2. said' = [said EXCEPT ![c] = s]
    BY <1>7, <2>1, Calling DEF CallReadPost
  <2>3. bytes \in Seq(Nat)
    <3>1. AllSaid(c) /\ pc[c] \in Holding
      BY <2>1, Calling
    <3>2. ctx[c].post = Count(Len(ctx[c].post)) /\ Len(ctx[c].post) \in Nat
          /\ ctx[c].pos \in 0 .. Len(ctx[c].post)
      BY <3>1, BoundAssumption DEF AllSaid, ContextTypes
    <3>3. ctx[c].post \in Seq(Nat) /\ n \in Nat
      BY <3>2, BoundAssumption DEF Count
    <3> DEFINE toCopy == IF Len(ctx[c].post) - ctx[c].pos < n
                         THEN Len(ctx[c].post) - ctx[c].pos ELSE n
    <3>4. bytes = SubSeq(ctx[c].post, ctx[c].pos + 1, ctx[c].pos + toCopy)
      BY DEF PostSlice
    <3>5. ctx[c].pos + toCopy <= Len(ctx[c].post) /\ toCopy \in Nat /\ ctx[c].pos \in Nat
      BY <3>2, <3>3
    <3> HIDE DEF toCopy, bytes
    <3>6. SubSeq(ctx[c].post, ctx[c].pos + 1, ctx[c].pos + toCopy) \in Seq(Nat)
      BY <3>3, <3>5, SliceType
    <3> QED
      BY <3>4, <3>6
  <2> HIDE DEF bytes
  <2>4. old.post \o bytes \in Seq(Nat) /\ Len(old.post \o bytes) >= Len(old.post)
    BY <1>1, <2>3
  <2>5. /\ s \in Speech /\ s.chunks = old.chunks /\ s.logs = old.logs
        /\ s.hdrs = old.hdrs /\ s.post = old.post \o bytes
    BY <1>1, <2>4, PostSet
  <2> HIDE DEF s
  <2>6. /\ s.chunks >= old.chunks /\ s.logs >= old.logs
        /\ Contract!Extends(s.hdrs, old.hdrs) /\ Len(s.post) >= Len(old.post)
    BY <1>1, <1>2, <2>4, <2>5
  <2> QED
    BY <2>1, <2>2, <2>5, <2>6, SaysKeeps
<1> QED
  BY <1>3, <1>4, <1>5, <1>6, <1>7

\* Output that reaches the streaming callback is the next part of the body;
\* output that goes to the context, or flushing, is not seen from outside.
LEMMA OutputKeeps ==
    ASSUME Inv, Alone, Content, Content', NEW c \in Calls,
           CallFlush(c) \/ \E panics \in BOOLEAN : CallUbWrite(c, panics)
    PROVE  Contract!Next \/ UNCHANGED Contract!vars
<1>1. running = c /\ pc[c] \in Working /\ UNCHANGED <<pc, mode, running, said, last>>
  BY DEF CallFlush, CallUbWrite, InEngine, Working, Exposed
<1>2. CASE heard' = heard
  BY <1>1, <1>2 DEF Contract!vars
<1>3. CASE heard' # heard
  <2> DEFINE old == heard[c]
  <2>1. PICK panics \in BOOLEAN : CallUbWrite(c, panics)
    BY <1>3 DEF CallFlush
  <2>2. /\ sg.ctx = c /\ php.ob \in Seq(Piece) /\ old.got \in Seq(Piece)
    BY <1>1, Calling DEF Content, SpeechTypes
  <2>3. heard' = [heard EXCEPT ![c].whole = FALSE] \/ heard' = [heard EXCEPT ![c].got = @ \o php.ob]
    BY <1>3, <2>1, <2>2 DEF CallUbWrite
  <2>4. /\ heard' = [heard EXCEPT ![c] = heard'[c]]
        /\ heard'[c].got = old.got \/ heard'[c].got = old.got \o php.ob
        /\ heard'[c].whole => old.whole
    <3>1. /\ DOMAIN heard = Calls
          /\ old = [got |-> old.got, whole |-> old.whole] /\ old.whole \in BOOLEAN
      BY DEF Content, SpeechTypes
    <3>2. CASE heard' = [heard EXCEPT ![c].whole = FALSE]
      <4>1. heard'[c] = [old EXCEPT !.whole = FALSE]
        BY <3>1, <3>2
      <4>2. heard'[c].got = old.got /\ heard'[c].whole = FALSE
        BY <3>1, <4>1
      <4> QED
        BY <3>1, <3>2, <4>1, <4>2
    <3>3. CASE heard' = [heard EXCEPT ![c].got = @ \o php.ob]
      <4>1. heard'[c] = [old EXCEPT !.got = old.got \o php.ob]
        BY <3>1, <3>3
      <4>2. heard'[c].got = old.got \o php.ob /\ heard'[c].whole = old.whole
        BY <3>1, <4>1
      <4> QED
        BY <3>1, <3>3, <4>1, <4>2
    <3> QED
      BY <2>3, <3>2, <3>3
  <2>5. Contract!Extends(heard'[c].got, old.got)
    <3>1. Contract!Extends(old.got, old.got) /\ Contract!Extends(old.got \o php.ob, old.got)
      BY <2>2, ExtendsSame, ExtendsConcat
    <3> HIDE DEF old
    <3> QED
      BY <2>4, <3>1
  <2>6. Contract!Hears(old, heard'[c], c, said[c].chunks)
    <3>1. TakenInOrder(c)'
      BY <1>1 DEF Content, AllSaid
    <3> QED
      BY <1>1, <2>4, <2>5, <3>1, SameWords DEF Contract!Hears, TakenInOrder
  <2>7. Contract!Says(said[c], said'[c]) /\ said' = [said EXCEPT ![c] = said'[c]]
    <3>1. /\ TakenInOrder(c) /\ said[c].hdrs \in Seq(Header) /\ said[c].chunks \in Nat
          /\ said[c].logs \in Nat /\ Len(said[c].post) \in Nat /\ DOMAIN said = Calls
      BY <1>1 DEF Content, AllSaid, SpeechTypes, Speech
    <3>2. Contract!Extends(said[c].hdrs, said[c].hdrs)
      BY <3>1, ExtendsSame
    <3>3. said' = said /\ said = [said EXCEPT ![c] = said[c]]
      BY <1>1 DEF Content, SpeechTypes
    <3> QED
      BY <3>1, <3>2, <3>3 DEF Contract!Says, TakenInOrder, Count
  <2>8. Phases[c] = "running" /\ UNCHANGED Phases
    BY <1>1, PhaseIsRunning DEF Phases
  <2>9. Contract!Say(c)
    BY <1>1, <2>4, <2>6, <2>7, <2>8 DEF Contract!Say, Phases
  <2> QED
    BY <2>9 DEF Contract!Next
<1> QED
  BY <1>2, <1>3

\* A call that ends forgets what was said and gives the caller his answer.
LEMMA FinishKeeps ==
    ASSUME Inv, Alone, Content, NEW c \in Calls, NEW from \in ActivePcs,
           NEW outcome \in {"ok", "panicked", "startup_failed"}, NEW response,
           End(c, from, outcome, response), mode' = mode
    PROVE  /\ Contract!Finish(c)
           /\ last' = [call |-> c, outcome |-> outcome, response |-> response, heard |-> heard[c]]
<1>1. /\ running = c /\ pc' = [pc EXCEPT ![c] = outcome]
      /\ said' = [said EXCEPT ![c] = Silent] /\ heard' = [heard EXCEPT ![c] = Deaf]
      /\ last' = [call |-> c, outcome |-> outcome, response |-> response, heard |-> heard[c]]
  BY DEF End, Goto
<1>2. Phases' = [Phases EXCEPT ![c] = "over"]
  BY <1>1 DEF Inv, TypeOK, Phases, Outcomes
<1>3. Phases[c] = "running"
  BY <1>1, PhaseIsRunning
<1> QED
  BY <1>1, <1>2, <1>3, SameWords DEF Contract!Finish, Phases

LEMMA GiveUpKeeps ==
    ASSUME Inv, Alone, Content, NEW c \in Calls, HookPanics(c) \/ ReturnStartupFailed(c)
    PROVE  Contract!Next
<1>1. PICK outcome \in {"panicked", "startup_failed"} :
        pc[c] \in ActivePcs /\ End(c, pc[c], outcome, NoResult) /\ mode' = mode
  <2>1. CASE HookPanics(c)
    BY <2>1 DEF HookPanics, AtHook, ActivePcs
  <2>2. CASE ReturnStartupFailed(c)
    BY <2>2 DEF ReturnStartupFailed, End, Goto, ActivePcs
  <2> QED
    BY <2>1, <2>2
<1>2. /\ Contract!Finish(c)
      /\ last' = [call |-> c, outcome |-> outcome, response |-> NoResult, heard |-> heard[c]]
  BY <1>1, FinishKeeps
<1>3. Contract!GiveUp(c)
  BY <1>2, SameWords DEF Contract!GiveUp
<1> QED
  BY <1>3 DEF Contract!Next

LEMMA AnswerKeeps ==
    ASSUME Inv, Alone, Content, NEW c \in Calls, Return(c)
    PROVE  Contract!Next
<1> DEFINE x == ctx[c]
<1>1. pc[c] = "report" /\ running = c /\ mode' = mode
  BY DEF Return, End, Goto
<1>2. PICK body, headers :
        /\ End(c, "report", "ok", IntoResult(x, body, headers))
        /\ mode[c] = "stream" => body = <<>> /\ headers = x.headers
        /\ mode[c] # "stream" =>
             /\ body \in {x.out, <<>>}
             /\ \E keep \in SUBSET (1 .. Len(x.headers)) : headers = Kept(x.headers, keep)
  BY DEF Return
<1> DEFINE r == IntoResult(x, body, headers)
<1>3. /\ Contract!Finish(c)
      /\ last' = [call |-> c, outcome |-> "ok", response |-> r, heard |-> heard[c]]
  BY <1>1, <1>2, FinishKeeps DEF ActivePcs, HookPcs
<1>4. /\ r.status = x.status /\ r.body = body /\ r.headers = headers
      /\ r.messages = x.messages
  BY DEF IntoResult
<1> HIDE DEF r
<1>5. /\ last'.response = r /\ last'.call = c /\ last'.outcome = "ok" /\ last'.heard = heard[c]
  BY <1>3
<1>6. /\ x.headers = ParsedHeaders(said[c].hdrs) /\ x.status = ClampStatus(said[c].code)
      /\ x.messages = Written(c, said[c].logs)
      /\ x.out = IF mode[c] = "stream" THEN <<>> ELSE Written(c, said[c].chunks)
      /\ mode[c] = "stream" /\ heard[c].whole => heard[c].got = Written(c, said[c].chunks)
  BY <1>1, HoldsAll DEF ContextHoldsWhatWasSaid, Pieces, Logs, Written
<1>7. mode[c] # "stream" => heard[c] = Deaf
  BY <1>1 DEF Inv, TypeOK, Content, AllSaid, TakenInOrder
<1>8. mode[c] # "stream" =>
        Contract!IsSubsequence(headers, Contract!ParsedHeaders(said[c].hdrs))
  BY <1>2, <1>6, SameHeaders, FilteredIsSubsequence
<1> HIDE DEF x
<1>9. Contract!Answer(c)
  <2>1. /\ r.status = Contract!ClampStatus(said[c].code)
        /\ r.messages = Contract!Written(c, said[c].logs)
    BY <1>4, <1>6, SameWords
  <2>2. CASE mode[c] = "stream"
    <3>1. /\ r.body = <<>> /\ r.headers = Contract!ParsedHeaders(said[c].hdrs)
          /\ heard[c].whole => heard[c].got = Contract!Written(c, said[c].chunks)
      BY <1>2, <1>4, <1>6, <2>2, SameWords, SameHeaders
    <3> QED
      BY <1>3, <1>5, <2>1, <2>2, <3>1 DEF Contract!Answer
  <2>3. CASE mode[c] # "stream"
    <3>1. /\ r.body \in {Contract!Written(c, said[c].chunks), <<>>}
          /\ Contract!IsSubsequence(r.headers, Contract!ParsedHeaders(said[c].hdrs))
          /\ heard[c] = Contract!Unheard
      BY <1>2, <1>4, <1>6, <1>7, <1>8, <2>3, SameWords
    <3> QED
      BY <1>3, <1>5, <2>1, <2>3, <3>1 DEF Contract!Answer
  <2> QED
    BY <2>2, <2>3
<1> QED
  BY <1>9 DEF Contract!Next

LEMMA NextKeeps ==
    ASSUME ~Reentrant, Inv, Alone, Content, Content', [Next]_vars
    PROVE  Contract!Next \/ UNCHANGED Contract!vars
<1>1. CASE UNCHANGED vars
  BY <1>1 DEF vars, Contract!vars
<1>2. ASSUME NEW c \in Calls, Starts(c) PROVE Contract!Next
  BY <1>2, StartsKeeps
<1>3. ASSUME NEW c \in Calls,
             \/ Publish(c) \/ EnterStartup(c) \/ RunScript(c) \/ BeginShutdown(c) \/ Reclaim(c)
             \/ StartupOk(c) \/ ScriptEnd(c) \/ DropFailed(c) \/ Deactivate(c)
      PROVE  UNCHANGED Contract!vars
  <2>1. /\ \E from, to \in ActivePcs : Goto(c, from, to)
        /\ UNCHANGED <<mode, said, heard, last>>
    BY <1>3 DEF Publish, EnterStartup, RunScript, BeginShutdown, Reclaim, StartupOk, ScriptEnd,
       DropFailed, Deactivate, ActivePcs, EnginePcs, HookPcs
  <2> QED
    BY <2>1, HiddenKeeps
<1>4. ASSUME NEW c \in Calls, Return(c) \/ ReturnStartupFailed(c) \/ HookPanics(c)
      PROVE  Contract!Next
  BY <1>4, AnswerKeeps, GiveUpKeeps
<1>5. ASSUME NEW c \in Calls, EngineSpeaks(c) \/ CallUbWrite(c, FALSE)
      PROVE  Contract!Next \/ UNCHANGED Contract!vars
  <2>1. CASE CallFlush(c) \/ \E panics \in BOOLEAN : CallUbWrite(c, panics)
    BY <2>1, OutputKeeps
  <2>2. CASE \/ Echo(c) \/ CallLogMessage(c)
             \/ \E wellFormed \in BOOLEAN : SetHeader(c, wellFormed)
             \/ \E code \in Codes : SetCode(c, code)
             \/ \E n \in ReadSizes : CallReadPost(c, n)
    BY <2>2, SpeechKeeps
  <2> QED
    BY <1>5, <2>1, <2>2 DEF EngineSpeaks
<1> QED
  BY <1>1, <1>2, <1>3, <1>4, <1>5 DEF Next, Executor, EngineCompletes

(* The calls of execute keep its contract: one at a time, each returns all *)
(* that was said for it and nothing else, or an error and no response.     *)
THEOREM KeepsContract == ASSUME Reentrant = FALSE PROVE Spec => ImplementsContract
<1>1. Init => Contract!Init
  BY ContractInit
<1>2. (Inv /\ Alone /\ Content) /\ (Inv /\ Alone /\ Content)' /\ [Next]_vars
         => [Contract!Next]_(Contract!vars)
  BY NextKeeps
<1>3. Spec => [](Inv /\ Alone /\ Content)
  BY ContentAlways
<1> QED
  BY <1>1, <1>2, <1>3, PTL DEF Spec, ImplementsContract, Contract!Spec
==============================================================================
