------------------------------ MODULE IniTable ------------------------------
(***************************************************************************)
(* PHP's INI table across requests: RiphtSapi::set_ini and get_ini         *)
(* (src/sapi/mod.rs), which may be called at any time, and the overrides   *)
(* apply_ini_overrides (src/sapi/executor.rs) sets for one request.  Both  *)
(* call zend_alter_ini_entry_chars.  The engine keeps the value an entry   *)
(* had before it was first altered and puts it back at the end of          *)
(* php_request_shutdown; that part is external.                            *)
(***************************************************************************)
EXTENDS Naturals, Sequences

CONSTANTS
    Keys, Values,    \* the entries and what they may be set to
    Default,         \* their values after php_module_startup
    Accepted,        \* the pairs PHP accepts; others it leaves alone
    None,            \* no value
    MaxWanted        \* bound on the settings of one request

Setting(k, v) == [key |-> k, val |-> v]
Settings      == [key : Keys, val : Values]

ASSUME IniAssumption == /\ Default \in [Keys -> Values] /\ None \notin Values
                        /\ Accepted \subseteq Settings /\ MaxWanted \in Nat

VARIABLES
    pc,       \* where the call of execute is, "idle" between calls
    table,    \* what each entry is now
    saved,    \* what it was before it was altered, None if it was not
    wanted,   \* the settings of the current request, in order
    applied,  \* how many of them apply_ini_overrides has gone through
    base,     \* history: what set_ini asked for outside a request
    left      \* history: whether a panic left a request open

vars == <<pc, table, saved, wanted, applied, base, left>>

Init ==
    /\ pc      = "idle"
    /\ table   = Default
    /\ saved   = [k \in Keys |-> None]
    /\ wanted  = <<>>
    /\ applied = 0
    /\ base    = Default
    /\ left    = "nothing"
-----------------------------------------------------------------------------
(* The engine's table. *)

\* zend_alter_ini_entry_chars.
Alter(k, v) ==
    IF Setting(k, v) \in Accepted
    THEN /\ table' = [table EXCEPT ![k] = v]
         /\ saved' = [saved EXCEPT ![k] = IF @ = None THEN table[k] ELSE @]
    ELSE UNCHANGED <<table, saved>>

\* What the end of php_request_shutdown does.
Restore ==
    /\ table' = [k \in Keys |-> IF saved[k] = None THEN table[k] ELSE saved[k]]
    /\ saved' = [k \in Keys |-> None]

\* zend_ini_string: get_ini gives None for an entry there is not.
GetIni(k) == IF k \in Keys THEN table[k] ELSE None
-----------------------------------------------------------------------------
Goto(from, to) == pc = from /\ pc' = to

\* set_ini between two calls, or from on_request_starting.  A NUL in key or
\* value, an unknown key or a value PHP refuses is an error, and nothing
\* changes.
SetIni(k, v) ==
    /\ pc \in {"idle", "starting"}
    /\ Setting(k, v) \in Accepted
    /\ Alter(k, v)
    /\ base' = [base EXCEPT ![k] = v]
    /\ UNCHANGED <<pc, wanted, applied, left>>

\* set_ini from on_request_started: one more setting of this request.
HookSetsIni(k, v) ==
    /\ pc = "started" /\ Len(wanted) < MaxWanted
    /\ Setting(k, v) \in Accepted
    /\ Alter(k, v)
    /\ wanted'  = Append(wanted, Setting(k, v))
    /\ applied' = applied + 1
    /\ UNCHANGED <<pc, base, left>>

Begin(overrides) ==
    /\ Goto("idle", "starting")
    /\ wanted' = overrides /\ applied' = 0
    /\ UNCHANGED <<table, saved, base, left>>

Startup ==
    /\ Goto("starting", "applying")
    /\ UNCHANGED <<table, saved, wanted, applied, base, left>>

\* php_request_startup fails; php_request_shutdown is called all the same.
StartupFails ==
    /\ Goto("starting", "idle")
    /\ Restore
    /\ wanted' = <<>> /\ applied' = 0
    /\ base' = Default /\ left' = "nothing"

\* Mutant: the first setting PHP refuses ends the loop.
ApplyNextOrStop ==
    /\ pc = "applying" /\ applied < Len(wanted)
    /\ Alter(wanted[applied + 1].key, wanted[applied + 1].val)
    /\ applied' = IF wanted[applied + 1] \in Accepted THEN applied + 1 ELSE Len(wanted)
    /\ UNCHANGED <<pc, wanted, base, left>>

\* apply_ini_overrides: the next one; what PHP answers is not looked at.
ApplyNext ==
    /\ pc = "applying" /\ applied < Len(wanted)
    /\ Alter(wanted[applied + 1].key, wanted[applied + 1].val)
    /\ applied' = applied + 1
    /\ UNCHANGED <<pc, wanted, base, left>>

Applied ==
    /\ Goto("applying", "started")
    /\ applied = Len(wanted)
    /\ UNCHANGED <<table, saved, wanted, applied, base, left>>

RunScript ==
    /\ Goto("started", "script")
    /\ UNCHANGED <<table, saved, wanted, applied, base, left>>

\* ini_set() in the script.
ScriptSetsIni(k, v) ==
    /\ pc = "script"
    /\ Alter(k, v)
    /\ UNCHANGED <<pc, wanted, applied, base, left>>

\* The script has ended, and php_request_shutdown.
Shutdown ==
    /\ Goto("script", "idle")
    /\ Restore
    /\ wanted' = <<>> /\ applied' = 0
    /\ base' = Default /\ left' = "nothing"

\* A hook panics: before the request is open, or with no php_request_shutdown
\* to follow.
HookPanics ==
    /\ \/ Goto("starting", "idle") /\ left' = left
       \/ Goto("started", "idle")  /\ left' = "request"
       \/ Goto("script", "idle")   /\ left' = "request"
    /\ wanted' = <<>> /\ applied' = 0
    /\ UNCHANGED <<table, saved, base>>

Overrides == UNION {[1 .. n -> Settings] : n \in 0 .. MaxWanted}

Next ==
    \/ \E k \in Keys, v \in Values :
          SetIni(k, v) \/ HookSetsIni(k, v) \/ ScriptSetsIni(k, v)
    \/ \E overrides \in Overrides : Begin(overrides)
    \/ Startup \/ StartupFails \/ ApplyNext \/ Applied
    \/ RunScript \/ Shutdown \/ HookPanics

Spec == Init /\ [][Next]_vars
-----------------------------------------------------------------------------
(* Properties. *)

TypeOK ==
    /\ pc \in {"idle", "starting", "applying", "started", "script"}
    /\ table \in [Keys -> Values]
    /\ saved \in [Keys -> Values \cup {None}]
    /\ wanted \in Seq(Settings)
    /\ applied \in 0 .. Len(wanted)
    /\ base \in [Keys -> Values]
    /\ left \in {"nothing", "request"}

\* i is the last of the first n settings of this request that PHP accepts for k.
Decides(i, k, n) ==
    /\ i \in 1 .. n /\ wanted[i] \in Accepted /\ wanted[i].key = k
    /\ \A j \in i + 1 .. n : wanted[j] \in Accepted => wanted[j].key # k

\* A script starts with the last setting this request asked for and PHP
\* accepts; without one, with what set_ini asked for since the last request;
\* otherwise with the default.  What earlier requests asked for, in overrides,
\* hooks or with ini_set(), is gone, unless a panic left one of them open.
ScriptSeesItsSettings == pc = "started" /\ left = "nothing" => \A k \in Keys :
    /\ \A i \in 1 .. Len(wanted) : Decides(i, k, Len(wanted)) => GetIni(k) = wanted[i].val
    /\ (\A i \in 1 .. Len(wanted) : ~Decides(i, k, Len(wanted))) => GetIni(k) = base[k]

\* What the end of a request puts back is the default of every entry, whatever
\* was set, by whom, and however many requests were left open before.
DefaultsComeBack == \A k \in Keys :
    (IF saved[k] = None THEN table[k] ELSE saved[k]) = Default[k]
=============================================================================
