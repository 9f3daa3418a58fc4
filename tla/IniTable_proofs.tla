-------------------------- MODULE IniTable_proofs --------------------------
(***************************************************************************)
(* What IniTable guarantees for any entries, any values and any number of  *)
(* overrides: a leak ends with the next php_request_shutdown, and without  *)
(* a panicking hook there is none.                                         *)
(***************************************************************************)
EXTENDS IniTable, TLAPS

\* A function on 1 .. n is a sequence, and a sequence has its elements in S.
LEMMA FunctionIsSeq ==
  ASSUME NEW S, NEW n \in Nat, NEW f \in [1 .. n -> S]
  PROVE  f \in Seq(S)
  OBVIOUS

LEMMA ElementOfSeq ==
  ASSUME NEW S, NEW s \in Seq(S), NEW i \in 1 .. Len(s)
  PROVE  s[i] \in S
  OBVIOUS

\* The table is what the first n settings of the request make of base.
SetBy(n) == \A k \in Keys :
    /\ \A i \in 1 .. Len(wanted) : Decides(i, k, n) => table[k] = wanted[i].val
    /\ (\A i \in 1 .. Len(wanted) : ~Decides(i, k, n)) => table[k] = base[k]

\* Before the request is open there is nothing but base; from then on the
\* settings gone through so far, and on_request_started finds them all.
TableByPoint ==
    /\ pc \in {"idle", "starting"} /\ left = "nothing" => table = base
    /\ pc \in {"applying", "started"} /\ left = "nothing" => SetBy(applied)
    /\ pc = "started" => applied = Len(wanted)
    /\ pc = "starting" => applied = 0

Inv == TypeOK /\ DefaultsComeBack /\ TableByPoint

\* Before the first call every entry has its default.
LEMMA InitInv == Init => Inv
  BY IniAssumption DEF Init, Inv, TypeOK, DefaultsComeBack, TableByPoint, Settings

\* One call of zend_alter_ini_entry_chars keeps types and what can be put back.
LEMMA AlterSafe ==
  ASSUME TypeOK, DefaultsComeBack, NEW k \in Keys, NEW v \in Values, Alter(k, v)
  PROVE  /\ table' \in [Keys -> Values] /\ saved' \in [Keys -> Values \cup {None}]
         /\ DefaultsComeBack'
         /\ \A j \in Keys \ {k} : table'[j] = table[j]
         /\ table'[k] = IF Setting(k, v) \in Accepted THEN v ELSE table[k]
  BY IniAssumption DEF TypeOK, DefaultsComeBack, Alter, Setting, Settings

\* The end of a request leaves the defaults.
LEMMA RestoreSafe ==
  ASSUME TypeOK, DefaultsComeBack, Restore
  PROVE  /\ table' = Default /\ saved' \in [Keys -> Values \cup {None}]
         /\ DefaultsComeBack'
  BY IniAssumption DEF TypeOK, DefaultsComeBack, Restore

\* Each step preserves the invariant.
LEMMA NextInv == Inv /\ [Next]_vars => Inv'
<1> SUFFICES ASSUME Inv, [Next]_vars
             PROVE  Inv'
    OBVIOUS
<1> USE IniAssumption DEF Inv, TypeOK, Goto, Setting
<1>1. ASSUME NEW k \in Keys, NEW v \in Values, SetIni(k, v)
      PROVE  Inv'
  <2>1. Alter(k, v) /\ base' = [base EXCEPT ![k] = v]
        BY <1>1 DEF SetIni
  <2>2. TypeOK' /\ DefaultsComeBack'
        BY <1>1, <2>1, AlterSafe DEF SetIni
  <2>3. left = "nothing" => table' = base'
        BY <1>1, <2>1 DEF SetIni, Alter, TableByPoint
  <2> QED
      BY <1>1, <2>2, <2>3 DEF SetIni, TableByPoint
<1>2. ASSUME NEW k \in Keys, NEW v \in Values, HookSetsIni(k, v)
      PROVE  Inv'
  <2>0. PICK n \in Nat : n = Len(wanted)
        OBVIOUS
  <2>1. /\ Alter(k, v) /\ wanted' = Append(wanted, Setting(k, v))
        /\ applied = n /\ applied' = n + 1 /\ Setting(k, v) \in Accepted
        /\ UNCHANGED <<pc, base, left>> /\ pc = "started"
        BY <1>2, <2>0 DEF HookSetsIni, TableByPoint
  <2>2. TypeOK' /\ DefaultsComeBack'
    <3>1. Setting(k, v) \in Settings
          BY DEF Settings
    <3> QED
        BY <2>0, <2>1, <3>1, AlterSafe
  <2>3. /\ Len(wanted') = n + 1 /\ wanted'[n + 1] = Setting(k, v)
        /\ \A i \in 1 .. n : wanted'[i] = wanted[i]
        BY <2>0, <2>1
  <2>4. ASSUME left = "nothing", NEW j \in Keys
        PROVE  /\ \A i \in 1 .. n + 1 : Decides(i, j, n + 1)' => table'[j] = wanted'[i].val
               /\ (\A i \in 1 .. n + 1 : ~Decides(i, j, n + 1)') => table'[j] = base[j]
    <3>1. CASE j = k
      <4>1. Decides(n + 1, k, n + 1)'
            BY <2>1, <2>3 DEF Decides
      <4>2. \A i \in 1 .. n + 1 : Decides(i, k, n + 1)' => i = n + 1
            BY <2>1, <2>3 DEF Decides
      <4>3. table'[k] = v
            BY <2>1, AlterSafe
      <4> QED
          BY <2>1, <2>3, <3>1, <4>1, <4>2, <4>3
    <3>2. CASE j # k
      <4>1. \A i \in 1 .. n : Decides(i, j, n + 1)' <=> Decides(i, j, n)
            BY <2>1, <2>3, <3>2 DEF Decides
      <4>2. ~Decides(n + 1, j, n + 1)'
            BY <2>1, <2>3, <3>2 DEF Decides
      <4>3. table'[j] = table[j]
            BY <2>1, <3>2, AlterSafe
      <4> QED
          BY <2>0, <2>1, <2>3, <2>4, <4>1, <4>2, <4>3 DEF TableByPoint, SetBy
    <3> QED
        BY <3>1, <3>2
  <2>5. left' = "nothing" => SetBy(applied)'
        BY <2>1, <2>3, <2>4 DEF SetBy
  <2> QED
      BY <2>1, <2>2, <2>3, <2>5 DEF TableByPoint
<1>3. ASSUME NEW k \in Keys, NEW v \in Values, ScriptSetsIni(k, v)
      PROVE  Inv'
  <2>1. Alter(k, v) /\ pc = "script" /\ UNCHANGED <<pc, wanted, applied, base, left>>
        BY <1>3 DEF ScriptSetsIni
  <2>2. TypeOK' /\ DefaultsComeBack'
        BY <2>1, AlterSafe
  <2> QED
      BY <2>1, <2>2 DEF TableByPoint
<1>4. ASSUME NEW overrides \in Overrides, Begin(overrides)
      PROVE  Inv'
  <2>1. PICK n \in 0 .. MaxWanted : overrides \in [1 .. n -> Settings]
        BY <1>4 DEF Overrides
  <2>2. overrides \in Seq(Settings)
        BY <2>1, FunctionIsSeq
  <2> QED
      BY <1>4, <2>2 DEF Begin, TableByPoint, DefaultsComeBack
<1>5. CASE Startup
  <2>1. left = "nothing" => SetBy(0)
        BY <1>5 DEF Startup, TableByPoint, SetBy, Decides
  <2> QED
      BY <1>5, <2>1 DEF Startup, TableByPoint, DefaultsComeBack, SetBy, Decides
<1>6. CASE StartupFails
  <2>1. Restore /\ wanted' = <<>> /\ applied' = 0 /\ base' = Default /\ left' = "nothing"
        /\ pc' = "idle"
        BY <1>6 DEF StartupFails
  <2>2. table' = Default /\ saved' \in [Keys -> Values \cup {None}] /\ DefaultsComeBack'
        BY <2>1, RestoreSafe
  <2> QED
      BY <2>1, <2>2 DEF TableByPoint
<1>7. CASE ApplyNext
  <2> DEFINE n == applied
             k == wanted[n + 1].key
             v == wanted[n + 1].val
  <2>1. /\ pc = "applying" /\ n < Len(wanted) /\ n \in Nat
        /\ Alter(k, v) /\ applied' = n + 1
        /\ UNCHANGED <<pc, wanted, base, left>>
        BY <1>7 DEF ApplyNext
  <2>2. k \in Keys /\ v \in Values /\ wanted[n + 1] = Setting(k, v)
    <3>1. wanted[n + 1] \in Settings
          BY <2>1, ElementOfSeq
    <3> QED
        BY <3>1 DEF Settings
  <2>3. TypeOK' /\ DefaultsComeBack'
        BY <2>1, <2>2, AlterSafe
  <2>4. ASSUME left = "nothing", NEW j \in Keys
        PROVE  /\ \A i \in 1 .. Len(wanted) : Decides(i, j, n + 1) => table'[j] = wanted[i].val
               /\ (\A i \in 1 .. Len(wanted) : ~Decides(i, j, n + 1)) => table'[j] = base[j]
    <3>1. CASE j = k /\ Setting(k, v) \in Accepted
      <4>1. Decides(n + 1, k, n + 1)
            BY <2>1, <2>2, <3>1 DEF Decides
      <4>2. \A i \in 1 .. Len(wanted) : Decides(i, k, n + 1) => i = n + 1
            BY <2>1, <2>2, <3>1 DEF Decides
      <4>3. table'[k] = v
            BY <2>1, <2>2, <3>1, AlterSafe
      <4> QED
          BY <2>1, <2>2, <3>1, <4>1, <4>2, <4>3
    <3>2. CASE ~(j = k /\ Setting(k, v) \in Accepted)
      <4>1. \A i \in 1 .. Len(wanted) : Decides(i, j, n + 1) <=> Decides(i, j, n)
            BY <2>1, <2>2, <3>2 DEF Decides
      <4>2. table'[j] = table[j]
            BY <2>1, <2>2, <3>2, AlterSafe
      <4> QED
          BY <2>1, <2>4, <4>1, <4>2 DEF TableByPoint, SetBy
    <3> QED
        BY <3>1, <3>2
  <2>5. left' = "nothing" => SetBy(applied)'
        BY <2>1, <2>4 DEF SetBy, Decides
  <2> QED
      BY <2>1, <2>3, <2>5 DEF TableByPoint
<1>8. CASE Applied
  <2>1. left' = "nothing" => SetBy(applied)'
        BY <1>8 DEF Applied, TableByPoint, SetBy, Decides
  <2> QED
      BY <1>8, <2>1 DEF Applied, TableByPoint, DefaultsComeBack
<1>9. CASE RunScript
      BY <1>9 DEF RunScript, TableByPoint, DefaultsComeBack
<1>10. CASE Shutdown
  <2>1. Restore /\ wanted' = <<>> /\ applied' = 0 /\ base' = Default /\ left' = "nothing"
        /\ pc' = "idle"
        BY <1>10 DEF Shutdown
  <2>2. table' = Default /\ saved' \in [Keys -> Values \cup {None}] /\ DefaultsComeBack'
        BY <2>1, RestoreSafe
  <2> QED
      BY <2>1, <2>2 DEF TableByPoint
<1>11. CASE HookPanics
       BY <1>11 DEF HookPanics, TableByPoint, DefaultsComeBack
<1>12. CASE UNCHANGED vars
  <2>1. SetBy(applied) => SetBy(applied)'
        BY <1>12 DEF vars, SetBy, Decides
  <2> QED
      BY <1>12, <2>1 DEF vars, TableByPoint, DefaultsComeBack
<1> QED
    BY <1>1, <1>2, <1>3, <1>4, <1>5, <1>6, <1>7, <1>8, <1>9, <1>10, <1>11, <1>12 DEF Next

LEMMA InvAlways == Spec => []Inv
  BY InitInv, NextInv, PTL DEF Spec

(* A script starts with its own settings, then those of set_ini, then the  *)
(* defaults, unless a panicking hook left a request open.                  *)
THEOREM OwnSettings == Spec => []ScriptSeesItsSettings
<1>1. Inv => ScriptSeesItsSettings
      BY DEF Inv, TypeOK, TableByPoint, SetBy, ScriptSeesItsSettings, GetIni
<1> QED
    BY <1>1, InvAlways, PTL

(* Whatever was set and left behind, the next php_request_shutdown gives   *)
(* every entry its default back.                                           *)
THEOREM LeaksEnd == Spec => []DefaultsComeBack
<1>1. Inv => DefaultsComeBack
      BY DEF Inv
<1> QED
    BY <1>1, InvAlways, PTL
=============================================================================
