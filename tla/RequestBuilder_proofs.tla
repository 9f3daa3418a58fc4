------------------------ MODULE RequestBuilder_proofs ------------------------
(***************************************************************************)
(* What PHP is told about a request, for any values, body sizes and number *)
(* of calls on the builder and on the context.                             *)
(*                                                                         *)
(* The first part is about the recursive definitions and the lists of the  *)
(* model: induction over numbers, as in HookDelivery_proofs, the existence *)
(* of a function defined by recursion, and the last of the pairs of a name *)
(* in a list that is put together of others.                               *)
(***************************************************************************)
EXTENDS RequestBuilder, WellFoundedInduction, TLAPS

\* A set of naturals that is not empty has a least element.
LEMMA LeastOfNaturals ==
    ASSUME NEW T \in SUBSET Nat, T # {}
    PROVE  \E x \in T : \A y \in T : x <= y
<1> DEFINE Less == OpToRel(<, Nat)
<1>1. PICK x \in T : \A y \in T : ~ (<<y, x>> \in Less)
  <2>1. IsWellFoundedOn(Less, Nat)
    BY NatLessThanWellFounded
  <2> HIDE DEF Less
  <2> QED
    BY <2>1, WFMin
<1>2. ASSUME NEW y \in T PROVE x <= y
  <2>1. <<y, x>> \in Less <=> y < x
    BY DEF OpToRel
  <2>2. ~ (y < x)
    BY <1>1, <2>1
  <2> QED
    BY <2>2
<1> QED
  BY <1>2

\* Induction up to m: a set that has 0 and with n < m has n + 1.
LEMMA UpTo ==
    ASSUME NEW m \in Nat, NEW T, 0 \in T, \A n \in 0 .. (m - 1) : n \in T => n + 1 \in T
    PROVE  0 .. m \subseteq T
<1> SUFFICES ASSUME 0 .. m \ T # {} PROVE FALSE
  OBVIOUS
<1> DEFINE missing == 0 .. m \ T
<1>1. PICK x \in missing : \A y \in missing : x <= y
  BY LeastOfNaturals, missing \in SUBSET Nat, missing # {}
<1>2. x \in 0 .. m /\ x # 0 /\ x \notin T
  OBVIOUS
<1>3. x - 1 \in 0 .. (m - 1) /\ x - 1 + 1 = x
  BY <1>2
<1>4. x - 1 \notin missing
  BY <1>1, <1>3
<1>5. x - 1 \in T
  BY <1>3, <1>4
<1>6. x - 1 + 1 \in T
  BY <1>3, <1>5
<1> QED
  BY <1>2, <1>3, <1>6

\* A bounded set of naturals that is not empty has a greatest element, Max.
LEMMA GreatestOfNaturals ==
    ASSUME NEW m \in Nat, NEW T \in SUBSET (0 .. m), T # {}
    PROVE  Max(T) \in T /\ \A y \in T : y <= Max(T)
<1> DEFINE bounds == {n \in Nat : \A y \in T : y <= n}
<1>1. bounds \in SUBSET Nat /\ m \in bounds
  OBVIOUS
<1>2. PICK x \in bounds : \A y \in bounds : x <= y
  BY <1>1, LeastOfNaturals
<1>3. x \in T
  <2> SUFFICES ASSUME x \notin T PROVE FALSE
    OBVIOUS
  <2>1. \A y \in T : y \in Nat /\ y <= x /\ y # x
    BY <1>2
  <2>2. PICK y \in T : TRUE
    OBVIOUS
  <2>3. x \in Nat /\ x # 0
    BY <1>2, <2>1, <2>2
  <2>4. x - 1 \in bounds
    BY <2>1, <2>3
  <2> QED
    BY <1>2, <2>3, <2>4
<1>4. \A y \in T : x >= y
  BY <1>2
<1> HIDE DEF bounds
<1>5. Max(T) \in T /\ \A y \in T : Max(T) >= y
  BY <1>3, <1>4 DEF Max
<1> QED
  BY <1>5

LEMMA MaxIs ==
    ASSUME NEW T \in SUBSET Nat, NEW x \in T, \A y \in T : y <= x
    PROVE  Max(T) = x
<1>1. \A y \in T : x >= y
  OBVIOUS
<1>2. Max(T) \in T /\ \A y \in T : Max(T) >= y
  BY <1>1 DEF Max
<1>3. Max(T) \in Nat /\ x \in Nat /\ Max(T) <= x /\ Max(T) >= x
  BY <1>2
<1> QED
  BY <1>3

\* A function from 0 .. m to V that starts with base and goes on by step.
Steps(m, V) == [(0 .. (m - 1)) \X V -> V]

Goes(m, V, base, step, f) ==
    /\ f \in [0 .. m -> V] /\ f[0] = base
    /\ \A n \in 0 .. (m - 1) : f[n + 1] = step[<<n, f[n]>>]

\* What is defined step by step over 0 .. m, by a step that stays in V.
LEMMA Recursion ==
    ASSUME NEW m \in Nat, NEW V, NEW base \in V, NEW step \in Steps(m, V)
    PROVE  \E f : Goes(m, V, base, step, f)
<1> USE DEF Steps, Goes
<1> DEFINE Good(f, k) == /\ f \in [0 .. k -> V] /\ f[0] = base
                         /\ \A n \in 0 .. (k - 1) : f[n + 1] = step[<<n, f[n]>>]
           T == {k \in 0 .. m : \E f : Good(f, k)}
<1>1. 0 \in T
  <2> DEFINE f == [n \in 0 .. 0 |-> base]
  <2>1. Good(f, 0)
    OBVIOUS
  <2> HIDE DEF f, Good
  <2> QED
    BY <2>1, 0 \in 0 .. m
<1>2. ASSUME NEW k \in 0 .. (m - 1), k \in T PROVE k + 1 \in T
  <2>1. PICK f : Good(f, k)
    BY <1>2
  <2> DEFINE next == step[<<k, f[k]>>]
             h == [n \in 0 .. (k + 1) |-> IF n = k + 1 THEN next ELSE f[n]]
  <2>2. k \in 0 .. k /\ f[k] \in V
    BY <2>1
  <2>3. next \in V
    BY <2>2
  <2> HIDE DEF next
  <2>4. \A n \in 0 .. k : h[n] = f[n] /\ f[n] \in V
    BY <2>1
  <2>5. h[k + 1] = next
    OBVIOUS
  <2>6. h \in [0 .. (k + 1) -> V] /\ h[0] = base
    BY <2>1, <2>3, <2>4
  <2>7. ASSUME NEW n \in 0 .. k PROVE h[n + 1] = step[<<n, h[n]>>]
    <3>1. CASE n = k
      BY <2>4, <2>5, <3>1 DEF next
    <3>2. CASE n # k
      <4>1. n \in 0 .. (k - 1) /\ n \in 0 .. k /\ n + 1 \in 0 .. k
        BY <3>2
      <4>2. f[n + 1] = step[<<n, f[n]>>]
        BY <2>1, <4>1
      <4> HIDE DEF h
      <4> QED
        BY <2>4, <4>1, <4>2
    <3> QED
      BY <3>1, <3>2
  <2> HIDE DEF h
  <2>8. Good(h, k + 1)
    <3>1. k + 1 - 1 = k
      OBVIOUS
    <3> QED
      BY <2>6, <2>7, <3>1
  <2> HIDE DEF Good
  <2>9. k + 1 \in 0 .. m
    OBVIOUS
  <2> QED
    BY <2>8, <2>9
<1>3. m \in T
  <2> HIDE DEF T
  <2>1. 0 .. m \subseteq T
    BY <1>1, <1>2, UpTo
  <2> QED
    BY <2>1
<1> QED
  BY <1>3

-----------------------------------------------------------------------------
(* Lists of pairs. *)

Held == Strings \cup {Nul}

\* The names of the variables, INI entries and environment of the model.
Keys ==
    {"GATEWAY_INTERFACE", "REQUEST_TIME", "REQUEST_TIME_FLOAT", "REQUEST_METHOD",
     "REQUEST_URI", "QUERY_STRING", "SCRIPT_FILENAME", "SCRIPT_NAME", "PHP_SELF",
     "DOCUMENT_ROOT", "SERVER_NAME", "SERVER_PORT", "SERVER_ADDR", "REMOTE_ADDR",
     "REMOTE_PORT", "SERVER_PROTOCOL", "REQUEST_SCHEME", "PATH_TRANSLATED", "argc",
     "argv", "HTTP_COOKIE", "HTTP_QUERY_STRING", "CONTENT_TYPE", "CONTENT_LENGTH",
     "log_errors", "html_errors", "request_order", "display_errors", "implicit_flush",
     "variables_order", "output_buffering", "max_input_time", "max_execution_time",
     "memory_limit", "APP_ENV"}

PairT == [key : Keys, val : Held]

\* Where a list has a pair of this name with one of these values, and the value
\* of the last.
Fit(list, k, vals) == {i \in DOMAIN list : list[i].key = k /\ list[i].val \in vals}

Latest(list, k, vals) ==
    IF Fit(list, k, vals) = {} THEN None ELSE list[Max(Fit(list, k, vals))].val

LEMMA Places ==
    ASSUME NEW list \in Seq(PairT), NEW k, NEW vals
    PROVE  /\ Fit(list, k, vals) \in SUBSET (1 .. Len(list))
           /\ Fit(list, k, vals) \in SUBSET Nat
           /\ Fit(list, k, vals)
              = {i \in 1 .. Len(list) : list[i].key = k /\ list[i].val \in vals}
BY DEF Fit

\* The last one, if there is one.
LEMMA LatestIs ==
    ASSUME NEW list \in Seq(PairT), NEW k, NEW vals, NEW i \in Fit(list, k, vals),
           \A j \in Fit(list, k, vals) : j <= i
    PROVE  Latest(list, k, vals) = list[i].val
<1>1. Max(Fit(list, k, vals)) = i
  BY Places, MaxIs
<1> QED
  BY <1>1 DEF Latest

LEMMA LatestAt ==
    ASSUME NEW list \in Seq(PairT), NEW k, NEW vals, Fit(list, k, vals) # {}
    PROVE  \E i \in Fit(list, k, vals) :
              (\A j \in Fit(list, k, vals) : j <= i) /\ Latest(list, k, vals) = list[i].val
<1> DEFINE T == Fit(list, k, vals)
           m == Len(list)
<1>1. T \in SUBSET (0 .. m) /\ m \in Nat /\ T # {}
  BY Places
<1> HIDE DEF T, m
<1>2. Max(T) \in T /\ \A y \in T : y <= Max(T)
  BY <1>1, GreatestOfNaturals
<1> QED
  BY <1>2 DEF Latest, T

LEMMA LatestConcat ==
    ASSUME NEW s \in Seq(PairT), NEW t \in Seq(PairT), NEW k, NEW vals
    PROVE  Latest(s \o t, k, vals)
           = IF Fit(t, k, vals) = {} THEN Latest(s, k, vals) ELSE Latest(t, k, vals)
<1> DEFINE list == s \o t
           n == Len(s)
<1>1. /\ list \in Seq(PairT) /\ n \in Nat /\ Len(list) = n + Len(t)
      /\ \A i \in 1 .. n : list[i] = s[i]
      /\ \A i \in 1 .. Len(t) : list[n + i] = t[i]
  OBVIOUS
<1>2. /\ Fit(s, k, vals) = {i \in 1 .. n : s[i].key = k /\ s[i].val \in vals}
      /\ Fit(t, k, vals) = {i \in 1 .. Len(t) : t[i].key = k /\ t[i].val \in vals}
      /\ Fit(list, k, vals) = {i \in 1 .. Len(list) : list[i].key = k /\ list[i].val \in vals}
  <2>1. Fit(s, k, vals) = {i \in 1 .. n : s[i].key = k /\ s[i].val \in vals}
    BY Places
  <2>2. Fit(t, k, vals) = {i \in 1 .. Len(t) : t[i].key = k /\ t[i].val \in vals}
    BY Places
  <2> HIDE DEF list
  <2>3. Fit(list, k, vals) = {i \in 1 .. Len(list) : list[i].key = k /\ list[i].val \in vals}
    BY <1>1, Places
  <2> QED
    BY <2>1, <2>2, <2>3
<1>3. Len(t) \in Nat
  OBVIOUS
<1> HIDE DEF list, n
<1>4. CASE Fit(t, k, vals) # {}
  <2>1. PICK i \in Fit(t, k, vals) :
            (\A j \in Fit(t, k, vals) : j <= i) /\ Latest(t, k, vals) = t[i].val
    BY <1>4, LatestAt
  <2>2. i \in 1 .. Len(t) /\ n + i \in 1 .. Len(list) /\ list[n + i] = t[i]
    BY <1>1, <1>2, <1>3, <2>1
  <2>3. n + i \in Fit(list, k, vals)
    BY <1>2, <2>1, <2>2
  <2>4. ASSUME NEW j \in Fit(list, k, vals) PROVE j <= n + i
    <3>1. CASE j <= n
      BY <1>1, <1>2, <2>2, <3>1
    <3>2. CASE j > n
      <4>1. j \in 1 .. Len(list) /\ j - n \in 1 .. Len(t) /\ n + (j - n) = j
        BY <1>1, <1>2, <1>3, <3>2
      <4>2. list[j] = t[j - n]
        BY <1>1, <4>1
      <4>3. j - n \in Fit(t, k, vals)
        BY <1>2, <4>1, <4>2
      <4> QED
        BY <1>1, <2>1, <2>2, <4>1, <4>3
    <3> QED
      BY <1>1, <1>2, <3>1, <3>2
  <2>5. Latest(list, k, vals) = list[n + i].val
    BY <1>1, <2>3, <2>4, LatestIs
  <2> QED
    BY <1>4, <2>1, <2>2, <2>5 DEF list
<1>5. CASE Fit(t, k, vals) = {}
  <2>1. \A j \in Fit(list, k, vals) : j \in 1 .. n
    <3> SUFFICES ASSUME NEW j \in Fit(list, k, vals), j > n PROVE FALSE
      BY <1>1, <1>2
    <3>1. j \in 1 .. Len(list) /\ j - n \in 1 .. Len(t) /\ n + (j - n) = j
      BY <1>1, <1>2, <1>3
    <3>2. list[j] = t[j - n]
      BY <1>1, <3>1
    <3> QED
      BY <1>2, <1>5, <3>1, <3>2
  <2>2. 1 .. n \subseteq 1 .. Len(list)
    BY <1>1, <1>3
  <2>3. Fit(list, k, vals) = Fit(s, k, vals)
    BY <1>1, <1>2, <2>1, <2>2
  <2>4. CASE Fit(s, k, vals) = {}
    BY <1>5, <2>3, <2>4 DEF Latest, list
  <2>5. CASE Fit(s, k, vals) # {}
    <3>1. PICK i \in Fit(s, k, vals) :
              (\A j \in Fit(s, k, vals) : j <= i) /\ Latest(s, k, vals) = s[i].val
      BY <2>5, LatestAt
    <3>2. Latest(list, k, vals) = list[i].val
      BY <1>1, <2>3, <3>1, LatestIs
    <3>3. list[i] = s[i]
      BY <1>1, <1>2, <3>1
    <3> QED
      BY <1>5, <3>1, <3>2, <3>3 DEF list
  <2> QED
    BY <2>4, <2>5
<1> QED
  BY <1>4, <1>5

LEMMA LatestOne ==
    ASSUME NEW p \in PairT, NEW k, NEW vals
    PROVE  /\ <<p>> \in Seq(PairT)
           /\ Fit(<<p>>, k, vals) = IF p.key = k /\ p.val \in vals THEN {1} ELSE {}
           /\ p.key = k /\ p.val \in vals => Latest(<<p>>, k, vals) = p.val
<1> DEFINE one == <<p>>
<1>1. one \in Seq(PairT) /\ Len(one) = 1 /\ one[1] = p
  OBVIOUS
<1> HIDE DEF one
<1>2. Fit(one, k, vals) = IF p.key = k /\ p.val \in vals THEN {1} ELSE {}
  BY <1>1, Places
<1>3. ASSUME p.key = k, p.val \in vals PROVE Latest(one, k, vals) = p.val
  <2>1. 1 \in Fit(one, k, vals) /\ \A j \in Fit(one, k, vals) : j <= 1
    BY <1>2, <1>3
  <2>2. Latest(one, k, vals) = one[1].val
    BY <1>1, <2>1, LatestIs
  <2> QED
    BY <1>1, <2>2
<1> QED
  BY <1>1, <1>2, <1>3 DEF one

LEMMA LatestAppend ==
    ASSUME NEW list \in Seq(PairT), NEW p \in PairT, NEW k, NEW vals
    PROVE  Latest(Append(list, p), k, vals)
           = IF p.key = k /\ p.val \in vals THEN p.val ELSE Latest(list, k, vals)
<1> DEFINE one == <<p>>
<1>1. Append(list, p) = list \o one
  OBVIOUS
<1>2. /\ one \in Seq(PairT)
      /\ ~ (p.key = k /\ p.val \in vals) => Fit(one, k, vals) = {}
      /\ p.key = k /\ p.val \in vals => Fit(one, k, vals) # {} /\ Latest(one, k, vals) = p.val
  BY LatestOne
<1> HIDE DEF one
<1>3. Latest(list \o one, k, vals)
      = IF Fit(one, k, vals) = {} THEN Latest(list, k, vals) ELSE Latest(one, k, vals)
  BY <1>2, LatestConcat
<1> QED
  BY <1>1, <1>2, <1>3
-----------------------------------------------------------------------------
(* ServerVars keeps track of the last value of each special variable. *)

Vars == [list : Seq(PairT), special : [SpecialKeys -> Held \cup {None}]]

Tracked(sv) == \A k \in SpecialKeys : sv.special[k] = Latest(sv.list, k, Held)

LEMMA SetTracks ==
    ASSUME NEW sv \in Vars, Tracked(sv), NEW p \in PairT
    PROVE  Set(sv, p) \in Vars /\ Tracked(Set(sv, p)) /\ Set(sv, p).list = Append(sv.list, p)
<1> DEFINE special == TrackSpecial(sv.special, p)
           list    == Append(sv.list, p)
<1>1. sv.list \in Seq(PairT) /\ sv.special \in [SpecialKeys -> Held \cup {None}]
      /\ p.val \in Held
  BY DEF Vars, PairT
<1>2. special \in [SpecialKeys -> Held \cup {None}]
      /\ \A k \in SpecialKeys : special[k] = IF p.key = k THEN p.val ELSE sv.special[k]
  BY <1>1 DEF TrackSpecial
<1>3. list \in Seq(PairT)
  BY <1>1
<1>4. \A k \in SpecialKeys : special[k] = Latest(list, k, Held)
  BY <1>1, <1>2, LatestAppend DEF Tracked
<1>5. Set(sv, p) = [list |-> list, special |-> special]
  BY DEF Set
<1> HIDE DEF list, special
<1>6. Set(sv, p) \in Vars /\ Set(sv, p).list = list /\ Set(sv, p).special = special
  BY <1>2, <1>3, <1>5 DEF Vars
<1> QED
  BY <1>4, <1>6 DEF Tracked, list

LEMMA NothingTracked == NoVars \in Vars /\ Tracked(NoVars) /\ NoVars.list = <<>>
<1>1. NoVars.list = <<>> /\ <<>> \in Seq(PairT)
      /\ NoVars.special \in [SpecialKeys -> Held \cup {None}]
      /\ \A k \in SpecialKeys : NoVars.special[k] = None
  BY DEF NoVars
<1>2. \A k : Fit(<<>>, k, Held) = {}
  BY DEF Fit
<1>3. NoVars = [list |-> NoVars.list, special |-> NoVars.special]
  BY DEF NoVars
<1> QED
  BY <1>1, <1>2, <1>3 DEF Vars, Tracked, Latest

LEMMA AllTracked ==
    ASSUME NEW pairs \in Seq(PairT)
    PROVE  LET sv == SetAll(NoVars, pairs)
           IN  sv \in Vars /\ Tracked(sv) /\ sv.list = pairs
<1> DEFINE m    == Len(pairs)
           V    == {sv \in Vars : Tracked(sv)}
           step == [x \in (0 .. (m - 1)) \X V |-> Set(x[2], pairs[x[1] + 1])]
           F    == CHOOSE f : f = [n \in 0 .. m |->
                                      IF n = 0 THEN NoVars ELSE Set(f[n - 1], pairs[n])]
<1>1. m \in Nat /\ \A n \in 0 .. (m - 1) : n + 1 \in 1 .. m /\ pairs[n + 1] \in PairT
  OBVIOUS
<1>2. SetAll(NoVars, pairs) = F[m]
  BY DEF SetAll
<1> HIDE DEF m
<1>3. step \in [(0 .. (m - 1)) \X V -> V]
  <2> SUFFICES ASSUME NEW n \in 0 .. (m - 1), NEW sv \in V
               PROVE  Set(sv, pairs[n + 1]) \in V
    OBVIOUS
  <2> QED
    BY <1>1, SetTracks
<1>4. NoVars \in V
  BY NothingTracked
<1>5. ASSUME NEW n \in 0 .. (m - 1), NEW sv \in V
      PROVE  step[<<n, sv>>] = Set(sv, pairs[n + 1])
  OBVIOUS
<1> HIDE DEF step
<1>6. \E f : Goes(m, V, NoVars, step, f)
  <2>1. m \in Nat /\ step \in Steps(m, V)
    BY <1>1, <1>3 DEF Steps
  <2> HIDE DEF V, F
  <2> QED
    BY <2>1, <1>4, Recursion
<1>7. PICK f : Goes(m, V, NoVars, step, f)
  BY <1>6
<1>8. f \in [0 .. m -> V] /\ f[0] = NoVars
       /\ \A n \in 0 .. (m - 1) : f[n + 1] = step[<<n, f[n]>>]
  <2> HIDE DEF V
  <2> QED
    BY <1>7 DEF Goes
<1>9. \A n \in 0 .. (m - 1) : f[n + 1] = Set(f[n], pairs[n + 1]) /\ f[n] \in V
  <2> SUFFICES ASSUME NEW n \in 0 .. (m - 1)
               PROVE  f[n + 1] = Set(f[n], pairs[n + 1]) /\ f[n] \in V
    OBVIOUS
  <2> HIDE DEF V
  <2>1. n \in 0 .. m
    BY <1>1
  <2>2. f[n] \in V
    BY <1>8, <2>1
  <2>3. f[n + 1] = step[<<n, f[n]>>]
    BY <1>8
  <2>4. step[<<n, f[n]>>] = Set(f[n], pairs[n + 1])
    BY <1>5, <2>2
  <2> QED
    BY <2>2, <2>3, <2>4
<1>10. f = [n \in 0 .. m |-> IF n = 0 THEN NoVars ELSE Set(f[n - 1], pairs[n])]
  <2> SUFFICES ASSUME NEW n \in 0 .. m
               PROVE  f[n] = IF n = 0 THEN NoVars ELSE Set(f[n - 1], pairs[n])
    BY <1>8
  <2>1. n # 0 => n - 1 \in 0 .. (m - 1) /\ n - 1 + 1 = n
    BY <1>1
  <2> QED
    BY <1>8, <1>9, <2>1
<1>11. F = [n \in 0 .. m |-> IF n = 0 THEN NoVars ELSE Set(F[n - 1], pairs[n])]
  BY <1>10
<1>12. \A n \in 0 .. m : F[n] = IF n = 0 THEN NoVars ELSE Set(F[n - 1], pairs[n])
  BY <1>11
<1> HIDE DEF F
<1> DEFINE T == {n \in 0 .. m : F[n] \in V /\ F[n].list = SubSeq(pairs, 1, n)}
<1>13. 0 \in T
  <2>1. F[0] = NoVars /\ 0 \in 0 .. m
    BY <1>1, <1>12
  <2>2. SubSeq(pairs, 1, 0) = <<>>
    OBVIOUS
  <2> QED
    BY <1>4, <2>1, <2>2, NothingTracked
<1>14. ASSUME NEW n \in 0 .. (m - 1), n \in T PROVE n + 1 \in T
  <2>1. F[n] \in Vars /\ Tracked(F[n]) /\ F[n].list = SubSeq(pairs, 1, n)
    BY <1>14
  <2>2. n + 1 \in 0 .. m /\ n + 1 # 0 /\ n + 1 - 1 = n
    BY <1>1
  <2>3. F[n + 1] = Set(F[n], pairs[n + 1])
    BY <1>12, <2>2
  <2>4. F[n + 1] \in Vars /\ Tracked(F[n + 1]) /\ F[n + 1].list = Append(F[n].list, pairs[n + 1])
    BY <1>1, <2>1, <2>3, SetTracks
  <2>5. Append(SubSeq(pairs, 1, n), pairs[n + 1]) = SubSeq(pairs, 1, n + 1)
    BY <1>1 DEF m
  <2> QED
    BY <2>1, <2>2, <2>4, <2>5
<1>15. m \in T
  <2> HIDE DEF T
  <2>1. 0 .. m \subseteq T
    BY <1>1, <1>13, <1>14, UpTo
  <2> QED
    BY <1>1, <2>1
<1>16. SubSeq(pairs, 1, m) = pairs
  BY DEF m
<1> QED
  BY <1>2, <1>15, <1>16

\* A filter of a list keeps elements of the list.
LEMMA KeptType ==
    ASSUME NEW U, NEW s \in Seq(U), NEW P, NEW T, \A i \in 1 .. Len(s) : i \in P => s[i] \in T
    PROVE  Kept(s, P) \in Seq(T)
<1> DEFINE m    == Len(s)
           V    == Seq(T)
           step == [x \in (0 .. (m - 1)) \X V |->
                       IF x[1] + 1 \in P THEN Append(x[2], s[x[1] + 1]) ELSE x[2]]
           F    == CHOOSE f : f = [n \in 0 .. m |->
                                      IF n = 0 THEN <<>>
                                      ELSE IF n \in P THEN Append(f[n - 1], s[n]) ELSE f[n - 1]]
<1>1. m \in Nat /\ \A n \in 0 .. (m - 1) : n + 1 \in 1 .. m
  OBVIOUS
<1>2. Kept(s, P) = F[m]
  BY DEF Kept
<1>3. \A i \in 1 .. m : i \in P => s[i] \in T
  OBVIOUS
<1> HIDE DEF m
<1>4. step \in Steps(m, V) /\ <<>> \in V
  <2>1. ASSUME NEW n \in 0 .. (m - 1), NEW q \in V
        PROVE  (IF n + 1 \in P THEN Append(q, s[n + 1]) ELSE q) \in V
    BY <1>1, <1>3
  <2> QED
    BY <2>1 DEF Steps
<1>5. ASSUME NEW n \in 0 .. (m - 1), NEW q \in V
      PROVE  step[<<n, q>>] = IF n + 1 \in P THEN Append(q, s[n + 1]) ELSE q
  OBVIOUS
<1> HIDE DEF step
<1>6. \E f : Goes(m, V, <<>>, step, f)
  <2> HIDE DEF V, F
  <2> QED
    BY <1>1, <1>4, Recursion
<1>7. PICK f : Goes(m, V, <<>>, step, f)
  BY <1>6
<1> HIDE DEF V
<1>8. f \in [0 .. m -> V] /\ f[0] = <<>>
       /\ \A n \in 0 .. (m - 1) : f[n + 1] = step[<<n, f[n]>>]
  BY <1>7 DEF Goes
<1>9. ASSUME NEW n \in 0 .. (m - 1)
      PROVE  f[n + 1] = IF n + 1 \in P THEN Append(f[n], s[n + 1]) ELSE f[n]
  <2>1. n \in 0 .. m
    BY <1>1
  <2>2. f[n] \in V
    BY <1>8, <2>1
  <2> QED
    BY <1>5, <1>8, <2>2
<1>10. f = [n \in 0 .. m |-> IF n = 0 THEN <<>>
                             ELSE IF n \in P THEN Append(f[n - 1], s[n]) ELSE f[n - 1]]
  <2> SUFFICES ASSUME NEW n \in 0 .. m
               PROVE  f[n] = IF n = 0 THEN <<>>
                             ELSE IF n \in P THEN Append(f[n - 1], s[n]) ELSE f[n - 1]
    BY <1>8
  <2>1. n # 0 => n - 1 \in 0 .. (m - 1) /\ n - 1 + 1 = n
    BY <1>1
  <2> QED
    BY <1>8, <1>9, <2>1
<1>11. F = [n \in 0 .. m |-> IF n = 0 THEN <<>>
                             ELSE IF n \in P THEN Append(F[n - 1], s[n]) ELSE F[n - 1]]
  BY <1>10
<1>12. \A n \in 0 .. m : F[n] = IF n = 0 THEN <<>>
                             ELSE IF n \in P THEN Append(F[n - 1], s[n]) ELSE F[n - 1]
  BY <1>11
<1> HIDE DEF F
<1> DEFINE L == {n \in 0 .. m : F[n] \in Seq(T)}
<1>13. 0 \in L
  <2>1. 0 \in 0 .. m /\ F[0] = <<>>
    BY <1>1, <1>12
  <2>2. F[0] \in Seq(T)
    BY <2>1
  <2> QED
    BY <2>1, <2>2
<1>14. ASSUME NEW n \in 0 .. (m - 1), n \in L PROVE n + 1 \in L
  <2>1. n + 1 \in 0 .. m /\ n + 1 # 0 /\ n + 1 - 1 = n /\ n + 1 \in 1 .. m
    BY <1>1
  <2>2. F[n + 1] = IF n + 1 \in P THEN Append(F[n], s[n + 1]) ELSE F[n]
    BY <1>12, <2>1
  <2>3. F[n] \in Seq(T)
    BY <1>14
  <2>4. n + 1 \in P => s[n + 1] \in T
    BY <1>3, <2>1
  <2>5. F[n + 1] \in Seq(T)
    BY <2>2, <2>3, <2>4
  <2> QED
    BY <2>1, <2>5
<1>15. m \in L
  <2> HIDE DEF L
  <2>1. 0 .. m \subseteq L
    BY <1>1, <1>13, <1>14, UpTo
  <2> QED
    BY <1>1, <2>1
<1> QED
  BY <1>2, <1>15
-----------------------------------------------------------------------------
(* What PHP reads of a list. *)

LEMMA RangeConcat ==
    ASSUME NEW s \in Seq(PairT), NEW t \in Seq(PairT)
    PROVE  s \o t \in Seq(PairT) /\ Range(s \o t) = Range(s) \cup Range(t)
<1> DEFINE list == s \o t
           n == Len(s)
<1>1. /\ list \in Seq(PairT) /\ n \in Nat /\ Len(t) \in Nat /\ Len(list) = n + Len(t)
      /\ \A i \in 1 .. n : list[i] = s[i]
      /\ \A i \in 1 .. Len(t) : list[n + i] = t[i]
  OBVIOUS
<1>2. DOMAIN list = 1 .. Len(list) /\ DOMAIN s = 1 .. n /\ DOMAIN t = 1 .. Len(t)
  BY <1>1
<1> HIDE DEF list, n
<1>3. ASSUME NEW i \in 1 .. Len(list) PROVE list[i] \in Range(s) \cup Range(t)
  <2>1. CASE i <= n
    BY <1>1, <1>2, <2>1 DEF Range
  <2>2. CASE i > n
    <3>1. i - n \in 1 .. Len(t) /\ n + (i - n) = i
      BY <1>1, <2>2
    <3>2. list[i] = t[i - n]
      BY <1>1, <3>1
    <3> QED
      BY <1>2, <3>1, <3>2 DEF Range
  <2> QED
    BY <1>1, <2>1, <2>2
<1>4. ASSUME NEW i \in 1 .. n PROVE s[i] \in Range(list)
  <2>1. i \in 1 .. Len(list) /\ list[i] = s[i]
    BY <1>1
  <2> QED
    BY <1>2, <2>1 DEF Range
<1>5. ASSUME NEW i \in 1 .. Len(t) PROVE t[i] \in Range(list)
  <2>1. n + i \in 1 .. Len(list) /\ list[n + i] = t[i]
    BY <1>1
  <2> QED
    BY <1>2, <2>1 DEF Range
<1>6. Range(list) \subseteq Range(s) \cup Range(t)
  BY <1>2, <1>3 DEF Range
<1>7. Range(s) \subseteq Range(list) /\ Range(t) \subseteq Range(list)
  BY <1>2, <1>4, <1>5 DEF Range
<1> QED
  BY <1>1, <1>6, <1>7 DEF list

\* The pairs that fit, by what the list holds.
LEMMA FitIn ==
    ASSUME NEW list \in Seq(PairT), NEW k, NEW vals
    PROVE  /\ Fit(list, k, vals) = {} <=> \A p \in Range(list) : ~ (p.key = k /\ p.val \in vals)
           /\ Fit(list, k, vals) # {} =>
                  \E p \in Range(list) :
                     p.key = k /\ p.val \in vals /\ Latest(list, k, vals) = p.val
<1>1. Fit(list, k, vals) = {} <=> \A p \in Range(list) : ~ (p.key = k /\ p.val \in vals)
  BY DEF Fit, Range
<1>2. ASSUME Fit(list, k, vals) # {}
      PROVE  \E p \in Range(list) :
                p.key = k /\ p.val \in vals /\ Latest(list, k, vals) = p.val
  <2>1. PICK i \in Fit(list, k, vals) : Latest(list, k, vals) = list[i].val
    BY <1>2, LatestAt
  <2>2. list[i] \in Range(list) /\ list[i].key = k /\ list[i].val \in vals
    BY <2>1 DEF Fit, Range
  <2> QED
    BY <2>1, <2>2
<1> QED
  BY <1>1, <1>2

\* What CStrings keeps under a name is what was given for it, and a table
\* made of it has the latest.
LEMMA TableOfCStrings ==
    ASSUME NEW list \in Seq(PairT), NEW k
    PROVE  /\ GivenAt(k, list) = Fit(list, k, Strings)
           /\ At(CStrings(list), k) = Fit(list, k, Strings)
           /\ \A i \in Fit(list, k, Strings) : CStrings(list)[i] = list[i]
           /\ k \in DOMAIN Table(CStrings(list)) <=> Fit(list, k, Strings) # {}
           /\ Fit(list, k, Strings) # {} =>
                  Table(CStrings(list))[k] = Latest(list, k, Strings)
<1> DEFINE kept == {i \in DOMAIN list : list[i].val # Nul}
<1>1. ASSUME NEW i \in DOMAIN list PROVE list[i].val # Nul <=> list[i].val \in Strings
  <2>1. list[i] \in PairT
    OBVIOUS
  <2>2. list[i].val \in Strings \cup {Nul}
    BY <2>1 DEF PairT, Held
  <2> QED
    BY <2>2, BuilderAssumption
<1>2. DOMAIN CStrings(list) = kept /\ \A i \in kept : CStrings(list)[i] = list[i]
  BY DEF CStrings, Restrict
<1>3. GivenAt(k, list) = Fit(list, k, Strings)
  BY <1>1 DEF GivenAt, At, Fit
<1>4. At(CStrings(list), k) = Fit(list, k, Strings)
  BY <1>1, <1>2 DEF At, Fit
<1>5. \A i \in Fit(list, k, Strings) : i \in kept
  BY <1>1 DEF Fit
<1> HIDE DEF kept
<1>6. \A i \in Fit(list, k, Strings) : CStrings(list)[i] = list[i]
  BY <1>2, <1>5
<1>7. k \in Names(CStrings(list)) <=> At(CStrings(list), k) # {}
  BY DEF Names, At
<1>8. DOMAIN Table(CStrings(list)) = Names(CStrings(list))
  BY DEF Table
<1>9. ASSUME Fit(list, k, Strings) # {}
      PROVE  Table(CStrings(list))[k] = Latest(list, k, Strings)
  <2>1. PICK i \in Fit(list, k, Strings) :
            (\A j \in Fit(list, k, Strings) : j <= i) /\ Latest(list, k, Strings) = list[i].val
    BY <1>9, LatestAt
  <2>2. Max(Fit(list, k, Strings)) = i
    BY <2>1, Places, MaxIs
  <2>3. Table(CStrings(list))[k] = CStrings(list)[Max(At(CStrings(list), k))].val
    BY <1>4, <1>7, <1>9 DEF Table
  <2> QED
    BY <1>4, <1>6, <2>1, <2>2, <2>3
<1> QED
  BY <1>3, <1>4, <1>6, <1>7, <1>8, <1>9

LEMMA PairIs ==
    ASSUME NEW k \in Keys, NEW v \in Held
    PROVE  Pair(k, v) \in PairT /\ Pair(k, v).key = k /\ Pair(k, v).val = v
BY DEF Pair, PairT

LEMMA OwnIs ==
    ASSUME NEW keys \in Seq(Keys)
    PROVE  /\ Own(keys) \in Seq(PairT)
           /\ \A p \in Range(Own(keys)) : p.val = "own" /\ p.key \in Range(keys)
           /\ \A k \in Range(keys) : Pair(k, "own") \in Range(Own(keys))
<1>1. DOMAIN keys = 1 .. Len(keys) /\ \A i \in DOMAIN keys : keys[i] \in Keys
  OBVIOUS
<1>2. ASSUME NEW k \in Keys
      PROVE  Pair(k, "own") \in PairT /\ Pair(k, "own").key = k /\ Pair(k, "own").val = "own"
  <2>1. "own" \in Held
    BY DEF Held, Strings
  <2> QED
    BY <2>1, PairIs
<1>3. Own(keys) = [i \in DOMAIN keys |-> Pair(keys[i], "own")]
  BY DEF Own
<1> HIDE DEF Own
<1>4. Own(keys) \in Seq(PairT)
  <2>1. Own(keys) \in [1 .. Len(keys) -> PairT]
    BY <1>1, <1>2, <1>3
  <2> QED
    BY <2>1
<1> QED
  BY <1>1, <1>2, <1>3, <1>4 DEF Range
-----------------------------------------------------------------------------
(* The lists that build() makes. *)

LEMMA OwnNames ==
    /\ Own(<<"GATEWAY_INTERFACE", "REQUEST_TIME", "REQUEST_TIME_FLOAT">>) \in Seq(PairT)
    /\ Own(<<"SCRIPT_FILENAME", "SCRIPT_NAME", "PHP_SELF", "DOCUMENT_ROOT",
             "SERVER_NAME", "SERVER_PORT", "SERVER_ADDR", "REMOTE_ADDR",
             "REMOTE_PORT", "SERVER_PROTOCOL", "REQUEST_SCHEME">>) \in Seq(PairT)
    /\ \A k \in SpecialKeys \cup {"CONTENT_LENGTH"} :
          /\ \A p \in Range(Own(<<"GATEWAY_INTERFACE", "REQUEST_TIME",
                                 "REQUEST_TIME_FLOAT">>)) : p.key # k
          /\ \A p \in Range(Own(<<"SCRIPT_FILENAME", "SCRIPT_NAME", "PHP_SELF",
                 "DOCUMENT_ROOT", "SERVER_NAME", "SERVER_PORT", "SERVER_ADDR",
                 "REMOTE_ADDR", "REMOTE_PORT", "SERVER_PROTOCOL", "REQUEST_SCHEME">>)) :
                p.key # k
<1> DEFINE first == <<"GATEWAY_INTERFACE", "REQUEST_TIME", "REQUEST_TIME_FLOAT">>
           other == <<"SCRIPT_FILENAME", "SCRIPT_NAME", "PHP_SELF", "DOCUMENT_ROOT",
                      "SERVER_NAME", "SERVER_PORT", "SERVER_ADDR", "REMOTE_ADDR",
                      "REMOTE_PORT", "SERVER_PROTOCOL", "REQUEST_SCHEME">>
<1>1. first \in Seq(Keys) /\ \A i \in 1 .. 3 : first[i] \notin SpecialKeys \cup {"CONTENT_LENGTH"}
  BY DEF Keys, SpecialKeys
<1>2. Len(first) = 3 /\ Len(other) = 11
  OBVIOUS
<1>3. other \in Seq(Keys)
  BY DEF Keys
<1>4. \A i \in 1 .. 11 : other[i] \notin SpecialKeys \cup {"CONTENT_LENGTH"}
  BY DEF SpecialKeys
<1> HIDE DEF first, other
<1>5. \A k \in Range(first) \cup Range(other) : k \notin SpecialKeys \cup {"CONTENT_LENGTH"}
  BY <1>1, <1>2, <1>3, <1>4 DEF Range
<1>6. /\ Own(first) \in Seq(PairT) /\ \A p \in Range(Own(first)) : p.key \in Range(first)
      /\ Own(other) \in Seq(PairT) /\ \A p \in Range(Own(other)) : p.key \in Range(other)
  BY <1>1, <1>3, OwnIs
<1>7. \A k \in SpecialKeys \cup {"CONTENT_LENGTH"} :
         /\ \A p \in Range(Own(first)) : p.key # k
         /\ \A p \in Range(Own(other)) : p.key # k
  BY <1>5, <1>6
<1> QED
  BY <1>6, <1>7 DEF first, other

LEMMA CliNames == CliVars \in Seq(PairT)
<1> DEFINE keys == <<"REQUEST_TIME", "REQUEST_TIME_FLOAT", "DOCUMENT_ROOT", "SCRIPT_FILENAME",
                     "SCRIPT_NAME", "PHP_SELF", "PATH_TRANSLATED", "argc", "argv">>
<1>1. keys \in Seq(Keys)
  BY DEF Keys
<1> HIDE DEF keys
<1>2. Own(keys) \in Seq(PairT)
  BY <1>1, OwnIs
<1> QED
  BY <1>2 DEF CliVars, keys

\* The defaults are all "own", and say nothing of memory_limit.
LEMMA DefaultsAre ==
    ASSUME NEW k \in {"web", "cli", "raw"}
    PROVE  /\ Defaults(k) \in Seq(PairT)
           /\ Fit(Defaults(k), "memory_limit", Strings) = {}
           /\ Fit(Defaults(k), "display_errors", Strings) = {} <=> k = "raw"
<1> DEFINE web == <<"log_errors", "html_errors", "request_order", "display_errors",
                    "implicit_flush", "variables_order", "output_buffering">>
           cli == <<"html_errors", "display_errors", "implicit_flush",
                    "max_input_time", "output_buffering", "max_execution_time">>
<1>1. CASE k = "raw"
  <2>1. Defaults(k) = <<>>
    BY <1>1 DEF Defaults
  <2>2. \A n : Fit(<<>>, n, Strings) = {}
    BY DEF Fit
  <2>3. <<>> \in Seq(PairT)
    OBVIOUS
  <2> QED
    BY <1>1, <2>1, <2>2, <2>3
<1>2. ASSUME NEW keys \in Seq(Keys), "display_errors" \in Range(keys), "memory_limit" \notin Range(keys)
      PROVE  /\ Own(keys) \in Seq(PairT)
             /\ Fit(Own(keys), "memory_limit", Strings) = {}
             /\ Fit(Own(keys), "display_errors", Strings) # {}
  <2>1. /\ Own(keys) \in Seq(PairT)
        /\ \A p \in Range(Own(keys)) : p.key \in Range(keys)
        /\ Pair("display_errors", "own") \in Range(Own(keys))
    BY <1>2, OwnIs
  <2>2. "own" \in Strings
    BY DEF Strings
  <2>3. Pair("display_errors", "own").key = "display_errors"
        /\ Pair("display_errors", "own").val = "own"
    BY DEF Pair
  <2> QED
    BY <1>2, <2>1, <2>2, <2>3, FitIn
<1>3. CASE k = "web"
  <2>1. Defaults(k) = Own(web)
    BY <1>3 DEF Defaults
  <2>2. web \in Seq(Keys) /\ Len(web) = 7 /\ web[4] = "display_errors"
    BY DEF Keys
  <2>3. \A i \in 1 .. 7 : web[i] # "memory_limit"
    OBVIOUS
  <2> HIDE DEF web
  <2>4. "display_errors" \in Range(web) /\ "memory_limit" \notin Range(web)
    BY <2>2, <2>3 DEF Range
  <2> QED
    BY <1>2, <1>3, <2>1, <2>2, <2>4
<1>4. CASE k = "cli"
  <2>1. Defaults(k) = Own(cli)
    BY <1>4 DEF Defaults
  <2>2. cli \in Seq(Keys) /\ Len(cli) = 6 /\ cli[2] = "display_errors"
    BY DEF Keys
  <2>3. \A i \in 1 .. 6 : cli[i] # "memory_limit"
    OBVIOUS
  <2> HIDE DEF cli
  <2>4. "display_errors" \in Range(cli) /\ "memory_limit" \notin Range(cli)
    BY <2>2, <2>3 DEF Range
  <2> QED
    BY <1>2, <1>4, <2>1, <2>2, <2>4
<1> QED
  BY <1>1, <1>3, <1>4

LEMMA HeaderIs ==
    ASSUME NEW h \in Headers
    PROVE  /\ h.name \in {"CONTENT_TYPE", "CONTENT_LENGTH", "COOKIE", "QUERY_STRING"}
           /\ h.val \in Held
           /\ HttpHeader(h) \in PairT
           /\ HttpHeader(h).val = h.val
           /\ HttpHeader(h).key \notin {"REQUEST_METHOD", "QUERY_STRING"}
           /\ \A k \in {"CONTENT_TYPE", "CONTENT_LENGTH"} :
                 HttpHeader(h).key = k <=> h.name = k
<1>1. h.name \in {"CONTENT_TYPE", "CONTENT_LENGTH", "COOKIE", "QUERY_STRING"}
      /\ h.val \in Texts \cup {Nul}
  BY DEF Headers, HeadersOf, Values
<1>2. h.val \in Held
  BY <1>1 DEF Held, Strings
<1> DEFINE key == CASE h.name = "COOKIE" -> "HTTP_COOKIE"
                    [] h.name = "QUERY_STRING" -> "HTTP_QUERY_STRING"
                    [] h.name \in {"CONTENT_TYPE", "CONTENT_LENGTH"} -> h.name
<1>3. HttpHeader(h) = Pair(key, h.val)
  BY DEF HttpHeader
<1>4. /\ key \in {"HTTP_COOKIE", "HTTP_QUERY_STRING", "CONTENT_TYPE", "CONTENT_LENGTH"}
      /\ \A k \in {"CONTENT_TYPE", "CONTENT_LENGTH"} : key = k <=> h.name = k
  BY <1>1
<1> HIDE DEF key
<1>5. key \in Keys /\ key \notin {"REQUEST_METHOD", "QUERY_STRING"}
  BY <1>4 DEF Keys
<1>6. Pair(key, h.val) \in PairT /\ Pair(key, h.val).key = key /\ Pair(key, h.val).val = h.val
  BY <1>2, <1>5, PairIs
<1> QED
  BY <1>1, <1>2, <1>3, <1>4, <1>5, <1>6

RequestT ==
    [method : {None, "GET", "POST"}, query : Held, headers : Seq(Headers),
     cookies : Seq(Values), body : BodySizes \cup {0}, ini : Seq(PairT), env : Seq(PairT)]

\* The parts of WebVars.
Line(r) ==
    <<Pair("REQUEST_METHOD", r.method),
      Pair("REQUEST_URI", IF r.query = Nul THEN Nul ELSE "own"),
      Pair("QUERY_STRING", r.query)>>

CookieVars(r) == IF r.cookies = <<>> THEN <<>> ELSE <<Pair("HTTP_COOKIE", Joined(r.cookies))>>

HeaderVars(r) == [i \in DOMAIN r.headers |-> HttpHeader(r.headers[i])]

MadeUp(r) ==
    (IF r.body # 0 /\ ~ HasHeader(r, "CONTENT_TYPE") THEN {OctetStream} ELSE {})
    \cup (IF r.body # 0 /\ ~ HasHeader(r, "CONTENT_LENGTH")
          THEN {Pair("CONTENT_LENGTH", ToString(r.body))} ELSE {})

LEMMA LineIs ==
    ASSUME NEW r \in RequestT, r.method # None
    PROVE  /\ Line(r) \in Seq(PairT)
           /\ Latest(Line(r), "REQUEST_METHOD", Held) = r.method
           /\ Latest(Line(r), "QUERY_STRING", Held) = r.query
           /\ \A k \in {"REQUEST_METHOD", "QUERY_STRING"} : Fit(Line(r), k, Held) # {}
           /\ \A p \in Range(Line(r)) : p.key \notin {"CONTENT_TYPE", "CONTENT_LENGTH"}
<1> DEFINE uri == IF r.query = Nul THEN Nul ELSE "own"
           list == Line(r)
<1>1. r.method \in Held /\ r.query \in Held /\ uri \in Held
  BY DEF RequestT, Held, Strings
<1>2. {"REQUEST_METHOD", "REQUEST_URI", "QUERY_STRING"} \subseteq Keys
  BY DEF Keys
<1> HIDE DEF uri
<1> DEFINE p == Pair("REQUEST_METHOD", r.method)
           q == Pair("REQUEST_URI", uri)
           w == Pair("QUERY_STRING", r.query)
<1>3. /\ p \in PairT /\ p.key = "REQUEST_METHOD" /\ p.val = r.method
      /\ q \in PairT /\ q.key = "REQUEST_URI"
      /\ w \in PairT /\ w.key = "QUERY_STRING" /\ w.val = r.query
  BY <1>1, <1>2, PairIs
<1>4. list = <<p, q, w>>
  BY DEF Line, uri
<1> HIDE DEF list, p, q, w
<1>5. list \in Seq(PairT) /\ Len(list) = 3 /\ list[1] = p /\ list[2] = q /\ list[3] = w
  BY <1>3, <1>4
<1>6. /\ Fit(list, "REQUEST_METHOD", Held) = {1}
      /\ Fit(list, "QUERY_STRING", Held) = {3}
  <2>1. \A k : Fit(list, k, Held) = {i \in 1 .. 3 : list[i].key = k /\ list[i].val \in Held}
    BY <1>5, Places
  <2>2. \A i \in 1 .. 3 : i = 1 \/ i = 2 \/ i = 3
    OBVIOUS
  <2>3. Fit(list, "REQUEST_METHOD", Held) = {1}
    BY <1>1, <1>3, <1>5, <2>1, <2>2
  <2>4. Fit(list, "QUERY_STRING", Held) = {3}
    BY <1>1, <1>3, <1>5, <2>1, <2>2
  <2> QED
    BY <2>3, <2>4
<1>7. /\ Latest(list, "REQUEST_METHOD", Held) = list[1].val
      /\ Latest(list, "QUERY_STRING", Held) = list[3].val
  BY <1>5, <1>6, LatestIs
<1>8. \A x \in Range(list) : x = p \/ x = q \/ x = w
  BY <1>5 DEF Range
<1> QED
  BY <1>3, <1>5, <1>6, <1>7, <1>8 DEF list

LEMMA CookiesAre ==
    ASSUME NEW r \in RequestT
    PROVE  /\ CookieVars(r) \in Seq(PairT)
           /\ \A p \in Range(CookieVars(r)) : p.key = "HTTP_COOKIE"
<1>1. Joined(r.cookies) \in Held /\ "HTTP_COOKIE" \in Keys
  BY DEF Joined, Held, Strings, Keys
<1> DEFINE p == Pair("HTTP_COOKIE", Joined(r.cookies))
<1>2. p \in PairT /\ p.key = "HTTP_COOKIE"
  BY <1>1, PairIs
<1>3. CookieVars(r) = <<>> \/ CookieVars(r) = <<p>>
  BY DEF CookieVars
<1> HIDE DEF p
<1>4. <<>> \in Seq(PairT) /\ Range(<<>>) = {} /\ <<p>> \in Seq(PairT) /\ Range(<<p>>) = {p}
  BY <1>2 DEF Range
<1> QED
  BY <1>2, <1>3, <1>4

LEMMA HeadersAre ==
    ASSUME NEW r \in RequestT
    PROVE  /\ HeaderVars(r) \in Seq(PairT)
           /\ \A p \in Range(HeaderVars(r)) : p.key \notin {"REQUEST_METHOD", "QUERY_STRING"}
           /\ \A k \in {"CONTENT_TYPE", "CONTENT_LENGTH"} :
                 {p.val : p \in {x \in Range(HeaderVars(r)) : x.key = k}}
                 = {r.headers[i].val : i \in {j \in DOMAIN r.headers : r.headers[j].name = k}}
<1> DEFINE hs == r.headers
<1>1. hs \in Seq(Headers) /\ DOMAIN hs = 1 .. Len(hs) /\ \A i \in DOMAIN hs : hs[i] \in Headers
  <2>1. hs \in Seq(Headers)
    BY DEF RequestT
  <2> HIDE DEF hs
  <2> QED
    BY <2>1
<1>2. HeaderVars(r) = [i \in DOMAIN hs |-> HttpHeader(hs[i])]
  BY DEF HeaderVars
<1> HIDE DEF hs
<1>3. \A i \in DOMAIN hs :
         /\ HttpHeader(hs[i]) \in PairT
         /\ HttpHeader(hs[i]).val = hs[i].val
         /\ HttpHeader(hs[i]).key \notin {"REQUEST_METHOD", "QUERY_STRING"}
         /\ \A k \in {"CONTENT_TYPE", "CONTENT_LENGTH"} :
               HttpHeader(hs[i]).key = k <=> hs[i].name = k
  BY <1>1, HeaderIs
<1>4. HeaderVars(r) \in Seq(PairT)
  <2>1. HeaderVars(r) \in [1 .. Len(hs) -> PairT]
    BY <1>1, <1>2, <1>3
  <2> QED
    BY <1>1, <2>1
<1>5. Range(HeaderVars(r)) = {HttpHeader(hs[i]) : i \in DOMAIN hs}
  BY <1>2 DEF Range
<1>6. \A p \in Range(HeaderVars(r)) : p.key \notin {"REQUEST_METHOD", "QUERY_STRING"}
  BY <1>3, <1>5
<1>7. ASSUME NEW k \in {"CONTENT_TYPE", "CONTENT_LENGTH"}
      PROVE  {p.val : p \in {x \in Range(HeaderVars(r)) : x.key = k}}
             = {hs[i].val : i \in {j \in DOMAIN hs : hs[j].name = k}}
  BY <1>3, <1>5
<1> QED
  BY <1>4, <1>6, <1>7 DEF hs

LEMMA BodyDefaultsAre ==
    ASSUME NEW r \in RequestT
    PROVE  /\ BodyDefaults(r) \in Seq(PairT)
           /\ Range(BodyDefaults(r)) = MadeUp(r)
           /\ OctetStream.key = "CONTENT_TYPE" /\ OctetStream.val \in Strings
           /\ r.body # 0 =>
                 LET length == Pair("CONTENT_LENGTH", ToString(r.body))
                 IN  length.key = "CONTENT_LENGTH" /\ length.val = ToString(r.body)
                     /\ length.val \in Strings
<1> DEFINE length == Pair("CONTENT_LENGTH", ToString(r.body))
<1>1. "CONTENT_TYPE" \in Keys /\ "CONTENT_LENGTH" \in Keys
  BY DEF Keys
<1>2. "octet-stream" \in Strings /\ (r.body # 0 => ToString(r.body) \in Strings)
  BY DEF Strings, RequestT
<1>3. OctetStream \in PairT /\ OctetStream.key = "CONTENT_TYPE" /\ OctetStream.val = "octet-stream"
  BY <1>1, <1>2, PairIs DEF OctetStream, Held
<1>4. r.body # 0 => /\ length \in PairT /\ length.key = "CONTENT_LENGTH"
                    /\ length.val = ToString(r.body)
  BY <1>1, <1>2, PairIs DEF Held
<1> DEFINE a == IF HasHeader(r, "CONTENT_TYPE") THEN <<>> ELSE <<OctetStream>>
           b == IF HasHeader(r, "CONTENT_LENGTH") THEN <<>> ELSE <<length>>
<1>5. BodyDefaults(r) = IF r.body = 0 THEN <<>> ELSE a \o b
  BY DEF BodyDefaults
<1> HIDE DEF length
<1>6. a \in Seq(PairT) /\ Range(a) = IF HasHeader(r, "CONTENT_TYPE") THEN {} ELSE {OctetStream}
  BY <1>3 DEF Range
<1>7. r.body # 0 =>
        b \in Seq(PairT) /\ Range(b) = IF HasHeader(r, "CONTENT_LENGTH") THEN {} ELSE {length}
  BY <1>4 DEF Range
<1> HIDE DEF a, b
<1>8. CASE r.body = 0
  <2>1. <<>> \in Seq(PairT) /\ Range(<<>>) = {}
    BY DEF Range
  <2> QED
    BY <1>2, <1>3, <1>5, <1>8, <2>1 DEF MadeUp
<1>9. CASE r.body # 0
  <2>1. a \o b \in Seq(PairT) /\ Range(a \o b) = Range(a) \cup Range(b)
    BY <1>6, <1>7, <1>9, RangeConcat
  <2>2. MadeUp(r) = Range(a) \cup Range(b)
    BY <1>6, <1>7, <1>9 DEF MadeUp, length
  <2> QED
    BY <1>2, <1>3, <1>4, <1>5, <1>9, <2>1, <2>2 DEF length
<1> QED
  BY <1>8, <1>9

\* What $_SERVER of a web request says: the method and the query string are
\* the builder's, and of the body only what the headers and build() say.
LEMMA WebVarsAre ==
    ASSUME NEW r \in RequestT, r.method # None
    PROVE  /\ WebVars(r) \in Seq(PairT)
           /\ Latest(WebVars(r), "REQUEST_METHOD", Held) = r.method
           /\ Latest(WebVars(r), "QUERY_STRING", Held) = r.query
           /\ \A k \in {"CONTENT_TYPE", "CONTENT_LENGTH"} :
                 {p \in Range(WebVars(r)) : p.key = k}
                 = {p \in Range(HeaderVars(r)) \cup MadeUp(r) : p.key = k}
<1> DEFINE a == Own(<<"GATEWAY_INTERFACE", "REQUEST_TIME", "REQUEST_TIME_FLOAT">>)
           b == Line(r)
           c == Own(<<"SCRIPT_FILENAME", "SCRIPT_NAME", "PHP_SELF", "DOCUMENT_ROOT",
                      "SERVER_NAME", "SERVER_PORT", "SERVER_ADDR", "REMOTE_ADDR",
                      "REMOTE_PORT", "SERVER_PROTOCOL", "REQUEST_SCHEME">>)
           d == CookieVars(r)
           e == HeaderVars(r)
           f == BodyDefaults(r)
           line == {"REQUEST_METHOD", "QUERY_STRING"}
           body == {"CONTENT_TYPE", "CONTENT_LENGTH"}
<1>1. WebVars(r) = a \o b \o c \o d \o e \o f
  BY DEF WebVars, Line, CookieVars, HeaderVars
<1>2. /\ a \in Seq(PairT) /\ c \in Seq(PairT)
      /\ \A k \in line \cup body : /\ \A p \in Range(a) : p.key # k
                                 /\ \A p \in Range(c) : p.key # k
  BY OwnNames DEF SpecialKeys
<1>3. /\ b \in Seq(PairT) /\ d \in Seq(PairT) /\ e \in Seq(PairT) /\ f \in Seq(PairT)
      /\ \A p \in Range(b) : p.key \notin body
      /\ \A p \in Range(d) : p.key = "HTTP_COOKIE"
      /\ \A p \in Range(e) : p.key \notin line
      /\ Range(f) = MadeUp(r)
  BY LineIs, CookiesAre, HeadersAre, BodyDefaultsAre
<1>4. \A p \in Range(f) : p.key \notin line
  BY <1>3, BodyDefaultsAre DEF MadeUp
<1>5. /\ \A k \in line : Fit(b, k, Held) # {}
      /\ Latest(b, "REQUEST_METHOD", Held) = r.method
      /\ Latest(b, "QUERY_STRING", Held) = r.query
  BY LineIs
<1> HIDE DEF a, b, c, d, e, f
<1> DEFINE ab == a \o b
           abc == ab \o c
           abcd == abc \o d
           abcde == abcd \o e
           all == abcde \o f
<1>6. ab \in Seq(PairT) /\ Range(ab) = Range(a) \cup Range(b)
  BY <1>2, <1>3, RangeConcat
<1>7. \A k : Latest(ab, k, Held) = IF Fit(b, k, Held) = {} THEN Latest(a, k, Held) ELSE Latest(b, k, Held)
  BY <1>2, <1>3, LatestConcat
<1> HIDE DEF ab
<1>8. abc \in Seq(PairT) /\ Range(abc) = Range(ab) \cup Range(c)
  BY <1>2, <1>6, RangeConcat
<1>9. \A k : Latest(abc, k, Held) = IF Fit(c, k, Held) = {} THEN Latest(ab, k, Held) ELSE Latest(c, k, Held)
  BY <1>2, <1>6, LatestConcat
<1> HIDE DEF abc
<1>10. abcd \in Seq(PairT) /\ Range(abcd) = Range(abc) \cup Range(d)
  BY <1>3, <1>8, RangeConcat
<1>11. \A k : Latest(abcd, k, Held) = IF Fit(d, k, Held) = {} THEN Latest(abc, k, Held) ELSE Latest(d, k, Held)
  BY <1>3, <1>8, LatestConcat
<1> HIDE DEF abcd
<1>12. abcde \in Seq(PairT) /\ Range(abcde) = Range(abcd) \cup Range(e)
  BY <1>3, <1>10, RangeConcat
<1>13. \A k : Latest(abcde, k, Held) = IF Fit(e, k, Held) = {} THEN Latest(abcd, k, Held) ELSE Latest(e, k, Held)
  BY <1>3, <1>10, LatestConcat
<1> HIDE DEF abcde
<1>14. all \in Seq(PairT) /\ Range(all) = Range(abcde) \cup Range(f)
  BY <1>3, <1>12, RangeConcat
<1>15. \A k : Latest(all, k, Held) = IF Fit(f, k, Held) = {} THEN Latest(abcde, k, Held) ELSE Latest(f, k, Held)
  BY <1>3, <1>12, LatestConcat
<1> HIDE DEF all
<1>16. WebVars(r) = all
  BY <1>1 DEF ab, abc, abcd, abcde, all
<1>17. ASSUME NEW k \in line PROVE Latest(all, k, Held) = Latest(b, k, Held)
  <2>1. Fit(c, k, Held) = {}
    BY <1>2, FitIn
  <2>2. Fit(d, k, Held) = {}
    BY <1>3, FitIn
  <2>3. Fit(e, k, Held) = {}
    BY <1>3, FitIn
  <2>4. Fit(f, k, Held) = {}
    BY <1>3, <1>4, FitIn
  <2> QED
    BY <1>5, <1>7, <1>9, <1>11, <1>13, <1>15, <2>1, <2>2, <2>3, <2>4
<1>18. ASSUME NEW k \in body
       PROVE  {p \in Range(all) : p.key = k} = {p \in Range(e) \cup MadeUp(r) : p.key = k}
  BY <1>2, <1>3, <1>6, <1>8, <1>10, <1>12, <1>14
<1> QED
  BY <1>5, <1>14, <1>16, <1>17, <1>18 DEF e

-----------------------------------------------------------------------------
(* The invariant. *)

ContextT == [vars : Vars, input : BodySizes \cup {0}, ini : Seq(PairT), env : Seq(PairT)]

TypeOK ==
    /\ stage \in {"building", "sealed", "built", "failed", "entered"}
    /\ kind \in {"web", "cli", "raw"}
    /\ req \in RequestT /\ ec \in ContextT
    /\ asked \in [ini : Seq(PairT), env : Seq(PairT)]

\* ServerVars holds the latest of each special variable.
SpecialsTracked == Tracked(ec.vars)

\* The lists of the builder, then those of the context, are the defaults and
\* after them what the caller gave.
ListsAsAsked ==
    /\ stage \in {"building", "sealed"} =>
          req.ini = Defaults(kind) \o asked.ini /\ req.env = asked.env
    /\ stage \in {"built", "entered"} =>
          ec.ini = Defaults(kind) \o asked.ini /\ ec.env = asked.env

\* What the context of a web request says, as far as nobody changed it.
WebContext ==
    stage \in {"built", "entered"} /\ kind = "web" =>
        /\ req.method # None
        /\ "REQUEST_METHOD" \notin later => ec.vars.special["REQUEST_METHOD"] = req.method
        /\ "QUERY_STRING" \notin later => ec.vars.special["QUERY_STRING"] = req.query
        /\ later = {} => ec.vars.list = WebVars(req)

Handed == stage = "entered" => sc = IntoContext(ec)

BuilderInv == TypeOK /\ SpecialsTracked /\ ListsAsAsked /\ WebContext /\ Handed

LEMMA ContextIs ==
    ASSUME NEW pairs \in Seq(PairT), NEW r \in RequestT
    PROVE  LET e == Context(pairs, r)
           IN  /\ e \in ContextT /\ Tracked(e.vars) /\ e.vars.list = pairs
               /\ e.ini = r.ini /\ e.env = r.env
<1> DEFINE sv == SetAll(NoVars, pairs)
<1>1. sv \in Vars /\ Tracked(sv) /\ sv.list = pairs
  BY AllTracked
<1>2. Context(pairs, r) = [vars |-> sv, input |-> r.body, ini |-> r.ini, env |-> r.env]
  BY DEF Context
<1> HIDE DEF sv
<1>3. r.body \in BodySizes \cup {0} /\ r.ini \in Seq(PairT) /\ r.env \in Seq(PairT)
  BY DEF RequestT
<1> QED
  BY <1>1, <1>2, <1>3 DEF ContextT

LEMMA BodyIsNat == ASSUME NEW r \in RequestT PROVE r.body \in Nat
<1>1. r.body \in BodySizes \/ r.body = 0
  BY DEF RequestT
<1>2. ASSUME NEW n \in BodySizes PROVE n \in Nat
  BY BuilderAssumption
<1> QED
  BY <1>1, <1>2

LEMMA NewRequestIs ==
    ASSUME NEW k \in {"web", "cli", "raw"}, NEW method \in {None, "GET", "POST"}
    PROVE  LET r == NewRequest(k, method)
           IN  /\ r \in RequestT /\ r.method = method
               /\ r.ini = Defaults(k) /\ r.env = <<>>
<1> DEFINE nothing == <<>>
           query == ""
<1>1. query \in Held
  BY DEF Held, Strings
<1>2. nothing \in Seq(Headers) /\ nothing \in Seq(Values) /\ nothing \in Seq(PairT)
  OBVIOUS
<1>3. NewRequest(k, method)
      = [ method |-> method, query |-> query, headers |-> nothing, cookies |-> nothing,
          body |-> 0, ini |-> Defaults(k), env |-> nothing ]
  BY DEF NewRequest
<1>4. Defaults(k) \in Seq(PairT)
  BY DefaultsAre
<1>5. nothing = <<>>
  OBVIOUS
<1> HIDE DEF nothing, query
<1> QED
  BY <1>1, <1>2, <1>3, <1>4, <1>5 DEF RequestT

LEMMA UpToTwo ==
    ASSUME NEW T, NEW list \in {<<>>} \cup {<<h>> : h \in T} \cup (T \X T)
    PROVE  list \in Seq(T) /\ \A i \in 1 .. Len(list) : list[i] \in T
<1>1. CASE list = <<>>
  BY <1>1
<1>2. CASE \E h \in T : list = <<h>>
  BY <1>2
<1>3. CASE list \in T \X T
  <2>1. PICK x \in T, y \in T : list = <<x, y>>
    BY <1>3
  <2>2. list \in Seq(T)
    BY <2>1
  <2> QED
    BY <2>2
<1> QED
  BY <1>1, <1>2, <1>3

LEMMA FromHttpIs ==
    ASSUME NEW method, NEW query \in Texts \cup {""}, NEW headers \in HttpHeaders,
           NEW n \in BodySizes
    PROVE  LET r == FromHttp(method, query, headers, n)
           IN  /\ r \in RequestT /\ r.ini = Defaults("web") /\ r.env = <<>>
<1> DEFINE Http == HeadersOf(Texts \cup {Opaque})
           P    == {i \in DOMAIN headers : headers[i].val # Opaque}
           hs   == Kept(headers, P)
           new  == NewRequest("web", MethodOf(method))
<1>1. \A h \in Http : h.val # Opaque => h \in Headers
  BY DEF HeadersOf, Headers, Values
<1>2. headers \in Seq(Http) /\ \A i \in 1 .. Len(headers) : headers[i] \in Http
  <2>1. headers \in {<<>>} \cup {<<h>> : h \in Http} \cup (Http \X Http)
    BY DEF HttpHeaders
  <2> HIDE DEF Http, P, hs, new
  <2> QED
    BY <2>1, UpToTwo, Zenon
<1>3. \A i \in 1 .. Len(headers) : i \in P => headers[i] \in Headers
  <2> HIDE DEF Http, hs, new
  <2>1. \A i \in P : headers[i].val # Opaque
    OBVIOUS
  <2> HIDE DEF P
  <2> QED
    BY <1>1, <1>2, <2>1
<1>4. hs \in Seq(Headers)
  <2> HIDE DEF Http, P
  <2> QED
    BY <1>2, <1>3, KeptType
<1>5. MethodOf(method) \in {None, "GET", "POST"}
  BY DEF MethodOf
<1>6. new \in RequestT /\ new.ini = Defaults("web") /\ new.env = <<>>
  BY <1>5, NewRequestIs
<1>7. query \in Held
  BY DEF Held, Strings
<1>8. FromHttp(method, query, headers, n)
      = [new EXCEPT !.query = query, !.headers = hs, !.body = n]
  BY DEF FromHttp
<1> HIDE DEF hs, new
<1> QED
  BY <1>4, <1>6, <1>7, <1>8 DEF RequestT

LEMMA InitInv == Init => BuilderInv
<1> SUFFICES ASSUME Init PROVE BuilderInv
  OBVIOUS
<1>1. NoContext \in ContextT /\ Tracked(NoContext.vars)
      /\ NoContext.ini = <<>> /\ NoContext.env = <<>>
  <2>1. <<>> \in Seq(PairT)
    OBVIOUS
  <2>2. NewRequest("raw", None) \in RequestT /\ NewRequest("raw", None).ini = Defaults("raw")
        /\ NewRequest("raw", None).env = <<>>
    BY NewRequestIs
  <2>3. Defaults("raw") = <<>>
    BY DEF Defaults
  <2> QED
    BY <2>1, <2>2, <2>3, ContextIs DEF NoContext
<1>2. /\ stage \in {"building", "sealed", "built", "failed"} /\ kind \in {"web", "cli", "raw"}
      /\ stage = "built" => kind = "raw"
      /\ req \in RequestT /\ req.ini = Defaults(kind) /\ req.env = <<>>
  <2>1. CASE kind = "raw" /\ stage = "built" /\ req = NewRequest("raw", None)
    BY <2>1, NewRequestIs
  <2>2. CASE kind = "cli" /\ stage = "building" /\ req = NewRequest("cli", None)
    BY <2>2, NewRequestIs
  <2>3. CASE /\ kind = "web" /\ stage = "building"
             /\ \E method \in {None, "GET", "POST"} : req = NewRequest("web", method)
    BY <2>3, NewRequestIs
  <2>4. CASE /\ kind = "web" /\ stage \in {"failed", "sealed"}
             /\ \E method \in {"GET", "get", "POST", "PURGE"}, query \in Texts \cup {""},
                   headers \in HttpHeaders, n \in BodySizes :
                       req = FromHttp(method, query, headers, n)
    <3>1. PICK method \in {"GET", "get", "POST", "PURGE"}, query \in Texts \cup {""},
               headers \in HttpHeaders, n \in BodySizes :
                   req = FromHttp(method, query, headers, n)
      BY <2>4
    <3>2. FromHttp(method, query, headers, n) \in RequestT
          /\ FromHttp(method, query, headers, n).ini = Defaults("web")
          /\ FromHttp(method, query, headers, n).env = <<>>
      BY FromHttpIs
    <3> QED
      BY <2>4, <3>1, <3>2
  <2> QED
    BY <2>1, <2>2, <2>3, <2>4 DEF Init
<1>3. ec = NoContext /\ later = {} /\ asked = [ini |-> <<>>, env |-> <<>>]
  BY DEF Init
<1>4. Defaults(kind) \in Seq(PairT)
  BY <1>2, DefaultsAre
<1>5. asked \in [ini : Seq(PairT), env : Seq(PairT)] /\ asked.ini = <<>> /\ asked.env = <<>>
  BY <1>3
<1>6. Defaults(kind) \o asked.ini = Defaults(kind)
  BY <1>4, <1>5
<1>7. kind = "raw" => Defaults(kind) = <<>>
  BY DEF Defaults
<1> QED
  BY <1>1, <1>2, <1>3, <1>5, <1>6, <1>7
     DEF BuilderInv, TypeOK, SpecialsTracked, ListsAsAsked, WebContext, Handed

\* What a caller may append to a list.
LEMMA AskedPairs ==
    /\ \A k \in {"display_errors", "memory_limit", "APP_ENV"}, v \in Values :
          Pair(k, v) \in PairT
    /\ \A k \in SpecialKeys \cup {"CONTENT_LENGTH"}, v \in Values :
          Pair(k, v) \in PairT /\ Pair(k, v).key = k
<1>1. {"display_errors", "memory_limit", "APP_ENV", "CONTENT_LENGTH"} \cup SpecialKeys \subseteq Keys
  BY DEF Keys, SpecialKeys
<1>2. Values \subseteq Held
  BY DEF Values, Held, Strings
<1> QED
  BY <1>1, <1>2, PairIs

\* A call on the builder keeps the invariant if what becomes of the request
\* has the lists that were asked for.
LEMMA ConfigureKeeps ==
    ASSUME BuilderInv, NEW r \in RequestT, Configure(r),
           asked' \in [ini : Seq(PairT), env : Seq(PairT)],
           r.ini = Defaults(kind) \o asked'.ini, r.env = asked'.env
    PROVE  BuilderInv'
BY DEF BuilderInv, TypeOK, SpecialsTracked, ListsAsAsked, WebContext, Handed, Configure

\* And a call on the context, if it keeps ServerVars as they are or says what
\* it changes.
LEMMA AmendKeeps ==
    ASSUME BuilderInv, NEW e \in ContextT, NEW what, Amend(e, what),
           asked' \in [ini : Seq(PairT), env : Seq(PairT)],
           Tracked(e.vars),
           \A k \in SpecialKeys : k # what => e.vars.special[k] = ec.vars.special[k],
           e.ini = Defaults(kind) \o asked'.ini, e.env = asked'.env
    PROVE  BuilderInv'
<1>1. /\ stage = "built" /\ stage' = "built" /\ ec' = e /\ later' = later \cup {what}
      /\ kind' = kind /\ req' = req /\ sc' = sc
  BY DEF Amend
<1>2. TypeOK' /\ SpecialsTracked' /\ ListsAsAsked' /\ Handed'
  BY <1>1 DEF BuilderInv, TypeOK, SpecialsTracked, ListsAsAsked, Handed
<1>3. WebContext'
  <2>1. "REQUEST_METHOD" \in SpecialKeys /\ "QUERY_STRING" \in SpecialKeys
    BY DEF SpecialKeys
  <2>2. later' # {}
    BY <1>1
  <2> QED
    BY <1>1, <2>1, <2>2 DEF BuilderInv, WebContext
<1> QED
  BY <1>2, <1>3 DEF BuilderInv

LEMMA ConcatAppend ==
    ASSUME NEW s \in Seq(PairT), NEW t \in Seq(PairT), NEW p \in PairT
    PROVE  Append(s \o t, p) = s \o Append(t, p)
OBVIOUS

LEMMA StepInv == BuilderInv /\ [Next]_vars => BuilderInv'
<1> SUFFICES ASSUME BuilderInv, [Next]_vars PROVE BuilderInv'
  OBVIOUS
<1>1. /\ kind \in {"web", "cli", "raw"} /\ req \in RequestT /\ ec \in ContextT
      /\ asked \in [ini : Seq(PairT), env : Seq(PairT)]
      /\ Defaults(kind) \in Seq(PairT)
  BY DefaultsAre DEF BuilderInv, TypeOK
<1>2. /\ req.ini \in Seq(PairT) /\ req.env \in Seq(PairT)
      /\ req.headers \in Seq(Headers) /\ req.cookies \in Seq(Values)
      /\ ec.ini \in Seq(PairT) /\ ec.env \in Seq(PairT) /\ ec.vars \in Vars
      /\ asked.ini \in Seq(PairT) /\ asked.env \in Seq(PairT)
  BY <1>1 DEF RequestT, ContextT
<1>3. /\ stage = "building" => req.ini = Defaults(kind) \o asked.ini /\ req.env = asked.env
      /\ stage = "built" => ec.ini = Defaults(kind) \o asked.ini /\ ec.env = asked.env
      /\ Tracked(ec.vars)
  BY DEF BuilderInv, ListsAsAsked, SpecialsTracked
<1>4. ASSUME NEW h \in Headers, WithHeader(h) PROVE BuilderInv'
  <2> DEFINE r == [req EXCEPT !.headers = Append(@, h)]
  <2>1. Configure(r) /\ asked' = asked /\ stage = "building"
    BY <1>4 DEF WithHeader, Configure
  <2> DEFINE more == Append(req.headers, h)
  <2>2. more \in Seq(Headers) /\ r = [req EXCEPT !.headers = more]
    BY <1>2
  <2> HIDE DEF more, r
  <2>3. r \in RequestT /\ r.ini = req.ini /\ r.env = req.env
    BY <1>1, <2>2 DEF RequestT
  <2> QED
    BY <1>1, <1>3, <2>1, <2>3, ConfigureKeeps
<1>5. ASSUME NEW v \in Values, WithCookie(v) PROVE BuilderInv'
  <2> DEFINE r == [req EXCEPT !.cookies = Append(@, v)]
  <2>1. Configure(r) /\ asked' = asked /\ stage = "building"
    BY <1>5 DEF WithCookie, Configure
  <2> DEFINE more == Append(req.cookies, v)
  <2>2. more \in Seq(Values) /\ r = [req EXCEPT !.cookies = more]
    BY <1>2
  <2> HIDE DEF more, r
  <2>3. r \in RequestT /\ r.ini = req.ini /\ r.env = req.env
    BY <1>1, <2>2 DEF RequestT
  <2> QED
    BY <1>1, <1>3, <2>1, <2>3, ConfigureKeeps
<1>6. ASSUME NEW v \in Values, WithUri(v) PROVE BuilderInv'
  <2> DEFINE r == [req EXCEPT !.query = v]
  <2>1. Configure(r) /\ asked' = asked /\ stage = "building"
    BY <1>6 DEF WithUri, Configure
  <2>2. v \in Held
    BY DEF Values, Held, Strings
  <2>3. r \in RequestT /\ r.ini = req.ini /\ r.env = req.env
    BY <1>1, <2>2 DEF RequestT
  <2> HIDE DEF r
  <2> QED
    BY <1>1, <1>3, <2>1, <2>3, ConfigureKeeps
<1>7. ASSUME NEW n \in BodySizes, WithBody(n) PROVE BuilderInv'
  <2> DEFINE r == [req EXCEPT !.body = n]
  <2>1. Configure(r) /\ asked' = asked /\ stage = "building"
    BY <1>7 DEF WithBody, Configure
  <2>2. r \in RequestT /\ r.ini = req.ini /\ r.env = req.env
    BY <1>1 DEF RequestT
  <2> HIDE DEF r
  <2> QED
    BY <1>1, <1>3, <2>1, <2>2, ConfigureKeeps
<1>8. ASSUME NEW p \in PairT, WithIni(p) PROVE BuilderInv'
  <2> DEFINE r == [req EXCEPT !.ini = Append(@, p)]
  <2>1. Configure(r) /\ asked' = [asked EXCEPT !.ini = Append(@, p)] /\ stage = "building"
    BY <1>8 DEF WithIni, Configure
  <2>2. Append(req.ini, p) \in Seq(PairT) /\ Append(asked.ini, p) \in Seq(PairT)
    BY <1>2
  <2>3. r \in RequestT /\ r.ini = Append(req.ini, p) /\ r.env = req.env
    BY <1>1, <2>2 DEF RequestT
  <2>4. /\ asked' \in [ini : Seq(PairT), env : Seq(PairT)]
        /\ asked'.ini = Append(asked.ini, p) /\ asked'.env = asked.env
    BY <1>1, <2>1, <2>2
  <2>5. Append(req.ini, p) = Defaults(kind) \o Append(asked.ini, p)
    <3> DEFINE d == Defaults(kind)
               t == asked.ini
    <3>1. d \in Seq(PairT) /\ t \in Seq(PairT) /\ req.ini = d \o t
      BY <1>1, <1>2, <1>3, <2>1
    <3> HIDE DEF d, t
    <3>2. Append(d \o t, p) = d \o Append(t, p)
      BY <3>1, ConcatAppend
    <3> QED
      BY <3>1, <3>2 DEF d, t
  <2> HIDE DEF r
  <2> QED
    BY <1>3, <2>1, <2>3, <2>4, <2>5, ConfigureKeeps
<1>9. ASSUME NEW p \in PairT, WithEnv(p) PROVE BuilderInv'
  <2> DEFINE r == [req EXCEPT !.env = Append(@, p)]
  <2>1. Configure(r) /\ asked' = [asked EXCEPT !.env = Append(@, p)] /\ stage = "building"
    BY <1>9 DEF WithEnv, Configure
  <2>2. Append(req.env, p) \in Seq(PairT) /\ Append(asked.env, p) \in Seq(PairT)
    BY <1>2
  <2>3. r \in RequestT /\ r.ini = req.ini /\ r.env = Append(req.env, p)
    BY <1>1, <2>2 DEF RequestT
  <2>4. /\ asked' \in [ini : Seq(PairT), env : Seq(PairT)]
        /\ asked'.ini = asked.ini /\ asked'.env = Append(asked.env, p)
    BY <1>1, <2>1, <2>2
  <2> HIDE DEF r
  <2> QED
    BY <1>3, <2>1, <2>3, <2>4, ConfigureKeeps
<1>10. ASSUME NEW found \in BOOLEAN, Build(found) PROVE BuilderInv'
  <2>1. /\ stage \in {"building", "sealed"} /\ kind' = kind /\ req' = req /\ sc' = sc
        /\ later' = later /\ asked' = asked
    BY <1>10 DEF Build
  <2>2. CASE stage' = "failed" /\ ec' = ec
    BY <2>1, <2>2 DEF BuilderInv, TypeOK, SpecialsTracked, ListsAsAsked, WebContext, Handed
  <2> DEFINE pairs == IF kind = "web" THEN WebVars(req) ELSE CliVars
  <2>3. CASE /\ ~ (kind = "web" /\ req.method = None)
             /\ stage' = "built" /\ ec' = Context(pairs, req)
    <3>1. pairs \in Seq(PairT)
      BY <1>1, <2>3, WebVarsAre, CliNames
    <3> HIDE DEF pairs
    <3>2. /\ ec' \in ContextT /\ Tracked(ec'.vars) /\ ec'.vars.list = pairs
          /\ ec'.ini = req.ini /\ ec'.env = req.env
      BY <1>1, <2>3, <3>1, ContextIs
    <3>3. TypeOK' /\ SpecialsTracked' /\ ListsAsAsked' /\ Handed'
      BY <2>1, <2>3, <3>2 DEF BuilderInv, TypeOK, SpecialsTracked, ListsAsAsked, Handed
    <3>4. ASSUME kind = "web"
          PROVE  /\ pairs = WebVars(req) /\ req.method # None
                 /\ ec'.vars.special["REQUEST_METHOD"] = req.method
                 /\ ec'.vars.special["QUERY_STRING"] = req.query
      <4>1. pairs = WebVars(req) /\ req.method # None
        BY <2>3, <3>4 DEF pairs
      <4>2. \A k \in SpecialKeys : ec'.vars.special[k] = Latest(pairs, k, Held)
        BY <3>2 DEF Tracked
      <4>3. "REQUEST_METHOD" \in SpecialKeys /\ "QUERY_STRING" \in SpecialKeys
        BY DEF SpecialKeys
      <4> QED
        BY <1>1, <4>1, <4>2, <4>3, WebVarsAre
    <3>5. WebContext'
      BY <2>1, <3>2, <3>4 DEF WebContext
    <3> QED
      BY <3>3, <3>5 DEF BuilderInv
  <2> QED
    BY <1>10, <2>2, <2>3 DEF Build
<1>11. ASSUME NEW p \in PairT, Var(p) PROVE BuilderInv'
  <2> DEFINE e == [ec EXCEPT !.vars = Set(@, p)]
  <2>1. Amend(e, p.key) /\ asked' = asked /\ stage = "built"
    BY <1>11 DEF Var, Amend
  <2>2. Set(ec.vars, p) \in Vars /\ Tracked(Set(ec.vars, p))
    BY <1>2, <1>3, SetTracks
  <2>3. \A k \in SpecialKeys : k # p.key => Set(ec.vars, p).special[k] = ec.vars.special[k]
    <3>1. Set(ec.vars, p).special = TrackSpecial(ec.vars.special, p)
      BY DEF Set
    <3>2. ec.vars.special \in [SpecialKeys -> Held \cup {None}]
      BY <1>2 DEF Vars
    <3> QED
      BY <3>1, <3>2 DEF TrackSpecial
  <2> DEFINE sv == Set(ec.vars, p)
  <2>4. e = [ec EXCEPT !.vars = sv]
    OBVIOUS
  <2> HIDE DEF sv, e
  <2>5. e \in ContextT /\ e.vars = sv /\ e.ini = ec.ini /\ e.env = ec.env
    BY <1>1, <2>2, <2>4 DEF ContextT, sv
  <2> QED
    BY <1>1, <1>3, <2>1, <2>2, <2>3, <2>5, AmendKeeps DEF sv
<1>12. ASSUME NEW n \in BodySizes, Input(n) PROVE BuilderInv'
  <2> DEFINE e == [ec EXCEPT !.input = n]
  <2>1. Amend(e, "input") /\ asked' = asked /\ stage = "built"
    BY <1>12 DEF Input, Amend
  <2>2. e \in ContextT /\ e.vars = ec.vars /\ e.ini = ec.ini /\ e.env = ec.env
    BY <1>1 DEF ContextT
  <2> HIDE DEF e
  <2> QED
    BY <1>1, <1>3, <2>1, <2>2, AmendKeeps
<1>13. ASSUME NEW p \in PairT, Ini(p) PROVE BuilderInv'
  <2> DEFINE e == [ec EXCEPT !.ini = Append(@, p)]
  <2>1. Amend(e, "ini") /\ asked' = [asked EXCEPT !.ini = Append(@, p)] /\ stage = "built"
    BY <1>13 DEF Ini, Amend
  <2>2. Append(ec.ini, p) \in Seq(PairT) /\ Append(asked.ini, p) \in Seq(PairT)
    BY <1>2
  <2>3. e \in ContextT /\ e.vars = ec.vars /\ e.ini = Append(ec.ini, p) /\ e.env = ec.env
    BY <1>1, <2>2 DEF ContextT
  <2>4. /\ asked' \in [ini : Seq(PairT), env : Seq(PairT)]
        /\ asked'.ini = Append(asked.ini, p) /\ asked'.env = asked.env
    BY <1>1, <2>1, <2>2
  <2>5. Append(ec.ini, p) = Defaults(kind) \o Append(asked.ini, p)
    <3> DEFINE d == Defaults(kind)
               t == asked.ini
    <3>1. d \in Seq(PairT) /\ t \in Seq(PairT) /\ ec.ini = d \o t
      BY <1>1, <1>2, <1>3, <2>1
    <3> HIDE DEF d, t
    <3>2. Append(d \o t, p) = d \o Append(t, p)
      BY <3>1, ConcatAppend
    <3> QED
      BY <3>1, <3>2 DEF d, t
  <2> HIDE DEF e
  <2> QED
    BY <1>3, <2>1, <2>3, <2>4, <2>5, AmendKeeps
<1>14. ASSUME NEW p \in PairT, Env(p) PROVE BuilderInv'
  <2> DEFINE e == [ec EXCEPT !.env = Append(@, p)]
  <2>1. Amend(e, "env") /\ asked' = [asked EXCEPT !.env = Append(@, p)] /\ stage = "built"
    BY <1>14 DEF Env, Amend
  <2>2. Append(ec.env, p) \in Seq(PairT) /\ Append(asked.env, p) \in Seq(PairT)
    BY <1>2
  <2>3. e \in ContextT /\ e.vars = ec.vars /\ e.ini = ec.ini /\ e.env = Append(ec.env, p)
    BY <1>1, <2>2 DEF ContextT
  <2>4. /\ asked' \in [ini : Seq(PairT), env : Seq(PairT)]
        /\ asked'.ini = asked.ini /\ asked'.env = Append(asked.env, p)
    BY <1>1, <2>1, <2>2
  <2> HIDE DEF e
  <2> QED
    BY <1>3, <2>1, <2>3, <2>4, AmendKeeps
<1>15. CASE Enter
  BY <1>15 DEF Enter, BuilderInv, TypeOK, SpecialsTracked, ListsAsAsked, WebContext, Handed
<1>16. CASE UNCHANGED vars
  BY <1>16 DEF vars, BuilderInv, TypeOK, SpecialsTracked, ListsAsAsked, WebContext, Handed
<1>17. CASE Configures
  BY <1>4, <1>5, <1>6, <1>7, <1>8, <1>9, <1>17, AskedPairs DEF Configures
<1>18. CASE Amends
  BY <1>11, <1>12, <1>13, <1>14, <1>18, AskedPairs DEF Amends
<1> QED
  BY <1>10, <1>15, <1>16, <1>17, <1>18 DEF Next

\* The lists, the specials and what PHP is handed go together in every state,
\* whatever the values and the number of the calls.
THEOREM InvariantHolds == Spec => []BuilderInv
BY InitInv, StepInv, PTL DEF Spec
-----------------------------------------------------------------------------
(* What PHP sees. *)

\* $_SERVER under the names of the model: the latest that PHP can hold.
LEMMA ServerIs ==
    ASSUME stage = "entered", BuilderInv, NEW k \in SpecialKeys \cup {"CONTENT_LENGTH"}
    PROVE  /\ ec.vars.list \in Seq(PairT)
           /\ k \in DOMAIN Server <=> Fit(ec.vars.list, k, Strings) # {}
           /\ Fit(ec.vars.list, k, Strings) # {} =>
                  Server[k] = Latest(ec.vars.list, k, Strings)
<1> DEFINE list  == ec.vars.list
           table == Table(CStrings(list))
<1>1. list \in Seq(PairT)
  BY DEF BuilderInv, TypeOK, ContextT, Vars
<1>2. sc.vars = CStrings(list)
  BY DEF BuilderInv, Handed, IntoContext
<1>3. /\ DOMAIN table = Names(sc.vars)
      /\ Server = [n \in DOMAIN table \cup {"SERVER_SOFTWARE"} |->
                      IF n \in DOMAIN table THEN table[n] ELSE "own"]
  BY <1>2 DEF Server, Table
<1>4. /\ k \in DOMAIN table <=> Fit(list, k, Strings) # {}
      /\ Fit(list, k, Strings) # {} => table[k] = Latest(list, k, Strings)
  BY <1>1, TableOfCStrings
<1> HIDE DEF list, table
<1>5. k # "SERVER_SOFTWARE"
  BY DEF SpecialKeys
<1>6. /\ k \in DOMAIN Server <=> k \in DOMAIN table
      /\ k \in DOMAIN table => Server[k] = table[k]
  BY <1>3, <1>5
<1> QED
  BY <1>1, <1>4, <1>6 DEF list

\* What is tracked of a special variable, once it is a C string.
LEMMA SpecialIs ==
    ASSUME stage = "entered", BuilderInv, NEW k \in SpecialKeys
    PROVE  /\ sc.special[k] = CStringOrNull(ec.vars.special[k])
           /\ ec.vars.special[k] = Latest(ec.vars.list, k, Held)
<1>1. sc.special = [x \in SpecialKeys |-> CStringOrNull(ec.vars.special[x])]
  BY DEF BuilderInv, Handed, IntoContext
<1> QED
  BY <1>1 DEF BuilderInv, SpecialsTracked, Tracked

\* If the latest value of a name can be held by PHP, it is the latest of those
\* that can; if it cannot, it is in the list.
LEMMA LatestOfHeld ==
    ASSUME NEW list \in Seq(PairT), NEW k
    PROVE  /\ Latest(list, k, Held) \in Strings =>
                  /\ Fit(list, k, Strings) # {}
                  /\ Latest(list, k, Strings) = Latest(list, k, Held)
           /\ Latest(list, k, Held) = Nul => Pair(k, Nul) \in Range(list)
           /\ Latest(list, k, Held) \notin Strings \cup {Nul} => Fit(list, k, Strings) = {}
<1>1. Fit(list, k, Strings) \subseteq Fit(list, k, Held)
  BY DEF Fit, Held
<1>2. None \notin Strings /\ Nul \notin Strings /\ None # Nul
  BY BuilderAssumption
<1>3. CASE Fit(list, k, Held) = {}
  BY <1>1, <1>2, <1>3 DEF Latest
<1>4. CASE Fit(list, k, Held) # {}
  <2>1. PICK i \in Fit(list, k, Held) :
            (\A j \in Fit(list, k, Held) : j <= i) /\ Latest(list, k, Held) = list[i].val
    BY <1>4, LatestAt
  <2>2. i \in DOMAIN list /\ list[i] \in PairT /\ list[i].key = k /\ list[i].val \in Strings \cup {Nul}
    BY <2>1 DEF Fit, Held
  <2>3. ASSUME list[i].val \in Strings
        PROVE  /\ Fit(list, k, Strings) # {}
               /\ Latest(list, k, Strings) = list[i].val
    <3>1. i \in Fit(list, k, Strings)
      BY <2>2, <2>3 DEF Fit
    <3>2. \A j \in Fit(list, k, Strings) : j <= i
      BY <1>1, <2>1
    <3> QED
      BY <3>1, <3>2, LatestIs
  <2>4. ASSUME list[i].val = Nul PROVE Pair(k, Nul) \in Range(list)
    <3>1. list[i] = Pair(k, Nul)
      BY <2>2, <2>4 DEF Pair, PairT
    <3> QED
      BY <2>2, <3>1 DEF Range
  <2> QED
    BY <1>2, <2>1, <2>2, <2>3, <2>4
<1> QED
  BY <1>3, <1>4

\* request_info and $_SERVER agree on the special variables.
THEOREM InfoAgrees == Spec => []InfoMatchesServer
<1>1. BuilderInv => InfoMatchesServer
  <2> SUFFICES ASSUME BuilderInv, stage = "entered", NEW k \in SpecialKeys
               PROVE  IF sc.special[k] # None
                      THEN k \in DOMAIN Server /\ Server[k] = Info(k)
                      ELSE k \in DOMAIN Server => Pair(k, Nul) \in Range(ec.vars.list)
    BY DEF InfoMatchesServer
  <2> DEFINE list == ec.vars.list
             held == Latest(list, k, Held)
  <2>1. sc.special[k] = CStringOrNull(held)
    BY SpecialIs
  <2>2. /\ list \in Seq(PairT)
        /\ k \in DOMAIN Server <=> Fit(list, k, Strings) # {}
        /\ Fit(list, k, Strings) # {} => Server[k] = Latest(list, k, Strings)
    BY ServerIs
  <2>3. /\ held \in Strings =>
               Fit(list, k, Strings) # {} /\ Latest(list, k, Strings) = held
        /\ held = Nul => Pair(k, Nul) \in Range(list)
        /\ held \notin Strings \cup {Nul} => Fit(list, k, Strings) = {}
    BY <2>2, LatestOfHeld
  <2>4. held \in Strings \cup {Nul, None}
    <3>1. ec.vars.special \in [SpecialKeys -> Held \cup {None}]
      BY DEF BuilderInv, TypeOK, ContextT, Vars
    <3>2. held = ec.vars.special[k]
      BY SpecialIs
    <3> QED
      BY <3>1, <3>2 DEF Held
  <2> HIDE DEF list, held
  <2>5. CASE sc.special[k] # None
    <3>1. held \in Strings /\ sc.special[k] = held
      BY <2>1, <2>4, <2>5 DEF CStringOrNull
    <3>2. Info(k) = held
      BY <2>5, <3>1 DEF Info
    <3> QED
      BY <2>2, <2>3, <2>5, <3>1, <3>2
  <2>6. CASE sc.special[k] = None
    <3>1. held = Nul \/ held = None
      BY <2>1, <2>4, <2>6, BuilderAssumption DEF CStringOrNull
    <3>2. held = None => held \notin Strings \cup {Nul}
      BY BuilderAssumption
    <3> QED
      BY <2>2, <2>3, <2>6, <3>1, <3>2 DEF list
  <2> QED
    BY <2>5, <2>6
<1> QED
  BY <1>1, InvariantHolds, PTL

\* No header changes the method or the query string.
THEOREM LineIsKept == Spec => []RequestLineKept
<1>1. BuilderInv => RequestLineKept
  <2> SUFFICES ASSUME BuilderInv, stage = "entered", kind = "web"
               PROVE  /\ "REQUEST_METHOD" \notin later => Info("REQUEST_METHOD") = req.method
                      /\ "QUERY_STRING" \notin later => Info("QUERY_STRING") = CStringOrNull(req.query)
    BY DEF RequestLineKept
  <2>1. "REQUEST_METHOD" \in SpecialKeys /\ "QUERY_STRING" \in SpecialKeys
    BY DEF SpecialKeys
  <2>2. \A k \in SpecialKeys : sc.special[k] = CStringOrNull(ec.vars.special[k])
    BY SpecialIs
  <2>3. /\ req.method \in {"GET", "POST"}
        /\ "REQUEST_METHOD" \notin later => ec.vars.special["REQUEST_METHOD"] = req.method
        /\ "QUERY_STRING" \notin later => ec.vars.special["QUERY_STRING"] = req.query
    BY DEF BuilderInv, TypeOK, RequestT, WebContext
  <2>4. req.method # Nul /\ req.method # None
    BY <2>3, BuilderAssumption DEF Strings
  <2> QED
    BY <2>1, <2>2, <2>3, <2>4 DEF Info, CStringOrNull
<1> QED
  BY <1>1, InvariantHolds, PTL

\* The places that fit, in a list put together of two.
LEMMA FitConcat ==
    ASSUME NEW s \in Seq(PairT), NEW t \in Seq(PairT), NEW k, NEW vals
    PROVE  Fit(s \o t, k, vals) = {} <=> Fit(s, k, vals) = {} /\ Fit(t, k, vals) = {}
<1>1. s \o t \in Seq(PairT) /\ Range(s \o t) = Range(s) \cup Range(t)
  BY RangeConcat
<1> DEFINE fits(p) == p.key = k /\ p.val \in vals
<1>2. /\ Fit(s, k, vals) = {} <=> \A p \in Range(s) : ~ fits(p)
      /\ Fit(t, k, vals) = {} <=> \A p \in Range(t) : ~ fits(p)
  BY FitIn
<1>3. Fit(s \o t, k, vals) = {} <=> \A p \in Range(s \o t) : ~ fits(p)
  BY <1>1, FitIn
<1> HIDE DEF fits
<1> QED
  BY <1>1, <1>2, <1>3

\* The last INI override that PHP can hold is in effect.
THEOREM IniWins == Spec => []CallersIniWins
<1>1. BuilderInv => CallersIniWins
  <2> DEFINE given(k) == GivenAt(k, asked.ini)
  <2> SUFFICES ASSUME BuilderInv, stage = "entered",
                      NEW k \in {"display_errors", "memory_limit"}
               PROVE  IF given(k) # {} THEN IniInEffect[k] = asked.ini[Max(given(k))].val
                      ELSE (k \in DOMAIN IniInEffect) <=> (k = "display_errors" /\ kind # "raw")
    BY DEF CallersIniWins
  <2> DEFINE d == Defaults(kind)
             t == asked.ini
  <2>1. /\ d \in Seq(PairT) /\ t \in Seq(PairT)
        /\ Fit(d, "memory_limit", Strings) = {}
        /\ Fit(d, "display_errors", Strings) = {} <=> kind = "raw"
    BY DefaultsAre DEF BuilderInv, TypeOK
  <2>2. IniInEffect = Table(CStrings(d \o t))
    <3>1. ec.ini = d \o t
      BY DEF BuilderInv, ListsAsAsked
    <3>2. sc.ini = CStrings(ec.ini)
      BY DEF BuilderInv, Handed, IntoContext
    <3> QED
      BY <3>1, <3>2 DEF IniInEffect
  <2> HIDE DEF d, t
  <2>3. d \o t \in Seq(PairT)
    BY <2>1
  <2>4. /\ k \in DOMAIN IniInEffect <=> Fit(d \o t, k, Strings) # {}
        /\ Fit(d \o t, k, Strings) # {} => IniInEffect[k] = Latest(d \o t, k, Strings)
    BY <2>2, <2>3, TableOfCStrings
  <2>5. /\ Fit(d \o t, k, Strings) = {} <=> Fit(d, k, Strings) = {} /\ Fit(t, k, Strings) = {}
        /\ Fit(t, k, Strings) # {} => Latest(d \o t, k, Strings) = Latest(t, k, Strings)
    BY <2>1, FitConcat, LatestConcat
  <2>6. GivenAt(k, t) = Fit(t, k, Strings)
    BY <2>1, TableOfCStrings
  <2>7. Fit(t, k, Strings) # {} => Latest(t, k, Strings) = t[Max(Fit(t, k, Strings))].val
    BY DEF Latest
  <2>8. given(k) = GivenAt(k, t)
    BY DEF t
  <2> QED
    BY <2>1, <2>4, <2>5, <2>6, <2>7, <2>8 DEF t
<1> QED
  BY <1>1, InvariantHolds, PTL

\* getenv answers with the first value that PHP can hold.
THEOREM EnvIsFirst == Spec => []FirstEnvWins
<1>1. BuilderInv => FirstEnvWins
  <2> DEFINE t == asked.env
             k == "APP_ENV"
  <2> SUFFICES ASSUME BuilderInv, stage = "entered"
               PROVE  Getenv(k) = IF GivenAt(k, t) = {} THEN None ELSE t[Min(GivenAt(k, t))].val
    BY DEF FirstEnvWins
  <2>1. t \in Seq(PairT) /\ sc.env = CStrings(t)
    BY DEF BuilderInv, TypeOK, Handed, ListsAsAsked, IntoContext
  <2> HIDE DEF t, k
  <2> DEFINE T == Fit(t, k, Strings)
  <2>2. /\ GivenAt(k, t) = T /\ At(CStrings(t), k) = T
        /\ \A i \in T : CStrings(t)[i] = t[i]
    BY <2>1, TableOfCStrings
  <2>3. T \in SUBSET Nat
    BY <2>1, Places
  <2> HIDE DEF T
  <2>4. T # {} => Min(T) \in T
    <3> SUFFICES ASSUME T # {} PROVE Min(T) \in T
      OBVIOUS
    <3>1. PICK x \in T : \A y \in T : x <= y
      BY <2>3, LeastOfNaturals
    <3> QED
      BY <3>1 DEF Min
  <2> QED
    BY <2>1, <2>2, <2>4 DEF Getenv
<1> QED
  BY <1>1, InvariantHolds, PTL

\* A body given to the builder is described, by the caller or by build().
THEOREM BodyDescribed == Spec => []BodyIsDescribed
<1>1. BuilderInv => BodyIsDescribed
  <2> SUFFICES ASSUME BuilderInv, stage = "entered", kind = "web", later = {}
               PROVE  BodyIsDescribed
    BY DEF BodyIsDescribed
  <2> DEFINE list  == ec.vars.list
             body  == {"CONTENT_TYPE", "CONTENT_LENGTH"}
             array == Server
  <2>1. req \in RequestT /\ req.method # None /\ list = WebVars(req)
    BY DEF BuilderInv, TypeOK, WebContext
  <2>2. list \in Seq(PairT)
        /\ \A k \in body : {p \in Range(list) : p.key = k}
                          = {p \in Range(HeaderVars(req)) \cup MadeUp(req) : p.key = k}
    BY <2>1, WebVarsAre
  <2>3. \A k \in body :
           /\ k \in DOMAIN array <=> Fit(list, k, Strings) # {}
           /\ Fit(list, k, Strings) # {} => array[k] = Latest(list, k, Strings)
    BY ServerIs DEF SpecialKeys
  <2> HIDE DEF list, array
  <2>4. \A k \in body :
           /\ k \in DOMAIN array <=>
                 \E p \in Range(HeaderVars(req)) \cup MadeUp(req) : p.key = k /\ p.val \in Strings
           /\ k \in DOMAIN array =>
                 \E p \in Range(HeaderVars(req)) \cup MadeUp(req) :
                    p.key = k /\ p.val \in Strings /\ array[k] = p.val
    BY <2>2, <2>3, FitIn
  <2>5. /\ HeaderVars(req) \in Seq(PairT)
        /\ \A k \in body : {p.val : p \in {x \in Range(HeaderVars(req)) : x.key = k}} = Given(k)
    BY <2>1, HeadersAre DEF Given
  <2>6. \A p \in Range(HeaderVars(req)) : p.val \in Strings \/ p.val = Nul
    <3>1. \A p \in Range(HeaderVars(req)) : p \in PairT
      BY <2>5 DEF Range
    <3> QED
      BY <3>1 DEF PairT, Held
  <2> DEFINE length == Pair("CONTENT_LENGTH", ToString(req.body))
  <2>7. /\ OctetStream.key = "CONTENT_TYPE" /\ OctetStream.val \in Strings
        /\ req.body # 0 => /\ length.key = "CONTENT_LENGTH" /\ length.val = ToString(req.body)
                          /\ length.val \in Strings
    BY <2>1, BodyDefaultsAre
  <2>8. /\ req.body = 0 => MadeUp(req) = {}
        /\ OctetStream \in MadeUp(req) <=>
              req.body # 0 /\ ~ HasHeader(req, "CONTENT_TYPE")
        /\ length \in MadeUp(req) <=>
              req.body # 0 /\ ~ HasHeader(req, "CONTENT_LENGTH")
        /\ \A p \in MadeUp(req) : p = OctetStream \/ p = length
    <3>1. req.body # 0 => OctetStream # length
      BY <2>7
    <3> QED
      BY <3>1 DEF MadeUp
  <2>9. \A k \in body : HasHeader(req, k) => Given(k) # {}
    <3> SUFFICES ASSUME NEW k \in body, HasHeader(req, k) PROVE Given(k) # {}
      OBVIOUS
    <3>1. PICK i \in DOMAIN req.headers : req.headers[i].name = k
      BY Zenon DEF HasHeader
    <3> QED
      BY <3>1 DEF Given
  <2>10. req.body \in Nat
    BY <2>1, BodyIsNat
  <2> HIDE DEF length
  <2> DEFINE made(k) == IF k = "CONTENT_TYPE" THEN OctetStream ELSE length
  <2>11. ASSUME NEW k \in body PROVE CallersOr(array, k, made(k).val)
    <3>1. /\ made(k) \in MadeUp(req) <=> req.body # 0 /\ ~ HasHeader(req, k)
          /\ req.body # 0 => made(k).key = k /\ made(k).val \in Strings
      BY <2>7, <2>8
    <3>2. ASSUME NEW p \in MadeUp(req), p.key = k PROVE p = made(k)
      <4>1. req.body # 0
        BY <2>8
      <4> QED
        BY <2>7, <2>8, <3>2, <4>1
    <3> HIDE DEF made
    <3>3. ASSUME k \in DOMAIN array
          PROVE  \/ array[k] \in Given(k)
                 \/ req.body > 0 /\ ~ HasHeader(req, k) /\ array[k] = made(k).val
      <4>1. PICK p \in Range(HeaderVars(req)) \cup MadeUp(req) : p.key = k /\ array[k] = p.val
        BY <2>4, <3>3
      <4>2. CASE p \in Range(HeaderVars(req))
        BY <2>5, <4>1, <4>2
      <4>3. CASE p \in MadeUp(req)
        <5>1. p = made(k)
          BY <3>2, <4>1, <4>3
        <5>2. req.body # 0 /\ ~ HasHeader(req, k)
          BY <3>1, <4>3, <5>1
        <5> QED
          BY <2>10, <4>1, <5>1, <5>2
      <4> QED
        BY <4>2, <4>3
    <3>4. ASSUME k \notin DOMAIN array, req.body # 0
          PROVE  Nul \in Given(k)
      <4>1. made(k) \notin MadeUp(req)
        BY <2>4, <3>1, <3>4
      <4>2. Given(k) # {}
        BY <2>9, <3>1, <3>4, <4>1
      <4>3. PICK p \in Range(HeaderVars(req)) : p.key = k /\ p.val \in Given(k)
        BY <2>5, <4>2
      <4>4. p.val \notin Strings
        BY <2>4, <3>4, <4>3
      <4> QED
        BY <2>6, <4>3, <4>4
    <3> QED
      BY <3>3, <3>4 DEF CallersOr
  <2>12. CallersOr(array, "CONTENT_TYPE", "octet-stream")
    <3>1. made("CONTENT_TYPE").val = "octet-stream"
      BY DEF OctetStream, Pair
    <3> HIDE DEF made
    <3>2. CallersOr(array, "CONTENT_TYPE", made("CONTENT_TYPE").val)
      BY <2>11
    <3> QED
      BY <3>1, <3>2
  <2>13. CallersOr(array, "CONTENT_LENGTH", ToString(req.body))
    <3>1. made("CONTENT_LENGTH").val = ToString(req.body)
      BY DEF length, Pair
    <3> HIDE DEF made
    <3>2. CallersOr(array, "CONTENT_LENGTH", made("CONTENT_LENGTH").val)
      BY <2>11
    <3> QED
      BY <3>1, <3>2
  <2> QED
    BY <2>12, <2>13 DEF BodyIsDescribed, array
<1> QED
  BY <1>1, InvariantHolds, PTL
=============================================================================
