------------------------ MODULE HookDelivery_proofs ------------------------
(***************************************************************************)
(* What the hooks are told and what becomes of their answers, for any      *)
(* header lines, codes, priorities and bounds.                             *)
(*                                                                         *)
(* The first part is about Kept: what a filter keeps of a list, by         *)
(* induction over the list.  The library's induction theorems take the     *)
(* property as an operator; here it is the set of the numbers that have    *)
(* it, and the induction (UpTo) rests on the order of Nat being well       *)
(* founded.                                                                *)
(***************************************************************************)
EXTENDS HookDelivery, WellFoundedInduction, TLAPS

\* A set of naturals that is not empty has a least element.
LEMMA LeastOfNaturals ==
    ASSUME NEW T \in SUBSET Nat, T # {}
    PROVE  \E x \in T : \A y \in T : x <= y
<1> DEFINE Less == OpToRel(<, Nat)
<1>1. PICK x \in T : \A y \in T : ~ (<<y, x>> \in Less)
  <2>1. IsWellFoundedOn(Less, Nat)
    BY NatLessThanWellFounded
  <2> HIDE DEF Less
  <2> QED
    BY <2>1, WFMin
<1>2. ASSUME NEW y \in T PROVE x <= y
  <2>1. <<y, x>> \in Less <=> y < x
    BY DEF OpToRel
  <2>2. ~ (y < x)
    BY <1>1, <2>1
  <2> QED
    BY <2>2
<1> QED
  BY <1>2

\* Induction up to m: a set that has 0 and with n < m has n + 1.
LEMMA UpTo ==
    ASSUME NEW m \in Nat, NEW T, 0 \in T, \A n \in 0 .. (m - 1) : n \in T => n + 1 \in T
    PROVE  0 .. m \subseteq T
<1> SUFFICES ASSUME 0 .. m \ T # {} PROVE FALSE
  OBVIOUS
<1> DEFINE missing == 0 .. m \ T
<1>1. PICK x \in missing : \A y \in missing : x <= y
  BY LeastOfNaturals, missing \in SUBSET Nat, missing # {}
<1>2. x \in 0 .. m /\ x # 0 /\ x \notin T
  OBVIOUS
<1>3. x - 1 \in 0 .. (m - 1) /\ x - 1 + 1 = x
  BY <1>2
<1>4. x - 1 \notin missing
  BY <1>1, <1>3
<1>5. x - 1 \in T
  BY <1>3, <1>4
<1>6. x - 1 + 1 \in T
  BY <1>3, <1>5
<1> QED
  BY <1>2, <1>3, <1>6

\* What Kept recurses over.
Filtering(f, s, positions, m) ==
    f = [n \in 0 .. m |->
            IF n = 0 THEN <<>>
            ELSE IF n \in positions THEN Append(f[n - 1], s[n])
            ELSE f[n - 1]]

LEMMA FilteringExists ==
    ASSUME NEW s, NEW positions, NEW m \in Nat
    PROVE  \E f : Filtering(f, s, positions, m)
<1> DEFINE T == {n \in 0 .. m : \E f : Filtering(f, s, positions, n)}
<1>1. 0 \in T
  <2> DEFINE f == [n \in 0 .. 0 |-> <<>>]
  <2>1. Filtering(f, s, positions, 0)
    BY DEF Filtering
  <2> QED
    BY <2>1
<1>2. ASSUME NEW n \in 0 .. (m - 1), n \in T PROVE n + 1 \in T
  <2>1. PICK f : Filtering(f, s, positions, n)
    BY <1>2
  <2> DEFINE next == IF n + 1 \in positions THEN Append(f[n], s[n + 1]) ELSE f[n]
             h == [i \in 0 .. (n + 1) |-> IF i = n + 1 THEN next ELSE f[i]]
  <2>2. Filtering(h, s, positions, n + 1)
    <3> SUFFICES ASSUME NEW i \in 0 .. (n + 1)
                 PROVE  h[i] = IF i = 0 THEN <<>>
                               ELSE IF i \in positions THEN Append(h[i - 1], s[i])
                               ELSE h[i - 1]
      BY DEF Filtering
    <3>1. CASE i = n + 1
      BY <3>1
    <3>2. CASE i # n + 1
      <4>1. i \in 0 .. n /\ h[i] = f[i] /\ (i # 0 => h[i - 1] = f[i - 1])
        BY <3>2
      <4>2. f[i] = IF i = 0 THEN <<>>
                   ELSE IF i \in positions THEN Append(f[i - 1], s[i])
                   ELSE f[i - 1]
        BY <2>1, <4>1 DEF Filtering
      <4> QED
        BY <4>1, <4>2
    <3> QED
      BY <3>1, <3>2
  <2> QED
    BY <2>2
<1> HIDE DEF T
<1>3. 0 .. m \subseteq T
  BY <1>1, <1>2, UpTo
<1> QED
  BY <1>3 DEF T

LEMMA KeptIsLast ==
    ASSUME NEW s, NEW positions, Len(s) \in Nat
    PROVE  \E f : Filtering(f, s, positions, Len(s)) /\ Kept(s, positions) = f[Len(s)]
<1> DEFINE F == CHOOSE f : Filtering(f, s, positions, Len(s))
<1>1. Filtering(F, s, positions, Len(s))
  BY FilteringExists
<1>2. Kept(s, positions) = F[Len(s)]
  BY DEF Kept, Filtering
<1> QED
  BY <1>1, <1>2

\* One step of it.
LEMMA FilteringStep ==
    ASSUME NEW f, NEW s, NEW positions, NEW m \in Nat, Filtering(f, s, positions, m)
    PROVE  /\ f[0] = <<>>
           /\ \A n \in 0 .. (m - 1) :
                 f[n + 1] = IF n + 1 \in positions THEN Append(f[n], s[n + 1]) ELSE f[n]
<1>1. \A n \in 0 .. m :
         f[n] = IF n = 0 THEN <<>>
                ELSE IF n \in positions THEN Append(f[n - 1], s[n])
                ELSE f[n - 1]
  BY DEF Filtering
<1>2. f[0] = <<>>
  <2>1. 0 \in 0 .. m
    OBVIOUS
  <2> QED
    BY <1>1, <2>1
<1>3. ASSUME NEW n \in 0 .. (m - 1)
      PROVE  f[n + 1] = IF n + 1 \in positions THEN Append(f[n], s[n + 1]) ELSE f[n]
  <2>1. n + 1 \in 0 .. m /\ n + 1 # 0 /\ n + 1 - 1 = n
    OBVIOUS
  <2> QED
    BY <1>1, <2>1
<1> QED
  BY <1>2, <1>3

\* What is kept are elements at the positions kept, in a sequence; it is empty
\* or begins with the first of them.
LEMMA KeptElements ==
    ASSUME NEW S, NEW s \in Seq(S), NEW positions
    PROVE  LET k == Kept(s, positions)
               P == positions \cap (1 .. Len(s))
           IN  /\ k \in Seq(S)
               /\ \A j \in 1 .. Len(k) : \E i \in P : k[j] = s[i]
               /\ P = {} => k = <<>>
               /\ \A i \in P : (\A j \in P : i <= j) => Len(k) > 0 /\ k[1] = s[i]
<1> DEFINE m    == Len(s)
           P(n) == positions \cap (1 .. n)
<1>1. PICK f : Filtering(f, s, positions, m) /\ Kept(s, positions) = f[m]
  BY KeptIsLast
<1>2. /\ f[0] = <<>>
      /\ \A n \in 0 .. (m - 1) :
            f[n + 1] = IF n + 1 \in positions THEN Append(f[n], s[n + 1]) ELSE f[n]
  BY <1>1, FilteringStep
<1> DEFINE Good(n) ==
              /\ f[n] \in Seq(S)
              /\ \A j \in 1 .. Len(f[n]) : \E i \in P(n) : f[n][j] = s[i]
              /\ P(n) = {} => f[n] = <<>>
              /\ \A i \in P(n) : (\A j \in P(n) : i <= j) => Len(f[n]) > 0 /\ f[n][1] = s[i]
           T == {n \in 0 .. m : Good(n)}
<1>3. 0 \in T
  <2>1. P(0) = {} /\ 0 \in 0 .. m
    OBVIOUS
  <2>2. f[0] \in Seq(S) /\ Len(f[0]) = 0
    BY <1>2
  <2>3. Good(0)
    BY <1>2, <2>1, <2>2
  <2> QED
    BY <2>1, <2>3
<1>4. ASSUME NEW n \in 0 .. (m - 1), n \in T PROVE n + 1 \in T
  <2>1. Good(n)
    BY <1>4
  <2>2. s[n + 1] \in S
    OBVIOUS
  <2>3. CASE n + 1 \in positions
    <3>1. f[n + 1] = Append(f[n], s[n + 1])
      BY <1>2, <2>3
    <3>2. P(n + 1) = P(n) \cup {n + 1}
      BY <2>3
    <3>3. f[n + 1] \in Seq(S) /\ Len(f[n + 1]) = Len(f[n]) + 1
      BY <2>1, <2>2, <3>1
    <3>4. \A j \in 1 .. Len(f[n]) : f[n + 1][j] = f[n][j]
      BY <2>1, <2>2, <3>1
    <3>5. f[n + 1][Len(f[n]) + 1] = s[n + 1]
      BY <2>1, <2>2, <3>1
    <3>6. ASSUME NEW j \in 1 .. Len(f[n + 1]) PROVE \E i \in P(n + 1) : f[n + 1][j] = s[i]
      <4>1. CASE j = Len(f[n]) + 1
        BY <3>2, <3>5, <4>1
      <4>2. CASE j # Len(f[n]) + 1
        <5>1. j \in 1 .. Len(f[n])
          BY <2>1, <3>3, <4>2
        <5> QED
          BY <2>1, <3>2, <3>4, <5>1
      <4> QED
        BY <4>1, <4>2
    <3>7. ASSUME NEW i \in P(n + 1), \A j \in P(n + 1) : i <= j
          PROVE  Len(f[n + 1]) > 0 /\ f[n + 1][1] = s[i]
      <4>1. CASE P(n) = {}
        <5>1. i = n + 1 /\ Len(f[n]) = 0
          BY <2>1, <3>2, <4>1
        <5> QED
          BY <3>3, <3>5, <5>1
      <4>2. CASE P(n) # {}
        <5>1. PICK k \in P(n) : TRUE
          BY <4>2
        <5>2. i <= k /\ k \in 1 .. n
          BY <3>2, <3>7, <5>1
        <5>3. i \in P(n)
          BY <3>2, <5>2
        <5>4. Len(f[n]) > 0 /\ f[n][1] = s[i]
          BY <2>1, <3>2, <3>7, <5>3
        <5> QED
          BY <2>1, <3>3, <3>4, <5>4
      <4> QED
        BY <4>1, <4>2
    <3>8. P(n + 1) # {} /\ n + 1 \in 0 .. m
      BY <3>2
    <3>9. Good(n + 1)
      BY <3>3, <3>6, <3>7, <3>8
    <3> QED
      BY <3>8, <3>9
  <2>4. CASE n + 1 \notin positions
    <3>1. f[n + 1] = f[n] /\ P(n + 1) = P(n) /\ n + 1 \in 0 .. m
      BY <1>2, <2>4
    <3>2. Good(n + 1)
      BY <2>1, <3>1
    <3> QED
      BY <3>1, <3>2
  <2> QED
    BY <2>3, <2>4
<1>5. m \in T
  <2> HIDE DEF T
  <2>1. m \in Nat
    OBVIOUS
  <2>2. 0 .. m \subseteq T
    BY <1>3, <1>4, <2>1, UpTo
  <2> QED
    BY <2>1, <2>2
<1>6. Good(m)
  BY <1>5
<1> QED
  BY <1>1, <1>6

\* Two filters that treat the first m positions alike are alike up to m.
LEMMA SameSoFar ==
    ASSUME NEW s, NEW m \in Nat, NEW P, NEW Q, NEW f, NEW h, NEW a \in Nat, NEW b \in Nat,
           m <= a, m <= b,
           Filtering(f, s, P, a), Filtering(h, s, Q, b),
           P \cap (1 .. m) = Q \cap (1 .. m)
    PROVE  f[m] = h[m]
<1> DEFINE T == {n \in 0 .. m : f[n] = h[n]}
<1>1. /\ f[0] = <<>>
      /\ \A n \in 0 .. (a - 1) :
            f[n + 1] = IF n + 1 \in P THEN Append(f[n], s[n + 1]) ELSE f[n]
  BY FilteringStep
<1>2. /\ h[0] = <<>>
      /\ \A n \in 0 .. (b - 1) :
            h[n + 1] = IF n + 1 \in Q THEN Append(h[n], s[n + 1]) ELSE h[n]
  BY FilteringStep
<1>3. 0 \in T
  BY <1>1, <1>2
<1>4. ASSUME NEW n \in 0 .. (m - 1), n \in T PROVE n + 1 \in T
  <2>1. n \in 0 .. (a - 1) /\ n \in 0 .. (b - 1) /\ n + 1 \in 0 .. m
    OBVIOUS
  <2>2. n + 1 \in P <=> n + 1 \in Q
    BY n + 1 \in 1 .. m
  <2>3. f[n] = h[n]
    BY <1>4
  <2>4. f[n + 1] = h[n + 1]
    BY <1>1, <1>2, <2>1, <2>2, <2>3
  <2> QED
    BY <2>1, <2>4
<1> HIDE DEF T
<1>5. 0 .. m \subseteq T
  BY <1>3, <1>4, UpTo
<1> QED
  BY <1>5 DEF T

\* Past the last position kept nothing is added.
LEMMA NothingAfter ==
    ASSUME NEW s, NEW m \in Nat, NEW P, NEW f, NEW a \in Nat, m <= a,
           Filtering(f, s, P, a), P \cap ((m + 1) .. a) = {}
    PROVE  f[a] = f[m]
<1> DEFINE T == {n \in Nat : m + n <= a => f[m + n] = f[m]}
<1>1. \A n \in 0 .. (a - 1) :
         f[n + 1] = IF n + 1 \in P THEN Append(f[n], s[n + 1]) ELSE f[n]
  BY FilteringStep
<1>2. 0 \in T
  BY m + 0 = m
<1>3. ASSUME NEW n \in 0 .. (a - m - 1), n \in T PROVE n + 1 \in T
  <2>1. f[m + n] = f[m]
    BY <1>3
  <2>2. m + n \in 0 .. (a - 1) /\ m + n + 1 \notin P /\ m + (n + 1) = m + n + 1
    OBVIOUS
  <2>3. f[m + n + 1] = f[m + n]
    BY <1>1, <2>2
  <2> QED
    BY <2>1, <2>2, <2>3
<1>4. a - m \in Nat
  OBVIOUS
<1>5. a - m \in T
  <2> HIDE DEF T
  <2>1. 0 .. (a - m) \subseteq T
    BY <1>2, <1>3, <1>4, UpTo
  <2> QED
    BY <1>4, <2>1
<1>6. m + (a - m) = a
  OBVIOUS
<1> QED
  BY <1>4, <1>5, <1>6

\* The filter goes from front to back.
LEMMA KeptNext ==
    ASSUME NEW S, NEW s \in Seq(S), NEW m \in Nat, m < Len(s), NEW P, P \subseteq 1 .. m
    PROVE  Kept(s, P \cup {m + 1}) = Append(Kept(s, P), s[m + 1])
<1> DEFINE a == Len(s)
           Q == P \cup {m + 1}
<1>1. PICK f : Filtering(f, s, P, a) /\ Kept(s, P) = f[a]
  BY KeptIsLast
<1>2. PICK h : Filtering(h, s, Q, a) /\ Kept(s, Q) = h[a]
  BY KeptIsLast
<1>3. a \in Nat /\ m + 1 \in Nat /\ m <= a /\ m + 1 <= a
      /\ P \subseteq 1 .. m /\ Q \subseteq 1 .. (m + 1) /\ P \cap (1 .. m) = Q \cap (1 .. m)
  OBVIOUS
<1> HIDE DEF a, Q
<1>4. f[a] = f[m]
  <2>1. m \in Nat /\ a \in Nat /\ m <= a /\ Filtering(f, s, P, a) /\ P \cap ((m + 1) .. a) = {}
    BY <1>1, <1>3
  <2> QED
    BY <2>1, NothingAfter
<1>5. h[a] = h[m + 1]
  <2> DEFINE k == m + 1
  <2>1. k \in Nat /\ a \in Nat /\ k <= a /\ Filtering(h, s, Q, a) /\ Q \cap ((k + 1) .. a) = {}
    BY <1>2, <1>3
  <2> HIDE DEF k
  <2>2. h[a] = h[k]
    BY <2>1, NothingAfter
  <2> QED
    BY <2>2 DEF k
<1>6. f[m] = h[m]
  BY <1>1, <1>2, <1>3, SameSoFar
<1>7. h[m + 1] = Append(h[m], s[m + 1])
  <2>1. m \in 0 .. (a - 1) /\ m + 1 \in Q
    BY <1>3 DEF Q
  <2> QED
    BY <1>2, <1>3, <2>1, FilteringStep
<1> QED
  BY <1>1, <1>2, <1>4, <1>5, <1>6, <1>7 DEF Q

\* A filter that keeps everything changes nothing.
LEMMA KeptAll ==
    ASSUME NEW S, NEW s \in Seq(S)
    PROVE  Kept(s, 1 .. Len(s)) = s
<1> DEFINE m == Len(s)
           T == {n \in 0 .. m : Kept(s, 1 .. n) = SubSeq(s, 1, n)}
<1>1. 0 \in T
  <2>1. 1 .. 0 = {} /\ SubSeq(s, 1, 0) = <<>>
    OBVIOUS
  <2>2. (1 .. 0) \cap (1 .. Len(s)) = {}
    OBVIOUS
  <2>3. Kept(s, 1 .. 0) = <<>>
    BY <2>2, KeptElements
  <2>4. Kept(s, 1 .. 0) = SubSeq(s, 1, 0)
    BY <2>1, <2>3, Zenon
  <2>5. 0 \in 0 .. m
    OBVIOUS
  <2> QED
    BY <2>4, <2>5
<1>2. ASSUME NEW n \in 0 .. (m - 1), n \in T PROVE n + 1 \in T
  <2>1. 1 .. (n + 1) = (1 .. n) \cup {n + 1} /\ n \in Nat /\ n < m
    OBVIOUS
  <2>2. Kept(s, 1 .. (n + 1)) = Append(SubSeq(s, 1, n), s[n + 1])
    BY <1>2, <2>1, KeptNext
  <2>3. Append(SubSeq(s, 1, n), s[n + 1]) = SubSeq(s, 1, n + 1)
    OBVIOUS
  <2> QED
    BY <2>2, <2>3
<1>3. m \in Nat /\ SubSeq(s, 1, m) = s
  OBVIOUS
<1> HIDE DEF T
<1>4. 0 .. m \subseteq T
  BY <1>1, <1>2, <1>3, UpTo
<1> QED
  BY <1>3, <1>4 DEF T

-----------------------------------------------------------------------------
(* The inductive invariant. *)

\* Before and after the request was closed, and what comes later still.
Opening == {"idle", "created", "starting", "startup", "started", "executing",
            "script", "executed", "finishing", "shutdown"}
Closed  == {"headers", "status", "messages", "output", "finished", "ok"}
Failed  == {"rejected", "startup_failed", "panicked"}

Header == {Listed(n, line) : n \in 1 .. MaxHeaders, line \in Lines}

\* What PHP said, and that it still holds the headers and the code.
Words ==
    /\ said = [out |-> said.out, hdrs |-> said.hdrs, code |-> said.code, logs |-> said.logs]
    /\ said.hdrs \in Seq(Header) /\ said.code \in Nat /\ said.logs \in Seq(RawLevels)
    /\ said.out \in Seq({Call} \X Nat)
    /\ said.out = [i \in 1 .. Len(said.out) |-> <<Call, i>>]
    /\ g = [code |-> g.code, hdrs |-> g.hdrs, headersSent |-> g.headersSent]
    /\ g.code = said.code /\ g.hdrs = said.hdrs /\ g.headersSent \in BOOLEAN

Messages == [i \in 1 .. Len(said.logs) |-> FromSyslog(said.logs[i], i)]

\* A context has all its fields.
IsContext(x) ==
    x = [status |-> x.status, post |-> x.post, pos |-> x.pos, out |-> x.out,
         messages |-> x.messages, headers |-> x.headers, streaming |-> x.streaming]

\* What of it is in the context.
InContext ==
    /\ IsContext(ctx) /\ ~ctx.streaming
    /\ ctx.out = said.out /\ ctx.messages = Messages
    /\ g.headersSent => /\ ctx.headers = ParsedHeaders(said.hdrs)
                        /\ ctx.status  = ClampStatus(said.code)
    /\ pc \in Closed => g.headersSent

\* The calls of on_header so far are about the first headers of the context.
Answers   == told["on_header"]
LetPass   == {i \in 1 .. Len(Answers) : Answers[i].answer}
HeadersTold ==
    /\ pc \in Opening \/ (pc \in Closed /\ kind = "noop") => Answers = <<>>
    /\ pc \in Closed /\ kind # "noop" =>
          /\ Answers \in Seq([arg : Header, answer : BOOLEAN])
          /\ Len(Answers) <= Len(ctx.headers)
          /\ \A i \in 1 .. Len(Answers) : Answers[i].arg = ctx.headers[i]
          /\ pc # "headers" => Len(Answers) = Len(ctx.headers)

\* The other hooks with something to tell.
Logged == told["on_php_message"]
RestTold ==
    /\ pc \in Opening \cup {"headers", "status"} => told["on_status"] = <<>>
    /\ pc \in {"messages", "output", "finished", "ok"} =>
          told["on_status"] = <<[arg |-> ctx.status, answer |-> ""]>>
    /\ pc \in Opening \cup Closed =>
          /\ Len(Logged) \in 0 .. Len(said.logs)
          /\ Logged = [i \in 1 .. Len(Logged) |-> [arg |-> Messages[i], answer |-> ""]]
    /\ pc \in Opening \cup {"headers", "status"} => Logged = <<>>
    /\ pc \in {"output", "finished", "ok"} => Len(Logged) = Len(said.logs)
    /\ pc \in Opening \cup (Closed \ {"finished", "ok"}) => told["on_output"] = <<>>
    /\ pc \in {"finished", "ok"} => \E action \in {"Continue", "Done"} :
          /\ told["on_output"] = <<[arg |-> said.out, answer |-> action]>>
          /\ result.body = IF action = "Done" THEN <<>> ELSE said.out
    /\ pc \in Opening \cup (Closed \ {"ok"}) => told["on_request_finished"] = <<>>
    /\ pc = "ok" => told["on_request_finished"] = <<[arg |-> result, answer |-> ""]>>

\* A result has all its fields.
IsResult(r) ==
    r = [status |-> r.status, body |-> r.body, headers |-> r.headers,
         messages |-> r.messages]

\* The result as far as it has come.
Reported ==
    /\ pc \in Opening \cup Failed => result = NoResult
    /\ pc \in {"headers", "status", "messages", "output"} => IsResult(result)
    /\ pc \in {"finished", "ok"} => result = IntoResult(ctx, result.body, result.headers)
    /\ pc \in Closed => result.headers =
          IF kind # "noop" THEN Kept(ctx.headers, LetPass)
          ELSE IF pc = "headers" THEN <<>> ELSE ctx.headers

HInv ==
    /\ pc \in Opening \cup Closed \cup Failed
    /\ kind \in Kinds
    /\ DOMAIN told = Hooks
    /\ Words
    /\ InContext
    /\ HeadersTold
    /\ RestTold
    /\ Reported
-----------------------------------------------------------------------------
(* It is inductive. *)

LEMMA HeaderShape ==
    ASSUME NEW h \in Header
    PROVE  h.wellFormed \in BOOLEAN
<1>1. PICK n \in 1 .. MaxHeaders, line \in Lines : h = Listed(n, line)
  BY DEF Header
<1> QED
  BY <1>1 DEF Listed

\* What send_headers lists are headers the script set that parse.
LEMMA ParsedAreSet ==
    ASSUME NEW hdrs \in Seq(Header)
    PROVE  /\ ParsedHeaders(hdrs) \in Seq(Header)
           /\ \A j \in 1 .. Len(ParsedHeaders(hdrs)) : \E i \in 1 .. Len(hdrs) :
                 hdrs[i].wellFormed /\ ParsedHeaders(hdrs)[j] = hdrs[i]
<1> DEFINE P == {i \in DOMAIN hdrs : hdrs[i].wellFormed}
<1>1. ParsedHeaders(hdrs) = Kept(hdrs, P)
  BY DEF ParsedHeaders
<1> HIDE DEF P
<1>2. /\ Kept(hdrs, P) \in Seq(Header)
      /\ \A j \in 1 .. Len(Kept(hdrs, P)) :
            \E i \in P \cap (1 .. Len(hdrs)) : Kept(hdrs, P)[j] = hdrs[i]
  BY KeptElements
<1>3. \A i \in P \cap (1 .. Len(hdrs)) : i \in 1 .. Len(hdrs) /\ hdrs[i].wellFormed
  BY DEF P
<1> QED
  BY <1>1, <1>2, <1>3

LEMMA InitHolds == Init => HInv
<1> SUFFICES ASSUME Init PROVE HInv
  OBVIOUS
<1>1. Words
  BY DEF Init, Words, Quiet
<1>2. InContext
  <2>1. IsContext(ctx)
    BY DEF Init, IsContext, NewContext
  <2>2. ~ctx.streaming /\ ctx.out = <<>> /\ ctx.messages = <<>>
    BY DEF Init, NewContext
  <2>3. said.out = <<>> /\ said.logs = <<>>
    BY DEF Init, Quiet
  <2>4. Messages = <<>>
    BY <2>3 DEF Messages
  <2>5. ~g.headersSent /\ pc \notin Closed
    BY DEF Init, Closed
  <2> QED
    BY <2>1, <2>2, <2>3, <2>4, <2>5 DEF InContext
<1>3. HeadersTold
  BY DEF Init, HeadersTold, Answers, Hooks, Closed
<1>4. RestTold
  BY DEF Init, RestTold, Logged, Hooks, Opening, Closed, Quiet
<1>5. Reported
  BY DEF Init, Reported, Opening, Closed, Failed
<1> QED
  BY <1>1, <1>2, <1>3, <1>4, <1>5 DEF Init, HInv, Opening

\* The operations of ServerContext and SapiCallbacks, field by field.
LEMMA Ensured ==
    ASSUME NEW x, IsContext(x), NEW e
    PROVE  LET y == EnsureHeaders(x, e)
           IN  /\ IsContext(y) /\ y.out = x.out /\ y.messages = x.messages
               /\ y.streaming = x.streaming
               /\ e.headersSent => y = x
               /\ ~e.headersSent =>
                    y.headers = ParsedHeaders(e.hdrs) /\ y.status = ClampStatus(e.code)
BY DEF IsContext, EnsureHeaders, SendHeaders, SetStatus

LEMMA Noted ==
    ASSUME NEW x, IsContext(x), NEW m
    PROVE  LET y == LogMessage(x, m)
           IN  /\ IsContext(y) /\ y.messages = Append(x.messages, m)
               /\ y.headers = x.headers /\ y.status = x.status
               /\ y.out = x.out /\ y.streaming = x.streaming
BY DEF IsContext, LogMessage, AddMessage

LEMMA Wrote ==
    ASSUME NEW x, IsContext(x), ~x.streaming, NEW data
    PROVE  LET y == WriteOutput(x, data)
           IN  /\ IsContext(y) /\ y.out = x.out \o data
               /\ y.headers = x.headers /\ y.status = x.status
               /\ y.messages = x.messages /\ y.streaming = x.streaming
BY DEF IsContext, WriteOutput

\* A sequence is the function of its elements.
LEMMA Elements ==
    ASSUME NEW S, NEW s \in Seq(S)
    PROVE  s = [i \in 1 .. Len(s) |-> s[i]]
OBVIOUS

\* A step that leaves what PHP said and the context alone.
LEMMA WordsStay ==
    ASSUME HInv, UNCHANGED <<ctx, g, said>>, pc' \in Closed => pc \in Closed
    PROVE  Words' /\ InContext' /\ Messages' = Messages
BY DEF HInv, Words, InContext, Messages

\* A step before the request is closed, or out of the call.
LEMMA OpeningStep ==
    ASSUME HInv, pc \in Opening, pc' \in Opening \/ pc' \in Failed,
           UNCHANGED <<kind, ctx, g, said, result>>, DOMAIN told' = Hooks,
           \A h \in {"on_header", "on_status", "on_php_message", "on_output",
                     "on_request_finished"} : told'[h] = told[h]
    PROVE  HInv'
<1>1. pc' \notin Closed
  BY DEF Opening, Failed, Closed
<1>2. Words' /\ InContext' /\ Messages' = Messages
  BY <1>1, WordsStay
<1>3. HeadersTold'
  BY <1>1 DEF HInv, HeadersTold, Answers, Opening, Failed
<1>4. RestTold'
  <2>1. Len(Logged) \in 0 .. Len(said.logs)
        /\ Logged = [i \in 1 .. Len(Logged) |-> [arg |-> Messages[i], answer |-> ""]]
    BY DEF HInv, RestTold
  <2>2. Logged' = Logged /\ said'.logs = said.logs
    BY DEF Logged
  <2>3. /\ Len(Logged') \in 0 .. Len(said'.logs)
        /\ Logged' = [i \in 1 .. Len(Logged') |-> [arg |-> Messages'[i], answer |-> ""]]
    BY <1>2, <2>1, <2>2
  <2>4. told["on_status"] = <<>> /\ Logged = <<>> /\ told["on_output"] = <<>>
        /\ told["on_request_finished"] = <<>>
    BY DEF HInv, RestTold
  <2> QED
    BY <1>1, <2>2, <2>3, <2>4 DEF RestTold, Closed
<1>5. Reported'
  BY <1>1 DEF HInv, Reported, Closed
<1> QED
  BY <1>2, <1>3, <1>4, <1>5 DEF HInv

\* A hook's panic, and the end without an answer.
LEMMA FailingStep ==
    ASSUME HInv, pc' \in Failed, UNCHANGED <<kind, told, ctx, g, said>>, result' = NoResult
    PROVE  HInv'
<1>1. pc' \notin Closed /\ pc' \notin Opening
  BY DEF Opening, Failed, Closed
<1>2. Words' /\ InContext'
  BY <1>1, WordsStay
<1>3. HeadersTold' /\ Reported'
  BY <1>1 DEF HeadersTold, Reported, Closed
<1>4. RestTold'
  BY <1>1 DEF RestTold, Opening, Closed
<1> QED
  BY <1>2, <1>3, <1>4 DEF HInv

\* The hooks that are told nothing the properties are about.
LEMMA PlainKeeps ==
    ASSUME HInv, OnContextCreated \/ OnRequestStarting \/ OnRequestStarted
                 \/ OnScriptExecuting \/ OnScriptExecuted \/ OnRequestFinishing
    PROVE  HInv'
<1>1. PICK from, to, h, a :
         /\ Plain(from, to, h, a)
         /\ from \in Opening /\ to \in Opening
         /\ h \in {"on_context_created", "on_request_starting", "on_request_started",
                   "on_script_executing", "on_script_executed", "on_request_finishing"}
  <2>1. CASE OnContextCreated
    BY <2>1 DEF OnContextCreated, Opening
  <2>2. CASE OnRequestStarting
    BY <2>2 DEF OnRequestStarting, Opening
  <2>3. CASE OnRequestStarted
    BY <2>3 DEF OnRequestStarted, Opening
  <2>4. CASE OnScriptExecuting
    BY <2>4 DEF OnScriptExecuting, Opening
  <2>5. CASE OnScriptExecuted
    BY <2>5 DEF OnScriptExecuted, Opening
  <2>6. CASE OnRequestFinishing
    BY <2>6 DEF OnRequestFinishing, Opening
  <2> QED
    BY <2>1, <2>2, <2>3, <2>4, <2>5, <2>6
<1>2. /\ pc \in Opening /\ pc' \in Opening
      /\ UNCHANGED <<kind, ctx, g, said, result>>
  BY <1>1 DEF Plain, Goto
<1>3. /\ DOMAIN told' = Hooks
      /\ \A k \in {"on_header", "on_status", "on_php_message", "on_output",
                   "on_request_finished"} : told'[k] = told[k]
  <2>1. told' = [told EXCEPT ![h] = Append(told[h], [arg |-> a, answer |-> ""])]
    BY <1>1 DEF Plain, Tell
  <2>2. DOMAIN told = Hooks
    BY DEF HInv
  <2>3. ASSUME NEW k \in {"on_header", "on_status", "on_php_message", "on_output",
                         "on_request_finished"}
        PROVE  told'[k] = told[k]
    BY <1>1, <2>1, <2>2 DEF Hooks
  <2> QED
    BY <2>1, <2>2, <2>3
<1> QED
  BY <1>2, <1>3, OpeningStep

LEMMA QuietKeeps ==
    ASSUME HInv, Start \/ StartupOk \/ StartupFails \/ ScriptEnds
    PROVE  HInv'
<1>1. /\ pc \in Opening /\ (pc' \in Opening \/ pc' \in Failed)
      /\ UNCHANGED <<kind, told, ctx, g, said, result>>
  BY DEF Start, StartupOk, StartupFails, ScriptEnds, Goto, Opening, Failed
<1>2. DOMAIN told' = Hooks
  BY <1>1 DEF HInv
<1> QED
  BY <1>1, <1>2, OpeningStep

LEMMA PanicKeeps ==
    ASSUME HInv, HookPanics PROVE HInv'
BY FailingStep DEF HookPanics, Failed

\* A step in which PHP says something or closes the request.
LEMMA SpeechStep ==
    ASSUME HInv, pc \in Opening, pc' \in Opening \/ pc' = "headers",
           UNCHANGED <<kind, told, result>>, Words', InContext'
    PROVE  HInv'
<1>1. /\ pc' \in Opening \cup {"headers"} /\ pc' \notin Failed
      /\ pc' \in Opening \cup Closed \cup Failed
      /\ pc' \in Closed => pc' = "headers"
  BY DEF Opening, Failed, Closed
<1>2. Answers' = <<>> /\ Logged' = <<>>
  BY DEF HInv, HeadersTold, RestTold, Answers, Logged
<1>3. pc' = "headers" => ctx'.headers \in Seq(Header)
  <2>1. said'.hdrs \in Seq(Header)
    BY DEF Words
  <2>2. ParsedHeaders(said'.hdrs) \in Seq(Header)
    BY <2>1, ParsedAreSet
  <2> QED
    BY <2>2 DEF InContext, Closed
<1>4. HeadersTold'
  <2>1. pc' = "headers" => Len(ctx'.headers) \in Nat
    BY <1>3
  <2> QED
    BY <1>1, <1>2, <2>1 DEF HeadersTold
<1>5. RestTold'
  <2>1. told["on_status"] = <<>> /\ told["on_output"] = <<>>
        /\ told["on_request_finished"] = <<>>
    BY DEF HInv, RestTold
  <2>2. Len(said'.logs) \in Nat
    BY DEF Words
  <2>3. /\ Len(Logged') \in 0 .. Len(said'.logs)
        /\ Logged' = [i \in 1 .. Len(Logged') |-> [arg |-> Messages'[i], answer |-> ""]]
    BY <1>2, <2>2
  <2> QED
    BY <1>1, <1>2, <2>1, <2>3 DEF RestTold, Opening
<1>6. Reported'
  <2>1. result = NoResult
    BY DEF HInv, Reported
  <2>2. NoResult = [status |-> 200, body |-> <<>>, headers |-> <<>>, messages |-> <<>>]
    BY DEF NoResult, IntoResult, NewContext
  <2>3. IsResult(result) /\ result.headers = <<>>
    BY <2>1, <2>2 DEF IsResult
  <2>4. pc' = "headers" => Kept(ctx'.headers, LetPass') = <<>>
    <3>1. LetPass' = {}
      BY <1>2 DEF LetPass
    <3> QED
      BY <1>3, <3>1, KeptElements
  <2> QED
    BY <1>1, <2>1, <2>3, <2>4 DEF Reported, Opening
<1> QED
  BY <1>1, <1>4, <1>5, <1>6 DEF HInv

\* What send_headers makes of the context.
LEMMA HeadersSent ==
    ASSUME HInv
    PROVE  LET y == EnsureHeaders(ctx, g)
           IN  /\ IsContext(y) /\ ~y.streaming /\ y.out = said.out /\ y.messages = Messages
               /\ y.headers = ParsedHeaders(said.hdrs) /\ y.status = ClampStatus(said.code)
<1>1. /\ IsContext(ctx) /\ ~ctx.streaming
      /\ ctx.out = said.out /\ ctx.messages = Messages
      /\ g.headersSent => /\ ctx.headers = ParsedHeaders(said.hdrs)
                          /\ ctx.status  = ClampStatus(said.code)
  BY DEF HInv, InContext
<1>2. g.code = said.code /\ g.hdrs = said.hdrs
  BY DEF HInv, Words
<1> DEFINE y == EnsureHeaders(ctx, g)
<1>3. /\ IsContext(y) /\ y.out = ctx.out /\ y.messages = ctx.messages
      /\ y.streaming = ctx.streaming
      /\ g.headersSent => y = ctx
      /\ ~g.headersSent =>
           y.headers = ParsedHeaders(g.hdrs) /\ y.status = ClampStatus(g.code)
  BY <1>1, Ensured
<1> HIDE DEF y, Messages
<1>4. y.headers = ParsedHeaders(said.hdrs) /\ y.status = ClampStatus(said.code)
  BY <1>1, <1>2, <1>3
<1>5. IsContext(y) /\ ~y.streaming /\ y.out = said.out /\ y.messages = Messages
  BY <1>1, <1>3
<1> QED
  BY <1>4, <1>5 DEF y

\* The engine's flag is raised once the headers are out.
LEMMA Raised ==
    ASSUME HInv, g' = [g EXCEPT !.headersSent = TRUE]
    PROVE  /\ g' = [code |-> g'.code, hdrs |-> g'.hdrs, headersSent |-> g'.headersSent]
           /\ g'.code = said.code /\ g'.hdrs = said.hdrs /\ g'.headersSent = TRUE
<1>1. /\ g = [code |-> g.code, hdrs |-> g.hdrs, headersSent |-> g.headersSent]
      /\ g.code = said.code /\ g.hdrs = said.hdrs
  BY DEF HInv, Words
<1> DEFINE sent == TRUE
<1>2. g' = [g EXCEPT !.headersSent = sent] /\ sent
  OBVIOUS
<1> HIDE DEF sent
<1>3. g' = [code |-> g.code, hdrs |-> g.hdrs, headersSent |-> sent]
  BY <1>1, <1>2
<1> QED
  BY <1>1, <1>2, <1>3

LEMMA ShutdownEndsKeeps ==
    ASSUME HInv, ShutdownEnds PROVE HInv'
<1>1. /\ pc = "shutdown" /\ pc' = "headers" /\ ctx' = EnsureHeaders(ctx, g)
      /\ g' = [g EXCEPT !.headersSent = TRUE]
      /\ UNCHANGED <<kind, told, said, result>>
  BY DEF ShutdownEnds, Goto
<1>2. Words'
  BY <1>1, Raised DEF HInv, Words
<1>3. InContext'
  <2>1. Messages' = Messages
    BY <1>1 DEF Messages
  <2> QED
    BY <1>1, <2>1, HeadersSent, Raised DEF InContext
<1> QED
  BY <1>1, <1>2, <1>3, SpeechStep DEF Opening

LEMMA FlushKeeps ==
    ASSUME HInv, PhpFlushes PROVE HInv'
<1>1. /\ pc \in {"script", "shutdown"} /\ pc' = pc /\ ctx' = EnsureHeaders(ctx, g)
      /\ g' = [g EXCEPT !.headersSent = TRUE]
      /\ UNCHANGED <<kind, told, said, result>>
  BY DEF PhpFlushes, Flush
<1>2. Words'
  BY <1>1, Raised DEF HInv, Words
<1>3. InContext'
  <2>1. Messages' = Messages
    BY <1>1 DEF Messages
  <2> QED
    BY <1>1, <2>1, HeadersSent, Raised DEF InContext
<1> QED
  BY <1>1, <1>2, <1>3, SpeechStep DEF Opening

LEMMA WriteKeeps ==
    ASSUME HInv, Write PROVE HInv'
<1> DEFINE n     == Len(said.out) + 1
           piece == <<Call, n>>
<1>1. /\ pc \in {"script", "shutdown"} /\ pc' = pc
      /\ said' = [said EXCEPT !.out = Append(said.out, piece)]
      /\ ctx' = UbWrite(ctx, g, <<piece>>)
      /\ g' = [g EXCEPT !.headersSent = TRUE]
      /\ UNCHANGED <<kind, told, result>>
  BY DEF Write
<1>2. /\ said.out \in Seq({Call} \X Nat)
      /\ said.out = [i \in 1 .. Len(said.out) |-> <<Call, i>>]
      /\ said = [out |-> said.out, hdrs |-> said.hdrs, code |-> said.code,
                 logs |-> said.logs]
  BY DEF HInv, Words
<1>3. n \in Nat /\ piece \in {Call} \X Nat /\ Len(said.out) \in Nat
  BY <1>2
<1> HIDE DEF piece
<1>4. said' = [out |-> Append(said.out, piece), hdrs |-> said.hdrs, code |-> said.code,
               logs |-> said.logs]
  BY <1>1, <1>2
<1>5. said'.out = Append(said.out, piece) /\ said'.hdrs = said.hdrs
      /\ said'.code = said.code /\ said'.logs = said.logs
  BY <1>4
<1>6. Append(said.out, piece) \in Seq({Call} \X Nat) /\ Len(Append(said.out, piece)) = n
  BY <1>2, <1>3
<1>7. Append(said.out, piece) = [i \in 1 .. n |-> <<Call, i>>]
  <2>1. ASSUME NEW i \in 1 .. n PROVE Append(said.out, piece)[i] = <<Call, i>>
    <3>1. CASE i = n
      BY <1>2, <1>3, <3>1 DEF piece
    <3>2. CASE i # n
      <4>1. i \in 1 .. Len(said.out)
        BY <1>3, <3>2
      <4>2. said.out[i] = <<Call, i>>
        BY <1>2, <4>1
      <4> QED
        BY <1>2, <1>3, <4>1, <4>2
    <3> QED
      BY <3>1, <3>2
  <2>2. Append(said.out, piece) = [i \in 1 .. n |-> Append(said.out, piece)[i]]
    BY <1>6, Elements
  <2> QED
    BY <2>1, <2>2
<1>8. Words'
  <2>1. said.hdrs \in Seq(Header) /\ said.code \in Nat /\ said.logs \in Seq(RawLevels)
    BY DEF HInv, Words
  <2>2. /\ g' = [code |-> g'.code, hdrs |-> g'.hdrs, headersSent |-> g'.headersSent]
        /\ g'.code = said.code /\ g'.hdrs = said.hdrs /\ g'.headersSent = TRUE
    BY <1>1, Raised
  <2> QED
    BY <1>4, <1>5, <1>6, <1>7, <2>1, <2>2 DEF Words
<1>9. InContext'
  <2>1. Messages' = Messages
    BY <1>5 DEF Messages
  <2>2. <<piece>> # <<>>
    OBVIOUS
  <2> DEFINE y == EnsureHeaders(ctx, g)
  <2>3. /\ IsContext(y) /\ ~y.streaming /\ y.out = said.out /\ y.messages = Messages
        /\ y.headers = ParsedHeaders(said.hdrs) /\ y.status = ClampStatus(said.code)
    BY HeadersSent
  <2>4. ctx' = WriteOutput(y, <<piece>>)
    BY <1>1, <2>2 DEF UbWrite
  <2> HIDE DEF y
  <2>5. /\ IsContext(ctx') /\ ctx'.out = y.out \o <<piece>>
        /\ ctx'.headers = y.headers /\ ctx'.status = y.status
        /\ ctx'.messages = y.messages /\ ctx'.streaming = y.streaming
    BY <2>3, <2>4, Wrote
  <2>6. said.out \o <<piece>> = Append(said.out, piece)
    BY <1>2, <1>3
  <2>7. ctx'.out = Append(said.out, piece)
    BY <2>3, <2>5, <2>6
  <2>8. g'.headersSent
    BY <1>1, Raised
  <2> QED
    BY <1>5, <2>1, <2>3, <2>5, <2>7, <2>8 DEF InContext
<1> QED
  BY <1>1, <1>8, <1>9, SpeechStep DEF Opening

LEMMA SetHeaderKeeps ==
    ASSUME HInv, NEW line \in Lines, SetHeader(line) PROVE HInv'
<1> DEFINE n == Len(said.hdrs) + 1
           h == Listed(n, line)
<1>1. /\ pc \in {"script", "shutdown"} /\ pc' = pc /\ ~g.headersSent
      /\ Len(said.hdrs) < MaxHeaders
      /\ said' = [said EXCEPT !.hdrs = Append(said.hdrs, h)]
      /\ g' = [g EXCEPT !.hdrs = Append(g.hdrs, h)]
      /\ UNCHANGED <<kind, told, ctx, result>>
  BY DEF SetHeader
<1>2. /\ said = [out |-> said.out, hdrs |-> said.hdrs, code |-> said.code,
                 logs |-> said.logs]
      /\ said.hdrs \in Seq(Header)
      /\ g = [code |-> g.code, hdrs |-> g.hdrs, headersSent |-> g.headersSent]
      /\ g.code = said.code /\ g.hdrs = said.hdrs /\ g.headersSent \in BOOLEAN
  BY DEF HInv, Words
<1>3. h \in Header
  <2>1. n \in 1 .. MaxHeaders
    BY <1>1, <1>2, HookBounds
  <2> QED
    BY <2>1 DEF Header
<1> HIDE DEF h
<1>4. said' = [out |-> said.out, hdrs |-> Append(said.hdrs, h), code |-> said.code,
               logs |-> said.logs]
  BY <1>1, <1>2
<1>5. /\ g' = [code |-> g'.code, hdrs |-> g'.hdrs, headersSent |-> g'.headersSent]
      /\ g'.code = said.code /\ g'.hdrs = Append(said.hdrs, h)
      /\ g'.headersSent = g.headersSent
  BY <1>1, <1>2
<1>6. Append(said.hdrs, h) \in Seq(Header)
  BY <1>2, <1>3
<1>7. Words'
  BY <1>4, <1>5, <1>6 DEF HInv, Words
<1>8. InContext'
  <2>1. Messages' = Messages /\ said'.out = said.out
    BY <1>4 DEF Messages
  <2>2. ~g'.headersSent
    BY <1>1, <1>5
  <2>3. pc' \notin Closed
    BY <1>1 DEF Closed
  <2> QED
    BY <1>1, <2>1, <2>2, <2>3 DEF HInv, InContext
<1> QED
  BY <1>1, <1>7, <1>8, SpeechStep DEF Opening

LEMMA SetCodeKeeps ==
    ASSUME HInv, NEW code \in Codes, SetCode(code) PROVE HInv'
<1>1. /\ pc \in {"script", "shutdown"} /\ pc' = pc /\ ~g.headersSent
      /\ said' = [said EXCEPT !.code = code] /\ g' = [g EXCEPT !.code = code]
      /\ UNCHANGED <<kind, told, ctx, result>>
  BY DEF SetCode
<1>2. /\ said' = [out |-> said.out, hdrs |-> said.hdrs, code |-> code, logs |-> said.logs]
      /\ g' = [code |-> g'.code, hdrs |-> g'.hdrs, headersSent |-> g'.headersSent]
      /\ g'.code = code /\ g'.hdrs = said.hdrs /\ g'.headersSent = g.headersSent
  BY <1>1 DEF HInv, Words
<1>3. Words'
  BY <1>2, HookBounds DEF HInv, Words
<1>4. InContext'
  <2>1. Messages' = Messages /\ said'.out = said.out /\ ~g'.headersSent
    BY <1>1, <1>2 DEF Messages
  <2>2. pc' \notin Closed
    BY <1>1 DEF Closed
  <2> QED
    BY <1>1, <2>1, <2>2 DEF HInv, InContext
<1> QED
  BY <1>1, <1>3, <1>4, SpeechStep DEF Opening

LEMMA LogKeeps ==
    ASSUME HInv, NEW raw \in RawLevels, Log(raw) PROVE HInv'
<1> DEFINE n == Len(said.logs) + 1
           m == FromSyslog(raw, n)
<1>1. /\ pc \in EnginePcs /\ pc' = pc
      /\ said' = [said EXCEPT !.logs = Append(said.logs, raw)]
      /\ ctx' = LogMessage(ctx, m)
      /\ UNCHANGED <<kind, told, g, result>>
  BY DEF Log
<1>2. said.logs \in Seq(RawLevels)
  BY DEF HInv, Words
<1>3. said' = [out |-> said.out, hdrs |-> said.hdrs, code |-> said.code,
               logs |-> Append(said.logs, raw)]
  BY <1>1 DEF HInv, Words
<1>4. Words'
  <2>1. Append(said.logs, raw) \in Seq(RawLevels)
    BY <1>2
  <2> QED
    BY <1>1, <1>3, <2>1 DEF HInv, Words
<1>5. Messages' = Append(Messages, m)
  <2>1. Messages' = [i \in 1 .. Len(Append(said.logs, raw)) |->
                        FromSyslog(Append(said.logs, raw)[i], i)]
    BY <1>3 DEF Messages
  <2>2. Len(Append(said.logs, raw)) = n /\ n \in Nat /\ n - 1 = Len(said.logs)
    BY <1>2
  <2>3. Messages \in Seq({FromSyslog(r, i) : r \in RawLevels, i \in 1 .. Len(said.logs)})
        /\ Len(Messages) = Len(said.logs)
    <3>1. \A i \in 1 .. Len(said.logs) : said.logs[i] \in RawLevels
      BY <1>2
    <3> QED
      BY <1>2, <3>1 DEF Messages
  <2>4. ASSUME NEW i \in 1 .. n
        PROVE  Append(Messages, m)[i] = FromSyslog(Append(said.logs, raw)[i], i)
    <3>1. CASE i = n
      BY <1>2, <2>2, <2>3, <3>1
    <3>2. CASE i # n
      <4>1. i \in 1 .. Len(said.logs)
        BY <2>2, <3>2
      <4>2. Append(said.logs, raw)[i] = said.logs[i] /\ Append(Messages, m)[i] = Messages[i]
        BY <1>2, <2>3, <4>1
      <4> QED
        BY <4>1, <4>2 DEF Messages
    <3> QED
      BY <3>1, <3>2
  <2> HIDE DEF m
  <2> DEFINE S == {FromSyslog(r, i) : r \in RawLevels, i \in 1 .. Len(said.logs)}
  <2>5. Append(Messages, m) \in Seq(S \cup {m}) /\ Len(Append(Messages, m)) = n
    <3> HIDE DEF S, Messages
    <3>1. Messages \in Seq(S)
      BY <2>3 DEF S
    <3>2. Messages \in Seq(S \cup {m})
      BY <3>1
    <3> QED
      BY <2>2, <2>3, <3>2
  <2>6. Append(Messages, m) = [i \in 1 .. n |-> Append(Messages, m)[i]]
    <3> DEFINE longer == Append(Messages, m)
               T      == S \cup {m}
    <3>1. longer \in Seq(T) /\ Len(longer) = n
      BY <2>5
    <3> HIDE DEF longer, T
    <3>2. longer = [i \in 1 .. Len(longer) |-> longer[i]]
      BY <3>1, Elements
    <3>3. longer = [i \in 1 .. n |-> longer[i]]
      BY <3>1, <3>2
    <3> QED
      BY <3>3 DEF longer
  <2> QED
    BY <2>1, <2>2, <2>4, <2>6
<1>6. InContext'
  <2>1. IsContext(ctx) /\ ~ctx.streaming /\ ctx.out = said.out /\ ctx.messages = Messages
    BY DEF HInv, InContext
  <2> HIDE DEF Messages, m
  <2>3. /\ IsContext(ctx') /\ ctx'.messages = Append(Messages, m)
        /\ ctx'.headers = ctx.headers /\ ctx'.status = ctx.status
        /\ ctx'.out = said.out /\ ~ctx'.streaming
    BY <1>1, <2>1, Noted
  <2>4. said'.out = said.out /\ said'.hdrs = said.hdrs /\ said'.code = said.code
    BY <1>3
  <2>5. pc' \notin Closed
    BY <1>1 DEF Closed, EnginePcs
  <2> QED
    BY <1>1, <1>5, <2>3, <2>4, <2>5 DEF HInv, InContext
<1> QED
  BY <1>1, <1>4, <1>6, SpeechStep DEF Opening, EnginePcs

\* Once the request is closed the context stays as it is.
LEMMA ClosedStep ==
    ASSUME HInv, pc \in Closed, pc' \in Closed, UNCHANGED <<kind, ctx, g, said>>
    PROVE  /\ Words' /\ InContext' /\ Messages' = Messages
           /\ ctx.headers \in Seq(Header) /\ said.logs \in Seq(RawLevels)
           /\ DOMAIN told = Hooks /\ pc' \notin Opening /\ pc' \notin Failed
<1>1. Words' /\ InContext' /\ Messages' = Messages
  BY WordsStay
<1>2. ctx.headers = ParsedHeaders(said.hdrs) /\ said.hdrs \in Seq(Header)
  BY DEF HInv, InContext, Words
<1>3. ctx.headers \in Seq(Header)
  BY <1>2, ParsedAreSet
<1>4. said.logs \in Seq(RawLevels) /\ DOMAIN told = Hooks
  BY DEF HInv, Words
<1>5. pc' \notin Opening /\ pc' \notin Failed
  BY DEF Closed, Opening, Failed
<1> QED
  BY <1>1, <1>3, <1>4, <1>5

\* What was told is not taken back while another hook is told something.
LEMMA OthersTold ==
    ASSUME HInv, NEW h \in Hooks, NEW a, NEW r, Tell(h, a, r)
    PROVE  /\ DOMAIN told' = Hooks
           /\ told'[h] = Append(told[h], [arg |-> a, answer |-> r])
           /\ \A k \in Hooks : k # h => told'[k] = told[k]
BY DEF Tell, HInv

LEMMA OnHeaderKeeps ==
    ASSUME HInv, NEW allowed \in BOOLEAN, OnHeader(allowed)
    PROVE  HInv'
<1> DEFINE n   == Len(Answers)
           i   == n + 1
           h   == ctx.headers[i]
           ans == [arg |-> h, answer |-> allowed]
<1>1. /\ pc = "headers" /\ pc' = pc /\ kind # "noop" /\ i <= Len(ctx.headers)
      /\ Tell("on_header", h, allowed)
      /\ result' = IF allowed THEN [result EXCEPT !.headers = Append(result.headers, h)]
                   ELSE result
      /\ UNCHANGED <<kind, ctx, g, said>>
  BY DEF OnHeader, Answers
<1>2. /\ Words' /\ InContext' /\ Messages' = Messages
      /\ ctx.headers \in Seq(Header) /\ said.logs \in Seq(RawLevels)
      /\ pc' \notin Opening /\ pc' \notin Failed
  BY <1>1, ClosedStep DEF Closed
<1>3. /\ DOMAIN told' = Hooks /\ Answers' = Append(Answers, ans)
      /\ \A k \in Hooks : k # "on_header" => told'[k] = told[k]
  BY <1>1, OthersTold DEF Hooks, Answers
<1>4. /\ Answers \in Seq([arg : Header, answer : BOOLEAN])
      /\ \A j \in 1 .. n : Answers[j].arg = ctx.headers[j]
  BY <1>1 DEF HInv, HeadersTold, Closed
<1>5. n \in Nat /\ i \in 1 .. Len(ctx.headers) /\ h \in Header
  BY <1>1, <1>2, <1>4
<1> DEFINE A == [arg : Header, answer : BOOLEAN]
<1>6. ans \in A /\ ans.arg = h /\ ans.answer = allowed
  BY <1>5
<1> HIDE DEF ans, A
<1>7. Answers' \in Seq(A) /\ Len(Answers') = i /\ Answers'[i] = ans
      /\ \A j \in 1 .. n : Answers'[j] = Answers[j]
  <2>1. Answers \in Seq(A)
    BY <1>4 DEF A
  <2> QED
    BY <1>3, <1>5, <1>6, <2>1
<1>8. HeadersTold'
  <2>1. ASSUME NEW j \in 1 .. i PROVE Answers'[j].arg = ctx.headers[j]
    <3>1. CASE j = i
      BY <1>6, <1>7, <3>1
    <3>2. CASE j # i
      <4>1. j \in 1 .. n
        BY <1>5, <3>2
      <4> QED
        BY <1>4, <1>7, <4>1
    <3> QED
      BY <3>1, <3>2
  <2>2. Answers' \in Seq([arg : Header, answer : BOOLEAN])
    BY <1>7 DEF A
  <2>3. Len(Answers') <= Len(ctx'.headers)
        /\ \A j \in 1 .. Len(Answers') : Answers'[j].arg = ctx'.headers[j]
    BY <1>1, <1>7, <2>1
  <2> QED
    BY <1>1, <1>2, <2>2, <2>3 DEF HeadersTold
<1>9. RestTold'
  <2>1. /\ told'["on_status"] = told["on_status"] /\ Logged' = Logged
        /\ told'["on_output"] = told["on_output"]
        /\ told'["on_request_finished"] = told["on_request_finished"]
    BY <1>3 DEF Hooks, Logged
  <2>2. /\ Len(Logged) \in 0 .. Len(said.logs)
        /\ Logged = [j \in 1 .. Len(Logged) |-> [arg |-> Messages[j], answer |-> ""]]
        /\ told["on_status"] = <<>> /\ Logged = <<>> /\ told["on_output"] = <<>>
        /\ told["on_request_finished"] = <<>>
    BY <1>1 DEF HInv, RestTold, Closed
  <2>3. /\ Len(Logged') \in 0 .. Len(said'.logs)
        /\ Logged' = [j \in 1 .. Len(Logged') |-> [arg |-> Messages'[j], answer |-> ""]]
    BY <1>1, <1>2, <2>1, <2>2
  <2>4. told'["on_status"] = <<>> /\ Logged' = <<>> /\ told'["on_output"] = <<>>
        /\ told'["on_request_finished"] = <<>>
    BY <2>1, <2>2
  <2>5. pc' = "headers"
    BY <1>1
  <2> QED
    BY <2>3, <2>4, <2>5 DEF RestTold
<1>10. Reported'
  <2>1. IsResult(result) /\ result.headers = Kept(ctx.headers, LetPass)
    BY <1>1 DEF HInv, Reported, Closed
  <2>2. LetPass \subseteq 1 .. n
    BY DEF LetPass
  <2>3. LetPass' = IF allowed THEN LetPass \cup {n + 1} ELSE LetPass
    BY <1>5, <1>6, <1>7 DEF LetPass
  <2>4. IsResult(result') /\ result'.headers = Kept(ctx.headers, LetPass')
    <3>1. CASE allowed
      <4>1. Kept(ctx.headers, LetPass \cup {n + 1}) = Append(Kept(ctx.headers, LetPass), h)
        <5> DEFINE hdrs == ctx.headers
                   P    == LetPass
                   m    == n
        <5>1. hdrs \in Seq(Header) /\ m \in Nat /\ m < Len(hdrs) /\ P \subseteq 1 .. m
          BY <1>2, <1>5, <2>2
        <5> HIDE DEF hdrs, P, m
        <5>2. Kept(hdrs, P \cup {m + 1}) = Append(Kept(hdrs, P), hdrs[m + 1])
          BY <5>1, KeptNext
        <5> QED
          BY <5>2 DEF hdrs, P, m
      <4>2. result' = [result EXCEPT !.headers = Append(result.headers, h)]
        BY <1>1, <3>1
      <4>3. IsResult(result') /\ result'.headers = Append(result.headers, h)
        BY <2>1, <4>2 DEF IsResult
      <4> QED
        BY <2>1, <2>3, <3>1, <4>1, <4>3
    <3>2. CASE ~allowed
      BY <1>1, <2>1, <2>3, <3>2
    <3> QED
      BY <3>1, <3>2
  <2> QED
    BY <1>1, <1>2, <2>4 DEF Reported
<1> QED
  BY <1>1, <1>2, <1>3, <1>8, <1>9, <1>10 DEF HInv, Closed

LEMMA HeadersDoneKeeps ==
    ASSUME HInv, HeadersDone PROVE HInv'
<1>1. /\ pc = "headers" /\ pc' = "status" /\ UNCHANGED <<kind, told, ctx, g, said>>
      /\ kind # "noop" => Len(Answers) = Len(ctx.headers)
      /\ result' = IF kind = "noop" THEN [result EXCEPT !.headers = ctx.headers] ELSE result
  BY DEF HeadersDone, Goto, Answers
<1>2. /\ Words' /\ InContext' /\ Messages' = Messages
      /\ pc' \notin Opening /\ pc' \notin Failed
  BY <1>1, ClosedStep DEF Closed
<1>3. HeadersTold'
  <2>1. Answers' = Answers
    BY <1>1 DEF Answers
  <2> QED
    BY <1>1, <1>2, <2>1 DEF HInv, HeadersTold, Closed
<1>4. RestTold'
  <2>1. Logged' = Logged
    BY <1>1 DEF Logged
  <2> HIDE DEF Messages
  <2> QED
    BY <1>1, <1>2, <2>1 DEF HInv, RestTold, Closed
<1>5. Reported'
  <2>1. IsResult(result) /\ (kind # "noop" => result.headers = Kept(ctx.headers, LetPass))
    BY <1>1 DEF HInv, Reported, Closed
  <2>2. LetPass' = LetPass
    BY <1>1 DEF LetPass, Answers
  <2>3. kind = "noop" => IsResult(result') /\ result'.headers = ctx.headers
    BY <1>1, <2>1 DEF IsResult
  <2> QED
    BY <1>1, <1>2, <2>1, <2>2, <2>3 DEF Reported
<1> QED
  BY <1>1, <1>2, <1>3, <1>4, <1>5 DEF HInv, Closed

LEMMA OnStatusKeeps ==
    ASSUME HInv, OnStatus PROVE HInv'
<1>1. /\ pc = "status" /\ pc' = "messages" /\ Tell("on_status", ctx.status, "")
      /\ UNCHANGED <<kind, ctx, g, said, result>>
  BY DEF OnStatus, Plain, Goto
<1>2. /\ Words' /\ InContext' /\ Messages' = Messages
      /\ pc' \notin Opening /\ pc' \notin Failed
  BY <1>1, ClosedStep DEF Closed
<1> DEFINE call == [arg |-> ctx.status, answer |-> ""]
<1>3. /\ DOMAIN told' = Hooks /\ told'["on_status"] = Append(told["on_status"], call)
      /\ \A k \in Hooks : k # "on_status" => told'[k] = told[k]
  BY <1>1, OthersTold DEF Hooks
<1>4. Answers' = Answers /\ Logged' = Logged /\ LetPass' = LetPass
      /\ told'["on_output"] = told["on_output"]
      /\ told'["on_request_finished"] = told["on_request_finished"]
  BY <1>3 DEF Hooks, Answers, Logged, LetPass
<1>5. HeadersTold' /\ Reported'
  BY <1>1, <1>2, <1>4 DEF HInv, HeadersTold, Reported, Closed
<1>6. RestTold'
  <2>1. told'["on_status"] = <<call>>
    <3>1. told["on_status"] = <<>>
      BY <1>1 DEF HInv, RestTold
    <3> HIDE DEF call
    <3> QED
      BY <1>3, <3>1
  <2> HIDE DEF Messages
  <2> QED
    BY <1>1, <1>2, <1>4, <2>1 DEF HInv, RestTold, Closed
<1> QED
  BY <1>1, <1>2, <1>3, <1>5, <1>6 DEF HInv, Closed

LEMMA OnPhpMessageKeeps ==
    ASSUME HInv, OnPhpMessage PROVE HInv'
<1> DEFINE n    == Len(Logged)
           i    == n + 1
           call == [arg |-> ctx.messages[i], answer |-> ""]
<1>1. /\ pc = "messages" /\ pc' = "messages" /\ i <= Len(ctx.messages)
      /\ Tell("on_php_message", ctx.messages[i], "")
      /\ UNCHANGED <<kind, ctx, g, said, result>>
  BY DEF OnPhpMessage, Plain, Goto, Logged
<1>2. /\ Words' /\ InContext' /\ Messages' = Messages /\ said.logs \in Seq(RawLevels)
      /\ pc' \notin Opening /\ pc' \notin Failed
  BY <1>1, ClosedStep DEF Closed
<1>3. /\ DOMAIN told' = Hooks /\ Logged' = Append(Logged, call)
      /\ \A k \in Hooks : k # "on_php_message" => told'[k] = told[k]
  <2> DEFINE m == ctx.messages[i]
  <2>1. "on_php_message" \in Hooks /\ Tell("on_php_message", m, "")
    BY <1>1 DEF Hooks
  <2> HIDE DEF m
  <2>2. /\ DOMAIN told' = Hooks
        /\ told'["on_php_message"] =
              Append(told["on_php_message"], [arg |-> m, answer |-> ""])
        /\ \A k \in Hooks : k # "on_php_message" => told'[k] = told[k]
    BY <2>1, OthersTold
  <2> QED
    BY <2>2 DEF Logged, m
<1>4. Answers' = Answers /\ LetPass' = LetPass
      /\ told'["on_status"] = told["on_status"] /\ told'["on_output"] = told["on_output"]
      /\ told'["on_request_finished"] = told["on_request_finished"]
  BY <1>3 DEF Hooks, Answers, LetPass
<1>5. HeadersTold' /\ Reported'
  BY <1>1, <1>2, <1>4 DEF HInv, HeadersTold, Reported, Closed
<1>6. ctx.messages = Messages /\ Len(Messages) = Len(said.logs)
  BY <1>2 DEF HInv, InContext, Messages
<1>7. n \in 0 .. Len(said.logs)
      /\ Logged = [j \in 1 .. n |-> [arg |-> Messages[j], answer |-> ""]]
  BY <1>1 DEF HInv, RestTold, Closed
<1>8. i \in 1 .. Len(said.logs) /\ n \in Nat
  <2> DEFINE l == Len(said.logs)
             k == n
  <2>1. l \in Nat /\ k \in 0 .. l
    <3>1. said.logs \in Seq(RawLevels)
      BY <1>2
    <3>2. l \in Nat
      BY <3>1
    <3> QED
      BY <1>7, <3>2
  <2>2. k + 1 <= l
    BY <1>1, <1>6
  <2> HIDE DEF l, k
  <2>3. k + 1 \in 1 .. l /\ k \in Nat
    BY <2>1, <2>2
  <2> QED
    BY <2>3 DEF l, k
<1>9. call = [arg |-> Messages[i], answer |-> ""]
  BY <1>6
<1> HIDE DEF call, Messages
<1>10. Len(Logged') = i
       /\ Logged' = [j \in 1 .. i |-> [arg |-> Messages[j], answer |-> ""]]
  <2> DEFINE line(j) == [arg |-> Messages[j], answer |-> ""]
             S       == {line(j) : j \in 1 .. i}
  <2>1. \A j \in 1 .. i : line(j) \in S
    OBVIOUS
  <2>2. call = line(i) /\ Logged = [j \in 1 .. n |-> line(j)]
    BY <1>7, <1>9
  <2> HIDE DEF line, S
  <2>3. Logged \in Seq(S) /\ call \in S
    BY <1>8, <2>1, <2>2
  <2>4. Logged' \in Seq(S) /\ Len(Logged') = i
    BY <1>3, <1>8, <2>3
  <2>5. ASSUME NEW j \in 1 .. i PROVE Logged'[j] = line(j)
    <3>1. CASE j = i
      BY <1>3, <1>8, <2>2, <2>3, <3>1
    <3>2. CASE j # i
      <4>1. j \in 1 .. n
        BY <1>8, <3>2
      <4> QED
        BY <1>3, <2>2, <2>3, <4>1
    <3> QED
      BY <3>1, <3>2
  <2>6. Logged' = [j \in 1 .. Len(Logged') |-> Logged'[j]]
    BY <2>4, Elements
  <2>7. Logged' = [j \in 1 .. i |-> line(j)]
    BY <2>4, <2>5, <2>6
  <2> QED
    BY <2>4, <2>7 DEF line
<1>11. RestTold'
  <2>1. told["on_output"] = <<>> /\ told["on_request_finished"] = <<>>
        /\ told["on_status"] = <<[arg |-> ctx.status, answer |-> ""]>>
    BY <1>1 DEF HInv, RestTold, Closed
  <2>2. Len(Logged') \in 0 .. Len(said'.logs)
        /\ Logged' = [j \in 1 .. Len(Logged') |-> [arg |-> Messages'[j], answer |-> ""]]
    <3>1. Len(Logged') = i /\ said'.logs = said.logs /\ Messages' = Messages
      BY <1>1, <1>2, <1>10
    <3>2. Logged' = [j \in 1 .. Len(Logged') |-> [arg |-> Messages[j], answer |-> ""]]
      BY <1>10, <3>1
    <3>3. i \in 0 .. Len(said.logs)
      BY <1>8
    <3> QED
      BY <3>1, <3>2, <3>3
  <2> QED
    BY <1>1, <1>2, <1>4, <2>1, <2>2 DEF RestTold
<1> QED
  BY <1>1, <1>2, <1>3, <1>5, <1>11 DEF HInv, Closed

LEMMA MessagesDoneKeeps ==
    ASSUME HInv, MessagesDone PROVE HInv'
<1>1. /\ pc = "messages" /\ pc' = "output" /\ Len(Logged) = Len(ctx.messages)
      /\ UNCHANGED <<kind, told, ctx, g, said, result>>
  BY DEF MessagesDone, Goto, Logged
<1>2. /\ Words' /\ InContext' /\ Messages' = Messages /\ said.logs \in Seq(RawLevels)
      /\ pc' \notin Opening /\ pc' \notin Failed
  BY <1>1, ClosedStep DEF Closed
<1>3. Answers' = Answers /\ LetPass' = LetPass /\ Logged' = Logged
  BY <1>1 DEF Answers, LetPass, Logged
<1>4. HeadersTold' /\ Reported'
  BY <1>1, <1>2, <1>3 DEF HInv, HeadersTold, Reported, Closed
<1>5. Len(Logged) = Len(said.logs)
  <2>1. ctx.messages = Messages /\ Len(Messages) = Len(said.logs)
    BY <1>2 DEF HInv, InContext, Messages
  <2> QED
    BY <1>1, <2>1
<1> HIDE DEF Messages
<1>6. RestTold'
  BY <1>1, <1>2, <1>3, <1>5 DEF HInv, RestTold, Closed
<1> QED
  BY <1>1, <1>2, <1>4, <1>6 DEF HInv, Closed

LEMMA OnOutputKeeps ==
    ASSUME HInv, NEW action \in {"Continue", "Done"}, OnOutput(action)
    PROVE  HInv'
<1> DEFINE body == IF action = "Continue" THEN ctx.out ELSE <<>>
           call == [arg |-> ctx.out, answer |-> action]
<1>1. /\ pc = "output" /\ pc' = "finished" /\ Tell("on_output", ctx.out, action)
      /\ result' = IntoResult(ctx, body, result.headers)
      /\ UNCHANGED <<kind, ctx, g, said>>
  BY DEF OnOutput, Goto
<1>2. /\ Words' /\ InContext' /\ Messages' = Messages
      /\ pc' \notin Opening /\ pc' \notin Failed
  BY <1>1, ClosedStep DEF Closed
<1>3. /\ DOMAIN told' = Hooks /\ told'["on_output"] = Append(told["on_output"], call)
      /\ \A k \in Hooks : k # "on_output" => told'[k] = told[k]
  BY <1>1, OthersTold DEF Hooks
<1>4. Answers' = Answers /\ Logged' = Logged /\ LetPass' = LetPass
      /\ told'["on_status"] = told["on_status"]
      /\ told'["on_request_finished"] = told["on_request_finished"]
  BY <1>3 DEF Hooks, Answers, Logged, LetPass
<1>5. HeadersTold'
  BY <1>1, <1>2, <1>4 DEF HInv, HeadersTold, Closed
<1>6. /\ result'.body = body /\ result'.headers = result.headers
      /\ result' = IntoResult(ctx', result'.body, result'.headers)
  BY <1>1 DEF IntoResult
<1>7. Reported'
  BY <1>1, <1>2, <1>4, <1>6 DEF HInv, Reported, Closed
<1>8. RestTold'
  <2>1. told'["on_output"] = <<call>>
    <3>1. told["on_output"] = <<>>
      BY <1>1 DEF HInv, RestTold, Closed
    <3> HIDE DEF call
    <3> QED
      BY <1>3, <3>1
  <2>2. ctx.out = said.out
    BY DEF HInv, InContext
  <2>3. /\ told'["on_output"] = <<[arg |-> said'.out, answer |-> action]>>
        /\ result'.body = IF action = "Done" THEN <<>> ELSE said'.out
    BY <1>1, <1>6, <2>1, <2>2
  <2> HIDE DEF Messages, call, body
  <2> QED
    BY <1>1, <1>2, <1>4, <2>3 DEF HInv, RestTold, Closed
<1> QED
  BY <1>1, <1>2, <1>3, <1>5, <1>7, <1>8 DEF HInv, Closed

LEMMA OnRequestFinishedKeeps ==
    ASSUME HInv, OnRequestFinished PROVE HInv'
<1>1. /\ pc = "finished" /\ pc' = "ok" /\ Tell("on_request_finished", result, "")
      /\ UNCHANGED <<kind, ctx, g, said, result>>
  BY DEF OnRequestFinished, Plain, Goto
<1>2. /\ Words' /\ InContext' /\ Messages' = Messages
      /\ pc' \notin Opening /\ pc' \notin Failed
  BY <1>1, ClosedStep DEF Closed
<1> DEFINE call == [arg |-> result, answer |-> ""]
<1>3. /\ DOMAIN told' = Hooks
      /\ told'["on_request_finished"] = Append(told["on_request_finished"], call)
      /\ \A k \in Hooks : k # "on_request_finished" => told'[k] = told[k]
  BY <1>1, OthersTold DEF Hooks
<1>4. Answers' = Answers /\ Logged' = Logged /\ LetPass' = LetPass
      /\ told'["on_status"] = told["on_status"] /\ told'["on_output"] = told["on_output"]
  BY <1>3 DEF Hooks, Answers, Logged, LetPass
<1>5. HeadersTold' /\ Reported'
  BY <1>1, <1>2, <1>4 DEF HInv, HeadersTold, Reported, Closed
<1>6. RestTold'
  <2>1. told'["on_request_finished"] = <<call>>
    <3>1. told["on_request_finished"] = <<>>
      BY <1>1 DEF HInv, RestTold, Closed
    <3> HIDE DEF call
    <3> QED
      BY <1>3, <3>1
  <2> HIDE DEF Messages
  <2> QED
    BY <1>1, <1>2, <1>4, <2>1 DEF HInv, RestTold, Closed
<1> QED
  BY <1>1, <1>2, <1>3, <1>5, <1>6 DEF HInv, Closed

LEMMA NextHolds == HInv /\ [Next]_vars => HInv'
<1> SUFFICES ASSUME HInv, [Next]_vars PROVE HInv'
  OBVIOUS
<1>1. CASE UNCHANGED vars
  <2>1. Words' /\ InContext' /\ Messages' = Messages
    BY <1>1, WordsStay DEF vars
  <2>2. Answers' = Answers /\ LetPass' = LetPass /\ Logged' = Logged
    BY <1>1 DEF vars, Answers, LetPass, Logged
  <2>3. HeadersTold'
    BY <1>1, <2>2 DEF vars, HInv, HeadersTold
  <2>4. RestTold'
    BY <1>1, <2>1, <2>2 DEF vars, HInv, RestTold
  <2>5. Reported'
    BY <1>1, <2>2 DEF vars, HInv, Reported
  <2> QED
    BY <1>1, <2>1, <2>3, <2>4, <2>5 DEF vars, HInv
<1>2. CASE Executor
  <2>1. \/ OnContextCreated \/ OnRequestStarting \/ OnRequestStarted
        \/ OnScriptExecuting \/ OnScriptExecuted \/ OnRequestFinishing
        \/ Start
        \/ \E allowed \in BOOLEAN : OnHeader(allowed)
        \/ HeadersDone \/ OnStatus \/ OnPhpMessage \/ MessagesDone
        \/ \E action \in {"Continue", "Done"} : OnOutput(action)
        \/ OnRequestFinished
    BY <1>2 DEF Executor
  <2> QED
    BY <2>1, PlainKeeps, QuietKeeps, OnHeaderKeeps, HeadersDoneKeeps, OnStatusKeeps,
       OnPhpMessageKeeps, MessagesDoneKeeps, OnOutputKeeps, OnRequestFinishedKeeps
<1>3. CASE HookPanics
  BY <1>3, PanicKeeps
<1>4. CASE Engine
  <2>1. \/ StartupOk \/ StartupFails \/ ScriptEnds
        \/ ShutdownEnds \/ Write \/ PhpFlushes
        \/ \E line \in Lines : SetHeader(line)
        \/ \E code \in Codes : SetCode(code)
        \/ \E raw \in RawLevels : Log(raw)
    BY <1>4 DEF Engine
  <2> QED
    BY <2>1, QuietKeeps, ShutdownEndsKeeps, WriteKeeps, FlushKeeps, SetHeaderKeeps,
       SetCodeKeeps, LogKeeps
<1> QED
  BY <1>1, <1>2, <1>3, <1>4 DEF Next

LEMMA AlwaysHolds == Spec => []HInv
BY InitHolds, NextHolds, PTL DEF Spec
-----------------------------------------------------------------------------
(* What follows from it. *)

\* At the end the headers of the context are those that parse.
LEMMA AtTheEnd ==
    ASSUME HInv, pc \in {"finished", "ok"}
    PROVE  /\ ctx.headers = ParsedHeaders(said.hdrs) /\ ctx.headers \in Seq(Header)
           /\ ctx.status = ClampStatus(said.code) /\ ctx.out = said.out
           /\ ctx.messages = Messages
           /\ said.hdrs \in Seq(Header) /\ said.logs \in Seq(RawLevels) /\ said.code \in Nat
<1>1. /\ ctx.headers = ParsedHeaders(said.hdrs) /\ ctx.status = ClampStatus(said.code)
      /\ ctx.out = said.out /\ ctx.messages = Messages
  BY DEF HInv, InContext, Closed
<1>2. said.hdrs \in Seq(Header) /\ said.logs \in Seq(RawLevels) /\ said.code \in Nat
  BY DEF HInv, Words
<1>3. ctx.headers \in Seq(Header)
  BY <1>1, <1>2, ParsedAreSet
<1> QED
  BY <1>1, <1>2, <1>3

\* A hook that was called once.
LEMMA OneCall ==
    ASSUME NEW h, NEW a, NEW r, told[h] = <<[arg |-> a, answer |-> r]>>
    PROVE  Arguments(h) = <<a>>
<1> DEFINE call == [arg |-> a, answer |-> r]
<1>1. call.arg = a
  OBVIOUS
<1> HIDE DEF call
<1>2. told[h] = <<call>>
  BY DEF call
<1>3. Arguments(h) = [i \in 1 .. 1 |-> call.arg]
  BY <1>2 DEF Arguments
<1> QED
  BY <1>1, <1>3

\* One piece alone is the whole.
LEMMA OnePiece == ASSUME NEW s PROVE FlattenSeq(<<s>>) = s
<1> DEFINE F == CHOOSE f : f = [i \in 1 .. 1 |-> IF i = 1 THEN <<s>>[i] ELSE f[i - 1] \o <<s>>[i]]
<1>1. Len(<<s>>) = 1 /\ <<s>>[1] = s
  OBVIOUS
<1>2. FlattenSeq(<<s>>) = F[1]
  BY <1>1 DEF FlattenSeq
<1>3. F = [i \in 1 .. 1 |-> IF i = 1 THEN <<s>>[i] ELSE F[i - 1] \o <<s>>[i]]
  <2> DEFINE k == [i \in 1 .. 1 |-> s]
  <2>1. k = [i \in 1 .. 1 |-> IF i = 1 THEN <<s>>[i] ELSE k[i - 1] \o <<s>>[i]]
    BY <1>1
  <2> HIDE DEF k
  <2> QED
    BY <2>1, Zenon
<1> HIDE DEF F
<1> QED
  BY <1>1, <1>2, <1>3

LEMMA HearAll == HInv => HooksHearAll
<1> SUFFICES ASSUME HInv, pc \in {"finished", "ok"}
             PROVE  /\ kind # "noop" => Arguments("on_header") = ParsedHeaders(said.hdrs)
                    /\ Arguments("on_status") = <<ClampStatus(said.code)>>
                    /\ Arguments("on_php_message") =
                          [i \in DOMAIN said.logs |-> FromSyslog(said.logs[i], i)]
                    /\ FlattenSeq(Arguments("on_output")) = said.out
  BY DEF HooksHearAll
<1>1. /\ ctx.headers = ParsedHeaders(said.hdrs) /\ ctx.headers \in Seq(Header)
      /\ ctx.status = ClampStatus(said.code) /\ ctx.out = said.out
  BY AtTheEnd
<1>2. said.logs \in Seq(RawLevels)
  BY AtTheEnd
<1>3. ASSUME kind # "noop" PROVE Arguments("on_header") = ParsedHeaders(said.hdrs)
  <2>1. /\ Answers \in Seq([arg : Header, answer : BOOLEAN])
        /\ Len(Answers) = Len(ctx.headers)
        /\ \A i \in 1 .. Len(Answers) : Answers[i].arg = ctx.headers[i]
    BY <1>3 DEF HInv, HeadersTold, Closed
  <2>2. DOMAIN Answers = 1 .. Len(ctx.headers)
    BY <2>1
  <2>3. Arguments("on_header") = [i \in 1 .. Len(ctx.headers) |-> ctx.headers[i]]
    BY <2>1, <2>2 DEF Arguments, Answers
  <2> QED
    BY <1>1, <2>3, Elements
<1>4. Arguments("on_status") = <<ClampStatus(said.code)>>
  <2>1. told["on_status"] = <<[arg |-> ctx.status, answer |-> ""]>>
    BY DEF HInv, RestTold
  <2> DEFINE status == ctx.status
  <2> HIDE DEF status
  <2>2. told["on_status"] = <<[arg |-> status, answer |-> ""]>>
    BY <2>1 DEF status
  <2>3. Arguments("on_status") = <<status>>
    BY <2>2, OneCall
  <2> QED
    BY <1>1, <2>3 DEF status
<1>5. Arguments("on_php_message") =
         [i \in DOMAIN said.logs |-> FromSyslog(said.logs[i], i)]
  <2>1. /\ Len(Logged) = Len(said.logs)
        /\ Logged = [i \in 1 .. Len(Logged) |-> [arg |-> Messages[i], answer |-> ""]]
    BY DEF HInv, RestTold, Closed
  <2>2. Logged = [i \in 1 .. Len(said.logs) |-> [arg |-> Messages[i], answer |-> ""]]
    BY <2>1
  <2>3. Arguments("on_php_message") = [i \in 1 .. Len(said.logs) |-> Messages[i]]
    <3>1. Arguments("on_php_message") = [i \in DOMAIN Logged |-> Logged[i].arg]
      BY DEF Arguments, Logged
    <3>2. DOMAIN Logged = 1 .. Len(said.logs)
      BY <2>2
    <3>3. \A i \in 1 .. Len(said.logs) : Logged[i].arg = Messages[i]
      <4> TAKE i \in 1 .. Len(said.logs)
      <4>1. Logged[i] = [arg |-> Messages[i], answer |-> ""]
        BY <2>2
      <4> DEFINE m == Messages[i]
      <4>2. Logged[i] = [arg |-> m, answer |-> ""]
        BY <4>1
      <4>3. [arg |-> m, answer |-> ""].arg = m
        OBVIOUS
      <4> HIDE DEF m
      <4>4. Logged[i].arg = m
        BY <4>2, <4>3, Zenon
      <4> QED
        BY <4>4 DEF m
    <3> HIDE DEF Messages
    <3> QED
      BY <3>1, <3>2, <3>3
  <2>4. DOMAIN said.logs = 1 .. Len(said.logs)
    BY <1>2
  <2> QED
    BY <2>3, <2>4 DEF Messages
<1>6. FlattenSeq(Arguments("on_output")) = said.out
  <2>1. PICK action \in {"Continue", "Done"} :
            told["on_output"] = <<[arg |-> said.out, answer |-> action]>>
    BY DEF HInv, RestTold
  <2>2. Arguments("on_output") = <<said.out>>
    BY <2>1, OneCall
  <2> QED
    BY <2>2, OnePiece
<1> QED
  BY <1>3, <1>4, <1>5, <1>6

\* What comes back is a filtered list of the context's headers.
LEMMA HeadersLetThrough ==
    ASSUME HInv, pc = "ok"
    PROVE  /\ result.headers = LetThrough /\ result.headers \in Seq(Header)
           /\ \A j \in 1 .. Len(result.headers) : \E i \in 1 .. Len(ctx.headers) :
                 result.headers[j] = ctx.headers[i]
<1> DEFINE hdrs == ctx.headers
           P    == {i \in DOMAIN hdrs : kind = "noop" \/ Answers[i].answer}
<1>1. hdrs \in Seq(Header)
  BY AtTheEnd
<1>2. LetThrough = Kept(hdrs, P)
  BY DEF LetThrough, Answers
<1>3. CASE kind = "noop"
  <2>1. P = 1 .. Len(hdrs)
    BY <1>1, <1>3
  <2>2. result.headers = hdrs
    BY <1>3 DEF HInv, Reported, Closed
  <2> HIDE DEF hdrs, P
  <2>3. Kept(hdrs, P) = hdrs
    BY <1>1, <2>1, KeptAll
  <2> QED
    BY <1>1, <1>2, <2>2, <2>3 DEF hdrs
<1>4. CASE kind # "noop"
  <2>1. result.headers = Kept(hdrs, LetPass) /\ Len(Answers) = Len(hdrs)
    BY <1>4 DEF HInv, Reported, HeadersTold, Closed
  <2>2. LetPass = P
    BY <1>1, <1>4, <2>1 DEF LetPass
  <2> HIDE DEF hdrs, P
  <2>3. /\ Kept(hdrs, P) \in Seq(Header)
        /\ \A j \in 1 .. Len(Kept(hdrs, P)) :
              \E i \in P \cap (1 .. Len(hdrs)) : Kept(hdrs, P)[j] = hdrs[i]
    BY <1>1, KeptElements
  <2> QED
    BY <1>2, <2>1, <2>2, <2>3 DEF hdrs
<1> QED
  BY <1>3, <1>4

\* header_val is the first of header_vals.
LEMMA FirstOfName ==
    ASSUME NEW r, r.headers \in Seq(Header), NEW name
    PROVE  LET vals == HeaderVals(r, name)
           IN  HeaderVal(r, name) = IF vals = <<>> THEN NoHeader ELSE Head(vals)
<1> DEFINE hdrs  == r.headers
           K     == {i \in DOMAIN hdrs : SameName(hdrs[i].name, name)}
           found == Kept(hdrs, K)
           vals  == HeaderVals(r, name)
<1>1. K \subseteq 1 .. Len(hdrs) /\ hdrs \in Seq(Header) /\ K \cap (1 .. Len(hdrs)) = K
  OBVIOUS
<1>2. vals = [i \in DOMAIN found |-> found[i].value]
  BY DEF HeaderVals
<1>3. HeaderVal(r, name) =
         IF K = {} THEN NoHeader
         ELSE hdrs[CHOOSE i \in K : \A j \in K : i <= j].value
  BY DEF HeaderVal
<1> HIDE DEF hdrs, K, vals
<1>4. /\ found \in Seq(Header)
      /\ K = {} => found = <<>>
      /\ \A i \in K : (\A j \in K : i <= j) => Len(found) > 0 /\ found[1] = hdrs[i]
  BY <1>1, KeptElements
<1> HIDE DEF found
<1>5. CASE K = {}
  <2>1. vals = <<>>
    BY <1>2, <1>4, <1>5
  <2> QED
    BY <1>3, <1>5, <2>1 DEF vals
<1>6. CASE K # {}
  <2> DEFINE first == CHOOSE i \in K : \A j \in K : i <= j
  <2>1. first \in K /\ \A j \in K : first <= j
    <3>1. K \in SUBSET Nat
      BY <1>1
    <3> QED
      BY <1>6, <3>1, LeastOfNaturals
  <2> HIDE DEF first
  <2>2. Len(found) > 0 /\ found[1] = hdrs[first]
    BY <1>4, <2>1
  <2>3. DOMAIN found = 1 .. Len(found) /\ Len(found) \in Nat
    BY <1>4
  <2>4. 1 \in DOMAIN found
    BY <2>2, <2>3
  <2>5. vals[1] = hdrs[first].value
    BY <1>2, <2>2, <2>4
  <2>6. vals # <<>>
    BY <1>2, <2>4
  <2>7. Head(vals) = vals[1]
    <3> DEFINE S == {found[i].value : i \in DOMAIN found}
    <3>1. vals \in Seq(S)
      BY <1>2, <2>3
    <3> HIDE DEF S
    <3> QED
      BY <2>6, <3>1
  <2> QED
    BY <1>3, <1>6, <2>5, <2>6, <2>7 DEF first, vals
<1> QED
  BY <1>5, <1>6

\* from_raw makes an error of what was logged as one, or worse.
LEMMA ErrorsAreErrors ==
    ASSUME NEW raw \in Int, NEW n
    PROVE  IsError(FromSyslog(raw, n)) <=> raw <= Error
<1> DEFINE level == FromRaw(raw)
<1>1. level \in 0 .. 3 <=> raw <= 3
  BY DEF FromRaw, Emergency, Debug
<1> HIDE DEF level
<1>2. FromSyslog(raw, n).level = level
  BY DEF FromSyslog, level
<1> QED
  BY <1>1, <1>2 DEF IsError, Emergency, Error

LEMMA ErrorsReported ==
    ASSUME HInv, pc = "ok"
    PROVE  /\ HasErrors(result) <=> \E i \in DOMAIN said.logs : said.logs[i] <= Error
           /\ HasErrors(result) <=> Errors(result) # <<>>
<1> DEFINE msgs == result.messages
           K    == {i \in DOMAIN msgs : IsError(msgs[i])}
<1>1. ctx.messages = Messages /\ said.logs \in Seq(RawLevels)
  BY AtTheEnd
<1>2. msgs = Messages
  <2>1. result = IntoResult(ctx, result.body, result.headers)
    BY DEF HInv, Reported
  <2> QED
    BY <1>1, <2>1 DEF IntoResult
<1>3. DOMAIN msgs = 1 .. Len(said.logs) /\ DOMAIN said.logs = 1 .. Len(said.logs)
      /\ \A i \in 1 .. Len(said.logs) : said.logs[i] \in RawLevels
  BY <1>1, <1>2 DEF Messages
<1>4. ASSUME NEW i \in 1 .. Len(said.logs)
      PROVE  IsError(msgs[i]) <=> said.logs[i] <= Error
  <2>1. msgs[i] = FromSyslog(said.logs[i], i)
    BY <1>2 DEF Messages
  <2>2. said.logs[i] \in Int
    BY <1>3, HookBounds
  <2> HIDE DEF msgs
  <2> QED
    BY <2>1, <2>2, ErrorsAreErrors
<1>5. HasErrors(result) <=> K # {}
  BY DEF HasErrors
<1>6. K # {} <=> \E i \in DOMAIN said.logs : said.logs[i] <= Error
  BY <1>3, <1>4
<1>7. Errors(result) = Kept(msgs, K)
  BY DEF Errors
<1>8. K # {} <=> Kept(msgs, K) # <<>>
  <2> DEFINE S == {FromSyslog(said.logs[i], i) : i \in 1 .. Len(said.logs)}
  <2>1. msgs \in Seq(S) /\ Len(msgs) = Len(said.logs)
    BY <1>1, <1>2 DEF Messages
  <2>2. K \cap (1 .. Len(msgs)) = K /\ K \in SUBSET Nat
    BY <1>3, <2>1
  <2> HIDE DEF S, K, msgs
  <2>3. /\ K = {} => Kept(msgs, K) = <<>>
        /\ \A i \in K : (\A j \in K : i <= j) => Len(Kept(msgs, K)) > 0
    BY <2>1, <2>2, KeptElements
  <2>4. K # {} => \E i \in K : \A j \in K : i <= j
    BY <2>2, LeastOfNaturals
  <2>5. K # {} => Len(Kept(msgs, K)) > 0
    BY <2>3, <2>4
  <2>6. Len(<<>>) = 0
    OBVIOUS
  <2> QED
    BY <2>3, <2>5, <2>6
<1> QED
  BY <1>5, <1>6, <1>7, <1>8

LEMMA OneClass ==
    ASSUME NEW r, r.status \in StatusMin .. StatusMax
    PROVE  /\ \A a, b \in Classes(r) : a = b
           /\ Classes(r) = {} <=> r.status < 200
<1> DEFINE status == r.status
           C      == Classes(r)
<1>1. status \in 100 .. 599
  BY DEF StatusMin, StatusMax
<1>2. /\ C \subseteq {"success", "redirect", "client", "server"}
      /\ "success" \in C <=> status \in 200 .. 299
      /\ "redirect" \in C <=> status \in 300 .. 399
      /\ "client" \in C <=> status \in 400 .. 499
      /\ "server" \in C <=> status \in 500 .. 599
  BY DEF Classes
<1> HIDE DEF status, C
<1>3. C = {} <=> status < 200
  BY <1>1, <1>2
<1>4. /\ "success" \in C => 200 <= status /\ status < 300
      /\ "redirect" \in C => 300 <= status /\ status < 400
      /\ "client" \in C => 400 <= status /\ status < 500
      /\ "server" \in C => 500 <= status
  BY <1>1, <1>2
<1>5. "success" \in C => "redirect" \notin C /\ "client" \notin C /\ "server" \notin C
  BY <1>1, <1>4
<1>6. "redirect" \in C => "client" \notin C /\ "server" \notin C
  BY <1>1, <1>4
<1>7. "client" \in C => "server" \notin C
  BY <1>1, <1>4
<1>8. \A a, b \in C : a = b
  BY <1>2, <1>5, <1>6, <1>7
<1> QED
  BY <1>3, <1>8 DEF status, C

LEMMA AsHttpResponse ==
    ASSUME HInv, pc = "ok"
    PROVE  /\ IntoHttpResponse(result) \in
                 {BareResponse, [status |-> ClampStatus(said.code), headers |-> LetThrough,
                                 body |-> result.body]}
           /\ IntoHttpResponse(result) = BareResponse /\ result.status # 200 =>
                 \E i \in DOMAIN said.hdrs :
                    said.hdrs[i].wellFormed /\ ~HttpAccepts(said.hdrs[i])
<1>1. result.status = ClampStatus(said.code) /\ result.headers = LetThrough
  <2>1. result = IntoResult(ctx, result.body, result.headers)
    BY DEF HInv, Reported
  <2>2. result.status = ctx.status
    BY <2>1 DEF IntoResult
  <2> QED
    BY <2>2, AtTheEnd, HeadersLetThrough
<1> DEFINE whole    == [status |-> result.status, headers |-> result.headers,
                        body |-> result.body]
           accepted == \A i \in DOMAIN result.headers : HttpAccepts(result.headers[i])
<1>2. IntoHttpResponse(result) = IF accepted THEN whole ELSE BareResponse
  BY DEF IntoHttpResponse
<1>3. accepted /\ result.status # 200 => IntoHttpResponse(result) # BareResponse
  <2>1. whole.status = result.status /\ BareResponse.status = 200
    BY DEF BareResponse
  <2> HIDE DEF whole, accepted
  <2> QED
    BY <1>2, <2>1
<1>4. ~accepted => \E i \in DOMAIN said.hdrs :
                      said.hdrs[i].wellFormed /\ ~HttpAccepts(said.hdrs[i])
  <2> SUFFICES ASSUME NEW j \in DOMAIN result.headers, ~HttpAccepts(result.headers[j])
               PROVE  \E i \in DOMAIN said.hdrs :
                         said.hdrs[i].wellFormed /\ ~HttpAccepts(said.hdrs[i])
    OBVIOUS
  <2>1. j \in 1 .. Len(result.headers)
    BY HeadersLetThrough
  <2>2. PICK k \in 1 .. Len(ctx.headers) : result.headers[j] = ctx.headers[k]
    BY <2>1, HeadersLetThrough
  <2>3. said.hdrs \in Seq(Header) /\ ctx.headers = ParsedHeaders(said.hdrs)
    BY AtTheEnd
  <2>4. PICK i \in 1 .. Len(said.hdrs) :
            said.hdrs[i].wellFormed /\ ctx.headers[k] = said.hdrs[i]
    BY <2>2, <2>3, ParsedAreSet
  <2>5. DOMAIN said.hdrs = 1 .. Len(said.hdrs)
    BY <2>3
  <2> QED
    BY <2>2, <2>4, <2>5
<1> HIDE DEF accepted
<1>5. IntoHttpResponse(result) \in {BareResponse, whole}
  BY <1>2
<1> QED
  BY <1>1, <1>3, <1>4, <1>5

LEMMA Reporting == HInv => ResultAsReported
<1> SUFFICES ASSUME HInv, pc = "ok" PROVE ResultAsReported
  BY DEF ResultAsReported
<1>1. Arguments("on_request_finished") = <<result>>
  <2>1. told["on_request_finished"] = <<[arg |-> result, answer |-> ""]>>
    BY DEF HInv, RestTold
  <2> QED
    BY <2>1, OneCall
<1>2. result.headers = LetThrough /\ result.headers \in Seq(Header)
  BY HeadersLetThrough
<1>3. \A name \in {"name", "other"} :
         LET vals == HeaderVals(result, name)
         IN  HeaderVal(result, name) = IF vals = <<>> THEN NoHeader ELSE Head(vals)
  BY <1>2, FirstOfName
<1>4. result.body = IF told["on_output"][1].answer = "Done" THEN <<>> ELSE said.out
  <2>1. PICK action \in {"Continue", "Done"} :
           /\ told["on_output"] = <<[arg |-> said.out, answer |-> action]>>
           /\ result.body = IF action = "Done" THEN <<>> ELSE said.out
    BY DEF HInv, RestTold
  <2>2. told["on_output"][1] = [arg |-> said.out, answer |-> action]
    BY <2>1
  <2>3. told["on_output"][1].answer = action
    BY <2>2
  <2> QED
    BY <2>1, <2>3
<1>5. result.status \in StatusMin .. StatusMax
  <2>1. result = IntoResult(ctx, result.body, result.headers)
    BY DEF HInv, Reported
  <2>2. result.status = ctx.status
    BY <2>1 DEF IntoResult
  <2>3. ctx.status = ClampStatus(said.code) /\ said.code \in Nat
    BY AtTheEnd
  <2> QED
    BY <2>2, <2>3 DEF ClampStatus, StatusMin, StatusMax, StatusFallback
<1>6. /\ \A a, b \in Classes(result) : a = b
      /\ Classes(result) = {} <=> result.status < 200
  BY <1>5, OneClass
<1> QED
  BY <1>1, <1>2, <1>3, <1>4, <1>6, ErrorsReported, AsHttpResponse DEF ResultAsReported

\* Once the result is complete the hooks have heard all PHP said, for any
\* header lines, codes and priorities: every header that parses, in order, the
\* last status, each message with its level, the whole output in one piece.
THEOREM EverythingIsTold == Spec => []HooksHearAll
BY AlwaysHolds, HearAll, PTL

\* What the call returns is what on_request_finished saw and follows the hooks'
\* answers; its accessors and the http response agree with it.
THEOREM AnswersAreFollowed == Spec => []ResultAsReported
BY AlwaysHolds, Reporting, PTL
-----------------------------------------------------------------------------
(* The contract of execute, through the hooks. *)

\* The call as the contract sees it.
Phases == [c \in {Call} |-> IF Working THEN "running" ELSE IF Over THEN "over" ELSE "idle"]
Speech == [c \in {Call} |->
              [chunks |-> IF Working THEN Len(said.out) ELSE 0,
               logs   |-> IF Working THEN Len(said.logs) ELSE 0,
               hdrs   |-> IF Working THEN said.hdrs ELSE <<>>,
               code   |-> IF Working THEN said.code ELSE 200,
               post   |-> <<>>]]
Modes   == [c \in {Call} |-> "hooks"]
Unheard == [got |-> <<>>, whole |-> TRUE]
Heard   == [c \in {Call} |-> Unheard]
Response == [result EXCEPT !.messages = [i \in DOMAIN result.messages |-> result.messages[i].no]]
LastCall == [call     |-> IF Over THEN Call ELSE None,
             outcome  |-> IF Over THEN pc ELSE "rejected",
             response |-> IF ~Over THEN NoResult ELSE Response,
             heard    |-> Unheard]

\* Where the call is at work, and where it is over.
LEMMA Places ==
    ASSUME HInv
    PROVE  /\ Working <=> pc \in (Opening \ {"idle"}) \cup (Closed \ {"ok"})
           /\ Over <=> pc \in Failed \cup {"ok"}
BY DEF HInv, Working, Over, Outcomes, Opening, Closed, Failed

\* The contract's operators that this module and RequestContract share.
LEMMA SameWords ==
    /\ Contract!Nothing = [chunks |-> 0, logs |-> 0, hdrs |-> <<>>, code |-> 200, post |-> <<>>]
    /\ Contract!Unheard = Unheard /\ Contract!NoAnswer = NoResult
    /\ \A code : Contract!ClampStatus(code) = ClampStatus(code)
    /\ \A n : Contract!Written(Call, n) = [i \in 1 .. n |-> <<Call, i>>]
BY DEF Unheard, NoResult, IntoResult, NewContext, ClampStatus,
   StatusMin, StatusMax, StatusFallback, Contract!StatusMin, Contract!StatusMax,
   Contract!StatusFallback, Contract!Nothing, Contract!Unheard, Contract!NoAnswer,
   Contract!IntoResult, Contract!NewContext, Contract!ClampStatus, Contract!Written

LEMMA SameFilter ==
    ASSUME NEW s, NEW positions PROVE Contract!Kept(s, positions) = Kept(s, positions)
BY DEF Contract!Kept, Kept

LEMMA SameHeaders ==
    ASSUME NEW hdrs PROVE Contract!ParsedHeaders(hdrs) = ParsedHeaders(hdrs)
BY SameFilter DEF Contract!ParsedHeaders, ParsedHeaders

\* A call that gave up has nothing to answer.
LEMMA NoResponse ==
    [NoResult EXCEPT !.messages =
        [i \in DOMAIN NoResult.messages |-> NoResult.messages[i].no]] = NoResult
<1>1. NoResult.messages = <<>>
  BY DEF NoResult, IntoResult, NewContext
<1>2. [i \in DOMAIN NoResult.messages |-> NoResult.messages[i].no] = <<>>
  BY <1>1
<1>3. NoResult = [status |-> 200, body |-> <<>>, headers |-> <<>>, messages |-> <<>>]
  BY DEF NoResult, IntoResult, NewContext
<1> QED
  BY <1>2, <1>3

LEMMA ContractInit == Init => Contract!Init
<1> SUFFICES ASSUME Init PROVE Contract!Init
  OBVIOUS
<1>1. ~Over /\ ~Working
  BY DEF Init, Over, Working, Outcomes
<1> QED
  BY <1>1, SameWords DEF Contract!Init, Unheard

\* Nothing was said before the call began.
Fresh == pc = "idle" => said = Quiet

LEMMA FreshAlways == Spec => []Fresh
<1>1. Init => Fresh
  BY DEF Init, Fresh
<1>2. Fresh /\ [Next]_vars => Fresh'
  <2> SUFFICES ASSUME Fresh, [Next]_vars PROVE Fresh'
    OBVIOUS
  <2>1. CASE UNCHANGED vars
    BY <2>1 DEF Fresh, vars
  <2>2. CASE Executor \/ HookPanics
    BY <2>2 DEF Fresh, Executor, HookPanics, Start, OnContextCreated, OnRequestStarting,
       OnRequestStarted, OnScriptExecuting, OnScriptExecuted, OnRequestFinishing, OnHeader,
       HeadersDone, OnStatus, OnPhpMessage, MessagesDone, OnOutput, OnRequestFinished,
       Plain, Goto
  <2>3. CASE Engine
    BY <2>3 DEF Fresh, Engine, StartupOk, StartupFails, ScriptEnds, ShutdownEnds, Write,
       PhpFlushes, SetHeader, SetCode, Log, Goto, EnginePcs
  <2> QED
    BY <2>1, <2>2, <2>3 DEF Next
<1> QED
  BY <1>1, <1>2, PTL DEF Spec

LEMMA StartKeeps ==
    ASSUME HInv, Fresh, Start
    PROVE  Contract!Next
<1>1. pc = "idle" /\ pc' \in {"created", "rejected"} /\ UNCHANGED <<said, result>>
  BY DEF Start, Goto
<1>2. ~Working /\ ~Over
  BY <1>1 DEF Working, Over, Outcomes
<1>3. CASE pc' = "rejected"
  <2>1. Over' /\ ~Working'
    BY <1>3 DEF Working, Over, Outcomes
  <2>2. Response' = NoResult
    <3>1. result' = NoResult
      BY <1>1 DEF HInv, Reported, Opening
    <3> QED
      BY <3>1, NoResponse DEF Response
  <2>3. Phases' = [Phases EXCEPT ![Call] = "over"] /\ Phases[Call] = "idle"
    BY <1>2, <2>1 DEF Phases
  <2>4. Speech' = Speech
    BY <1>2, <2>1 DEF Speech
  <2>5. LastCall' = [call |-> Call, outcome |-> "rejected", response |-> NoResult,
                     heard |-> Unheard]
    BY <1>3, <2>1, <2>2 DEF LastCall, Unheard
  <2>6. Contract!Refuse(Call)
    BY <2>3, <2>4, <2>5, SameWords DEF Contract!Refuse, Phases, Speech, LastCall, Response,
       Unheard
  <2> QED
    BY <2>6 DEF Contract!Next
<1>4. CASE pc' = "created"
  <2>1. ~Over' /\ Working'
    BY <1>4 DEF Working, Over, Outcomes
  <2>2. Phases' = [Phases EXCEPT ![Call] = "running"] /\ Phases[Call] = "idle"
    BY <1>2, <2>1 DEF Phases
  <2>3. Speech' = Speech
    <3>1. /\ said' = said /\ Len(said.out) = 0 /\ Len(said.logs) = 0
          /\ said.hdrs = <<>> /\ said.code = 200
      BY <1>1 DEF Fresh, Quiet
    <3> QED
      BY <1>2, <2>1, <3>1 DEF Speech
  <2>4. LastCall' = LastCall
    BY <1>2, <2>1 DEF LastCall, Unheard
  <2>5. Modes = [Modes EXCEPT ![Call] = "hooks"]
    BY DEF Modes
  <2>6. Contract!Start(Call)
    BY <1>2, <2>2, <2>3, <2>4, <2>5 DEF Contract!Start, Phases, Speech, LastCall, Response,
       Unheard, Modes
  <2> QED
    BY <2>6 DEF Contract!Next
<1> QED
  BY <1>1, <1>3, <1>4

\* A step that leaves the call at work and says nothing.
LEMMA HiddenKeeps ==
    ASSUME Working, Working', said' = said
    PROVE  UNCHANGED Contract!vars
<1>1. ~Over /\ ~Over'
  BY DEF Working
<1>2. Phases' = Phases /\ Speech' = Speech /\ LastCall' = LastCall
  BY <1>1 DEF Phases, Speech, LastCall, Unheard
<1> QED
  BY <1>2 DEF Contract!vars, Phases, Speech, LastCall, Response, Unheard

LEMMA SaysKeeps ==
    ASSUME Working, Working', Len(said'.out) >= Len(said.out), Len(said'.logs) >= Len(said.logs),
           Contract!Extends(said'.hdrs, said.hdrs)
    PROVE  Contract!Next
<1>1. ~Over /\ ~Over'
  BY DEF Working
<1>2. Phases' = Phases /\ Phases[Call] = "running" /\ LastCall' = LastCall
  BY <1>1 DEF Phases, LastCall, Unheard
<1>3. Speech' = [Speech EXCEPT ![Call] = Speech'[Call]]
  BY DEF Speech
<1>4. Contract!Says(Speech[Call], Speech'[Call])
  <2>1. /\ Speech[Call].chunks = Len(said.out) /\ Speech[Call].logs = Len(said.logs)
        /\ Speech[Call].hdrs = said.hdrs /\ Speech[Call].post = <<>>
        /\ Speech'[Call].chunks = Len(said'.out) /\ Speech'[Call].logs = Len(said'.logs)
        /\ Speech'[Call].hdrs = said'.hdrs /\ Speech'[Call].post = <<>>
    BY DEF Speech
  <2>2. /\ Len(<<>>) = 0 /\ Len(<<>>) <= 0 /\ Len(<<>>) >= Len(<<>>)
        /\ <<>> = [i \in 1 .. Len(<<>>) |-> i]
    OBVIOUS
  <2> QED
    BY <2>1, <2>2 DEF Contract!Says
<1>5. /\ Heard = [Heard EXCEPT ![Call] = Heard[Call]]
      /\ Heard[Call] = Unheard
  BY DEF Heard
<1>6. Contract!Hears(Unheard, Unheard, Call, Len(said.out))
  <2>1. Contract!Extends(<<>>, <<>>) /\ Len(<<>>) = 0
    BY DEF Contract!Extends
  <2>2. Contract!Written(Call, 0) = <<>>
    BY DEF Contract!Written
  <2>3. 0 <= Len(said.out)
    OBVIOUS
  <2> QED
    BY <2>1, <2>2, <2>3 DEF Contract!Hears, Unheard
<1>7. Contract!Say(Call)
  BY <1>2, <1>3, <1>4, <1>5, <1>6 DEF Contract!Say, Phases, Speech, LastCall, Response,
     Unheard, Heard
<1> QED
  BY <1>7 DEF Contract!Next

\* A call that ends forgets what was said.
LEMMA FinishKeeps ==
    ASSUME Working, Over'
    PROVE  Contract!Finish(Call)
<1>1. ~Over /\ ~Working'
  BY DEF Working
<1>2. Phases' = [Phases EXCEPT ![Call] = "over"] /\ Phases[Call] = "running"
  BY <1>1 DEF Phases
<1>3. Speech' = [Speech EXCEPT ![Call] = Contract!Nothing]
  BY <1>1, SameWords DEF Speech
<1>4. Heard = [Heard EXCEPT ![Call] = Contract!Unheard]
  BY SameWords DEF Heard
<1> QED
  BY <1>2, <1>3, <1>4 DEF Contract!Finish, Phases, Speech, Heard, Unheard

LEMMA GiveUpKeeps ==
    ASSUME HInv, Working, pc' \in {"startup_failed", "panicked"}, result' = NoResult
    PROVE  Contract!Next
<1>1. Over'
  BY DEF Over, Outcomes
<1>2. Contract!Finish(Call)
  BY <1>1, FinishKeeps
<1>3. Response' = NoResult
  BY NoResponse DEF Response
<1>4. LastCall' = [call |-> Call, outcome |-> pc', response |-> NoResult, heard |-> Unheard]
  BY <1>1, <1>3 DEF LastCall, Unheard
<1>5. Heard[Call] = Unheard
  BY DEF Heard
<1>6. Contract!GiveUp(Call)
  BY <1>2, <1>4, <1>5, SameWords DEF Contract!GiveUp, LastCall, Response, Heard, Unheard
<1> QED
  BY <1>6 DEF Contract!Next

\* What the contract wants of a result.
Answered == pc = "ok" =>
    /\ result.status = ClampStatus(said.code)
    /\ result.messages = Messages
    /\ result.body \in {said.out, <<>>}
    /\ Contract!IsSubsequence(result.headers, ParsedHeaders(said.hdrs))

LEMMA AnswersFit == HInv => Answered
<1> SUFFICES ASSUME HInv, pc = "ok" PROVE Answered
  BY DEF Answered
<1> DEFINE hdrs == ctx.headers
           P    == {i \in DOMAIN hdrs : kind = "noop" \/ told["on_header"][i].answer}
<1>1. hdrs = ParsedHeaders(said.hdrs) /\ hdrs \in Seq(Header)
  BY AtTheEnd
<1>2. result.headers = Kept(hdrs, P)
  BY HeadersLetThrough DEF LetThrough
<1>3. P \in SUBSET (1 .. Len(hdrs))
  BY <1>1
<1>4. /\ ctx.status = ClampStatus(said.code) /\ ctx.messages = Messages
  BY AtTheEnd
<1>5. result.status = ctx.status /\ result.messages = ctx.messages
  <2>1. result = IntoResult(ctx, result.body, result.headers)
    BY DEF HInv, Reported
  <2> QED
    BY <2>1 DEF IntoResult
<1>6. result.body \in {said.out, <<>>}
  BY DEF HInv, RestTold
<1> HIDE DEF hdrs, P
<1>7. Contract!IsSubsequence(Kept(hdrs, P), hdrs)
  BY <1>3, SameFilter DEF Contract!IsSubsequence
<1> QED
  BY <1>1, <1>2, <1>4, <1>5, <1>6, <1>7 DEF Answered

\* Len(said.out) and Len(said.logs) say all there is to say of them.
LEMMA Counted ==
    ASSUME HInv
    PROVE  /\ said.out = Contract!Written(Call, Len(said.out))
           /\ [i \in DOMAIN Messages |-> Messages[i].no] = Contract!Written(Call, Len(said.logs))
<1>1. said.out = [i \in 1 .. Len(said.out) |-> <<Call, i>>]
  BY DEF HInv, Words
<1>2. DOMAIN Messages = 1 .. Len(said.logs)
  BY DEF Messages
<1>3. \A i \in DOMAIN Messages : Messages[i].no = <<Call, i>>
  BY DEF Messages, FromSyslog
<1> DEFINE numbers == [i \in DOMAIN Messages |-> Messages[i].no]
<1>4. numbers = [i \in 1 .. Len(said.logs) |-> <<Call, i>>]
  BY <1>2, <1>3
<1> HIDE DEF numbers
<1>5. \A n : Contract!Written(Call, n) = [i \in 1 .. n |-> <<Call, i>>]
  BY SameWords
<1>6. /\ said.out = Contract!Written(Call, Len(said.out))
      /\ numbers = Contract!Written(Call, Len(said.logs))
  BY <1>1, <1>4, <1>5
<1> QED
  BY <1>6 DEF numbers

LEMMA AnswerKeeps ==
    ASSUME HInv, Answered', OnRequestFinished
    PROVE  Contract!Next
<1>1. pc = "finished" /\ pc' = "ok" /\ said' = said /\ result' = result
  BY DEF OnRequestFinished, Plain, Goto
<1>2. Working /\ Over'
  BY <1>1 DEF Working, Over, Outcomes
<1>3. Contract!Finish(Call)
  BY <1>2, FinishKeeps
<1> DEFINE r == Response'
<1>4. LastCall' = [call |-> Call, outcome |-> "ok", response |-> r, heard |-> Unheard]
  BY <1>1, <1>2 DEF LastCall, Unheard
<1>5. /\ result.status = ClampStatus(said.code)
      /\ result.messages = Messages
      /\ result.body \in {said.out, <<>>}
      /\ Contract!IsSubsequence(result.headers, ParsedHeaders(said.hdrs))
  BY <1>1 DEF Answered, Messages
<1>6. /\ r.status = result.status /\ r.body = result.body /\ r.headers = result.headers
      /\ r.messages = [i \in DOMAIN Messages |-> Messages[i].no]
  <2>1. result = IntoResult(ctx, result.body, result.headers)
    BY <1>1 DEF HInv, Reported
  <2>2. IsResult(result)
    BY <2>1 DEF IsResult, IntoResult
  <2>3. r = [result EXCEPT !.messages = [i \in DOMAIN Messages |-> Messages[i].no]]
    BY <1>1, <1>5 DEF Response
  <2> HIDE DEF r
  <2> DEFINE numbers == [i \in DOMAIN Messages |-> Messages[i].no]
  <2>4. r = [result EXCEPT !.messages = numbers]
    BY <2>3
  <2> HIDE DEF numbers
  <2>5. r = [status |-> result.status, body |-> result.body, headers |-> result.headers,
             messages |-> numbers]
    BY <2>2, <2>4 DEF IsResult
  <2> QED
    BY <2>5 DEF numbers
<1> HIDE DEF r
<1>7. /\ Speech[Call].chunks = Len(said.out) /\ Speech[Call].logs = Len(said.logs)
      /\ Speech[Call].hdrs = said.hdrs /\ Speech[Call].code = said.code
  BY <1>2 DEF Speech
<1>8. /\ LastCall'.response = r /\ LastCall'.call = Call /\ LastCall'.outcome = "ok"
      /\ LastCall'.heard = Unheard
  BY <1>4
<1>9. /\ r.status = Contract!ClampStatus(Speech[Call].code)
      /\ r.messages = Contract!Written(Call, Speech[Call].logs)
      /\ r.body \in {Contract!Written(Call, Speech[Call].chunks), <<>>}
      /\ Contract!IsSubsequence(r.headers, Contract!ParsedHeaders(Speech[Call].hdrs))
  BY <1>5, <1>6, <1>7, Counted, SameWords, SameHeaders
<1>10. Modes[Call] = "hooks" /\ Heard[Call] = Unheard
  BY DEF Modes, Heard
<1>11. Contract!Answer(Call)
  BY <1>3, <1>8, <1>9, <1>10, SameWords DEF Contract!Answer, Speech, LastCall, Modes, Heard,
     Unheard, Response
<1> QED
  BY <1>11 DEF Contract!Next

\* Nothing is taken back: a sequence extends itself.
LEMMA ExtendsSame ==
    ASSUME NEW S, NEW t \in Seq(S)
    PROVE  Contract!Extends(t, t)
<1>1. SubSeq(t, 1, Len(t)) = t /\ Len(t) \in Nat
  OBVIOUS
<1> QED
  BY <1>1 DEF Contract!Extends

LEMMA ExtendsAppend ==
    ASSUME NEW S, NEW t \in Seq(S), NEW x \in S
    PROVE  Contract!Extends(Append(t, x), t)
<1>1. SubSeq(Append(t, x), 1, Len(t)) = t
      /\ Len(Append(t, x)) = Len(t) + 1 /\ Len(t) \in Nat
  OBVIOUS
<1> QED
  BY <1>1 DEF Contract!Extends

\* What PHP says: one more piece, header, code or message.
LEMMA SpeechKeeps ==
    ASSUME HInv,
           \/ Write
           \/ \E line \in Lines : SetHeader(line)
           \/ \E code \in Codes : SetCode(code)
           \/ \E raw \in RawLevels : Log(raw)
    PROVE  Contract!Next
<1>1. Working /\ Working'
  <2>1. pc \in EnginePcs /\ pc' = pc
    BY DEF Write, SetHeader, SetCode, Log, EnginePcs
  <2> QED
    BY <2>1 DEF Working, Over, Outcomes, EnginePcs
<1>2. /\ said.hdrs \in Seq(Header) /\ said.logs \in Seq(RawLevels)
      /\ said.out \in Seq({Call} \X Nat)
      /\ said = [out |-> said.out, hdrs |-> said.hdrs, code |-> said.code, logs |-> said.logs]
  BY DEF HInv, Words
<1>3. /\ Len(said.out) \in Nat /\ Len(said.logs) \in Nat
      /\ Contract!Extends(said.hdrs, said.hdrs)
  BY <1>2, ExtendsSame
<1>4. CASE Write
  <2> DEFINE piece == <<Call, Len(said.out) + 1>>
  <2>1. said' = [said EXCEPT !.out = Append(said.out, piece)]
    BY <1>4 DEF Write
  <2>2. piece \in {Call} \X Nat
    BY <1>3
  <2> HIDE DEF piece
  <2>3. Len(Append(said.out, piece)) = Len(said.out) + 1
    BY <1>2, <2>2
  <2>4. said'.out = Append(said.out, piece) /\ said'.logs = said.logs /\ said'.hdrs = said.hdrs
    BY <1>2, <2>1
  <2> QED
    BY <1>1, <1>3, <2>3, <2>4, SaysKeeps
<1>5. ASSUME NEW line \in Lines, SetHeader(line) PROVE Contract!Next
  <2> DEFINE h == Listed(Len(said.hdrs) + 1, line)
  <2>1. said' = [said EXCEPT !.hdrs = Append(said.hdrs, h)] /\ Len(said.hdrs) < MaxHeaders
    BY <1>5 DEF SetHeader
  <2>2. h \in Header
    <3>1. Len(said.hdrs) + 1 \in 1 .. MaxHeaders
      BY <1>2, <2>1, HookBounds
    <3> QED
      BY <3>1 DEF Header
  <2> HIDE DEF h
  <2>3. Contract!Extends(Append(said.hdrs, h), said.hdrs)
    BY <1>2, <2>2, ExtendsAppend
  <2>4. said'.out = said.out /\ said'.logs = said.logs /\ said'.hdrs = Append(said.hdrs, h)
    BY <1>2, <2>1
  <2> QED
    BY <1>1, <1>3, <2>3, <2>4, SaysKeeps
<1>6. ASSUME NEW code \in Codes, SetCode(code) PROVE Contract!Next
  <2>1. said'.out = said.out /\ said'.logs = said.logs /\ said'.hdrs = said.hdrs
    BY <1>2, <1>6 DEF SetCode
  <2> QED
    BY <1>1, <1>3, <2>1, SaysKeeps
<1>7. ASSUME NEW raw \in RawLevels, Log(raw) PROVE Contract!Next
  <2>1. said' = [said EXCEPT !.logs = Append(said.logs, raw)]
    BY <1>7 DEF Log
  <2>2. Len(Append(said.logs, raw)) = Len(said.logs) + 1
    BY <1>2
  <2>3. said'.out = said.out /\ said'.logs = Append(said.logs, raw) /\ said'.hdrs = said.hdrs
    BY <1>2, <2>1
  <2> QED
    BY <1>1, <1>3, <2>2, <2>3, SaysKeeps
<1> QED
  BY <1>4, <1>5, <1>6, <1>7

LEMMA NextKeeps ==
    ASSUME HInv, Fresh, Answered', [Next]_vars
    PROVE  Contract!Next \/ UNCHANGED Contract!vars
<1>1. CASE UNCHANGED vars
  BY <1>1 DEF vars, Contract!vars, Working, Over
<1>2. CASE Start
  BY <1>2, StartKeeps
<1>3. CASE \/ OnContextCreated \/ OnRequestStarting \/ OnRequestStarted \/ OnScriptExecuting
           \/ OnScriptExecuted \/ OnRequestFinishing \/ OnStatus \/ OnPhpMessage
  <2>1. Working /\ Working' /\ said' = said
    BY <1>3 DEF OnContextCreated, OnRequestStarting, OnRequestStarted, OnScriptExecuting,
       OnScriptExecuted, OnRequestFinishing, OnStatus, OnPhpMessage, Plain, Goto,
       Working, Over, Outcomes
  <2> QED
    BY <2>1, HiddenKeeps
<1>4. CASE \/ \E allowed \in BOOLEAN : OnHeader(allowed)
           \/ HeadersDone \/ MessagesDone
           \/ \E action \in {"Continue", "Done"} : OnOutput(action)
  <2>1. Working /\ Working' /\ said' = said
    BY <1>4 DEF OnHeader, HeadersDone, MessagesDone, OnOutput, Goto, Working, Over, Outcomes
  <2> QED
    BY <2>1, HiddenKeeps
<1>5. CASE StartupOk \/ ScriptEnds \/ ShutdownEnds \/ PhpFlushes
  <2>1. Working /\ Working' /\ said' = said
    BY <1>5 DEF StartupOk, ScriptEnds, ShutdownEnds, PhpFlushes, Goto, Working, Over, Outcomes
  <2> QED
    BY <2>1, HiddenKeeps
<1>6. CASE OnRequestFinished
  BY <1>6, AnswerKeeps
<1>7. CASE HookPanics
  <2>1. pc \in HookPcs /\ pc' = "panicked" /\ result' = NoResult
    <3>1. kind \in Kinds
      BY DEF HInv
    <3> QED
      BY <1>7, <3>1 DEF HookPanics, HookPcs, Kinds
  <2>2. Working
    BY <2>1 DEF Working, Over, Outcomes, HookPcs
  <2> QED
    BY <2>1, <2>2, GiveUpKeeps
<1>8. CASE StartupFails
  <2>1. pc = "startup" /\ pc' = "startup_failed" /\ result' = result
    BY <1>8 DEF StartupFails, Goto
  <2>2. result = NoResult
    BY <2>1 DEF HInv, Reported, Opening
  <2>3. Working
    BY <2>1 DEF Working, Over, Outcomes
  <2> QED
    BY <2>1, <2>2, <2>3, GiveUpKeeps
<1>9. CASE \/ Write
           \/ \E line \in Lines : SetHeader(line)
           \/ \E code \in Codes : SetCode(code)
           \/ \E raw \in RawLevels : Log(raw)
  BY <1>9, SpeechKeeps
<1> QED
  BY <1>1, <1>2, <1>3, <1>4, <1>5, <1>6, <1>7, <1>8, <1>9 DEF Next, Executor, Engine

\* execute_with_hooks, hook by hook, keeps the contract of execute.
THEOREM KeepsContract == Spec => ImplementsContract
<1>1. Init => Contract!Init
  BY ContractInit
<1>2. HInv /\ Fresh /\ Answered' /\ [Next]_vars => [Contract!Next]_(Contract!vars)
  BY NextKeeps
<1>3. HInv => Answered
  BY AnswersFit
<1> QED
  BY <1>1, <1>2, <1>3, AlwaysHolds, FreshAlways, PTL DEF Spec, ImplementsContract, Contract!Spec
=============================================================================
