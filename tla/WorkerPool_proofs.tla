-------------------------- MODULE WorkerPool_proofs --------------------------
(***************************************************************************)
(* The pool and its workers, for any number of workers, requests and       *)
(* crashes, and any sizes of frames and pipes, and what the encoding of    *)
(* their protocol keeps of a request.                                      *)
(*                                                                         *)
(* While the client serves, at most one worker, the one in use, has        *)
(* anything in its pipes, and the units of the one request or response     *)
(* under way there end with the only unit that completes it.  What happens *)
(* once the pool is dropped or the client is gone only has to keep its     *)
(* types.                                                                  *)
(***************************************************************************)
EXTENDS WorkerPool, SequenceTheorems, TLAPS

-----------------------------------------------------------------------------
(* Which requests survive the encoding, for any values of the options. *)

\* A request has the three options and nothing else.
IsRecord(r) == r = [uri |-> r.uri, ctype |-> r.ctype, body |-> r.body]

\* An option that is there is not Absent, and `default` stands for one that
\* is missing: AsText and AsBytes change neither.
LEMMA Conversions ==
    /\ Absent.type = "absent"
    /\ AsText(Absent) = Absent
    /\ AsBytes(Absent) = Absent
    /\ \A v : v.type = "text" => AsText(v) = v /\ v # Absent
    /\ \A v : v.type \in {"utf8", "binary"} => AsBytes(v) = v /\ v # Absent
    BY DEF Absent, AsText, AsBytes

\* The lengths and elements of what Encode puts together.
LEMMA Joined ==
    ASSUME NEW a, NEW b, NEW c
    PROVE  /\ (<<a>> \o <<>>) \o <<>> = <<a>>
           /\ Len((<<a>> \o <<>>) \o <<b>>) = 2
           /\ ((<<a>> \o <<>>) \o <<b>>)[2] = b
           /\ Len((<<a>> \o <<b>>) \o <<>>) = 2
           /\ ((<<a>> \o <<b>>) \o <<>>)[1] = a
           /\ ((<<a>> \o <<b>>) \o <<>>)[2] = b
           /\ Len((<<a>> \o <<b>>) \o <<c>>) = 3
           /\ ((<<a>> \o <<b>>) \o <<c>>)[1] = a
           /\ ((<<a>> \o <<b>>) \o <<c>>)[2] = b
           /\ ((<<a>> \o <<b>>) \o <<c>>)[3] = c
<1> DEFINE S == {a, b, c}
<1>1. /\ <<>> \in Seq(S)
      /\ <<a>> \in Seq(S) /\ Len(<<a>>) = 1 /\ <<a>>[1] = a
      /\ <<b>> \in Seq(S) /\ Len(<<b>>) = 1 /\ <<b>>[1] = b
      /\ <<c>> \in Seq(S) /\ Len(<<c>>) = 1 /\ <<c>>[1] = c
      OBVIOUS
<1>2. <<a>> \o <<>> = <<a>>
      BY <1>1, ConcatEmptySeq
<1>3. LET ab == <<a>> \o <<b>>
      IN  ab \in Seq(S) /\ Len(ab) = 2 /\ ab[1] = a /\ ab[2] = b /\ ab \o <<>> = ab
  <2> HIDE DEF S
  <2> QED
      BY <1>1, ConcatProperties, ConcatEmptySeq
<1>4. LET abc == (<<a>> \o <<b>>) \o <<c>>
      IN  Len(abc) = 3 /\ abc[1] = a /\ abc[2] = b /\ abc[3] = c
  <2> HIDE DEF S
  <2> QED
      BY <1>1, <1>3, ConcatProperties
<1> QED
    BY <1>1, <1>2, <1>3, <1>4

\* A request without gaps keeps each option at its place.
LEMMA NoGapKeepsPlaces ==
    ASSUME NEW r, IsRequest(r), NoGap(r)
    PROVE  /\ At(Encode(r), 1) = r.uri
           /\ At(Encode(r), 2) = r.ctype
           /\ At(Encode(r), 3) = r.body
<1>1. CASE r.uri = Absent
  <2>1. Encode(r) = <<>>
        BY <1>1 DEF NoGap, Encode, Field
  <2> QED
      BY <1>1, <2>1 DEF NoGap, At
<1>2. CASE r.uri # Absent /\ r.ctype = Absent
  <2>1. Encode(r) = <<r.uri>>
        BY <1>2, Joined DEF NoGap, Encode, Field
  <2> QED
      BY <1>2, <2>1 DEF NoGap, At
<1>3. CASE r.uri # Absent /\ r.ctype # Absent /\ r.body = Absent
  <2>1. Encode(r) = (<<r.uri>> \o <<r.ctype>>) \o <<>>
        BY <1>3 DEF Encode, Field
  <2> QED
      BY <1>3, <2>1, Joined DEF At
<1>4. CASE r.uri # Absent /\ r.ctype # Absent /\ r.body # Absent
  <2>1. Encode(r) = (<<r.uri>> \o <<r.ctype>>) \o <<r.body>>
        BY <1>4 DEF Encode, Field
  <2> QED
      BY <2>1, Joined DEF At
<1> QED
    BY <1>1, <1>2, <1>3, <1>4

(* A request in which no option follows a missing one is decoded, and as   *)
(* what it was: Some/Some/Some, as the tests of protocol.rs try it, but    *)
(* also None/None/None, which is what a benchmark without a body sends.    *)
THEOREM NoGapRoundTrip ==
    ASSUME NEW r, IsRecord(r), IsRequest(r), NoGap(r)
    PROVE  Decodes(Encode(r)) /\ Decode(Encode(r)) = r
<1>1. /\ AsText(r.uri) = r.uri /\ r.uri.type # "binary"
      /\ AsText(r.ctype) = r.ctype /\ r.ctype.type # "binary"
      /\ AsBytes(r.body) = r.body
      BY Conversions DEF IsRequest
<1>2. Decodes(Encode(r))
      BY <1>1, NoGapKeepsPlaces DEF Decodes
<1>3. Decode(Encode(r)) = [uri |-> r.uri, ctype |-> r.ctype, body |-> r.body]
      BY <1>1, NoGapKeepsPlaces DEF Decode
<1> QED
    BY <1>2, <1>3 DEF IsRecord

(* A request with a gap is never decoded as what it was: the first option  *)
(* after the gap moves into it.  PooledBackend sends every body this way,  *)
(* with a content type and without a uri.                                  *)
THEOREM GapIsFilled ==
    ASSUME NEW r, IsRequest(r), ~NoGap(r)
    PROVE  ~Decodes(Encode(r)) \/ Decode(Encode(r)) # r
<1>1. CASE r.uri = Absent
  <2>1. At(Encode(r), 1) # Absent
        BY <1>1 DEF NoGap, Encode, Field, At
  <2>2. AsText(At(Encode(r), 1)) # Absent
        BY <2>1 DEF AsText, Absent
  <2> QED
      BY <1>1, <2>2 DEF Decode
<1>2. CASE r.uri # Absent /\ r.ctype = Absent
  <2>1. Encode(r) = (<<r.uri>> \o <<>>) \o <<r.body>> /\ r.body # Absent
        BY <1>2 DEF NoGap, Encode, Field
  <2>2. AsText(At(Encode(r), 2)) # Absent
        BY <2>1, Joined DEF At, AsText, Absent
  <2> QED
      BY <1>2, <2>2 DEF Decode
<1> QED
    BY <1>1, <1>2 DEF NoGap
-----------------------------------------------------------------------------
(* What is in the pipes. *)

Orders ==
    [kind : {"exec"}, no : Nat, data : {Encode(r) : r \in Requests}]
        \cup {[kind |-> "shutdown"]}

Kinds   == {"exec", "error", "unreadable"}
Replies == [kind : Kinds, no : Nat, by : Workers]

Units(M)  == [msg : M, last : BOOLEAN]
Frames(M) == [msg : M \cup {NoMsg}, size : Nat \ {0}, done : Nat]

Types ==
    /\ TypeOK
    /\ asked \in Seq(Requests) /\ answers \in Seq(Replies)
    /\ DOMAIN job = Workers
    /\ request \in Frames(Orders) /\ reply \in [Workers -> Frames(Replies)]
    /\ toWorker \in [Workers -> Seq(Units(Orders))]
    /\ toClient \in [Workers -> Seq(Units(Replies))]
    /\ \A w \in Workers : worker[w] = "working" => job[w].no \in Nat
    /\ \A w \in Workers : worker[w] = "writing" =>
          reply[w].msg \in Replies /\ reply[w].done < reply[w].size
    /\ client = "writing" => request.msg \in Orders /\ request.done < request.size

\* Units of the frame of m: so far none of them completes it; the last one
\* does, and no other.
Partial(s, m) == \A i \in 1 .. Len(s) : s[i].msg = m /\ ~s[i].last
Whole(s, m) ==
    /\ s # <<>>
    /\ \A i \in 1 .. Len(s) : s[i].msg = m /\ (s[i].last <=> i = Len(s))

\* The pool is in use: the client is neither dropping it nor gone.
Serving == client \in {"idle", "writing", "reading"}

\* Whose turn it is, and what has been answered.
Turns == Serving =>
    /\ next = Len(asked) % N
    /\ client # "idle" => Len(asked) > 0 /\ cur = (Len(asked) - 1) % N
    /\ Len(asked) = IF client = "idle" THEN Len(answers) ELSE Len(answers) + 1

DiesByCrash == Serving => \A w \in Workers : worker[w] = "dead" => crashes > 0

\* Nothing is under way to or from worker w, or w is dead.
Waits(w) ==
    /\ toClient[w] = <<>>
    /\ worker[w] # "dead" => worker[w] \in {"booting", "reading"} /\ toWorker[w] = <<>>

OthersWait == Serving =>
    \A w \in Workers : client = "idle" \/ w # cur => Waits(w)

\* The answers to the request in progress.
Due == [kind : Kinds, no : {Len(asked)}, by : {cur}]

AskedOrder(m) == m \in Orders /\ m.kind = "exec" /\ m.no = Len(asked)

\* The request has not been sent whole.
Sending == client = "writing" =>
    /\ AskedOrder(request.msg)
    /\ toClient[cur] = <<>>
    /\ worker[cur] # "dead" =>
          worker[cur] \in {"booting", "reading"} /\ Partial(toWorker[cur], request.msg)

\* The request has: the worker has yet to read its end, ...
Arriving ==
    /\ worker[cur] \in {"booting", "reading"}
    /\ AskedOrder(request.msg) /\ Whole(toWorker[cur], request.msg)
    /\ toClient[cur] = <<>>

\* ... or works on it, ...
Working ==
    /\ worker[cur] = "working" /\ job[cur].no = Len(asked)
    /\ toWorker[cur] = <<>> /\ toClient[cur] = <<>>

\* ... or is writing the response, ...
Responding ==
    /\ worker[cur] = "writing" /\ reply[cur].msg \in Due
    /\ toWorker[cur] = <<>> /\ Partial(toClient[cur], reply[cur].msg)

\* ... or has written it, ...
Responded ==
    /\ worker[cur] = "reading" /\ toWorker[cur] = <<>>
    /\ \E m \in Due : Whole(toClient[cur], m)

\* ... or has died, with as much of the response in the pipe as it wrote.
Broken ==
    /\ worker[cur] = "dead"
    /\ \E m \in Due : Partial(toClient[cur], m) \/ Whole(toClient[cur], m)

Receiving == client = "reading" =>
    Arriving \/ Working \/ Responding \/ Responded \/ Broken

Inv ==
    /\ Types /\ Turns /\ DiesByCrash /\ OthersWait /\ Sending /\ Receiving
    /\ AnswersInOrder /\ PanicOnlyAfterCrash
-----------------------------------------------------------------------------
(* Arithmetic and pipes. *)

LEMMA EuclidUnique ==
    ASSUME NEW n \in Nat \ {0}, NEW q \in Nat, NEW r \in 0 .. n - 1
    PROVE  (n * q + r) % n = r
  OBVIOUS

\* The round robin: one turn further is the turn of one request more.
LEMMA NextTurn ==
    ASSUME NEW n \in Nat \ {0}, NEW k \in Nat
    PROVE  k % n \in 0 .. n - 1 /\ ((k % n) + 1) % n = (k + 1) % n
<1> DEFINE q == k \div n
           r == k % n
<1>1. q \in Nat /\ r \in 0 .. n - 1 /\ k = n * q + r
  OBVIOUS
<1> HIDE DEF q, r
<1>2. CASE r + 1 < n
  <2>1. k + 1 = n * q + (r + 1) /\ r + 1 \in 0 .. n - 1
    BY <1>1, <1>2
  <2>2. (r + 1) % n = r + 1
    BY <1>1, <1>2
  <2> QED
    BY <1>1, <2>1, <2>2, EuclidUnique DEF r
<1>3. CASE r + 1 = n
  <2>1. k + 1 = n * (q + 1) + 0 /\ q + 1 \in Nat /\ 0 \in 0 .. n - 1
    BY <1>1, <1>3
  <2>2. (k + 1) % n = 0
    BY <2>1, EuclidUnique
  <2>3. n % n = 0
    OBVIOUS
  <2> QED
    BY <1>1, <1>3, <2>2, <2>3 DEF r
<1> QED
  BY <1>1, <1>2, <1>3

\* A frame in a pipe grows by its next unit, ...
LEMMA Grow ==
    ASSUME NEW M, NEW s \in Seq(Units(M)), NEW u \in Units(M), Partial(s, u.msg)
    PROVE  /\ ~u.last => Partial(Append(s, u), u.msg)
           /\ u.last => Whole(Append(s, u), u.msg)
<1>1. /\ Len(Append(s, u)) = Len(s) + 1 /\ Len(s) \in Nat
      /\ \A i \in 1 .. Len(s) : Append(s, u)[i] = s[i]
      /\ Append(s, u)[Len(s) + 1] = u
      /\ Append(s, u) # <<>>
  BY AppendProperties, LenProperties
<1>2. \A i \in 1 .. Len(s) + 1 : i \in 1 .. Len(s) \/ i = Len(s) + 1
  BY <1>1
<1>3. \A i \in 1 .. Len(s) : s[i].msg = u.msg /\ ~s[i].last
  BY DEF Partial
<1>4. ~u.last => Partial(Append(s, u), u.msg)
  BY <1>1, <1>2, <1>3 DEF Partial
<1>5. u.last => Whole(Append(s, u), u.msg)
  BY <1>1, <1>2, <1>3 DEF Whole
<1> QED
  BY <1>4, <1>5

\* ... and shrinks by its first.
LEMMA Shrink ==
    ASSUME NEW M, NEW m, NEW s \in Seq(Units(M)), s # <<>>
    PROVE  /\ Head(s) \in Units(M) /\ Tail(s) \in Seq(Units(M))
           /\ Len(Tail(s)) = Len(s) - 1
           /\ Partial(s, m) => Head(s).msg = m /\ ~Head(s).last /\ Partial(Tail(s), m)
           /\ Whole(s, m) =>
                /\ Head(s).msg = m
                /\ Head(s).last => Tail(s) = <<>>
                /\ ~Head(s).last => Whole(Tail(s), m)
<1>1. /\ Head(s) \in Units(M) /\ Tail(s) \in Seq(Units(M))
      /\ Len(Tail(s)) = Len(s) - 1
      /\ \A i \in 1 .. Len(Tail(s)) : Tail(s)[i] = s[i + 1]
      /\ Head(s) = s[1] /\ Len(s) \in Nat \ {0}
  BY HeadTailProperties, EmptySeq
<1>2. \A i \in 1 .. Len(s) - 1 : i + 1 \in 1 .. Len(s) /\ (i + 1 = Len(s) <=> i = Len(s) - 1)
  BY <1>1
<1>3. Partial(s, m) => Head(s).msg = m /\ ~Head(s).last /\ Partial(Tail(s), m)
  BY <1>1, <1>2 DEF Partial
<1>4. ASSUME Whole(s, m)
      PROVE  /\ Head(s).msg = m
             /\ Head(s).last => Tail(s) = <<>>
             /\ ~Head(s).last => Whole(Tail(s), m)
  <2>1. s[1].msg = m /\ (s[1].last <=> 1 = Len(s))
    <3>1. 1 \in 1 .. Len(s)
      BY <1>1
    <3> QED
      BY <1>1, <1>4, <3>1 DEF Whole
  <2>2. Len(s) = 1 <=> Tail(s) = <<>>
    <3>1. Tail(s) = <<>> <=> Len(Tail(s)) = 0
      BY <1>1, EmptySeq
    <3> QED
      BY <1>1, <3>1
  <2>3. ASSUME NEW i \in 1 .. Len(Tail(s))
        PROVE  Tail(s)[i].msg = m /\ (Tail(s)[i].last <=> i = Len(Tail(s)))
    <3>1. i + 1 \in 1 .. Len(s) /\ (i + 1 = Len(s) <=> i = Len(Tail(s))) /\ Tail(s)[i] = s[i + 1]
      BY <1>1, <1>2
    <3>2. s[i + 1].msg = m /\ (s[i + 1].last <=> i + 1 = Len(s))
      BY <1>4, <3>1 DEF Whole
    <3> QED
      BY <3>1, <3>2
  <2> QED
    BY <1>1, <2>1, <2>2, <2>3 DEF Whole
<1> QED
  BY <1>1, <1>3, <1>4

LEMMA EmptyIsPartial == ASSUME NEW m PROVE Partial(<<>>, m)
  BY DEF Partial

LEMMA WholeIsNotEmpty == ASSUME NEW s, NEW m, Whole(s, m) PROVE s # <<>>
  BY DEF Whole

\* The unit a frame is due to send next.
LEMMA UnitOf ==
    ASSUME NEW M, NEW f \in Frames(M), f.msg \in M, f.done < f.size
    PROVE  /\ Unit(f) \in Units(M) /\ Unit(f).msg = f.msg
           /\ Unit(f).last <=> f.done + 1 = f.size
           /\ [f EXCEPT !.done = @ + 1] \in Frames(M)
           /\ [f EXCEPT !.done = @ + 1].msg = f.msg
           /\ ~Unit(f).last => [f EXCEPT !.done = @ + 1].done < [f EXCEPT !.done = @ + 1].size
<1>1. /\ f = [msg |-> f.msg, size |-> f.size, done |-> f.done]
      /\ f.size \in Nat \ {0} /\ f.done \in Nat
  BY DEF Frames
<1>2. [f EXCEPT !.done = @ + 1] = [msg |-> f.msg, size |-> f.size, done |-> f.done + 1]
  BY <1>1
<1>3. Unit(f) \in Units(M) /\ Unit(f).msg = f.msg /\ (Unit(f).last <=> f.done + 1 = f.size)
  <2>1. (f.done + 1 = f.size) \in BOOLEAN
    OBVIOUS
  <2> QED
    BY <2>1, Zenon DEF Unit, Units
<1> QED
  BY <1>1, <1>2, <1>3 DEF Frames
-----------------------------------------------------------------------------
(* Types. *)

LEMMA InitTypes == Init => Types
<1> USE PoolAssumption
<1> SUFFICES ASSUME Init PROVE Types
  OBVIOUS
<1>1. TypeOK
  BY DEF Init, TypeOK, Workers
<1>2. asked \in Seq(Requests) /\ answers \in Seq(Replies) /\ DOMAIN job = Workers
  BY DEF Init
<1>3. request \in Frames(Orders) /\ reply \in [Workers -> Frames(Replies)]
  BY DEF Init, Frames, Frame
<1>4. /\ toWorker \in [Workers -> Seq(Units(Orders))]
      /\ toClient \in [Workers -> Seq(Units(Replies))]
  BY EmptySeq DEF Init
<1> QED
  BY <1>1, <1>2, <1>3, <1>4 DEF Init, Types

LEMMA AskTypes ==
    ASSUME Types, NEW r \in Requests, NEW size \in Sizes, Ask(r, size)
    PROVE  Types'
<1> USE PoolAssumption
<1>1. next' \in Workers
  <2>1. next + 1 \in Nat
    BY DEF Types, TypeOK, Workers
  <2>2. (next + 1) % N \in 0 .. N - 1
    BY <2>1, NextTurn
  <2> QED
    BY <2>2 DEF Ask, Workers
<1>2. Asking(r) \in Orders
  BY LenProperties DEF Types, Asking, Orders
<1>3. /\ request' \in Frames(Orders) /\ request'.msg \in Orders
      /\ request'.done < request'.size
  BY <1>2 DEF Ask, Frame, Frames
<1>4. asked' \in Seq(Requests)
  BY AppendProperties DEF Types, Ask
<1> QED
  BY <1>1, <1>3, <1>4 DEF Types, TypeOK, Ask

LEMMA ClientWritesTypes ==
    ASSUME Types, ClientWrites
    PROVE  Types'
<1> USE PoolAssumption
<1>1. /\ cur \in Workers /\ toWorker[cur] \in Seq(Units(Orders))
      /\ request \in Frames(Orders) /\ request.msg \in Orders
      /\ request.done < request.size
  BY DEF Types, TypeOK, ClientWrites
<1>2. /\ Unit(request) \in Units(Orders)
      /\ request' \in Frames(Orders) /\ request'.msg \in Orders
      /\ ~Unit(request).last => request'.done < request'.size
  BY <1>1, UnitOf DEF ClientWrites
<1>3. /\ toWorker' \in [Workers -> Seq(Units(Orders))]
      /\ \A w \in Workers : Len(toWorker'[w]) <= PipeCap
  BY <1>1, <1>2, AppendProperties, LenProperties DEF Types, TypeOK, ClientWrites, Room
<1>4. client' \in {"writing", "reading"} /\ (client' = "writing" => ~Unit(request).last)
  BY DEF ClientWrites
<1> QED
  BY <1>2, <1>3, <1>4 DEF Types, TypeOK, ClientWrites

LEMMA ClientReadsTypes ==
    ASSUME Types, ClientReads
    PROVE  Types'
<1> DEFINE u == Head(toClient[cur])
<1>1. cur \in Workers /\ toClient[cur] \in Seq(Units(Replies)) /\ toClient[cur] # <<>>
  BY DEF Types, TypeOK, ClientReads
<1>2. /\ u \in Units(Replies) /\ Tail(toClient[cur]) \in Seq(Units(Replies))
      /\ Len(Tail(toClient[cur])) = Len(toClient[cur]) - 1
  BY <1>1, Shrink
<1>3. /\ toClient' \in [Workers -> Seq(Units(Replies))]
      /\ \A w \in Workers : Len(toClient'[w]) <= PipeCap
  BY <1>1, <1>2, LenProperties, PoolAssumption DEF Types, TypeOK, ClientReads
<1>4. answers' \in Seq(Replies) /\ client' \in {"idle", "reading"}
  <2>1. u.msg \in Replies /\ answers \in Seq(Replies)
    BY <1>2 DEF Units, Types
  <2>2. Append(answers, u.msg) \in Seq(Replies)
    BY <2>1, AppendProperties
  <2> QED
    BY <2>1, <2>2 DEF ClientReads
<1> QED
  BY <1>3, <1>4 DEF Types, TypeOK, ClientReads

LEMMA DropWorkerTypes ==
    ASSUME Types, DropWorker
    PROVE  Types'
<1> USE PoolAssumption
<1>1. cur \in Workers /\ toWorker[cur] \in Seq(Units(Orders))
  BY DEF Types, TypeOK
<1>2. Shutdown \in Units(Orders)
  BY DEF Shutdown, Units, Orders
<1>3. /\ toWorker' \in [Workers -> Seq(Units(Orders))]
      /\ \A w \in Workers : Len(toWorker'[w]) <= PipeCap
  <2>1. CASE worker[cur] = "dead"
    BY <2>1 DEF Types, TypeOK, DropWorker
  <2>2. CASE worker[cur] # "dead"
    <3> DEFINE t == Append(toWorker[cur], Shutdown)
    <3>1. t \in Seq(Units(Orders)) /\ Len(t) = Len(toWorker[cur]) + 1
      BY <1>1, <1>2, AppendProperties
    <3>2. Len(toWorker[cur]) < PipeCap /\ toWorker' = [toWorker EXCEPT ![cur] = t]
      BY <2>2 DEF DropWorker, Room
    <3>3. Len(toWorker[cur]) \in Nat
      BY <1>1, LenProperties
    <3>4. Len(t) <= PipeCap
      BY <3>1, <3>2, <3>3
    <3> HIDE DEF t
    <3> QED
      BY <1>1, <3>1, <3>2, <3>4 DEF Types, TypeOK
  <2> QED
    BY <2>1, <2>2
<1>4. cur' \in Workers /\ client' \in {"dropping", "gone"}
  BY <1>1 DEF DropWorker, Workers
<1> QED
  BY <1>3, <1>4 DEF Types, TypeOK, DropWorker

LEMMA WorkerReadsTypes ==
    ASSUME Types, NEW w \in Workers, WorkerReads(w)
    PROVE  Types'
<1> USE PoolAssumption
<1> DEFINE u == Head(toWorker[w])
<1>1. toWorker[w] \in Seq(Units(Orders)) /\ toWorker[w] # <<>> /\ worker[w] = "reading"
  BY DEF Types, WorkerReads
<1>2. /\ u \in Units(Orders) /\ Tail(toWorker[w]) \in Seq(Units(Orders))
      /\ Len(Tail(toWorker[w])) = Len(toWorker[w]) - 1
  BY <1>1, Shrink
<1>3. /\ toWorker' \in [Workers -> Seq(Units(Orders))]
      /\ \A v \in Workers : Len(toWorker'[v]) <= PipeCap
  BY <1>1, <1>2, LenProperties DEF Types, TypeOK, WorkerReads
<1>4. UNCHANGED <<client, panicked, next, cur, asked, answers, request, toClient, crashes>>
  BY DEF WorkerReads
<1>5. CASE ~u.last
  BY <1>3, <1>4, <1>5 DEF Types, TypeOK, WorkerReads
<1>6. CASE u.last /\ u.msg.kind = "shutdown"
  BY <1>3, <1>4, <1>6 DEF Types, TypeOK, WorkerReads, Become
<1>7. CASE u.last /\ u.msg.kind # "shutdown"
  <2>1. u.msg.no \in Nat
    BY <1>2, <1>7 DEF Units, Orders
  <2>2. CASE Decodes(u.msg.data)
    <3>1. /\ worker' = [worker EXCEPT ![w] = "working"] /\ reply' = reply
          /\ job' = [job EXCEPT ![w] = [no |-> u.msg.no, data |-> Decode(u.msg.data)]]
      BY <1>7, <2>2 DEF WorkerReads, Become
    <3> QED
      BY <1>1, <1>3, <1>4, <2>1, <3>1 DEF Types, TypeOK
  <2>3. CASE ~Decodes(u.msg.data)
    <3>1. PICK size \in Sizes :
             /\ worker' = [worker EXCEPT ![w] = "writing"] /\ job' = job
             /\ Responds(w, u.msg.no, "unreadable", size)
      BY <1>7, <2>3 DEF WorkerReads, Become
    <3> DEFINE f == Frame([kind |-> "unreadable", no |-> u.msg.no, by |-> w], size)
    <3>2. f \in Frames(Replies) /\ f.msg \in Replies /\ f.done < f.size
      BY <2>1 DEF Frame, Frames, Replies, Kinds
    <3>3. reply' = [reply EXCEPT ![w] = f]
      BY <3>1 DEF Responds
    <3> HIDE DEF f
    <3> QED
      BY <1>1, <1>3, <1>4, <3>1, <3>2, <3>3 DEF Types, TypeOK
  <2> QED
    BY <2>2, <2>3
<1> QED
  BY <1>5, <1>6, <1>7

LEMMA ExecuteTypes ==
    ASSUME Types, NEW w \in Workers, Execute(w)
    PROVE  Types'
<1>1. PICK kind \in {"exec", "error"}, size \in Sizes :
         /\ worker[w] = "working" /\ worker' = [worker EXCEPT ![w] = "writing"]
         /\ Responds(w, job[w].no, kind, size)
         /\ UNCHANGED <<client, panicked, next, cur, asked, answers, job, request,
                        toWorker, toClient, crashes>>
  BY DEF Execute, Become
<1> DEFINE f == Frame([kind |-> kind, no |-> job[w].no, by |-> w], size)
<1>2. f \in Frames(Replies) /\ f.msg \in Replies /\ f.done < f.size
  BY <1>1, PoolAssumption DEF Types, Frame, Frames, Replies, Kinds
<1>3. reply' = [reply EXCEPT ![w] = f]
  BY <1>1 DEF Responds
<1> HIDE DEF f
<1> QED
  BY <1>1, <1>2, <1>3 DEF Types, TypeOK

LEMMA WorkerWritesTypes ==
    ASSUME Types, NEW w \in Workers, WorkerWrites(w)
    PROVE  Types'
<1>1. /\ worker[w] = "writing" /\ toClient[w] \in Seq(Units(Replies))
      /\ reply[w] \in Frames(Replies) /\ reply[w].msg \in Replies
      /\ reply[w].done < reply[w].size
  BY DEF Types, WorkerWrites
<1> DEFINE g == [reply[w] EXCEPT !.done = @ + 1]
<1>2. /\ Unit(reply[w]) \in Units(Replies)
      /\ g \in Frames(Replies) /\ g.msg \in Replies
      /\ ~Unit(reply[w]).last => g.done < g.size
  BY <1>1, UnitOf
<1>3. reply' = [reply EXCEPT ![w] = g]
  BY DEF WorkerWrites
<1>4. /\ toClient' \in [Workers -> Seq(Units(Replies))]
      /\ \A v \in Workers : Len(toClient'[v]) <= PipeCap
  BY <1>1, <1>2, AppendProperties, LenProperties, PoolAssumption
     DEF Types, TypeOK, WorkerWrites, Room
<1> HIDE DEF g
<1>5. worker' = IF Unit(reply[w]).last THEN [worker EXCEPT ![w] = "reading"] ELSE worker
  BY DEF WorkerWrites
<1>6. UNCHANGED <<client, panicked, next, cur, asked, answers, job, request, toWorker, crashes>>
  BY DEF WorkerWrites
<1> QED
  BY <1>1, <1>2, <1>3, <1>4, <1>5, <1>6 DEF Types, TypeOK

LEMMA NextTypes == Types /\ [Next]_vars => Types'
<1> SUFFICES ASSUME Types, [Next]_vars PROVE Types'
  OBVIOUS
<1>1. CASE UNCHANGED vars
  BY <1>1 DEF vars, Types, TypeOK
<1>2. CASE Asks
  BY <1>2, AskTypes DEF Asks
<1>3. CASE DropPool \/ ClientKilled \/ ClientPanics
  <2>1. 0 \in Workers
    BY PoolAssumption DEF Workers
  <2>2. /\ client' \in {"dropping", "gone"} /\ panicked' \in BOOLEAN /\ cur' \in {cur, 0}
        /\ UNCHANGED <<next, asked, answers, worker, job, request, reply,
                       toWorker, toClient, crashes>>
    BY <1>3 DEF DropPool, ClientKilled, ClientPanics, Types, TypeOK
  <2> QED
    BY <2>1, <2>2 DEF Types, TypeOK
<1>4. CASE ClientWrites \/ ClientReads \/ DropWorker
  BY <1>4, ClientWritesTypes, ClientReadsTypes, DropWorkerTypes
<1>5. ASSUME NEW w \in Workers, WorkerGoesOn(w) \/ Crash(w)
      PROVE  Types'
  <2>1. CASE Boot(w)
    BY <2>1 DEF Boot, Become, Types, TypeOK
  <2>2. CASE WorkerReads(w) \/ Execute(w) \/ WorkerWrites(w)
    BY <2>2, WorkerReadsTypes, ExecuteTypes, WorkerWritesTypes
  <2>3. CASE WorkerFindsClosed(w)
    BY <2>3 DEF WorkerFindsClosed, Become, Types, TypeOK
  <2>4. CASE Crash(w)
    BY <2>4, PoolAssumption DEF Crash, Types, TypeOK
  <2> QED
    BY <1>5, <2>1, <2>2, <2>3, <2>4 DEF WorkerGoesOn
<1> QED
  BY <1>1, <1>2, <1>3, <1>4, <1>5 DEF Next, ClientGoesOn
-----------------------------------------------------------------------------
(* The invariant. *)

LEMMA InitInv == Init => Inv
<1> USE PoolAssumption
<1> SUFFICES ASSUME Init PROVE Inv
  OBVIOUS
<1>1. Types
  BY InitTypes
<1>2. Turns /\ DiesByCrash
  BY EuclidUnique DEF Init, Turns, DiesByCrash
<1>3. OthersWait /\ Sending /\ Receiving
  BY DEF Init, OthersWait, Waits, Sending, Receiving
<1>4. AnswersInOrder /\ PanicOnlyAfterCrash
  BY DEF Init, AnswersInOrder, PanicOnlyAfterCrash
<1> QED
  BY <1>1, <1>2, <1>3, <1>4 DEF Inv

\* Once the client has stopped serving only the types are left to keep.
LEMMA Stopped ==
    ASSUME Inv, Types', ~Serving', answers' = answers,
           panicked' => panicked \/ crashes > 0, crashes' >= crashes
    PROVE  Inv'
<1>1. Turns' /\ DiesByCrash' /\ OthersWait'
  BY DEF Turns, DiesByCrash, OthersWait
<1>2. Sending' /\ Receiving'
  BY DEF Serving, Sending, Receiving
<1>3. AnswersInOrder' /\ PanicOnlyAfterCrash'
  BY DEF Inv, Types, TypeOK, AnswersInOrder, PanicOnlyAfterCrash
<1> QED
  BY <1>1, <1>2, <1>3 DEF Inv

LEMMA AskStep ==
    ASSUME Inv, Types', NEW r \in Requests, NEW size \in Sizes, Ask(r, size)
    PROVE  Inv'
<1> USE PoolAssumption
<1>1. /\ client = "idle" /\ client' = "writing"
      /\ cur' = next /\ next' = (next + 1) % N
      /\ asked' = Append(asked, r)
      /\ UNCHANGED <<panicked, answers, worker, job, reply, toWorker, toClient, crashes>>
  BY DEF Ask
<1>2. /\ Len(asked') = Len(asked) + 1 /\ Len(asked) \in Nat
      /\ Len(answers) = Len(asked) /\ next = Len(asked) % N
  BY <1>1, AppendProperties, LenProperties DEF Inv, Types, Turns, Serving
<1>3. Turns'
  <2>1. next' = Len(asked') % N
    BY <1>1, <1>2, NextTurn
  <2>2. Len(asked') > 0 /\ cur' = (Len(asked') - 1) % N
    BY <1>1, <1>2
  <2> QED
    BY <1>1, <1>2, <2>1, <2>2 DEF Turns
<1>4. \A w \in Workers : Waits(w)'
  BY <1>1 DEF Inv, OthersWait, Serving, Waits
<1>5. cur' \in Workers
  BY DEF Types, TypeOK
<1>6. Sending'
  <2>1. AskedOrder(request.msg)'
    BY <1>1, <1>2 DEF Ask, Asking, Frame, AskedOrder, Types
  <2>2. worker'[cur'] # "dead" =>
           worker'[cur'] \in {"booting", "reading"} /\ Partial(toWorker'[cur'], request'.msg)
    BY <1>4, <1>5, EmptyIsPartial DEF Waits
  <2> QED
    BY <1>4, <1>5, <2>1, <2>2 DEF Sending, Waits
<1>7. OthersWait' /\ Receiving' /\ DiesByCrash'
  BY <1>1, <1>4 DEF OthersWait, Receiving, DiesByCrash, Serving, Inv
<1>8. AnswersInOrder' /\ PanicOnlyAfterCrash'
  BY <1>1 DEF Inv, AnswersInOrder, PanicOnlyAfterCrash
<1> QED
  BY <1>3, <1>6, <1>7, <1>8 DEF Inv

LEMMA ClientWritesStep ==
    ASSUME Inv, Types', ClientWrites
    PROVE  Inv'
<1> DEFINE u == Unit(request)
<1>1. /\ client = "writing" /\ worker[cur] # "dead"
      /\ toWorker' = [toWorker EXCEPT ![cur] = Append(@, u)]
      /\ request' = [request EXCEPT !.done = @ + 1]
      /\ client' = IF u.last THEN "reading" ELSE "writing"
      /\ UNCHANGED <<panicked, next, cur, asked, answers, worker, job, reply, toClient, crashes>>
  BY DEF ClientWrites
<1>2. /\ cur \in Workers /\ toWorker[cur] \in Seq(Units(Orders))
      /\ request \in Frames(Orders) /\ request.msg \in Orders
      /\ request.done < request.size
  BY <1>1 DEF Inv, Types, TypeOK
<1>3. u \in Units(Orders) /\ u.msg = request.msg /\ request'.msg = request.msg
  BY <1>1, <1>2, UnitOf
<1>4. /\ AskedOrder(request.msg) /\ toClient[cur] = <<>>
      /\ worker[cur] \in {"booting", "reading"} /\ Partial(toWorker[cur], request.msg)
  BY <1>1 DEF Inv, Sending
<1>5. /\ ~u.last => Partial(toWorker'[cur], request.msg)
      /\ u.last => Whole(toWorker'[cur], request.msg)
  <2>1. toWorker'[cur] = Append(toWorker[cur], u)
    BY <1>1, <1>2 DEF Inv, Types
  <2> HIDE DEF u
  <2> QED
    BY <1>2, <1>3, <1>4, <2>1, Grow
<1>6. AskedOrder(request.msg)'
  BY <1>1, <1>3, <1>4 DEF AskedOrder
<1>7. Sending' /\ Receiving'
  BY <1>1, <1>3, <1>4, <1>5, <1>6 DEF Sending, Receiving, Arriving
<1>8. OthersWait'
  <2> SUFFICES ASSUME NEW w \in Workers, w # cur PROVE Waits(w)'
    BY <1>1 DEF OthersWait, Serving
  <2>1. Waits(w) /\ toWorker'[w] = toWorker[w]
    BY <1>1 DEF Inv, Types, OthersWait, Serving
  <2> QED
    BY <1>1, <2>1 DEF Waits
<1>9. Turns' /\ DiesByCrash' /\ AnswersInOrder' /\ PanicOnlyAfterCrash'
  BY <1>1 DEF Inv, Turns, DiesByCrash, Serving, AnswersInOrder, PanicOnlyAfterCrash
<1> QED
  BY <1>7, <1>8, <1>9 DEF Inv

LEMMA ClientReadsStep ==
    ASSUME Inv, Types', ClientReads
    PROVE  Inv'
<1> DEFINE u == Head(toClient[cur])
           t == Tail(toClient[cur])
<1>1. /\ client = "reading" /\ toClient[cur] # <<>>
      /\ IF u.last THEN client' = "idle" /\ answers' = Append(answers, u.msg)
         ELSE UNCHANGED <<client, answers>>
      /\ toClient' = [toClient EXCEPT ![cur] = t]
      /\ UNCHANGED <<panicked, next, cur, asked, worker, job, request, reply, toWorker, crashes>>
  BY DEF ClientReads
<1>2. /\ cur \in Workers /\ toClient[cur] \in Seq(Units(Replies))
      /\ toClient'[cur] = t
  BY <1>1 DEF Inv, Types, TypeOK
<1>3. Responding \/ Responded \/ Broken
  BY <1>1 DEF Inv, Receiving, Arriving, Working
<1>4. PICK m \in Due :
         /\ Partial(toClient[cur], m) \/ Whole(toClient[cur], m)
         /\ Responding => m = reply[cur].msg /\ Partial(toClient[cur], m)
         /\ Responded => Whole(toClient[cur], m)
  <2>1. CASE Responding
    BY <2>1 DEF Responding, Responded
  <2>2. CASE Responded
    BY <2>2 DEF Responding, Responded
  <2>3. CASE Broken
    BY <2>3 DEF Responding, Responded, Broken
  <2> QED
    BY <1>3, <2>1, <2>2, <2>3
<1>5. /\ Partial(toClient[cur], m) => u.msg = m /\ ~u.last /\ Partial(t, m)
      /\ Whole(toClient[cur], m) =>
            u.msg = m /\ (u.last => t = <<>>) /\ (~u.last => Whole(t, m))
  BY <1>1, <1>2, Shrink
<1> HIDE DEF u, t
<1>6. Due' = Due
  BY <1>1 DEF Due
<1>7. OthersWait' /\ Receiving' /\ Sending'
  <2>1. ASSUME NEW w \in Workers, w # cur PROVE Waits(w)'
    <3>1. Waits(w) /\ toClient'[w] = toClient[w]
      BY <1>1, <2>1 DEF Inv, Types, OthersWait, Serving
    <3> QED
      BY <1>1, <3>1 DEF Waits
  <2>2. CASE u.last
    <3>1. Whole(toClient[cur], m) /\ t = <<>> /\ client' = "idle"
      BY <1>1, <1>4, <1>5, <2>2
    <3>2. Responded \/ Broken
      BY <1>3, <1>4, <1>5, <2>2
    <3>3. Waits(cur)'
      BY <1>1, <1>2, <3>1, <3>2 DEF Waits, Responded, Broken
    <3> QED
      BY <1>1, <2>1, <3>1, <3>3 DEF OthersWait, Receiving, Sending
  <2>3. CASE ~u.last
    <3>1. Responding => Responding'
      BY <1>1, <1>2, <1>4, <1>5, <1>6 DEF Responding
    <3>2. Responded => Responded'
      BY <1>1, <1>2, <1>4, <1>5, <1>6, <2>3 DEF Responded
    <3>3. Broken => Broken'
      BY <1>1, <1>2, <1>4, <1>5, <1>6, <2>3 DEF Broken
    <3> QED
      BY <1>1, <1>3, <2>1, <2>3, <3>1, <3>2, <3>3 DEF OthersWait, Receiving, Sending
  <2> QED
    BY <2>2, <2>3
<1>8. Len(answers') = IF u.last THEN Len(answers) + 1 ELSE Len(answers)
  BY <1>1, LenProperties, AppendProperties, <1>2, Shrink DEF Inv, Types, Units, u
<1>9. Turns' /\ DiesByCrash' /\ PanicOnlyAfterCrash'
  BY <1>1, <1>8 DEF Inv, Turns, DiesByCrash, PanicOnlyAfterCrash, Serving
<1>10. AnswersInOrder'
  <2>1. CASE u.last
    <3>1. /\ answers' = Append(answers, m) /\ m \in Replies /\ answers \in Seq(Replies)
          /\ m.no = Len(asked) /\ m.by = cur
      BY <1>1, <1>4, <1>5, <2>1, LenProperties, <1>2 DEF Due, Replies, Inv, Types
    <3>2. /\ Len(answers) + 1 = Len(asked) /\ cur = (Len(asked) - 1) % N
      BY <1>1 DEF Inv, Turns, Serving
    <3>3. /\ Len(answers') = Len(answers) + 1 /\ Len(answers) \in Nat
          /\ \A k \in 1 .. Len(answers) : answers'[k] = answers[k]
          /\ answers'[Len(answers) + 1] = m
      BY <3>1, AppendProperties, LenProperties
    <3>4. \A k \in 1 .. Len(answers') : k \in 1 .. Len(answers) \/ k = Len(asked)
      BY <3>2, <3>3
    <3> QED
      BY <3>1, <3>2, <3>3, <3>4 DEF Inv, AnswersInOrder
  <2>2. CASE ~u.last
    BY <1>1, <2>2 DEF Inv, AnswersInOrder
  <2> QED
    BY <2>1, <2>2
<1> QED
  BY <1>7, <1>9, <1>10 DEF Inv

\* What a step of worker w other than a crash leaves alone.
ByWorker(w) ==
    /\ worker[w] # "dead"
    /\ \A v \in Workers \ {w} :
          /\ worker'[v] = worker[v] /\ reply'[v] = reply[v] /\ job'[v] = job[v]
          /\ toWorker'[v] = toWorker[v] /\ toClient'[v] = toClient[v]
    /\ UNCHANGED <<client, panicked, next, cur, asked, answers, request, crashes>>

\* The parts of the invariant a worker's step can disturb: those about w itself.
LEMMA ByWorkerStep ==
    ASSUME Inv, Types', NEW w \in Workers, ByWorker(w), Serving,
           worker'[w] # "dead",
           client = "idle" \/ w # cur => Waits(w)',
           client = "writing" /\ w = cur => Sending',
           client = "reading" /\ w = cur => Receiving'
    PROVE  Inv'
<1>1. cur \in Workers
  BY DEF Inv, Types, TypeOK
<1>2. Turns' /\ AnswersInOrder' /\ PanicOnlyAfterCrash'
  BY DEF ByWorker, Inv, Turns, Serving, AnswersInOrder, PanicOnlyAfterCrash
<1>3. DiesByCrash'
  BY DEF ByWorker, Inv, DiesByCrash, Serving
<1>4. OthersWait'
  <2> SUFFICES ASSUME NEW v \in Workers, client = "idle" \/ v # cur PROVE Waits(v)'
    BY DEF OthersWait, ByWorker
  <2>1. v # w => Waits(v)'
    BY DEF ByWorker, Inv, OthersWait, Serving, Waits
  <2> QED
    BY <2>1
<1>5. Sending'
  BY <1>1 DEF ByWorker, Inv, Sending, AskedOrder
<1>6. Receiving'
  <2>1. client # "reading" => Receiving'
    BY DEF ByWorker, Receiving
  <2>2. ASSUME client = "reading", w # cur PROVE Receiving'
    <3>1. /\ worker'[cur] = worker[cur] /\ reply'[cur] = reply[cur] /\ job'[cur] = job[cur]
          /\ toWorker'[cur] = toWorker[cur] /\ toClient'[cur] = toClient[cur]
          /\ UNCHANGED <<client, cur, asked, request>>
      BY <1>1, <2>2 DEF ByWorker
    <3> QED
      BY <3>1 DEF Inv, Receiving, Arriving, Working, Responding, Responded, Broken,
                  AskedOrder, Due
  <2> QED
    BY <2>1, <2>2
<1> QED
  BY <1>2, <1>3, <1>4, <1>5, <1>6 DEF Inv

LEMMA BootStep ==
    ASSUME Inv, Types', Serving, NEW w \in Workers, Boot(w)
    PROVE  Inv'
<1>1. /\ worker[w] = "booting" /\ worker' = [worker EXCEPT ![w] = "reading"]
      /\ worker'[w] = "reading"
      /\ UNCHANGED <<client, panicked, next, cur, asked, answers, job, request, reply,
                     toWorker, toClient, crashes>>
  BY DEF Boot, Become, Inv, Types, TypeOK
<1>2. ByWorker(w)
  BY <1>1 DEF ByWorker, Inv, Types, TypeOK
<1>3. client = "idle" \/ w # cur => Waits(w)'
  BY <1>1 DEF Inv, OthersWait, Waits
<1>4. client = "writing" /\ w = cur => Sending'
  BY <1>1 DEF Inv, Sending, AskedOrder
<1>5. client = "reading" /\ w = cur => Receiving'
  BY <1>1 DEF Inv, Receiving, Arriving, Working, Responding, Responded, Broken, AskedOrder
<1> QED
  BY <1>1, <1>2, <1>3, <1>4, <1>5, ByWorkerStep

LEMMA WorkerReadsStep ==
    ASSUME Inv, Types', Serving, NEW w \in Workers, WorkerReads(w)
    PROVE  Inv'
<1> DEFINE u == Head(toWorker[w])
           t == Tail(toWorker[w])
<1>1. /\ worker[w] = "reading" /\ toWorker[w] # <<>>
      /\ toWorker[w] \in Seq(Units(Orders))
      /\ toWorker' = [toWorker EXCEPT ![w] = t] /\ toWorker'[w] = t
      /\ UNCHANGED <<client, panicked, next, cur, asked, answers, request, toClient, crashes>>
  BY DEF WorkerReads, Inv, Types
<1>2. w = cur /\ client \in {"writing", "reading"}
  BY <1>1 DEF Inv, OthersWait, Waits, Serving
<1>3. ~u.last => UNCHANGED <<worker, job, reply>>
  BY DEF WorkerReads
<1>4. /\ Partial(toWorker[w], request.msg) => ~u.last /\ Partial(t, request.msg)
      /\ Whole(toWorker[w], request.msg) =>
            /\ u.msg = request.msg
            /\ u.last => t = <<>>
            /\ ~u.last => Whole(t, request.msg)
  BY <1>1, Shrink
<1>5. CASE client = "writing"
  <2>1. ~u.last /\ Partial(t, request.msg) /\ toClient[w] = <<>> /\ AskedOrder(request.msg)
    BY <1>1, <1>2, <1>4, <1>5 DEF Inv, Sending
  <2> HIDE DEF u, t
  <2>2. ByWorker(w) /\ worker'[w] = "reading"
    BY <1>1, <1>3, <2>1 DEF ByWorker, Inv, Types
  <2>3. Sending'
    BY <1>1, <1>2, <2>1, <2>2 DEF Sending, AskedOrder
  <2> QED
    BY <1>2, <1>5, <2>2, <2>3, ByWorkerStep
<1>6. CASE client = "reading"
  <2>1. /\ AskedOrder(request.msg) /\ Whole(toWorker[w], request.msg)
        /\ toClient[w] = <<>>
    BY <1>1, <1>2, <1>6 DEF Inv, Receiving, Arriving, Working, Responding, Responded, Broken
  <2>2. CASE ~u.last
    <3>1. ByWorker(w) /\ worker'[w] = "reading"
      BY <1>1, <1>3, <2>2 DEF ByWorker, Inv, Types
    <3>2. Arriving'
      BY <1>1, <1>2, <1>4, <2>1, <2>2, <3>1 DEF Arriving, AskedOrder
    <3> QED
      BY <1>2, <1>6, <3>1, <3>2, ByWorkerStep DEF Receiving
  <2>3. CASE u.last /\ Decodes(u.msg.data)
    <3>1. /\ worker' = [worker EXCEPT ![w] = "working"] /\ reply' = reply
          /\ job' = [job EXCEPT ![w] = [no |-> u.msg.no, data |-> Decode(u.msg.data)]]
      BY <1>4, <2>1, <2>3 DEF WorkerReads, Become, AskedOrder
    <3>2. ByWorker(w) /\ worker'[w] = "working" /\ job'[w].no = u.msg.no
      BY <1>1, <3>1 DEF ByWorker, Inv, Types, TypeOK
    <3>3. Working'
      BY <1>1, <1>2, <1>4, <2>1, <2>3, <3>2 DEF Working, AskedOrder
    <3> QED
      BY <1>2, <1>6, <3>2, <3>3, ByWorkerStep DEF Receiving
  <2>4. CASE u.last /\ ~Decodes(u.msg.data)
    <3>1. PICK size \in Sizes :
             /\ worker' = [worker EXCEPT ![w] = "writing"] /\ job' = job
             /\ Responds(w, u.msg.no, "unreadable", size)
      BY <1>4, <2>1, <2>4 DEF WorkerReads, Become, AskedOrder
    <3>2. /\ ByWorker(w) /\ worker'[w] = "writing"
          /\ reply'[w].msg = [kind |-> "unreadable", no |-> u.msg.no, by |-> w]
      BY <1>1, <3>1 DEF ByWorker, Responds, Frame, Inv, Types, TypeOK
    <3>3. reply'[w].msg \in Due'
      BY <1>1, <1>2, <1>4, <2>1, <3>2 DEF Due, Kinds, AskedOrder
    <3>4. Responding'
      BY <1>1, <1>2, <1>4, <2>1, <2>4, <3>2, <3>3, EmptyIsPartial DEF Responding
    <3> QED
      BY <1>2, <1>6, <3>2, <3>4, ByWorkerStep DEF Receiving
  <2> QED
    BY <2>2, <2>3, <2>4
<1> QED
  BY <1>2, <1>5, <1>6

LEMMA ExecuteStep ==
    ASSUME Inv, Types', Serving, NEW w \in Workers, Execute(w)
    PROVE  Inv'
<1>1. PICK kind \in {"exec", "error"}, size \in Sizes :
         /\ worker[w] = "working" /\ worker' = [worker EXCEPT ![w] = "writing"]
         /\ Responds(w, job[w].no, kind, size)
         /\ UNCHANGED <<client, panicked, next, cur, asked, answers, job, request,
                        toWorker, toClient, crashes>>
  BY DEF Execute, Become
<1>2. w = cur /\ client = "reading"
  BY <1>1 DEF Inv, OthersWait, Waits, Sending, Serving
<1>3. job[w].no = Len(asked) /\ toWorker[w] = <<>> /\ toClient[w] = <<>>
  BY <1>1, <1>2 DEF Inv, Receiving, Arriving, Working, Responding, Responded, Broken
<1>4. /\ ByWorker(w) /\ worker'[w] = "writing"
      /\ reply'[w].msg = [kind |-> kind, no |-> job[w].no, by |-> w]
  BY <1>1 DEF ByWorker, Responds, Frame, Inv, Types, TypeOK
<1>5. reply'[w].msg \in Due'
  BY <1>1, <1>2, <1>3, <1>4 DEF Due, Kinds
<1>6. Responding'
  BY <1>1, <1>2, <1>3, <1>4, <1>5, EmptyIsPartial DEF Responding
<1> QED
  BY <1>2, <1>4, <1>6, ByWorkerStep DEF Receiving

LEMMA WorkerWritesStep ==
    ASSUME Inv, Types', Serving, NEW w \in Workers, WorkerWrites(w)
    PROVE  Inv'
<1> DEFINE u == Unit(reply[w])
           g == [reply[w] EXCEPT !.done = @ + 1]
<1>1. /\ worker[w] = "writing"
      /\ toClient' = [toClient EXCEPT ![w] = Append(@, u)]
      /\ reply' = [reply EXCEPT ![w] = g]
      /\ worker' = IF u.last THEN [worker EXCEPT ![w] = "reading"] ELSE worker
      /\ UNCHANGED <<client, panicked, next, cur, asked, answers, job, request, toWorker, crashes>>
  BY DEF WorkerWrites
<1>2. w = cur /\ client = "reading"
  BY <1>1 DEF Inv, OthersWait, Waits, Sending, Serving
<1>3. /\ reply[w].msg \in Due /\ toWorker[w] = <<>>
      /\ Partial(toClient[w], reply[w].msg)
  BY <1>1, <1>2 DEF Inv, Receiving, Arriving, Working, Responding, Responded, Broken
<1>4. /\ u \in Units(Replies) /\ u.msg = reply[w].msg /\ g.msg = reply[w].msg
      /\ toClient[w] \in Seq(Units(Replies))
  BY <1>1, UnitOf DEF Inv, Types
<1> HIDE DEF u, g
<1>5. /\ toClient'[w] = Append(toClient[w], u) /\ reply'[w] = g
      /\ worker'[w] = IF u.last THEN "reading" ELSE "writing"
      /\ Due' = Due
  BY <1>1 DEF Inv, Types, TypeOK, Due
<1>6. ByWorker(w)
  BY <1>1 DEF ByWorker, Inv, Types, TypeOK
<1>7. /\ ~u.last => Partial(toClient'[w], reply[w].msg)
      /\ u.last => Whole(toClient'[w], reply[w].msg)
  BY <1>3, <1>4, <1>5, Grow
<1>8. Responding' \/ Responded'
  BY <1>1, <1>2, <1>3, <1>4, <1>5, <1>7 DEF Responding, Responded
<1> QED
  BY <1>2, <1>5, <1>6, <1>8, ByWorkerStep DEF Receiving

LEMMA CrashStep ==
    ASSUME Inv, Types', Serving, NEW w \in Workers, Crash(w)
    PROVE  Inv'
<1>1. /\ worker' = [worker EXCEPT ![w] = "dead"] /\ crashes' = crashes + 1
      /\ UNCHANGED <<client, panicked, next, cur, asked, answers, job, request, reply,
                     toWorker, toClient>>
      /\ crashes \in Nat /\ cur \in Workers
      /\ \A v \in Workers : worker'[v] = IF v = w THEN "dead" ELSE worker[v]
  BY PoolAssumption DEF Crash, Inv, Types, TypeOK
<1>2. Turns' /\ AnswersInOrder' /\ PanicOnlyAfterCrash' /\ DiesByCrash'
  BY <1>1 DEF Inv, Turns, Serving, AnswersInOrder, PanicOnlyAfterCrash, DiesByCrash
<1>3. OthersWait' /\ Sending'
  BY <1>1 DEF Inv, OthersWait, Serving, Waits, Sending, AskedOrder
<1>4. Receiving'
  <2> SUFFICES ASSUME client = "reading" PROVE Receiving'
    BY <1>1 DEF Receiving
  <2>1. \E m \in Due : Partial(toClient[cur], m) \/ Whole(toClient[cur], m)
    <3>1. CASE Arriving \/ Working
      <4>1. [kind |-> "exec", no |-> Len(asked), by |-> cur] \in Due
        BY DEF Due, Kinds
      <4> QED
        BY <3>1, <4>1, EmptyIsPartial DEF Arriving, Working
    <3>2. CASE Responding \/ Responded \/ Broken
      BY <3>2 DEF Responding, Responded, Broken
    <3> QED
      BY <3>1, <3>2 DEF Inv, Receiving
  <2>2. w # cur => Receiving'
    BY <1>1 DEF Inv, Receiving, Arriving, Working, Responding, Responded, Broken, AskedOrder, Due
  <2>3. w = cur => Broken'
    BY <1>1, <2>1 DEF Broken, Due
  <2> QED
    BY <1>1, <2>2, <2>3 DEF Receiving
<1> QED
  BY <1>2, <1>3, <1>4 DEF Inv
-----------------------------------------------------------------------------

LEMMA NextInv == Inv /\ [Next]_vars => Inv'
<1> SUFFICES ASSUME Inv, [Next]_vars PROVE Inv'
  OBVIOUS
<1>1. Types' /\ crashes \in Nat
  <2>1. crashes \in Nat
    BY PoolAssumption DEF Inv, Types, TypeOK
  <2> QED
    BY <2>1, NextTypes DEF Inv
<1>2. CASE UNCHANGED vars
  BY <1>1, <1>2 DEF vars, Inv, Turns, Serving, DiesByCrash, OthersWait, Waits, Sending,
     Receiving, Arriving, Working, Responding, Responded, Broken, AskedOrder, Due,
     AnswersInOrder, PanicOnlyAfterCrash
<1>3. CASE Asks
  BY <1>1, <1>3, AskStep DEF Asks
<1>4. CASE ClientWrites
  BY <1>1, <1>4, ClientWritesStep
<1>5. CASE ClientReads
  BY <1>1, <1>5, ClientReadsStep
<1>6. CASE ClientPanics
  <2>1. Serving /\ worker[cur] = "dead" /\ cur \in Workers
    BY <1>6 DEF ClientPanics, Serving, Inv, Types, TypeOK
  <2>2. crashes > 0
    BY <2>1 DEF Inv, DiesByCrash
  <2>3. ~Serving' /\ answers' = answers /\ crashes' = crashes
    BY <1>6 DEF ClientPanics, Serving
  <2> QED
    BY <1>1, <2>2, <2>3, Stopped
<1>7. CASE DropPool \/ ClientKilled \/ DropWorker
  <2>1. ~Serving' /\ UNCHANGED <<answers, panicked, crashes>>
    BY <1>7 DEF DropPool, ClientKilled, DropWorker, Serving
  <2> QED
    BY <1>1, <2>1, Stopped
<1>8. ASSUME NEW w \in Workers, WorkerGoesOn(w) \/ Crash(w), Serving PROVE Inv'
  <2>1. ~WorkerFindsClosed(w)
    BY <1>8 DEF WorkerFindsClosed, Serving
  <2> QED
    BY <1>1, <1>8, <2>1, BootStep, WorkerReadsStep, ExecuteStep, WorkerWritesStep, CrashStep
       DEF WorkerGoesOn
<1>9. ASSUME NEW w \in Workers, WorkerGoesOn(w) \/ Crash(w), ~Serving PROVE Inv'
  <2>1. UNCHANGED <<client, answers, panicked>> /\ crashes' \in {crashes, crashes + 1}
    BY <1>9 DEF WorkerGoesOn, Boot, WorkerReads, Execute, WorkerWrites, WorkerFindsClosed, Crash
  <2>2. ~Serving' /\ crashes' >= crashes
    BY <1>1, <1>9, <2>1 DEF Serving
  <2> QED
    BY <1>1, <2>1, <2>2, Stopped
<1> QED
  BY <1>2, <1>3, <1>4, <1>5, <1>6, <1>7, <1>8, <1>9 DEF Next, ClientGoesOn

LEMMA InvAlways == Spec => []Inv
  BY InitInv, NextInv, PTL DEF Spec

(* The types of the pool's state; no pipe holds more than PipeCap units.   *)
THEOREM TypeCorrect == Spec => []TypeOK
<1>1. Inv => TypeOK
  BY DEF Inv, Types
<1> QED
  BY InvAlways, <1>1, PTL

(* Every response the client gets is the one to the request it made and    *)
(* comes from the worker whose turn it was, whatever crashes on the way.   *)
THEOREM InOrder == Spec => []AnswersInOrder
<1>1. Inv => AnswersInOrder
  BY DEF Inv
<1> QED
  BY InvAlways, <1>1, PTL

(* Between two calls of exec no worker is at work and no pipe holds        *)
(* anything, except what was sent to a worker that died.                   *)
THEOREM Quiet == Spec => []QuietWhenIdle
<1>1. Inv => QuietWhenIdle
  BY DEF Inv, OthersWait, Serving, Waits, QuietWhenIdle
<1> QED
  BY InvAlways, <1>1, PTL

(* The client panics only if a worker crashed: no shutdown reaches a       *)
(* worker as long as the client may still write to it.                     *)
THEOREM PanicsAfterCrash == Spec => []PanicOnlyAfterCrash
<1>1. Inv => PanicOnlyAfterCrash
  BY DEF Inv
<1> QED
  BY InvAlways, <1>1, PTL
-----------------------------------------------------------------------------
(* What the workers are given to do. *)

\* m is a request as Pool::exec encoded it.
AsAsked(m) == m.no \in 1 .. Len(asked) /\ m.data = Encode(asked[m.no])

OnTheWay(s) == \A i \in 1 .. Len(s) : s[i].msg.kind = "exec" => AsAsked(s[i].msg)

\* j is a request as read_message decoded it.
Received(j) ==
    /\ j.no \in 1 .. Len(asked) /\ Decodes(Encode(asked[j.no]))
    /\ j.data = Decode(Encode(asked[j.no]))

Delivery ==
    /\ request.msg.kind = "exec" => AsAsked(request.msg)
    /\ \A w \in Workers : OnTheWay(toWorker[w])
    /\ \A w \in Workers : worker[w] = "working" => Received(job[w])

\* A request does not change once it is asked.
LEMMA AskedGrows ==
    ASSUME Types, NEW r \in Requests, asked' = Append(asked, r)
    PROVE  \A k \in 1 .. Len(asked) : k \in 1 .. Len(asked') /\ asked'[k] = asked[k]
  BY AppendProperties, LenProperties DEF Types

LEMMA DeliveryByWorker ==
    ASSUME Types, Delivery, NEW w \in Workers, WorkerReads(w)
    PROVE  Delivery'
<1> DEFINE u == Head(toWorker[w])
           t == Tail(toWorker[w])
<1>1. /\ toWorker[w] # <<>> /\ toWorker[w] \in Seq(Units(Orders)) /\ OnTheWay(toWorker[w])
      /\ toWorker' = [toWorker EXCEPT ![w] = t] /\ UNCHANGED <<asked, request>>
  BY DEF WorkerReads, Types, Delivery
<1>2. /\ Len(t) = Len(toWorker[w]) - 1 /\ Len(toWorker[w]) \in Nat \ {0}
      /\ \A i \in 1 .. Len(t) : t[i] = toWorker[w][i + 1]
      /\ u = toWorker[w][1] /\ u \in Units(Orders)
  BY <1>1, HeadTailProperties, EmptySeq
<1>3. OnTheWay(t) /\ (u.msg.kind = "exec" => AsAsked(u.msg))
  <2>1. \A i \in 1 .. Len(t) : i + 1 \in 1 .. Len(toWorker[w])
    BY <1>2
  <2>2. 1 \in 1 .. Len(toWorker[w])
    BY <1>2
  <2> HIDE DEF u, t
  <2> QED
    BY <1>1, <1>2, <2>1, <2>2 DEF OnTheWay
<1>4. \/ UNCHANGED <<worker, job>>
      \/ \E to \in {"dead", "writing"} : worker' = [worker EXCEPT ![w] = to] /\ job' = job
      \/ /\ u.msg.kind # "shutdown" /\ Decodes(u.msg.data)
         /\ worker' = [worker EXCEPT ![w] = "working"]
         /\ job' = [job EXCEPT ![w] = [no |-> u.msg.no, data |-> Decode(u.msg.data)]]
  BY DEF WorkerReads, Become
<1>5. u.msg.kind # "shutdown" => u.msg.kind = "exec"
  BY <1>2 DEF Units, Orders
<1> HIDE DEF u, t
<1>6. \A v \in Workers : OnTheWay(toWorker[v])'
  BY <1>1, <1>3 DEF Delivery, Types, OnTheWay, AsAsked
<1>7. ASSUME NEW v \in Workers, worker'[v] = "working"
      PROVE  Received(job[v])'
  <2>1. CASE v # w
    BY <1>1, <1>4, <1>7, <2>1 DEF Delivery, Types, TypeOK, Received
  <2>2. CASE v = w /\ UNCHANGED <<worker, job>>
    BY <1>1, <1>7, <2>2 DEF Delivery, Received
  <2>3. CASE v = w /\ ~UNCHANGED <<worker, job>>
    <3>1. /\ u.msg.kind # "shutdown" /\ Decodes(u.msg.data)
          /\ job'[v] = [no |-> u.msg.no, data |-> Decode(u.msg.data)]
      BY <1>4, <1>7, <2>3 DEF Types, TypeOK
    <3> QED
      BY <1>1, <1>3, <1>5, <3>1 DEF AsAsked, Received
  <2> QED
    BY <2>1, <2>2, <2>3
<1> QED
  BY <1>1, <1>6, <1>7 DEF Delivery, AsAsked

LEMMA NextDelivery == Types /\ Delivery /\ [Next]_vars => Delivery'
<1> SUFFICES ASSUME Types, Delivery, [Next]_vars PROVE Delivery'
  OBVIOUS
<1>1. CASE UNCHANGED vars
  BY <1>1 DEF vars, Delivery, OnTheWay, AsAsked, Received
<1>2. ASSUME NEW r \in Requests, NEW size \in Sizes, Ask(r, size) PROVE Delivery'
  <2>1. /\ asked' = Append(asked, r) /\ request'.msg = Asking(r)
        /\ UNCHANGED <<worker, job, toWorker>>
    BY <1>2 DEF Ask, Frame
  <2>2. /\ Len(asked') = Len(asked) + 1 /\ Len(asked) \in Nat
        /\ asked'[Len(asked) + 1] = r
        /\ \A k \in 1 .. Len(asked) : k \in 1 .. Len(asked') /\ asked'[k] = asked[k]
    BY <2>1, AskedGrows, AppendProperties, LenProperties DEF Types
  <2>3. AsAsked(request.msg)'
    BY <2>1, <2>2 DEF AsAsked, Asking
  <2>4. \A w \in Workers : OnTheWay(toWorker[w])'
    BY <2>1, <2>2 DEF Delivery, OnTheWay, AsAsked
  <2> QED
    BY <2>1, <2>2, <2>3, <2>4 DEF Delivery, Received
<1>3. CASE ClientWrites
  <2> DEFINE u == Unit(request)
  <2>1. /\ toWorker' = [toWorker EXCEPT ![cur] = Append(@, u)] /\ cur \in Workers
        /\ toWorker[cur] \in Seq(Units(Orders)) /\ request'.msg = request.msg
        /\ u \in Units(Orders) /\ u.msg = request.msg
        /\ UNCHANGED <<asked, worker, job>>
    BY <1>3, UnitOf DEF ClientWrites, Types, TypeOK
  <2> HIDE DEF u
  <2>2. OnTheWay(Append(toWorker[cur], u))
    BY <2>1, AppendProperties, LenProperties DEF Delivery, OnTheWay
  <2>3. \A w \in Workers : OnTheWay(toWorker[w])'
    BY <2>1, <2>2 DEF Delivery, Types, OnTheWay, AsAsked
  <2> QED
    BY <2>1, <2>3 DEF Delivery, AsAsked, Received
<1>4. CASE DropWorker
  <2>1. /\ cur \in Workers /\ toWorker[cur] \in Seq(Units(Orders))
        /\ Shutdown \in Units(Orders) /\ Shutdown.msg.kind # "exec"
        /\ UNCHANGED <<asked, worker, job, request>>
        /\ toWorker' \in {toWorker, [toWorker EXCEPT ![cur] = Append(@, Shutdown)]}
    BY <1>4 DEF DropWorker, Types, TypeOK, Shutdown, Units, Orders
  <2> DEFINE t == Append(toWorker[cur], Shutdown)
  <2>2. OnTheWay(t)
    BY <2>1, AppendProperties, LenProperties DEF Delivery, OnTheWay
  <2> HIDE DEF t
  <2>3. \A w \in Workers : toWorker'[w] \in {toWorker[w], t}
    BY <2>1 DEF Types, t
  <2>4. \A w \in Workers : OnTheWay(toWorker[w])'
    BY <2>1, <2>2, <2>3 DEF Delivery, OnTheWay, AsAsked
  <2> QED
    BY <2>1, <2>4 DEF Delivery, AsAsked, Received
<1>5. CASE ClientReads \/ ClientPanics \/ DropPool \/ ClientKilled
  <2>1. UNCHANGED <<asked, worker, job, request, toWorker>>
    BY <1>5 DEF ClientReads, ClientPanics, DropPool, ClientKilled
  <2> QED
    BY <2>1 DEF Delivery, OnTheWay, AsAsked, Received
<1>6. ASSUME NEW w \in Workers, WorkerGoesOn(w) \/ Crash(w), ~WorkerReads(w) PROVE Delivery'
  <2>1. /\ UNCHANGED <<asked, job, request, toWorker>>
        /\ \A v \in Workers : worker'[v] = "working" => worker[v] = "working"
    BY <1>6 DEF WorkerGoesOn, Boot, Execute, WorkerWrites, WorkerFindsClosed, Crash, Become,
                Types, TypeOK
  <2> QED
    BY <2>1 DEF Delivery, OnTheWay, AsAsked, Received
<1> QED
  BY <1>1, <1>2, <1>3, <1>4, <1>5, <1>6, DeliveryByWorker DEF Next, Asks, ClientGoesOn, WorkerGoesOn

\* What a worker executes is what was asked exactly if the request has no gap.
IntactWithoutGap == \A w \in Workers : worker[w] = "working" =>
    (job[w].data = asked[job[w].no] <=> NoGap(asked[job[w].no]))

LEMMA DeliveryAlways == Spec => [](Types /\ Delivery)
<1>1. Init => Types /\ Delivery
  BY InitTypes DEF Init, Delivery, OnTheWay, Frame, NoMsg
<1>2. Types /\ Delivery /\ [Next]_vars => (Types /\ Delivery)'
  BY NextTypes, NextDelivery
<1> QED
  BY <1>1, <1>2, PTL DEF Spec

(* Requests without a gap between their options reach the worker intact,   *)
(* and with a gap none does, however many are under way and whatever       *)
(* crashes: the loss is the encoding's, not the transport's.               *)
THEOREM GapsAloneAreLost ==
    ASSUME \A r \in Requests : IsRecord(r)
    PROVE  Spec => []IntactWithoutGap
<1>1. ASSUME Types, Delivery PROVE IntactWithoutGap
  <2> SUFFICES ASSUME NEW w \in Workers, worker[w] = "working"
               PROVE  job[w].data = asked[job[w].no] <=> NoGap(asked[job[w].no])
    BY DEF IntactWithoutGap
  <2> DEFINE r == asked[job[w].no]
  <2>1. r \in Requests /\ Decodes(Encode(r)) /\ job[w].data = Decode(Encode(r))
    BY <1>1, ElementOfSeq DEF Types, Delivery, Received
  <2>2. IsRequest(r) /\ IsRecord(r)
    BY <2>1, PoolAssumption
  <2> HIDE DEF r
  <2> QED
    BY <2>1, <2>2, NoGapRoundTrip, GapIsFilled DEF r
<1> QED
  BY DeliveryAlways, <1>1, PTL

(* Where no request has a gap, the round trip of the tests of protocol.rs  *)
(* holds of the whole pool.                                                *)
THEOREM WithoutGapsIntact ==
    ASSUME \A r \in Requests : IsRecord(r) /\ NoGap(r)
    PROVE  Spec => []RequestArrivesIntact
<1>1. ASSUME Types, Delivery PROVE RequestArrivesIntact
  <2> SUFFICES ASSUME NEW w \in Workers, worker[w] = "working"
               PROVE  job[w].data = asked[job[w].no]
    BY DEF RequestArrivesIntact
  <2> DEFINE r == asked[job[w].no]
  <2>1. r \in Requests /\ job[w].data = Decode(Encode(r))
    BY <1>1, ElementOfSeq DEF Types, Delivery, Received
  <2> QED
    BY <2>1, PoolAssumption, NoGapRoundTrip
<1> QED
  BY DeliveryAlways, <1>1, PTL
=============================================================================
