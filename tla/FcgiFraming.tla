---------------------------- MODULE FcgiFraming ----------------------------
(***************************************************************************)
(* FastCGI as the benchmarks' php-fpm client speaks it                     *)
(* (benches/shared/fpm.rs): name-value pairs, records, and the output in   *)
(* an answer.  A byte that holds (part of) a length is in 0 .. Base - 1,   *)
(* so that lengths wrap where the code's casts to u8 make them; bytes of   *)
(* names, values and bodies are any numbers.                               *)
(***************************************************************************)
EXTENDS Integers, Sequences, SequencesExt

CONSTANT Base   \* 256; also 0x80 is Base \div 2

ASSUME BaseAssumption == Base \in Nat /\ Base > 7 /\ Base % 2 = 0

Params == 4
Stdin  == 5
Stdout == 6
Stderr == 7

\* A length cast to a byte.
Low(n) == n % Base

\* Mutant: a length of 128 is taken for a short one.
LengthOfShort(text) ==
    LET n == Len(text)
    IN  IF n <= Base \div 2 THEN <<n>>
        ELSE <<Base \div 2, Low(n \div (Base * Base)), Low(n \div Base), Low(n)>>

\* A length in build_fcgi_params: one byte, or four with the top bit set.
LengthOf(text) ==
    LET n == Len(text)
    IN  IF n < Base \div 2 THEN <<n>>
        ELSE <<Base \div 2 + Low(n \div (Base * Base * Base)), Low(n \div (Base * Base)),
               Low(n \div Base), Low(n)>>

Pair(p) == LengthOf(p.name) \o LengthOf(p.value) \o p.name \o p.value

BuildParams(params) == FlattenSeq([i \in DOMAIN params |-> Pair(params[i])])

Zeros(n) == [i \in 1 .. n |-> 0]

\* write_fcgi_record: the header holds the low 16 bits of the length; content
\* and padding are written as long as they are.
Record(type, content) ==
    LET n       == Len(content)
        padding == (8 - (n % 8)) % 8
    IN  <<1, type, 0, 1, Low(n \div Base), Low(n), padding, 0>> \o content \o Zeros(padding)

\* The header at 0-based position p, and where its record's content ends.
HeaderAt(data, p) ==
    [version |-> data[p + 1], type |-> data[p + 2],
     start   |-> p + 8, end |-> p + 8 + data[p + 5] * Base + data[p + 6],
     padding |-> data[p + 7]]

Content(data, h) == SubSeq(data, h.start + 1, h.end)

\* Mutant: what PHP wrote to stderr is taken for output as well.
StdoutInAll(data) ==
    LET from[p \in Nat] ==
            IF p + 8 > Len(data) THEN <<>>
            ELSE LET h == HeaderAt(data, p)
                 IN  IF h.end > Len(data) THEN <<>>
                     ELSE (IF h.type \in {Stdout, Stderr} THEN Content(data, h) ELSE <<>>)
                              \o from[h.end + h.padding]
    IN  from[0]

\* The loop of extract_fcgi_stdout: a record that is cut off ends it.
StdoutIn(data) ==
    LET from[p \in Nat] ==
            IF p + 8 > Len(data) THEN <<>>
            ELSE LET h == HeaderAt(data, p)
                 IN  IF h.end > Len(data) THEN <<>>
                     ELSE (IF h.type = Stdout THEN Content(data, h) ELSE <<>>)
                              \o from[h.end + h.padding]
    IN  from[0]

\* The blank line after the headers of an HTTP response.
BlankLine == <<13, 10, 13, 10>>

\* What follows the first blank line, or everything if there is none.
StripHeaders(bytes) ==
    LET ends == {i \in 4 .. Len(bytes) : SubSeq(bytes, i - 3, i) = BlankLine}
    IN  IF ends = {} THEN bytes
        ELSE SubSeq(bytes, (CHOOSE i \in ends : \A j \in ends : i <= j) + 1, Len(bytes))

ExtractStdout(data) == StripHeaders(StdoutIn(data))
-----------------------------------------------------------------------------
(* How a FastCGI server reads a request. *)

\* A whole record is at p; a server that checks versions takes only version 1.
IsRecord(data, checks, p) ==
    /\ p + 8 <= Len(data)
    /\ LET h == HeaderAt(data, p)
       IN  (checks => h.version = 1) /\ h.end + h.padding <= Len(data)

Unended == [ended |-> FALSE, data |-> <<>>]
Ended   == [ended |-> TRUE,  data |-> <<>>]

\* What a record adds to the stream that the records after it make.
Taken(own, content, rest) ==
    IF ~own THEN rest
    ELSE IF content = <<>> THEN Ended
    ELSE IF ~rest.ended THEN Unended
    ELSE [ended |-> TRUE, data |-> content \o rest.data]

\* The stream of one type, from the records up to one that is not whole: the
\* contents up to the first empty one.
StreamIn(data, checks, type) ==
    LET from[p \in Nat] ==
            IF ~IsRecord(data, checks, p) THEN Unended
            ELSE LET h == HeaderAt(data, p)
                 IN  Taken(h.type = type, Content(data, h), from[h.end + h.padding])
    IN  from[0]

\* A length at p takes one byte, or four with the top bit set.
SizeAt(data, p) == IF data[p + 1] < Base \div 2 THEN 1 ELSE 4

HasLength(data, p) == p < Len(data) /\ p + SizeAt(data, p) <= Len(data)

LengthAt(data, p) ==
    IF data[p + 1] < Base \div 2 THEN data[p + 1]
    ELSE (data[p + 1] - (Base \div 2)) * (Base * Base * Base) + data[p + 2] * (Base * Base)
             + data[p + 3] * Base + data[p + 4]

\* Where the name and the value of the pair at p start, and where it ends.
PairAt(data, p) ==
    LET second == p + SizeAt(data, p)
        start  == second + SizeAt(data, second)
        middle == start + LengthAt(data, p)
    IN  [start |-> start, middle |-> middle, end |-> middle + LengthAt(data, second)]

IsPair(data, p) ==
    /\ HasLength(data, p) /\ HasLength(data, p + SizeAt(data, p))
    /\ PairAt(data, p).end <= Len(data)

\* The pairs of a stream of parameters, up to one that is not whole.
PairsIn(data) ==
    LET from[p \in Nat] ==
            IF ~IsPair(data, p) THEN <<>>
            ELSE LET h == PairAt(data, p)
                 IN  <<[name  |-> SubSeq(data, h.start + 1, h.middle),
                        value |-> SubSeq(data, h.middle + 1, h.end)]>> \o from[h.end]
    IN  from[0]

\* The request in data: complete when both its streams are.
DecodeRequest(data, checks) ==
    LET params == StreamIn(data, checks, Params)
        stdin  == StreamIn(data, checks, Stdin)
    IN  [complete |-> params.ended /\ stdin.ended,
         params   |-> PairsIn(params.data), body |-> stdin.data]
=============================================================================
