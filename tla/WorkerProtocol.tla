--------------------------- MODULE WorkerProtocol ---------------------------
(***************************************************************************)
(* The messages between the benchmark pool and its workers                 *)
(* (benches/shared/protocol.rs).  rmp_serde::to_vec writes a struct as the *)
(* array of its fields, by position; the attribute skip_serializing_if     *)
(* leaves an absent option out of that array, and `default` makes up for   *)
(* the fields the array is too short to hold.  method and script are never *)
(* absent and keep their places, so that only the three options count.     *)
(* A value is a string ("text"), or bytes that are ("utf8") or are not     *)
(* ("binary") a string in UTF-8.                                           *)
(***************************************************************************)
EXTENDS Naturals, Sequences

Absent == [type |-> "absent"]

\* The options of Request::Exec: uri and content_type are Option<String>,
\* body is Option<ByteBuf>.
IsRequest(r) ==
    /\ r.uri = Absent \/ r.uri.type = "text"
    /\ r.ctype = Absent \/ r.ctype.type = "text"
    /\ r.body = Absent \/ r.body.type \in {"utf8", "binary"}

\* `skip_serializing_if = "Option::is_none"`.
Field(v) == IF v = Absent THEN <<>> ELSE <<v>>

Encode(r) == Field(r.uri) \o Field(r.ctype) \o Field(r.body)

\* What the field at a position of the array is taken for: `default`, or the
\* value; a String also accepts bytes in UTF-8, and a ByteBuf a string.
At(a, i) == IF i <= Len(a) THEN a[i] ELSE Absent

AsText(v) == IF v.type = "utf8" THEN [v EXCEPT !.type = "text"] ELSE v

AsBytes(v) == IF v.type = "text" THEN [v EXCEPT !.type = "utf8"] ELSE v

\* from_slice fails on bytes that are no string where a String should be.
Decodes(a) == \A i \in {1, 2} : At(a, i).type # "binary"

Decode(a) ==
    [uri |-> AsText(At(a, 1)), ctype |-> AsText(At(a, 2)), body |-> AsBytes(At(a, 3))]

\* No option that is present follows one that is absent.
NoGap(r) ==
    /\ r.uri = Absent => r.ctype = Absent
    /\ r.ctype = Absent => r.body = Absent
=============================================================================
