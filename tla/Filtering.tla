----------------------------- MODULE Filtering -----------------------------
(***************************************************************************)
(* What a filter keeps of a list: `for header in headers { if keep(header) *)
(* { kept.push(header) } }`.                                               *)
(***************************************************************************)
EXTENDS Naturals, Sequences

\* The elements of s at these positions, in their order.
Kept(s, positions) ==
    LET upTo[n \in 0 .. Len(s)] ==
            IF n = 0 THEN <<>>
            ELSE IF n \in positions THEN Append(upTo[n - 1], s[n])
            ELSE upTo[n - 1]
    IN  upTo[Len(s)]
=============================================================================
