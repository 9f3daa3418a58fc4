---------------------------- MODULE OutputBuffer ----------------------------
(***************************************************************************)
(* ServerContext::write_output (src/sapi/server_context.rs): how the       *)
(* buffer of a request's output grows.  usize has WordSize values; a Vec   *)
(* holds at most MaxCap = isize::MAX bytes and `reserve` panics above      *)
(* that.  The panic is caught in ripht_sapi_ub_write, which then reports   *)
(* that nothing was written.                                               *)
(***************************************************************************)
EXTENDS Naturals

CONSTANTS
    MaxCap,       \* isize::MAX
    MinBuffer,    \* MIN_BUFFER_SIZE
    DefaultCap,   \* DEFAULT_BUFFER_SIZE
    Step,         \* the step of SAPI_BUF_GROWTH=fixed32k
    Requested,    \* the values SAPI_INIT_BUF may have
    Writes        \* the lengths of the pieces PHP writes

ASSUME CapAssumption ==
    /\ MaxCap \in Nat /\ Step \in Nat \ {0}
    /\ MinBuffer \in Nat \ {0} /\ DefaultCap \in Nat
    /\ MinBuffer <= DefaultCap /\ DefaultCap <= MaxCap
ASSUME InputAssumption ==
    Requested \subseteq 0 .. MaxCap /\ Writes \subseteq 1 .. MaxCap

MaxWord  == 2 * MaxCap + 1
WordSize == MaxWord + 1

VARIABLES
    initial,   \* BUFFER_POLICY: initial_cap ...
    strategy,  \* ... and strategy, fixed at the first context
    cap, len,  \* capacity and length of output_buffer
    written    \* what ub_write told PHP was written, in total

vars == <<initial, strategy, cap, len, written>>

Strategies == {"X4", "X2", "Fixed"}

Larger(a, b) == IF a >= b THEN a ELSE b
Saturated(n) == IF n <= MaxWord THEN n ELSE MaxWord

\* buffer_policy(): SAPI_INIT_BUF counts from MIN_BUFFER_SIZE on.
InitialCap(n) == IF n >= MinBuffer THEN n ELSE DefaultCap

Init ==
    /\ \E n \in Requested : initial = InitialCap(n)
    /\ strategy \in Strategies
    /\ cap = initial
    /\ len = 0
    /\ written = 0

\* `while cap < required { cap = cap.saturating_add(step) }`
FixedCap(c, required) ==
    IF c >= required THEN c
    ELSE Saturated(c + Step * ((required - c + Step - 1) \div Step))

\* Mutants: the product wraps; it is taken without looking at what is
\* required; it is far too large.
NewCapWrapping(c, required)  == (4 * c) % WordSize
NewCapNoMax(c, required)     == Saturated(4 * c)
NewCapExcessive(c, required) == Larger(Saturated(16 * c), required)

NewCap(c, required) ==
    CASE strategy = "X4"    -> Larger(Saturated(4 * c), (required + initial) % WordSize)
      [] strategy = "X2"    -> Larger(Saturated(2 * c), (required + initial) % WordSize)
      [] strategy = "Fixed" -> FixedCap(c, required)

\* Vec::reserve(new_cap - len): what it asks the allocator for is at least
\* double the old capacity; above isize::MAX it panics.
Reserved(c, n) == Larger(2 * c, n)

Grows(n)   == len + n > cap
Refused(n) == Grows(n) /\ Reserved(cap, NewCap(cap, len + n)) > MaxCap

\* write_output of n bytes, with enough room or after growing.
Write(n) ==
    /\ ~Refused(n)
    /\ cap' = IF Grows(n) THEN Reserved(cap, NewCap(cap, len + n)) ELSE cap
    /\ len' = len + n
    /\ written' = written + n
    /\ UNCHANGED <<initial, strategy>>

\* `reserve` panics before anything is copied, and ub_write returns 0.
WritePanics(n) ==
    /\ Refused(n)
    /\ UNCHANGED vars

Next == \E n \in Writes : Write(n) \/ WritePanics(n)

Spec == Init /\ [][Next]_vars
-----------------------------------------------------------------------------
(* Properties. *)

TypeOK ==
    /\ initial \in 1 .. MaxCap
    /\ strategy \in Strategies
    /\ cap \in 1 .. MaxCap
    /\ len \in 0 .. MaxCap
    /\ written \in Nat

\* What PHP was told it wrote is what the buffer holds, and it fits: the one
\* `reserve` made room for the whole piece, whatever the strategy.
BufferHoldsWritten == written = len /\ len <= cap

\* `new_cap - self.output_buffer.len()` does not wrap, also where the
\* additions and multiplications before it saturate or wrap.
NoUnderflow == \A n \in Writes : Grows(n) => NewCap(cap, len + n) >= len

\* A growth that is not refused asks for enough, so that the copy does not
\* have to grow the buffer a second time.
GrowthIsEnough == \A n \in Writes :
    Grows(n) /\ ~Refused(n) => NewCap(cap, len + n) >= len + n

\* Output is dropped only near the end of the address space: when four times
\* the capacity, or the piece and a spare initial buffer, no longer fit.
RefusedOnlyAtLimit == \A n \in Writes :
    Refused(n) => \/ 4 * cap > MaxCap
                  \/ len + n + initial > MaxCap
                  \/ strategy = "Fixed" /\ len + n + Step > MaxCap
=============================================================================
