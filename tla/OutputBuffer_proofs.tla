------------------------ MODULE OutputBuffer_proofs ------------------------
(***************************************************************************)
(* The growth of the output buffer, for every word size, initial capacity, *)
(* strategy and step.                                                      *)
(***************************************************************************)
EXTENDS OutputBuffer, TLAPS

\* The arithmetic of rounding up to a multiple of the step.
LEMMA RoundUp ==
    ASSUME NEW s \in Nat \ {0}, NEW n \in Nat \ {0}
    PROVE  /\ s * ((n + s - 1) \div s) \in Nat
           /\ n <= s * ((n + s - 1) \div s)
           /\ s * ((n + s - 1) \div s) < n + s
<1> DEFINE m == n + s - 1
<1>1. m \in Nat
  OBVIOUS
<1>2. m = s * (m \div s) + (m % s) /\ m % s \in 0 .. s - 1 /\ m \div s \in Nat
  BY <1>1, Z3T(20)
<1>3. s * (m \div s) \in Nat
  BY <1>2
<1> QED
  BY <1>2, <1>3

\* Without wrap-around a growth asks for at least what is required.
LEMMA NewCapCovers ==
    ASSUME TypeOK, NEW required \in Nat, required > cap, required + initial < WordSize
    PROVE  NewCap(cap, required) \in Nat /\ NewCap(cap, required) >= required
<1> USE CapAssumption DEF TypeOK, WordSize, MaxWord
<1>1. (required + initial) % WordSize = required + initial
  OBVIOUS
<1>2. Saturated(4 * cap) \in Nat /\ Saturated(2 * cap) \in Nat
  BY DEF Saturated
<1>3. CASE strategy = "X4"
  BY <1>1, <1>2, <1>3 DEF NewCap, Larger
<1>4. CASE strategy = "X2"
  BY <1>1, <1>2, <1>4 DEF NewCap, Larger
<1>5. CASE strategy = "Fixed"
  <2> DEFINE n == required - cap
             up == Step * ((n + Step - 1) \div Step)
  <2>1. n \in Nat \ {0}
    OBVIOUS
  <2>2. up \in Nat /\ n <= up
    BY <2>1, RoundUp
  <2>3. NewCap(cap, required) = Saturated(cap + up)
    BY <1>5 DEF NewCap, FixedCap
  <2> HIDE DEF up
  <2> QED
    BY <2>1, <2>2, <2>3 DEF Saturated
<1> QED
  BY <1>3, <1>4, <1>5 DEF Strategies

Inv == TypeOK /\ BufferHoldsWritten /\ initial <= cap

LEMMA WantedIsNat ==
    ASSUME Inv, NEW n \in Writes, Grows(n)
    PROVE  NewCap(cap, len + n) \in Nat
<1> USE CapAssumption, InputAssumption
<1> DEFINE required == len + n
<1>1. required \in Nat /\ required > cap
  BY DEF Inv, TypeOK, Grows
<1>2. Saturated(4 * cap) \in Nat /\ Saturated(2 * cap) \in Nat
      /\ (required + initial) % WordSize \in Nat
  BY <1>1 DEF Saturated, MaxWord, WordSize, Inv, TypeOK
<1>3. CASE strategy = "Fixed"
  <2> DEFINE up == Step * ((required - cap + Step - 1) \div Step)
  <2>1. required - cap \in Nat \ {0} /\ cap \in Nat
    BY <1>1 DEF Inv, TypeOK
  <2>2. up \in Nat
    BY <2>1, RoundUp
  <2>3. NewCap(cap, required) = Saturated(cap + up)
    BY <1>1, <2>1, <1>3 DEF NewCap, FixedCap
  <2> HIDE DEF up
  <2> QED
    BY <2>1, <2>2, <2>3 DEF Saturated, MaxWord
<1> QED
  BY <1>2, <1>3 DEF NewCap, Larger, Inv, TypeOK, Strategies

\* A growth that is not refused is far from wrapping, and asks for enough.
LEMMA Enough == Inv => GrowthIsEnough
<1> USE CapAssumption, InputAssumption
<1> SUFFICES ASSUME Inv, NEW n \in Writes, Grows(n), ~Refused(n)
             PROVE  NewCap(cap, len + n) >= len + n
  BY DEF GrowthIsEnough
<1> DEFINE required == len + n
           wanted   == NewCap(cap, required)
<1>1. n \in 1 .. MaxCap /\ required \in Nat /\ required > cap
  BY DEF Inv, TypeOK, Grows
<1>2. wanted \in Nat => 2 * cap <= MaxCap
  BY DEF Refused, Reserved, Larger, Inv, TypeOK
<1>3. wanted \in Nat
  BY WantedIsNat
<1>4. required + initial < WordSize
  BY <1>1, <1>2, <1>3 DEF Inv, TypeOK, BufferHoldsWritten, WordSize, MaxWord
<1> QED
  BY <1>1, <1>4, NewCapCovers DEF Inv

LEMMA Invariance == Spec => []Inv
<1> USE CapAssumption, InputAssumption DEF Inv
<1>1. Init => Inv
  BY DEF Init, Inv, TypeOK, BufferHoldsWritten, InitialCap
<1>2. ASSUME Inv, NEW n \in Writes, Write(n) PROVE Inv'
  <2>1. n \in 1 .. MaxCap
    OBVIOUS
  <2>2. CASE ~Grows(n)
    BY <1>2, <2>1, <2>2 DEF Write, Grows, TypeOK, BufferHoldsWritten
  <2>3. CASE Grows(n)
    <3> DEFINE wanted == NewCap(cap, len + n)
    <3>1. wanted >= len + n
      BY <1>2, <2>3, Enough DEF GrowthIsEnough, Write
    <3>2. cap' = Larger(2 * cap, wanted) /\ cap' <= MaxCap
          /\ len' = len + n /\ written' = written + n
          /\ UNCHANGED <<initial, strategy>>
      <4>1. cap' = Larger(2 * cap, wanted) /\ ~(Larger(2 * cap, wanted) > MaxCap)
        BY <1>2, <2>3 DEF Write, Refused, Reserved
      <4>2. wanted \in Nat
        BY <1>2, <2>3, WantedIsNat
      <4> QED
        BY <1>2, <4>1, <4>2 DEF Write, Larger, TypeOK
    <3>3. wanted \in Nat
      BY <1>2, <2>3, WantedIsNat
    <3> QED
      BY <1>2, <2>1, <3>1, <3>2, <3>3 DEF Larger, TypeOK, BufferHoldsWritten
  <2> QED
    BY <2>2, <2>3
<1>3. ASSUME Inv, NEW n \in Writes, WritePanics(n) PROVE Inv'
  BY <1>3 DEF WritePanics, vars, TypeOK, BufferHoldsWritten
<1>4. Inv /\ [Next]_vars => Inv'
  <2> SUFFICES ASSUME Inv, [Next]_vars PROVE Inv'
    OBVIOUS
  <2>1. CASE UNCHANGED vars
    BY <2>1 DEF vars, TypeOK, BufferHoldsWritten
  <2> QED
    BY <1>2, <1>3, <2>1 DEF Next
<1> QED
  BY <1>1, <1>4, PTL DEF Spec

(* The buffer holds what PHP was told was written, within its capacity,    *)
(* and the capacity within isize::MAX.                                     *)
THEOREM Holds == Spec => [](TypeOK /\ BufferHoldsWritten)
<1>1. Inv => TypeOK /\ BufferHoldsWritten
  BY DEF Inv
<1> QED
  BY Invariance, <1>1, PTL

(* The capacity computed for a growth is enough for the piece, so reserve  *)
(* makes the only reallocation.                                            *)
THEOREM OneReallocation == Spec => []GrowthIsEnough
  BY Invariance, Enough, PTL

(* The subtraction in reserve's argument cannot wrap.                      *)
THEOREM NoWrap == Spec => []NoUnderflow
<1> USE CapAssumption, InputAssumption
<1>1. ASSUME Inv, NEW n \in Writes, Grows(n) PROVE NewCap(cap, len + n) >= len
  <2> DEFINE required == len + n
  <2>1. required \in Nat /\ required > cap /\ len <= cap /\ cap \in 1 .. MaxCap
    BY <1>1 DEF Inv, TypeOK, BufferHoldsWritten, Grows
  <2>2. CASE strategy = "Fixed"
    <3> DEFINE up == Step * ((required - cap + Step - 1) \div Step)
    <3>0. required - cap \in Nat \ {0}
      BY <2>1
    <3>1. up \in Nat
      BY <3>0, RoundUp
    <3>2. NewCap(cap, required) = Saturated(cap + up)
      BY <2>1, <2>2 DEF NewCap, FixedCap
    <3> HIDE DEF up
    <3> QED
      BY <2>1, <3>1, <3>2, <1>1 DEF Saturated, MaxWord, Inv, TypeOK
  <2>3. CASE strategy \in {"X4", "X2"}
    <3>1. (required + initial) % WordSize \in Nat
      BY <1>1, <2>1 DEF WordSize, MaxWord, Inv, TypeOK
    <3>2. Saturated(4 * cap) >= cap /\ Saturated(2 * cap) >= cap
          /\ Saturated(4 * cap) \in Nat /\ Saturated(2 * cap) \in Nat
      BY <2>1 DEF Saturated, MaxWord
    <3>3. \/ NewCap(cap, required) = Larger(Saturated(4 * cap), (required + initial) % WordSize)
          \/ NewCap(cap, required) = Larger(Saturated(2 * cap), (required + initial) % WordSize)
      BY <2>3 DEF NewCap
    <3> QED
      BY <1>1, <2>1, <3>1, <3>2, <3>3 DEF Larger, Inv, TypeOK
  <2> QED
    BY <1>1, <2>2, <2>3 DEF Inv, TypeOK, Strategies
<1>2. Inv => NoUnderflow
  BY <1>1 DEF NoUnderflow
<1> QED
  BY Invariance, <1>2, PTL

(* Output is refused only near the end of the address space.               *)
THEOREM RefusalIsRare == Spec => []RefusedOnlyAtLimit
<1> USE CapAssumption, InputAssumption
<1>1. ASSUME Inv, NEW n \in Writes, Refused(n)
      PROVE  \/ 4 * cap > MaxCap
             \/ len + n + initial > MaxCap
             \/ strategy = "Fixed" /\ len + n + Step > MaxCap
  <2> DEFINE required == len + n
             wanted   == NewCap(cap, required)
  <2>1. Grows(n) /\ required \in Nat /\ required > cap /\ cap \in 1 .. MaxCap
        /\ initial \in Nat
    BY <1>1 DEF Refused, Inv, TypeOK, Grows
  <2>2. wanted \in Nat
    BY <1>1, <2>1, WantedIsNat
  <2>3. 2 * cap > MaxCap \/ wanted > MaxCap
    BY <1>1, <2>1, <2>2 DEF Refused, Reserved, Larger
  <2>4. CASE 2 * cap > MaxCap
    BY <2>1, <2>4
  <2>5. CASE wanted > MaxCap /\ strategy = "Fixed"
    <3> DEFINE up == Step * ((required - cap + Step - 1) \div Step)
    <3>0. required - cap \in Nat \ {0}
      BY <2>1
    <3>1. up \in Nat /\ up < required - cap + Step
      BY <3>0, RoundUp
    <3>2. wanted = Saturated(cap + up)
      BY <2>1, <2>5 DEF NewCap, FixedCap
    <3> HIDE DEF up
    <3> QED
      BY <2>1, <2>5, <3>1, <3>2 DEF Saturated, MaxWord
  <2>6. CASE wanted > MaxCap /\ strategy # "Fixed"
    <3>1. (required + initial) % WordSize <= required + initial
          /\ (required + initial) % WordSize \in Nat
      BY <2>1 DEF WordSize, MaxWord
    <3>2. Saturated(4 * cap) <= 4 * cap /\ Saturated(2 * cap) <= 4 * cap
          /\ Saturated(4 * cap) \in Nat /\ Saturated(2 * cap) \in Nat
      BY <2>1 DEF Saturated, MaxWord
    <3>3. \/ wanted = Larger(Saturated(4 * cap), (required + initial) % WordSize)
          \/ wanted = Larger(Saturated(2 * cap), (required + initial) % WordSize)
      BY <1>1, <2>6 DEF NewCap, Inv, TypeOK, Strategies
    <3> HIDE DEF wanted
    <3> QED
      BY <2>1, <2>2, <2>6, <3>1, <3>2, <3>3 DEF Larger
  <2> QED
    BY <2>3, <2>2, <2>4, <2>5, <2>6
<1>2. Inv => RefusedOnlyAtLimit
  BY <1>1 DEF RefusedOnlyAtLimit
<1> QED
  BY Invariance, <1>2, PTL
=============================================================================
