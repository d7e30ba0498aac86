------------------------------ MODULE Counting ------------------------------
(***************************************************************************)
(* Induction up to a number, stated about a set instead of a predicate: a  *)
(* fact is the set of the numbers it holds of.                             *)
(***************************************************************************)
EXTENDS Integers, FiniteSetTheorems, TLAPS

\* A set of numbers up to n that holds 0 and, with a number below n, the next one,
\* holds n: else adding 1 would map the set, which is finite, into itself without 0.
\* (The proofs about the order of eBPF programs and of rewriting rules count.)
LEMMA CountUp ==
  ASSUME NEW n \in Nat, NEW T \in SUBSET (0 .. n), 0 \in T,
         \A i \in T : i < n => i + 1 \in T
  PROVE  n \in T
<1>. SUFFICES ASSUME n \notin T PROVE FALSE
  OBVIOUS
<1>. DEFINE S == T \ {0}
           f == [i \in T |-> i + 1]
<1>1. IsFiniteSet(T)
  <2>1. IsFiniteSet(0 .. n)
    BY FS_Interval
  <2>. QED
    BY <2>1, FS_Subset
<1>2. IsFiniteSet(S) /\ Cardinality(S) < Cardinality(T)
  <2>1. Cardinality(T) \in Nat
    BY <1>1, FS_CardinalityType
  <2>2. IsFiniteSet(S) /\ Cardinality(S) = Cardinality(T) - 1
    BY <1>1, FS_RemoveElement
  <2>. QED
    BY <2>1, <2>2
<1>3. f \in [T -> S]
  OBVIOUS
<1>4. PICK x, y \in T : x # y /\ f[x] = f[y]
  <2>. HIDE DEF S, f
  <2>. QED  BY <1>1, <1>2, <1>3, FS_PigeonHole
<1>. QED
  BY <1>4
=============================================================================
