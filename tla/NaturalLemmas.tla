---------------------------- MODULE NaturalLemmas ----------------------------
(****************************************************************************)
(* Facts about natural numbers and finite sets that the proofs of several   *)
(* components rest on.  They are about no code.                             *)
(****************************************************************************)
EXTENDS Integers, FiniteSetsExt, FiniteSetTheorems, TLAPS

\* A set of naturals with an element has a least one: what a table scan of
\* the code that finds a slot stops at, and the least counterexample of an
\* induction.  The order of the naturals is well founded.
LEMMA LeastExists ==
  ASSUME NEW S \in SUBSET Nat, S # {}
  PROVE  \E n \in S : \A m \in S : n =< m
<1> DEFINE R == OpToRel(<, Nat)
<1>1. IsWellFoundedOn(R, Nat)
  BY NatLessThanWellFounded
<1>2. \A m, n \in Nat : m < n => <<m, n>> \in R
  BY DEF OpToRel
<1> HIDE DEF R
<1>3. \E n \in S : \A m \in S : ~(<<m, n>> \in R)
  BY <1>1, WFMin
<1>4. PICK n \in S : \A m \in S : ~(<<m, n>> \in R)
  BY <1>3
<1>5. ASSUME NEW m \in S PROVE n =< m
  <2>1. ~(m < n)
    BY <1>4, <1>2
  <2> QED BY <2>1
<1> QED BY <1>5

\* Below a bound it has a greatest one too: the least distance to the bound.
LEMMA GreatestExists ==
  ASSUME NEW N \in Nat, NEW S \in SUBSET (0 .. N), S # {}
  PROVE  \E n \in S : \A m \in S : m =< n
<1> DEFINE D == {N - i : i \in S}
<1>1. D \in SUBSET Nat /\ D # {}
  <2>1. \A i \in S : N - i \in Nat
    OBVIOUS
  <2> QED BY <2>1
<1> HIDE DEF D
<1>2. PICK d \in D : \A e \in D : d =< e
  BY <1>1, LeastExists
<1>3. PICK n \in S : d = N - n
  BY DEF D
<1>4. ASSUME NEW m \in S PROVE m =< n
  <2>1. N - m \in D
    BY DEF D
  <2>2. N - n =< N - m
    BY <1>2, <1>3, <2>1
  <2> QED BY <2>2
<1> QED BY <1>4

\* Min and Max give them: the first place a scan stops at, and the last.
LEMMA MinOf ==
  ASSUME NEW S \in SUBSET Nat, S # {}
  PROVE  Min(S) \in S /\ \A m \in S : Min(S) =< m
BY LeastExists DEF Min

LEMMA MaxOf ==
  ASSUME NEW N \in Nat, NEW S \in SUBSET (0 .. N), S # {}
  PROVE  Max(S) \in S
<1>1. \E n \in S : \A m \in S : n >= m
  BY GreatestExists
<1> QED BY <1>1 DEF Max

LEMMA MinOfTwo ==
  ASSUME NEW a \in Nat, NEW b \in Nat
  PROVE  Min({a, b}) = IF a =< b THEN a ELSE b
<1>1. Min({a, b}) \in {a, b} /\ Min({a, b}) =< a /\ Min({a, b}) =< b
  BY MinOf
<1> QED BY <1>1

\* The remainder of a number by a larger one is the number.
LEMMA Remainder ==
  ASSUME NEW n \in Nat, NEW N \in Nat \ {0}
  PROVE  n % N \in 0 .. N - 1 /\ (n < N => n % N = n)
<1>1. n % N \in 0 .. N - 1 /\ n \div N \in Int /\ n = N * (n \div N) + (n % N)
  OBVIOUS
<1>2. ASSUME n < N PROVE n % N = n
  <2>1. n \div N < 1 /\ n \div N > -1
    BY <1>1, <1>2
  <2>2. n \div N = 0
    BY <1>1, <2>1
  <2> QED BY <1>1, <1>2, <2>2
<1> QED BY <1>1, <1>2
==============================================================================
