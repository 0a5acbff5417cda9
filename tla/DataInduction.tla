--------------------------- MODULE DataInduction ---------------------------
(***************************************************************************)
(* Induction over the natural numbers and what recursive functions of them *)
(* are, without a parameter that is an operator: the property to be proved *)
(* is given as the set of numbers that have it.  All rests on finite sets  *)
(* being well-founded under inclusion.                                     *)
(***************************************************************************)
EXTENDS Integers, FiniteSetTheorems, TLAPS

(* A set of natural numbers has a least element.                           *)
LEMMA LeastNat ==
  ASSUME NEW T, T \subseteq Nat, T # {}
  PROVE  \E n \in T : \A m \in T : n <= m
<1> DEFINE U == {1 .. n : n \in T}
           R == StrictSubsetOrdering(Nat)
<1>1. IsWellFoundedOn(R, FiniteSubsetsOf(Nat))
  BY FS_StrictSubsetOrderingWellFounded
<1>2. U \subseteq FiniteSubsetsOf(Nat) /\ U # {}
  <2>1. ASSUME NEW n \in T PROVE 1 .. n \in FiniteSubsetsOf(Nat)
    <3>1. 1 .. n \subseteq Nat
      OBVIOUS
    <3>2. IsFiniteSet(1 .. n)
      BY FS_Interval
    <3> QED BY <3>1, <3>2 DEF FiniteSubsetsOf
  <2> QED BY <2>1
<1>3. \E x \in U : \A y \in U : <<y, x>> \notin R
  <2> HIDE DEF R, U
  <2> QED BY <1>1, <1>2, WFMin
<1>4. PICK n \in T : \A m \in T : <<1 .. m, 1 .. n>> \notin R
  BY <1>3
<1>5. ASSUME NEW m \in T PROVE n <= m
  <2>1. SUFFICES ASSUME m < n PROVE FALSE
    OBVIOUS
  <2>2. <<1 .. m, 1 .. n>> \in R
    BY <2>1 DEF StrictSubsetOrdering
  <2> QED BY <2>2, <1>4
<1> QED BY <1>5

(* Induction up to n.                                                      *)
LEMMA IntervalInduction ==
  ASSUME NEW n \in Nat, NEW T, 0 \in T,
         \A m \in 0 .. n - 1 : m \in T => m + 1 \in T
  PROVE  0 .. n \subseteq T
<1> DEFINE U == {m \in 0 .. n : m \notin T}
<1>1. SUFFICES ASSUME U # {} PROVE FALSE
  OBVIOUS
<1>2. PICK m \in U : \A k \in U : m <= k
  <2>1. U \subseteq Nat
    OBVIOUS
  <2> HIDE DEF U
  <2> QED BY <1>1, <2>1, LeastNat
<1>3. m - 1 \in 0 .. n - 1 /\ m - 1 \notin U
  BY <1>2
<1>4. m - 1 \in T /\ (m - 1) + 1 = m
  BY <1>3
<1> QED BY <1>3, <1>4

(* Induction over all natural numbers.                                     *)
LEMMA SetInduction ==
  ASSUME NEW T, 0 \in T, \A m \in Nat : m \in T => m + 1 \in T
  PROVE  Nat \subseteq T
<1>1. ASSUME NEW n \in Nat PROVE n \in T
  <2>1. 0 .. n \subseteq T
    BY IntervalInduction
  <2> QED BY <2>1
<1> QED BY <1>1

(* A bounded set of natural numbers has a greatest element.                *)
LEMMA GreatestNat ==
  ASSUME NEW T, T \subseteq Nat, T # {}, NEW b \in Nat, \A m \in T : m <= b
  PROVE  \E n \in T : \A m \in T : m <= n
<1> DEFINE U == {c \in Nat : \A m \in T : m <= c}
<1>1. PICK c \in U : \A d \in U : c <= d
  <2>1. U \subseteq Nat /\ b \in U
    OBVIOUS
  <2> HIDE DEF U
  <2> QED BY <2>1, LeastNat
<1>2. c \in T
  <2>1. SUFFICES ASSUME c \notin T PROVE FALSE
    OBVIOUS
  <2>2. \A m \in T : m <= c - 1
    BY <2>1
  <2>3. PICK m \in T : TRUE
    OBVIOUS
  <2>4. c - 1 \in U
    BY <2>2, <2>3
  <2> QED BY <2>4, <1>1
<1> QED BY <1>2

(* A function can be defined from a first value and a step.                *)
Follows(f, base, step, n) == f[0] = base /\ \A k \in 1 .. n : f[k] = step[k][f[k - 1]]

LEMMA RecursiveFunction ==
  ASSUME NEW n \in Nat, NEW X, NEW base \in X,
         NEW step, \A k \in 1 .. n : \A x \in X : step[k][x] \in X
  PROVE  \E f \in [0 .. n -> X] : Follows(f, base, step, n)
<1> DEFINE T == {m \in 0 .. n : \E f \in [0 .. m -> X] : Follows(f, base, step, m)}
<1>1. 0 \in T
  <2> DEFINE g == [k \in 0 .. 0 |-> base]
  <2>1. g \in [0 .. 0 -> X]
    OBVIOUS
  <2>2. Follows(g, base, step, 0)
    <3>1. g[0] = base
      OBVIOUS
    <3>2. 1 .. 0 = {}
      OBVIOUS
    <3> HIDE DEF g
    <3> QED BY <3>1, <3>2 DEF Follows
  <2>3. 0 \in 0 .. n
    OBVIOUS
  <2> HIDE DEF g
  <2> QED BY <2>1, <2>2, <2>3
<1>2. ASSUME NEW m \in 0 .. n - 1, m \in T PROVE m + 1 \in T
  <2>1. PICK f \in [0 .. m -> X] : Follows(f, base, step, m)
    BY <1>2
  <2> DEFINE g == [k \in 0 .. m + 1 |-> IF k <= m THEN f[k] ELSE step[m + 1][f[m]]]
  <2>2. g \in [0 .. m + 1 -> X]
    <3>1. step[m + 1][f[m]] \in X
      <4>1. m + 1 \in 1 .. n /\ f[m] \in X
        OBVIOUS
      <4> QED BY <4>1
    <3>2. ASSUME NEW k \in 0 .. m + 1 PROVE (IF k <= m THEN f[k] ELSE step[m + 1][f[m]]) \in X
      BY <3>1
    <3> QED BY <3>2
  <2>3. g[0] = base
    BY <2>1 DEF Follows
  <2>4. ASSUME NEW k \in 1 .. m + 1 PROVE g[k] = step[k][g[k - 1]]
    <3>1. k - 1 \in 0 .. m /\ g[k - 1] = f[k - 1]
      OBVIOUS
    <3>2. CASE k <= m
      BY <2>1, <3>1, <3>2 DEF Follows
    <3>3. CASE k = m + 1
      BY <3>1, <3>3
    <3> QED BY <3>2, <3>3
  <2>5. Follows(g, base, step, m + 1)
    <3> HIDE DEF g
    <3> QED BY <2>3, <2>4 DEF Follows
  <2>6. m + 1 \in 0 .. n
    OBVIOUS
  <2> HIDE DEF g
  <2> QED BY <2>2, <2>5, <2>6
<1>3. n \in T
  <2> HIDE DEF T
  <2>1. 0 .. n \subseteq T
    BY <1>1, <1>2, IntervalInduction
  <2> QED BY <2>1
<1> QED BY <1>3

(* Two functions that begin alike and go on alike are alike.               *)
Agree(f, g, n) == \A k \in 0 .. n : f[k] = g[k]

LEMMA AgreeUpTo ==
  ASSUME NEW n \in Nat, NEW f, NEW g, f[0] = g[0],
         \A k \in 1 .. n : f[k - 1] = g[k - 1] => f[k] = g[k]
  PROVE  Agree(f, g, n)
<1> DEFINE T == {k \in 0 .. n : f[k] = g[k]}
<1>1. 0 \in T
  OBVIOUS
<1>2. ASSUME NEW m \in 0 .. n - 1, m \in T PROVE m + 1 \in T
  <2>1. m + 1 \in 1 .. n /\ (m + 1) - 1 = m
    OBVIOUS
  <2>2. f[m + 1] = g[m + 1]
    BY <1>2, <2>1
  <2> QED BY <2>1, <2>2
<1>3. 0 .. n \subseteq T
  <2> HIDE DEF T
  <2> QED BY <1>1, <1>2, IntervalInduction
<1> QED BY <1>3 DEF Agree
=============================================================================
