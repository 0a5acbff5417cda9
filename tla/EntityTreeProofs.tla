-------------------------- MODULE EntityTreeProofs --------------------------
(***************************************************************************)
(* What EntityParser's trees are and what an edit does to one, for every   *)
(* tree: the lemmas the invariance proof of EntityParserProofs rests on.   *)
(*                                                                         *)
(* A tree is the list of its lines from the top, each with its depth, so   *)
(* everything here is about lists: totals and joinings of lists, computed  *)
(* by recursive functions and reasoned about with DataInduction; the       *)
(* children of a node, which are the lines one level below it before the   *)
(* next line that is not below it; "forests", whole nodes at one depth,    *)
(* which is what a parse yields and what lies between two cuts of a node;  *)
(* what a forest put between two cuts does to the tree, to its child       *)
(* counts and to its sizes; and so what the three edits do.                *)
(***************************************************************************)
EXTENDS EntityParser, DataInduction, SequenceTheorems

-----------------------------------------------------------------------------
(* Totals.                                                                 *)

Sums(f, s) ==
  /\ f \in [0 .. Len(s) -> Nat] /\ f[0] = 0
  /\ \A k \in 1 .. Len(s) : f[k] = f[k - 1] + s[k]

(* A total is the last value of the function that adds the members up one  *)
(* by one.                                                                 *)
LEMMA TotalRecursion ==
  ASSUME NEW s \in Seq(Nat)
  PROVE  \E f : Sums(f, s) /\ Total(s) = f[Len(s)]
<1> DEFINE n == Len(s)
           Def(f) == [k \in 0 .. n |-> IF k = 0 THEN 0 ELSE f[k - 1] + s[k]]
           adding == [k \in 1 .. n |-> [x \in Nat |-> x + s[k]]]
<1>n. n \in Nat /\ \A k \in 1 .. n : s[k] \in Nat
  OBVIOUS
<1>1. PICK f \in [0 .. n -> Nat] : Follows(f, 0, adding, n)
  <2>1. \A k \in 1 .. n : \A x \in Nat : adding[k][x] \in Nat
    BY <1>n
  <2> HIDE DEF adding, n
  <2> QED BY <1>n, <2>1, RecursiveFunction
<1>2. f[0] = 0 /\ \A k \in 1 .. n : f[k] = f[k - 1] + s[k]
  <2>1. \A k \in 1 .. n : \A x \in Nat : adding[k][x] = x + s[k]
    OBVIOUS
  <2>2. \A k \in 1 .. n : f[k - 1] \in Nat
    BY <1>n
  <2> HIDE DEF adding, n
  <2> QED BY <1>1, <2>1, <2>2 DEF Follows
<1>3. \E g : g = Def(g)
  <2>1. f = [k \in 0 .. n |-> f[k]]
    OBVIOUS
  <2>2. \A k \in 0 .. n : f[k] = IF k = 0 THEN 0 ELSE f[k - 1] + s[k]
    <3> HIDE DEF n
    <3> QED BY <1>n, <1>2
  <2>3. f = Def(f)
    BY <2>1, <2>2
  <2> HIDE DEF Def
  <2> QED BY <2>3
<1> DEFINE c == CHOOSE g : g = Def(g)
<1>4. c = Def(c)
  <2> HIDE DEF Def
  <2> QED BY <1>3
<1>5. Total(s) = c[n]
  BY DEF Total
<1>6. c[0] = 0 /\ \A k \in 1 .. n : c[k] = c[k - 1] + s[k]
  <2> HIDE DEF c, n
  <2> QED BY <1>n, <1>4
<1>7. Agree(c, f, n)
  <2> HIDE DEF c, n
  <2>1. c[0] = f[0]
    BY <1>6, <1>2
  <2>2. \A k \in 1 .. n : c[k - 1] = f[k - 1] => c[k] = f[k]
    BY <1>6, <1>2
  <2> QED BY <1>n, <2>1, <2>2, AgreeUpTo
<1>8. c[n] = f[n]
  <2> HIDE DEF c, n
  <2> QED BY <1>n, <1>7 DEF Agree
<1> HIDE DEF c
<1> QED BY <1>2, <1>5, <1>8 DEF Sums

(* Any function that adds the members up ends with the total.              *)
LEMMA TotalIs ==
  ASSUME NEW s \in Seq(Nat), NEW g, Sums(g, s)
  PROVE  Total(s) = g[Len(s)] /\ Total(s) \in Nat
<1>1. PICK f : Sums(f, s) /\ Total(s) = f[Len(s)]
  BY TotalRecursion
<1>n. Len(s) \in Nat
  OBVIOUS
<1>2. Agree(f, g, Len(s))
  <2>1. f[0] = g[0] /\ \A k \in 1 .. Len(s) : f[k - 1] = g[k - 1] => f[k] = g[k]
    BY <1>1 DEF Sums
  <2> QED BY <1>n, <2>1, AgreeUpTo
<1> QED BY <1>n, <1>1, <1>2 DEF Agree, Sums

(* The total of natural numbers is one.                                    *)
LEMMA TotalNat ==
  ASSUME NEW s \in Seq(Nat)
  PROVE  Total(s) \in Nat
BY TotalRecursion, TotalIs

(* The total of two lists joined is the sum of their totals.               *)
LEMMA TotalConcat ==
  ASSUME NEW s \in Seq(Nat), NEW t \in Seq(Nat)
  PROVE  Total(s \o t) = Total(s) + Total(t)
<1>1. PICK f : Sums(f, s) /\ Total(s) = f[Len(s)]
  BY TotalRecursion
<1>2. PICK g : Sums(g, t) /\ Total(t) = g[Len(t)]
  BY TotalRecursion
<1> DEFINE m == Len(s)
           n == Len(t)
           h == [k \in 0 .. m + n |-> IF k <= m THEN f[k] ELSE f[m] + g[k - m]]
<1>3. m \in Nat /\ n \in Nat /\ f \in [0 .. m -> Nat] /\ g \in [0 .. n -> Nat]
  BY <1>1, <1>2 DEF Sums
<1>4. s \o t \in Seq(Nat) /\ Len(s \o t) = m + n
  OBVIOUS
<1>5. Sums(h, s \o t)
  <2>1. h \in [0 .. m + n -> Nat]
    <3>1. ASSUME NEW k \in 0 .. m + n PROVE (IF k <= m THEN f[k] ELSE f[m] + g[k - m]) \in Nat
      <4> HIDE DEF m, n
      <4> QED BY <1>3
    <3> QED BY <3>1
  <2>2. h[0] = 0
    BY <1>1, <1>3 DEF Sums
  <2>3. ASSUME NEW k \in 1 .. m + n PROVE h[k] = h[k - 1] + (s \o t)[k]
    <3>1. CASE k <= m
      <4>1. h[k] = f[k] /\ h[k - 1] = f[k - 1] /\ f[k] = f[k - 1] + s[k]
        BY <1>1, <1>3, <3>1 DEF Sums
      <4>2. (s \o t)[k] = s[k]
        BY <3>1
      <4> QED BY <4>1, <4>2
    <3>2. CASE k > m
      <4>1. k - m \in 1 .. n /\ (s \o t)[k] = t[k - m]
        BY <1>3, <3>2
      <4>2. g[k - m] = g[k - m - 1] + t[k - m]
        BY <1>2, <4>1 DEF Sums
      <4>3. h[k] = f[m] + g[k - m]
        BY <1>3, <3>2
      <4>4. h[k - 1] = f[m] + g[k - m - 1]
        <5>1. CASE k = m + 1
          <6>1. k - 1 = m /\ k - m - 1 = 0 /\ g[0] = 0 /\ h[m] = f[m] /\ f[m] \in Nat
            BY <1>2, <1>3, <5>1 DEF Sums
          <6>2. h[k - 1] = f[m] /\ g[k - m - 1] = 0
            BY <6>1
          <6> HIDE DEF h, m
          <6> QED BY <6>1, <6>2
        <5>2. CASE k > m + 1
          BY <1>3, <3>2, <5>2
        <5> QED BY <1>3, <3>2, <5>1, <5>2
      <4>5. f[m] \in Nat /\ g[k - m] \in Nat /\ g[k - m - 1] \in Nat /\ t[k - m] \in Nat
        <5>1. t[k - m] \in Nat
          BY <4>1
        <5>2. k - m - 1 \in 0 .. n /\ k - m \in 0 .. n /\ m \in 0 .. m
          BY <1>3, <4>1
        <5> HIDE DEF m, n
        <5> QED BY <1>3, <5>1, <5>2
      <4> HIDE DEF h, m, n
      <4> QED BY <4>1, <4>2, <4>3, <4>4, <4>5
    <3> QED BY <1>3, <3>1, <3>2
  <2> HIDE DEF h
  <2> QED BY <1>4, <2>1, <2>2, <2>3 DEF Sums
<1>6. h[m + n] = f[m] + g[n]
  <2>1. CASE n = 0
    <3>1. g[0] = 0 /\ f[m] \in Nat
      <4>1. m \in 0 .. m
        BY <1>3
      <4> HIDE DEF m
      <4> QED BY <1>2, <1>3, <4>1 DEF Sums
    <3>2. m + n = m /\ h[m] = f[m] /\ g[n] = 0
      BY <1>3, <2>1, <3>1
    <3> HIDE DEF h, m, n
    <3> QED BY <3>1, <3>2
  <2>2. CASE n > 0
    BY <1>3, <2>2
  <2> QED BY <1>3, <2>1, <2>2
<1> HIDE DEF h
<1> QED BY <1>1, <1>2, <1>4, <1>5, <1>6, TotalIs

(* The totals of no number and of one.                                     *)
LEMMA TotalSmall ==
  /\ Total(<<>>) = 0
  /\ \A x \in Nat : Total(<<x>>) = x
<1>1. Total(<<>>) = 0
  <2>1. <<>> \in Seq(Nat) /\ Len(<<>>) = 0
    OBVIOUS
  <2>2. PICK f : Sums(f, <<>>) /\ Total(<<>>) = f[Len(<<>>)]
    BY <2>1, TotalRecursion
  <2> QED BY <2>1, <2>2 DEF Sums
<1>2. ASSUME NEW x \in Nat PROVE Total(<<x>>) = x
  <2>1. <<x>> \in Seq(Nat) /\ Len(<<x>>) = 1 /\ <<x>>[1] = x
    OBVIOUS
  <2>2. PICK f : Sums(f, <<x>>) /\ Total(<<x>>) = f[Len(<<x>>)]
    BY <2>1, TotalRecursion
  <2>3. f[0] = 0 /\ f[1] = f[0] + <<x>>[1]
    <3>1. 1 \in 1 .. Len(<<x>>) /\ 1 - 1 = 0
      BY <2>1
    <3>2. f[1] = f[1 - 1] + <<x>>[1]
      BY <2>2, <3>1 DEF Sums
    <3> QED BY <2>2, <3>1, <3>2 DEF Sums
  <2> QED BY <2>1, <2>2, <2>3
<1> QED BY <1>1, <1>2

(* A list that is nowhere larger has no larger total.                      *)
LEMMA TotalAtMost ==
  ASSUME NEW s \in Seq(Nat), NEW t \in Seq(Nat), Len(s) = Len(t),
         \A k \in 1 .. Len(s) : s[k] <= t[k]
  PROVE  Total(s) <= Total(t)
<1>1. PICK f : Sums(f, s) /\ Total(s) = f[Len(s)]
  BY TotalRecursion
<1>2. PICK g : Sums(g, t) /\ Total(t) = g[Len(t)]
  BY TotalRecursion
<1> DEFINE n == Len(s)
           T == {k \in 0 .. n : f[k] <= g[k]}
<1>3. n \in Nat /\ f \in [0 .. n -> Nat] /\ g \in [0 .. n -> Nat]
  BY <1>1, <1>2 DEF Sums
<1>4. 0 \in T
  BY <1>1, <1>2, <1>3 DEF Sums
<1>5. ASSUME NEW m \in 0 .. n - 1, m \in T PROVE m + 1 \in T
  <2>1. m + 1 \in 1 .. n /\ (m + 1) - 1 = m
    BY <1>3
  <2>2. f[m + 1] = f[m] + s[m + 1] /\ g[m + 1] = g[m] + t[m + 1]
    BY <1>1, <1>2, <2>1 DEF Sums
  <2>3. f[m] <= g[m] /\ f[m] \in Nat /\ g[m] \in Nat /\ s[m + 1] \in Nat /\ t[m + 1] \in Nat
    <3>1. s[m + 1] \in Nat /\ t[m + 1] \in Nat
      BY <2>1
    <3>2. m \in 0 .. n /\ f[m] <= g[m]
      BY <1>5
    <3> HIDE DEF n
    <3> QED BY <1>3, <3>1, <3>2
  <2>4. s[m + 1] <= t[m + 1]
    BY <2>1
  <2> QED BY <2>1, <2>2, <2>3, <2>4
<1>6. n \in T
  <2> HIDE DEF T, n
  <2>1. 0 .. n \subseteq T
    BY <1>3, <1>4, <1>5, IntervalInduction
  <2> QED BY <1>3, <2>1
<1> QED BY <1>1, <1>2, <1>6

-----------------------------------------------------------------------------
(* Flattened sequences.                                                    *)

Joinings(f, s, X) ==
  /\ f \in [0 .. Len(s) -> Seq(X)] /\ f[0] = <<>>
  /\ \A k \in 1 .. Len(s) : f[k] = f[k - 1] \o s[k]

(* Flattening is the last value of the function that joins the members one *)
(* by one.                                                                 *)
LEMMA FlattenRecursion ==
  ASSUME NEW X, NEW s \in Seq(Seq(X))
  PROVE  \E f : Joinings(f, s, X) /\ FlattenSeq(s) = f[Len(s)]
<1> DEFINE n == Len(s)
           Def(f) == [i \in 1 .. n |-> IF i = 1 THEN s[i] ELSE f[i - 1] \o s[i]]
           joining == [k \in 1 .. n |-> [x \in Seq(X) |-> x \o s[k]]]
<1>n. n \in Nat /\ \A k \in 1 .. n : s[k] \in Seq(X)
  OBVIOUS
<1>1. PICK f \in [0 .. n -> Seq(X)] : Follows(f, <<>>, joining, n)
  <2>1. \A k \in 1 .. n : \A x \in Seq(X) : joining[k][x] \in Seq(X)
    <3>1. ASSUME NEW k \in 1 .. n, NEW x \in Seq(X) PROVE joining[k][x] \in Seq(X)
      <4>1. joining[k][x] = x \o s[k] /\ s[k] \in Seq(X)
        BY <1>n
      <4> HIDE DEF joining, n
      <4> QED BY <4>1, ConcatProperties
    <3> QED BY <3>1
  <2>2. <<>> \in Seq(X)
    OBVIOUS
  <2> HIDE DEF joining, n
  <2> QED BY <1>n, <2>1, <2>2, RecursiveFunction
<1>2. f[0] = <<>> /\ \A k \in 1 .. n : f[k] = f[k - 1] \o s[k]
  <2>1. \A k \in 1 .. n : \A x \in Seq(X) : joining[k][x] = x \o s[k]
    OBVIOUS
  <2>2. \A k \in 1 .. n : f[k - 1] \in Seq(X)
    <3>1. \A k \in 1 .. n : k - 1 \in 0 .. n
      BY <1>n
    <3> HIDE DEF n
    <3> QED BY <3>1
  <2> HIDE DEF joining, n
  <2> QED BY <1>1, <2>1, <2>2 DEF Follows
<1>3. Joinings(f, s, X)
  BY <1>2 DEF Joinings
<1>4. CASE n = 0
  <2>1. FlattenSeq(s) = s /\ s = <<>>
    BY <1>4 DEF FlattenSeq
  <2> QED BY <1>2, <1>3, <1>4, <2>1
<1>5. CASE n > 0
  <2> DEFINE g == [k \in 1 .. n |-> f[k]]
             c == CHOOSE h : h = Def(h)
  <2>1. g = Def(g)
    <3>1. \A k \in 1 .. n : g[k] = IF k = 1 THEN s[k] ELSE g[k - 1] \o s[k]
      <4>1. ASSUME NEW k \in 1 .. n PROVE g[k] = IF k = 1 THEN s[k] ELSE g[k - 1] \o s[k]
        <5>1. CASE k = 1
          <6>1. 1 - 1 = 0 /\ 1 \in 1 .. n
            BY <1>n, <5>1
          <6>2. f[1] = f[1 - 1] \o s[1] /\ s[1] \in Seq(X)
            BY <1>2, <1>n, <6>1, Zenon
          <6>3. <<>> \o s[1] = s[1]
            BY <6>2, ConcatEmptySeq, Zenon
          <6>4. f[1] = s[1]
            BY <1>2, <6>1, <6>2, <6>3, Zenon
          <6> QED BY <5>1, <6>1, <6>4
        <5>2. CASE k # 1
          <6>1. k - 1 \in 1 .. n
            BY <1>n, <5>2
          <6> HIDE DEF n
          <6> QED BY <1>2, <5>2, <6>1
        <5> QED BY <5>1, <5>2
      <4> QED BY <4>1
    <3> HIDE DEF n
    <3> QED BY <3>1
  <2>2. c = Def(c)
    <3>1. \E h : h = Def(h)
      <4> HIDE DEF Def, g
      <4> QED BY <2>1
    <3> HIDE DEF Def
    <3> QED BY <3>1
  <2>3. FlattenSeq(s) = c[n]
    BY <1>5 DEF FlattenSeq
  <2>4. \A k \in 1 .. n : c[k] = IF k = 1 THEN s[k] ELSE c[k - 1] \o s[k]
    <3> HIDE DEF c, n
    <3> QED BY <1>n, <2>2
  <2> DEFINE d == [k \in 0 .. n |-> IF k = 0 THEN <<>> ELSE c[k]]
  <2>5. Agree(d, f, n)
    <3>1. d[0] = f[0]
      BY <1>2, <1>n
    <3>2. ASSUME NEW k \in 1 .. n, d[k - 1] = f[k - 1] PROVE d[k] = f[k]
      <4>1. d[k] = c[k] /\ f[k] = f[k - 1] \o s[k]
        <5>1. k \in 0 .. n /\ k # 0
          BY <1>n
        <5>2. d[k] = c[k]
          BY <5>1
        <5> HIDE DEF d, n
        <5> QED BY <1>2, <5>2, Zenon
      <4>2. CASE k = 1
        <5>1. k - 1 = 0 /\ s[k] \in Seq(X)
          BY <1>n, <4>2
        <5>2. c[k] = s[k]
          <6> HIDE DEF c, n
          <6> QED BY <2>4, <4>2
        <5>3. <<>> \o s[k] = s[k]
          BY <5>1, ConcatEmptySeq
        <5> HIDE DEF c, d, n
        <5> QED BY <1>2, <4>1, <5>1, <5>2, <5>3, Zenon
      <4>3. CASE k # 1
        <5>1. d[k - 1] = c[k - 1]
          BY <1>n, <4>3
        <5> HIDE DEF c, d, n
        <5> QED BY <2>4, <3>2, <4>1, <4>3, <5>1
      <4> QED BY <4>2, <4>3
    <3> HIDE DEF d, n
    <3> QED BY <1>n, <3>1, <3>2, AgreeUpTo
  <2>6. d[n] = c[n] /\ d[n] = f[n]
    <3>1. d[n] = c[n]
      BY <1>n, <1>5
    <3> HIDE DEF d, n
    <3> QED BY <1>n, <2>5, <3>1 DEF Agree
  <2> HIDE DEF c, d
  <2> QED BY <1>3, <2>3, <2>6
<1> QED BY <1>n, <1>4, <1>5

(* Any function that joins the members one by one ends with the flattened  *)
(* list.                                                                   *)
LEMMA FlattenIs ==
  ASSUME NEW X, NEW s \in Seq(Seq(X)), NEW g, Joinings(g, s, X)
  PROVE  FlattenSeq(s) = g[Len(s)] /\ FlattenSeq(s) \in Seq(X)
<1>1. PICK f : Joinings(f, s, X) /\ FlattenSeq(s) = f[Len(s)]
  BY FlattenRecursion
<1>n. Len(s) \in Nat
  OBVIOUS
<1>2. Agree(f, g, Len(s))
  <2>1. f[0] = g[0] /\ \A k \in 1 .. Len(s) : f[k - 1] = g[k - 1] => f[k] = g[k]
    BY <1>1 DEF Joinings
  <2> QED BY <1>n, <2>1, AgreeUpTo
<1> QED BY <1>n, <1>1, <1>2 DEF Agree, Joinings

(* A member appended to the list is appended, flattened, to its            *)
(* flattening.                                                             *)
LEMMA FlattenAppend ==
  ASSUME NEW X, NEW s \in Seq(Seq(X)), NEW x \in Seq(X)
  PROVE  /\ FlattenSeq(s) \in Seq(X)
         /\ FlattenSeq(Append(s, x)) = FlattenSeq(s) \o x
<1>1. PICK f : Joinings(f, s, X) /\ FlattenSeq(s) = f[Len(s)]
  BY FlattenRecursion
<1> DEFINE n == Len(s)
           u == Append(s, x)
           g == [k \in 0 .. n + 1 |-> IF k <= n THEN f[k] ELSE f[n] \o x]
<1>2. n \in Nat /\ f \in [0 .. n -> Seq(X)] /\ f[0] = <<>> /\ f[n] \in Seq(X)
  BY <1>1 DEF Joinings
<1>3. u \in Seq(Seq(X)) /\ Len(u) = n + 1 /\ u[n + 1] = x /\ \A k \in 1 .. n : u[k] = s[k]
  OBVIOUS
<1>4. f[n] \o x \in Seq(X)
  BY <1>2, ConcatProperties
<1>5. Joinings(g, u, X)
  <2>1. g \in [0 .. n + 1 -> Seq(X)]
    <3>1. ASSUME NEW k \in 0 .. n + 1 PROVE (IF k <= n THEN f[k] ELSE f[n] \o x) \in Seq(X)
      <4> HIDE DEF n
      <4> QED BY <1>2, <1>4
    <3> QED BY <3>1
  <2>2. g[0] = <<>>
    BY <1>2
  <2>3. ASSUME NEW k \in 1 .. n + 1 PROVE g[k] = g[k - 1] \o u[k]
    <3>1. CASE k <= n
      <4>1. g[k] = f[k] /\ g[k - 1] = f[k - 1] /\ u[k] = s[k]
        BY <1>2, <1>3, <3>1
      <4>2. k \in 1 .. Len(s)
        BY <1>2, <3>1
      <4>3. f[k] = f[k - 1] \o s[k]
        BY <1>1, <4>2, Zenon DEF Joinings
      <4> HIDE DEF g, u
      <4> QED BY <4>1, <4>3, Zenon
    <3>2. CASE k = n + 1
      <4>1. g[k] = f[n] \o x /\ g[k - 1] = f[n] /\ u[k] = x
        BY <1>2, <1>3, <3>2
      <4> HIDE DEF g, u
      <4> QED BY <4>1, Zenon
    <3>3. k <= n \/ k = n + 1
      BY <1>2
    <3> QED BY <3>1, <3>2, <3>3
  <2> HIDE DEF g, u
  <2> QED BY <1>3, <2>1, <2>2, <2>3 DEF Joinings
<1>6. g[n + 1] = f[n] \o x
  BY <1>2
<1> HIDE DEF g, u
<1>7. FlattenSeq(u) = g[n + 1]
  BY <1>3, <1>5, FlattenIs
<1> QED BY <1>1, <1>2, <1>6, <1>7 DEF u

(* Flattening no list and one.                                             *)
LEMMA FlattenSmall ==
  /\ FlattenSeq(<<>>) = <<>>
  /\ \A X : \A x \in Seq(X) : FlattenSeq(<<x>>) = x
<1>1. FlattenSeq(<<>>) = <<>>
  BY DEF FlattenSeq
<1>2. ASSUME NEW X, NEW x \in Seq(X) PROVE FlattenSeq(<<x>>) = x
  <2>1. <<>> \in Seq(Seq(X)) /\ <<x>> = Append(<<>>, x)
    OBVIOUS
  <2>2. FlattenSeq(<<x>>) = <<>> \o x
    BY <1>1, <2>1, FlattenAppend
  <2> QED BY <2>2, ConcatEmptySeq
<1> QED BY <1>1, <1>2

(* Joining lists is associative: for three given lists,                    *)
LEMMA Associative ==
  ASSUME NEW X, NEW a \in Seq(X), NEW b \in Seq(X), NEW c \in Seq(X)
  PROVE  (a \o b) \o c = a \o (b \o c)
OBVIOUS

JoinsAssociate(X) == \A u, v, w \in Seq(X) : (u \o v) \o w = u \o (v \o w)

(* and as a fact about all lists over a set.                               *)
LEMMA ConcatAssociates == \A X : JoinsAssociate(X)
<1> SUFFICES ASSUME NEW X PROVE JoinsAssociate(X)
  OBVIOUS
<1>1. ASSUME NEW u \in Seq(X), NEW v \in Seq(X), NEW w \in Seq(X)
      PROVE  (u \o v) \o w = u \o (v \o w)
  OBVIOUS
<1> QED BY ONLY <1>1, Zenon DEF JoinsAssociate

(* A member appended to the second of two lists is appended to both        *)
(* joined.                                                                 *)
LEMMA AppendAcross ==
  ASSUME NEW X, NEW a \in Seq(X), NEW b \in Seq(X), NEW x \in X
  PROVE  a \o Append(b, x) = Append(a \o b, x)
OBVIOUS

(* The flattening of two lists of lists joined is their flattenings        *)
(* joined.                                                                 *)
LEMMA FlattenConcat ==
  ASSUME NEW X, NEW s \in Seq(Seq(X)), NEW t \in Seq(Seq(X))
  PROVE  /\ FlattenSeq(s \o t) = FlattenSeq(s) \o FlattenSeq(t)
         /\ FlattenSeq(s) \in Seq(X) /\ FlattenSeq(t) \in Seq(X)
<1> DEFINE T == {m \in 0 .. Len(t) :
                   FlattenSeq(s \o SubSeq(t, 1, m)) = FlattenSeq(s) \o FlattenSeq(SubSeq(t, 1, m))}
<1>0. /\ \A u \in Seq(Seq(X)) : FlattenSeq(u) \in Seq(X)
      /\ Len(t) \in Nat
  <2>1. <<>> \in Seq(X)
    OBVIOUS
  <2> QED BY <2>1, FlattenAppend
<1>1. 0 \in T
  <2>1. SubSeq(t, 1, 0) = <<>> /\ s \o <<>> = s
    BY ConcatEmptySeq, SubSeqEmpty
  <2>2. FlattenSeq(s) \o <<>> = FlattenSeq(s)
    BY <1>0, ConcatEmptySeq
  <2>3. FlattenSeq(s \o SubSeq(t, 1, 0)) = FlattenSeq(s) \o FlattenSeq(SubSeq(t, 1, 0))
    BY <2>1, <2>2, FlattenSmall, Zenon
  <2>4. 0 \in 0 .. Len(t)
    BY <1>0
  <2> QED BY <2>3, <2>4
<1>2. ASSUME NEW m \in 0 .. Len(t) - 1, m \in T PROVE m + 1 \in T
  <2> DEFINE p == SubSeq(t, 1, m)
             x == t[m + 1]
  <2>1. p \in Seq(Seq(X)) /\ x \in Seq(X)
    <3>1. m + 1 \in 1 .. Len(t) /\ \A i \in 1 .. m : t[i] \in Seq(X)
      OBVIOUS
    <3> QED BY <3>1, SubSeqProperties
  <2>2. SubSeq(t, 1, m + 1) = Append(p, x)
    <3>1. SubSeq(t, 1, m + 1) = SubSeq(t, 1, (m + 1) - 1) \o <<t[m + 1]>>
      <4>1. 1 \in 1 .. Len(t) /\ m + 1 \in 1 .. Len(t)
        OBVIOUS
      <4> QED BY <4>1, SubSeqRecursiveSecond
    <3>2. (m + 1) - 1 = m /\ p \o <<x>> = Append(p, x)
      BY <2>1
    <3> QED BY <3>1, <3>2
  <2>3. s \o Append(p, x) = Append(s \o p, x)
    <3> HIDE DEF p, x
    <3> DEFINE W == Seq(X)
    <3>1. s \in Seq(W) /\ p \in Seq(W) /\ x \in W
      BY <2>1
    <3> HIDE DEF W
    <3> QED BY ONLY <3>1, AppendAcross
  <2>4. s \o p \in Seq(Seq(X))
    <3> HIDE DEF p, x
    <3> QED BY <2>1
  <2>5. /\ FlattenSeq(Append(s \o p, x)) = FlattenSeq(s \o p) \o x
        /\ FlattenSeq(Append(p, x)) = FlattenSeq(p) \o x
    <3> HIDE DEF p, x
    <3> QED BY <2>1, <2>4, FlattenAppend
  <2>6. FlattenSeq(s \o p) = FlattenSeq(s) \o FlattenSeq(p)
    BY <1>2
  <2>7. (FlattenSeq(s) \o FlattenSeq(p)) \o x = FlattenSeq(s) \o (FlattenSeq(p) \o x)
    <3> HIDE DEF p, x
    <3> DEFINE a == FlattenSeq(s)
               b == FlattenSeq(p)
    <3>1. a \in Seq(X) /\ b \in Seq(X)
      BY <1>0, <2>1
    <3> HIDE DEF a, b
    <3>2. x \in Seq(X)
      BY <2>1
    <3>3. JoinsAssociate(X)
      BY ONLY ConcatAssociates
    <3>4. (a \o b) \o x = a \o (b \o x)
      BY ONLY <3>1, <3>2, <3>3, Zenon DEF JoinsAssociate
    <3> QED BY <3>4 DEF a, b
  <2>8. m + 1 \in 0 .. Len(t)
    OBVIOUS
  <2> HIDE DEF p, x
  <2> QED BY <2>2, <2>3, <2>5, <2>6, <2>7, <2>8
<1>3. Len(t) \in T
  <2> HIDE DEF T
  <2>1. \A m \in 0 .. (Len(t) - 1) : m \in T => m + 1 \in T
    BY <1>2
  <2>2. 0 .. Len(t) \subseteq T
    BY ONLY <1>0, <1>1, <2>1, IntervalInduction
  <2>3. Len(t) \in 0 .. Len(t)
    BY <1>0
  <2> QED BY <2>2, <2>3
<1>4. SubSeq(t, 1, Len(t)) = t
  BY SubSeqFull
<1> QED BY <1>0, <1>3, <1>4

-----------------------------------------------------------------------------
(* Sequences of lines, and how many children begin in one.                 *)

Named == Words \cup {""}
Lines == [word : Named, braces : BOOLEAN, depth : Nat, slots : Nat]

(* Where the children of a node of depth d begin, in the lines after it.   *)
Starts(Y, d) ==
  {k \in DOMAIN Y : Y[k].depth = d + 1 /\ \A j \in 1 .. k : Y[j].depth > d}
Count(Y, d) == Cardinality(Starts(Y, d))

Inside(Y, d) == \A k \in DOMAIN Y : Y[k].depth > d
After(t, p) == SubSeq(t, p + 1, Len(t))

(* The fields of a line.                                                   *)
LEMMA LineFields ==
  ASSUME NEW x \in Lines
  PROVE  x.word \in Named /\ x.braces \in BOOLEAN /\ x.depth \in Nat /\ x.slots \in Nat
BY DEF Lines

(* A line moved to another depth, or with another list of children, keeps  *)
(* its other fields.                                                       *)
LEMMA ChangedLine ==
  ASSUME NEW x \in Lines, NEW v \in Nat
  PROVE  /\ [x EXCEPT !.depth = v] \in Lines
         /\ [x EXCEPT !.depth = v].word = x.word
         /\ [x EXCEPT !.depth = v].braces = x.braces
         /\ [x EXCEPT !.depth = v].depth = v
         /\ [x EXCEPT !.depth = v].slots = x.slots
         /\ [x EXCEPT !.slots = v] \in Lines
         /\ [x EXCEPT !.slots = v].word = x.word
         /\ [x EXCEPT !.slots = v].braces = x.braces
         /\ [x EXCEPT !.slots = v].depth = x.depth
         /\ [x EXCEPT !.slots = v].slots = v
BY DEF Lines

(* A line with another name keeps its other fields.                        *)
LEMMA RenamedLine ==
  ASSUME NEW x \in Lines, NEW w \in Named
  PROVE  /\ [x EXCEPT !.word = w] \in Lines
         /\ [x EXCEPT !.word = w].word = w
         /\ [x EXCEPT !.word = w].braces = x.braces
         /\ [x EXCEPT !.word = w].depth = x.depth
         /\ [x EXCEPT !.word = w].slots = x.slots
BY DEF Lines

(* Numbers moved by the same distance are as many as before.               *)
LEMMA ShiftedSet ==
  ASSUME NEW S, IsFiniteSet(S), S \subseteq Int, NEW n \in Int
  PROVE  IsFiniteSet({n + k : k \in S}) /\ Cardinality({n + k : k \in S}) = Cardinality(S)
<1> DEFINE T == {n + k : k \in S}
           f == [k \in S |-> n + k]
<1>1. f \in Bijection(S, T)
  <2>1. f \in [S -> T]
    OBVIOUS
  <2>2. \A x, y \in S : f[x] = f[y] => x = y
    OBVIOUS
  <2>3. \A z \in T : \E x \in S : f[x] = z
    OBVIOUS
  <2> HIDE DEF f, T
  <2> QED BY <2>1, <2>2, <2>3 DEF Bijection, Injection, Surjection, IsInjective
<1>2. ExistsBijection(S, T)
  BY <1>1 DEF ExistsBijection
<1> HIDE DEF T
<1>3. IsFiniteSet(T) /\ Cardinality(T) = Cardinality(S)
  BY <1>2, FS_Bijection
<1> QED BY <1>3 DEF T

(* The children found in a list of lines are finitely many of its lines.   *)
LEMMA StartsFinite ==
  ASSUME NEW Y \in Seq(Lines), NEW d \in Int
  PROVE  IsFiniteSet(Starts(Y, d)) /\ Count(Y, d) \in Nat /\ Starts(Y, d) \subseteq 1 .. Len(Y)
<1>1. Starts(Y, d) \subseteq 1 .. Len(Y)
  BY DEF Starts
<1>2. IsFiniteSet(1 .. Len(Y))
  BY FS_Interval
<1>3. IsFiniteSet(Starts(Y, d))
  BY <1>1, <1>2, FS_Subset
<1> QED BY <1>1, <1>3, FS_CardinalityType DEF Count

(* The children in two lists joined are those of both, unless the first    *)
(* list leaves the parent.                                                 *)
LEMMA CountConcat ==
  ASSUME NEW Y \in Seq(Lines), NEW Z \in Seq(Lines), NEW d \in Int
  PROVE  /\ Inside(Y, d) => Count(Y \o Z, d) = Count(Y, d) + Count(Z, d)
         /\ ~Inside(Y, d) => Count(Y \o Z, d) = Count(Y, d)
<1> DEFINE n == Len(Y)
           S == {n + k : k \in Starts(Z, d)}
<1>0. /\ n \in Nat /\ Len(Z) \in Nat /\ DOMAIN (Y \o Z) = 1 .. n + Len(Z) /\ DOMAIN Y = 1 .. n
      /\ DOMAIN Z = 1 .. Len(Z)
      /\ \A k \in 1 .. n : (Y \o Z)[k] = Y[k]
      /\ \A k \in 1 .. Len(Z) : (Y \o Z)[n + k] = Z[k]
      /\ \A k \in (n + 1) .. (n + Len(Z)) : (Y \o Z)[k] = Z[k - n]
  OBVIOUS
<1>1. ASSUME Inside(Y, d) PROVE Count(Y \o Z, d) = Count(Y, d) + Count(Z, d)
  <2>1. Starts(Y \o Z, d) = Starts(Y, d) \cup S
    <3>1. ASSUME NEW k \in Starts(Y \o Z, d) PROVE k \in Starts(Y, d) \cup S
      <4>1. CASE k <= n
        <5>1. k \in Starts(Y, d)
          <6> HIDE DEF n
          <6> QED BY <1>0, <4>1 DEF Starts
        <5> QED BY <5>1
      <4>2. CASE k > n
        <5>1. k \in Nat /\ k - n \in 1 .. Len(Z) /\ Z[k - n].depth = d + 1
          <6> HIDE DEF n
          <6> QED BY <1>0, <4>2 DEF Starts
        <5>2. ASSUME NEW j \in 1 .. (k - n) PROVE Z[j].depth > d
          <6>1. n + j \in 1 .. k /\ j \in 1 .. Len(Z)
            <7> HIDE DEF n
            <7> QED BY <1>0, <5>1
          <6>2. (Y \o Z)[n + j].depth > d
            BY <6>1 DEF Starts
          <6> HIDE DEF n
          <6> QED BY <1>0, <6>1, <6>2
        <5>3. k - n \in Starts(Z, d)
          BY <1>0, <5>1, <5>2 DEF Starts
        <5>4. k = n + (k - n)
          <6>1. k \in Nat
            BY <1>0 DEF Starts
          <6> HIDE DEF n
          <6> QED BY <1>0, <6>1
        <5> HIDE DEF n
        <5> QED BY <5>3, <5>4
      <4>3. k \in Int
        BY <1>0 DEF Starts
      <4> HIDE DEF n
      <4> QED BY <1>0, <4>1, <4>2, <4>3
    <3>2. ASSUME NEW k \in Starts(Y, d) PROVE k \in Starts(Y \o Z, d)
      <4> HIDE DEF n
      <4> QED BY <1>0 DEF Starts
    <3>3. ASSUME NEW k \in Starts(Z, d) PROVE n + k \in Starts(Y \o Z, d)
      <4>1. k \in 1 .. Len(Z) /\ Z[k].depth = d + 1 /\ \A j \in 1 .. k : Z[j].depth > d
        BY <1>0 DEF Starts
      <4>2. ASSUME NEW j \in 1 .. (n + k) PROVE (Y \o Z)[j].depth > d
        <5>1. CASE j <= n
          <6>1. \A i \in 1 .. n : Y[i].depth > d
            BY <1>0, <1>1 DEF Inside
          <6> HIDE DEF n
          <6>2. j \in 1 .. n /\ (Y \o Z)[j] = Y[j]
            BY <1>0, <5>1
          <6> QED BY <6>1, <6>2
        <5>2. CASE j > n
          <6>1. j - n \in 1 .. k /\ j \in (n + 1) .. (n + Len(Z))
            <7> HIDE DEF n
            <7> QED BY <1>0, <4>1, <5>2
          <6> HIDE DEF n
          <6> QED BY <1>0, <4>1, <6>1
        <5> HIDE DEF n
        <5> QED BY <1>0, <4>1, <5>1, <5>2
      <4>3. n + k \in DOMAIN (Y \o Z) /\ (Y \o Z)[n + k].depth = d + 1
        <5> HIDE DEF n
        <5> QED BY <1>0, <4>1
      <4> HIDE DEF n
      <4> QED BY <4>2, <4>3 DEF Starts
    <3> HIDE DEF n
    <3> QED BY <3>1, <3>2, <3>3
  <2>2. IsFiniteSet(S) /\ Cardinality(S) = Count(Z, d)
    <3>0. IsFiniteSet(Starts(Z, d)) /\ Starts(Z, d) \subseteq 1 .. Len(Z)
      BY StartsFinite
    <3>1. IsFiniteSet(Starts(Z, d)) /\ Starts(Z, d) \subseteq Int /\ n \in Int
      <4> HIDE DEF n
      <4> QED BY <1>0, <3>0
    <3> HIDE DEF n
    <3> QED BY <3>1, ShiftedSet DEF Count
  <2>3. Starts(Y, d) \cap S = {}
    <3>1. Starts(Y, d) \subseteq 1 .. n /\ Starts(Z, d) \subseteq 1 .. Len(Z)
      BY StartsFinite
    <3> HIDE DEF n
    <3> QED BY <1>0, <3>1
  <2>4. IsFiniteSet(Starts(Y, d)) /\ Count(Y, d) \in Nat
    BY StartsFinite
  <2>5. Cardinality(Starts(Y, d) \cup S) = Cardinality(Starts(Y, d)) + Cardinality(S)
    <3> HIDE DEF S
    <3>1. Cardinality(Starts(Y, d) \cup S) =
            Cardinality(Starts(Y, d)) + Cardinality(S) - Cardinality({})
      BY <2>2, <2>3, <2>4, FS_Union
    <3>2. Cardinality({}) = 0
      BY FS_EmptySet
    <3>3. Cardinality(Starts(Y, d)) \in Nat /\ Cardinality(S) \in Nat
      BY <2>2, <2>4, FS_CardinalityType
    <3> QED BY <3>1, <3>2, <3>3
  <2> HIDE DEF S
  <2> QED BY <2>1, <2>2, <2>5 DEF Count
<1>2. ASSUME ~Inside(Y, d) PROVE Count(Y \o Z, d) = Count(Y, d)
  <2>1. PICK m \in 1 .. n : ~(Y[m].depth > d)
    BY <1>2 DEF Inside
  <2>2. Starts(Y \o Z, d) = Starts(Y, d)
    <3> HIDE DEF n
    <3>1. ASSUME NEW k \in Starts(Y \o Z, d) PROVE k \in Starts(Y, d)
      <4>1. k \in 1 .. n + Len(Z) /\ (Y \o Z)[k].depth = d + 1
             /\ \A j \in 1 .. k : (Y \o Z)[j].depth > d
        BY <1>0 DEF Starts
      <4>2. k < m
        <5>1. (Y \o Z)[m] = Y[m]
          BY <1>0, <2>1
        <5> QED BY <1>0, <2>1, <4>1, <5>1
      <4>3. k \in 1 .. n
        BY <1>0, <2>1, <4>1, <4>2
      <4> QED BY <1>0, <4>1, <4>3 DEF Starts
    <3>2. ASSUME NEW k \in Starts(Y, d) PROVE k \in Starts(Y \o Z, d)
      BY <1>0 DEF Starts
    <3> QED BY <3>1, <3>2
  <2> QED BY <2>2 DEF Count
<1> QED BY <1>1, <1>2

(* No child of depth d + 1 begins where the first line is not deeper than  *)
(* d, or where all lines are deeper than d + 1.                            *)
LEMMA CountNone ==
  ASSUME NEW Y \in Seq(Lines), NEW d \in Int,
         \/ Y = <<>>
         \/ ~(Y[1].depth > d)
         \/ Inside(Y, d + 1)
  PROVE  Count(Y, d) = 0
<1>1. Starts(Y, d) = {}
  BY DEF Starts, Inside
<1> QED BY <1>1, FS_EmptySet DEF Count

(* Moving lines deeper by the same number of levels changes no child       *)
(* count.                                                                  *)
LEMMA CountDeeper ==
  ASSUME NEW Y \in Seq(Lines), NEW d \in Int, NEW m \in Nat
  PROVE  /\ Deeper(Y, m) \in Seq(Lines) /\ Len(Deeper(Y, m)) = Len(Y)
         /\ \A k \in 1 .. Len(Y) : /\ Deeper(Y, m)[k].depth = Y[k].depth + m
                                /\ Deeper(Y, m)[k].word = Y[k].word
                                /\ Deeper(Y, m)[k].braces = Y[k].braces
                                /\ Deeper(Y, m)[k].slots = Y[k].slots
         /\ Count(Deeper(Y, m), d + m) = Count(Y, d)
<1>1. DOMAIN Y = 1 .. Len(Y) /\ Len(Y) \in Nat
  OBVIOUS
<1>2. ASSUME NEW x \in Lines
      PROVE  LET y == [x EXCEPT !.depth = @ + m]
             IN  /\ y \in Lines /\ y.depth = x.depth + m /\ x.depth \in Nat
                 /\ y.word = x.word /\ y.braces = x.braces /\ y.slots = x.slots
  <2>1. x.depth \in Nat /\ x.depth + m \in Nat
    BY LineFields
  <2> QED BY <2>1, ChangedLine
<1>3. Deeper(Y, m) \in Seq(Lines) /\ Len(Deeper(Y, m)) = Len(Y)
  <2>1. Deeper(Y, m) = [k \in 1 .. Len(Y) |-> [Y[k] EXCEPT !.depth = @ + m]]
    BY <1>1 DEF Deeper
  <2>2. \A k \in 1 .. Len(Y) : [Y[k] EXCEPT !.depth = @ + m] \in Lines
    BY <1>1, <1>2
  <2> QED BY <1>1, <2>1, <2>2
<1>4. ASSUME NEW k \in DOMAIN Y
      PROVE  /\ Deeper(Y, m)[k].depth = Y[k].depth + m /\ Y[k].depth \in Nat
             /\ Deeper(Y, m)[k].word = Y[k].word
             /\ Deeper(Y, m)[k].braces = Y[k].braces
             /\ Deeper(Y, m)[k].slots = Y[k].slots
  <2>1. Deeper(Y, m)[k] = [Y[k] EXCEPT !.depth = @ + m] /\ Y[k] \in Lines
    BY DEF Deeper
  <2> QED BY <2>1, <1>2
<1>5. DOMAIN Deeper(Y, m) = 1 .. Len(Y)
  BY <1>1 DEF Deeper
<1>6. Starts(Deeper(Y, m), d + m) = Starts(Y, d)
  <2>1. ASSUME NEW k \in 1 .. Len(Y) PROVE k \in Starts(Deeper(Y, m), d + m) <=> k \in Starts(Y, d)
    <3>1. Deeper(Y, m)[k].depth = (d + m) + 1 <=> Y[k].depth = d + 1
      BY <1>1, <1>4
    <3>2. \A j \in 1 .. k : Deeper(Y, m)[j].depth > d + m <=> Y[j].depth > d
      BY <1>1, <1>4
    <3> QED BY <1>1, <1>5, <3>1, <3>2 DEF Starts
  <2> QED BY <1>1, <1>5, <2>1 DEF Starts
<1> QED BY <1>3, <1>4, <1>6 DEF Count

-----------------------------------------------------------------------------
(* The children of a node.                                                 *)

(* A place where the children of the node at line p can be cut.            *)
Cut(t, p, a) ==
  /\ a \in (p + 1) .. (Len(t) + 1)
  /\ Below(t, p, a - 1)
  /\ a <= Len(t) => t[a].depth <= t[p].depth + 1

(* The lines after a node.                                                 *)
LEMMA AfterIs ==
  ASSUME NEW t \in Seq(Lines), NEW p \in 1 .. Len(t)
  PROVE  /\ After(t, p) \in Seq(Lines) /\ Len(After(t, p)) = Len(t) - p
         /\ \A k \in 1 .. (Len(t) - p) : After(t, p)[k] = t[p + k]
         /\ t[p] \in Lines /\ t[p].depth \in Nat /\ p \in Nat /\ p <= Len(t) /\ p >= 1
<1>1. p \in 1 .. Len(t) /\ t[p] \in Lines
  OBVIOUS
<1>2. t[p].depth \in Nat
  BY <1>1, LineFields
<1>3. /\ After(t, p) \in Seq(Lines) /\ Len(After(t, p)) = Len(t) - p
      /\ \A k \in 1 .. (Len(t) - p) : After(t, p)[k] = t[p + k]
  BY <1>1 DEF After
<1> QED BY <1>1, <1>2, <1>3

(* A node's child count is that of the lines after it.                     *)
LEMMA ChildCountIs ==
  ASSUME NEW t \in Seq(Lines), NEW p \in 1 .. Len(t)
  PROVE  /\ IsFiniteSet(ChildLines(t, p)) /\ ChildCount(t, p) \in Nat
         /\ ChildLines(t, p) \subseteq (p + 1) .. Len(t)
         /\ ChildCount(t, p) = Count(After(t, p), t[p].depth)
<1> DEFINE d == t[p].depth
           Y == After(t, p)
<1>1. /\ Y \in Seq(Lines) /\ Len(Y) = Len(t) - p /\ Len(t) \in Nat
      /\ \A k \in 1 .. (Len(t) - p) : Y[k] = t[p + k]
      /\ DOMAIN Y = 1 .. (Len(t) - p)
      /\ d \in Nat /\ p \in 1 .. Len(t)
  <2>1. /\ Y \in Seq(Lines) /\ Len(Y) = Len(t) - p /\ Len(t) \in Nat
        /\ \A k \in 1 .. (Len(t) - p) : Y[k] = t[p + k]
        /\ d \in Nat
    <3>1. /\ After(t, p) \in Seq(Lines) /\ Len(After(t, p)) = Len(t) - p
          /\ \A k \in 1 .. (Len(t) - p) : After(t, p)[k] = t[p + k]
          /\ t[p].depth \in Nat
      BY AfterIs, Zenon
    <3>2. Len(t) \in Nat
      OBVIOUS
    <3> QED BY <3>1, <3>2, Zenon DEF Y, d
  <2> HIDE DEF Y, d
  <2>2. DOMAIN Y = 1 .. Len(Y)
    BY <2>1
  <2> QED BY <2>1, <2>2
<1> HIDE DEF Y, d
<1>2. IsFiniteSet(Starts(Y, d)) /\ Starts(Y, d) \subseteq 1 .. (Len(t) - p) /\ Count(Y, d) \in Nat
  <2>1. Y \in Seq(Lines) /\ d \in Int
    BY <1>1
  <2>2. IsFiniteSet(Starts(Y, d)) /\ Starts(Y, d) \subseteq 1 .. Len(Y) /\ Count(Y, d) \in Nat
    BY ONLY <2>1, StartsFinite
  <2> QED BY <2>2, <1>1, Zenon
<1>3. ChildLines(t, p) = {p + k : k \in Starts(Y, d)}
  <2>1. ASSUME NEW c \in ChildLines(t, p) PROVE c - p \in Starts(Y, d)
    <3>1. c \in (p + 1) .. Len(t) /\ t[c].depth = d + 1 /\ \A j \in (p + 1) .. c : t[j].depth > d
      BY DEF ChildLines, Below, d
    <3>2. c - p \in 1 .. (Len(t) - p) /\ Y[c - p] = t[c]
      BY <1>1, <3>1
    <3>3. ASSUME NEW j \in 1 .. (c - p) PROVE Y[j].depth > d
      <4>1. p + j \in (p + 1) .. c /\ j \in 1 .. (Len(t) - p)
        BY <1>1, <3>1
      <4> QED BY <1>1, <3>1, <4>1
    <3> QED BY <1>1, <3>1, <3>2, <3>3 DEF Starts
  <2>2. ASSUME NEW k \in Starts(Y, d) PROVE p + k \in ChildLines(t, p)
    <3>1. k \in 1 .. (Len(t) - p) /\ Y[k].depth = d + 1 /\ \A j \in 1 .. k : Y[j].depth > d
      BY <1>1 DEF Starts
    <3>2. p + k \in (p + 1) .. Len(t) /\ t[p + k] = Y[k]
      BY <1>1, <3>1
    <3>3. ASSUME NEW j \in (p + 1) .. (p + k) PROVE t[j].depth > d
      <4>1. j - p \in 1 .. k /\ j - p \in 1 .. (Len(t) - p) /\ p + (j - p) = j
        BY <1>1, <3>1
      <4> QED BY <1>1, <3>1, <4>1
    <3> QED BY <3>1, <3>2, <3>3 DEF ChildLines, Below, d
  <2>3. ASSUME NEW c \in ChildLines(t, p) PROVE c = p + (c - p)
    <3>1. c \in (p + 1) .. Len(t)
      BY DEF ChildLines
    <3> QED BY <1>1, <3>1
  <2> QED BY <2>1, <2>2, <2>3
<1>4. p \in Int /\ Starts(Y, d) \subseteq Int
  BY <1>1, <1>2
<1>5. /\ IsFiniteSet({p + k : k \in Starts(Y, d)})
      /\ Cardinality({p + k : k \in Starts(Y, d)}) = Cardinality(Starts(Y, d))
  BY <1>2, <1>4, ShiftedSet
<1>6. ChildCount(t, p) = Count(Y, d)
  BY <1>3, <1>5 DEF ChildCount, Count
<1>7. ChildLines(t, p) \subseteq (p + 1) .. Len(t)
  BY DEF ChildLines
<1> QED BY <1>2, <1>3, <1>5, <1>6, <1>7 DEF Y, d

(* How many children begin before line k.                                  *)
LEMMA ChildrenBefore ==
  ASSUME NEW t \in Seq(Lines), NEW p \in 1 .. Len(t)
  PROVE  LET B(k) == Cardinality({c \in ChildLines(t, p) : c < k}) IN
         /\ \A k \in Nat : B(k) \in Nat
         /\ \A k \in Nat : B(k + 1) = B(k) + (IF k \in ChildLines(t, p) THEN 1 ELSE 0)
         /\ B(p + 1) = 0 /\ B(Len(t) + 1) = ChildCount(t, p)
<1> DEFINE C == ChildLines(t, p)
           S(k) == {c \in C : c < k}
<1>1. IsFiniteSet(C) /\ C \subseteq (p + 1) .. Len(t) /\ p \in Nat /\ Len(t) \in Nat
  BY ChildCountIs, AfterIs
<1> HIDE DEF C
<1>c. \A c \in C : /\ c \in Nat /\ ~(c < p + 1) /\ c < Len(t) + 1
                 /\ \A k \in Nat : /\ c < k + 1 <=> c < k \/ c = k
                                  /\ ~(k < k)
  <2>1. ASSUME NEW c \in C PROVE c \in (p + 1) .. Len(t)
    BY <1>1
  <2> QED BY <1>1, <2>1
<1>2. ASSUME NEW k \in Nat PROVE IsFiniteSet(S(k)) /\ Cardinality(S(k)) \in Nat
  <2>1. IsFiniteSet(S(k))
    BY <1>1, FS_Subset
  <2> QED BY <2>1, FS_CardinalityType
<1>3. ASSUME NEW k \in Nat
      PROVE  Cardinality(S(k + 1)) = Cardinality(S(k)) + (IF k \in C THEN 1 ELSE 0)
  <2>1. CASE k \in C
    <3>1. S(k + 1) = S(k) \cup {k} /\ k \notin S(k)
      <4>1. ~(k < k)
        OBVIOUS
      <4>2. k < k + 1
        OBVIOUS
      <4>3. \A c : c \in S(k + 1) <=> c \in S(k) \cup {k}
        BY <1>c, <2>1, <4>2
      <4>4. k \notin S(k)
        BY <4>1
      <4> HIDE DEF S
      <4> QED BY <4>3, <4>4
    <3>2. IsFiniteSet(S(k)) /\ Cardinality(S(k)) \in Nat
      BY <1>2
    <3> HIDE DEF S
    <3> QED BY <2>1, <3>1, <3>2, FS_AddElement
  <2>2. CASE k \notin C
    <3>1. S(k + 1) = S(k)
      BY <1>c, <2>2
    <3>2. Cardinality(S(k)) \in Nat
      BY <1>2
    <3> HIDE DEF S
    <3> QED BY <2>2, <3>1, <3>2
  <2> QED BY <2>1, <2>2
<1>4. Cardinality(S(p + 1)) = 0
  <2>1. S(p + 1) = {}
    BY <1>c
  <2> HIDE DEF S
  <2> QED BY <2>1, FS_EmptySet
<1>5. S(Len(t) + 1) = C
  BY <1>c
<1> QED BY <1>2, <1>3, <1>4, <1>5 DEF C, ChildCount

(* The line of child i is a cut with i children before it: where the code  *)
(* inserts and removes.                                                    *)
LEMMA ChildLineIs ==
  ASSUME NEW t \in Seq(Lines), NEW p \in 1 .. Len(t), NEW i \in 0 .. ChildCount(t, p)
  PROVE  /\ Cut(t, p, ChildLine(t, p, i))
         /\ Cardinality({c \in ChildLines(t, p) : c < ChildLine(t, p, i)}) = i
<1> DEFINE C == ChildLines(t, p)
           B(k) == Cardinality({c \in C : c < k})
           n == Len(t)
           d == t[p].depth
           R(k) == /\ B(k) = i
                   /\ Below(t, p, k - 1)
                   /\ k <= n => t[k].depth <= d + 1
<1>1. /\ C \subseteq (p + 1) .. n /\ p \in Nat /\ n \in Nat /\ d \in Nat /\ p <= n
      /\ \A k \in 1 .. n : t[k].depth \in Nat
      /\ i \in 0 .. ChildCount(t, p) /\ ChildCount(t, p) \in Nat
  <2>1. \A k \in 1 .. n : t[k] \in Lines /\ t[k].depth \in Nat
    <3>1. \A k \in 1 .. n : t[k] \in Lines
      OBVIOUS
    <3> QED BY <3>1, LineFields
  <2>2. C \subseteq (p + 1) .. n /\ ChildCount(t, p) \in Nat
    BY ChildCountIs
  <2>3. p \in Nat /\ d \in Nat /\ p <= n
    BY AfterIs
  <2>4. n \in Nat
    OBVIOUS
  <2> HIDE DEF C, n, d
  <2> QED BY <2>1, <2>2, <2>3, <2>4
<1>2. /\ \A k \in Nat : B(k) \in Nat
      /\ \A k \in Nat : B(k + 1) = B(k) + (IF k \in C THEN 1 ELSE 0)
      /\ B(p + 1) = 0 /\ B(n + 1) = ChildCount(t, p)
  BY ChildrenBefore
<1>3. \E k \in (p + 1) .. (n + 1) : R(k)
  <2>1. CASE i < ChildCount(t, p)
    <3> DEFINE T == {k \in (p + 1) .. n : B(k + 1) >= i + 1}
    <3>1. T \subseteq Nat /\ T # {}
      <4> HIDE DEF B, C, n
      <4>1. n # p
        BY <1>1, <1>2, <2>1
      <4>2. n \in T
        <5>1. n \in (p + 1) .. n
          BY <1>1, <4>1
        <5>2. B(n + 1) >= i + 1
          BY <1>1, <1>2, <2>1
        <5> QED BY <5>1, <5>2
      <4>3. \A k \in (p + 1) .. n : k \in Nat
        BY <1>1
      <4> QED BY <4>2, <4>3
    <3>2. PICK k \in T : \A m \in T : k <= m
      <4> HIDE DEF T
      <4> QED BY <3>1, LeastNat
    <3>k. k \in Nat /\ k \in (p + 1) .. n /\ B(k + 1) >= i + 1 /\ B(k) \in Nat
      <4> HIDE DEF B, C, n
      <4>1. k \in (p + 1) .. n /\ B(k + 1) >= i + 1
        OBVIOUS
      <4>2. k \in Nat
        BY <1>1, <4>1
      <4> QED BY <1>2, <4>1, <4>2
    <3>3. B(k) <= i
      <4> HIDE DEF B, C, n
      <4>1. CASE k = p + 1
        BY <1>1, <1>2, <4>1
      <4>2. CASE k # p + 1
        <5>1. k - 1 \in (p + 1) .. n /\ ~(k <= k - 1) /\ (k - 1) + 1 = k
          BY <1>1, <3>k, <4>2
        <5>2. k - 1 \notin T
          BY <3>2, <5>1
        <5>3. ~(B(k) >= i + 1)
          BY <5>1, <5>2
        <5> QED BY <1>1, <3>k, <5>3
      <4> QED BY <4>1, <4>2
    <3>4. k \in C /\ B(k) = i
      <4> HIDE DEF B, C, n, T
      <4>1. B(k + 1) = B(k) + (IF k \in C THEN 1 ELSE 0)
        BY <1>2, <3>k
      <4> QED BY <1>1, <3>k, <3>3, <4>1
    <3>5. t[k].depth = d + 1 /\ Below(t, p, k)
      BY <3>4 DEF ChildLines
    <3>6. Below(t, p, k - 1)
      BY <1>1, <3>5 DEF Below
    <3>7. k \in (p + 1) .. (n + 1) /\ t[k].depth <= d + 1
      BY <1>1, <3>5
    <3> HIDE DEF B, n, d
    <3> QED BY <3>4, <3>6, <3>7
  <2>2. CASE i = ChildCount(t, p)
    <3> DEFINE T == {k \in (p + 1) .. (n + 1) : k = n + 1 \/ ~(t[k].depth > d)}
    <3>1. T \subseteq Nat /\ T # {}
      <4> HIDE DEF n, d
      <4>1. n + 1 \in T
        BY <1>1
      <4>2. \A k \in (p + 1) .. (n + 1) : k \in Nat
        BY <1>1
      <4> QED BY <4>1, <4>2
    <3>2. PICK k \in T : \A m \in T : k <= m
      <4> HIDE DEF T
      <4> QED BY <3>1, LeastNat
    <3>3. Below(t, p, k - 1)
      <4>1. ASSUME NEW j \in (p + 1) .. (k - 1) PROVE t[j].depth > d
        BY <1>1, <3>2
      <4> QED BY <4>1 DEF Below
    <3>4. {c \in C : c < k} = C
      <4>1. ASSUME NEW c \in C, ~(c < k) PROVE FALSE
        <5>1. c \in (p + 1) .. n /\ Below(t, p, c)
          BY DEF ChildLines
        <5>2. k \in (p + 1) .. c
          BY <1>1, <4>1, <5>1
        <5>3. t[k].depth > d
          BY <5>1, <5>2 DEF Below
        <5> QED BY <1>1, <5>1, <5>2, <5>3
      <4> HIDE DEF C
      <4> QED BY <4>1
    <3>5. B(k) = i
      BY <2>2, <3>4 DEF ChildCount
    <3>6. k <= n => t[k].depth <= d + 1
      <4>1. k <= n => ~(t[k].depth > d) /\ t[k].depth \in Nat
        BY <1>1
      <4> HIDE DEF n, d
      <4> QED BY <1>1, <4>1
    <3> HIDE DEF B, n, d
    <3> QED BY <3>2, <3>3, <3>5, <3>6
  <2>3. i < ChildCount(t, p) \/ i = ChildCount(t, p)
    BY <1>1
  <2> HIDE DEF R, n
  <2> QED BY <2>1, <2>2, <2>3
<1> DEFINE a == CHOOSE k \in (p + 1) .. (n + 1) : R(k)
<1>4. a \in (p + 1) .. (n + 1) /\ R(a)
  <2> HIDE DEF R
  <2> QED BY <1>3
<1>5. a = ChildLine(t, p, i)
  BY DEF ChildLine
<1> HIDE DEF a
<1> QED BY <1>4, <1>5 DEF Cut

(* The lines between two cuts hold the children between them.              *)
LEMMA CountBetween ==
  ASSUME NEW t \in Seq(Lines), NEW p \in 1 .. Len(t),
         NEW x \in (p + 1) .. (Len(t) + 1), NEW y \in x .. (Len(t) + 1), Below(t, p, y - 1)
  PROVE  LET B(k) == Cardinality({c \in ChildLines(t, p) : c < k}) IN
         /\ SubSeq(t, x, y - 1) \in Seq(Lines)
         /\ Inside(SubSeq(t, x, y - 1), t[p].depth)
         /\ B(y) = B(x) + Count(SubSeq(t, x, y - 1), t[p].depth)
<1> DEFINE C == ChildLines(t, p)
           S(k) == {c \in C : c < k}
           n == Len(t)
           d == t[p].depth
           Y == SubSeq(t, x, y - 1)
           D == {(x - 1) + k : k \in Starts(Y, d)}
<1>1. /\ C \subseteq (p + 1) .. n /\ p \in Nat /\ n \in Nat /\ d \in Nat /\ IsFiniteSet(C)
      /\ x \in Nat /\ y \in Nat /\ x >= p + 1 /\ y >= x /\ y <= n + 1
  <2>1. C \subseteq (p + 1) .. n /\ IsFiniteSet(C)
    BY ChildCountIs
  <2>2. d \in Nat
    BY AfterIs
  <2> HIDE DEF C, d
  <2> QED BY <2>1, <2>2
<1>2. Y \in Seq(Lines) /\ Len(Y) = y - x /\ \A k \in 1 .. (y - x) : Y[k] = t[(x - 1) + k]
  BY <1>1
<1>d. DOMAIN Y = 1 .. (y - x)
  BY <1>2
<1>3. \A j \in (p + 1) .. (y - 1) : t[j].depth > d
  BY DEF Below
<1>4. Inside(Y, d)
  <2>1. ASSUME NEW k \in 1 .. (y - x) PROVE Y[k].depth > d
    <3>1. (x - 1) + k \in (p + 1) .. (y - 1)
      BY <1>1
    <3> HIDE DEF Y, d
    <3> QED BY <1>2, <1>3, <3>1
  <2> HIDE DEF Y, d
  <2> QED BY <1>d, <2>1 DEF Inside
<1> HIDE DEF Y
<1>5. D = {c \in C : x <= c /\ c < y}
  <2>1. ASSUME NEW k \in Starts(Y, d) PROVE (x - 1) + k \in C /\ x <= (x - 1) + k /\ (x - 1) + k < y
    <3>1. k \in 1 .. (y - x) /\ Y[k].depth = d + 1
      BY <1>d DEF Starts
    <3>2. (x - 1) + k \in (p + 1) .. n /\ (x - 1) + k < y /\ x <= (x - 1) + k
      <4> HIDE DEF C, D, n, d
      <4> QED BY <1>1, <3>1
    <3>3. t[(x - 1) + k].depth = d + 1
      BY <1>2, <3>1
    <3>4. Below(t, p, (x - 1) + k)
      <4>1. ASSUME NEW j \in (p + 1) .. ((x - 1) + k) PROVE t[j].depth > t[p].depth
        <5>1. j \in (p + 1) .. (y - 1)
          BY <1>1, <3>1
        <5> QED BY <1>3, <5>1
      <4> QED BY <4>1 DEF Below
    <3> QED BY <3>2, <3>3, <3>4 DEF ChildLines
  <2>2. ASSUME NEW c \in C, x <= c, c < y PROVE c - (x - 1) \in Starts(Y, d) /\ c = (x - 1) + (c - (x - 1))
    <3>1. c \in (p + 1) .. n /\ t[c].depth = d + 1
      BY DEF ChildLines
    <3>2. c - (x - 1) \in 1 .. (y - x) /\ c = (x - 1) + (c - (x - 1))
      BY <1>1, <2>2, <3>1
    <3>3. Y[c - (x - 1)].depth = d + 1
      <4>1. Y[c - (x - 1)] = t[(x - 1) + (c - (x - 1))]
        BY <1>2, <3>2
      <4> QED BY <3>1, <3>2, <4>1
    <3>4. \A j \in 1 .. (c - (x - 1)) : Y[j].depth > d
      <4>1. ASSUME NEW j \in 1 .. (c - (x - 1)) PROVE j \in 1 .. (y - x)
        BY <1>1, <3>2
      <4> QED BY <1>4, <1>d, <4>1 DEF Inside
    <3> QED BY <1>d, <3>2, <3>3, <3>4 DEF Starts
  <2> HIDE DEF C, d
  <2> QED BY <2>1, <2>2
<1>6. /\ IsFiniteSet(D) /\ Cardinality(D) = Count(Y, d) /\ Count(Y, d) \in Nat
  <2>1. IsFiniteSet(Starts(Y, d)) /\ Starts(Y, d) \subseteq 1 .. Len(Y) /\ Count(Y, d) \in Nat
    <3>1. Y \in Seq(Lines) /\ d \in Int
      BY <1>1, <1>2
    <3> HIDE DEF Y, d
    <3> QED BY ONLY <3>1, StartsFinite
  <2>2. Starts(Y, d) \subseteq Int /\ x - 1 \in Int
    BY <1>1, <2>1
  <2> HIDE DEF d
  <2> QED BY <2>1, <2>2, ShiftedSet DEF Count
<1>7. S(y) = S(x) \cup D /\ S(x) \cap D = {}
  <2>1. ASSUME NEW c \in C
        PROVE  /\ c < y <=> c < x \/ (x <= c /\ c < y)
               /\ ~(c < x /\ x <= c)
    <3>1. c \in (p + 1) .. n
      BY <1>1
    <3> HIDE DEF C, n
    <3> QED BY <1>1, <3>1
  <2> HIDE DEF C, D
  <2> QED BY <1>5, <2>1
<1>8. IsFiniteSet(S(x))
  BY <1>1, FS_Subset
<1>9. Cardinality(S(y)) = Cardinality(S(x)) + Cardinality(D)
  <2> HIDE DEF S, D
  <2>1. Cardinality(S(y)) = Cardinality(S(x)) + Cardinality(D) - Cardinality({})
    BY <1>6, <1>7, <1>8, FS_Union
  <2>2. Cardinality({}) = 0
    BY FS_EmptySet
  <2>3. Cardinality(S(x)) \in Nat /\ Cardinality(D) \in Nat
    BY <1>6, <1>8, FS_CardinalityType
  <2> QED BY <2>1, <2>2, <2>3
<1> QED BY <1>2, <1>4, <1>6, <1>9 DEF Y

-----------------------------------------------------------------------------
(* Trees, and the forests cut from them.                                   *)

(* Lines of depth d and the lines below them.                              *)
Forest(Y, d) ==
  /\ Y \in Seq(Lines)
  /\ \A i \in 1 .. Len(Y) : Y[i].depth >= d
  /\ Y # <<>> => Y[1].depth = d
  /\ \A i \in 2 .. Len(Y) : Y[i].depth <= Y[i - 1].depth + (IF Y[i - 1].braces THEN 1 ELSE 0)

IsTree(t) ==
  /\ t \in Seq(Lines) /\ t # <<>> /\ t[1].depth = 0
  /\ \A i \in 2 .. Len(t) :
       /\ t[i].depth >= 1
       /\ t[i].depth <= t[i - 1].depth + (IF i = 2 \/ t[i - 1].braces THEN 1 ELSE 0)

Fit(t) == \A p \in 1 .. Len(t) : ChildCount(t, p) <= t[p].slots

(* What the lines of a list are.                                           *)
LEMMA LinesOf ==
  ASSUME NEW Y \in Seq(Lines)
  PROVE  /\ Len(Y) \in Nat /\ DOMAIN Y = 1 .. Len(Y)
         /\ \A k \in 1 .. Len(Y) : /\ Y[k] \in Lines /\ Y[k].depth \in Nat /\ Y[k].slots \in Nat
                                   /\ Y[k].word \in Named /\ Y[k].braces \in BOOLEAN
<1>1. \A k \in 1 .. Len(Y) : Y[k] \in Lines
  OBVIOUS
<1>2. Len(Y) \in Nat /\ DOMAIN Y = 1 .. Len(Y)
  OBVIOUS
<1> QED BY <1>1, <1>2, LineFields

(* The lines of two lists joined.                                          *)
LEMMA JoinedLines ==
  ASSUME NEW Y \in Seq(Lines), NEW Z \in Seq(Lines)
  PROVE  /\ Y \o Z \in Seq(Lines) /\ Len(Y \o Z) = Len(Y) + Len(Z)
         /\ \A k \in 1 .. Len(Y) : (Y \o Z)[k] = Y[k]
         /\ \A k \in 1 .. Len(Z) : (Y \o Z)[Len(Y) + k] = Z[k]
         /\ \A k \in (Len(Y) + 1) .. (Len(Y) + Len(Z)) : k - Len(Y) \in 1 .. Len(Z) /\ (Y \o Z)[k] = Z[k - Len(Y)]
OBVIOUS

(* The same with the lengths named, as one fact to be cited as a whole. *)
Joined(Y, Z, m, n) ==
  /\ Y \o Z \in Seq(Lines) /\ Len(Y \o Z) = m + n
  /\ \A k \in 1 .. m : (Y \o Z)[k] = Y[k]
  /\ \A k \in 1 .. n : (Y \o Z)[m + k] = Z[k]
  /\ \A k \in (m + 1) .. (m + n) : k - m \in 1 .. n /\ (Y \o Z)[k] = Z[k - m]

(* Lists of known lengths joined.                                          *)
LEMMA JoinedAs ==
  ASSUME NEW Y \in Seq(Lines), NEW Z \in Seq(Lines), NEW m, NEW n, Len(Y) = m, Len(Z) = n
  PROVE  Joined(Y, Z, m, n)
<1>1. Joined(Y, Z, Len(Y), Len(Z))
  BY JoinedLines, Zenon DEF Joined
<1> QED BY ONLY <1>1, Len(Y) = m, Len(Z) = n

(* The same conjunct by conjunct.                                          *)
LEMMA JoinedAt ==
  ASSUME NEW Y \in Seq(Lines), NEW Z \in Seq(Lines), NEW m, NEW n, Len(Y) = m, Len(Z) = n
  PROVE  /\ Y \o Z \in Seq(Lines) /\ Len(Y \o Z) = m + n
         /\ \A k \in 1 .. m : (Y \o Z)[k] = Y[k]
         /\ \A k \in 1 .. n : (Y \o Z)[m + k] = Z[k]
         /\ \A k \in (m + 1) .. (m + n) : k - m \in 1 .. n /\ (Y \o Z)[k] = Z[k - m]
<1>1. Joined(Y, Z, m, n)
  BY JoinedAs
<1> QED BY ONLY <1>1 DEF Joined

(* The lines after a node of two lists joined.                             *)
LEMMA AfterConcat ==
  ASSUME NEW Y \in Seq(Lines), NEW Z \in Seq(Lines)
  PROVE  /\ \A q \in 1 .. Len(Y) : After(Y \o Z, q) = After(Y, q) \o Z
         /\ \A k \in 1 .. Len(Z) : After(Y \o Z, Len(Y) + k) = After(Z, k)
<1> DEFINE m == Len(Y)
           n == Len(Z)
           t == Y \o Z
<1>1. /\ m \in Nat /\ n \in Nat /\ t \in Seq(Lines) /\ Len(t) = m + n
      /\ \A k \in 1 .. m : t[k] = Y[k]
      /\ \A k \in 1 .. n : t[m + k] = Z[k]
      /\ \A k \in (m + 1) .. (m + n) : t[k] = Z[k - m]
      /\ DOMAIN t = 1 .. m + n /\ DOMAIN Y = 1 .. m /\ DOMAIN Z = 1 .. n
  BY JoinedLines, LinesOf
<1>n. m \in Nat /\ n \in Nat /\ Len(t) = m + n
  BY <1>1
<1>2. ASSUME NEW q \in 1 .. m PROVE After(t, q) = After(Y, q) \o Z
  <2> DEFINE r == After(Y, q)
             l == m - q
             u == r \o Z
             v == After(t, q)
  <2>0. q \in Nat /\ l \in Nat /\ m = q + l /\ Len(t) - q = l + n /\ q \in 1 .. Len(t)
    <3> HIDE DEF t, m, n
    <3> QED BY <1>n
  <2>1. v \in Seq(Lines) /\ Len(v) = l + n /\ \A k \in 1 .. (l + n) : v[k] = t[q + k]
    <3>1. v \in Seq(Lines) /\ Len(v) = Len(t) - q /\ \A k \in 1 .. (Len(t) - q) : v[k] = t[q + k]
      <4> HIDE DEF t, l
      <4> QED BY <1>1, <2>0, AfterIs
    <3> HIDE DEF v, t, l, n
    <3> QED BY <2>0, <3>1
  <2>2. r \in Seq(Lines) /\ Len(r) = l /\ \A k \in 1 .. l : r[k] = Y[q + k]
    BY AfterIs
  <2>3. /\ u \in Seq(Lines) /\ Len(u) = l + n
        /\ \A k \in 1 .. l : u[k] = r[k]
        /\ \A k \in (l + 1) .. (l + n) : u[k] = Z[k - l]
    <3>1. Len(Z) = n /\ Z \in Seq(Lines)
      OBVIOUS
    <3> HIDE DEF r, l, n
    <3>2. Joined(r, Z, l, n)
      BY ONLY <2>2, <3>1, JoinedAs
    <3> QED BY ONLY <3>2 DEF Joined, u
  <2>4. ASSUME NEW k \in 1 .. (l + n) PROVE v[k] = u[k]
    <3> HIDE DEF t, m, n, l, r, u, v
    <3>1. CASE k <= l
      <4>1. q + k \in 1 .. m /\ k \in 1 .. l
        BY <1>n, <2>0, <3>1
      <4> QED BY <1>1, <2>1, <2>2, <2>3, <4>1
    <3>2. CASE k > l
      <4>1. q + k \in (m + 1) .. (m + n) /\ k \in (l + 1) .. (l + n) /\ (q + k) - m = k - l
        BY <1>n, <2>0, <3>2
      <4> QED BY <1>1, <2>1, <2>3, <4>1
    <3> QED BY <2>0, <3>1, <3>2
  <2> HIDE DEF u, v, l, n
  <2>6. v = u
    BY <2>1, <2>3, <2>4, SeqEqual
  <2> QED BY <2>6 DEF u, v
<1>3. ASSUME NEW k \in 1 .. n PROVE After(t, m + k) = After(Z, k)
  <2> DEFINE l == n - k
             u == After(t, m + k)
             v == After(Z, k)
  <2>0. k \in Nat /\ l \in Nat /\ n = k + l /\ Len(t) - (m + k) = l /\ m + k \in 1 .. Len(t)
    <3> HIDE DEF t, m, n
    <3> QED BY <1>n
  <2>1. u \in Seq(Lines) /\ Len(u) = l /\ \A j \in 1 .. l : u[j] = t[(m + k) + j]
    <3>1. /\ u \in Seq(Lines) /\ Len(u) = Len(t) - (m + k)
          /\ \A j \in 1 .. (Len(t) - (m + k)) : u[j] = t[(m + k) + j]
      <4> HIDE DEF t, m, l
      <4> QED BY <1>1, <2>0, AfterIs
    <3> HIDE DEF t, m, l, u
    <3> QED BY <2>0, <3>1
  <2>2. v \in Seq(Lines) /\ Len(v) = l /\ \A j \in 1 .. l : v[j] = Z[k + j]
    BY AfterIs
  <2>3. ASSUME NEW j \in 1 .. l PROVE u[j] = v[j]
    <3> HIDE DEF t, m, n, l, u, v
    <3>1. k + j \in 1 .. n /\ (m + k) + j = m + (k + j)
      BY <1>n, <2>0
    <3> QED BY <1>1, <2>1, <2>2, <3>1
  <2> HIDE DEF u, v, l
  <2>4. u = v
    BY <2>1, <2>2, <2>3, SeqEqual
  <2> QED BY <2>4 DEF u, v
<1> QED BY <1>2, <1>3

(* Two lists of whole nodes at one depth are one when joined.              *)
LEMMA ForestConcat ==
  ASSUME NEW d \in Nat, NEW Y, NEW Z, Forest(Y, d), Forest(Z, d)
  PROVE  Forest(Y \o Z, d)
<1> DEFINE m == Len(Y)
           n == Len(Z)
           t == Y \o Z
<1>0. Y \in Seq(Lines) /\ Z \in Seq(Lines)
  BY DEF Forest
<1>1. /\ m \in Nat /\ n \in Nat /\ t \in Seq(Lines) /\ Len(t) = m + n
      /\ \A k \in 1 .. m : t[k] = Y[k] /\ Y[k].depth \in Nat
      /\ \A k \in (m + 1) .. (m + n) : k - m \in 1 .. n /\ t[k] = Z[k - m] /\ Z[k - m].depth \in Nat
  BY <1>0, JoinedLines, LinesOf
<1>2. /\ \A i \in 1 .. m : Y[i].depth >= d
      /\ \A i \in 1 .. n : Z[i].depth >= d
      /\ m > 0 => Y[1].depth = d
      /\ n > 0 => Z[1].depth = d
      /\ \A i \in 2 .. m : Y[i].depth <= Y[i - 1].depth + (IF Y[i - 1].braces THEN 1 ELSE 0)
      /\ \A i \in 2 .. n : Z[i].depth <= Z[i - 1].depth + (IF Z[i - 1].braces THEN 1 ELSE 0)
  BY <1>0 DEF Forest
<1> HIDE DEF t, m, n
<1>3. \A i \in 1 .. (m + n) : t[i].depth >= d
  <2>1. ASSUME NEW i \in 1 .. (m + n) PROVE t[i].depth >= d
    <3>1. CASE i <= m
      <4>1. i \in 1 .. m
        BY <1>1, <3>1
      <4> QED BY <1>1, <1>2, <4>1
    <3>2. CASE i > m
      <4>1. i \in (m + 1) .. (m + n)
        BY <1>1, <3>2
      <4> QED BY <1>1, <1>2, <4>1
    <3> QED BY <1>1, <3>1, <3>2
  <2> QED BY <2>1
<1>4. m + n > 0 => t[1].depth = d
  <2>1. CASE m > 0
    <3>1. 1 \in 1 .. m
      BY <1>1, <2>1
    <3> QED BY <1>1, <1>2, <2>1, <3>1
  <2>2. CASE m = 0 /\ n > 0
    <3>1. 1 \in (m + 1) .. (m + n) /\ 1 - m = 1
      BY <1>1, <2>2
    <3> QED BY <1>1, <1>2, <2>2, <3>1
  <2> QED BY <1>1, <2>1, <2>2
<1>5. ASSUME NEW i \in 2 .. (m + n)
      PROVE  t[i].depth <= t[i - 1].depth + (IF t[i - 1].braces THEN 1 ELSE 0)
  <2>1. CASE i <= m
    <3>1. i \in 2 .. m /\ i \in 1 .. m /\ i - 1 \in 1 .. m
      BY <1>1, <2>1
    <3> QED BY <1>1, <1>2, <3>1
  <2>2. CASE i = m + 1
    <3>1. i \in (m + 1) .. (m + n) /\ i - m = 1 /\ i - 1 \in 1 .. (m + n) /\ n > 0
      BY <1>1, <2>2
    <3>2. t[i].depth = d
      BY <1>1, <1>2, <3>1
    <3>3. t[i - 1].depth >= d /\ t[i - 1].depth \in Nat
      <4>1. i - 1 \in 1 .. m
        BY <1>1, <2>2
      <4> QED BY <1>1, <1>2, <4>1
    <3> QED BY <3>2, <3>3
  <2>3. CASE i > m + 1
    <3>1. /\ i \in (m + 1) .. (m + n) /\ i - 1 \in (m + 1) .. (m + n) /\ i - m \in 2 .. n
          /\ (i - 1) - m = (i - m) - 1
      BY <1>1, <2>3
    <3> QED BY <1>1, <1>2, <3>1
  <2> QED BY <1>1, <2>1, <2>2, <2>3
<1>6. t # <<>> => m + n > 0
  BY <1>1
<1>7. Forest(t, d)
  BY <1>1, <1>3, <1>4, <1>5, <1>6 DEF Forest
<1> QED BY <1>7 DEF t

(* A list of whole nodes stays one when it is moved deeper.                *)
LEMMA ForestDeeper ==
  ASSUME NEW d \in Nat, NEW m \in Nat, NEW Y, Forest(Y, d)
  PROVE  Forest(Deeper(Y, m), d + m)
<1> DEFINE Z == Deeper(Y, m)
           n == Len(Y)
<1>1. /\ Y \in Seq(Lines) /\ n \in Nat /\ Z \in Seq(Lines) /\ Len(Z) = n
      /\ \A k \in 1 .. n : /\ Y[k].depth \in Nat /\ Z[k].depth = Y[k].depth + m
                           /\ Z[k].braces = Y[k].braces
  <2>1. Y \in Seq(Lines)
    BY DEF Forest
  <2>d. d \in Int
    OBVIOUS
  <2>2. \A k \in 1 .. Len(Y) : Z[k].depth = Y[k].depth + m /\ Z[k].braces = Y[k].braces
    BY <2>1, <2>d, CountDeeper, Zenon
  <2>3. Z \in Seq(Lines) /\ Len(Z) = Len(Y)
    BY <2>1, <2>d, CountDeeper, Zenon
  <2>4. n \in Nat /\ DOMAIN Y = 1 .. n /\ \A k \in 1 .. n : Y[k].depth \in Nat
    BY <2>1, LinesOf
  <2> HIDE DEF Z, n
  <2> QED BY <2>1, <2>2, <2>3, <2>4 DEF n
<1>2. /\ \A i \in 1 .. n : Y[i].depth >= d
      /\ n > 0 => Y[1].depth = d
      /\ \A i \in 2 .. n : Y[i].depth <= Y[i - 1].depth + (IF Y[i - 1].braces THEN 1 ELSE 0)
  BY <1>1 DEF Forest
<1> HIDE DEF Z, n
<1>3. \A i \in 1 .. n : Z[i].depth >= d + m
  <2>1. TAKE i \in 1 .. n
  <2>2. Z[i].depth = Y[i].depth + m /\ Y[i].depth \in Nat /\ Y[i].depth >= d
    BY <1>1, <1>2
  <2> QED BY <2>2
<1>4. Z # <<>> => Z[1].depth = d + m
  <2>1. Z # <<>> => n > 0 /\ 1 \in 1 .. n
    BY <1>1
  <2> QED BY <1>1, <1>2, <2>1
<1>5. ASSUME NEW i \in 2 .. n
      PROVE  Z[i].depth <= Z[i - 1].depth + (IF Z[i - 1].braces THEN 1 ELSE 0)
  <2>1. i \in 1 .. n /\ i - 1 \in 1 .. n
    BY <1>1
  <2>2. Z[i].depth = Y[i].depth + m /\ Z[i - 1].depth = Y[i - 1].depth + m
    BY <1>1, <2>1
  <2>3. Y[i].depth \in Nat /\ Y[i - 1].depth \in Nat
    BY <1>1, <2>1
  <2>4. CASE Y[i - 1].braces
    <3>1. Y[i].depth <= Y[i - 1].depth + 1 /\ Z[i - 1].braces
      BY <1>1, <1>2, <2>1, <2>4
    <3> QED BY <2>2, <2>3, <3>1
  <2>5. CASE ~Y[i - 1].braces
    <3>1. Y[i].depth <= Y[i - 1].depth + 0 /\ ~Z[i - 1].braces
      BY <1>1, <1>2, <2>1, <2>5
    <3> QED BY <2>2, <2>3, <3>1
  <2> QED BY <2>4, <2>5
<1>6. Forest(Z, d + m)
  BY <1>1, <1>3, <1>4, <1>5 DEF Forest
<1> QED BY <1>6 DEF Z

(* A list cut at two places is three lists joined.                         *)
LEMMA SplitAt ==
  ASSUME NEW t \in Seq(Lines), NEW a \in 1 .. (Len(t) + 1), NEW b \in a .. (Len(t) + 1)
  PROVE  LET A == SubSeq(t, 1, a - 1)
             R == SubSeq(t, a, b - 1)
             B == SubSeq(t, b, Len(t))
         IN  /\ A \in Seq(Lines) /\ Len(A) = a - 1 /\ \A k \in 1 .. (a - 1) : A[k] = t[k]
             /\ R \in Seq(Lines) /\ Len(R) = b - a /\ \A k \in 1 .. (b - a) : R[k] = t[(a - 1) + k]
             /\ B \in Seq(Lines) /\ Len(B) = Len(t) - (b - 1)
             /\ \A k \in 1 .. (Len(t) - (b - 1)) : B[k] = t[(b - 1) + k]
             /\ t = A \o (R \o B)
<1> DEFINE A == SubSeq(t, 1, a - 1)
           R == SubSeq(t, a, b - 1)
           B == SubSeq(t, b, Len(t))
           n == Len(t)
<1>0. n \in Nat /\ a \in Nat /\ b \in Nat /\ a >= 1 /\ b >= a /\ b <= n + 1
  OBVIOUS
<1>1. A \in Seq(Lines) /\ Len(A) = a - 1 /\ \A k \in 1 .. (a - 1) : A[k] = t[k]
  BY <1>0
<1>2. R \in Seq(Lines) /\ Len(R) = b - a /\ \A k \in 1 .. (b - a) : R[k] = t[(a - 1) + k]
  BY <1>0
<1>3. /\ B \in Seq(Lines) /\ Len(B) = n - (b - 1) /\ \A k \in 1 .. (n - (b - 1)) : B[k] = t[(b - 1) + k]
  BY <1>0
<1> HIDE DEF A, R, B
<1> DEFINE v == R \o B
           u == A \o v
           x == a - 1
           y == b - a
           z == n - (b - 1)
<1>x. x \in Nat /\ y \in Nat /\ z \in Nat /\ n = x + (y + z) /\ a = x + 1 /\ b = x + y + 1
  BY <1>0
<1> HIDE DEF x, y, z
<1>4. /\ v \in Seq(Lines) /\ Len(v) = y + z
      /\ \A k \in 1 .. y : v[k] = R[k]
      /\ \A k \in (y + 1) .. (y + z) : k - y \in 1 .. z /\ v[k] = B[k - y]
  <2>1. Len(R) = y /\ Len(B) = z
    BY <1>2, <1>3 DEF y, z
  <2>2. Joined(R, B, y, z)
    BY ONLY <1>2, <1>3, <2>1, JoinedAs
  <2> QED BY ONLY <2>2 DEF Joined, v
<1> HIDE DEF v
<1>5. /\ u \in Seq(Lines) /\ Len(u) = x + (y + z)
      /\ \A k \in 1 .. x : u[k] = A[k]
      /\ \A k \in (x + 1) .. (x + (y + z)) : k - x \in 1 .. (y + z) /\ u[k] = v[k - x]
  <2>1. Len(A) = x
    BY <1>1 DEF x
  <2>2. Joined(A, v, x, y + z)
    BY ONLY <1>1, <1>4, <2>1, JoinedAs
  <2> QED BY ONLY <2>2 DEF Joined, u
<1> HIDE DEF u, n
<1>6. Len(u) = n
  BY <1>x, <1>5
<1>7. ASSUME NEW k \in 1 .. n PROVE u[k] = t[k]
  <2>1. CASE k <= x
    <3>1. k \in 1 .. x /\ k \in 1 .. (a - 1)
      BY <1>x, <2>1
    <3> QED BY <1>1, <1>5, <3>1
  <2>2. CASE k > x /\ k <= x + y
    <3>1. /\ k \in (x + 1) .. (x + (y + z))
          /\ k - x \in 1 .. y /\ k - x \in 1 .. (b - a) /\ (a - 1) + (k - x) = k
      BY <1>x, <2>2
    <3> QED BY <1>2, <1>4, <1>5, <3>1
  <2>3. CASE k > x + y
    <3> DEFINE j == k - x
    <3>1. /\ k \in (x + 1) .. (x + (y + z)) /\ j \in (y + 1) .. (y + z)
          /\ j - y \in 1 .. (n - (b - 1)) /\ (b - 1) + (j - y) = k
      BY <1>x, <2>3
    <3>2. u[k] = v[j]
      BY <1>5, <3>1
    <3> HIDE DEF j
    <3>3. v[j] = B[j - y]
      BY <1>4, <3>1
    <3> QED BY <1>3, <3>1, <3>2, <3>3
  <2> QED BY <1>x, <2>1, <2>2, <2>3
<1>8. u = t
  <2>1. Len(t) = n
    BY DEF n
  <2> QED BY <1>5, <1>6, <1>7, <2>1, SeqEqual
<1> QED BY <1>1, <1>2, <1>3, <1>8 DEF A, R, B, n, u, v

(* The same as one fact, to be cited as a whole. *)
SplitIs(t, a, b, A, R, B) ==
  /\ A \in Seq(Lines) /\ Len(A) = a - 1 /\ \A k \in 1 .. (a - 1) : A[k] = t[k]
  /\ R \in Seq(Lines) /\ Len(R) = b - a /\ \A k \in 1 .. (b - a) : R[k] = t[(a - 1) + k]
  /\ B \in Seq(Lines) /\ Len(B) = Len(t) - (b - 1)
  /\ \A k \in 1 .. (Len(t) - (b - 1)) : B[k] = t[(b - 1) + k]
  /\ t = A \o (R \o B)

(* The parts of a list cut at two places.                                  *)
LEMMA SplitAs ==
  ASSUME NEW t \in Seq(Lines), NEW a \in 1 .. (Len(t) + 1), NEW b \in a .. (Len(t) + 1)
  PROVE  SplitIs(t, a, b, SubSeq(t, 1, a - 1), SubSeq(t, a, b - 1), SubSeq(t, b, Len(t)))
BY SplitAt, Zenon DEF SplitIs

(* No line of a list of whole nodes is above the first, which is at the    *)
(* list's depth.                                                           *)
LEMMA ForestLines ==
  ASSUME NEW d \in Int, NEW Y, Forest(Y, d)
  PROVE  /\ Y \in Seq(Lines) /\ Len(Y) \in Nat
         /\ \A i \in 1 .. Len(Y) : Y[i].depth \in Nat /\ Y[i].depth >= d
         /\ Len(Y) > 0 => Y[1].depth = d
<1>1. Y \in Seq(Lines)
  BY DEF Forest
<1> QED BY <1>1, LinesOf DEF Forest

(* When every node of two lists fits its list of children, so does every   *)
(* node of both joined.                                                    *)
LEMMA FitConcat ==
  ASSUME NEW d \in Nat, NEW Y, NEW Z, Forest(Y, d), Forest(Z, d), Fit(Y), Fit(Z)
  PROVE  Fit(Y \o Z)
<1> DEFINE m == Len(Y)
           n == Len(Z)
           t == Y \o Z
<1>1. /\ Y \in Seq(Lines) /\ Z \in Seq(Lines) /\ m \in Nat /\ n \in Nat
      /\ \A k \in 1 .. m : Y[k].depth \in Nat /\ Y[k].depth >= d
      /\ n > 0 => Z[1].depth = d
  BY ForestLines
<1>2. /\ t \in Seq(Lines) /\ Len(t) = m + n
      /\ \A k \in 1 .. m : t[k] = Y[k]
      /\ \A k \in 1 .. n : t[m + k] = Z[k]
  BY <1>1, JoinedLines
<1>3. ASSUME NEW p \in 1 .. (m + n) PROVE ChildCount(t, p) <= t[p].slots
  <2>1. CASE p <= m
    <3>0. p \in 1 .. m /\ p \in 1 .. Len(t)
      <4> HIDE DEF m, n, t
      <4> QED BY <1>1, <1>2, <2>1
    <3> DEFINE x == Y[p].depth
               r == After(Y, p)
    <3>1. ChildCount(t, p) = Count(After(t, p), t[p].depth)
      <4> HIDE DEF t, m
      <4> QED BY <1>2, <3>0, ChildCountIs
    <3>2. After(t, p) = r \o Z /\ t[p] = Y[p] /\ r \in Seq(Lines) /\ x \in Nat
      BY <1>1, <1>2, <3>0, AfterConcat, AfterIs
    <3>3. Count(Z, x) = 0
      <4>1. Z = <<>> \/ ~(Z[1].depth > x)
        <5>1. n = 0 => Z = <<>>
          BY <1>1
        <5>2. x >= d /\ x \in Nat
          BY <1>1, <3>0
        <5> HIDE DEF n, x, m
        <5> QED BY <1>1, <5>1, <5>2
      <4> HIDE DEF x
      <4> QED BY <1>1, <3>2, <4>1, CountNone
    <3>4. Count(r \o Z, x) = Count(r, x) \/ Count(r \o Z, x) = Count(r, x) + Count(Z, x)
      <4> HIDE DEF r, x
      <4> QED BY <1>1, <3>2, CountConcat
    <3>5. Count(r, x) = ChildCount(Y, p) /\ ChildCount(Y, p) \in Nat
      BY <1>1, <3>0, ChildCountIs
    <3>6. ChildCount(Y, p) <= Y[p].slots
      BY <3>0 DEF Fit
    <3> HIDE DEF x, r, t
    <3>7. ChildCount(t, p) = Count(r \o Z, x)
      BY <3>1, <3>2 DEF x
    <3> QED BY <3>2, <3>3, <3>4, <3>5, <3>6, <3>7
  <2>2. CASE p > m
    <3> DEFINE k == p - m
    <3>0. k \in 1 .. n /\ p = m + k /\ p \in 1 .. Len(t)
      <4> HIDE DEF m, n, t
      <4> QED BY <1>1, <1>2, <2>2
    <3> HIDE DEF k
    <3>1. ChildCount(t, p) = Count(After(t, p), t[p].depth)
      <4> HIDE DEF t, m
      <4> QED BY <1>2, <3>0, ChildCountIs
    <3>2. After(t, p) = After(Z, k) /\ t[p] = Z[k]
      BY <1>1, <1>2, <3>0, AfterConcat
    <3>3. ChildCount(Z, k) = Count(After(Z, k), Z[k].depth)
      BY <1>1, <3>0, ChildCountIs
    <3>4. ChildCount(Z, k) <= Z[k].slots
      BY <3>0 DEF Fit
    <3> HIDE DEF t
    <3> QED BY <3>1, <3>2, <3>3, <3>4
  <2>3. p \in Int
    BY <1>1
  <2> HIDE DEF m, t
  <2> QED BY <1>1, <2>1, <2>2, <2>3
<1> HIDE DEF t
<1>4. Fit(t)
  BY <1>2, <1>3 DEF Fit
<1> QED BY <1>4 DEF t

(* Lists of children fit wherever the nodes are moved.                     *)
LEMMA FitDeeper ==
  ASSUME NEW Y \in Seq(Lines), NEW m \in Nat, Fit(Y)
  PROVE  Fit(Deeper(Y, m))
<1> DEFINE Z == Deeper(Y, m)
           n == Len(Y)
<1>1. /\ Z \in Seq(Lines) /\ Len(Z) = n /\ n \in Nat
      /\ \A k \in 1 .. n : Z[k].depth = Y[k].depth + m /\ Z[k].slots = Y[k].slots /\ Y[k].depth \in Nat
  BY CountDeeper, LinesOf
<1>2. ASSUME NEW p \in 1 .. n PROVE ChildCount(Z, p) = ChildCount(Y, p)
  <2>1. ChildLines(Z, p) = ChildLines(Y, p)
    <3>0. ASSUME NEW k \in 1 .. n
          PROVE  /\ Z[k].depth > Z[p].depth <=> Y[k].depth > Y[p].depth
                 /\ Z[k].depth = Z[p].depth + 1 <=> Y[k].depth = Y[p].depth + 1
      <4> HIDE DEF Z, n
      <4>1. /\ Z[k].depth = Y[k].depth + m /\ Y[k].depth \in Nat
            /\ Z[p].depth = Y[p].depth + m /\ Y[p].depth \in Nat
        BY <1>1
      <4> DEFINE a == Y[k].depth
                 b == Y[p].depth
      <4>2. a \in Nat /\ b \in Nat /\ Z[k].depth = a + m /\ Z[p].depth = b + m
        BY <4>1
      <4> HIDE DEF a, b
      <4>3. (a + m > b + m <=> a > b) /\ (a + m = (b + m) + 1 <=> a = b + 1)
        BY <4>2
      <4>4. (Z[k].depth > Z[p].depth <=> a > b) /\ (Z[k].depth = Z[p].depth + 1 <=> a = b + 1)
        BY <4>2, <4>3, Zenon
      <4> QED BY <4>4, Zenon DEF a, b
    <3>1. \A k \in 1 .. n : Z[k].depth > Z[p].depth <=> Y[k].depth > Y[p].depth
      BY <3>0
    <3>2. \A k \in 1 .. n : Z[k].depth = Z[p].depth + 1 <=> Y[k].depth = Y[p].depth + 1
      BY <3>0
    <3> HIDE DEF Z, n
    <3>3. ASSUME NEW k \in (p + 1) .. n PROVE k \in 1 .. n /\ (Below(Z, p, k) <=> Below(Y, p, k))
      <4>1. k \in 1 .. n /\ \A j \in (p + 1) .. k : j \in 1 .. n
        BY <1>1
      <4> QED BY <3>1, <4>1 DEF Below
    <3>4. Len(Y) = n
      BY DEF n
    <3> QED BY <1>1, <3>2, <3>3, <3>4 DEF ChildLines
  <2> QED BY <2>1 DEF ChildCount
<1> HIDE DEF Z
<1>3. Fit(Z)
  BY <1>1, <1>2 DEF Fit
<1> QED BY <1>3 DEF Z

(* A node and the forest of its children.                                  *)
LEMMA TreeOfForest ==
  ASSUME NEW x \in Lines, x.depth = 0, NEW F, Forest(F, 1)
  PROVE  LET t == <<x>> \o F IN
         /\ IsTree(t) /\ t[1] = x /\ Len(t) = 1 + Len(F) /\ After(t, 1) = F
         /\ \A k \in 1 .. Len(F) : t[1 + k] = F[k]
         /\ ChildCount(t, 1) = Count(F, 0)
         /\ Fit(F) /\ Count(F, 0) <= x.slots => Fit(t)
<1> DEFINE t == <<x>> \o F
           n == Len(F)
<1>1. /\ F \in Seq(Lines) /\ n \in Nat
      /\ \A i \in 1 .. n : F[i].depth \in Nat /\ F[i].depth >= 1
      /\ n > 0 => F[1].depth = 1
  BY ForestLines
<1>2. \A i \in 2 .. n : F[i].depth <= F[i - 1].depth + (IF F[i - 1].braces THEN 1 ELSE 0)
  BY DEF Forest
<1>3. <<x>> \in Seq(Lines) /\ Len(<<x>>) = 1 /\ <<x>>[1] = x
  OBVIOUS
<1>4. /\ t \in Seq(Lines) /\ Len(t) = 1 + n
      /\ \A k \in 1 .. 1 : t[k] = <<x>>[k]
      /\ \A k \in 1 .. n : t[1 + k] = F[k]
  <2> HIDE DEF n
  <2>1. Len(F) = n
    BY DEF n
  <2> QED BY <1>1, <1>3, <2>1, JoinedAt
<1>5. t[1] = x /\ t # <<>>
  <2> HIDE DEF t
  <2> QED BY <1>1, <1>3, <1>4
<1>6. After(t, 1) = F
  <2>1. After(t, 1) = After(<<x>>, 1) \o F
    <3>1. 1 \in 1 .. Len(<<x>>)
      BY <1>3
    <3> QED BY <1>1, <1>3, <3>1, AfterConcat
  <2>2. After(<<x>>, 1) = <<>>
    BY DEF After
  <2> QED BY <1>1, <2>1, <2>2, ConcatEmptySeq
<1> HIDE DEF t, n
<1>7. IsTree(t)
  <2>1. ASSUME NEW i \in 2 .. Len(t)
        PROVE  /\ t[i].depth >= 1
               /\ t[i].depth <= t[i - 1].depth + (IF i = 2 \/ t[i - 1].braces THEN 1 ELSE 0)
    <3>1. i - 1 \in 1 .. n /\ i = 1 + (i - 1) /\ t[i] = F[i - 1]
      <4>1. i - 1 \in 1 .. n /\ i = 1 + (i - 1)
        BY <1>1, <1>4
      <4> QED BY <1>4, <4>1
    <3>2. CASE i = 2
      <4>1. i - 1 = 1 /\ n > 0
        BY <1>1, <3>1, <3>2
      <4> QED BY <1>1, <1>5, <3>1, <3>2, <4>1
    <3>3. CASE i # 2
      <4>1. i - 1 \in 2 .. n /\ i - 2 \in 1 .. n /\ (i - 1) - 1 = i - 2 /\ 1 + (i - 2) = i - 1
        BY <1>1, <3>1, <3>3
      <4>2. t[i - 1] = F[i - 2]
        BY <1>4, <4>1
      <4>3. F[i - 1].depth <= F[i - 2].depth + (IF F[i - 2].braces THEN 1 ELSE 0)
        BY <1>2, <4>1
      <4> QED BY <1>1, <3>1, <3>3, <4>2, <4>3
    <3> QED BY <3>2, <3>3
  <2> QED BY <1>4, <1>5, <2>1 DEF IsTree
<1>8. ChildCount(t, 1) = Count(F, 0)
  <2>1. 1 \in 1 .. Len(t)
    BY <1>1, <1>4
  <2>2. ChildCount(t, 1) = Count(After(t, 1), t[1].depth)
    BY <1>4, <2>1, ChildCountIs
  <2> QED BY <1>5, <1>6, <2>2
<1>9. ASSUME Fit(F), Count(F, 0) <= x.slots PROVE Fit(t)
  <2>1. ASSUME NEW p \in 1 .. Len(t) PROVE ChildCount(t, p) <= t[p].slots
    <3>1. CASE p = 1
      BY <1>5, <1>8, <1>9, <3>1
    <3>2. CASE p # 1
      <4>1. p - 1 \in 1 .. n /\ p = 1 + (p - 1)
        BY <1>1, <1>4, <3>2
      <4>2. After(t, p) = After(F, p - 1)
        <5>1. After(<<x>> \o F, Len(<<x>>) + (p - 1)) = After(F, p - 1)
          BY <1>1, <1>3, <4>1, AfterConcat DEF n
        <5> QED BY <1>3, <4>1, <5>1 DEF t
      <4>3. t[p] = F[p - 1]
        BY <1>4, <4>1
      <4>4. /\ ChildCount(t, p) = Count(After(t, p), t[p].depth)
            /\ ChildCount(F, p - 1) = Count(After(F, p - 1), F[p - 1].depth)
        BY <1>1, <1>4, <4>1, ChildCountIs DEF n
      <4>5. ChildCount(F, p - 1) <= F[p - 1].slots
        BY <1>9, <4>1 DEF Fit, n
      <4> QED BY <4>2, <4>3, <4>4, <4>5
    <3> QED BY <3>1, <3>2
  <2> QED BY <2>1 DEF Fit
<1> QED BY <1>4, <1>5, <1>6, <1>7, <1>8, <1>9 DEF t, n

(* What the lines of a tree are: the root is at depth 0 and no line is     *)
(* more than one level deeper than the one above.                          *)
LEMMA TreeLines ==
  ASSUME NEW t, IsTree(t)
  PROVE  /\ t \in Seq(Lines) /\ Len(t) \in Nat /\ Len(t) >= 1
         /\ t[1].depth = 0
         /\ \A i \in 1 .. Len(t) : t[i] \in Lines /\ t[i].depth \in Nat /\ t[i].slots \in Nat
         /\ \A i \in 2 .. Len(t) :
              /\ t[i].depth >= 1
              /\ t[i].depth <= t[i - 1].depth + (IF i = 2 \/ t[i - 1].braces THEN 1 ELSE 0)
<1>1. t \in Seq(Lines) /\ t # <<>>
  BY DEF IsTree
<1>2. Len(t) >= 1
  BY <1>1
<1> QED BY <1>1, <1>2, LinesOf DEF IsTree

(* The lines below a tree's root are whole nodes at depth 1.               *)
LEMMA ForestOfTree ==
  ASSUME NEW t, IsTree(t)
  PROVE  /\ Forest(After(t, 1), 1) /\ t[1] \in Lines /\ t[1].depth = 0
         /\ t = <<t[1]>> \o After(t, 1)
         /\ Tail(t) = After(t, 1)
         /\ Len(After(t, 1)) = Len(t) - 1
         /\ \A k \in 1 .. (Len(t) - 1) : After(t, 1)[k] = t[1 + k]
<1> DEFINE F == After(t, 1)
           n == Len(t)
<1>1. /\ t \in Seq(Lines) /\ n \in Nat /\ n >= 1 /\ t[1].depth = 0 /\ t # <<>>
      /\ \A i \in 1 .. n : t[i] \in Lines /\ t[i].depth \in Nat
      /\ \A i \in 2 .. n :
              /\ t[i].depth >= 1
              /\ t[i].depth <= t[i - 1].depth + (IF i = 2 \/ t[i - 1].braces THEN 1 ELSE 0)
  BY TreeLines DEF IsTree
<1>2. /\ F \in Seq(Lines) /\ Len(F) = n - 1
      /\ \A k \in 1 .. (n - 1) : F[k] = t[1 + k]
  <2>1. 1 \in 1 .. Len(t)
    BY <1>1
  <2> QED BY <1>1, <2>1, AfterIs
<1>3. Tail(t) = F
  BY <1>1 DEF After
<1>4. t = <<t[1]>> \o F
  <2>1. t = <<Head(t)>> \o Tail(t)
    BY <1>1, HeadTailProperties
  <2>2. Head(t) = t[1]
    BY <1>1
  <2> QED BY <1>3, <2>1, <2>2
<1> HIDE DEF F, n
<1>5. \A i \in 1 .. (n - 1) : F[i].depth >= 1
  <2>1. \A i \in 1 .. (n - 1) : 1 + i \in 2 .. n
    BY <1>1
  <2> QED BY <1>1, <1>2, <2>1
<1>6. F # <<>> => F[1].depth = 1
  <2>1. ASSUME F # <<>> PROVE F[1].depth = 1
    <3>1. n - 1 >= 1 /\ 1 \in 1 .. (n - 1) /\ 2 \in 2 .. n /\ 1 + 1 = 2 /\ 2 - 1 = 1 /\ 2 \in 1 .. n
      BY <1>1, <1>2, <2>1
    <3>2. F[1] = t[2] /\ t[2].depth >= 1 /\ t[2].depth <= t[1].depth + 1 /\ t[2].depth \in Nat
      BY <1>1, <1>2, <3>1
    <3> QED BY <1>1, <3>2
  <2> QED BY <2>1
<1>7. ASSUME NEW i \in 2 .. (n - 1)
      PROVE  F[i].depth <= F[i - 1].depth + (IF F[i - 1].braces THEN 1 ELSE 0)
  <2>1. /\ i \in 1 .. (n - 1) /\ i - 1 \in 1 .. (n - 1) /\ 1 + (i - 1) = (1 + i) - 1
        /\ 1 + i \in 2 .. n /\ 1 + i # 2
    BY <1>1
  <2>2. F[i] = t[1 + i] /\ F[i - 1] = t[(1 + i) - 1]
    BY <1>2, <2>1
  <2>3. t[1 + i].depth <= t[(1 + i) - 1].depth + (IF t[(1 + i) - 1].braces THEN 1 ELSE 0)
    BY <1>1, <2>1
  <2> QED BY <2>2, <2>3
<1>8. Forest(F, 1)
  BY <1>2, <1>5, <1>6, <1>7 DEF Forest
<1>9. 1 \in 1 .. n
  BY <1>1
<1> QED BY <1>1, <1>2, <1>3, <1>4, <1>8, <1>9 DEF F, n

(* A parsed node, its children included, is one whole node at depth 0.     *)
LEMMA ForestOfGroup ==
  ASSUME NEW t, IsTree(t), Len(t) > 1 => t[1].braces
  PROVE  Forest(t, 0) /\ Count(t, -1) = 1
<1> DEFINE n == Len(t)
<1>1. /\ t \in Seq(Lines) /\ n \in Nat /\ n >= 1 /\ t[1].depth = 0
      /\ \A i \in 1 .. n : t[i].depth \in Nat
      /\ \A i \in 2 .. n :
              /\ t[i].depth >= 1
              /\ t[i].depth <= t[i - 1].depth + (IF i = 2 \/ t[i - 1].braces THEN 1 ELSE 0)
  BY TreeLines
<1> HIDE DEF n
<1>2. ASSUME NEW i \in 2 .. n
      PROVE  t[i].depth <= t[i - 1].depth + (IF t[i - 1].braces THEN 1 ELSE 0)
  <2>1. CASE i = 2
    <3>1. n > 1 /\ i - 1 = 1
      BY <1>1, <2>1
    <3>2. t[i - 1].braces
      BY <3>1 DEF n
    <3>3. t[i].depth <= t[i - 1].depth + 1
      BY <1>1, <2>1
    <3> QED BY <3>2, <3>3
  <2>2. CASE i # 2
    BY <1>1, <2>2
  <2> QED BY <2>1, <2>2
<1>3. Forest(t, 0)
  BY <1>1, <1>2 DEF Forest, n
<1>4. Starts(t, -1) = {1}
  <2>1. 1 \in 1 .. n /\ DOMAIN t = 1 .. n
    BY <1>1 DEF n
  <2>2. ASSUME NEW k \in Starts(t, -1) PROVE k = 1
    <3>1. k \in 1 .. n /\ t[k].depth = -1 + 1
      BY <2>1 DEF Starts
    <3>2. k # 1 => k \in 2 .. n
      BY <1>1, <3>1
    <3> QED BY <1>1, <3>1, <3>2
  <2>3. 1 \in Starts(t, -1)
    <3>1. \A j \in 1 .. 1 : t[j].depth > -1
      BY <1>1
    <3>2. t[1].depth = -1 + 1
      BY <1>1
    <3> QED BY <2>1, <3>1, <3>2 DEF Starts
  <2> QED BY <2>2, <2>3
<1>5. Count(t, -1) = 1
  BY <1>4, FS_Singleton DEF Count
<1> QED BY <1>3, <1>5

Holds(t, p) == p \in 1 .. Len(t) /\ (p = 1 \/ t[p].braces)

(* The lines between two cuts are a forest.                                *)
CutIs(t, p, a, b) ==
  LET R == SubSeq(t, a, b - 1) IN
  /\ Forest(R, t[p].depth + 1) /\ Len(R) = b - a
  /\ \A k \in 1 .. (b - a) : R[k] = t[(a - 1) + k]
  /\ Fit(t) => Fit(R)

(* The lines between two cuts of a node are whole children of it.          *)
LEMMA CutForest ==
  ASSUME NEW t, IsTree(t), NEW p, Holds(t, p), NEW a, NEW b, Cut(t, p, a), Cut(t, p, b), a <= b
  PROVE  CutIs(t, p, a, b)
<1> DEFINE R == SubSeq(t, a, b - 1)
           n == Len(t)
           d == t[p].depth
<1>1. /\ t \in Seq(Lines) /\ n \in Nat /\ n >= 1
      /\ \A i \in 1 .. n : t[i].depth \in Nat
      /\ \A i \in 2 .. n :
              t[i].depth <= t[i - 1].depth + (IF i = 2 \/ t[i - 1].braces THEN 1 ELSE 0)
  BY TreeLines
<1>2. /\ p \in 1 .. n /\ a \in Nat /\ b \in Nat /\ a >= p + 1 /\ b >= a /\ b <= n + 1
      /\ \A j \in (p + 1) .. (b - 1) : t[j].depth > d
      /\ a <= n => t[a].depth <= d + 1
  BY <1>1 DEF Cut, Holds, Below
<1>3. /\ R \in Seq(Lines) /\ Len(R) = b - a
      /\ \A k \in 1 .. (b - a) : R[k] = t[(a - 1) + k]
  <2>1. a \in 1 .. (Len(t) + 1) /\ b \in a .. (Len(t) + 1)
    BY <1>1, <1>2
  <2>2. t \in Seq(Lines)
    BY <1>1
  <2> QED BY ONLY <2>1, <2>2, SplitAt DEF R
<1>4. d \in Nat
  BY <1>1, <1>2
<1> HIDE DEF R, n, d
<1>5. ASSUME NEW k \in 1 .. (b - a)
      PROVE  /\ (a - 1) + k \in (p + 1) .. (b - 1) /\ (a - 1) + k \in 1 .. n
             /\ R[k].depth >= d + 1 /\ R[k].depth \in Nat
  <2>1. (a - 1) + k \in (p + 1) .. (b - 1) /\ (a - 1) + k \in 1 .. n
    BY <1>1, <1>2
  <2>2. R[k].depth > d /\ R[k].depth \in Nat
    BY <1>1, <1>2, <1>3, <2>1
  <2> QED BY <1>4, <2>1, <2>2
<1>6. R # <<>> => R[1].depth = d + 1
  <2>1. ASSUME R # <<>> PROVE R[1].depth = d + 1
    <3>1. b - a >= 1 /\ 1 \in 1 .. (b - a) /\ a <= n /\ (a - 1) + 1 = a /\ a \in 1 .. n
      BY <1>1, <1>2, <1>3, <2>1
    <3>2. R[1] = t[a] /\ R[1].depth >= d + 1 /\ t[a].depth <= d + 1 /\ t[a].depth \in Nat
      BY <1>1, <1>2, <1>3, <1>5, <3>1
    <3> QED BY <1>4, <3>2
  <2> QED BY <2>1
<1>7. ASSUME NEW i \in 2 .. (b - a)
      PROVE  R[i].depth <= R[i - 1].depth + (IF R[i - 1].braces THEN 1 ELSE 0)
  <2> DEFINE k == (a - 1) + i
  <2>1. /\ i \in 1 .. (b - a) /\ i - 1 \in 1 .. (b - a) /\ (a - 1) + (i - 1) = k - 1
        /\ k \in 2 .. n /\ k # 2
    BY <1>1, <1>2
  <2>2. R[i] = t[k] /\ R[i - 1] = t[k - 1]
    BY <1>3, <2>1
  <2> HIDE DEF k
  <2>3. t[k].depth <= t[k - 1].depth + (IF t[k - 1].braces THEN 1 ELSE 0)
    BY <1>1, <2>1
  <2> QED BY <2>2, <2>3
<1>8. Forest(R, d + 1)
  BY <1>3, <1>5, <1>6, <1>7 DEF Forest
<1>9. ASSUME Fit(t) PROVE Fit(R)
  <2> DEFINE A == SubSeq(t, 1, a - 1)
             B == SubSeq(t, b, Len(t))
  <2>1. /\ A \in Seq(Lines) /\ Len(A) = a - 1 /\ B \in Seq(Lines) /\ t = A \o (R \o B)
    <3>1. a \in 1 .. (Len(t) + 1) /\ b \in a .. (Len(t) + 1)
      BY <1>1, <1>2 DEF n
    <3>2. t \in Seq(Lines)
      BY <1>1
    <3> QED BY ONLY <3>1, <3>2, SplitAt DEF R, A, B
  <2> HIDE DEF A, B
  <2>2. R \o B \in Seq(Lines) /\ Len(R \o B) = (b - a) + Len(B) /\ Len(B) \in Nat
    BY <1>3, <2>1, JoinedAt, LinesOf
  <2>3. ASSUME NEW k \in 1 .. (b - a) PROVE ChildCount(R, k) <= R[k].slots
    <3> DEFINE q == (a - 1) + k
               x == R[k].depth
               r == After(R, k)
    <3>1. q \in 1 .. n /\ R[k] = t[q] /\ k \in 1 .. Len(R \o B) /\ k \in 1 .. Len(R)
      BY <1>2, <1>3, <1>5, <2>2
    <3>2. After(t, q) = After(R \o B, k)
      <4>1. After(A \o (R \o B), Len(A) + k) = After(R \o B, k)
        BY <2>1, <2>2, <3>1, AfterConcat
      <4> QED BY <2>1, <4>1
    <3>3. After(R \o B, k) = r \o B /\ r \in Seq(Lines)
      BY <1>3, <2>1, <3>1, AfterConcat, AfterIs
    <3>4. /\ ChildCount(t, q) = Count(After(t, q), t[q].depth)
          /\ ChildCount(R, k) = Count(r, x)
      BY <1>1, <1>3, <3>1, ChildCountIs DEF n
    <3>5. x \in Int
      BY <1>5
    <3>6. Count(r, x) \in Nat /\ Count(B, x) \in Nat
      BY <2>1, <3>3, <3>5, StartsFinite
    <3>7. Count(r \o B, x) = Count(r, x) + Count(B, x) \/ Count(r \o B, x) = Count(r, x)
      BY <2>1, <3>3, <3>5, CountConcat
    <3>8. ChildCount(t, q) <= t[q].slots
      BY <1>9, <3>1 DEF Fit, n
    <3>9. t[q].slots \in Nat
      BY <1>1, <3>1, LinesOf DEF n
    <3>10. ChildCount(t, q) = Count(r \o B, x)
      BY <3>1, <3>2, <3>3, <3>4
    <3> HIDE DEF q, x, r
    <3> QED BY <3>1, <3>4, <3>6, <3>7, <3>8, <3>9, <3>10
  <2> QED BY <1>3, <2>3 DEF Fit
<1> QED BY <1>3, <1>8, <1>9 DEF R, d, CutIs

(* What is put between two cuts.                                           *)
Put(t, a, b, L) == SubSeq(t, 1, a - 1) \o L \o SubSeq(t, b, Len(t))

PutIs(t, p, a, b, L) ==
  LET A == SubSeq(t, 1, a - 1)
      R == SubSeq(t, a, b - 1)
      B == SubSeq(t, b, Len(t))
      u == Put(t, a, b, L)
  IN  /\ A \in Seq(Lines) /\ R \in Seq(Lines) /\ B \in Seq(Lines)
      /\ Len(A) = a - 1 /\ Len(R) = b - a /\ Len(B) = Len(t) - (b - 1)
      /\ t = A \o (R \o B) /\ u = A \o (L \o B)
      /\ \A k \in 1 .. (a - 1) : A[k] = t[k]
      /\ \A k \in 1 .. (Len(t) - (b - 1)) : B[k] = t[(b - 1) + k]
      /\ a \in Nat /\ b \in Nat /\ a >= p + 1 /\ b >= a /\ b <= Len(t) + 1
      /\ u \in Seq(Lines) /\ Len(u) = (a - 1) + (Len(L) + (Len(t) - (b - 1)))
      /\ \A k \in 1 .. (a - 1) : u[k] = t[k]
      /\ \A k \in 1 .. Len(L) : u[(a - 1) + k] = L[k]
      /\ \A k \in 1 .. (Len(t) - (b - 1)) : u[((a - 1) + Len(L)) + k] = t[(b - 1) + k]

(* Lines put between two cuts: where each line of the result comes from.   *)
LEMMA PutLines ==
  ASSUME NEW t, IsTree(t), NEW p, Holds(t, p), NEW a, NEW b, Cut(t, p, a), Cut(t, p, b), a <= b,
         NEW L \in Seq(Lines)
  PROVE  PutIs(t, p, a, b, L)
<1> DEFINE A == SubSeq(t, 1, a - 1)
           R == SubSeq(t, a, b - 1)
           B == SubSeq(t, b, Len(t))
           u == Put(t, a, b, L)
           x == a - 1
           y == Len(L)
           z == Len(t) - (b - 1)
<1>1. t \in Seq(Lines) /\ Len(t) \in Nat
  BY TreeLines
<1>2. a \in Nat /\ b \in Nat /\ a >= p + 1 /\ b >= a /\ b <= Len(t) + 1 /\ p \in 1 .. Len(t)
  BY <1>1 DEF Cut, Holds
<1>3. /\ A \in Seq(Lines) /\ R \in Seq(Lines) /\ B \in Seq(Lines)
      /\ Len(A) = a - 1 /\ Len(R) = b - a /\ Len(B) = Len(t) - (b - 1)
      /\ t = A \o (R \o B)
      /\ \A k \in 1 .. (a - 1) : A[k] = t[k]
      /\ \A k \in 1 .. (Len(t) - (b - 1)) : B[k] = t[(b - 1) + k]
  <2>1. a \in 1 .. (Len(t) + 1) /\ b \in a .. (Len(t) + 1)
    BY <1>1, <1>2
  <2>2. t \in Seq(Lines)
    BY <1>1
  <2>3. SplitIs(t, a, b, A, R, B)
    BY ONLY <2>1, <2>2, SplitAs DEF A, R, B
  <2> HIDE DEF A, R, B
  <2> QED BY ONLY <2>3 DEF SplitIs
<1>s. A \in Seq(Lines) /\ B \in Seq(Lines) /\ L \in Seq(Lines)
  BY <1>3
<1>4. u = A \o (L \o B)
  <2>1. u = (A \o L) \o B
    BY DEF Put
  <2> HIDE DEF A, B, u, x, y, z
  <2>2. (A \o L) \o B = A \o (L \o B)
    BY <1>s, Associative
  <2> QED BY <2>1, <2>2
<1>5. x \in Nat /\ y \in Nat /\ z \in Nat
  BY <1>1, <1>2, LinesOf
<1>6. Len(A) = x /\ Len(B) = z /\ Len(L) = y
  BY <1>3
<1> HIDE DEF A, B, u, x, y, z
<1>7. /\ L \o B \in Seq(Lines) /\ Len(L \o B) = y + z
      /\ \A k \in 1 .. y : (L \o B)[k] = L[k]
      /\ \A k \in 1 .. z : (L \o B)[y + k] = B[k]
  BY <1>s, <1>6, JoinedAt
<1> DEFINE v == L \o B
<1> HIDE DEF v
<1>8. /\ A \o v \in Seq(Lines) /\ Len(A \o v) = x + (y + z)
      /\ \A k \in 1 .. x : (A \o v)[k] = A[k]
      /\ \A k \in 1 .. (y + z) : (A \o v)[x + k] = v[k]
  <2>1. v \in Seq(Lines) /\ Len(v) = y + z
    BY <1>7 DEF v
  <2>2. Joined(A, v, x, y + z)
    BY ONLY <1>s, <1>6, <2>1, JoinedAs
  <2> QED BY ONLY <2>2 DEF Joined
<1>9. u = A \o v
  BY <1>4 DEF v
<1>10. \A k \in 1 .. y : u[x + k] = L[k]
  <2>1. \A k \in 1 .. y : k \in 1 .. (y + z)
    BY <1>5
  <2> QED BY <1>7, <1>8, <1>9, <2>1 DEF v
<1>11. ASSUME NEW k \in 1 .. z PROVE u[(x + y) + k] = B[k]
  <2>1. y + k \in 1 .. (y + z) /\ (x + y) + k = x + (y + k)
    BY <1>5
  <2>2. u[x + (y + k)] = v[y + k]
    BY <1>8, <1>9, <2>1
  <2> QED BY <1>7, <2>1, <2>2 DEF v
<1>12. /\ \A k \in 1 .. x : u[k] = t[k]
       /\ \A k \in 1 .. z : u[(x + y) + k] = t[(b - 1) + k]
  BY <1>3, <1>8, <1>9, <1>11 DEF x, z
<1> QED BY <1>2, <1>3, <1>4, <1>8, <1>9, <1>10, <1>12 DEF A, R, B, u, x, y, z, PutIs

PutTreeIs(t, p, u) == IsTree(u) /\ Holds(u, p) /\ u[p] = t[p]

(* Whole nodes put between two cuts of a node leave a tree, with the node  *)
(* where it was (nodes spliced into a list of children, EntityParser.cpp   *)
(* 231-266).                                                               *)
LEMMA PutTree ==
  ASSUME NEW t, IsTree(t), NEW p, Holds(t, p), NEW a, NEW b, Cut(t, p, a), Cut(t, p, b), a <= b,
         NEW L, Forest(L, t[p].depth + 1)
  PROVE  PutTreeIs(t, p, Put(t, a, b, L))
<1> DEFINE u == Put(t, a, b, L)
           n == Len(t)
           d == t[p].depth
           x == a - 1
           y == Len(L)
           z == n - (b - 1)
<1>1. /\ t \in Seq(Lines) /\ n \in Nat /\ n >= 1 /\ t[1].depth = 0
      /\ \A i \in 1 .. n : t[i].depth \in Nat
      /\ \A i \in 2 .. n :
           /\ t[i].depth >= 1
           /\ t[i].depth <= t[i - 1].depth + (IF i = 2 \/ t[i - 1].braces THEN 1 ELSE 0)
  BY TreeLines
<1>2. /\ p \in 1 .. n /\ (p = 1 \/ t[p].braces)
      /\ \A j \in (p + 1) .. (a - 1) : t[j].depth > d
      /\ b <= n => t[b].depth <= d + 1
  BY DEF Cut, Holds, Below
<1>3. d \in Nat
  BY <1>1, <1>2
<1>4. /\ L \in Seq(Lines) /\ y \in Nat
      /\ \A i \in 1 .. y : L[i].depth \in Nat /\ L[i].depth >= d + 1
      /\ y > 0 => L[1].depth = d + 1
  <2> HIDE DEF d
  <2>1. d + 1 \in Int
    BY <1>3
  <2>2. Forest(L, d + 1)
    BY DEF d
  <2> QED BY <2>1, <2>2, ForestLines
<1>5. \A i \in 2 .. y : L[i].depth <= L[i - 1].depth + (IF L[i - 1].braces THEN 1 ELSE 0)
  BY DEF Forest
<1>6. /\ a \in Nat /\ b \in Nat /\ a >= p + 1 /\ b >= a /\ b <= n + 1
      /\ u \in Seq(Lines) /\ Len(u) = x + (y + z)
      /\ \A k \in 1 .. x : u[k] = t[k]
      /\ \A k \in 1 .. y : u[x + k] = L[k]
      /\ \A k \in 1 .. z : u[(x + y) + k] = t[(b - 1) + k]
  <2>1. L \in Seq(Lines)
    BY <1>4
  <2>2. PutIs(t, p, a, b, L)
    BY <2>1, PutLines
  <2> QED BY <2>2 DEF PutIs
<1>i. n \in Nat /\ p \in 1 .. n /\ a \in Nat /\ b \in Nat /\ a >= p + 1 /\ b >= a /\ b <= n + 1
  BY <1>1, <1>2, <1>6
<1>7. x \in Nat /\ x >= p /\ z \in Nat /\ n = (b - 1) + z /\ a = x + 1 /\ b - 1 >= x /\ p \in Nat /\ p >= 1
  <2> HIDE DEF n
  <2> QED BY <1>i
<1> HIDE DEF u, n, d, x, y, z
<1>8. t[x].depth + (IF x = 1 \/ t[x].braces THEN 1 ELSE 0) >= d + 1 /\ t[x].depth \in Nat
  <2>1. x \in 1 .. n
    BY <1>7, <1>i
  <2>2. CASE x = p
    <3>1. (IF x = 1 \/ t[x].braces THEN 1 ELSE 0) = 1 /\ t[x].depth = d
      BY <1>2, <2>2 DEF d
    <3> QED BY <1>3, <3>1
  <2>3. CASE x # p
    <3>1. x \in (p + 1) .. (a - 1)
      BY <1>7, <2>3
    <3>2. t[x].depth > d /\ t[x].depth \in Nat
      BY <1>1, <1>2, <2>1, <3>1
    <3> QED BY <1>3, <3>2
  <2> QED BY <2>2, <2>3
<1>9. ASSUME NEW i \in 2 .. (x + (y + z))
      PROVE  /\ u[i].depth >= 1
             /\ u[i].depth <= u[i - 1].depth + (IF i = 2 \/ u[i - 1].braces THEN 1 ELSE 0)
  <2>1. CASE i <= x
    <3>1. i \in 1 .. x /\ i - 1 \in 1 .. x /\ i \in 2 .. n
      <4>1. i \in Nat /\ i >= 2
        <5>1. y \in Nat /\ x \in Nat /\ z \in Nat
          BY <1>4, <1>7
        <5> QED BY <5>1
      <4>2. n \in Nat /\ n >= x /\ x \in Nat
        BY <1>7, <1>i
      <4> QED BY <2>1, <4>1, <4>2
    <3>2. u[i] = t[i] /\ u[i - 1] = t[i - 1]
      BY <1>6, <3>1
    <3> QED BY <1>1, <3>1, <3>2
  <2>2. CASE i = x + 1 /\ y > 0
    <3>1. 1 \in 1 .. y /\ x \in 1 .. x /\ i - 1 = x /\ (i = 2 <=> x = 1)
      BY <1>4, <1>7, <2>2
    <3>2. u[i] = L[1] /\ u[i - 1] = t[x]
      BY <1>6, <2>2, <3>1
    <3>3. u[i].depth = d + 1
      BY <1>4, <2>2, <3>2
    <3> QED BY <1>3, <1>8, <3>1, <3>2, <3>3
  <2>3. CASE i > x + 1 /\ i <= x + y
    <3> DEFINE k == i - x
    <3>1. k \in 2 .. y /\ k \in 1 .. y /\ k - 1 \in 1 .. y /\ i = x + k /\ i - 1 = x + (k - 1) /\ i # 2
      BY <1>4, <1>7, <2>3
    <3> HIDE DEF k
    <3>2. u[i] = L[k] /\ u[i - 1] = L[k - 1]
      BY <1>6, <3>1
    <3>3. L[k].depth >= d + 1 /\ L[k].depth \in Nat
      BY <1>4, <3>1
    <3>4. L[k].depth >= 1
      BY <1>3, <3>3
    <3> QED BY <1>5, <3>1, <3>2, <3>4
  <2>4. CASE i = (x + y) + 1 /\ z > 0
    <3>1. 1 \in 1 .. z /\ (b - 1) + 1 = b /\ b \in 2 .. n /\ b <= n /\ b \in 1 .. n
      BY <1>6, <1>7, <2>4
    <3>2. u[i] = t[b]
      <4>1. u[(x + y) + 1] = t[(b - 1) + 1]
        BY <1>6, <3>1
      <4> QED BY <2>4, <3>1, <4>1
    <3>3. t[b].depth >= 1 /\ t[b].depth <= d + 1 /\ t[b].depth \in Nat
      BY <1>1, <1>2, <3>1
    <3>4. CASE y = 0
      <4>1. i - 1 = x /\ x \in 1 .. x /\ (i = 2 <=> x = 1)
        BY <1>7, <2>4, <3>4
      <4>2. u[i - 1] = t[x]
        BY <1>6, <4>1
      <4> QED BY <1>3, <1>8, <3>2, <3>3, <4>1, <4>2
    <3>5. CASE y > 0
      <4>1. i - 1 = x + y /\ y \in 1 .. y /\ i # 2
        BY <1>4, <1>7, <2>4, <3>5
      <4>2. u[i - 1] = L[y] /\ L[y].depth >= d + 1 /\ L[y].depth \in Nat
        BY <1>4, <1>6, <4>1
      <4> QED BY <1>3, <3>2, <3>3, <4>1, <4>2
    <3> QED BY <1>4, <3>4, <3>5
  <2>5. CASE i > (x + y) + 1
    <3> DEFINE k == i - (x + y)
               m == (b - 1) + k
    <3>1. /\ k \in 1 .. z /\ k - 1 \in 1 .. z /\ i = (x + y) + k /\ i - 1 = (x + y) + (k - 1)
          /\ (b - 1) + (k - 1) = m - 1 /\ m \in 2 .. n /\ m # 2 /\ i # 2
      BY <1>4, <1>6, <1>7, <2>5
    <3>2. u[i] = t[m] /\ u[i - 1] = t[m - 1]
      <4> HIDE DEF k
      <4> QED BY <1>6, <3>1
    <3> HIDE DEF k, m
    <3> QED BY <1>1, <3>1, <3>2
  <2>6. i <= x \/ (i = x + 1 /\ y > 0) \/ (i > x + 1 /\ i <= x + y)
          \/ (i = (x + y) + 1 /\ z > 0) \/ i > (x + y) + 1
    BY <1>4, <1>7
  <2> QED BY <2>1, <2>2, <2>3, <2>4, <2>5, <2>6
<1>10. u[1] = t[1] /\ u[p] = t[p] /\ u # <<>> /\ p \in 1 .. Len(u)
  <2>1. 1 \in 1 .. x /\ p \in 1 .. x /\ Len(u) > 0 /\ p \in 1 .. Len(u)
    BY <1>4, <1>6, <1>7
  <2>2. u # <<>>
    BY <1>6, <2>1
  <2> QED BY <1>6, <2>1, <2>2
<1>11. IsTree(u)
  BY <1>1, <1>6, <1>9, <1>10 DEF IsTree
<1>12. Holds(u, p)
  BY <1>2, <1>10 DEF Holds
<1> QED BY <1>10, <1>11, <1>12 DEF u, PutTreeIs

(* What follows a cut begins no deeper than the children.                  *)
PutCountsAre(t, p, a, b, L) ==
  LET R == SubSeq(t, a, b - 1)
      u == Put(t, a, b, L)
      d == t[p].depth
  IN  /\ ChildCount(u, p) \in Nat /\ ChildCount(t, p) \in Nat
      /\ Count(R, d) \in Nat /\ Count(L, d) \in Nat
      /\ ChildCount(u, p) + Count(R, d) = ChildCount(t, p) + Count(L, d)
      /\ Fit(t) /\ Fit(L) => \A q \in 1 .. Len(u) : q # p => ChildCount(u, q) <= u[q].slots

(* They change the child count of that node by the difference, and no      *)
(* other count of an old node.                                             *)
LEMMA PutCounts ==
  ASSUME NEW t, IsTree(t), NEW p, Holds(t, p), NEW a, NEW b, Cut(t, p, a), Cut(t, p, b), a <= b,
         NEW L, Forest(L, t[p].depth + 1)
  PROVE  PutCountsAre(t, p, a, b, L)
<1> DEFINE u == Put(t, a, b, L)
           n == Len(t)
           d == t[p].depth
           A == SubSeq(t, 1, a - 1)
           R == SubSeq(t, a, b - 1)
           B == SubSeq(t, b, n)
           v == R \o B
           w == L \o B
           x == a - 1
           y == Len(L)
           z == n - (b - 1)
           l == b - a
<1>1. /\ t \in Seq(Lines) /\ n \in Nat /\ n >= 1
      /\ \A i \in 1 .. n : t[i].depth \in Nat /\ t[i].slots \in Nat
  BY TreeLines
<1>2. /\ p \in 1 .. n
      /\ \A j \in (p + 1) .. (a - 1) : t[j].depth > d
      /\ b <= n => t[b].depth <= d + 1
  BY DEF Cut, Holds, Below
<1>3. d \in Nat
  BY <1>1, <1>2
<1>L. Forest(L, d + 1) /\ d + 1 \in Int /\ L \in Seq(Lines)
  <2>1. Forest(L, d + 1)
    OBVIOUS
  <2>2. d + 1 \in Int
    BY <1>3
  <2> HIDE DEF d
  <2> QED BY <2>1, <2>2, ForestLines
<1>R. Forest(R, d + 1) /\ Len(R) = l
  <2>1. CutIs(t, p, a, b)
    BY CutForest
  <2> QED BY <2>1 DEF CutIs
<1>6. /\ A \in Seq(Lines) /\ R \in Seq(Lines) /\ B \in Seq(Lines)
      /\ Len(A) = x /\ Len(B) = z
      /\ t = A \o v /\ u = A \o w
      /\ a \in Nat /\ b \in Nat /\ a >= p + 1 /\ b >= a /\ b <= n + 1
      /\ u \in Seq(Lines) /\ Len(u) = x + (y + z)
      /\ \A k \in 1 .. x : A[k] = t[k]
      /\ \A k \in 1 .. z : B[k] = t[(b - 1) + k]
      /\ \A k \in 1 .. x : u[k] = t[k]
      /\ \A k \in 1 .. y : u[x + k] = L[k]
      /\ \A k \in 1 .. z : u[(x + y) + k] = t[(b - 1) + k]
  <2>1. PutIs(t, p, a, b, L)
    BY <1>L, PutLines
  <2> QED BY <2>1 DEF PutIs
<1> HIDE DEF u, d, A, R, B
<1>4. /\ L \in Seq(Lines) /\ y \in Nat
      /\ \A i \in 1 .. y : L[i].depth \in Nat /\ L[i].depth >= d + 1
  BY <1>L, ForestLines
<1>5. /\ R \in Seq(Lines) /\ l \in Nat
      /\ \A i \in 1 .. l : R[i].depth \in Nat /\ R[i].depth >= d + 1
  <2>1. /\ R \in Seq(Lines) /\ Len(R) \in Nat
        /\ \A i \in 1 .. Len(R) : R[i].depth \in Nat /\ R[i].depth >= d + 1
    BY <1>L, <1>R, ForestLines
  <2> HIDE DEF l
  <2> QED BY <1>R, <2>1
<1>7. /\ x \in Nat /\ x >= p /\ z \in Nat /\ n = (b - 1) + z /\ a = x + 1 /\ b - 1 >= x
      /\ p \in Nat /\ p >= 1 /\ n = x + (l + z)
  <2>1. n \in Nat /\ p \in 1 .. n /\ a \in Nat /\ b \in Nat /\ a >= p + 1 /\ b >= a /\ b <= n + 1
    BY <1>1, <1>2, <1>6
  <2> HIDE DEF n
  <2> QED BY <2>1
<1> HIDE DEF n, x, y, z, l
<1>s. A \in Seq(Lines) /\ R \in Seq(Lines) /\ B \in Seq(Lines) /\ Len(A) = x /\ Len(B) = z
  BY <1>6
<1>8. /\ v \in Seq(Lines) /\ w \in Seq(Lines)
      /\ Len(v) = l + z /\ Len(w) = y + z
      /\ \A k \in 1 .. y : w[k] = L[k]
      /\ \A k \in 1 .. z : w[y + k] = B[k] /\ v[l + k] = B[k]
      /\ \A k \in 1 .. l : v[k] = R[k]
  <2>1. Len(L) = y /\ Len(R) = l
    BY <1>R DEF y
  <2>2. /\ w \in Seq(Lines) /\ Len(w) = y + z
        /\ \A k \in 1 .. y : w[k] = L[k]
        /\ \A k \in 1 .. z : w[y + k] = B[k]
    <3>1. Joined(L, B, y, z)
      BY ONLY <1>4, <1>s, <2>1, JoinedAs
    <3> QED BY ONLY <3>1 DEF Joined, w
  <2>3. /\ v \in Seq(Lines) /\ Len(v) = l + z
        /\ \A k \in 1 .. l : v[k] = R[k]
        /\ \A k \in 1 .. z : v[l + k] = B[k]
    <3>1. Joined(R, B, l, z)
      BY ONLY <1>s, <2>1, JoinedAs
    <3> QED BY ONLY <3>1 DEF Joined, v
  <2> QED BY <2>2, <2>3
<1>t. v \in Seq(Lines) /\ w \in Seq(Lines) /\ Len(v) = l + z /\ Len(w) = y + z
  BY <1>8
<1>v. v = R \o B /\ w = L \o B
  OBVIOUS
<1> HIDE DEF v, w
<1>b. B # <<>> => 1 \in 1 .. z /\ B[1].depth <= d + 1 /\ B[1].depth \in Nat
  <2>1. ASSUME B # <<>> PROVE 1 \in 1 .. z /\ B[1].depth <= d + 1 /\ B[1].depth \in Nat
    <3>1. 1 \in 1 .. z /\ b <= n /\ (b - 1) + 1 = b /\ b \in 1 .. n
      BY <1>6, <1>7, <2>1
    <3>2. B[1] = t[b]
      BY <1>6, <3>1
    <3> QED BY <1>1, <1>2, <3>1, <3>2
  <2> QED BY <2>1
(* Deeper than its children, a node has none in what follows.              *)
<1>9. ASSUME NEW e \in Nat, e >= d + 1
      PROVE  Count(v, e) = 0 /\ Count(w, e) = 0 /\ Count(B, e) = 0
  <2>1. ASSUME NEW Y \in Seq(Lines), Y # <<>> => Y[1].depth <= d + 1 /\ Y[1].depth \in Nat
        PROVE  Count(Y, e) = 0
    <3>1. Y = <<>> \/ ~(Y[1].depth > e)
      BY <1>3, <1>9, <2>1
    <3> QED BY <3>1, CountNone
  <2>2. R # <<>> => R[1].depth <= d + 1 /\ R[1].depth \in Nat
    BY <1>3, <1>R DEF Forest
  <2>3. L # <<>> => L[1].depth <= d + 1 /\ L[1].depth \in Nat
    BY <1>3, <1>L DEF Forest
  <2>4. v # <<>> => v[1].depth <= d + 1 /\ v[1].depth \in Nat
    <3>1. CASE l > 0
      <4>1. 1 \in 1 .. l /\ R # <<>>
        BY <1>5, <1>R, <3>1
      <4> QED BY <1>8, <2>2, <4>1
    <3>2. CASE l = 0
      <4>1. v = B
        <5>1. R = <<>>
          BY <1>5, <1>R, <3>2
        <5> QED BY <1>6, <1>v, <5>1, ConcatEmptySeq
      <4> QED BY <1>b, <4>1
    <3> QED BY <1>5, <3>1, <3>2
  <2>5. w # <<>> => w[1].depth <= d + 1 /\ w[1].depth \in Nat
    <3>1. CASE y > 0
      <4>1. 1 \in 1 .. y /\ L # <<>>
        BY <1>4, <3>1 DEF y
      <4> QED BY <1>8, <2>3, <4>1
    <3>2. CASE y = 0
      <4>1. w = B
        <5>1. L = <<>>
          BY <1>4, <3>2 DEF y
        <5> QED BY <1>6, <1>v, <5>1, ConcatEmptySeq
      <4> QED BY <1>b, <4>1
    <3> QED BY <1>4, <3>1, <3>2
  <2> QED BY <1>6, <1>8, <1>b, <2>1, <2>4, <2>5
(* The counts of nodes before the cut.                                     *)
<1>10. ASSUME NEW q \in 1 .. x
       PROVE  LET r == After(A, q)
                  e == t[q].depth
              IN  /\ r \in Seq(Lines) /\ e \in Nat
                  /\ ChildCount(t, q) = Count(r \o v, e)
                  /\ ChildCount(u, q) = Count(r \o w, e)
                  /\ Len(r) = x - q /\ \A k \in 1 .. (x - q) : r[k] = t[q + k]
  <2>1. q \in 1 .. Len(A) /\ q \in 1 .. Len(t) /\ q \in 1 .. Len(u) /\ q \in 1 .. n
    <3>1. Len(A) = x /\ Len(u) = x + (y + z) /\ Len(t) = n /\ y \in Nat /\ l \in Nat
      BY <1>4, <1>5, <1>6 DEF n
    <3>2. x \in Nat /\ z \in Nat /\ n = x + (l + z)
      BY <1>7
    <3> QED BY <3>1, <3>2
  <2>2. After(t, q) = After(A, q) \o v /\ After(u, q) = After(A, q) \o w
    <3>1. t = A \o v /\ u = A \o w
      BY <1>6
    <3>2. A \in Seq(Lines) /\ v \in Seq(Lines) /\ w \in Seq(Lines) /\ q \in 1 .. Len(A)
      BY <1>s, <1>t, <2>1
    <3>3. After(A \o v, q) = After(A, q) \o v
      BY ONLY <3>2, AfterConcat
    <3>4. After(A \o w, q) = After(A, q) \o w
      BY ONLY <3>2, AfterConcat
    <3> QED BY ONLY <3>1, <3>3, <3>4
  <2>3. /\ After(A, q) \in Seq(Lines) /\ Len(After(A, q)) = x - q
        /\ \A k \in 1 .. (x - q) : After(A, q)[k] = A[q + k]
    BY <1>6, <2>1, AfterIs
  <2>4. \A k \in 1 .. (x - q) : A[q + k] = t[q + k]
    <3>1. \A k \in 1 .. (x - q) : q + k \in 1 .. x
      BY <1>7
    <3> QED BY <1>6, <3>1
  <2>5. u[q] = t[q] /\ t[q].depth \in Nat
    BY <1>1, <1>6, <2>1
  <2>6. ChildCount(t, q) = Count(After(t, q), t[q].depth) /\ ChildCount(u, q) = Count(After(u, q), u[q].depth)
    BY <1>1, <1>6, <2>1, ChildCountIs
  <2> QED BY <2>2, <2>3, <2>4, <2>5, <2>6
<1>11. Inside(R, d) /\ Inside(L, d)
  <2>1. DOMAIN R = 1 .. l /\ DOMAIN L = 1 .. y
    BY <1>4, <1>5, <1>R DEF y
  <2> QED BY <1>3, <1>4, <1>5, <2>1 DEF Inside
<1>12. /\ ChildCount(u, p) + Count(R, d) = ChildCount(t, p) + Count(L, d)
       /\ Count(R, d) \in Nat /\ Count(L, d) \in Nat
       /\ ChildCount(u, p) \in Nat /\ ChildCount(t, p) \in Nat
  <2> DEFINE r == After(A, p)
  <2>1. /\ r \in Seq(Lines) /\ ChildCount(t, p) = Count(r \o v, d)
        /\ ChildCount(u, p) = Count(r \o w, d)
        /\ Len(r) = x - p /\ \A k \in 1 .. (x - p) : r[k] = t[p + k]
    BY <1>7, <1>10 DEF d
  <2> HIDE DEF r
  <2>2. Inside(r, d)
    <3>1. DOMAIN r = 1 .. (x - p)
      BY <2>1
    <3>2. \A k \in 1 .. (x - p) : p + k \in (p + 1) .. (a - 1)
      BY <1>7
    <3> QED BY <1>2, <2>1, <3>1, <3>2 DEF Inside
  <2>3. /\ Count(r \o v, d) = Count(r, d) + Count(v, d)
        /\ Count(r \o w, d) = Count(r, d) + Count(w, d)
    BY <1>3, <1>t, <2>1, <2>2, CountConcat
  <2>4. /\ Count(v, d) = Count(R, d) + Count(B, d)
        /\ Count(w, d) = Count(L, d) + Count(B, d)
    BY <1>3, <1>L, <1>s, <1>v, <1>11, CountConcat
  <2>5. Count(r, d) \in Nat /\ Count(R, d) \in Nat /\ Count(L, d) \in Nat /\ Count(B, d) \in Nat
    BY <1>3, <1>4, <1>5, <1>6, <2>1, StartsFinite
  <2> QED BY <2>1, <2>3, <2>4, <2>5
<1>13. ASSUME Fit(t), Fit(L), NEW q \in 1 .. Len(u), q # p
       PROVE  ChildCount(u, q) <= u[q].slots
  <2>0. q \in 1 .. (x + (y + z))
    BY <1>6
  <2>1. CASE q <= x
    <3> DEFINE r == After(A, q)
               e == t[q].depth
    <3>1. q \in 1 .. x /\ q \in 1 .. Len(t)
      <4>1. q \in Nat /\ q >= 1
        BY <1>4, <1>7, <2>0
      <4> QED BY <1>5, <1>7, <2>1, <4>1 DEF n
    <3>2. /\ r \in Seq(Lines) /\ e \in Nat
          /\ ChildCount(t, q) = Count(r \o v, e)
          /\ ChildCount(u, q) = Count(r \o w, e)
          /\ Len(r) = x - q /\ \A k \in 1 .. (x - q) : r[k] = t[q + k]
      BY <1>10, <3>1
    <3> HIDE DEF r
    <3>3. Count(r \o v, e) = Count(r \o w, e)
      <4>1. CASE ~Inside(r, e)
        <5>1. Count(r \o v, e) = Count(r, e) /\ Count(r \o w, e) = Count(r, e)
          <6> HIDE DEF e
          <6> QED BY <1>t, <3>2, <4>1, CountConcat
        <5> QED BY <5>1
      <4>2. CASE Inside(r, e)
        <5>1. /\ Count(r \o v, e) = Count(r, e) + Count(v, e)
              /\ Count(r \o w, e) = Count(r, e) + Count(w, e)
          <6> HIDE DEF e
          <6> QED BY <1>t, <3>2, <4>2, CountConcat
        <5>2. CASE q > p
          <6>1. q \in (p + 1) .. (a - 1)
            BY <1>7, <3>1, <5>2
          <6>2. e >= d + 1
            BY <1>2, <1>3, <3>2, <6>1
          <6> HIDE DEF e
          <6>3. Count(v, e) = 0 /\ Count(w, e) = 0
            BY <1>9, <3>2, <6>2
          <6> QED BY <5>1, <6>3
        <5>3. CASE q < p
          <6>1. p - q \in 1 .. (x - q) /\ q + (p - q) = p /\ DOMAIN r = 1 .. (x - q)
            BY <1>7, <3>1, <3>2, <5>3
          <6>2. d > e
            BY <3>2, <4>2, <6>1 DEF Inside, d
          <6> HIDE DEF e
          <6>3. Inside(R, e + 1) /\ Inside(L, e + 1) /\ Inside(R, e) /\ Inside(L, e)
            <7>1. DOMAIN R = 1 .. l /\ DOMAIN L = 1 .. y
              BY <1>4, <1>5, <1>R DEF y
            <7> QED BY <1>3, <1>4, <1>5, <3>2, <6>2, <7>1 DEF Inside
          <6>4. Count(R, e) = 0 /\ Count(L, e) = 0
            BY <1>4, <1>5, <3>2, <6>3, CountNone
          <6>5. /\ Count(v, e) = Count(R, e) + Count(B, e)
                /\ Count(w, e) = Count(L, e) + Count(B, e)
            <7>1. L \in Seq(Lines) /\ R \in Seq(Lines) /\ B \in Seq(Lines) /\ e \in Int
              BY <1>4, <1>s, <3>2
            <7>2. Count(R \o B, e) = Count(R, e) + Count(B, e)
              BY ONLY <6>3, <7>1, CountConcat
            <7>3. Count(L \o B, e) = Count(L, e) + Count(B, e)
              BY ONLY <6>3, <7>1, CountConcat
            <7> QED BY <1>v, <7>2, <7>3
          <6> QED BY <5>1, <6>4, <6>5
        <5>4. q > p \/ q < p
          BY <1>7, <1>13, <3>1
        <5> QED BY <5>2, <5>3, <5>4
      <4> QED BY <4>1, <4>2
    <3>4. ChildCount(t, q) <= t[q].slots
      BY <1>13, <3>1 DEF Fit
    <3> QED BY <1>6, <3>1, <3>2, <3>3, <3>4
  <2>2. CASE q > x /\ q <= x + y
    <3> DEFINE k == q - x
               r == After(L, k)
               e == L[k].depth
    <3>1. k \in 1 .. y /\ q = x + k /\ k \in 1 .. Len(L) /\ k \in 1 .. Len(w)
      <4>1. y \in Nat
        BY <1>4
      <4>2. Len(L) = y
        BY DEF y
      <4>3. x \in Nat /\ z \in Nat /\ Len(w) = y + z
        BY <1>7, <1>t
      <4> QED BY ONLY <2>0, <2>2, <4>1, <4>2, <4>3
    <3> HIDE DEF k
    <3>2. After(u, q) = r \o B /\ r \in Seq(Lines) /\ e \in Nat /\ e >= d + 1 /\ u[q] = L[k]
      <4>1. After(u, q) = After(w, k)
        BY <1>6, <1>8, <3>1, AfterConcat
      <4>2. After(w, k) = After(L, k) \o B /\ After(L, k) \in Seq(Lines)
        BY <1>L, <1>s, <1>v, <3>1, AfterConcat, AfterIs
      <4> QED BY <1>4, <1>6, <3>1, <4>1, <4>2
    <3>3. ChildCount(u, q) = Count(After(u, q), u[q].depth) /\ ChildCount(L, k) = Count(r, e)
      BY <1>4, <1>6, <3>1, ChildCountIs
    <3> HIDE DEF r, e
    <3>4. Count(B, e) = 0
      BY <1>9, <3>2
    <3>5. Count(r, e) \in Nat
      BY <3>2, StartsFinite
    <3>6. Count(r \o B, e) = Count(r, e) + Count(B, e) \/ Count(r \o B, e) = Count(r, e)
      BY <1>6, <3>2, CountConcat
    <3>7. ChildCount(L, k) <= L[k].slots
      BY <1>13, <3>1 DEF Fit
    <3> QED BY <3>2, <3>3, <3>4, <3>5, <3>6, <3>7 DEF e
  <2>3. CASE q > x + y
    <3> DEFINE k == q - (x + y)
    <3>1. /\ k \in 1 .. z /\ q = (x + y) + k /\ q = x + (y + k) /\ y + k \in 1 .. Len(w)
          /\ l + k \in 1 .. Len(v) /\ x + (l + k) \in 1 .. Len(t) /\ (b - 1) + k = x + (l + k)
      <4>1. y \in Nat /\ l \in Nat
        BY <1>4, <1>5
      <4>2. Len(t) = n
        BY DEF n
      <4>3. x \in Nat /\ z \in Nat /\ n = x + (l + z) /\ n = (b - 1) + z /\ b \in Nat
        BY <1>6, <1>7
      <4>4. Len(v) = l + z /\ Len(w) = y + z
        BY <1>t
      <4> QED BY <2>0, <2>3, <4>1, <4>2, <4>3, <4>4
    <3> HIDE DEF k
    <3>2. After(u, q) = After(B, k)
      <4>1. After(u, x + (y + k)) = After(w, y + k)
        BY <1>6, <1>8, <3>1, AfterConcat
      <4>2. After(w, y + k) = After(B, k)
        BY <1>L, <1>s, <1>v, <3>1, AfterConcat DEF y
      <4> QED BY <3>1, <4>1, <4>2
    <3>3. After(t, x + (l + k)) = After(B, k)
      <4>1. After(t, x + (l + k)) = After(v, l + k)
        BY <1>6, <1>8, <3>1, AfterConcat
      <4>2. After(v, l + k) = After(B, k)
        BY <1>s, <1>v, <1>R, <3>1, AfterConcat
      <4> QED BY <4>1, <4>2
    <3>4. u[q] = t[x + (l + k)]
      <4>1. \A i \in 1 .. z : u[(x + y) + i] = t[(b - 1) + i]
        BY <1>6
      <4>2. k \in 1 .. z /\ q = (x + y) + k /\ x + (l + k) = (b - 1) + k
        BY <1>6, <3>1
      <4> QED BY ONLY <4>1, <4>2
    <3> DEFINE s == x + (l + k)
    <3>5. s \in 1 .. Len(t) /\ After(t, s) = After(B, k) /\ u[q] = t[s]
      BY <3>1, <3>3, <3>4
    <3> HIDE DEF s
    <3>6. ChildCount(u, q) = Count(After(u, q), u[q].depth) /\ ChildCount(t, s) = Count(After(t, s), t[s].depth)
      BY <1>1, <1>6, <3>5, ChildCountIs
    <3>7. ChildCount(t, s) <= t[s].slots
      BY <1>13, <3>5 DEF Fit
    <3> QED BY <3>2, <3>5, <3>6, <3>7
  <2> QED BY <1>4, <1>7, <2>0, <2>1, <2>2, <2>3
<1> QED BY <1>12, <1>13 DEF u, d, R, PutCountsAre

-----------------------------------------------------------------------------
(* What lines hold of the allocators' memory.                              *)

(* A name has a length.                                                    *)
LEMMA CharsOfNat ==
  ASSUME NEW word \in Named
  PROVE  CharsOf(word) \in Nat
BY ConstantsAssumption DEF CharsOf, Named

SlotsList(Y) == [i \in DOMAIN Y |-> Y[i].slots]
CharsList(Y) == [i \in DOMAIN Y |-> CharsOf(Y[i].word)]

(* The slots and the characters of lines, line by line and in total.       *)
LEMMA SizeLists ==
  ASSUME NEW Y \in Seq(Lines)
  PROVE  /\ SlotsList(Y) \in Seq(Nat) /\ Len(SlotsList(Y)) = Len(Y)
         /\ CharsList(Y) \in Seq(Nat) /\ Len(CharsList(Y)) = Len(Y)
         /\ \A i \in 1 .. Len(Y) : SlotsList(Y)[i] = Y[i].slots /\ CharsList(Y)[i] = CharsOf(Y[i].word)
         /\ SlotsOf(Y) = Total(SlotsList(Y)) /\ SlotsOf(Y) \in Nat
         /\ CharsIn(Y) = Total(CharsList(Y)) /\ CharsIn(Y) \in Nat
<1>1. /\ DOMAIN Y = 1 .. Len(Y) /\ Len(Y) \in Nat
      /\ \A i \in 1 .. Len(Y) : Y[i].slots \in Nat /\ Y[i].word \in Named
  BY LinesOf
<1>2. \A i \in 1 .. Len(Y) : CharsOf(Y[i].word) \in Nat
  BY <1>1, CharsOfNat
<1>3. /\ SlotsList(Y) = [i \in 1 .. Len(Y) |-> Y[i].slots]
      /\ CharsList(Y) = [i \in 1 .. Len(Y) |-> CharsOf(Y[i].word)]
  BY <1>1 DEF SlotsList, CharsList
<1>4. SlotsList(Y) \in Seq(Nat) /\ Len(SlotsList(Y)) = Len(Y)
  BY <1>1, <1>3
<1>5. CharsList(Y) \in Seq(Nat) /\ Len(CharsList(Y)) = Len(Y)
  BY <1>1, <1>2, <1>3
<1>6. SlotsOf(Y) = Total(SlotsList(Y)) /\ CharsIn(Y) = Total(CharsList(Y))
  BY DEF SlotsOf, CharsIn, SlotsList, CharsList
<1>7. SlotsOf(Y) \in Nat /\ CharsIn(Y) \in Nat
  BY <1>4, <1>5, <1>6, TotalNat
<1> QED BY <1>3, <1>4, <1>5, <1>6, <1>7

(* A list of numbers that agrees with two lists, one after the other, is   *)
(* the two joined.                                                         *)
LEMMA JoinedNumbers ==
  ASSUME NEW f \in Seq(Nat), NEW g \in Seq(Nat), NEW h \in Seq(Nat),
         Len(h) = Len(f) + Len(g),
         \A i \in 1 .. Len(f) : h[i] = f[i],
         \A i \in (Len(f) + 1) .. (Len(f) + Len(g)) : h[i] = g[i - Len(f)]
  PROVE  h = f \o g
<1>1. Len(f) \in Nat /\ Len(g) \in Nat
  OBVIOUS
<1>2. f \o g \in Seq(Nat) /\ Len(f \o g) = Len(f) + Len(g)
  OBVIOUS
<1>3. \A i \in 1 .. (Len(f) + Len(g)) : (f \o g)[i] = IF i <= Len(f) THEN f[i] ELSE g[i - Len(f)]
  OBVIOUS
<1>4. ASSUME NEW i \in 1 .. (Len(f) + Len(g)) PROVE h[i] = (f \o g)[i]
  <2>1. CASE i <= Len(f)
    <3>1. i \in 1 .. Len(f)
      BY <1>1, <2>1
    <3> QED BY <1>3, <2>1, <3>1
  <2>2. CASE ~(i <= Len(f))
    <3>1. i \in (Len(f) + 1) .. (Len(f) + Len(g))
      BY <1>1, <2>2
    <3> QED BY <1>3, <2>2, <3>1
  <2> QED BY <2>1, <2>2
<1> QED BY <1>2, <1>4, SeqEqual

(* The slots and the characters of two lists joined are the sums.          *)
LEMMA SizesConcat ==
  ASSUME NEW Y \in Seq(Lines), NEW Z \in Seq(Lines)
  PROVE  /\ SlotsOf(Y \o Z) = SlotsOf(Y) + SlotsOf(Z)
         /\ CharsIn(Y \o Z) = CharsIn(Y) + CharsIn(Z)
         /\ SlotsOf(Y) \in Nat /\ SlotsOf(Z) \in Nat /\ CharsIn(Y) \in Nat /\ CharsIn(Z) \in Nat
<1> DEFINE t == Y \o Z
           m == Len(Y)
           n == Len(Z)
<1>1. /\ t \in Seq(Lines) /\ Len(t) = m + n /\ m \in Nat /\ n \in Nat
      /\ \A k \in 1 .. m : t[k] = Y[k]
      /\ \A k \in (m + 1) .. (m + n) : k - m \in 1 .. n /\ t[k] = Z[k - m]
  BY JoinedLines, LinesOf
<1> HIDE DEF t, m, n
<1>2. /\ SlotsList(t) \in Seq(Nat) /\ Len(SlotsList(t)) = m + n
      /\ CharsList(t) \in Seq(Nat) /\ Len(CharsList(t)) = m + n
      /\ \A i \in 1 .. (m + n) : SlotsList(t)[i] = t[i].slots /\ CharsList(t)[i] = CharsOf(t[i].word)
      /\ SlotsOf(t) = Total(SlotsList(t)) /\ CharsIn(t) = Total(CharsList(t))
  BY <1>1, SizeLists
<1>3. /\ SlotsList(Y) \in Seq(Nat) /\ Len(SlotsList(Y)) = m
      /\ CharsList(Y) \in Seq(Nat) /\ Len(CharsList(Y)) = m
      /\ \A i \in 1 .. m : SlotsList(Y)[i] = Y[i].slots /\ CharsList(Y)[i] = CharsOf(Y[i].word)
      /\ SlotsOf(Y) = Total(SlotsList(Y)) /\ CharsIn(Y) = Total(CharsList(Y))
      /\ SlotsOf(Y) \in Nat /\ CharsIn(Y) \in Nat
  BY SizeLists DEF m
<1>4. /\ SlotsList(Z) \in Seq(Nat) /\ Len(SlotsList(Z)) = n
      /\ CharsList(Z) \in Seq(Nat) /\ Len(CharsList(Z)) = n
      /\ \A i \in 1 .. n : SlotsList(Z)[i] = Z[i].slots /\ CharsList(Z)[i] = CharsOf(Z[i].word)
      /\ SlotsOf(Z) = Total(SlotsList(Z)) /\ CharsIn(Z) = Total(CharsList(Z))
      /\ SlotsOf(Z) \in Nat /\ CharsIn(Z) \in Nat
  BY SizeLists DEF n
<1>6. /\ \A i \in 1 .. m : i \in 1 .. (m + n)
      /\ \A i \in (m + 1) .. (m + n) : i \in 1 .. (m + n)
  BY <1>1
<1>7. SlotsList(t) = SlotsList(Y) \o SlotsList(Z)
  <2>1. \A i \in 1 .. m : SlotsList(t)[i] = SlotsList(Y)[i]
    BY <1>1, <1>2, <1>3, <1>6
  <2>2. \A i \in (m + 1) .. (m + n) : SlotsList(t)[i] = SlotsList(Z)[i - m]
    BY <1>1, <1>2, <1>4, <1>6
  <2>3. /\ Len(SlotsList(t)) = Len(SlotsList(Y)) + Len(SlotsList(Z))
        /\ \A i \in 1 .. Len(SlotsList(Y)) : SlotsList(t)[i] = SlotsList(Y)[i]
        /\ \A i \in (Len(SlotsList(Y)) + 1) .. (Len(SlotsList(Y)) + Len(SlotsList(Z))) : SlotsList(t)[i] = SlotsList(Z)[i - Len(SlotsList(Y))]
    BY <1>2, <1>3, <1>4, <2>1, <2>2, Zenon
  <2> QED BY ONLY <1>2, <1>3, <1>4, <2>3, JoinedNumbers
<1>8. CharsList(t) = CharsList(Y) \o CharsList(Z)
  <2>1. \A i \in 1 .. m : CharsList(t)[i] = CharsList(Y)[i]
    BY <1>1, <1>2, <1>3, <1>6
  <2>2. \A i \in (m + 1) .. (m + n) : CharsList(t)[i] = CharsList(Z)[i - m]
    BY <1>1, <1>2, <1>4, <1>6
  <2>3. /\ Len(CharsList(t)) = Len(CharsList(Y)) + Len(CharsList(Z))
        /\ \A i \in 1 .. Len(CharsList(Y)) : CharsList(t)[i] = CharsList(Y)[i]
        /\ \A i \in (Len(CharsList(Y)) + 1) .. (Len(CharsList(Y)) + Len(CharsList(Z))) : CharsList(t)[i] = CharsList(Z)[i - Len(CharsList(Y))]
    BY <1>2, <1>3, <1>4, <2>1, <2>2, Zenon
  <2> QED BY ONLY <1>2, <1>3, <1>4, <2>3, JoinedNumbers
<1>9. SlotsOf(t) = SlotsOf(Y) + SlotsOf(Z)
  BY <1>2, <1>3, <1>4, <1>7, TotalConcat
<1>10. CharsIn(t) = CharsIn(Y) + CharsIn(Z)
  BY <1>2, <1>3, <1>4, <1>8, TotalConcat
<1> QED BY <1>3, <1>4, <1>9, <1>10 DEF t

(* The slots and the characters of no line and of one.                     *)
LEMMA SizesSmall ==
  /\ SlotsOf(<<>>) = 0 /\ CharsIn(<<>>) = 0
  /\ \A x \in Lines : SlotsOf(<<x>>) = x.slots /\ CharsIn(<<x>>) = CharsOf(x.word)
<1>1. SlotsOf(<<>>) = 0 /\ CharsIn(<<>>) = 0
  <2>1. SlotsList(<<>>) = <<>> /\ CharsList(<<>>) = <<>>
    BY DEF SlotsList, CharsList
  <2>2. <<>> \in Seq(Lines)
    OBVIOUS
  <2> QED BY <2>1, <2>2, SizeLists, TotalSmall
<1>2. ASSUME NEW x \in Lines PROVE SlotsOf(<<x>>) = x.slots /\ CharsIn(<<x>>) = CharsOf(x.word)
  <2>1. <<x>> \in Seq(Lines) /\ Len(<<x>>) = 1 /\ <<x>>[1] = x
    OBVIOUS
  <2>2. /\ SlotsList(<<x>>) \in Seq(Nat) /\ Len(SlotsList(<<x>>)) = 1
        /\ CharsList(<<x>>) \in Seq(Nat) /\ Len(CharsList(<<x>>)) = 1
        /\ SlotsList(<<x>>)[1] = x.slots /\ CharsList(<<x>>)[1] = CharsOf(x.word)
        /\ SlotsOf(<<x>>) = Total(SlotsList(<<x>>)) /\ CharsIn(<<x>>) = Total(CharsList(<<x>>))
    <3>1. 1 \in 1 .. Len(<<x>>)
      BY <2>1
    <3> QED BY <2>1, <3>1, SizeLists
  <2>3. SlotsList(<<x>>) = <<x.slots>> /\ CharsList(<<x>>) = <<CharsOf(x.word)>>
    <3>1. \A s \in Seq(Nat) : Len(s) = 1 => s = <<s[1]>>
      OBVIOUS
    <3> QED BY <2>2, <3>1
  <2>4. x.slots \in Nat /\ CharsOf(x.word) \in Nat
    BY LineFields, CharsOfNat
  <2> QED BY <2>2, <2>3, <2>4, TotalSmall
<1> QED BY <1>1, <1>2

(* Moving lines deeper changes no size.                                    *)
LEMMA SizesDeeper ==
  ASSUME NEW Y \in Seq(Lines), NEW m \in Nat
  PROVE  SlotsOf(Deeper(Y, m)) = SlotsOf(Y) /\ CharsIn(Deeper(Y, m)) = CharsIn(Y)
<1> DEFINE Z == Deeper(Y, m)
<1>1. /\ Z \in Seq(Lines) /\ Len(Z) = Len(Y)
      /\ \A k \in 1 .. Len(Y) : Z[k].slots = Y[k].slots /\ Z[k].word = Y[k].word
  <2>1. 0 \in Int
    OBVIOUS
  <2> QED BY <2>1, CountDeeper
<1> HIDE DEF Z
<1>2. SlotsList(Z) = SlotsList(Y)
  <2>1. \A i \in 1 .. Len(Y) : SlotsList(Z)[i] = SlotsList(Y)[i]
    BY <1>1, SizeLists
  <2> QED BY <1>1, <2>1, SizeLists, SeqEqual
<1>3. CharsList(Z) = CharsList(Y)
  <2>1. ASSUME NEW i \in 1 .. Len(Y) PROVE CharsList(Z)[i] = CharsList(Y)[i]
    <3>1. CharsList(Z)[i] = CharsOf(Z[i].word)
      BY <1>1, SizeLists
    <3>2. CharsList(Y)[i] = CharsOf(Y[i].word)
      BY SizeLists
    <3> QED BY <1>1, <3>1, <3>2
  <2> QED BY <1>1, <2>1, SizeLists, SeqEqual
<1> QED BY <1>1, <1>2, <1>3, SizeLists DEF Z

(* Lists of children are as long as the nodes in them are many or longer,  *)
(* and a node without children has none.                                   *)
Exact(Y) == \A i \in 1 .. Len(Y) : ~HasChildren(Y, i) => Y[i].slots = 0

(* What freeing lines gives back: every node and name, and the lists of    *)
(* the nodes that have children (freeNode, EntityParser.cpp 1017-1037),    *)
(* which are all lists when no other node has one.                         *)
LEMMA FreedSizes ==
  ASSUME NEW Y \in Seq(Lines)
  PROVE  /\ Freed(Y).nodes = Len(Y) /\ Freed(Y).chars = CharsIn(Y)
         /\ Freed(Y).slots \in Nat /\ Freed(Y).slots <= SlotsOf(Y)
         /\ Exact(Y) => Freed(Y).slots = SlotsOf(Y)
<1> DEFINE g == [i \in DOMAIN Y |-> IF HasChildren(Y, i) THEN Y[i].slots ELSE 0]
<1>1. /\ DOMAIN Y = 1 .. Len(Y) /\ Len(Y) \in Nat
      /\ \A i \in 1 .. Len(Y) : Y[i].slots \in Nat
  BY LinesOf
<1>2. g \in Seq(Nat) /\ Len(g) = Len(Y) /\ \A i \in 1 .. Len(Y) : g[i] = IF HasChildren(Y, i) THEN Y[i].slots ELSE 0
  <2>1. g = [i \in 1 .. Len(Y) |-> IF HasChildren(Y, i) THEN Y[i].slots ELSE 0]
    BY <1>1
  <2>2. \A i \in 1 .. Len(Y) : (IF HasChildren(Y, i) THEN Y[i].slots ELSE 0) \in Nat
    BY <1>1
  <2> QED BY <1>1, <2>1, <2>2
<1>3. Freed(Y).nodes = Len(Y) /\ Freed(Y).chars = CharsIn(Y) /\ Freed(Y).slots = Total(g)
  BY DEF Freed
<1> HIDE DEF g
<1>4. /\ SlotsList(Y) \in Seq(Nat) /\ Len(SlotsList(Y)) = Len(Y) /\ SlotsOf(Y) = Total(SlotsList(Y))
      /\ \A i \in 1 .. Len(Y) : SlotsList(Y)[i] = Y[i].slots
  BY SizeLists
<1>5. Total(g) \in Nat
  BY <1>2, TotalNat
<1>6. Total(g) <= Total(SlotsList(Y))
  <2>1. ASSUME NEW i \in 1 .. Len(Y) PROVE g[i] <= SlotsList(Y)[i]
    <3>1. Y[i].slots \in Nat /\ g[i] = (IF HasChildren(Y, i) THEN Y[i].slots ELSE 0)
      BY <1>1, <1>2
    <3>2. SlotsList(Y)[i] = Y[i].slots
      BY <1>4
    <3> QED BY <3>1, <3>2
  <2>2. Len(g) = Len(SlotsList(Y)) /\ \A i \in 1 .. Len(g) : g[i] <= SlotsList(Y)[i]
    BY <1>2, <1>4, <2>1
  <2> QED BY <1>2, <1>4, <2>2, TotalAtMost
<1>7. ASSUME Exact(Y) PROVE g = SlotsList(Y)
  <2>1. \A i \in 1 .. Len(Y) : g[i] = SlotsList(Y)[i]
    BY <1>2, <1>4, <1>7 DEF Exact
  <2> QED BY <1>2, <1>4, <2>1, SeqEqual
<1> QED BY <1>3, <1>4, <1>5, <1>6, <1>7

-----------------------------------------------------------------------------
(* Lists of children only where there are children.                        *)

(* When only nodes with children have a list in two lists of lines, the    *)
(* same holds of both joined, unless the second makes the last node of the *)
(* first a parent.                                                         *)
LEMMA ExactConcat ==
  ASSUME NEW Y \in Seq(Lines), NEW Z \in Seq(Lines), Exact(Y), Exact(Z),
         Y # <<>> /\ Z # <<>> => Z[1].depth <= Y[Len(Y)].depth
  PROVE  Exact(Y \o Z)
<1> DEFINE t == Y \o Z
           m == Len(Y)
           n == Len(Z)
<1>1. /\ m \in Nat /\ n \in Nat
      /\ \A k \in 1 .. m : Y[k].depth \in Nat
      /\ \A k \in 1 .. n : Z[k].depth \in Nat
  BY LinesOf
<1>2. /\ Len(t) = m + n
      /\ \A k \in 1 .. m : t[k] = Y[k]
      /\ \A k \in (m + 1) .. (m + n) : k - m \in 1 .. n /\ t[k] = Z[k - m]
  BY JoinedLines
<1>3. /\ \A i \in 1 .. m : i < m => i + 1 \in 1 .. m
      /\ \A i \in (m + 1) .. (m + n) : i < m + n => i + 1 \in (m + 1) .. (m + n) /\ (i + 1) - m = (i - m) + 1
      /\ n > 0 => m + 1 \in (m + 1) .. (m + n) /\ (m + 1) - m = 1
  BY <1>1
<1>4. /\ m > 0 /\ n > 0 => Z[1].depth <= Y[m].depth
  BY <1>1
<1> HIDE DEF t, m, n
<1>5. ASSUME NEW i \in 1 .. Len(t), ~HasChildren(t, i) PROVE t[i].slots = 0
  <2>1. CASE i \in 1 .. m
    <3>1. CASE i < m
      <4>1. ~HasChildren(Y, i)
        BY <1>1, <1>2, <1>3, <1>5, <2>1, <3>1 DEF HasChildren, m
      <4> QED BY <1>2, <2>1, <4>1 DEF Exact, m
    <3>2. CASE ~(i < m)
      <4>1. ~HasChildren(Y, i)
        BY <3>2 DEF HasChildren, m
      <4> QED BY <1>2, <2>1, <4>1 DEF Exact, m
    <3> QED BY <3>1, <3>2
  <2>2. CASE i \in (m + 1) .. (m + n)
    <3>1. ~HasChildren(Z, i - m)
      <4>1. SUFFICES ASSUME i - m < n, Z[(i - m) + 1].depth > Z[i - m].depth PROVE FALSE
        BY DEF HasChildren, n
      <4>2. i < m + n
        BY <1>1, <2>2, <4>1
      <4>3. t[i + 1] = Z[(i - m) + 1] /\ t[i] = Z[i - m]
        BY <1>2, <1>3, <2>2, <4>2
      <4> QED BY <1>2, <1>5, <4>1, <4>2, <4>3 DEF HasChildren
    <3>2. i - m \in 1 .. n /\ t[i] = Z[i - m]
      BY <1>2, <2>2
    <3> QED BY <3>1, <3>2 DEF Exact, n
  <2>3. i \in 1 .. m \/ i \in (m + 1) .. (m + n)
    BY <1>1, <1>2
  <2> QED BY <2>1, <2>2, <2>3
<1> QED BY <1>5 DEF Exact, t

(* Moving lines deeper gives and takes no list.                            *)
LEMMA ExactDeeper ==
  ASSUME NEW Y \in Seq(Lines), NEW m \in Nat, Exact(Y)
  PROVE  Exact(Deeper(Y, m))
<1> DEFINE Z == Deeper(Y, m)
<1>1. /\ Len(Z) = Len(Y) /\ Len(Y) \in Nat
      /\ \A k \in 1 .. Len(Y) : Z[k].slots = Y[k].slots /\ Z[k].depth = Y[k].depth + m /\ Y[k].depth \in Nat
  <2>1. 0 \in Int
    OBVIOUS
  <2> QED BY <2>1, CountDeeper, LinesOf
<1> HIDE DEF Z
<1>2. ASSUME NEW i \in 1 .. Len(Y), ~HasChildren(Z, i) PROVE ~HasChildren(Y, i)
  <2>1. SUFFICES ASSUME i < Len(Y), Y[i + 1].depth > Y[i].depth PROVE FALSE
    BY DEF HasChildren
  <2>2. i + 1 \in 1 .. Len(Y)
    BY <1>1, <2>1
  <2>3. Z[i + 1].depth > Z[i].depth
    <3>1. Z[i].depth = Y[i].depth + m /\ Y[i].depth \in Nat
      BY <1>1
    <3>2. Z[i + 1].depth = Y[i + 1].depth + m /\ Y[i + 1].depth \in Nat
      BY <1>1, <2>2
    <3> QED BY ONLY m \in Nat, <2>1, <3>1, <3>2
  <2> QED BY <1>1, <1>2, <2>1, <2>3 DEF HasChildren
<1> QED BY <1>1, <1>2 DEF Exact, Z

(* The same of all lines but the root.                                     *)
Trim(t) == \A i \in 2 .. Len(t) : ~HasChildren(t, i) => t[i].slots = 0

(* A root before lines whose childless nodes have no list.                 *)
LEMMA TrimTree ==
  ASSUME NEW x \in Lines, NEW F \in Seq(Lines), Exact(F)
  PROVE  /\ Trim(<<x>> \o F)
         /\ F = <<>> /\ x.slots = 0 => Exact(<<x>> \o F)
         /\ Forest(F, 1) /\ F # <<>> /\ x.depth = 0 => Exact(<<x>> \o F)
<1> DEFINE t == <<x>> \o F
           n == Len(F)
<1>1. /\ n \in Nat /\ Len(t) = 1 + n /\ t[1] = x
      /\ \A k \in 1 .. n : t[1 + k] = F[k]
  <2>1. <<x>> \in Seq(Lines) /\ Len(<<x>>) = 1 /\ <<x>>[1] = x /\ 1 \in 1 .. 1
    OBVIOUS
  <2> QED BY <2>1, JoinedAt, LinesOf
<1>2. F = <<>> => n = 0
  OBVIOUS
<1>3. F # <<>> => n > 0
  BY <1>1
<1>4. Forest(F, 1) /\ F # <<>> => F[1].depth = 1
  BY DEF Forest
<1> HIDE DEF t, n
<1>5. ASSUME NEW i \in 2 .. Len(t), ~HasChildren(t, i) PROVE t[i].slots = 0
  <2>1. i - 1 \in 1 .. n /\ t[i] = F[i - 1] /\ i = 1 + (i - 1)
    BY <1>1
  <2>2. ~HasChildren(F, i - 1)
    <3>1. SUFFICES ASSUME i - 1 < n, F[(i - 1) + 1].depth > F[i - 1].depth PROVE FALSE
      BY DEF HasChildren, n
    <3>2. (i - 1) + 1 \in 1 .. n /\ 1 + ((i - 1) + 1) = i + 1 /\ i < Len(t)
      BY <1>1, <3>1
    <3>3. t[i + 1] = F[(i - 1) + 1]
      BY <1>1, <3>2
    <3> QED BY <1>5, <2>1, <3>1, <3>2, <3>3 DEF HasChildren
  <2> QED BY <2>1, <2>2 DEF Exact, n
<1>6. Trim(t)
  BY <1>5 DEF Trim
<1>7. ASSUME ~HasChildren(t, 1) => x.slots = 0 PROVE Exact(t)
  <2>1. ASSUME NEW i \in 1 .. Len(t), ~HasChildren(t, i) PROVE t[i].slots = 0
    <3>1. i = 1 \/ i \in 2 .. Len(t)
      BY <1>1
    <3> QED BY <1>1, <1>5, <1>7, <2>1, <3>1
  <2> QED BY <2>1 DEF Exact
<1>8. ASSUME Forest(F, 1), F # <<>>, x.depth = 0 PROVE HasChildren(t, 1)
  <2>1. 1 \in 1 .. n /\ 1 < Len(t) /\ 1 + 1 = 2
    BY <1>1, <1>3, <1>8
  <2>2. t[2] = F[1]
    BY <1>1, <2>1
  <2>3. t[2].depth = 1 /\ t[1].depth = 0
    BY <1>1, <1>4, <1>8, <2>2
  <2> QED BY <2>1, <2>3 DEF HasChildren
<1> QED BY <1>6, <1>7, <1>8 DEF t

(* The lines after the root of such a tree.                                *)
LEMMA ExactAfter ==
  ASSUME NEW t, IsTree(t), Trim(t)
  PROVE  Exact(After(t, 1))
<1> DEFINE F == After(t, 1)
<1>1. /\ Len(F) = Len(t) - 1 /\ Len(t) \in Nat /\ Len(t) >= 1
      /\ \A k \in 1 .. (Len(t) - 1) : F[k] = t[1 + k]
  BY ForestOfTree, TreeLines
<1> HIDE DEF F
<1>2. ASSUME NEW i \in 1 .. Len(F), ~HasChildren(F, i) PROVE F[i].slots = 0
  <2>1. 1 + i \in 2 .. Len(t) /\ F[i] = t[1 + i]
    BY <1>1
  <2>2. ~HasChildren(t, 1 + i)
    <3>1. SUFFICES ASSUME 1 + i < Len(t), t[(1 + i) + 1].depth > t[1 + i].depth PROVE FALSE
      BY DEF HasChildren
    <3>2. i + 1 \in 1 .. (Len(t) - 1) /\ 1 + (i + 1) = (1 + i) + 1 /\ i < Len(F)
      BY <1>1, <3>1
    <3>3. F[i + 1] = t[(1 + i) + 1]
      BY <1>1, <3>2
    <3> QED BY <1>2, <2>1, <3>1, <3>2, <3>3 DEF HasChildren
  <2> QED BY <2>1, <2>2 DEF Trim
<1> QED BY <1>2 DEF Exact, F

(* What is cut from a tree.                                                *)
LEMMA ExactCut ==
  ASSUME NEW t, IsTree(t), Trim(t), NEW p, Holds(t, p), NEW a, NEW b, Cut(t, p, a), Cut(t, p, b), a <= b
  PROVE  Exact(SubSeq(t, a, b - 1))
<1> DEFINE R == SubSeq(t, a, b - 1)
           d == t[p].depth
<1>1. /\ Len(R) = b - a
      /\ \A k \in 1 .. (b - a) : R[k] = t[(a - 1) + k]
      /\ \A k \in 1 .. (b - a) : R[k].depth >= d + 1
  BY CutForest DEF CutIs, Forest
<1>2. /\ p \in 1 .. Len(t) /\ Len(t) \in Nat /\ d \in Nat
      /\ a \in (p + 1) .. (Len(t) + 1) /\ b \in (p + 1) .. (Len(t) + 1)
      /\ b <= Len(t) => t[b].depth <= d + 1
      /\ \A i \in 1 .. Len(t) : t[i].depth \in Nat
  BY TreeLines DEF Holds, Cut
<1> HIDE DEF R, d
<1>3. ASSUME NEW i \in 1 .. Len(R), ~HasChildren(R, i) PROVE R[i].slots = 0
  <2>1. /\ i \in 1 .. (b - a) /\ R[i] = t[(a - 1) + i]
        /\ (a - 1) + i \in 2 .. Len(t)
    BY <1>1, <1>2
  <2>2. ~HasChildren(t, (a - 1) + i)
    <3>1. SUFFICES ASSUME (a - 1) + i < Len(t), t[((a - 1) + i) + 1].depth > t[(a - 1) + i].depth PROVE FALSE
      BY DEF HasChildren
    <3>2. CASE i < b - a
      <4>1. i + 1 \in 1 .. (b - a) /\ ((a - 1) + i) + 1 = (a - 1) + (i + 1) /\ i < Len(R)
        BY <1>1, <1>2, <3>2
      <4>2. R[i + 1] = t[((a - 1) + i) + 1]
        BY <1>1, <4>1
      <4> QED BY <1>3, <2>1, <3>1, <4>1, <4>2 DEF HasChildren
    <3>3. CASE i = b - a
      <4>1. ((a - 1) + i) + 1 = b /\ b <= Len(t)
        BY <1>2, <3>1, <3>3
      <4>2. t[b].depth <= d + 1 /\ R[i].depth >= d + 1
        BY <1>1, <1>2, <2>1, <4>1
      <4>3. (a - 1) + i \in 1 .. Len(t)
        BY <2>1
      <4>4. t[(a - 1) + i].depth \in Nat /\ t[b].depth \in Nat
        BY <1>2, <4>1, <4>3
      <4>5. t[b].depth > t[(a - 1) + i].depth
        BY <3>1, <4>1
      <4>6. d \in Nat /\ t[(a - 1) + i].depth = R[i].depth
        BY <1>2, <2>1
      <4> QED BY ONLY <4>2, <4>4, <4>5, <4>6
    <3> QED BY <1>2, <2>1, <3>2, <3>3
  <2> QED BY <2>1, <2>2 DEF Trim
<1> QED BY <1>3 DEF Exact, R

-----------------------------------------------------------------------------
(* A line that is changed.                                                 *)

LineReplaced(t, p, x, u) ==
  /\ u \in Seq(Lines) /\ Len(u) = Len(t)
  /\ u[p] = x
  /\ \A k \in 1 .. Len(t) : k # p => u[k] = t[k]
  /\ SlotsOf(u) + t[p].slots = SlotsOf(t) + x.slots
  /\ CharsIn(u) + CharsOf(t[p].word) = CharsIn(t) + CharsOf(x.word)

ThreeSizes(A, X, B) ==
  /\ A \o (X \o B) \in Seq(Lines)
  /\ SlotsOf(A \o (X \o B)) = SlotsOf(A) + (SlotsOf(X) + SlotsOf(B))
  /\ CharsIn(A \o (X \o B)) = CharsIn(A) + (CharsIn(X) + CharsIn(B))
  /\ SlotsOf(A) \in Nat /\ SlotsOf(X) \in Nat /\ SlotsOf(B) \in Nat
  /\ CharsIn(A) \in Nat /\ CharsIn(X) \in Nat /\ CharsIn(B) \in Nat

(* The sizes of three lists joined.                                        *)
LEMMA SizesThree ==
  ASSUME NEW A \in Seq(Lines), NEW X \in Seq(Lines), NEW B \in Seq(Lines)
  PROVE  ThreeSizes(A, X, B)
<1> DEFINE Z == X \o B
<1>1. /\ Z \in Seq(Lines) /\ SlotsOf(Z) = SlotsOf(X) + SlotsOf(B) /\ CharsIn(Z) = CharsIn(X) + CharsIn(B)
      /\ SlotsOf(X) \in Nat /\ SlotsOf(B) \in Nat
      /\ CharsIn(X) \in Nat /\ CharsIn(B) \in Nat
  BY JoinedLines, SizesConcat
<1> HIDE DEF Z
<1>2. /\ A \o Z \in Seq(Lines)
      /\ SlotsOf(A \o Z) = SlotsOf(A) + SlotsOf(Z) /\ CharsIn(A \o Z) = CharsIn(A) + CharsIn(Z)
      /\ SlotsOf(A) \in Nat /\ CharsIn(A) \in Nat
  BY <1>1, JoinedLines, SizesConcat
<1> QED BY <1>1, <1>2 DEF Z, ThreeSizes

ThreeJoined(A, X, B, m, q, n) ==
  LET u == A \o (X \o B) IN
  /\ u \in Seq(Lines) /\ Len(u) = m + (q + n)
  /\ \A k \in 1 .. m : u[k] = A[k]
  /\ \A k \in (m + 1) .. (m + q) : k - m \in 1 .. q /\ u[k] = X[k - m]
  /\ \A k \in ((m + q) + 1) .. (m + (q + n)) : (k - m) - q \in 1 .. n /\ u[k] = B[(k - m) - q]

(* The lines of three lists joined.                                        *)
LEMMA JoinedThree ==
  ASSUME NEW A \in Seq(Lines), NEW X \in Seq(Lines), NEW B \in Seq(Lines),
         NEW m, NEW q, NEW n, Len(A) = m, Len(X) = q, Len(B) = n
  PROVE  ThreeJoined(A, X, B, m, q, n)
<1> DEFINE Z == X \o B
           l == q + n
<1>1. /\ Z \in Seq(Lines) /\ Len(Z) = l
      /\ \A k \in 1 .. q : Z[k] = X[k]
      /\ \A k \in (q + 1) .. (q + n) : k - q \in 1 .. n /\ Z[k] = B[k - q]
  <2>1. /\ Z \in Seq(Lines) /\ Len(Z) = Len(X) + Len(B)
        /\ \A k \in 1 .. Len(X) : Z[k] = X[k]
        /\ \A k \in (Len(X) + 1) .. (Len(X) + Len(B)) : k - Len(X) \in 1 .. Len(B) /\ Z[k] = B[k - Len(X)]
    BY JoinedLines
  <2> HIDE DEF Z
  <2> QED BY <2>1
<1>2. m \in Nat /\ q \in Nat /\ n \in Nat
  BY LinesOf
<1>3. l = q + n
  OBVIOUS
<1> HIDE DEF Z, l
<1> DEFINE u == A \o Z
<1>4. /\ u \in Seq(Lines) /\ Len(u) = m + l
      /\ \A k \in 1 .. m : u[k] = A[k]
      /\ \A k \in (m + 1) .. (m + l) : k - m \in 1 .. l /\ u[k] = Z[k - m]
  BY <1>1, JoinedAt
<1> HIDE DEF u
<1>5. ASSUME NEW k \in (m + 1) .. (m + q) PROVE k - m \in 1 .. q /\ u[k] = X[k - m]
  <2>1. k - m \in 1 .. q /\ k \in (m + 1) .. (m + l)
    BY <1>2, <1>3
  <2> QED BY <1>1, <1>4, <2>1
<1>6. ASSUME NEW k \in ((m + q) + 1) .. (m + (q + n)) PROVE (k - m) - q \in 1 .. n /\ u[k] = B[(k - m) - q]
  <2>1. k - m \in (q + 1) .. (q + n) /\ k \in (m + 1) .. (m + l)
    BY <1>2, <1>3
  <2> QED BY <1>1, <1>4, <2>1
<1> QED BY <1>3, <1>4, <1>5, <1>6 DEF u, Z, ThreeJoined

(* One line replaced: the other lines and their sizes stay.                *)
LEMMA ReplaceLine ==
  ASSUME NEW t \in Seq(Lines), NEW p \in 1 .. Len(t), NEW x \in Lines
  PROVE  LineReplaced(t, p, x, [t EXCEPT ![p] = x])
<1> DEFINE u == [t EXCEPT ![p] = x]
           A == SubSeq(t, 1, p - 1)
           B == SubSeq(t, p + 1, Len(t))
           R == SubSeq(t, p, (p + 1) - 1)
<1>1. Len(t) \in Nat /\ DOMAIN t = 1 .. Len(t) /\ t[p] \in Lines
  BY LinesOf
<1>2. u \in Seq(Lines) /\ Len(u) = Len(t) /\ u[p] = x /\ \A k \in 1 .. Len(t) : k # p => u[k] = t[k]
  BY <1>1
<1>3. p \in 1 .. (Len(t) + 1) /\ p + 1 \in p .. (Len(t) + 1)
  BY <1>1
<1>4. /\ A \in Seq(Lines) /\ Len(A) = p - 1 /\ \A k \in 1 .. (p - 1) : A[k] = t[k]
      /\ R \in Seq(Lines) /\ Len(R) = (p + 1) - p /\ \A k \in 1 .. ((p + 1) - p) : R[k] = t[(p - 1) + k]
      /\ B \in Seq(Lines) /\ Len(B) = Len(t) - ((p + 1) - 1)
      /\ \A k \in 1 .. (Len(t) - ((p + 1) - 1)) : B[k] = t[((p + 1) - 1) + k]
      /\ t = A \o (R \o B)
  BY <1>3, SplitAt
<1> HIDE DEF A, B, R, u
<1>5. R = <<t[p]>>
  <2>1. Len(R) = 1 /\ R[1] = t[p]
    <3>1. (p + 1) - p = 1 /\ 1 \in 1 .. ((p + 1) - p) /\ (p - 1) + 1 = p
      BY <1>3
    <3> QED BY <1>4, <3>1
  <2> QED BY <1>4, <2>1
<1> DEFINE X == <<x>>
           Y == <<t[p]>>
<1>6. /\ X \in Seq(Lines) /\ Len(X) = 1 /\ X[1] = x
      /\ Y \in Seq(Lines)
      /\ SlotsOf(X) = x.slots /\ CharsIn(X) = CharsOf(x.word)
      /\ SlotsOf(Y) = t[p].slots /\ CharsIn(Y) = CharsOf(t[p].word)
  BY <1>1, SizesSmall
<1>7. X \o B \in Seq(Lines) /\ Y \o B \in Seq(Lines)
  BY <1>4, <1>6, JoinedLines
<1> HIDE DEF X
<1>8. u = A \o (X \o B)
  <2> DEFINE v == A \o (X \o B)
             n == Len(t) - p
             m == p - 1
  <2>1. Len(A) = m /\ Len(B) = n /\ n \in Nat /\ m \in Nat /\ m = p - 1 /\ n = Len(t) - p
    BY <1>1, <1>3, <1>4
  <2> HIDE DEF m, n
  <2>2. /\ v \in Seq(Lines) /\ Len(v) = m + (1 + n)
        /\ \A k \in 1 .. m : v[k] = A[k]
        /\ \A k \in (m + 1) .. (m + 1) : k - m \in 1 .. 1 /\ v[k] = X[k - m]
        /\ \A k \in ((m + 1) + 1) .. (m + (1 + n)) : (k - m) - 1 \in 1 .. n /\ v[k] = B[(k - m) - 1]
    <3>1. ThreeJoined(A, X, B, m, 1, n)
      BY <1>4, <1>6, <2>1, JoinedThree, Zenon
    <3> QED BY ONLY <3>1 DEF v, ThreeJoined
  <2> HIDE DEF v
  <2>3. ASSUME NEW k \in 1 .. Len(t) PROVE v[k] = u[k]
    <3>1. CASE k < p
      <4>1. k \in 1 .. m /\ k # p /\ k \in 1 .. (p - 1)
        BY <1>3, <2>1, <3>1
      <4> QED BY <1>2, <1>4, <2>2, <4>1
    <3>2. CASE k = p
      <4>1. k \in (m + 1) .. (m + 1) /\ k - m = 1
        BY <1>3, <2>1, <3>2
      <4> QED BY <1>2, <1>6, <2>2, <3>2, <4>1
    <3>3. CASE k > p
      <4>1. /\ k \in ((m + 1) + 1) .. (m + (1 + n)) /\ k # p
            /\ (k - m) - 1 \in 1 .. (Len(t) - ((p + 1) - 1)) /\ ((p + 1) - 1) + ((k - m) - 1) = k
        BY <1>1, <1>3, <2>1, <3>3
      <4>2. v[k] = B[(k - m) - 1]
        BY <2>2, <4>1
      <4>3. B[(k - m) - 1] = t[k]
        BY <1>4, <4>1
      <4> QED BY <1>2, <4>1, <4>2, <4>3
    <3>4. k < p \/ k = p \/ k > p
      BY <1>3
    <3> QED BY <3>1, <3>2, <3>3, <3>4
  <2>4. Len(v) = Len(t)
    <3>1. Len(v) = m + (1 + n)
      BY <2>2
    <3> QED BY ONLY <1>1, <1>3, <2>1, <3>1
  <2>5. v = u
    BY <1>2, <2>2, <2>3, <2>4, SeqEqual
  <2> QED BY <2>5 DEF v
<1>9. /\ SlotsOf(u) = SlotsOf(A) + (x.slots + SlotsOf(B))
      /\ CharsIn(u) = CharsIn(A) + (CharsOf(x.word) + CharsIn(B))
  <2>1. ThreeSizes(A, X, B)
    BY <1>4, <1>6, SizesThree, Zenon
  <2> QED BY <1>6, <1>8, <2>1, Zenon DEF ThreeSizes
<1> HIDE DEF Y
<1>10. /\ SlotsOf(t) = SlotsOf(A) + (t[p].slots + SlotsOf(B))
       /\ CharsIn(t) = CharsIn(A) + (CharsOf(t[p].word) + CharsIn(B))
  <2>1. t = A \o (Y \o B)
    BY <1>4, <1>5 DEF Y
  <2>2. /\ SlotsOf(A \o (Y \o B)) = SlotsOf(A) + (SlotsOf(Y) + SlotsOf(B))
        /\ CharsIn(A \o (Y \o B)) = CharsIn(A) + (CharsIn(Y) + CharsIn(B))
    <3>1. ThreeSizes(A, Y, B)
      BY <1>4, <1>6, SizesThree, Zenon
    <3> QED BY <3>1 DEF ThreeSizes
  <2> QED BY <1>6, <2>1, <2>2, Zenon
<1>11. /\ SlotsOf(A) \in Nat /\ SlotsOf(B) \in Nat /\ CharsIn(A) \in Nat /\ CharsIn(B) \in Nat
       /\ x.slots \in Nat /\ t[p].slots \in Nat /\ CharsOf(x.word) \in Nat /\ CharsOf(t[p].word) \in Nat
  BY <1>1, <1>4, LineFields, CharsOfNat, SizeLists
<1>13. SlotsOf(u) + t[p].slots = SlotsOf(t) + x.slots
  <2> DEFINE a == SlotsOf(A)
             b == x.slots
             c == SlotsOf(B)
             d == t[p].slots
  <2>1. /\ a \in Nat /\ b \in Nat /\ c \in Nat /\ d \in Nat
        /\ SlotsOf(u) = a + (b + c) /\ SlotsOf(t) = a + (d + c)
    BY <1>9, <1>10, <1>11, Zenon
  <2>2. SlotsOf(u) + d = SlotsOf(t) + b
    <3> HIDE DEF a, b, c, d
    <3> QED BY ONLY <2>1
  <2> QED BY <2>2, Zenon
<1>14. CharsIn(u) + CharsOf(t[p].word) = CharsIn(t) + CharsOf(x.word)
  BY ONLY <1>9, <1>10, <1>11
<1> QED BY <1>2, <1>13, <1>14 DEF LineReplaced, u

(* Trees are told by the depths and braces of their lines.                 *)
Shaped(t, u) ==
  /\ u \in Seq(Lines) /\ Len(u) = Len(t)
  /\ \A k \in 1 .. Len(t) : u[k].depth = t[k].depth /\ u[k].braces = t[k].braces

(* A tree whose lines keep their depth and their braces keeps its parents  *)
(* and child counts.                                                       *)
LEMMA SameShape ==
  ASSUME NEW t, IsTree(t), NEW u, Shaped(t, u)
  PROVE  /\ IsTree(u)
         /\ \A p \in 1 .. Len(t) : ChildCount(u, p) = ChildCount(t, p)
         /\ \A p : Holds(u, p) <=> Holds(t, p)
         /\ \A i \in 1 .. Len(t) : HasChildren(u, i) <=> HasChildren(t, i)
<1>1. /\ t \in Seq(Lines) /\ Len(t) \in Nat /\ Len(t) >= 1 /\ t[1].depth = 0
      /\ \A i \in 2 .. Len(t) :
              /\ t[i].depth >= 1
              /\ t[i].depth <= t[i - 1].depth + (IF i = 2 \/ t[i - 1].braces THEN 1 ELSE 0)
      /\ 1 \in 1 .. Len(t)
  BY TreeLines
<1>2. /\ u \in Seq(Lines) /\ Len(u) = Len(t)
      /\ \A k \in 1 .. Len(t) : u[k].depth = t[k].depth
      /\ \A k \in 1 .. Len(t) : u[k].braces = t[k].braces
  BY DEF Shaped
<1>3. IsTree(u)
  <2>1. u # <<>> /\ u[1].depth = 0
    BY <1>1, <1>2
  <2>2. ASSUME NEW i \in 2 .. Len(u)
        PROVE  /\ u[i].depth >= 1
               /\ u[i].depth <= u[i - 1].depth + (IF i = 2 \/ u[i - 1].braces THEN 1 ELSE 0)
    <3>1. i \in 1 .. Len(t) /\ i - 1 \in 1 .. Len(t) /\ i \in 2 .. Len(t)
      BY <1>1, <1>2
    <3>2. u[i].depth = t[i].depth /\ u[i - 1].depth = t[i - 1].depth /\ u[i - 1].braces = t[i - 1].braces
      BY <1>2, <3>1
    <3> QED BY <1>1, <3>1, <3>2
  <2> QED BY <1>2, <2>1, <2>2 DEF IsTree
<1>4. ASSUME NEW p \in 1 .. Len(t) PROVE ChildLines(u, p) = ChildLines(t, p)
  <2>1. ASSUME NEW k \in (p + 1) .. Len(t) PROVE Below(u, p, k) <=> Below(t, p, k)
    <3>1. \A j \in (p + 1) .. k : j \in 1 .. Len(t)
      BY <1>1
    <3> QED BY <1>2, <3>1 DEF Below
  <2>2. \A k \in (p + 1) .. Len(t) : k \in 1 .. Len(t)
    BY <1>1
  <2>3. \A k \in (p + 1) .. Len(t) : u[k].depth = t[k].depth
    BY <1>2, <2>2
  <2>4. u[p].depth = t[p].depth
    BY <1>2
  <2> QED BY <1>2, <2>1, <2>3, <2>4 DEF ChildLines
<1>5. ASSUME NEW p PROVE Holds(u, p) <=> Holds(t, p)
  BY <1>2 DEF Holds
<1>6. ASSUME NEW i \in 1 .. Len(t) PROVE HasChildren(u, i) <=> HasChildren(t, i)
  <2>1. i < Len(t) => i + 1 \in 1 .. Len(t)
    BY <1>1
  <2> QED BY <1>2, <2>1 DEF HasChildren
<1> QED BY <1>3, <1>4, <1>5, <1>6 DEF ChildCount

-----------------------------------------------------------------------------
(* What is held after lines were put between two cuts.                     *)

PutSizesAre(t, a, b, L) ==
  LET R == SubSeq(t, a, b - 1)
      u == Put(t, a, b, L)
  IN  /\ R \in Seq(Lines) /\ u \in Seq(Lines)
      /\ Len(u) + Len(R) = Len(t) + Len(L)
      /\ SlotsOf(u) + SlotsOf(R) = SlotsOf(t) + SlotsOf(L)
      /\ CharsIn(u) + CharsIn(R) = CharsIn(t) + CharsIn(L)

(* Lines put between two cuts change the sizes by those of the lines put   *)
(* and removed.                                                            *)
LEMMA PutSizes ==
  ASSUME NEW t, IsTree(t), NEW p, Holds(t, p), NEW a, NEW b, Cut(t, p, a), Cut(t, p, b), a <= b,
         NEW L \in Seq(Lines)
  PROVE  PutSizesAre(t, a, b, L)
<1> DEFINE A == SubSeq(t, 1, a - 1)
           R == SubSeq(t, a, b - 1)
           B == SubSeq(t, b, Len(t))
           u == Put(t, a, b, L)
<1>1. PutIs(t, p, a, b, L)
  BY PutLines
<1>2. /\ A \in Seq(Lines) /\ R \in Seq(Lines) /\ B \in Seq(Lines)
      /\ Len(A) = a - 1 /\ Len(R) = b - a /\ Len(B) = Len(t) - (b - 1)
      /\ t = A \o (R \o B) /\ u = A \o (L \o B)
      /\ u \in Seq(Lines) /\ Len(u) = (a - 1) + (Len(L) + (Len(t) - (b - 1)))
      /\ a \in Nat /\ b \in Nat
  BY <1>1 DEF PutIs
<1> HIDE DEF A, R, B, u
<1>3. Len(t) \in Nat /\ Len(L) \in Nat /\ Len(R) \in Nat
  BY <1>2, TreeLines, LinesOf
<1>4. ThreeSizes(A, R, B) /\ ThreeSizes(A, L, B)
  BY <1>2, SizesThree, Zenon
<1>5. /\ SlotsOf(t) = SlotsOf(A) + (SlotsOf(R) + SlotsOf(B))
      /\ SlotsOf(u) = SlotsOf(A) + (SlotsOf(L) + SlotsOf(B))
      /\ CharsIn(t) = CharsIn(A) + (CharsIn(R) + CharsIn(B))
      /\ CharsIn(u) = CharsIn(A) + (CharsIn(L) + CharsIn(B))
      /\ SlotsOf(A) \in Nat /\ SlotsOf(R) \in Nat /\ SlotsOf(B) \in Nat /\ SlotsOf(L) \in Nat
      /\ CharsIn(A) \in Nat /\ CharsIn(R) \in Nat /\ CharsIn(B) \in Nat /\ CharsIn(L) \in Nat
  BY <1>2, <1>4, Zenon DEF ThreeSizes
<1>6. SlotsOf(u) + SlotsOf(R) = SlotsOf(t) + SlotsOf(L)
  BY ONLY <1>5
<1>7. CharsIn(u) + CharsIn(R) = CharsIn(t) + CharsIn(L)
  BY ONLY <1>5
<1>8. Len(u) + Len(R) = Len(t) + Len(L)
  BY ONLY <1>2, <1>3
<1> QED BY <1>2, <1>6, <1>7, <1>8 DEF R, u, PutSizesAre

(* Lines put among the root's children leave childless nodes without a     *)
(* list.                                                                   *)
LEMMA PutTrim ==
  ASSUME NEW t, IsTree(t), Trim(t), NEW a, NEW b, Cut(t, 1, a), Cut(t, 1, b), a <= b,
         NEW L, Forest(L, 1), Exact(L)
  PROVE  Trim(Put(t, a, b, L))
<1> DEFINE u == Put(t, a, b, L)
           m == a - 1
           l == Len(L)
           n == Len(t) - (b - 1)
<1>1. /\ L \in Seq(Lines) /\ l \in Nat
      /\ \A i \in 1 .. l : L[i].depth \in Nat /\ L[i].depth >= 1
      /\ l > 0 => L[1].depth = 1
  <2>1. 1 \in Int
    OBVIOUS
  <2> QED BY <2>1, ForestLines
<1>2. /\ Len(t) \in Nat /\ Len(t) >= 1 /\ t[1].depth = 0
      /\ \A i \in 1 .. Len(t) : t[i].depth \in Nat
      /\ \A i \in 2 .. Len(t) : t[i].depth >= 1
  BY TreeLines
<1>3. Holds(t, 1)
  BY <1>2 DEF Holds
<1>4. /\ a \in Nat /\ b \in Nat /\ a >= 2 /\ b >= a /\ b <= Len(t) + 1
      /\ a <= Len(t) => t[a].depth <= 1
      /\ b <= Len(t) => t[b].depth <= 1
  BY <1>2 DEF Cut
<1>5. /\ m \in Nat /\ n \in Nat /\ m >= 1 /\ m = a - 1 /\ n = Len(t) - (b - 1)
  BY <1>2, <1>4
<1>6. /\ Len(u) = m + (l + n)
      /\ \A k \in 1 .. m : u[k] = t[k]
      /\ \A k \in 1 .. l : u[m + k] = L[k]
      /\ \A k \in 1 .. n : u[(m + l) + k] = t[(b - 1) + k]
  <2>1. PutIs(t, 1, a, b, L)
    BY <1>1, <1>3, PutLines
  <2> QED BY ONLY <2>1 DEF PutIs
<1> HIDE DEF u, m, l, n
<1>11. m + (l + n) \in Nat /\ Len(u) \in Nat /\ (m + l) + n = m + (l + n)
  BY <1>1, <1>5, <1>6
<1>12. m \in Nat /\ l \in Nat /\ n \in Nat
  BY <1>1, <1>5
<1>13. ASSUME NEW k \in 1 .. l, k < l PROVE k + 1 \in 1 .. l /\ m + k < m + (l + n) /\ (m + k) + 1 = m + (k + 1)
  BY <1>12, <1>13
<1>14. ASSUME NEW i \in 2 .. (m + (l + n)), i > m + l
       PROVE  i - (m + l) \in 1 .. n /\ (m + l) + (i - (m + l)) = i
  BY <1>12, <1>14
<1>7. ASSUME NEW k \in 2 .. m, ~HasChildren(u, k) PROVE u[k].slots = 0
  <2>1. k \in 1 .. m /\ k \in 2 .. Len(t) /\ u[k] = t[k] /\ k \in 1 .. Len(t) /\ k < Len(u) + 1
    BY <1>1, <1>2, <1>4, <1>5, <1>6
  <2>2. ~HasChildren(t, k)
    <3>1. SUFFICES ASSUME k < Len(t), t[k + 1].depth > t[k].depth PROVE FALSE
      BY DEF HasChildren
    <3>2. CASE k < m
      <4>1. k + 1 \in 1 .. m /\ k < Len(u)
        BY <1>1, <1>5, <1>6, <3>2
      <4> QED BY <1>6, <1>7, <2>1, <3>1, <4>1 DEF HasChildren
    <3>3. CASE k = m
      <4>1. k + 1 = a /\ a <= Len(t) /\ k + 1 \in 1 .. Len(t)
        BY <1>2, <1>4, <1>5, <3>1, <3>3
      <4>2. t[k + 1].depth <= 1 /\ t[k].depth >= 1
        BY <1>2, <1>4, <2>1, <4>1
      <4> QED BY <1>2, <2>1, <3>1, <4>1, <4>2
    <3> QED BY <1>5, <3>2, <3>3
  <2> QED BY <2>1, <2>2 DEF Trim
<1>8. ASSUME NEW k \in 1 .. l, ~HasChildren(u, m + k) PROVE u[m + k].slots = 0
  <2>1. ~HasChildren(L, k)
    <3>1. SUFFICES ASSUME k < l, L[k + 1].depth > L[k].depth PROVE FALSE
      BY DEF HasChildren, l
    <3>2. k + 1 \in 1 .. l /\ m + k < m + (l + n) /\ (m + k) + 1 = m + (k + 1)
      BY <1>13, <3>1
    <3>3. u[(m + k) + 1] = L[k + 1]
      BY <1>6, <3>2
    <3> QED BY <1>6, <1>8, <3>1, <3>2, <3>3, <1>11 DEF HasChildren
  <2> QED BY <1>6, <2>1 DEF Exact, l
<1>9. ASSUME NEW k \in 1 .. n, ~HasChildren(u, (m + l) + k) PROVE u[(m + l) + k].slots = 0
  <2>1. (b - 1) + k \in 2 .. Len(t) /\ u[(m + l) + k] = t[(b - 1) + k]
    BY <1>2, <1>4, <1>5, <1>6
  <2>2. ~HasChildren(t, (b - 1) + k)
    <3>1. SUFFICES ASSUME (b - 1) + k < Len(t), t[((b - 1) + k) + 1].depth > t[(b - 1) + k].depth PROVE FALSE
      BY DEF HasChildren
    <3>2. /\ k + 1 \in 1 .. n /\ (m + l) + k < Len(u) /\ ((m + l) + k) + 1 = (m + l) + (k + 1)
          /\ ((b - 1) + k) + 1 = (b - 1) + (k + 1)
      BY <1>1, <1>2, <1>4, <1>5, <1>6, <3>1
    <3>3. u[((m + l) + k) + 1] = t[((b - 1) + k) + 1]
      BY <1>6, <3>2
    <3> QED BY <1>9, <2>1, <3>1, <3>2, <3>3 DEF HasChildren
  <2> QED BY <2>1, <2>2 DEF Trim
<1>10. ASSUME NEW i \in 2 .. Len(u), ~HasChildren(u, i) PROVE u[i].slots = 0
  <2>1. CASE i <= m
    BY <1>5, <1>7, <1>10, <2>1
  <2>2. CASE i > m /\ i <= m + l
    <3>1. i - m \in 1 .. l /\ m + (i - m) = i
      BY <1>1, <1>5, <2>2
    <3> QED BY <1>8, <1>10, <3>1
  <2>3. CASE i > m + l
    <3>0. i \in 2 .. (m + (l + n))
      BY <1>6
    <3>1. i - (m + l) \in 1 .. n /\ (m + l) + (i - (m + l)) = i
      BY <1>14, <2>3, <3>0
    <3> QED BY <1>9, <1>10, <3>1
  <2> QED BY <1>1, <1>5, <2>1, <2>2, <2>3
<1> QED BY <1>10 DEF Trim, u

-----------------------------------------------------------------------------
(* The cuts at the places of children.                                     *)

(* Between the lines of child i and child j there are j - i children.      *)
LEMMA CutsInOrder ==
  ASSUME NEW t \in Seq(Lines), NEW p \in 1 .. Len(t), NEW i \in 0 .. ChildCount(t, p),
         NEW j \in i .. ChildCount(t, p)
  PROVE  /\ Cut(t, p, ChildLine(t, p, i)) /\ Cut(t, p, ChildLine(t, p, j))
         /\ ChildLine(t, p, i) <= ChildLine(t, p, j)
         /\ Count(SubSeq(t, ChildLine(t, p, i), ChildLine(t, p, j) - 1), t[p].depth) = j - i
<1> DEFINE a == ChildLine(t, p, i)
           b == ChildLine(t, p, j)
           B(k) == Cardinality({c \in ChildLines(t, p) : c < k})
<1>1. ChildCount(t, p) \in Nat /\ Len(t) \in Nat /\ t[p].depth \in Nat /\ p \in Nat
      /\ IsFiniteSet(ChildLines(t, p)) /\ ChildLines(t, p) \subseteq (p + 1) .. Len(t)
  BY ChildCountIs, LinesOf
<1>2. j \in 0 .. ChildCount(t, p) /\ i <= j /\ i \in Nat /\ j \in Nat
  BY <1>1
<1>3. Cut(t, p, a) /\ B(a) = i
  BY ChildLineIs
<1>4. Cut(t, p, b) /\ B(b) = j
  BY <1>2, ChildLineIs
<1> HIDE DEF a, b
<1>5. a \in (p + 1) .. (Len(t) + 1) /\ b \in (p + 1) .. (Len(t) + 1) /\ a \in Nat /\ b \in Nat
  BY <1>1, <1>3, <1>4 DEF Cut
<1>6. a <= b
  <2>1. SUFFICES ASSUME b < a PROVE FALSE
    BY <1>5
  <2>2. {c \in ChildLines(t, p) : c < b} \subseteq {c \in ChildLines(t, p) : c < a}
    <3>1. \A c \in ChildLines(t, p) : c < b => c < a
      BY <1>1, <1>5, <2>1
    <3> QED BY <3>1
  <2>3. IsFiniteSet({c \in ChildLines(t, p) : c < a})
    BY <1>1, FS_Subset
  <2>4. B(b) <= B(a)
    BY <2>2, <2>3, FS_Subset
  <2>5. i = j
    BY <1>2, <1>3, <1>4, <2>4
  <2>6. a = b
    BY <2>5 DEF a, b
  <2> QED BY <1>5, <2>1, <2>6
<1>7. B(b) = B(a) + Count(SubSeq(t, a, b - 1), t[p].depth)
  <2>1. b \in a .. (Len(t) + 1) /\ Below(t, p, b - 1)
    BY <1>1, <1>4, <1>5, <1>6 DEF Cut
  <2> QED BY <1>5, <2>1, CountBetween
<1>8. Count(SubSeq(t, a, b - 1), t[p].depth) \in Nat
  <2>1. SubSeq(t, a, b - 1) \in Seq(Lines)
    BY <1>3, <1>4, <1>5, <1>6, <1>1, SplitAt
  <2>2. t[p].depth \in Int
    BY <1>1
  <2> QED BY <2>1, <2>2, StartsFinite
<1> QED BY <1>2, <1>3, <1>4, <1>6, <1>7, <1>8 DEF a, b

(* Spare slots are slots more.                                             *)
LEMMA OptimalAtLeast ==
  ASSUME NEW n \in Nat
  PROVE  /\ OptimalMaxChildCount(n) \in Nat /\ OptimalMaxChildCount(n) >= n
         /\ n = 0 => OptimalMaxChildCount(n) = 0
<1> DEFINE x == n \div SpareShare
           S == {x, SpareMax}
<1>1. x \in Nat /\ SpareMax \in Nat /\ LargeCount \in Nat
  <2>1. SpareShare \in Nat \ {0} /\ SpareMax \in Nat /\ LargeCount \in Nat
    BY ConstantsAssumption
  <2> QED BY <2>1
<1>2. \E y \in S : \A z \in S : y <= z
  <2> HIDE DEF x
  <2>1. CASE x <= SpareMax
    BY <1>1, <2>1
  <2>2. CASE SpareMax <= x
    BY <1>1, <2>2
  <2> QED BY <1>1, <2>1, <2>2
<1>3. Min(S) \in S
  BY <1>2 DEF Min
<1>4. Min(S) \in Nat
  BY <1>1, <1>3
<1> HIDE DEF S
<1>5. OptimalMaxChildCount(n) = IF n > LargeCount THEN n + Min(S) ELSE n
  BY DEF OptimalMaxChildCount, S, x
<1> QED BY <1>1, <1>4, <1>5

(* The list of children is reallocated large enough (EntityParser.cpp      *)
(* 231-234).                                                               *)
LEMMA NewSlotsAtLeast ==
  ASSUME NEW n \in Nat, NEW slots \in Nat
  PROVE  NewSlots(n, slots) \in Nat /\ NewSlots(n, slots) >= n
BY OptimalAtLeast DEF NewSlots

-----------------------------------------------------------------------------
(* Children that change places.                                            *)

Moved(t, p, u) ==
  /\ IsTree(u) /\ Len(u) = Len(t) /\ u[p] = t[p]
  /\ Fit(t) => Fit(u)
  /\ p = 1 /\ Trim(t) => Trim(u)
  /\ SlotsOf(u) = SlotsOf(t) /\ CharsIn(u) = CharsIn(t)

(* Two neighbouring runs of children swapped: the tree a position edit     *)
(* leaves (EntityParser.cpp 332-362).                                      *)
LEMMA Swapped ==
  ASSUME NEW t, IsTree(t), NEW p, Holds(t, p), NEW x, NEW y, NEW z,
         Cut(t, p, x), Cut(t, p, y), Cut(t, p, z), x <= y, y <= z
  PROVE  Moved(t, p, Put(t, x, z, SubSeq(t, y, z - 1) \o SubSeq(t, x, y - 1)))
<1> DEFINE d == t[p].depth
           F == SubSeq(t, x, y - 1)
           G == SubSeq(t, y, z - 1)
           R == SubSeq(t, x, z - 1)
           L == G \o F
           u == Put(t, x, z, L)
<1>1. /\ t \in Seq(Lines) /\ Len(t) \in Nat /\ p \in 1 .. Len(t) /\ d \in Nat
      /\ x \in (p + 1) .. (Len(t) + 1) /\ y \in (p + 1) .. (Len(t) + 1) /\ z \in (p + 1) .. (Len(t) + 1)
      /\ x \in Nat /\ y \in Nat /\ z \in Nat /\ x <= z /\ t[p].slots \in Nat
  BY TreeLines DEF Holds, Cut
<1>2. CutIs(t, p, x, y) /\ CutIs(t, p, y, z) /\ CutIs(t, p, x, z)
  BY <1>1, CutForest
<1>3. /\ Forest(F, d + 1) /\ Len(F) = y - x /\ \A k \in 1 .. (y - x) : F[k] = t[(x - 1) + k]
      /\ Fit(t) => Fit(F)
  BY <1>2 DEF CutIs
<1>4. /\ Forest(G, d + 1) /\ Len(G) = z - y /\ \A k \in 1 .. (z - y) : G[k] = t[(y - 1) + k]
      /\ Fit(t) => Fit(G)
  BY <1>2 DEF CutIs
<1>5. /\ Forest(R, d + 1) /\ Len(R) = z - x /\ \A k \in 1 .. (z - x) : R[k] = t[(x - 1) + k]
  BY <1>2 DEF CutIs
<1>6. Trim(t) => Exact(F) /\ Exact(G)
  BY <1>1, ExactCut
<1> HIDE DEF F, G, R, d
<1>7. d + 1 \in Nat /\ F \in Seq(Lines) /\ G \in Seq(Lines) /\ R \in Seq(Lines)
  BY <1>1, <1>3, <1>4, <1>5 DEF Forest
<1>8. R = F \o G
  <2> DEFINE m == y - x
             n == z - y
  <2>1. m \in Nat /\ n \in Nat /\ m = y - x /\ n = z - y /\ z - x = m + n
    BY <1>1
  <2>2. Len(F) = m /\ Len(G) = n /\ Len(R) = m + n
    BY <1>3, <1>4, <1>5, <2>1
  <2> HIDE DEF m, n
  <2>3. /\ F \o G \in Seq(Lines) /\ Len(F \o G) = m + n
        /\ \A k \in 1 .. m : (F \o G)[k] = F[k]
        /\ \A k \in (m + 1) .. (m + n) : k - m \in 1 .. n /\ (F \o G)[k] = G[k - m]
    BY <1>7, <2>2, JoinedAt
  <2>4. ASSUME NEW k \in 1 .. (m + n) PROVE R[k] = (F \o G)[k]
    <3>1. k \in 1 .. (z - x) /\ R[k] = t[(x - 1) + k]
      BY <1>5, <2>1
    <3>2. CASE k <= m
      <4>1. k \in 1 .. m /\ k \in 1 .. (y - x)
        BY <2>1, <3>2
      <4> QED BY <1>3, <2>3, <3>1, <4>1
    <3>3. CASE k > m
      <4>1. k \in (m + 1) .. (m + n) /\ k - m \in 1 .. (z - y) /\ (y - 1) + (k - m) = (x - 1) + k
        BY <1>1, <2>1, <3>3
      <4> QED BY <1>4, <2>3, <3>1, <4>1
    <3>4. k <= m \/ k > m
      BY <2>1
    <3> QED BY <3>2, <3>3, <3>4
  <2> QED BY <1>7, <2>2, <2>3, <2>4, SeqEqual
<1>9. Forest(L, d + 1) /\ L \in Seq(Lines)
  <2>1. Forest(L, d + 1)
    BY <1>3, <1>4, <1>7, ForestConcat
  <2> QED BY <2>1 DEF Forest
<1>10. Fit(t) => Fit(L)
  BY <1>3, <1>4, <1>7, FitConcat
<1>11. Trim(t) => Exact(L)
  <2>1. /\ F # <<>> => F[1].depth = d + 1
        /\ \A i \in 1 .. Len(G) : G[i].depth >= d + 1
    BY <1>3, <1>4 DEF Forest
  <2>2. G # <<>> => Len(G) \in 1 .. Len(G)
    BY <1>7
  <2>3. G # <<>> /\ F # <<>> => F[1].depth <= G[Len(G)].depth
    BY <2>1, <2>2
  <2> QED BY <1>6, <1>7, <2>3, ExactConcat
<1>12. /\ Len(L) = Len(R) /\ SlotsOf(L) = SlotsOf(R) /\ CharsIn(L) = CharsIn(R)
       /\ Len(L) \in Nat
  <2>1. /\ Len(G \o F) = Len(G) + Len(F) /\ Len(F \o G) = Len(F) + Len(G)
        /\ Len(G) \in Nat /\ Len(F) \in Nat
    BY <1>7, JoinedLines, LinesOf
  <2>2. /\ SlotsOf(G \o F) = SlotsOf(G) + SlotsOf(F) /\ CharsIn(G \o F) = CharsIn(G) + CharsIn(F)
        /\ SlotsOf(F \o G) = SlotsOf(F) + SlotsOf(G) /\ CharsIn(F \o G) = CharsIn(F) + CharsIn(G)
        /\ SlotsOf(F) \in Nat /\ SlotsOf(G) \in Nat /\ CharsIn(F) \in Nat /\ CharsIn(G) \in Nat
    BY <1>7, SizesConcat
  <2> QED BY <1>8, <2>1, <2>2
<1>13. Count(L, d) = Count(R, d)
  <2>1. Inside(F, d) /\ Inside(G, d)
    <3>1. /\ \A k \in 1 .. Len(F) : F[k].depth \in Nat /\ F[k].depth >= d + 1
          /\ \A k \in 1 .. Len(G) : G[k].depth \in Nat /\ G[k].depth >= d + 1
      <4>1. d + 1 \in Int
        BY <1>1
      <4> QED BY <1>3, <1>4, <4>1, ForestLines
    <3>2. DOMAIN F = 1 .. Len(F) /\ DOMAIN G = 1 .. Len(G)
      BY <1>7
    <3>3. \A v \in Nat : v >= d + 1 => v > d
      BY <1>1
    <3> QED BY <3>1, <3>2, <3>3 DEF Inside
  <2>2. d \in Int
    BY <1>1
  <2>3. /\ Count(G \o F, d) = Count(G, d) + Count(F, d) /\ Count(F \o G, d) = Count(F, d) + Count(G, d)
        /\ Count(F, d) \in Nat /\ Count(G, d) \in Nat
    BY <1>7, <2>1, <2>2, CountConcat, StartsFinite
  <2> QED BY <1>8, <2>3
<1> HIDE DEF L
<1>21. Forest(L, t[p].depth + 1)
  BY <1>9 DEF d
<1>14. IsTree(u) /\ Holds(u, p) /\ u[p] = t[p]
  <2>1. PutTreeIs(t, p, u)
    BY <1>1, <1>21, PutTree
  <2> QED BY ONLY <2>1 DEF PutTreeIs
<1>15. /\ ChildCount(u, p) \in Nat /\ ChildCount(t, p) \in Nat
       /\ Count(R, d) \in Nat /\ Count(L, d) \in Nat
       /\ ChildCount(u, p) + Count(R, d) = ChildCount(t, p) + Count(L, d)
       /\ Fit(t) /\ Fit(L) => \A q \in 1 .. Len(u) : q # p => ChildCount(u, q) <= u[q].slots
  <2>1. PutCountsAre(t, p, x, z, L)
    BY <1>1, <1>21, PutCounts
  <2> QED BY ONLY <2>1 DEF PutCountsAre, d, R
<1>16. /\ u \in Seq(Lines)
       /\ Len(u) + Len(R) = Len(t) + Len(L)
       /\ SlotsOf(u) + SlotsOf(R) = SlotsOf(t) + SlotsOf(L)
       /\ CharsIn(u) + CharsIn(R) = CharsIn(t) + CharsIn(L)
  <2>1. PutSizesAre(t, x, z, L)
    BY <1>1, <1>9, PutSizes
  <2> QED BY ONLY <2>1 DEF PutSizesAre, R
<1>17. p = 1 /\ Trim(t) => Trim(u)
  <2>1. p = 1 => d + 1 = 1
    BY TreeLines DEF d
  <2> QED BY <1>1, <1>9, <1>11, <2>1, PutTrim
<1> HIDE DEF u
<1>18. ChildCount(u, p) = ChildCount(t, p)
  BY <1>13, <1>15
<1>19. Fit(t) => Fit(u)
  <2>1. SUFFICES ASSUME Fit(t), NEW q \in 1 .. Len(u) PROVE ChildCount(u, q) <= u[q].slots
    BY DEF Fit
  <2>2. CASE q = p
    <3>1. ChildCount(t, p) <= t[p].slots
      BY <1>1, <2>1 DEF Fit
    <3> QED BY <1>14, <1>18, <2>2, <3>1
  <2>3. CASE q # p
    BY <1>10, <1>15, <2>1, <2>3
  <2> QED BY <2>2, <2>3
<1>20. Len(u) = Len(t) /\ SlotsOf(u) = SlotsOf(t) /\ CharsIn(u) = CharsIn(t)
  <2>1. /\ Len(u) \in Nat /\ Len(R) \in Nat /\ SlotsOf(u) \in Nat /\ SlotsOf(R) \in Nat /\ SlotsOf(t) \in Nat
        /\ CharsIn(u) \in Nat /\ CharsIn(R) \in Nat /\ CharsIn(t) \in Nat /\ Len(t) \in Nat
    BY <1>1, <1>7, <1>16, SizeLists, LinesOf
  <2>2. Len(L) = Len(R) /\ SlotsOf(L) = SlotsOf(R) /\ CharsIn(L) = CharsIn(R)
    BY <1>12
  <2> QED BY ONLY <1>16, <2>1, <2>2
<1> QED BY <1>14, <1>17, <1>19, <1>20 DEF Moved, u, L, F, G

-----------------------------------------------------------------------------
(* The edits of a tree.                                                    *)

PositionEdited(t, p, i, j) ==
  IF i < j
    THEN Replaced(t, p, i, j - i + 1, Children(t, p, i + 1, j - i) \o Children(t, p, i, 1))
    ELSE Replaced(t, p, j, i - j + 1, Children(t, p, i, 1) \o Children(t, p, j, i - j))

(* A position edit moves one child over those between and changes nothing  *)
(* else.                                                                   *)
LEMMA PositionEditIs ==
  ASSUME NEW t, IsTree(t), NEW p, Holds(t, p),
         NEW i \in 0 .. (ChildCount(t, p) - 1), NEW j \in 0 .. (ChildCount(t, p) - 1), i # j
  PROVE  Moved(t, p, PositionEdited(t, p, i, j))
<1>1. t \in Seq(Lines) /\ p \in 1 .. Len(t)
  BY TreeLines DEF Holds
<1>2. ChildCount(t, p) \in Nat
  BY <1>1, ChildCountIs
<1> DEFINE n == ChildCount(t, p)
           C(k) == ChildLine(t, p, k)
<1>3. ASSUME NEW k \in 0 .. n, NEW l \in k .. n
      PROVE  Cut(t, p, C(k)) /\ Cut(t, p, C(l)) /\ C(k) <= C(l)
  BY <1>1, <1>3, CutsInOrder
<1>4. ASSUME NEW k \in 0 .. (n - 1), NEW l \in (k + 1) .. n, NEW m \in l .. n
      PROVE  Moved(t, p, Put(t, C(k), C(m), SubSeq(t, C(l), C(m) - 1) \o SubSeq(t, C(k), C(l) - 1)))
  <2>1. k \in 0 .. n /\ l \in 0 .. n /\ l \in k .. n
    BY <1>2
  <2>2. Cut(t, p, C(k)) /\ Cut(t, p, C(l)) /\ Cut(t, p, C(m)) /\ C(k) <= C(l) /\ C(l) <= C(m)
    BY <1>3, <2>1
  <2> QED BY <2>2, Swapped
<1> HIDE DEF n
<1>5. n \in Nat /\ i \in 0 .. (n - 1) /\ j \in 0 .. (n - 1)
  BY <1>2 DEF n
<1>6. CASE i < j
  <2>1. i + 1 \in (i + 1) .. n /\ j + 1 \in (i + 1) .. n
    BY <1>5, <1>6
  <2>2. i + (j - i + 1) = j + 1 /\ (i + 1) + (j - i) = j + 1
    BY <1>5
  <2>3. PositionEdited(t, p, i, j)
          = Put(t, C(i), C(j + 1), SubSeq(t, C(i + 1), C(j + 1) - 1) \o SubSeq(t, C(i), C(i + 1) - 1))
    BY <1>6, <2>2 DEF PositionEdited, Replaced, Children, Put
  <2> QED BY <1>4, <1>5, <2>1, <2>3
<1>7. CASE ~(i < j)
  <2>1. i \in (j + 1) .. n /\ i + 1 \in i .. n
    BY <1>5, <1>7
  <2>2. j + (i - j + 1) = i + 1 /\ j + (i - j) = i
    BY <1>5
  <2>3. PositionEdited(t, p, i, j)
          = Put(t, C(j), C(i + 1), SubSeq(t, C(i), C(i + 1) - 1) \o SubSeq(t, C(j), C(i) - 1))
    BY <1>7, <2>2 DEF PositionEdited, Replaced, Children, Put
  <2> QED BY <1>4, <1>5, <2>1, <2>3
<1> QED BY <1>6, <1>7

SlotsAfter(t, p, n, g) == NewSlots(ChildCount(t, p) + ChildCount(g, 1) - n, t[p].slots)

TreeEdited(t, p, i, n, g) ==
  [Replaced(t, p, i, n, Deeper(Tail(g), t[p].depth)) EXCEPT ![p].slots = SlotsAfter(t, p, n, g)]

TreeEditIs(t, p, i, n, g) ==
  LET v == TreeEdited(t, p, i, n, g)
      R == Children(t, p, i, n)
  IN  /\ IsTree(v) /\ Fit(v)
      /\ p = 1 /\ Trim(t) => Trim(v)
      /\ Forest(R, t[p].depth + 1)
      /\ Trim(t) => Exact(R)
      /\ ChildCount(g, 1) \in Nat
      /\ SlotsAfter(t, p, n, g) \in Nat
      /\ Len(v) + Len(R) + 1 = Len(t) + Len(g)
      /\ SlotsOf(v) + SlotsOf(R) + t[p].slots + g[1].slots = SlotsOf(t) + SlotsOf(g) + SlotsAfter(t, p, n, g)
      /\ CharsIn(v) + CharsIn(R) + CharsOf(g[1].word) = CharsIn(t) + CharsIn(g)

(* A tree edit puts the parsed nodes in the place of n children from child *)
(* i on (EditTree, EntityParser.cpp 201-268).                              *)
LEMMA TreeEdit ==
  ASSUME NEW t, IsTree(t), Fit(t), NEW p, Holds(t, p),
         NEW i \in Nat, NEW n \in Nat, i + n <= ChildCount(t, p),
         NEW g, IsTree(g), Fit(g), Exact(g)
  PROVE  TreeEditIs(t, p, i, n, g)
<1> DEFINE d == t[p].depth
           a == ChildLine(t, p, i)
           b == ChildLine(t, p, i + n)
           F == After(g, 1)
           L == Deeper(F, d)
           R == SubSeq(t, a, b - 1)
           u == Put(t, a, b, L)
           s == SlotsAfter(t, p, n, g)
           x == [u[p] EXCEPT !.slots = s]
           v == [u EXCEPT ![p] = x]
<1>1. /\ t \in Seq(Lines) /\ p \in 1 .. Len(t) /\ t[p] \in Lines /\ d \in Nat /\ t[p].slots \in Nat
      /\ g \in Seq(Lines) /\ 1 \in 1 .. Len(g)
  BY TreeLines DEF Holds
<1>2. ChildCount(t, p) \in Nat /\ ChildCount(g, 1) \in Nat
  BY <1>1, ChildCountIs
<1>3. Cut(t, p, a) /\ Cut(t, p, b) /\ a <= b /\ Count(R, d) = n
  <2>1. i \in 0 .. ChildCount(t, p) /\ i + n \in i .. ChildCount(t, p) /\ (i + n) - i = n
    BY <1>2
  <2> QED BY <1>1, <2>1, CutsInOrder
<1>4. /\ Forest(F, 1) /\ g[1] \in Lines /\ g[1].depth = 0 /\ g = <<g[1]>> \o F /\ Tail(g) = F
      /\ Len(F) = Len(g) - 1
      /\ \A k \in 1 .. (Len(g) - 1) : F[k] = g[1 + k]
  BY ForestOfTree
<1>5. F \in Seq(Lines) /\ Count(F, 0) = ChildCount(g, 1)
  BY <1>1, <1>4, ChildCountIs DEF Forest
<1>6. Exact(F)
  <2>1. Trim(g)
    <3>1. \A k \in 2 .. Len(g) : k \in 1 .. Len(g)
      BY <1>1
    <3> QED BY <3>1 DEF Exact, Trim
  <2> QED BY <2>1, ExactAfter
<1>7. Fit(F)
  <2>1. SUFFICES ASSUME NEW q \in 1 .. Len(F) PROVE ChildCount(F, q) <= F[q].slots
    BY DEF Fit
  <2>2. 1 + q \in 1 .. Len(g) /\ F[q] = g[1 + q] /\ q \in 1 .. (Len(g) - 1)
    BY <1>1, <1>4
  <2>3. ChildCount(g, 1 + q) = Count(After(g, 1 + q), g[1 + q].depth)
    BY <1>1, <2>2, ChildCountIs
  <2>4. ChildCount(F, q) = Count(After(F, q), F[q].depth)
    BY <1>5, ChildCountIs
  <2>5. After(g, 1 + q) = After(F, q)
    <3>1. <<g[1]>> \in Seq(Lines) /\ Len(<<g[1]>>) = 1
      BY <1>4
    <3>2. After(<<g[1]>> \o F, 1 + q) = After(F, q)
      BY <1>5, <3>1, AfterConcat
    <3> QED BY <1>4, <3>2
  <2>6. ChildCount(g, 1 + q) <= g[1 + q].slots
    BY <2>2 DEF Fit
  <2> QED BY <2>2, <2>3, <2>4, <2>5, <2>6
<1>8. /\ Forest(L, d + 1) /\ Fit(L) /\ Exact(L) /\ Count(L, d) = ChildCount(g, 1)
      /\ L \in Seq(Lines) /\ Len(L) = Len(F)
      /\ SlotsOf(L) = SlotsOf(F) /\ CharsIn(L) = CharsIn(F)
  <2>1. Forest(L, 1 + d)
    BY <1>1, <1>4, ForestDeeper
  <2>2. Fit(L) /\ Exact(L)
    BY <1>1, <1>5, <1>6, <1>7, FitDeeper, ExactDeeper
  <2>3. Count(L, 0 + d) = Count(F, 0) /\ L \in Seq(Lines) /\ Len(L) = Len(F)
    <3>1. 0 \in Int
      OBVIOUS
    <3>2. F \in Seq(Lines) /\ d \in Nat
      BY <1>1, <1>5
    <3> QED BY ONLY <3>1, <3>2, CountDeeper DEF L
  <2>4. 1 + d = d + 1 /\ 0 + d = d
    BY <1>1
  <2>5. SlotsOf(L) = SlotsOf(F) /\ CharsIn(L) = CharsIn(F)
    BY <1>1, <1>5, SizesDeeper
  <2> QED BY <1>5, <2>1, <2>2, <2>3, <2>4, <2>5
<1>9. SlotsOf(g) = g[1].slots + SlotsOf(F) /\ CharsIn(g) = CharsOf(g[1].word) + CharsIn(F)
  <2>1. <<g[1]>> \in Seq(Lines) /\ SlotsOf(<<g[1]>>) = g[1].slots /\ CharsIn(<<g[1]>>) = CharsOf(g[1].word)
    BY <1>4, SizesSmall
  <2>2. /\ SlotsOf(<<g[1]>> \o F) = SlotsOf(<<g[1]>>) + SlotsOf(F)
        /\ CharsIn(<<g[1]>> \o F) = CharsIn(<<g[1]>>) + CharsIn(F)
    BY <1>5, <2>1, SizesConcat
  <2> QED BY <1>4, <2>1, <2>2
<1>10. TreeEdited(t, p, i, n, g) = v /\ Children(t, p, i, n) = R
  BY <1>4 DEF TreeEdited, Replaced, Put, Children
<1> HIDE DEF a, b, F, L, R, u
<1>11. CutIs(t, p, a, b)
  BY <1>3, CutForest
<1>12. Forest(R, d + 1)
  BY <1>11 DEF CutIs, R
<1>13. Trim(t) => Exact(R)
  BY <1>3, ExactCut DEF R
<1>14. Forest(L, t[p].depth + 1)
  BY <1>8
<1>15. IsTree(u) /\ Holds(u, p) /\ u[p] = t[p]
  <2>1. PutTreeIs(t, p, u)
    BY <1>3, <1>14, PutTree DEF u
  <2> QED BY ONLY <2>1 DEF PutTreeIs
<1>16. /\ ChildCount(u, p) \in Nat
       /\ Count(R, d) \in Nat /\ Count(L, d) \in Nat
       /\ ChildCount(u, p) + Count(R, d) = ChildCount(t, p) + Count(L, d)
       /\ Fit(t) /\ Fit(L) => \A q \in 1 .. Len(u) : q # p => ChildCount(u, q) <= u[q].slots
  <2>1. PutCountsAre(t, p, a, b, L)
    BY <1>3, <1>14, PutCounts
  <2> QED BY ONLY <2>1 DEF PutCountsAre, u, R
<1>17. /\ R \in Seq(Lines) /\ u \in Seq(Lines)
       /\ Len(u) + Len(R) = Len(t) + Len(L)
       /\ SlotsOf(u) + SlotsOf(R) = SlotsOf(t) + SlotsOf(L)
       /\ CharsIn(u) + CharsIn(R) = CharsIn(t) + CharsIn(L)
  <2>1. PutSizesAre(t, a, b, L)
    BY <1>3, <1>8, PutSizes
  <2> QED BY ONLY <2>1 DEF PutSizesAre, u, R
<1>18. p = 1 /\ Trim(t) => Trim(u)
  <2>1. p = 1 => d + 1 = 1
    BY TreeLines
  <2> QED BY <1>3, <1>8, <2>1, PutTrim DEF u
<1>19. ChildCount(u, p) = ChildCount(t, p) + ChildCount(g, 1) - n
  BY <1>2, <1>3, <1>8, <1>16
<1>20. s \in Nat /\ s >= ChildCount(u, p)
  BY <1>1, <1>16, <1>19, NewSlotsAtLeast DEF SlotsAfter
<1> HIDE DEF s
<1>21. /\ x \in Lines /\ x.slots = s /\ x.depth = u[p].depth /\ x.braces = u[p].braces /\ x.word = u[p].word
  BY <1>1, <1>15, <1>20, ChangedLine
<1> HIDE DEF x
<1>22. p \in 1 .. Len(u)
  BY <1>15 DEF Holds
<1>23. LineReplaced(u, p, x, v)
  BY <1>17, <1>21, <1>22, ReplaceLine
<1> HIDE DEF v
<1>24. /\ v \in Seq(Lines) /\ Len(v) = Len(u) /\ v[p] = x
       /\ \A k \in 1 .. Len(u) : k # p => v[k] = u[k]
       /\ SlotsOf(v) + u[p].slots = SlotsOf(u) + x.slots
       /\ CharsIn(v) + CharsOf(u[p].word) = CharsIn(u) + CharsOf(x.word)
  BY <1>23 DEF LineReplaced
<1>25. Shaped(u, v)
  BY <1>21, <1>24 DEF Shaped
<1>26. /\ IsTree(v)
       /\ \A q \in 1 .. Len(u) : ChildCount(v, q) = ChildCount(u, q)
       /\ \A q \in 1 .. Len(u) : HasChildren(v, q) <=> HasChildren(u, q)
  BY <1>15, <1>25, SameShape
<1>27. Fit(v)
  <2>1. SUFFICES ASSUME NEW q \in 1 .. Len(v) PROVE ChildCount(v, q) <= v[q].slots
    BY DEF Fit
  <2>2. CASE q = p
    BY <1>20, <1>21, <1>22, <1>24, <1>26, <2>2
  <2>3. CASE q # p
    BY <1>8, <1>16, <1>24, <1>26, <2>3
  <2> QED BY <2>2, <2>3
<1>28. p = 1 /\ Trim(t) => Trim(v)
  <2>1. SUFFICES ASSUME p = 1, Trim(t), NEW k \in 2 .. Len(v), ~HasChildren(v, k) PROVE v[k].slots = 0
    BY DEF Trim
  <2>2. k \in 1 .. Len(u) /\ k # p /\ k \in 2 .. Len(u)
    BY <1>24, <2>1
  <2> QED BY <1>18, <1>24, <1>26, <2>1, <2>2 DEF Trim
<1>29. /\ Len(t) \in Nat /\ Len(u) \in Nat /\ Len(R) \in Nat /\ Len(g) \in Nat
       /\ SlotsOf(v) \in Nat /\ SlotsOf(u) \in Nat /\ SlotsOf(R) \in Nat /\ SlotsOf(t) \in Nat /\ SlotsOf(F) \in Nat
       /\ CharsIn(v) \in Nat /\ CharsIn(u) \in Nat /\ CharsIn(R) \in Nat /\ CharsIn(t) \in Nat /\ CharsIn(F) \in Nat
  BY <1>1, <1>5, <1>17, <1>24, SizeLists, LinesOf
<1>30. g[1].slots \in Nat /\ CharsOf(g[1].word) \in Nat /\ CharsOf(u[p].word) \in Nat
  BY <1>1, <1>4, <1>15, LineFields, CharsOfNat
<1>31. Len(v) + Len(R) + 1 = Len(t) + Len(g)
  <2>1. Len(v) = Len(u) /\ Len(u) + Len(R) = Len(t) + (Len(g) - 1)
    BY <1>4, <1>8, <1>17, <1>24
  <2> QED BY ONLY <1>29, <2>1
<1>32. SlotsOf(v) + SlotsOf(R) + t[p].slots + g[1].slots = SlotsOf(t) + SlotsOf(g) + s
  <2>1. SlotsOf(v) + t[p].slots = SlotsOf(u) + s
    BY <1>15, <1>21, <1>24
  <2>2. SlotsOf(u) + SlotsOf(R) = SlotsOf(t) + SlotsOf(F)
    BY <1>8, <1>17
  <2>3. t[p].slots \in Nat
    BY <1>1
  <2> DEFINE sv == SlotsOf(v)
             su == SlotsOf(u)
             sr == SlotsOf(R)
             st == SlotsOf(t)
             sf == SlotsOf(F)
             sg == SlotsOf(g)
             sp == t[p].slots
             sq == g[1].slots
  <2>4. /\ sg = sq + sf /\ sv + sp = su + s /\ su + sr = st + sf
        /\ s \in Nat /\ sv \in Nat /\ su \in Nat /\ sr \in Nat /\ st \in Nat /\ sf \in Nat
        /\ sp \in Nat /\ sq \in Nat
    BY <1>9, <1>20, <1>29, <1>30, <2>1, <2>2, <2>3, Zenon
  <2>5. sv + sr + sp + sq = st + sg + s
    <3> HIDE DEF sv, su, sr, st, sf, sg, sp, sq
    <3> QED BY ONLY <2>4
  <2> QED BY <2>5, Zenon
<1>33. CharsIn(v) + CharsIn(R) + CharsOf(g[1].word) = CharsIn(t) + CharsIn(g)
  <2>1. CharsIn(v) + CharsOf(u[p].word) = CharsIn(u) + CharsOf(u[p].word)
    BY <1>21, <1>24
  <2>2. CharsIn(u) + CharsIn(R) = CharsIn(t) + CharsIn(F)
    BY <1>8, <1>17
  <2> DEFINE sv == CharsIn(v)
             su == CharsIn(u)
             sr == CharsIn(R)
             st == CharsIn(t)
             sf == CharsIn(F)
             sg == CharsIn(g)
             sp == CharsOf(u[p].word)
             sq == CharsOf(g[1].word)
  <2>4. /\ sg = sq + sf /\ sv + sp = su + sp /\ su + sr = st + sf
        /\ sv \in Nat /\ su \in Nat /\ sr \in Nat /\ st \in Nat /\ sf \in Nat
        /\ sp \in Nat /\ sq \in Nat
    BY <1>9, <1>29, <1>30, <2>1, <2>2, Zenon
  <2>5. sv + sr + sq = st + sg
    <3> HIDE DEF sv, su, sr, st, sf, sg, sp, sq
    <3> QED BY ONLY <2>4
  <2> QED BY <2>5, Zenon
<1> QED
  BY <1>2, <1>10, <1>12, <1>13, <1>20, <1>26, <1>27, <1>28, <1>31, <1>32, <1>33 DEF TreeEditIs, s
=============================================================================
