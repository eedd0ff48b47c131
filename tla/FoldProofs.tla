---------------------------- MODULE FoldProofs ----------------------------
(***************************************************************************)
(* Induction over the folds of the models.  A module that proves something *)
(* about a loop (FoldLeft) instantiates this one with the loop's body and  *)
(* what is true of its result after k elements of the sequence.  The       *)
(* library's theorems of induction cannot be cited for a formula of one's  *)
(* own; that a set of numbers has a least element can.                     *)
(***************************************************************************)
EXTENDS SequencesExt, Naturals, WellFoundedInduction, TLAPS

CONSTANTS Op(_, _),        \* the body: what is so far, and an element
          Inv(_, _, _, _)  \* base, sequence, elements done, what is so far

LEMMA Least ==
    ASSUME NEW S \in SUBSET Nat, S # {}
    PROVE  \E m \in S : \A k \in S : m <= k
<1> DEFINE R == OpToRel(LAMBDA x, y : x < y, Nat)
<1>1. IsWellFoundedOn(R, Nat)
  BY NatLessThanWellFounded
<1>2. PICK m \in S : \A k \in S : ~(<<k, m>> \in R)
  BY <1>1, WFMin
<1>3. \A k \in S : ~(k < m)
  BY <1>2 DEF OpToRel
<1> QED BY <1>3

LEMMA Greatest ==
    ASSUME NEW n \in Nat, NEW S \in SUBSET (1..n), S # {}
    PROVE  Max(S) \in S /\ \A k \in S : k <= Max(S)
<1> DEFINE T == {m \in Nat : n - m \in S}
<1>1. T # {}
  <2>1. PICK k \in S : TRUE
    OBVIOUS
  <2>2. n - k \in Nat /\ n - (n - k) = k
    BY <2>1
  <2> QED BY <2>1, <2>2
<1>2. PICK m \in T : \A k \in T : m <= k
  BY <1>1, Least
<1>3. n - m \in S /\ \A k \in S : k <= n - m
  <2> SUFFICES ASSUME NEW k \in S PROVE k <= n - m
    OBVIOUS
  <2>1. n - k \in Nat /\ n - (n - k) = k
    OBVIOUS
  <2> QED BY <1>2, <2>1
<1> QED BY <1>3 DEF Max

LEMMA MaxOfRange ==
    ASSUME NEW n \in Nat \ {0}
    PROVE  Max(1..n) = n /\ (1..n) \ {n} = 1..(n-1)
<1>1. n \in 1..n /\ \A k \in 1..n : k <= n
  OBVIOUS
<1> QED BY <1>1 DEF Max

(***************************************************************************)
(* The recursion of MapThenFoldSet, for sets of the first n positions: it  *)
(* takes off the last one.                                                 *)
(***************************************************************************)
Rule(it, base, s, n) ==
    it = [t \in SUBSET (1..n) |->
            IF t = {} THEN base ELSE Op(it[t \ {Max(t)}], s[Max(t)])]

LEMMA Exists ==
    ASSUME NEW base, NEW n \in Nat, NEW s
    PROVE  \E it : Rule(it, base, s, n)
<1> DEFINE Bad == {k \in Nat : ~ \E it : Rule(it, base, s, k)}
<1>1. CASE Bad # {}
  <2>1. PICK k \in Bad : \A j \in Bad : k <= j
    <3> HIDE DEF Bad
    <3>1. Bad \in SUBSET Nat
      BY DEF Bad
    <3> QED BY <1>1, <3>1, Least
  <2>2. CASE k = 0
    <3>1. SUBSET (1..0) = {{}}
      OBVIOUS
    <3>2. Rule([t \in {{}} |-> base], base, s, 0)
      BY <3>1 DEF Rule
    <3> QED BY <2>1, <2>2, <3>2
  <2>3. CASE k # 0
    <3>1. k \in Nat /\ k - 1 \in Nat /\ k - 1 \notin Bad
      BY <2>1, <2>3
    <3>2. PICK it : Rule(it, base, s, k - 1)
      BY <3>1
    <3> DEFINE new == [t \in SUBSET (1..k) |->
                         IF t = {} THEN base ELSE Op(it[t \ {Max(t)}], s[Max(t)])]
    <3>3. ASSUME NEW t \in SUBSET (1..k), t # {}
          PROVE  t \ {Max(t)} \in SUBSET (1..(k - 1))
      <4>1. Max(t) \in t /\ \A j \in t : j <= Max(t)
        BY <3>1, <3>3, Greatest
      <4>2. \A j \in t : j \in Nat /\ j >= 1 /\ j <= k
        BY <3>1
      <4>3. ASSUME NEW j \in t, j # Max(t) PROVE j \in 1..(k - 1)
        <5>1. j \in Nat /\ Max(t) \in Nat /\ j >= 1 /\ j <= Max(t) /\ Max(t) <= k
          BY <4>1, <4>2
        <5> QED BY <3>1, <4>3, <5>1
      <4> QED BY <4>3
    <3>4. \A t \in SUBSET (1..(k - 1)) : t \in SUBSET (1..k) /\ new[t] = it[t]
      <4>1. SUBSET (1..(k - 1)) \subseteq SUBSET (1..k)
        BY <3>1
      <4>2. \A t \in SUBSET (1..(k - 1)) :
              it[t] = IF t = {} THEN base ELSE Op(it[t \ {Max(t)}], s[Max(t)])
        BY <3>2 DEF Rule
      <4> QED BY <4>1, <4>2
    <3>5. \A t \in SUBSET (1..k) :
            new[t] = IF t = {} THEN base ELSE Op(new[t \ {Max(t)}], s[Max(t)])
      BY <3>3, <3>4
    <3>6. Rule(new, base, s, k)
      BY <3>5 DEF Rule
    <3> QED BY <2>1, <3>6
  <2> QED BY <2>2, <2>3
<1>2. CASE Bad = {}
  BY <1>2
<1> QED BY <1>1, <1>2

(* f[k] is what the first k elements of s make of base.                    *)
Runs(f, base, s, n) ==
    /\ f[0] = base
    /\ \A k \in 1..n : f[k] = Op(f[k - 1], s[k])

LEMMA Steps ==
    ASSUME NEW base, NEW n \in Nat, NEW s, NEW it, Rule(it, base, s, n)
    PROVE  \E f : Runs(f, base, s, n) /\ it[1..n] = f[n]
<1> DEFINE f == [k \in 0..n |-> it[1..k]]
<1>1. f[0] = base
  BY DEF Rule
<1>2. ASSUME NEW k \in 1..n PROVE f[k] = Op(f[k - 1], s[k])
  <2>1. /\ Max(1..k) = k /\ (1..k) \ {k} = 1..(k-1)
        /\ 1..k # {} /\ 1..k \in SUBSET (1..n)
    BY MaxOfRange
  <2>2. it[1..k] = Op(it[1..(k-1)], s[k])
    BY <2>1 DEF Rule
  <2> QED BY <2>2
<1>3. f[n] = it[1..n]
  OBVIOUS
<1>4. Runs(f, base, s, n)
  BY <1>1, <1>2 DEF Runs
<1> QED BY <1>3, <1>4

(* FoldLeft(Op, base, s) for a sequence s of length n                      *)
Folded(base, s, n) ==
    MapThenFoldSet(LAMBDA x, y : Op(y, x), base, LAMBDA i : s[i], LAMBDA S : Max(S), 1..n)

LEMMA FoldSteps ==
    ASSUME NEW base, NEW n \in Nat, NEW s
    PROVE  \E f : Runs(f, base, s, n) /\ Folded(base, s, n) = f[n]
<1> DEFINE Loop(it) == it = [t \in SUBSET (1..n) |->
                               IF t = {} THEN base ELSE Op(it[t \ {Max(t)}], s[Max(t)])]
<1>1. Folded(base, s, n) = (CHOOSE it : Loop(it))[1..n]
  BY DEF Folded, MapThenFoldSet
<1>2. PICK any : Rule(any, base, s, n)
  BY Exists
<1>3. Loop(any)
  BY <1>2 DEF Rule
<1>4. PICK it : Loop(it) /\ Folded(base, s, n) = it[1..n]
  <2> HIDE DEF Loop
  <2> QED BY <1>1, <1>3
<1>5. Rule(it, base, s, n)
  BY <1>4 DEF Rule
<1> HIDE DEF Loop
<1> QED BY <1>4, <1>5, Steps

(* A fold goes from the first element to the last: what holds before the   *)
(* first and is kept by every step holds of the result.                    *)
LEMMA FoldInduction ==
    ASSUME NEW base, NEW n \in Nat, NEW s,
           Inv(base, s, 0, base),
           \A k \in 1..n : \A r : Inv(base, s, k - 1, r) => Inv(base, s, k, Op(r, s[k]))
    PROVE  Inv(base, s, n, Folded(base, s, n))
<1>1. PICK f : Runs(f, base, s, n) /\ Folded(base, s, n) = f[n]
  BY FoldSteps
<1> DEFINE Bad == {k \in 0..n : ~Inv(base, s, k, f[k])}
<1>2. CASE Bad # {}
  <2>1. PICK k \in Bad : \A j \in Bad : k <= j
    <3> HIDE DEF Bad
    <3>1. Bad \in SUBSET Nat
      BY DEF Bad
    <3> QED BY <1>2, <3>1, Least
  <2>2. k # 0
    BY <1>1, <2>1 DEF Runs
  <2>3. k \in 1..n /\ k - 1 \in 0..n /\ k - 1 \notin Bad
    BY <2>1, <2>2
  <2>4. Inv(base, s, k - 1, f[k - 1]) /\ f[k] = Op(f[k - 1], s[k])
    BY <1>1, <2>3 DEF Runs
  <2> QED BY <2>1, <2>3, <2>4
<1>3. CASE Bad = {}
  BY <1>1, <1>3
<1> QED BY <1>2, <1>3


(* There is one way to go through the elements.                            *)
LEMMA RunsOnce ==
    ASSUME NEW base, NEW n \in Nat, NEW s, NEW f, Runs(f, base, s, n),
           NEW g, Runs(g, base, s, n)
    PROVE  f[n] = g[n]
<1> DEFINE Bad == {k \in 0..n : f[k] # g[k]}
<1>1. CASE Bad # {}
  <2>1. PICK k \in Bad : \A j \in Bad : k <= j
    <3> HIDE DEF Bad
    <3>1. Bad \in SUBSET Nat
      BY DEF Bad
    <3> QED BY <1>1, <3>1, Least
  <2>2. k # 0
    BY <2>1 DEF Runs
  <2>3. k \in 1..n /\ k - 1 \in 0..n /\ k - 1 \notin Bad
    BY <2>1, <2>2
  <2>4. f[k] = Op(f[k - 1], s[k]) /\ g[k] = Op(g[k - 1], s[k])
    BY <2>3 DEF Runs
  <2>5. f[k - 1] = g[k - 1]
    BY <2>3
  <2> QED BY <2>1, <2>4, <2>5
<1>2. CASE Bad = {}
  BY <1>2
<1> QED BY <1>1, <1>2

LEMMA FoldIs ==
    ASSUME NEW base, NEW n \in Nat, NEW s, NEW f, Runs(f, base, s, n)
    PROVE  Folded(base, s, n) = f[n]
BY FoldSteps, RunsOnce

(* Nothing is done to nothing.                                             *)
LEMMA FoldNothing ==
    ASSUME NEW base, NEW s
    PROVE  Folded(base, s, 0) = base
<1>1. PICK f : Runs(f, base, s, 0) /\ Folded(base, s, 0) = f[0]
  BY FoldSteps
<1> QED BY <1>1 DEF Runs

(* The last element comes last, and only the elements count.               *)
LEMMA FoldLast ==
    ASSUME NEW base, NEW n \in Nat, NEW s, NEW t, \A k \in 1..n : t[k] = s[k]
    PROVE  Folded(base, t, n + 1) = Op(Folded(base, s, n), t[n + 1])
<1>1. PICK g : Runs(g, base, t, n + 1) /\ Folded(base, t, n + 1) = g[n + 1]
  BY FoldSteps
<1>2. Runs(g, base, s, n)
  BY <1>1 DEF Runs
<1>3. Folded(base, s, n) = g[n]
  BY <1>2, FoldIs
<1>4. n + 1 \in 1..(n + 1) /\ (n + 1) - 1 = n
  OBVIOUS
<1> QED BY <1>1, <1>3, <1>4 DEF Runs

(* So does an element that is followed by others, in its place: the first  *)
(* one comes first.                                                        *)
LEMMA FoldFirst ==
    ASSUME NEW base, NEW n \in Nat, NEW s, NEW t, \A k \in 1..n : t[k] = s[k + 1]
    PROVE  Folded(base, s, n + 1) = Folded(Op(base, s[1]), t, n)
<1>1. PICK f : Runs(f, base, s, n + 1) /\ Folded(base, s, n + 1) = f[n + 1]
  BY FoldSteps
<1> DEFINE g == [k \in 0..n |-> f[k + 1]]
<1>2. g[0] = Op(base, s[1])
  BY <1>1 DEF Runs
<1>3. ASSUME NEW k \in 1..n PROVE g[k] = Op(g[k - 1], t[k])
  <2>1. k + 1 \in 1..(n + 1) /\ (k + 1) - 1 = k /\ k \in 0..n /\ k - 1 \in 0..n /\ (k - 1) + 1 = k
    OBVIOUS
  <2>2. f[k + 1] = Op(f[k], s[k + 1])
    BY <1>1, <2>1 DEF Runs
  <2> QED BY <2>1, <2>2
<1>4. Runs(g, Op(base, s[1]), t, n)
  BY <1>2, <1>3 DEF Runs
<1>5. Folded(Op(base, s[1]), t, n) = g[n]
  <2> HIDE DEF g
  <2> QED BY <1>4, FoldIs
<1> QED BY <1>1, <1>5

(* An element the body does nothing with may be left out.                  *)
LEMMA FoldWithout ==
    ASSUME NEW base, NEW n \in Nat, NEW s, NEW t, NEW k \in 1..(n + 1),
           \A i \in 1..n : t[i] = IF i < k THEN s[i] ELSE s[i + 1],
           \A r : Op(r, s[k]) = r
    PROVE  Folded(base, s, n + 1) = Folded(base, t, n)
<1>1. PICK f : Runs(f, base, s, n + 1) /\ Folded(base, s, n + 1) = f[n + 1]
  BY FoldSteps
<1> DEFINE g == [i \in 0..n |-> IF i < k THEN f[i] ELSE f[i + 1]]
<1>2. g[0] = base
  BY <1>1 DEF Runs
<1>3. f[k] = f[k - 1]
  BY <1>1 DEF Runs
<1>4. ASSUME NEW i \in 1..n PROVE g[i] = Op(g[i - 1], t[i])
  <2>1. CASE i < k
    <3>1. g[i] = f[i] /\ g[i - 1] = f[i - 1] /\ t[i] = s[i]
      BY <2>1
    <3>2. f[i] = Op(f[i - 1], s[i])
      BY <1>1 DEF Runs
    <3> QED BY <3>1, <3>2
  <2>2. CASE i >= k
    <3>1. g[i] = f[i + 1] /\ t[i] = s[i + 1] /\ i + 1 \in 1..(n + 1) /\ (i + 1) - 1 = i
      BY <2>2
    <3>2. f[i + 1] = Op(f[i], s[i + 1])
      BY <1>1, <3>1 DEF Runs
    <3>3. g[i - 1] = f[i]
      <4>1. CASE i = k
        BY <1>3, <4>1
      <4>2. CASE i > k
        <5>1. ~(i - 1 < k) /\ i - 1 \in 0..n /\ (i - 1) + 1 = i
          BY <4>2
        <5> QED BY <5>1
      <4> QED BY <2>2, <4>1, <4>2
    <3> QED BY <3>1, <3>2, <3>3
  <2> QED BY <2>1, <2>2
<1>5. Runs(g, base, t, n)
  BY <1>2, <1>4 DEF Runs
<1>6. Folded(base, t, n) = g[n]
  <2> HIDE DEF g
  <2> QED BY <1>5, FoldIs
<1>7. g[n] = f[n + 1]
  <2>1. CASE n < k
    <3>1. k = n + 1
      BY <2>1
    <3> QED BY <1>3, <3>1
  <2>2. CASE n >= k
    BY <2>2
  <2> QED BY <2>1, <2>2
<1> QED BY <1>1, <1>6, <1>7
=============================================================================
