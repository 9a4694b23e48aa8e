------------------------------- MODULE Lemmas -------------------------------
(***************************************************************************)
(* Facts about numbers and finite sums that the proofs of the components   *)
(* share.  Induction is by a smallest counterexample: the strict subset    *)
(* ordering on finite sets is well founded.                                *)
(***************************************************************************)
EXTENDS FiniteSetTheorems, FiniteSetsExt, TLAPS

(* A set of finite sets has a member with no other inside it. *)
LEMMA SmallestSet ==
  ASSUME NEW U, NEW F \in SUBSET FiniteSubsetsOf(U), F # {}
  PROVE  \E M \in F : \A s \in F : s \subseteq M => s = M
<1>1. PICK M \in F : \A s \in F : ~(<<s, M>> \in StrictSubsetOrdering(U))
  BY FS_StrictSubsetOrderingWellFounded, WFMin
<1>2. ASSUME NEW s \in F, s \subseteq M, s # M PROVE FALSE
  <2>1. s \in SUBSET U /\ M \in SUBSET U BY DEF FiniteSubsetsOf
  <2>2. <<s, M>> \in StrictSubsetOrdering(U) BY <2>1, <1>2 DEF StrictSubsetOrdering
  <2> QED BY <1>1, <2>2
<1> QED BY <1>2

(* A set of numbers has a least one. *)
LEMMA LeastNumber ==
  ASSUME NEW S \in SUBSET Nat, S # {}
  PROVE  \E x \in S : \A y \in S : x <= y
<1> DEFINE F == {0 .. m : m \in S}
<1>1. F \in SUBSET FiniteSubsetsOf(Nat) /\ F # {}
  <2>1. \A m \in S : 0 .. m \in SUBSET Nat /\ IsFiniteSet(0 .. m) BY FS_Interval
  <2> QED BY <2>1 DEF FiniteSubsetsOf
<1>2. PICK M \in F : \A s \in F : s \subseteq M => s = M
  <2> HIDE DEF F
  <2> QED BY <1>1, SmallestSet
<1>3. PICK x \in S : M = 0 .. x OBVIOUS
<1>4. ASSUME NEW y \in S, y < x PROVE FALSE
  <2>1. 0 .. y \in F /\ 0 .. y \subseteq 0 .. x BY <1>4
  <2>2. x \in 0 .. x /\ x \notin 0 .. y BY <1>4
  <2> QED BY <2>1, <2>2, <1>2, <1>3
<1> QED BY <1>4

(* Min is what its name says. *)
LEMMA MinIsLeast ==
  ASSUME NEW S \in SUBSET Nat, S # {}
  PROVE  Min(S) \in S /\ \A y \in S : Min(S) <= y
BY LeastNumber DEF Min

-----------------------------------------------------------------------------
(* The sum of c over S, and the function that adds it up. *)
SumOver(c, S) == MapThenSumSet(LAMBDA i : c[i], S)

Pick(s) == CHOOSE x \in s : TRUE

AddsUp(f, c, D) ==
  f = [s \in D |-> IF s = {} THEN 0 ELSE c[Pick(s)] + f[s \ {Pick(s)}]]

Small(S, n) == {s \in SUBSET S : Cardinality(s) <= n}

(* Pick takes a member. *)
LEMMA PickInside == ASSUME NEW s, s # {} PROVE Pick(s) \in s
BY DEF Pick

(* There is a function that adds up any finite set. *)
LEMMA AddsUpExists ==
  ASSUME NEW S, IsFiniteSet(S), NEW c
  PROVE  \E f : AddsUp(f, c, SUBSET S)
<1> DEFINE Bad == {n \in Nat : ~ \E f : AddsUp(f, c, Small(S, n))}
<1>1. \A s \in SUBSET S : IsFiniteSet(s) /\ Cardinality(s) \in Nat
  BY FS_Subset, FS_CardinalityType
<1>2. Bad = {}
  <2> SUFFICES ASSUME Bad # {} PROVE FALSE OBVIOUS
  <2>1. PICK n \in Bad : \A m \in Bad : n <= m
    <3> HIDE DEF Bad
    <3>1. Bad \in SUBSET Nat BY DEF Bad
    <3> QED BY <3>1, LeastNumber
  <2>2. CASE n = 0
    <3>1. \A s \in Small(S, 0) : s = {}
      BY <1>1, FS_EmptySet DEF Small
    <3>2. AddsUp([s \in Small(S, 0) |-> 0], c, Small(S, 0))
      BY <3>1 DEF AddsUp
    <3> QED BY <3>2, <2>2
  <2>3. CASE n # 0
    <3>1. n - 1 \in Nat /\ n - 1 \notin Bad BY <2>1, <2>3
    <3>2. PICK f : AddsUp(f, c, Small(S, n - 1)) BY <3>1
    <3> DEFINE g == [s \in Small(S, n) |->
                       IF s = {} THEN 0 ELSE c[Pick(s)] + f[s \ {Pick(s)}]]
    <3>3. \A s \in Small(S, n - 1) : s \in Small(S, n) BY <1>1, <3>1 DEF Small
    <3>4. ASSUME NEW s \in Small(S, n), s # {}
          PROVE  s \ {Pick(s)} \in Small(S, n - 1)
      <4>1. Pick(s) \in s /\ s \in SUBSET S BY <3>4, PickInside DEF Small
      <4>2. Cardinality(s \ {Pick(s)}) = Cardinality(s) - 1 BY <4>1, <1>1, FS_RemoveElement
      <4>3. Cardinality(s) \in Nat /\ Cardinality(s) <= n BY <1>1 DEF Small
      <4> QED BY <4>1, <4>2, <4>3, <3>1 DEF Small
    <3>5. \A s \in Small(S, n - 1) : g[s] = f[s] BY <3>2, <3>3 DEF AddsUp
    <3>6. \A s \in Small(S, n) : s # {} => g[s \ {Pick(s)}] = f[s \ {Pick(s)}]
      BY <3>4, <3>5
    <3>7. g = [s \in Small(S, n) |-> IF s = {} THEN 0 ELSE c[Pick(s)] + g[s \ {Pick(s)}]]
      BY ONLY <3>6
    <3>8. AddsUp(g, c, Small(S, n)) BY <3>7 DEF AddsUp
    <3> QED BY <3>8, <2>1
  <2> QED BY <2>2, <2>3
<1>3. Small(S, Cardinality(S)) = SUBSET S BY FS_Subset DEF Small
<1>4. Cardinality(S) \in Nat /\ Cardinality(S) \notin Bad BY <1>1, <1>2
<1>5. \E f : AddsUp(f, c, Small(S, Cardinality(S))) BY <1>4
<1> QED BY <1>3, <1>5

(* A sum is that of the members but one, and that one. *)
LEMMA SumUnfolds ==
  ASSUME NEW S, IsFiniteSet(S), NEW c
  PROVE  \E f : AddsUp(f, c, SUBSET S) /\ SumOver(c, S) = f[S]
<1> DEFINE f == CHOOSE f : AddsUp(f, c, SUBSET S)
<1>1. AddsUp(f, c, SUBSET S) BY AddsUpExists
<1>2. SumOver(c, S) = f[S] BY DEF SumOver, MapThenSumSet, MapThenFoldSet, AddsUp, Pick
<1> QED BY <1>1, <1>2

(* A sum may be taken apart at any of its members. *)
LEMMA AddsUpAny ==
  ASSUME NEW S, IsFiniteSet(S), NEW c, \A x \in S : c[x] \in Nat,
         NEW f, AddsUp(f, c, SUBSET S)
  PROVE  \A s \in SUBSET S : f[s] \in Nat /\ \A x \in s : f[s] = c[x] + f[s \ {x}]
<1> DEFINE Good(s) == f[s] \in Nat /\ \A x \in s : f[s] = c[x] + f[s \ {x}]
           Bad == {s \in SUBSET S : ~Good(s)}
<1> SUFFICES ASSUME Bad # {} PROVE FALSE OBVIOUS
<1>1. Bad \in SUBSET FiniteSubsetsOf(S) BY FS_Subset DEF FiniteSubsetsOf
<1>2. PICK s \in Bad : \A u \in Bad : u \subseteq s => u = s
  <2> HIDE DEF Bad
  <2> QED BY <1>1, SmallestSet
<1>3. s \in SUBSET S OBVIOUS
<1>4. \A u \in SUBSET S : u \subseteq s /\ u # s => Good(u) BY <1>2
<1>5. s # {} BY <1>3 DEF AddsUp
<1>6. Pick(s) \in s /\ c[Pick(s)] \in Nat BY <1>3, <1>5, PickInside
<1>7. f[s] = c[Pick(s)] + f[s \ {Pick(s)}] BY <1>3, <1>5 DEF AddsUp
<1>8. f[s \ {Pick(s)}] \in Nat BY <1>3, <1>4, <1>6
<1>9. ASSUME NEW x \in s, x # Pick(s) PROVE f[s] = c[x] + f[s \ {x}]
  <2>1. f[s \ {Pick(s)}] = c[x] + f[(s \ {Pick(s)}) \ {x}] BY <1>3, <1>4, <1>6, <1>9
  <2>2. f[s \ {x}] = c[Pick(s)] + f[(s \ {x}) \ {Pick(s)}] BY <1>3, <1>4, <1>6, <1>9
  <2>3. (s \ {Pick(s)}) \ {x} = (s \ {x}) \ {Pick(s)} OBVIOUS
  <2>4. f[(s \ {x}) \ {Pick(s)}] \in Nat /\ c[x] \in Nat
    <3>1. (s \ {x}) \ {Pick(s)} \subseteq s /\ (s \ {x}) \ {Pick(s)} # s BY <1>6
    <3> QED BY <3>1, <1>3, <1>4
  <2>5. \A i, j, k \in Nat : i + (j + k) = j + (i + k) OBVIOUS
  <2>6. f[s] = c[Pick(s)] + (c[x] + f[(s \ {x}) \ {Pick(s)}]) BY <1>7, <2>1, <2>3
  <2> QED BY <2>2, <2>4, <2>5, <2>6, <1>6
<1>10. f[s] \in Nat BY <1>6, <1>7, <1>8
<1> QED BY <1>7, <1>9, <1>10

(* Two functions that add up the same values agree. *)
LEMMA AddsUpEqual ==
  ASSUME NEW S, IsFiniteSet(S), NEW T \in SUBSET S, NEW c, NEW d,
         \A x \in T : c[x] = d[x]
  PROVE  \A f, g : AddsUp(f, c, SUBSET S) /\ AddsUp(g, d, SUBSET T) => f[T] = g[T]
<1> TAKE f, g
<1> HAVE AddsUp(f, c, SUBSET S) /\ AddsUp(g, d, SUBSET T)
<1> DEFINE Bad == {s \in SUBSET T : f[s] # g[s]}
<1>1. ASSUME Bad # {} PROVE FALSE
  <2>1. Bad \in SUBSET FiniteSubsetsOf(S) BY FS_Subset DEF FiniteSubsetsOf
  <2>2. PICK s \in Bad : \A u \in Bad : u \subseteq s => u = s
    <3> HIDE DEF Bad
    <3> QED BY <1>1, <2>1, SmallestSet
  <2>3. s \in SUBSET T /\ s \in SUBSET S OBVIOUS
  <2>4. s # {} BY <2>3 DEF AddsUp
  <2>5. Pick(s) \in s BY <2>4, PickInside
  <2>6. f[s \ {Pick(s)}] = g[s \ {Pick(s)}] BY <2>2, <2>3, <2>5
  <2>7. f[s] = c[Pick(s)] + f[s \ {Pick(s)}] BY <2>3, <2>4 DEF AddsUp
  <2>8. g[s] = d[Pick(s)] + g[s \ {Pick(s)}] BY <2>3, <2>4 DEF AddsUp
  <2> QED BY <2>2, <2>3, <2>5, <2>6, <2>7, <2>8
<1> QED BY <1>1

(* What the proofs use: the sum is a number, depends on the values at its  *)
(* members alone, is 0 for the empty set, and grows by what is added.      *)
LEMMA SumNat ==
  ASSUME NEW S, IsFiniteSet(S), NEW c, \A x \in S : c[x] \in Nat
  PROVE  SumOver(c, S) \in Nat
<1>1. PICK f : AddsUp(f, c, SUBSET S) /\ SumOver(c, S) = f[S] BY SumUnfolds
<1> QED BY <1>1, AddsUpAny

(* A sum depends on the values at its members alone. *)
LEMMA SumEqual ==
  ASSUME NEW S, IsFiniteSet(S), NEW c, NEW d, \A x \in S : c[x] = d[x]
  PROVE  SumOver(c, S) = SumOver(d, S)
<1>1. PICK f : AddsUp(f, c, SUBSET S) /\ SumOver(c, S) = f[S] BY SumUnfolds
<1>2. PICK g : AddsUp(g, d, SUBSET S) /\ SumOver(d, S) = g[S] BY SumUnfolds
<1>3. S \in SUBSET S OBVIOUS
<1>4. f[S] = g[S] BY <1>1, <1>2, <1>3, AddsUpEqual
<1> QED BY <1>1, <1>2, <1>4

(* A sum taken apart at a member. *)
LEMMA SumSplit ==
  ASSUME NEW S, IsFiniteSet(S), NEW c, \A y \in S : c[y] \in Nat, NEW x \in S
  PROVE  SumOver(c, S) = c[x] + SumOver(c, S \ {x})
<1> DEFINE T == S \ {x}
<1>1. PICK f : AddsUp(f, c, SUBSET S) /\ SumOver(c, S) = f[S] BY SumUnfolds
<1>2. IsFiniteSet(T) /\ T \in SUBSET S BY FS_Subset
<1>3. f[S] = c[x] + f[T]
  <2>1. \A s \in SUBSET S : f[s] \in Nat /\ \A y \in s : f[s] = c[y] + f[s \ {y}]
    BY <1>1, AddsUpAny
  <2> QED BY <2>1
<1> HIDE DEF T
<1>4. PICK g : AddsUp(g, c, SUBSET T) /\ SumOver(c, T) = g[T] BY <1>2, SumUnfolds
<1>5. f[T] = g[T]
  <2>1. \A y \in T : c[y] = c[y] OBVIOUS
  <2>2. \A h, k : AddsUp(h, c, SUBSET S) /\ AddsUp(k, c, SUBSET T) => h[T] = k[T]
    BY ONLY <1>2, <2>1, IsFiniteSet(S), AddsUpEqual
  <2> QED BY <1>1, <1>4, <2>2
<1>6. SumOver(c, S) = c[x] + SumOver(c, T) BY <1>1, <1>3, <1>4, <1>5
<1> QED BY <1>6 DEF T

(* A sum after the value at one member has changed. *)
LEMMA SumChange ==
  ASSUME NEW S, IsFiniteSet(S), NEW c, NEW d, NEW x \in S,
         \A y \in S : c[y] \in Nat /\ d[y] \in Nat,
         \A y \in S \ {x} : d[y] = c[y]
  PROVE  SumOver(d, S) + c[x] = SumOver(c, S) + d[x]
<1>1. IsFiniteSet(S \ {x}) BY FS_Subset
<1>2. SumOver(d, S \ {x}) = SumOver(c, S \ {x}) BY <1>1, SumEqual
<1>3. SumOver(d, S) = d[x] + SumOver(d, S \ {x}) BY SumSplit
<1>4. SumOver(c, S) = c[x] + SumOver(c, S \ {x}) BY SumSplit
<1>5. SumOver(c, S \ {x}) \in Nat BY <1>1, SumNat
<1> QED BY <1>2, <1>3, <1>4, <1>5

(* A member is at most the sum. *)
LEMMA SumBounds ==
  ASSUME NEW S, IsFiniteSet(S), NEW c, \A y \in S : c[y] \in Nat, NEW x \in S
  PROVE  c[x] <= SumOver(c, S)
<1>1. SumOver(c, S) = c[x] + SumOver(c, S \ {x}) BY SumSplit
<1>2. IsFiniteSet(S \ {x}) BY FS_Subset
<1>3. SumOver(c, S \ {x}) \in Nat BY <1>2, SumNat
<1> QED BY <1>1, <1>3

(* A sum of zeros. *)
LEMMA SumZero ==
  ASSUME NEW S, IsFiniteSet(S), NEW c, \A x \in S : c[x] = 0
  PROVE  SumOver(c, S) = 0
<1>1. PICK f : AddsUp(f, c, SUBSET S) /\ SumOver(c, S) = f[S] BY SumUnfolds
<1> DEFINE Bad == {s \in SUBSET S : f[s] # 0}
<1>2. ASSUME Bad # {} PROVE FALSE
  <2>1. Bad \in SUBSET FiniteSubsetsOf(S) BY FS_Subset DEF FiniteSubsetsOf
  <2>2. PICK s \in Bad : \A u \in Bad : u \subseteq s => u = s
    <3> HIDE DEF Bad
    <3> QED BY <1>2, <2>1, SmallestSet
  <2>3. s # {} BY <1>1 DEF AddsUp
  <2>4. Pick(s) \in s BY <2>3, PickInside
  <2>5. f[s \ {Pick(s)}] = 0 BY <2>2, <2>4
  <2>6. f[s] = c[Pick(s)] + f[s \ {Pick(s)}] BY <1>1, <2>3 DEF AddsUp
  <2> QED BY <2>2, <2>4, <2>5, <2>6
<1> QED BY <1>1, <1>2

-----------------------------------------------------------------------------
(* The remainder of x is the number below n that differs from it by a      *)
(* multiple of n.                                                          *)
LEMMA RemainderIs ==
  ASSUME NEW n \in Nat \ {0}, NEW x \in Nat, NEW q \in Nat, NEW r \in 0 .. n - 1,
         x = q * n + r
  PROVE  x % n = r
<1>1. x % n \in 0 .. n - 1 /\ x \div n \in Int /\ x = ((x \div n) * n) + (x % n)
  OBVIOUS
<1> DEFINE p == x \div n
           s == x % n
<1>2. p \in Int /\ s \in 0 .. n - 1 /\ p * n + s = q * n + r
  BY <1>1
<1> HIDE DEF p, s
<1>3. (p - q) * n = r - s
  BY <1>2
<1>4. CASE p > q
  <2>1. (p - q) * n >= n BY <1>2, <1>4
  <2> QED BY <2>1, <1>3, <1>2
<1>5. CASE p < q
  <2>1. (q - p) * n >= n BY <1>2, <1>5
  <2> QED BY <2>1, <1>3, <1>2
<1>6. CASE p = q BY <1>3, <1>6, <1>2 DEF s
<1> QED BY <1>2, <1>4, <1>5, <1>6

(* The place d after h on a ring of n. *)
Turn(n, h, d) == (h + d) % n

(* It wraps around once. *)
LEMMA TurnIs ==
  ASSUME NEW n \in Nat \ {0}, NEW h \in Nat, NEW d \in 0 .. n
  PROVE  /\ h % n \in 0 .. n - 1
         /\ Turn(n, h, d) = IF (h % n) + d < n THEN (h % n) + d ELSE (h % n) + d - n
<1> DEFINE r == h % n
           q == h \div n
<1>1. r \in 0 .. n - 1 /\ q \in Nat /\ h = q * n + r
  OBVIOUS
<1> HIDE DEF r, q
<1>2. CASE r + d < n
  <2>1. r + d \in 0 .. n - 1 /\ h + d \in Nat /\ h + d = q * n + (r + d) BY <1>1, <1>2
  <2>2. (h + d) % n = r + d BY <2>1, <1>1, RemainderIs
  <2> QED BY <2>2, <1>1, <1>2 DEF Turn, r
<1>3. CASE ~(r + d < n)
  <2>1. (r + d) - n \in 0 .. n - 1 /\ h + d \in Nat /\ q + 1 \in Nat BY <1>1, <1>3
  <2>2. (q + 1) * n = q * n + n BY <1>1
  <2>3. q * n \in Nat BY <1>1
  <2>4. h + d = (q + 1) * n + ((r + d) - n) BY <1>1, <2>2, <2>3
  <2>5. (h + d) % n = (r + d) - n BY <2>1, <2>4, RemainderIs
  <2> QED BY <2>5, <1>1, <1>3 DEF Turn, r
<1> QED BY <1>2, <1>3

(* Every position is met, once, in a turn. *)
LEMMA TurnMeets ==
  ASSUME NEW n \in Nat \ {0}, NEW h \in Nat
  PROVE  /\ \A d \in 0 .. n - 1 : Turn(n, h, d) \in 0 .. n - 1
         /\ \A i \in 0 .. n - 1 : \E d \in 0 .. n - 1 : Turn(n, h, d) = i
         /\ \A c, d \in 0 .. n - 1 : Turn(n, h, c) = Turn(n, h, d) => c = d
         /\ \A d \in 0 .. n - 1 : Turn(n, Turn(n, h, d), 1) = Turn(n, h, d + 1)
<1> DEFINE r == h % n
<1>1. r \in 0 .. n - 1 BY TurnIs
<1>2. \A d \in 0 .. n : Turn(n, h, d) = IF r + d < n THEN r + d ELSE r + d - n BY TurnIs
<1> HIDE DEF r
<1>3. \A d \in 0 .. n - 1 : Turn(n, h, d) \in 0 .. n - 1 BY <1>1, <1>2
<1>4. ASSUME NEW i \in 0 .. n - 1 PROVE \E d \in 0 .. n - 1 : Turn(n, h, d) = i
  <2>1. CASE r <= i
    <3>1. i - r \in 0 .. n - 1 BY <1>1, <2>1
    <3>2. Turn(n, h, i - r) = i BY <3>1, <1>1, <1>2
    <3> QED BY <3>1, <3>2
  <2>2. CASE r > i
    <3>1. i + n - r \in 0 .. n - 1 BY <1>1, <2>2
    <3>2. Turn(n, h, i + n - r) = i BY <3>1, <1>1, <1>2
    <3> QED BY <3>1, <3>2
  <2> QED BY <2>1, <2>2, <1>1
<1>5. \A c, d \in 0 .. n - 1 : Turn(n, h, c) = Turn(n, h, d) => c = d BY <1>1, <1>2
<1>6. ASSUME NEW d \in 0 .. n - 1 PROVE Turn(n, Turn(n, h, d), 1) = Turn(n, h, d + 1)
  <2> DEFINE t == Turn(n, h, d)
  <2>1. t \in 0 .. n - 1 BY <1>3
  <2>2. t % n = t BY <2>1
  <2>3. Turn(n, t, 1) = IF t + 1 < n THEN t + 1 ELSE t + 1 - n
    <3>1. 1 \in 0 .. n /\ t \in Nat BY <2>1
    <3> HIDE DEF t
    <3> QED BY <2>2, <3>1, TurnIs
  <2> QED BY <2>1, <2>3, <1>1, <1>2
<1> QED BY <1>3, <1>4, <1>5, <1>6

(* Products keep the order of their factors. *)
LEMMA TimesMonotone ==
  ASSUME NEW a \in Nat, NEW b \in Nat, NEW m \in Nat, a <= b
  PROVE  a * m \in Nat /\ b * m \in Nat /\ a * m <= b * m
<1> DEFINE d == b - a
<1>1. d \in Nat /\ b = a + d OBVIOUS
<1> HIDE DEF d
<1>2. a * m \in Nat /\ d * m \in Nat BY <1>1
<1>3. (a + d) * m = a * m + d * m BY <1>1
<1> QED BY <1>1, <1>2, <1>3

(* A common factor may be taken out of an inequality. *)
LEMMA TimesCancel ==
  ASSUME NEW a \in Nat, NEW b \in Nat, NEW m \in Nat \ {0}, a * m <= b * m
  PROVE  a <= b
<1> SUFFICES ASSUME a > b PROVE FALSE OBVIOUS
<1>1. (b + 1) * m <= a * m BY TimesMonotone
<1>2. (b + 1) * m = b * m + m OBVIOUS
<1>3. b * m \in Nat /\ a * m \in Nat OBVIOUS
<1> QED BY <1>1, <1>2, <1>3

(* A quotient is the largest number of times the divisor fits. *)
LEMMA QuotientIs ==
  ASSUME NEW x \in Nat, NEW n \in Nat \ {0}
  PROVE  /\ x \div n \in Nat
         /\ (x \div n) * n <= x /\ x < (x \div n + 1) * n
         /\ \A q \in Nat : q * n <= x => q <= x \div n
<1> DEFINE p == x \div n
           r == x % n
<1>1. p \in Nat /\ r \in 0 .. n - 1 /\ x = p * n + r OBVIOUS
<1> HIDE DEF p, r
<1>2. p * n \in Nat /\ (p + 1) * n = p * n + n BY <1>1
<1>3. p * n <= x /\ x < (p + 1) * n BY <1>1, <1>2
<1>4. ASSUME NEW q \in Nat, q * n <= x, q > p PROVE FALSE
  <2>1. (p + 1) * n <= q * n BY <1>1, <1>4, TimesMonotone
  <2>2. q * n \in Nat /\ (p + 1) * n \in Nat BY <1>1
  <2> QED BY <1>3, <1>4, <2>1, <2>2
<1> QED BY <1>1, <1>3, <1>4 DEF p

(* A part of a sum is no more than the sum. *)
LEMMA SumSubset ==
  ASSUME NEW S, IsFiniteSet(S), NEW T \in SUBSET S, NEW c, \A x \in S : c[x] \in Nat
  PROVE  SumOver(c, T) <= SumOver(c, S)
<1> DEFINE Bad == {U \in SUBSET S : T \subseteq U /\ ~(SumOver(c, T) <= SumOver(c, U))}
<1>1. \A U \in SUBSET S : IsFiniteSet(U) /\ SumOver(c, U) \in Nat
  <2> SUFFICES ASSUME NEW U \in SUBSET S PROVE IsFiniteSet(U) /\ SumOver(c, U) \in Nat
    OBVIOUS
  <2>1. IsFiniteSet(U) BY FS_Subset
  <2> QED BY <2>1, SumNat
<1>2. ASSUME Bad # {} PROVE FALSE
  <2>1. Bad \in SUBSET FiniteSubsetsOf(S) BY FS_Subset DEF FiniteSubsetsOf
  <2>2. PICK U \in Bad : \A u \in Bad : u \subseteq U => u = U
    <3> HIDE DEF Bad
    <3> QED BY <1>2, <2>1, SmallestSet
  <2>3. U \in SUBSET S /\ T \subseteq U /\ U # T BY <1>1
  <2>4. PICK x \in U : x \notin T BY <2>3
  <2>5. U \ {x} \in SUBSET S /\ T \subseteq U \ {x} /\ U \ {x} # U BY <2>3, <2>4
  <2>6. SumOver(c, T) <= SumOver(c, U \ {x}) BY <2>2, <2>5
  <2>7. SumOver(c, U) = c[x] + SumOver(c, U \ {x}) /\ c[x] \in Nat
    <3>1. IsFiniteSet(U) /\ \A y \in U : c[y] \in Nat BY <1>1, <2>3
    <3> QED BY <3>1, SumSplit
  <2>8. SumOver(c, T) \in Nat /\ SumOver(c, U \ {x}) \in Nat BY <1>1, <2>5
  <2> QED BY <2>2, <2>6, <2>7, <2>8
<1> QED BY <1>2

(* A sum with one more member. *)
LEMMA SumAdd ==
  ASSUME NEW S, IsFiniteSet(S), NEW x, x \notin S, NEW c, NEW d,
         \A y \in S : c[y] \in Nat /\ d[y] = c[y], d[x] \in Nat
  PROVE  IsFiniteSet(S \cup {x}) /\ SumOver(d, S \cup {x}) = SumOver(c, S) + d[x]
<1> DEFINE U == S \cup {x}
<1>1. IsFiniteSet(U) BY FS_AddElement
<1>2. U \ {x} = S /\ x \in U /\ \A y \in U : d[y] \in Nat OBVIOUS
<1> HIDE DEF U
<1>3. SumOver(d, U) = d[x] + SumOver(d, U \ {x}) BY <1>1, <1>2, SumSplit
<1>4. SumOver(d, S) = SumOver(c, S) BY SumEqual
<1>5. SumOver(c, S) \in Nat BY SumNat
<1> QED BY <1>1, <1>2, <1>3, <1>4, <1>5 DEF U

=============================================================================
