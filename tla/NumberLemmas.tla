---------------------------- MODULE NumberLemmas ----------------------------
(* Facts about numbers that the proofs of several modules rest on.         *)
EXTENDS Integers, FiniteSetsExt, WellFoundedInduction, TLAPS

Less == {ss \in Nat \X Nat : ss[1] < ss[2]}

LEMMA LessWellFounded == IsWellFoundedOn(Less, Nat)
  BY NatLessThanWellFounded DEF OpToRel, Less

\* A set of natural numbers has a smallest element.
LEMMA LeastExists ==
  ASSUME NEW S \in SUBSET Nat, S # {}
  PROVE  \E x \in S : \A y \in S : x <= y
<1>1. \E x \in S : \A y \in S : ~ (<<y, x>> \in Less)
  BY LessWellFounded, WFMin
<1>2. \A x, y \in S : ~ (<<y, x>> \in Less) => x <= y
  BY DEF Less
<1> QED
  BY <1>1, <1>2

\* A function with natural values has a smallest one.
LEMMA LeastValue ==
  ASSUME NEW C, C # {}, NEW f \in [C -> Nat]
  PROVE  \E x \in C : \A y \in C : f[x] <= f[y]
<1> DEFINE V == {f[x] : x \in C}
<1>1. V \in SUBSET Nat /\ V # {}
  OBVIOUS
<1>2. \E m \in V : \A n \in V : m <= n
  <2> HIDE DEF V
  <2> QED
    BY <1>1, LeastExists
<1> QED
  BY <1>2

LEMMA MinExists ==
  ASSUME NEW S \in SUBSET Nat, S # {}
  PROVE  Min(S) \in S
  BY LeastExists DEF Min

\* Quotient and remainder
LEMMA DivIs ==
  ASSUME NEW x \in Nat, NEW b \in Nat \ {0}
  PROVE  /\ x \div b \in Nat /\ x % b \in 0 .. b - 1
         /\ x = (x \div b) * b + (x % b)
  BY Z3

LEMMA ProductGrows ==
  ASSUME NEW x \in Nat, NEW y \in Nat, NEW b \in Nat \ {0}, x < y
  PROVE  x * b + b <= y * b
<1>1. x + 1 <= y
  OBVIOUS
<1>2. (x + 1) * b <= y * b
  BY <1>1, Z3
<1> QED
  BY <1>2, Z3

\* Numbers less than b apart have the same remainder only if they are equal.
LEMMA SameRemainder ==
  ASSUME NEW x \in Nat, NEW y \in Nat, NEW b \in Nat \ {0},
         x % b = y % b, x < y + b, y < x + b
  PROVE  x = y
<1>0. x % b \in 0 .. b - 1 /\ x = (x \div b) * b + (x % b) /\ x \div b \in Nat
  BY DivIs
<1>1. /\ x = (x \div b) * b + (x % b) /\ x \div b \in Nat
      /\ y = (y \div b) * b + (y % b) /\ y \div b \in Nat
      /\ x % b \in Nat
  <2>1. y = (y \div b) * b + (y % b) /\ y \div b \in Nat  BY DivIs
  <2>2. x % b \in Nat  BY <1>0
  <2> QED  BY <1>0, <2>1, <2>2
<1>2. CASE x \div b < y \div b
  <2>1. (x \div b) * b + b <= (y \div b) * b  BY <1>1, <1>2, ProductGrows
  <2> QED  BY <1>1, <2>1
<1>3. CASE y \div b < x \div b
  <2>1. (y \div b) * b + b <= (x \div b) * b  BY <1>1, <1>3, ProductGrows
  <2> QED  BY <1>1, <2>1
<1>4. CASE x \div b = y \div b  BY <1>1, <1>4
<1> QED  BY <1>1, <1>2, <1>3, <1>4

\* A remainder is what is left of a multiple.
LEMMA RemainderIs ==
  ASSUME NEW q \in Nat, NEW b \in Nat \ {0}, NEW r \in 0 .. b - 1
  PROVE  (q * b + r) % b = r
<1> DEFINE x == q * b + r
<1>1. x \in Nat  BY Z3
<1>2. /\ x \div b \in Nat /\ x % b \in 0 .. b - 1 /\ x = (x \div b) * b + (x % b)
  <2> HIDE DEF x
  <2> QED  BY <1>1, DivIs
<1>3. CASE x \div b < q
  <2>1. (x \div b) * b + b <= q * b  BY <1>2, <1>3, ProductGrows
  <2> QED  BY <1>2, <2>1
<1>4. CASE q < x \div b
  <2>1. q * b + b <= (x \div b) * b  BY <1>2, <1>4, ProductGrows
  <2> QED  BY <1>2, <2>1
<1>5. CASE x \div b = q  BY <1>2, <1>5
<1> QED  BY <1>2, <1>3, <1>4, <1>5

\* One lap further the remainder is the same.
LEMMA NextLap ==
  ASSUME NEW x \in Nat, NEW b \in Nat \ {0}
  PROVE  (x + b) % b = x % b
<1>1. x = (x \div b) * b + (x % b) /\ x \div b \in Nat /\ x % b \in 0 .. b - 1
  BY DivIs
<1>2. x + b = (x \div b + 1) * b + (x % b)
  <2>1. (x \div b + 1) * b = (x \div b) * b + b  BY <1>1, Z3
  <2> QED  BY <1>1, <2>1
<1>3. x \div b + 1 \in Nat  BY <1>1
<1> QED  BY <1>1, <1>2, <1>3, RemainderIs

\* What is taken from the remainder
LEMMA LessRemainder ==
  ASSUME NEW x \in Nat, NEW b \in Nat \ {0}, NEW u \in Nat, u <= x % b
  PROVE  (x - u) % b = (x % b) - u
<1>1. x = (x \div b) * b + (x % b) /\ x \div b \in Nat /\ x % b \in 0 .. b - 1
  BY DivIs
<1>2. (x % b) - u \in 0 .. b - 1  BY <1>1
<1>3. x - u = (x \div b) * b + ((x % b) - u)
  <2>1. (x \div b) * b \in Int  BY <1>1, Z3
  <2> QED  BY <1>1, <2>1
<1> QED  BY <1>1, <1>2, <1>3, RemainderIs

\* A function can be defined on 0 .. N step by step.  step is a function of
\* the argument and the value before it.
Steps(N, first, step, f) ==
  f[0] = first /\ \A k \in 1 .. N : f[k] = step[<<k, f[k - 1]>>]

LEMMA Stepwise ==
  ASSUME NEW N \in Nat, NEW T, NEW first \in T, NEW step \in [(1 .. N) \X T -> T]
  PROVE  \E f \in [0 .. N -> T] : Steps(N, first, step, f)
<1> DEFINE Good(j, f) == /\ f[0] = first
                         /\ \A k \in 1 .. j : f[k] = step[<<k, f[k - 1]>>]
           Bad == {j \in 0 .. N : ~\E f \in [0 .. j -> T] : Good(j, f)}
<1>1. SUFFICES Bad = {}
  <2>1. N \notin Bad
    BY <1>1
  <2>2. \E f \in [0 .. N -> T] : Good(N, f)
    BY <2>1
  <2> QED
    BY <2>2 DEF Steps
<1>2. SUFFICES ASSUME Bad # {} PROVE FALSE
  OBVIOUS
<1>3. PICK j \in Bad : \A i \in Bad : j <= i
  <2>1. Bad \in SUBSET Nat
    OBVIOUS
  <2> HIDE DEF Bad
  <2> QED
    BY <1>2, <2>1, LeastExists
<1>4. CASE j = 0
  <2>1. [i \in 0 .. 0 |-> first] \in [0 .. 0 -> T] /\ Good(0, [i \in 0 .. 0 |-> first])
    OBVIOUS
  <2> HIDE DEF Good
  <2> QED
    BY <1>3, <1>4, <2>1
<1>5. CASE j # 0
  <2>1. j \in 1 .. N /\ j - 1 \in 0 .. N /\ j - 1 < j
    BY <1>3, <1>5
  <2>2. j - 1 \notin Bad
    BY <1>3, <2>1
  <2>3. PICK f \in [0 .. j - 1 -> T] : Good(j - 1, f)
    BY <2>1, <2>2
  <2> DEFINE g == [i \in 0 .. j |-> IF i < j THEN f[i] ELSE step[<<j, f[j - 1]>>]]
  <2>4. g \in [0 .. j -> T]
    <3>1. f[j - 1] \in T /\ step[<<j, f[j - 1]>>] \in T
      BY <2>1
    <3>2. \A i \in 0 .. j : i < j => f[i] \in T
      BY <2>1
    <3> QED
      BY <3>1, <3>2
  <2>5. Good(j, g)
    <3>1. \A i \in 0 .. j - 1 : g[i] = f[i]
      BY <2>1
    <3>2. g[j] = step[<<j, f[j - 1]>>]
      BY <2>1
    <3> HIDE DEF g
    <3>3. g[0] = first
      BY <2>1, <2>3, <3>1
    <3>4. ASSUME NEW k \in 1 .. j
          PROVE  g[k] = step[<<k, g[k - 1]>>]
      <4>1. CASE k = j
        BY <2>1, <3>1, <3>2, <4>1
      <4>2. CASE k # j
        <5>1. k \in 1 .. j - 1 /\ k - 1 \in 0 .. j - 1 /\ k \in 0 .. j - 1
          BY <2>1, <4>2
        <5> QED
          BY <2>3, <3>1, <5>1
      <4> QED
        BY <4>1, <4>2
    <3> QED
      BY <3>3, <3>4
  <2> HIDE DEF g, Good
  <2> QED
    BY <1>3, <2>4, <2>5
<1> QED
  BY <1>4, <1>5

=============================================================================
