----------------------------- MODULE NumberFacts ----------------------------
(***************************************************************************)
(* Natural numbers: a set of them that is not empty has a least member,    *)
(* and a greatest one if it is finite.  A claim about every number is      *)
(* proved from these by looking at the least counterexample, and a CHOOSE  *)
(* of the first or last of a set of numbers is known by them.  The models  *)
(* that number rows, files and attempts use both.  From them follow the    *)
(* first k members of an order, that a function is defined when each of    *)
(* its values is from the one before, and what holds all along it.         *)
(***************************************************************************)
EXTENDS Integers, FiniteSetTheorems, TLAPS

-----------------------------------------------------------------------------
(* First and last *)

\* A set of naturals that is not empty has a least member.
LEMMA SmallestOf ==
  ASSUME NEW S \in SUBSET Nat, S # {}
  PROVE  \E n \in S : \A m \in S : n <= m
<1> DEFINE less == {ss \in Nat \X Nat : ss[1] < ss[2]}
<1>1. IsWellFoundedOn(less, Nat)
  BY NatLessThanWellFounded DEF OpToRel
<1> HIDE DEF less
<1>2. PICK n \in S : \A m \in S : ~(<<m, n>> \in less)
  BY <1>1, WFMin
<1>3. \A m \in S : <<m, n>> \in less <=> m < n
  BY DEF less
<1>4. \A m \in S : n <= m
  <2> TAKE m \in S
  <2>1. ~(m < n)
    BY <1>2, <1>3
  <2>2. m \in Nat /\ n \in Nat
    OBVIOUS
  <2> QED BY <2>1, <2>2
<1> QED BY <1>4

\* A finite set of naturals that is not empty has a greatest member.
LEMMA GreatestOf ==
  ASSUME NEW S \in SUBSET Nat, S # {}, IsFiniteSet(S)
  PROVE  \E n \in S : \A m \in S : m <= n
<1>0. PICK n \in Nat : ExistsSurjection(1..n, S)
  BY FS_NatSurjection
<1>1. PICK f \in [1..n -> S] : \A s \in S : \E k \in 1..n : f[k] = s
  BY <1>0 DEF ExistsSurjection, Surjection
<1> DEFINE Bounds(k, b) == \A j \in 1..k : f[j] <= b
           T == {k \in 0..n : ~\E b \in Nat : Bounds(k, b)}
<1>2. T = {}
  <2> SUFFICES ASSUME T # {}
               PROVE  FALSE
    OBVIOUS
  <2>1. PICK k \in T : \A j \in T : k <= j
    <3>1. T \in SUBSET Nat
      OBVIOUS
    <3> HIDE DEF T
    <3> QED BY <3>1, SmallestOf
  <2>2. Bounds(0, 0)
    OBVIOUS
  <2>3. k # 0 /\ k \in 1..n /\ k - 1 \in 0..n
    BY <2>1, <2>2
  <2>4. k - 1 \notin T
    <3>1. ~(k <= k - 1)
      BY <2>3
    <3> HIDE DEF T
    <3> QED BY <2>1, <3>1
  <2>5. PICK b \in Nat : Bounds(k - 1, b)
    BY <2>3, <2>4
  <2>6. f[k] \in Nat
    BY <2>3
  <2>7. PICK c \in Nat : b <= c /\ f[k] <= c
    <3>1. \A x, y \in Nat : \E z \in Nat : x <= z /\ y <= z
      <4> TAKE x, y \in Nat
      <4> WITNESS x + y \in Nat
      <4> QED OBVIOUS
    <3> QED BY <2>6, <3>1
  <2>8. Bounds(k, c)
    <3> SUFFICES ASSUME NEW j \in 1..k
                 PROVE  f[j] <= c
      OBVIOUS
    <3>1. f[j] \in Nat
      <4>1. j \in 1..n
        BY <2>3
      <4> QED BY <4>1
    <3>2. CASE j = k
      BY <2>7, <3>2
    <3>3. CASE j # k
      <4>1. j \in 1..(k - 1)
        BY <2>3, <3>3
      <4>2. f[j] <= b
        BY <2>5, <4>1
      <4>3. \A x, y, z \in Nat : x <= y /\ y <= z => x <= z
        OBVIOUS
      <4> HIDE DEF Bounds, T
      <4> QED BY <2>7, <3>1, <4>2, <4>3
    <3> QED BY <3>2, <3>3
  <2> QED BY <2>1, <2>8
<1>3. PICK b \in Nat : Bounds(n, b)
  <2>1. n \in 0..n
    OBVIOUS
  <2> QED BY <1>2, <2>1
<1> DEFINE B == {c \in Nat : \A s \in S : s <= c}
<1>4. b \in B
  BY <1>1, <1>3
<1>5. PICK c \in B : \A d \in B : c <= d
  <2>1. B \in SUBSET Nat /\ B # {}
    BY <1>4
  <2> HIDE DEF B
  <2> QED BY <2>1, SmallestOf
<1>6. c \in S
  <2> SUFFICES ASSUME c \notin S
               PROVE  FALSE
    OBVIOUS
  <2>1. PICK s \in S : TRUE
    OBVIOUS
  <2>2. \A t \in S : t < c
    BY <1>5
  <2>3. c - 1 \in Nat /\ \A t \in S : t <= c - 1
    BY <2>1, <2>2
  <2>4. c - 1 \in B
    BY <2>3
  <2> QED BY <1>5, <2>4
<1> QED BY <1>5, <1>6

-----------------------------------------------------------------------------
(* The first of an order *)

\* What comes before each member, in an order that ranks any two members.
Ranks(before, S) ==
    /\ before \in [S -> SUBSET S]
    /\ \A x \in S : x \notin before[x]
    /\ \A x, y \in S : y \in before[x] => before[y] \subseteq before[x]
    /\ \A x, y \in S : x = y \/ x \in before[y] \/ y \in before[x]

FirstOf(before, S, k) == {x \in S : Cardinality(before[x]) < k}

\* The members with fewer than k before them are k, or all, and come before the others.
LEMMA FirstMembers ==
  ASSUME NEW S, IsFiniteSet(S), NEW before, Ranks(before, S), NEW k \in Nat,
         NEW first, first = FirstOf(before, S, k)
  PROVE  /\ first \subseteq S
         /\ IsFiniteSet(first) /\ Cardinality(first) \in Nat /\ Cardinality(first) <= k
         /\ first # S => Cardinality(first) = k
         /\ \A x \in first, y \in S \ first : x \in before[y]
<1> USE DEF Ranks, FirstOf
<1> DEFINE count(x) == Cardinality(before[x])
<1>1. \A x \in S : before[x] \subseteq S /\ IsFiniteSet(before[x]) /\ count(x) \in Nat
  BY FS_Subset, FS_CardinalityType
<1>2. ASSUME NEW x \in S, NEW y \in before[x]
      PROVE  y \in S /\ count(y) < count(x)
  <2>1. y \in S /\ before[y] \subseteq before[x]
    BY <1>1
  <2>2. before[y] # before[x]
    BY <2>1
  <2> QED BY <1>1, <2>1, <2>2, FS_Subset
<1>3. ASSUME NEW x \in S, NEW y \in S, x # y, count(x) <= count(y)
      PROVE  x \in before[y]
  <2>1. ~(y \in before[x])
    <3> SUFFICES ASSUME y \in before[x]
                 PROVE  FALSE
      OBVIOUS
    <3>1. count(y) < count(x)
      BY <1>2
    <3> QED BY <1>1, <1>3, <3>1
  <2> QED BY <1>3, <2>1
<1>4. first \subseteq S /\ IsFiniteSet(first) /\ Cardinality(first) \in Nat
  BY FS_Subset, FS_CardinalityType
<1>5. \A x \in S : x \in first <=> count(x) < k
  OBVIOUS
<1>6. \A x \in first, y \in S \ first : x \in before[y]
  BY <1>1, <1>3, <1>5
<1>7. CASE first = {}
  <2>1. Cardinality(first) = 0
    BY <1>7, FS_EmptySet
  <2>2. ASSUME first # S
        PROVE  k = 0
    <3> DEFINE counts == {count(x) : x \in S}
    <3>1. counts \in SUBSET Nat /\ counts # {}
      BY <1>1, <1>7, <2>2
    <3>2. PICK least \in counts : \A n \in counts : least <= n
      <4> HIDE DEF counts
      <4> QED BY <3>1, SmallestOf
    <3>3. PICK x \in S : \A y \in S : count(x) <= count(y)
      BY <3>2
    <3>4. before[x] = {}
      <4> SUFFICES ASSUME NEW y \in before[x]
                   PROVE  FALSE
        OBVIOUS
      <4>1. y \in S /\ count(y) < count(x) /\ count(x) <= count(y)
        BY <1>2, <3>3
      <4> QED BY <1>1, <4>1
    <3>5. count(x) = 0
      BY <3>4, FS_EmptySet
    <3> QED BY <1>5, <1>7, <3>5
  <2> QED BY <1>4, <1>6, <2>1, <2>2
<1>8. CASE first # {}
  <2> DEFINE counts == {count(x) : x \in first}
  <2>1. counts \subseteq 0..k /\ counts # {} /\ counts \in SUBSET Nat
    BY <1>1, <1>4, <1>5, <1>8
  <2>2. PICK most \in counts : \A n \in counts : n <= most
    <3>1. IsFiniteSet(0..k)
      BY FS_Interval
    <3> HIDE DEF counts
    <3>2. IsFiniteSet(counts)
      BY <2>1, <3>1, FS_Subset
    <3> QED BY <2>1, <3>2, GreatestOf
  <2>3. PICK last \in first : \A x \in first : count(x) <= count(last)
    BY <2>2
  <2>4. first \ {last} = before[last]
    <3>1. \A x \in first \ {last} : x \in before[last]
      BY <1>3, <1>4, <2>3
    <3>2. \A x \in before[last] : x \in first \ {last}
      <4> TAKE x \in before[last]
      <4>1. x \in S /\ count(x) < count(last) /\ last \in S /\ count(last) < k
        BY <1>2, <1>4, <1>5, <2>3
      <4> QED BY <1>1, <1>5, <4>1
    <3> QED BY <3>1, <3>2
  <2>5. Cardinality(first) - 1 = count(last)
    <3>1. Cardinality(first \ {last}) = Cardinality(first) - 1
      BY <1>4, <2>3, FS_RemoveElement
    <3> QED BY <2>4, <3>1
  <2>6. count(last) \in Nat /\ count(last) < k
    BY <1>1, <1>4, <1>5, <2>3
  <2>7. Cardinality(first) <= k
    BY <1>4, <2>5, <2>6
  <2>8. ASSUME first # S
        PROVE  k <= Cardinality(first)
    <3>1. PICK y \in S \ first : TRUE
      BY <1>4, <2>8
    <3>2. first \subseteq before[y]
      BY <1>6, <3>1
    <3> DEFINE others == {count(z) : z \in S \ first}
    <3>3. others \in SUBSET Nat /\ others # {}
      BY <1>1, <3>1
    <3>4. PICK least \in others : \A n \in others : least <= n
      <4> HIDE DEF others
      <4> QED BY <3>3, SmallestOf
    <3>5. PICK z \in S \ first : \A x \in S \ first : count(z) <= count(x)
      BY <3>4
    <3>6. before[z] \subseteq first
      <4> SUFFICES ASSUME NEW x \in before[z], x \notin first
                   PROVE  FALSE
        OBVIOUS
      <4>1. x \in S \ first /\ count(x) < count(z)
        BY <1>2, <3>5
      <4> QED BY <1>1, <3>5, <4>1
    <3>7. count(z) <= Cardinality(first)
      BY <1>4, <3>6, FS_Subset
    <3>8. k <= count(z) /\ count(z) \in Nat
      BY <1>1, <1>5, <3>5
    <3> QED BY <1>4, <3>7, <3>8
  <2> QED BY <1>4, <1>6, <2>7, <2>8
<1> QED BY <1>7, <1>8

-----------------------------------------------------------------------------
(* Functions defined from one number to the next *)

\* A function on 0..n that begins with start and follows the step.
Steps(n, X) == [(1..n) \X X -> X]

Unfolds(f, n, X, start, step) ==
    f \in [0..n -> X] /\ f[0] = start /\ \A i \in 1..n : f[i] = step[<<i, f[i - 1]>>]

\* There is one for every start and step.
LEMMA StepByStep ==
  ASSUME NEW X, NEW start \in X, NEW n \in Nat, NEW step \in Steps(n, X)
  PROVE  \E f : Unfolds(f, n, X, start, step)
<1> DEFINE Runs(k, f) == /\ f \in [0..k -> X] /\ f[0] = start
                         /\ \A i \in 1..k : f[i] = step[<<i, f[i - 1]>>]
           T == {k \in 0..n : ~\E f : Runs(k, f)}
<1>1. T = {}
  <2> SUFFICES ASSUME T # {}
               PROVE  FALSE
    OBVIOUS
  <2>1. PICK k \in T : \A j \in T : k <= j
    <3>1. T \in SUBSET Nat
      OBVIOUS
    <3> HIDE DEF T
    <3> QED BY <3>1, SmallestOf
  <2>2. k \in 0..n /\ ~\E f : Runs(k, f)
    BY <2>1
  <2>3. k # 0
    <3>1. Runs(0, [i \in 0..0 |-> start])
      OBVIOUS
    <3> HIDE DEF Runs
    <3> QED BY <2>2, <3>1
  <2>4. k - 1 \in 0..n /\ k - 1 < k
    BY <2>2, <2>3
  <2>5. k - 1 \notin T
    <3> HIDE DEF T
    <3> QED BY <2>1, <2>2, <2>4
  <2>6. PICK f : Runs(k - 1, f)
    <3> HIDE DEF Runs
    <3> QED BY <2>4, <2>5
  <2>7. f[k - 1] \in X /\ step[<<k, f[k - 1]>>] \in X
    BY <2>2, <2>3, <2>6 DEF Steps
  <2>8. PICK g : g = [i \in 0..k |-> IF i = k THEN step[<<k, f[k - 1]>>] ELSE f[i]]
    OBVIOUS
  <2>9. /\ g \in [0..k -> X] /\ g[k] = step[<<k, f[k - 1]>>]
        /\ \A i \in 0..(k - 1) : g[i] = f[i]
    BY <2>2, <2>6, <2>7, <2>8
  <2>10. ASSUME NEW i \in 1..k
         PROVE  g[i] = step[<<i, g[i - 1]>>]
    <3>1. g[i - 1] = f[i - 1]
      BY <2>2, <2>9
    <3>2. CASE i = k
      BY <2>9, <3>1, <3>2
    <3>3. CASE i # k
      <4>1. i \in 1..(k - 1) /\ i \in 0..(k - 1)
        BY <2>2, <3>3
      <4> QED BY <2>6, <2>9, <3>1, <4>1
    <3> QED BY <3>2, <3>3
  <2>11. g[0] = start
    BY <2>2, <2>3, <2>6, <2>9
  <2>12. Runs(k, g)
    BY <2>9, <2>10, <2>11
  <2> QED BY <2>2, <2>12
<1>2. PICK f : Runs(n, f)
  <2> HIDE DEF Runs
  <2>1. n \in 0..n /\ n \notin T
    BY <1>1
  <2> QED BY <2>1
<1> QED BY <1>2 DEF Unfolds

\* What holds at the start and after each step holds everywhere.
LEMMA HoldsAll ==
  ASSUME NEW n \in Nat, NEW holds \in [0..n -> BOOLEAN], holds[0],
         \A i \in 1..n : holds[i - 1] => holds[i]
  PROVE  \A i \in 0..n : holds[i]
<1> DEFINE T == {i \in 0..n : ~holds[i]}
<1> SUFFICES ASSUME T # {}
             PROVE  FALSE
  OBVIOUS
<1>1. PICK k \in T : \A j \in T : k <= j
  <2>1. T \in SUBSET Nat
    OBVIOUS
  <2> HIDE DEF T
  <2> QED BY <2>1, SmallestOf
<1>2. k \in 1..n /\ k - 1 \in 0..n /\ ~(k <= k - 1)
  BY <1>1
<1>3. k - 1 \notin T
  <2> HIDE DEF T
  <2> QED BY <1>1, <1>2
<1> QED BY <1>1, <1>2, <1>3

-----------------------------------------------------------------------------
(* Sums *)

\* What the first i numbers of a sequence add up to, for every i up to n.
SumsUp(s, n, sum) == sum = [i \in 0..n |-> IF i = 0 THEN 0 ELSE sum[i - 1] + s[i]]

SumOf(s, n) == (CHOOSE sum : SumsUp(s, n, sum))[n]

\* The sums are defined for every sequence.
LEMMA SumsExist ==
  ASSUME NEW n \in Nat, NEW s, \A i \in 1..n : s[i] \in Nat
  PROVE  \E sum : SumsUp(s, n, sum)
<1> DEFINE step == [p \in (1..n) \X Nat |-> p[2] + s[p[1]]]
<1>1. step \in [(1..n) \X Nat -> Nat]
  OBVIOUS
<1>2. \A i \in 1..n, x \in Nat : step[<<i, x>>] = x + s[i]
  OBVIOUS
<1> HIDE DEF step
<1>3. PICK f : Unfolds(f, n, Nat, 0, step)
  <2>1. step \in Steps(n, Nat) /\ 0 \in Nat
    BY <1>1 DEF Steps
  <2> QED BY <2>1, StepByStep
<1>4. \A i \in 0..n : f[i] = IF i = 0 THEN 0 ELSE f[i - 1] + s[i]
  <2> TAKE i \in 0..n
  <2>1. i # 0 => i \in 1..n /\ i - 1 \in 0..n /\ f[i - 1] \in Nat
    BY <1>3 DEF Unfolds
  <2> QED BY <1>2, <1>3, <2>1 DEF Unfolds
<1>5. f = [i \in 0..n |-> f[i]]
  BY <1>3 DEF Unfolds
<1>6. f = [i \in 0..n |-> IF i = 0 THEN 0 ELSE f[i - 1] + s[i]]
  BY <1>4, <1>5
<1> QED BY <1>6 DEF SumsUp

\* They are numbers, and a longer prefix has no smaller sum.
LEMMA SumFacts ==
  ASSUME NEW n \in Nat, NEW s, \A i \in 1..n : s[i] \in Nat, NEW sum, SumsUp(s, n, sum)
  PROVE  /\ sum[0] = 0
         /\ \A i \in 1..n : sum[i] = sum[i - 1] + s[i]
         /\ \A i \in 0..n : sum[i] \in Nat /\ sum[i] <= sum[n]
<1>1. sum[0] = 0 /\ \A i \in 1..n : sum[i] = sum[i - 1] + s[i]
  BY DEF SumsUp
<1> DEFINE holds == [i \in 0..n |-> sum[i] \in Nat /\ \A j \in 0..i : sum[j] \in Nat /\ sum[j] <= sum[i]]
<1>2. holds \in [0..n -> BOOLEAN]
  OBVIOUS
<1>3. holds[0]
  <2>1. 0 \in 0..n /\ 0..0 = {0} /\ sum[0] \in Nat /\ sum[0] <= sum[0]
    BY <1>1
  <2> QED BY <2>1
<1>4. ASSUME NEW i \in 1..n, holds[i - 1]
      PROVE  holds[i]
  <2>1. i - 1 \in 0..n /\ i \in 0..n /\ s[i] \in Nat
    OBVIOUS
  <2>2. sum[i - 1] \in Nat /\ \A j \in 0..(i - 1) : sum[j] \in Nat /\ sum[j] <= sum[i - 1]
    BY <1>4, <2>1
  <2>3. sum[i] \in Nat /\ sum[i - 1] <= sum[i]
    BY <1>1, <2>1, <2>2
  <2>4. ASSUME NEW j \in 0..i
        PROVE  sum[j] \in Nat /\ sum[j] <= sum[i]
    <3>1. CASE j = i
      BY <2>3, <3>1
    <3>2. CASE j # i
      <4>1. j \in 0..(i - 1)
        BY <3>2
      <4> QED BY <2>2, <2>3, <4>1
    <3> QED BY <3>1, <3>2
  <2> QED BY <2>1, <2>3, <2>4
<1> HIDE DEF holds
<1>5. \A i \in 0..n : holds[i]
  BY <1>2, <1>3, <1>4, HoldsAll
<1>6. n \in 0..n /\ holds[n]
  BY <1>5
<1>7. \A j \in 0..n : sum[j] \in Nat /\ sum[j] <= sum[n]
  BY <1>6 DEF holds
<1> QED BY <1>1, <1>7

\* Sequences that begin alike have the same sums so far.
LEMMA SumsAgree ==
  ASSUME NEW n \in Nat, NEW m \in Nat, n <= m, NEW s, NEW t, NEW a, NEW b,
         \A i \in 1..n : s[i] = t[i], SumsUp(s, n, a), SumsUp(t, m, b)
  PROVE  \A i \in 0..n : a[i] = b[i]
<1>1. a[0] = 0 /\ \A i \in 1..n : a[i] = a[i - 1] + s[i]
  BY DEF SumsUp
<1>2. b[0] = 0 /\ \A i \in 1..n : b[i] = b[i - 1] + t[i]
  BY DEF SumsUp
<1> DEFINE holds == [i \in 0..n |-> a[i] = b[i]]
<1>3. holds \in [0..n -> BOOLEAN] /\ holds[0]
  <2>1. holds \in [0..n -> BOOLEAN]
    OBVIOUS
  <2>2. 0 \in 0..n /\ a[0] = b[0]
    BY <1>1, <1>2
  <2> QED BY <2>1, <2>2
<1>4. ASSUME NEW i \in 1..n, holds[i - 1]
      PROVE  holds[i]
  <2>0. i - 1 \in 0..n /\ i \in 0..n
    OBVIOUS
  <2>1. i - 1 \in 0..n /\ i \in 0..n /\ a[i - 1] = b[i - 1]
    BY <1>4, <2>0
  <2>2. a[i] = b[i]
    BY <1>1, <1>2, <2>1
  <2> QED BY <2>1, <2>2
<1> HIDE DEF holds
<1>5. \A i \in 0..n : holds[i]
  BY <1>3, <1>4, HoldsAll
<1> QED BY <1>5 DEF holds

\* A sum is the one before it and the next number.
LEMMA SumOfFacts ==
  ASSUME NEW n \in Nat, NEW s, \A i \in 1..n : s[i] \in Nat
  PROVE  /\ SumOf(s, 0) = 0
         /\ \A i \in 1..n : SumOf(s, i) = SumOf(s, i - 1) + s[i]
         /\ \A i \in 0..n : SumOf(s, i) \in Nat
         /\ \A i, j \in 0..n : i <= j => SumOf(s, i) <= SumOf(s, j)
<1> DEFINE sums(i) == CHOOSE sum : SumsUp(s, i, sum)
<1>1. \A i \in 0..n : SumsUp(s, i, sums(i)) /\ SumOf(s, i) = sums(i)[i]
  <2> TAKE i \in 0..n
  <2>1. i \in Nat /\ \A j \in 1..i : s[j] \in Nat
    OBVIOUS
  <2> QED BY <2>1, SumsExist DEF SumOf
<1> HIDE DEF sums
<1>2. PICK all : all = sums(n)
  OBVIOUS
<1>3. SumsUp(s, n, all)
  BY <1>1, <1>2
<1>4. \A i \in 0..n : SumOf(s, i) = all[i]
  <2> TAKE i \in 0..n
  <2>1. i \in Nat /\ i <= n /\ i \in 0..i
    OBVIOUS
  <2>2. PICK part : part = sums(i)
    OBVIOUS
  <2>3. SumsUp(s, i, part)
    BY <1>1, <2>2
  <2>4. part[i] = all[i]
    BY <1>3, <2>1, <2>3, SumsAgree
  <2> QED BY <1>1, <2>2, <2>4
<1>5. all[0] = 0 /\ (\A i \in 1..n : all[i] = all[i - 1] + s[i]) /\ \A i \in 0..n : all[i] \in Nat
  BY <1>3, SumFacts
<1>6. ASSUME NEW i \in 0..n, NEW j \in 0..n, i <= j
      PROVE  SumOf(s, i) <= SumOf(s, j)
  <2>1. j \in Nat /\ i \in 0..j /\ \A k \in 1..j : s[k] \in Nat
    BY <1>6
  <2>2. PICK part : part = sums(j)
    OBVIOUS
  <2>3. SumsUp(s, j, part)
    BY <1>1, <2>2
  <2>4. part[i] <= part[j]
    BY <2>1, <2>3, SumFacts
  <2>5. part[i] = all[i] /\ part[j] = all[j]
    BY <1>3, <2>1, <2>3, SumsAgree
  <2> QED BY <1>4, <2>4, <2>5
<1>7. SumOf(s, 0) = 0 /\ \A i \in 0..n : SumOf(s, i) \in Nat
  BY <1>4, <1>5
<1>8. \A i \in 1..n : SumOf(s, i) = SumOf(s, i - 1) + s[i]
  <2> TAKE i \in 1..n
  <2>1. i \in 0..n /\ i - 1 \in 0..n
    OBVIOUS
  <2> QED BY <1>4, <1>5, <2>1
<1> QED BY <1>6, <1>7, <1>8

\* Sequences that begin alike have the same sum so far.
LEMMA SumOfSame ==
  ASSUME NEW n \in Nat, NEW s, NEW t, \A i \in 1..n : s[i] \in Nat /\ s[i] = t[i]
  PROVE  SumOf(s, n) = SumOf(t, n)
<1>1. PICK a : a = CHOOSE sum : SumsUp(s, n, sum)
  OBVIOUS
<1>2. PICK b : b = CHOOSE sum : SumsUp(t, n, sum)
  OBVIOUS
<1>3. SumsUp(s, n, a)
  BY <1>1, SumsExist
<1>4. SumsUp(t, n, b)
  <2>1. \A i \in 1..n : t[i] \in Nat
    OBVIOUS
  <2> QED BY <1>2, <2>1, SumsExist
<1>5. a[n] = b[n]
  <2>1. \A i \in 0..n : a[i] = b[i]
    BY <1>3, <1>4, SumsAgree
  <2> QED BY <2>1
<1> QED BY <1>1, <1>2, <1>5 DEF SumOf

=============================================================================
