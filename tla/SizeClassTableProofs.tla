------------------------ MODULE SizeClassTableProofs ------------------------
(***************************************************************************)
(* Proofs about SizeClassTable: the binary search is right for every        *)
(* request.  The table and the search are recursive functions; that there   *)
(* are such functions is shown by giving them, and what they compute by     *)
(* looking at the least argument where it would be something else.          *)
(***************************************************************************)
EXTENDS SizeClassTable, WellFoundedInduction, TLAPS

\* A set of numbers that is not empty has a least one: what stands for induction below.
LEMMA LeastNumber ==
  ASSUME NEW T, T \subseteq Nat, T # {}
  PROVE  \E m \in T : \A n \in T : m <= n
<1>1. PICK m \in T : \A n \in T : <<n, m>> \notin OpToRel(<, Nat)
  BY NatLessThanWellFounded, WFMin
<1>2. \A n \in T : <<n, m>> \notin OpToRel(<, Nat) => m <= n
  BY <1>1 DEF OpToRel
<1> QED
  BY <1>1, <1>2

-----------------------------------------------------------------------------
(* The table *)

\* The size after `size` in the table, at place i.
NextSize(i, size) == IF i <= 16 THEN size + 8 ELSE Grown(size)

LEMMA TableExists ==
  ASSUME NEW n \in Nat
  PROVE  \E f : f = [i \in 0 .. n |-> IF i = 0 THEN 8 ELSE NextSize(i, f[i - 1])]
<1> DEFINE Fails == {k \in Nat :
             ~ \E f : f = [i \in 0 .. k |-> IF i = 0 THEN 8 ELSE NextSize(i, f[i - 1])]}
<1> SUFFICES ASSUME Fails # {} PROVE FALSE
  OBVIOUS
<1>1. PICK k \in Fails : \A m \in Fails : k <= m
  BY LeastNumber
<1>2. CASE k = 0
  <2> DEFINE f == [i \in 0 .. k |-> 8]
  <2>1. f = [i \in 0 .. k |-> IF i = 0 THEN 8 ELSE NextSize(i, f[i - 1])]
    BY <1>2
  <2> QED
    BY <2>1
<1>3. CASE k # 0
  <2>1. k - 1 \in Nat /\ k - 1 \notin Fails
    <3>1. k \in Nat
      OBVIOUS
    <3> HIDE DEF Fails
    <3> QED
      BY <1>1, <1>3, <3>1
  <2>2. PICK g : g = [i \in 0 .. k - 1 |-> IF i = 0 THEN 8 ELSE NextSize(i, g[i - 1])]
    BY <2>1
  <2> DEFINE f == [i \in 0 .. k |-> IF i = k THEN NextSize(k, g[k - 1]) ELSE g[i]]
  <2>3. \A i \in 0 .. k : f[i] = IF i = 0 THEN 8 ELSE NextSize(i, f[i - 1])
    <3> SUFFICES ASSUME NEW i \in 0 .. k
                 PROVE  f[i] = IF i = 0 THEN 8 ELSE NextSize(i, f[i - 1])
      OBVIOUS
    <3>1. CASE i = k
      <4>1. f[k - 1] = g[k - 1]
        BY <2>1, <1>3
      <4> QED
        BY <3>1, <4>1, <1>3
    <3>2. CASE i # k /\ i = 0
      BY <3>2, <2>2, <2>1
    <3>3. CASE i # k /\ i # 0
      <4>1. i \in 0 .. k - 1 /\ i - 1 \in 0 .. k - 1 /\ i - 1 # k
        BY <3>3, <2>1
      <4>2. f[i - 1] = g[i - 1] /\ f[i] = g[i]
        BY <4>1, <3>3
      <4>3. g[i] = NextSize(i, g[i - 1])
        BY <4>1, <3>3, <2>2
      <4> QED
        BY <4>2, <4>3, <3>3
    <3> QED
      BY <3>1, <3>2, <3>3
  <2>4. f = [i \in 0 .. k |-> IF i = 0 THEN 8 ELSE NextSize(i, f[i - 1])]
    <3> HIDE DEF f
    <3>1. f = [i \in 0 .. k |-> f[i]]
      BY DEF f
    <3> QED
      BY <3>1, <2>3, Zenon
  <2> QED
    BY <2>4
<1> QED
  BY <1>2, <1>3

LEMMA TableSteps ==
  /\ table[0] = 8
  /\ \A i \in 1 .. 35 : table[i] = NextSize(i, table[i - 1])
<1>1. ClassIds = 0 .. 35
  BY DEF ClassIds, CLASS_COUNT
<1> DEFINE Def(f) == f = [i \in 0 .. 35 |-> IF i = 0 THEN 8 ELSE NextSize(i, f[i - 1])]
<1>2. table = CHOOSE f : f = [i \in ClassIds |-> IF i = 0 THEN 8
                                 ELSE IF i <= 16 THEN f[i - 1] + 8 ELSE Grown(f[i - 1])]
  BY Zenon DEF table
<1>3. \A f : f = [i \in ClassIds |-> IF i = 0 THEN 8
                    ELSE IF i <= 16 THEN f[i - 1] + 8 ELSE Grown(f[i - 1])] <=> Def(f)
  BY <1>1, Zenon DEF NextSize
<1>4. \E f : Def(f)
  BY TableExists
<1>5. Def(table)
  <2> HIDE DEF Def
  <2>1. \E f : f = [i \in ClassIds |-> IF i = 0 THEN 8
                      ELSE IF i <= 16 THEN f[i - 1] + 8 ELSE Grown(f[i - 1])]
    BY <1>3, <1>4, Zenon
  <2>2. table = [i \in ClassIds |-> IF i = 0 THEN 8
                   ELSE IF i <= 16 THEN table[i - 1] + 8 ELSE Grown(table[i - 1])]
    BY <2>1, <1>2, Zenon
  <2> QED
    BY <2>2, <1>3, Zenon
<1> DEFINE t == table
<1> HIDE DEF t
<1>6. t = [i \in 0 .. 35 |-> IF i = 0 THEN 8 ELSE NextSize(i, t[i - 1])]
  BY <1>5 DEF t
<1>7. ASSUME NEW i \in 1 .. 35 PROVE t[i] = NextSize(i, t[i - 1])
  <2>1. i \in 0 .. 35 /\ i # 0
    OBVIOUS
  <2> QED
    BY <2>1, <1>6, Zenon
<1>8. t[0] = 8
  <2>1. 0 \in 0 .. 35
    OBVIOUS
  <2> QED
    BY <2>1, <1>6, Zenon
<1> QED
  BY <1>7, <1>8 DEF t

LEMMA NextSizeGrows ==
  ASSUME NEW i \in Nat, NEW size \in Nat, size >= 8
  PROVE  NextSize(i, size) \in Nat /\ NextSize(i, size) > size
<1>1. CASE i <= 16
  BY <1>1 DEF NextSize
<1>2. CASE ~ (i <= 16)
  <2> DEFINE g == (size * 5) \div 4
  <2>1. g \in Nat /\ g > size
    OBVIOUS
  <2> HIDE DEF g
  <2>2. ((g + 7) \div 8) * 8 \in Nat /\ ((g + 7) \div 8) * 8 >= g
    BY <2>1
  <2>3. NextSize(i, size) = ((g + 7) \div 8) * 8
    BY <1>2 DEF NextSize, Grown, RoundUp8, g
  <2> QED
    BY <2>1, <2>2, <2>3
<1> QED
  BY <1>1, <1>2

\* The sizes are natural numbers from 8 on.
LEMMA TableSizes ==
  \A i \in 0 .. 35 : table[i] \in Nat /\ table[i] >= 8
<1> DEFINE Bad == {i \in 0 .. 35 : ~ (table[i] \in Nat /\ table[i] >= 8)}
<1> SUFFICES ASSUME Bad # {} PROVE FALSE
  OBVIOUS
<1>1. PICK i \in Bad : \A j \in Bad : i <= j
  <2>1. Bad \subseteq Nat
    OBVIOUS
  <2> HIDE DEF Bad
  <2> QED
    BY <2>1, LeastNumber
<1>2. i # 0
  BY TableSteps
<1>3. i \in 1 .. 35 /\ i - 1 \in 0 .. 35 /\ i - 1 \notin Bad
  <2>1. i \in 1 .. 35
    BY <1>2
  <2>2. i - 1 \in 0 .. 35 /\ ~ (i <= i - 1)
    BY <2>1
  <2> HIDE DEF Bad
  <2> QED
    BY <1>1, <2>1, <2>2
<1>4. table[i - 1] \in Nat /\ table[i - 1] >= 8 /\ table[i] = NextSize(i, table[i - 1])
  BY <1>3, TableSteps
<1>5. i \in Nat
  BY <1>3
<1>6. table[i] \in Nat /\ table[i] > table[i - 1]
  <2> HIDE DEF Bad
  <2> QED
    BY <1>4, <1>5, NextSizeGrows
<1> QED
  BY <1>3, <1>4, <1>6

\* Each class is larger than the one before, so that the table can be searched.
LEMMA TableIncreases ==
  ASSUME NEW j \in 0 .. 35, NEW i \in 0 .. 35, i < j
  PROVE  table[i] < table[j]
<1> DEFINE Bad == {k \in 0 .. 35 : i < k /\ ~ (table[i] < table[k])}
<1> SUFFICES ASSUME Bad # {} PROVE FALSE
  OBVIOUS
<1>1. PICK k \in Bad : \A m \in Bad : k <= m
  <2>1. Bad \subseteq Nat
    OBVIOUS
  <2> HIDE DEF Bad
  <2> QED
    BY <2>1, LeastNumber
<1>2. k \in 1 .. 35 /\ k - 1 \in 0 .. 35 /\ k - 1 \notin Bad /\ i <= k - 1
  <2>1. k \in 1 .. 35 /\ i <= k - 1
    OBVIOUS
  <2>2. k - 1 \in 0 .. 35 /\ ~ (k <= k - 1)
    BY <2>1
  <2> HIDE DEF Bad
  <2> QED
    BY <1>1, <2>1, <2>2
<1>3. table[k] > table[k - 1] /\ table[k] \in Nat /\ table[k - 1] \in Nat /\ table[i] \in Nat
  <2>1. /\ table[k - 1] \in Nat /\ table[k - 1] >= 8 /\ table[k] = NextSize(k, table[k - 1])
        /\ table[i] \in Nat /\ k \in Nat
    BY <1>2, TableSteps, TableSizes
  <2> HIDE DEF Bad
  <2> QED
    BY <2>1, NextSizeGrows
<1>4. i = k - 1 \/ table[i] < table[k - 1]
  BY <1>2
<1> QED
  BY <1>3, <1>4

\* Up to class 16 the sizes are the multiples of 8.
LEMMA TableLinear ==
  \A i \in 0 .. 16 : table[i] = 8 * i + 8
<1> DEFINE Bad == {i \in 0 .. 16 : table[i] # 8 * i + 8}
<1> SUFFICES ASSUME Bad # {} PROVE FALSE
  OBVIOUS
<1>1. PICK i \in Bad : \A j \in Bad : i <= j
  <2>1. Bad \subseteq Nat
    OBVIOUS
  <2> HIDE DEF Bad
  <2> QED
    BY <2>1, LeastNumber
<1>2. i # 0
  BY TableSteps
<1>3. i \in 1 .. 16 /\ i - 1 \in 0 .. 16 /\ i - 1 \notin Bad
  <2>1. i \in 1 .. 16
    BY <1>2
  <2>2. i - 1 \in 0 .. 16 /\ ~ (i <= i - 1)
    BY <2>1
  <2> HIDE DEF Bad
  <2> QED
    BY <1>1, <2>1, <2>2
<1>4. table[i - 1] = 8 * (i - 1) + 8
  BY <1>3
<1>5. table[i] = table[i - 1] + 8
  BY <1>3, TableSteps DEF NextSize
<1> QED
  BY <1>3, <1>4, <1>5

-----------------------------------------------------------------------------
(* The search *)

\* The classes from left on that could be the answer of the search up to right.
Candidates(left, right, size) ==
  {c \in left .. right : c = right \/ ~ TooSmall(c, size)}

\* The answer: the first of them.
Tightest(left, right, size) ==
  IF left >= right THEN left
  ELSE CHOOSE c \in Candidates(left, right, size) :
         \A d \in Candidates(left, right, size) : c <= d

LEMMA TightestFacts ==
  ASSUME NEW left \in 0 .. 36, NEW right \in 0 .. 36, left < right, NEW size
  PROVE  LET c == Tightest(left, right, size)
         IN  /\ c \in left .. right
             /\ c < right => ~ TooSmall(c, size)
             /\ \A d \in left .. right : d < c => TooSmall(d, size)
<1> DEFINE C == Candidates(left, right, size)
           c == CHOOSE k \in C : \A d \in C : k <= d
<1>1. right \in C /\ C \subseteq Nat
  BY DEF Candidates
<1>2. \E k \in C : \A d \in C : k <= d
  <2> HIDE DEF C
  <2> QED
    BY <1>1, LeastNumber
<1>3. c \in C /\ \A d \in C : c <= d
  BY <1>2
<1>4. Tightest(left, right, size) = c
  BY DEF Tightest
<1> HIDE DEF c
<1>5. /\ c \in left .. right /\ (c < right => ~ TooSmall(c, size))
      /\ \A d \in left .. right : d < c => TooSmall(d, size)
  <2>1. c \in left .. right /\ (c = right \/ ~ TooSmall(c, size))
    BY <1>3 DEF Candidates
  <2>2. ASSUME NEW d \in left .. right, d < c PROVE TooSmall(d, size)
    <3>1. ~ (c <= d)
      BY <2>1, <2>2
    <3>2. d \notin C
      BY <1>3, <3>1
    <3> QED
      BY <3>2 DEF Candidates
  <2> QED
    BY <2>1, <2>2
<1> QED
  BY <1>4, <1>5

LEMMA TightestUnique ==
  ASSUME NEW left \in 0 .. 36, NEW right \in 0 .. 36, left <= right, NEW size,
         NEW c \in left .. right, c < right => ~ TooSmall(c, size),
         \A d \in left .. right : d < c => TooSmall(d, size)
  PROVE  Tightest(left, right, size) = c
<1>1. CASE left < right
  <2> DEFINE k == Tightest(left, right, size)
  <2>1. /\ k \in left .. right /\ (k < right => ~ TooSmall(k, size))
        /\ \A d \in left .. right : d < k => TooSmall(d, size)
    BY <1>1, TightestFacts
  <2> HIDE DEF k
  <2>2. ~ (k < c) /\ ~ (c < k)
    BY <2>1
  <2>3. k = c
    BY <2>1, <2>2
  <2> QED
    BY <2>3 DEF k
<1>2. CASE left = right
  BY <1>2 DEF Tightest
<1> QED
  BY <1>1, <1>2

\* One step of the search does not change the answer.
LEMMA TightestHalves ==
  ASSUME NEW left \in 0 .. 36, NEW right \in 0 .. 36, left < right, NEW size \in Nat
  PROVE  LET mid == (left + right) \div 2
         IN  /\ mid \in left .. right /\ mid < right /\ mid \in 0 .. 36 /\ mid + 1 \in 0 .. 36
             /\ Tightest(left, right, size) =
                  IF TooSmall(mid, size) THEN Tightest(mid + 1, right, size)
                  ELSE Tightest(left, mid, size)
<1> DEFINE mid == (left + right) \div 2
           c == Tightest(left, right, size)
<1>1. mid \in left .. right /\ mid < right /\ mid \in 0 .. 35 /\ mid + 1 \in 0 .. 36
  OBVIOUS
<1>2. /\ c \in left .. right /\ (c < right => ~ TooSmall(c, size))
      /\ \A d \in left .. right : d < c => TooSmall(d, size)
  BY TightestFacts
<1> HIDE DEF mid, c
<1>0. mid \in 0 .. 36
  BY <1>1
<1>3. CASE TooSmall(mid, size)
  <2>1. \A d \in 0 .. 35 : d <= mid => TooSmall(d, size)
    BY <1>1, <1>3, TableSizes, TableIncreases DEF TooSmall
  <2>2. c \in mid + 1 .. right
    <3>1. CASE c = right
      BY <3>1, <1>1
    <3>2. CASE c < right
      <4>1. c \in 0 .. 35 /\ ~ TooSmall(c, size)
        BY <3>2, <1>2
      <4>2. ~ (c <= mid)
        BY <4>1, <2>1
      <4> QED
        BY <4>1, <4>2, <1>1, <1>2
    <3> QED
      BY <3>1, <3>2, <1>2
  <2>3. \A d \in mid + 1 .. right : d < c => TooSmall(d, size)
    BY <1>1, <1>2
  <2>4. Tightest(mid + 1, right, size) = c
    <3>1. mid + 1 \in 0 .. 36 /\ mid + 1 <= right
      BY <1>1
    <3> DEFINE l == mid + 1
    <3>2. l \in 0 .. 36 /\ l <= right /\ c \in l .. right
      BY <3>1, <2>2
    <3>3. \A d \in l .. right : d < c => TooSmall(d, size)
      BY <2>3
    <3> HIDE DEF l
    <3>4. Tightest(l, right, size) = c
      BY <3>2, <3>3, <1>2, TightestUnique
    <3> QED
      BY <3>4 DEF l
  <2> QED
    BY <1>0, <1>1, <1>3, <2>4 DEF mid, c
<1>4. CASE ~ TooSmall(mid, size)
  <2>1. c \in left .. mid
    BY <1>1, <1>2, <1>4
  <2>2. (c < mid => ~ TooSmall(c, size)) /\ \A d \in left .. mid : d < c => TooSmall(d, size)
    BY <1>1, <1>2, <2>1
  <2>3. Tightest(left, mid, size) = c
    <3>1. mid \in 0 .. 36 /\ left <= mid
      BY <1>1
    <3> QED
      BY <3>1, <2>1, <2>2, TightestUnique
  <2> QED
    BY <1>0, <1>1, <1>4, <2>3 DEF mid, c
<1> QED
  BY <1>3, <1>4

\* The search from left to right, as the code does it.
SearchDef(f, size) ==
  f = [range \in (0 .. CLASS_COUNT) \X (0 .. CLASS_COUNT) |->
        LET left  == range[1]
            right == range[2]
            mid   == (left + right) \div 2
        IN  IF left >= right THEN left
            ELSE IF TooSmall(mid, size) THEN f[<<mid + 1, right>>]
            ELSE f[<<left, mid>>]]

LEMMA SearchExists ==
  ASSUME NEW size \in Nat
  PROVE  \E f : SearchDef(f, size)
<1> DEFINE f == [range \in (0 .. CLASS_COUNT) \X (0 .. CLASS_COUNT) |->
                   Tightest(range[1], range[2], size)]
<1>0. CLASS_COUNT = 36
  BY DEF CLASS_COUNT
<1>1. ASSUME NEW left \in 0 .. 36, NEW right \in 0 .. 36
      PROVE  f[<<left, right>>] = Tightest(left, right, size)
  BY <1>0, <1>1
<1>2. ASSUME NEW left \in 0 .. 36, NEW right \in 0 .. 36
      PROVE  Tightest(left, right, size) =
               LET mid == (left + right) \div 2
               IN  IF left >= right THEN left
                   ELSE IF TooSmall(mid, size) THEN f[<<mid + 1, right>>]
                   ELSE f[<<left, mid>>]
  <2>1. CASE left >= right
    BY <2>1 DEF Tightest
  <2>2. CASE ~ (left >= right)
    <3> DEFINE mid == (left + right) \div 2
    <3>0. left < right
      BY <2>2
    <3>1. /\ mid \in left .. right /\ mid \in 0 .. 36 /\ mid + 1 \in 0 .. 36
          /\ Tightest(left, right, size) =
               IF TooSmall(mid, size) THEN Tightest(mid + 1, right, size)
               ELSE Tightest(left, mid, size)
      <4> HIDE DEF f
      <4> QED
        BY <3>0, TightestHalves, Zenon
    <3>2. /\ f[<<mid + 1, right>>] = Tightest(mid + 1, right, size)
          /\ f[<<left, mid>>] = Tightest(left, mid, size)
      BY <3>1, <1>1
    <3> HIDE DEF f
    <3> QED
      BY <2>2, <3>1, <3>2
  <2> QED
    BY <2>1, <2>2
<1>3. ASSUME NEW range \in (0 .. 36) \X (0 .. 36)
      PROVE  f[range] =
               LET left  == range[1]
                   right == range[2]
                   mid   == (left + right) \div 2
               IN  IF left >= right THEN left
                   ELSE IF TooSmall(mid, size) THEN f[<<mid + 1, right>>]
                   ELSE f[<<left, mid>>]
  <2> DEFINE left == range[1]
             right == range[2]
  <2>1. left \in 0 .. 36 /\ right \in 0 .. 36
    OBVIOUS
  <2>2. f[range] = Tightest(left, right, size)
    BY <1>0
  <2> HIDE DEF f, left, right
  <2>3. Tightest(left, right, size) =
               LET mid == (left + right) \div 2
               IN  IF left >= right THEN left
                   ELSE IF TooSmall(mid, size) THEN f[<<mid + 1, right>>]
                   ELSE f[<<left, mid>>]
    BY <2>1, <1>2
  <2> QED
    BY <2>2, <2>3, Zenon DEF left, right
<1>4. SearchDef(f, size)
  <2>1. f = [range \in (0 .. CLASS_COUNT) \X (0 .. CLASS_COUNT) |-> f[range]]
    OBVIOUS
  <2> HIDE DEF f
  <2> QED
    BY <2>1, <1>0, <1>3, Zenon DEF SearchDef
<1> QED
  BY <1>4

LEMMA SearchFinds ==
  ASSUME NEW size \in Nat
  PROVE  size_to_class(size) = IF size <= 8 THEN 0 ELSE Tightest(0, 36, size)
<1> DEFINE search == CHOOSE f : SearchDef(f, size)
<1>0. CLASS_COUNT = 36
  BY DEF CLASS_COUNT
<1>1. size_to_class(size) = IF size <= 8 THEN 0 ELSE search[<<0, CLASS_COUNT>>]
  BY Zenon DEF size_to_class, SearchDef
<1>2. SearchDef(search, size)
  BY SearchExists
<1> HIDE DEF search
<1>3. ASSUME NEW left \in 0 .. 36, NEW right \in 0 .. 36
      PROVE  search[<<left, right>>] =
               LET mid == (left + right) \div 2
               IN  IF left >= right THEN left
                   ELSE IF TooSmall(mid, size) THEN search[<<mid + 1, right>>]
                   ELSE search[<<left, mid>>]
  BY <1>0, <1>2 DEF SearchDef
<1> DEFINE Bad == {k \in Nat : \E left, right \in 0 .. 36 :
                     /\ k = right - left
                     /\ search[<<left, right>>] # Tightest(left, right, size)}
<1>4. Bad = {}
  <2> SUFFICES ASSUME Bad # {} PROVE FALSE
    OBVIOUS
  <2>1. PICK k \in Bad : \A j \in Bad : k <= j
    BY LeastNumber
  <2>2. PICK left \in 0 .. 36, right \in 0 .. 36 :
          k = right - left /\ search[<<left, right>>] # Tightest(left, right, size)
    OBVIOUS
  <2> HIDE DEF Bad
  <2>3. left < right
    <3>1. CASE left >= right
      <4>1. search[<<left, right>>] = left
        BY <3>1, <1>3
      <4> QED
        BY <3>1, <4>1, <2>2 DEF Tightest
    <3>2. left >= right \/ left < right
      OBVIOUS
    <3> QED
      BY <3>1, <3>2
  <2> DEFINE mid == (left + right) \div 2
  <2>4. /\ mid \in left .. right /\ mid < right /\ mid \in 0 .. 36 /\ mid + 1 \in 0 .. 36
        /\ Tightest(left, right, size) =
             IF TooSmall(mid, size) THEN Tightest(mid + 1, right, size)
             ELSE Tightest(left, mid, size)
    BY <2>3, TightestHalves, Zenon
  <2>5. search[<<left, right>>] =
          IF TooSmall(mid, size) THEN search[<<mid + 1, right>>] ELSE search[<<left, mid>>]
    <3>1. ~ (left >= right)
      BY <2>3
    <3> QED
      BY <3>1, <1>3
  <2> HIDE DEF mid
  <2>6. ASSUME NEW l \in 0 .. 36, NEW r \in 0 .. 36, l <= r, r - l < k
        PROVE  search[<<l, r>>] = Tightest(l, r, size)
    <3>1. r - l \in Nat /\ k \in Nat /\ ~ (k <= r - l)
      BY <2>6, <2>2, <2>3
    <3>2. r - l \notin Bad
      BY <3>1, <2>1
    <3> QED
      BY <3>1, <3>2 DEF Bad
  <2>7. search[<<left, mid>>] = Tightest(left, mid, size)
    <3>1. left <= mid /\ mid - left < k
      BY <2>2, <2>4
    <3> QED
      BY <3>1, <2>4, <2>6
  <2>8. search[<<mid + 1, right>>] = Tightest(mid + 1, right, size)
    <3>1. mid + 1 <= right /\ right - (mid + 1) < k
      BY <2>2, <2>4
    <3> QED
      BY <3>1, <2>4, <2>6
  <2> QED
    BY <2>2, <2>4, <2>5, <2>7, <2>8
<1>5. search[<<0, 36>>] = Tightest(0, 36, size)
  <2>1. 36 \notin Bad
    BY <1>4
  <2> QED
    BY <2>1
<1> QED
  BY <1>0, <1>1, <1>5

-----------------------------------------------------------------------------
(* The theorems *)

LEMMA ClassOfRequest ==
  ASSUME NEW size \in Nat \ {0}
  PROVE  LET c == size_to_class(size)
         IN  /\ c \in 0 .. 36
             /\ c < 36 => table[c] >= size
             /\ \A d \in 0 .. 35 : d < c => table[d] < size
<1> DEFINE c == Tightest(0, 36, size)
<1>1. CASE size <= 8
  <2>1. size_to_class(size) = 0
    BY <1>1, SearchFinds
  <2> QED
    BY <2>1, <1>1, TableSteps
<1>2. CASE ~ (size <= 8)
  <2>1. size_to_class(size) = c
    BY <1>2, SearchFinds
  <2>2. /\ c \in 0 .. 36 /\ (c < 36 => ~ TooSmall(c, size))
        /\ \A d \in 0 .. 36 : d < c => TooSmall(d, size)
    BY TightestFacts
  <2> HIDE DEF c
  <2>3. c < 36 => table[c] >= size
    BY <2>2, TableSizes DEF TooSmall
  <2>4. \A d \in 0 .. 35 : d < c => table[d] < size
    BY <2>2 DEF TooSmall
  <2> QED
    BY <2>1, <2>2, <2>3, <2>4
<1> QED
  BY <1>1, <1>2

\* No caller asks for nothing.
Positive == request \in Nat \ {0}

LEMMA RequestsPositive == RequestSpec => []Positive
<1>1. RequestInit => Positive
  BY DEF RequestInit, Positive
<1>2. Positive /\ [RequestNext]_request => Positive'
  BY DEF RequestNext, Positive
<1> QED
  BY <1>1, <1>2, PTL DEF RequestSpec

\* The binary search of size_to_class() finds the smallest class that holds a request, and
\* no class just when the request is larger than the largest one, for every request.
THEOREM SearchIsTight == RequestSpec => []TightestClass
<1>1. Positive => TightestClass
  <2> SUFFICES ASSUME request \in Nat \ {0} PROVE TightestClass
    BY DEF Positive
  <2> DEFINE c == size_to_class(request)
  <2>1. /\ c \in 0 .. 36 /\ (c < 36 => table[c] >= request)
        /\ \A d \in 0 .. 35 : d < c => table[d] < request
    BY ClassOfRequest
  <2> HIDE DEF c
  <2>2. IsLarge(request) <=> request > table[35]
    BY DEF IsLarge, class_to_size, CLASS_COUNT
  <2>3. c = 36 => request > table[35]
    BY <2>1, TableSizes
  <2>4. c # 36 => ~ (request > table[35])
    <3>1. c # 36 => c \in 0 .. 35 /\ table[c] >= request
      BY <2>1
    <3>2. c \in 0 .. 35 => table[c] <= table[35]
      BY TableSizes, TableIncreases
    <3> QED
      BY <3>1, <3>2, TableSizes
  <2>5. /\ c \in ClassIds => table[c] >= request
        /\ \A d \in ClassIds : d < c => table[d] < request
        /\ c = CLASS_COUNT <=> IsLarge(request)
    BY <2>1, <2>2, <2>3, <2>4 DEF ClassIds, CLASS_COUNT
  <2> QED
    BY <2>5 DEF TightestClass, c
<1> QED
  BY <1>1, RequestsPositive, PTL

\* Up to class 16 the jump table of get_initializer() and size_class_table agree, so that
\* the object is as large as the request and less than 8 bytes larger.
THEOREM SmallRequestsFit == RequestSpec => []SmallObjectsFit
<1>1. ASSUME NEW c \in 0 .. 16 PROVE ObjectSize(c) = 8 * c + 8
  BY DEF ObjectSize, init_table
<1>2. Positive => SmallObjectsFit
  <2> SUFFICES ASSUME request \in Nat \ {0} PROVE SmallObjectsFit
    BY DEF Positive
  <2> DEFINE c == size_to_class(request)
  <2>1. /\ c \in 0 .. 36 /\ (c < 36 => table[c] >= request)
        /\ \A d \in 0 .. 35 : d < c => table[d] < request
    BY ClassOfRequest
  <2> HIDE DEF c
  <2>2. ASSUME c <= 16
        PROVE  ObjectSize(c) >= request /\ ObjectSize(c) < request + 8
    <3>1. c \in 0 .. 16
      BY <2>1, <2>2
    <3>2. ObjectSize(c) = 8 * c + 8 /\ table[c] = 8 * c + 8 /\ table[c] >= request
      BY <1>1, <2>1, <3>1, TableLinear
    <3>3. 8 * c < request
      <4>1. CASE c = 0
        BY <4>1
      <4>2. CASE c # 0
        <5>1. c - 1 \in 0 .. 16 /\ c - 1 \in 0 .. 35 /\ c - 1 < c
          BY <3>1, <4>2
        <5>2. table[c - 1] = 8 * (c - 1) + 8 /\ table[c - 1] < request
          BY <5>1, <2>1, TableLinear
        <5> QED
          BY <5>2, <3>1
      <4> QED
        BY <4>1, <4>2
    <3> QED
      BY <3>1, <3>2, <3>3
  <2> QED
    BY <2>2 DEF SmallObjectsFit, c
<1> QED
  BY <1>2, RequestsPositive, PTL
=============================================================================
