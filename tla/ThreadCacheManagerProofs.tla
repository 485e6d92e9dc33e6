---------------------- MODULE ThreadCacheManagerProofs ----------------------
(***************************************************************************)
(* For any number of threads, classes, objects and places in a bin.  The    *)
(* first part is about the caches and the arena: an object has one owner,   *)
(* none is lost, no bin runs dry, and the caches with the arena are an      *)
(* object allocator.  Its assumptions are those of the runs: the arena      *)
(* supplies what it is asked for, and deallocate_batch, which forgets what  *)
(* it is given, is not used.                                                *)
(* The second part is about the life of the caches: no call uses a cache    *)
(* that was deleted, the registry names a cache for every id that has one,  *)
(* caches and arena are an object allocator through creations, deletions,   *)
(* ids that come back and calls after shutdown, every object that is lost   *)
(* is lost in one of the two known ways, and after shutdown() everything    *)
(* else that no caller holds is back in the arena.                          *)
(***************************************************************************)
EXTENDS ThreadCacheManager, TLAPS, FiniteSetTheorems

-----------------------------------------------------------------------------
(* The contents of the caches *)


OfClass(c) == {p \in Objects : p[1] = c}

\* The objects of a class are numbered: each set of them is finite, ...
LEMMA OneClassFinite ==
  ASSUME NEW c \in Classes, NEW S \in SUBSET OfClass(c)
  PROVE  IsFiniteSet(S) /\ Cardinality(S) \in Nat
<1> DEFINE f == [p \in S |-> p[2]]
<1>1. \A p \in S : p[2] \in 1 .. PerClass /\ p = <<c, p[2]>>
  BY DEF OfClass, Objects
<1>2. f \in Injection(S, 1 .. PerClass)
  <2>1. f \in [S -> 1 .. PerClass] BY <1>1
  <2>2. \A p, q \in S : f[p] = f[q] => p = q BY <1>1
  <2> HIDE DEF f
  <2> QED BY <2>1, <2>2 DEF Injection, IsInjective
<1> HIDE DEF f
<1>3. IsFiniteSet(1 .. PerClass) BY CacheAssumption, FS_Interval
<1>4. IsFiniteSet(S) BY <1>2, <1>3, FS_Injection
<1> QED BY <1>4, FS_CardinalityType

\* ... and Rank numbers it from 1.
LEMMA RankNumbers ==
  ASSUME NEW c \in Classes, NEW S \in SUBSET OfClass(c)
  PROVE  /\ \A p \in S : Rank(p, S) \in 1 .. Cardinality(S)
         /\ \A p, q \in S : Rank(p, S) = Rank(q, S) => p = q
         /\ \A k \in 1 .. Cardinality(S) : \E p \in S : Rank(p, S) = k
<1> DEFINE Below(p) == {q \in S : q[2] <= p[2]}
<1>1. IsFiniteSet(S) /\ Cardinality(S) \in Nat BY OneClassFinite
<1>2. \A p \in S : p[2] \in Nat /\ p = <<c, p[2]>>
  BY CacheAssumption DEF OfClass, Objects
<1>3. ASSUME NEW p \in S PROVE IsFiniteSet(Below(p)) /\ Rank(p, S) \in 1 .. Cardinality(S)
  <2>1. Below(p) \in SUBSET S /\ p \in Below(p) BY <1>2
  <2>2. /\ IsFiniteSet(Below(p)) /\ Cardinality(Below(p)) <= Cardinality(S)
        /\ Cardinality(Below(p)) \in Nat
    BY <1>1, <2>1, FS_Subset, FS_CardinalityType
  <2>3. Cardinality(Below(p)) # 0 BY <2>1, <2>2, FS_EmptySet
  <2> QED BY <1>1, <2>2, <2>3 DEF Rank
<1>4. ASSUME NEW p \in S, NEW q \in S, p[2] < q[2] PROVE Rank(p, S) # Rank(q, S)
  <2>1. Below(p) \in SUBSET Below(q) /\ q \in Below(q) /\ q \notin Below(p)
    BY <1>2, <1>4
  <2>2. Below(p) # Below(q) BY <2>1
  <2>3. IsFiniteSet(Below(q)) BY <1>3
  <2>4. Cardinality(Below(p)) # Cardinality(Below(q)) BY <2>1, <2>2, <2>3, FS_Subset
  <2> QED BY <2>4 DEF Rank
<1>5. ASSUME NEW p \in S, NEW q \in S, Rank(p, S) = Rank(q, S) PROVE p = q
  <2>1. ~ (p[2] < q[2]) /\ ~ (q[2] < p[2]) BY <1>4, <1>5
  <2>2. p[2] = q[2] BY <1>2, <2>1
  <2> QED BY <1>2, <2>2
<1> DEFINE f == [p \in S |-> Rank(p, S)]
<1>6. f \in Injection(S, 1 .. Cardinality(S))
  <2>1. f \in [S -> 1 .. Cardinality(S)] BY <1>3
  <2>2. \A p, q \in S : f[p] = f[q] => p = q BY <1>5
  <2> HIDE DEF f
  <2> QED BY <2>1, <2>2 DEF Injection, IsInjective
<1>7. f \in Surjection(S, 1 .. Cardinality(S))
  <2>1. IsFiniteSet(1 .. Cardinality(S)) /\ Cardinality(1 .. Cardinality(S)) = Cardinality(S)
    BY <1>1, FS_Interval
  <2> HIDE DEF f
  <2> QED BY <1>6, <2>1, FS_Injection
<1>8. \A k \in 1 .. Cardinality(S) : \E p \in S : Rank(p, S) = k
  <2>1. \A k \in 1 .. Cardinality(S) : \E p \in S : f[p] = k
    <3> HIDE DEF f
    <3> QED BY <1>7 DEF Surjection
  <2> QED BY <2>1
<1> QED BY <1>3, <1>5, <1>8

\* An arena that is never short hands out just as many objects as it is asked for.
LEMMA SupplyExact ==
  ASSUME ~ArenaShort, NEW pool \in SUBSET Objects, NEW c \in Classes, NEW n \in Nat,
         NEW S \in Supplies(pool, c, n)
  PROVE  S \subseteq pool /\ S \in SUBSET OfClass(c) /\ Cardinality(S) = n
<1> DEFINE F == {p \in pool : p[1] = c}
           f == [p \in S |-> Rank(p, F)]
<1>1. F \in SUBSET OfClass(c) BY DEF OfClass
<1>2. /\ Cardinality(F) \in Nat
      /\ \A p \in F : Rank(p, F) \in 1 .. Cardinality(F)
      /\ \A p, q \in F : Rank(p, F) = Rank(q, F) => p = q
      /\ \A k \in 1 .. Cardinality(F) : \E p \in F : Rank(p, F) = k
  <2> HIDE DEF F
  <2> QED BY <1>1, OneClassFinite, RankNumbers
<1>3. n \in 0 .. Cardinality(F) /\ S = {p \in F : Rank(p, F) <= n}
  BY DEF Supplies
<1>4. f \in Injection(S, 1 .. n)
  <2> HIDE DEF F
  <2>1. f \in [S -> 1 .. n] BY <1>2, <1>3
  <2>2. \A p, q \in S : f[p] = f[q] => p = q BY <1>2, <1>3
  <2> HIDE DEF f
  <2> QED BY <2>1, <2>2 DEF Injection, IsInjective
<1>5. f \in Surjection(S, 1 .. n)
  <2> HIDE DEF F
  <2>1. \A k \in 1 .. n : \E p \in S : f[p] = k
    <3> TAKE k \in 1 .. n
    <3>1. k \in 1 .. Cardinality(F) /\ k <= n BY <1>2, <1>3
    <3>2. PICK p \in F : Rank(p, F) = k BY <1>2, <3>1
    <3> QED BY <1>3, <3>1, <3>2
  <2>2. f \in [S -> 1 .. n] BY <1>4 DEF Injection
  <2> HIDE DEF f
  <2> QED BY <2>1, <2>2 DEF Surjection
<1>6. Cardinality(S) = n
  <2>1. IsFiniteSet(1 .. n) /\ Cardinality(1 .. n) = n BY FS_Interval
  <2> HIDE DEF f
  <2> QED BY <1>4, <1>5, <2>1, FS_Injection
<1> QED BY <1>1, <1>3, <1>6

\* Stored puts every object of S into one place, and leaves the places below alone.
LEMMA StoredFills ==
  ASSUME NEW c \in Classes, NEW S \in SUBSET OfClass(c), NEW i \in Nat,
         NEW n, n = i + Cardinality(S), n <= Size,
         NEW array \in [Places -> Objects \cup {Nothing}], NEW a, a = Stored(array, i, S)
  PROVE  /\ a \in [Places -> Objects \cup {Nothing}] /\ n \in Nat /\ i <= n
         /\ \A j \in Places : j < i => a[j] = array[j]
         /\ \A j \in Places : i <= j /\ j < n => a[j] \in S
         /\ \A j, k \in Places : i <= j /\ j < n /\ i <= k /\ k < n /\ a[j] = a[k] => j = k
         /\ \A p \in S : \E j \in Places : i <= j /\ j < n /\ a[j] = p
<1> USE CacheAssumption
<1>1. Cardinality(S) \in Nat BY OneClassFinite
<1>2. \A j \in Places : j \in i .. i + Cardinality(S) - 1 <=> i <= j /\ j < n
  BY <1>1 DEF Places
<1>3. /\ DOMAIN a = Places
      /\ \A j \in Places : ~(i <= j /\ j < n) => a[j] = array[j]
      /\ \A j \in Places : i <= j /\ j < n => a[j] = CHOOSE p \in S : Rank(p, S) = j - i + 1
  BY <1>2 DEF Stored
<1>4. ASSUME NEW j \in Places, i <= j, j < n PROVE a[j] \in S /\ Rank(a[j], S) = j - i + 1
  <2>1. j - i + 1 \in 1 .. Cardinality(S) BY <1>1, <1>4 DEF Places
  <2>2. \E p \in S : Rank(p, S) = j - i + 1 BY <2>1, RankNumbers
  <2> QED BY <1>3, <1>4, <2>2
<1>5. ASSUME NEW p \in S PROVE \E j \in Places : i <= j /\ j < n /\ a[j] = p
  <2> DEFINE j == i + Rank(p, S) - 1
  <2>1. Rank(p, S) \in 1 .. Cardinality(S) BY RankNumbers
  <2>2. j \in Places /\ i <= j /\ j < n /\ j - i + 1 = Rank(p, S) BY <1>1, <2>1 DEF Places
  <2>3. a[j] \in S /\ Rank(a[j], S) = Rank(p, S)
    <3> HIDE DEF j
    <3> QED BY <1>4, <2>2
  <2>4. a[j] = p BY <2>3, RankNumbers
  <2> QED BY <2>2, <2>4
<1>6. \A j, k \in Places : i <= j /\ j < n /\ i <= k /\ k < n /\ a[j] = a[k] => j = k
  <2> TAKE j, k \in Places
  <2> SUFFICES ASSUME i <= j, j < n, i <= k, k < n, a[j] = a[k] PROVE j = k OBVIOUS
  <2>1. j - i + 1 = k - i + 1 BY <1>4
  <2> QED BY <2>1 DEF Places
<1>7. S \subseteq Objects BY DEF OfClass
<1>8. \A j \in Places : i <= j /\ j < n => a[j] \in S BY <1>4
<1>9. a \in [Places -> Objects \cup {Nothing}]
  <2>1. \A j \in Places : a[j] \in Objects \cup {Nothing} BY <1>3, <1>7, <1>8
  <2>2. a = [j \in Places |-> a[j]] BY DEF Stored
  <2> QED BY <2>1, <2>2
<1>10. n \in Nat /\ i <= n BY <1>1
<1>11. \A j \in Places : j < i => a[j] = array[j] BY <1>3 DEF Places
<1> QED BY <1>5, <1>6, <1>8, <1>9, <1>10, <1>11

-----------------------------------------------------------------------------
\* The bins that do not belong to a cache are empty; a cache holds objects only.
Bins ==
  /\ CacheTypeOK
  /\ \A t \in Threads \ alive, c \in Classes : ncached[t][c] = 0
  /\ \A t \in alive, c \in Classes, i \in Places :
       Flush <= ncached[t][c] /\ (i < ncached[t][c] => ptrs[t][c][i] # Nothing)

\* OwnedOnce without its triples.
Owners ==
  /\ \A t \in Threads, c \in Classes, i \in Places :
       i < ncached[t][c] => ptrs[t][c][i] \notin free /\ ptrs[t][c][i] \notin HeldObjects
  /\ \A t, u \in Threads, c, d \in Classes, i, j \in Places :
       /\ i < ncached[t][c] /\ j < ncached[u][d]
       /\ ptrs[t][c][i] = ptrs[u][d][j]
       => t = u /\ c = d /\ i = j
  /\ \A p \in free : p \notin HeldObjects
  /\ \A h, g \in held : h[2] = g[2] => h = g

\* p is with the arena, with a caller or in a bin.
Owned(p) ==
  \/ p \in free
  \/ p \in HeldObjects
  \/ \E t \in Threads, c \in Classes, i \in Places : i < ncached[t][c] /\ ptrs[t][c][i] = p

\* NothingLost, likewise; and a step that neither loses an object nor makes one up.
Accounted == \A p \in Objects : Owned(p)
KeepsOwned == \A p : Owned(p)' <=> Owned(p)

CacheInv == Bins /\ Owners

\* The index form of the property.
LEMMA OwnersOwnOnce == Owners <=> OwnedOnce
<1>1. Owners => OwnedOnce
  BY DEF Owners, OwnedOnce, Live, At
<1>2. OwnedOnce => Owners
  <2> SUFFICES ASSUME OwnedOnce PROVE Owners OBVIOUS
  <2>1. ASSUME NEW t \in Threads, NEW c \in Classes, NEW i \in Places, i < ncached[t][c]
        PROVE  <<t, c, i>> \in Live /\ At(<<t, c, i>>) = ptrs[t][c][i]
    BY <2>1 DEF Live, At
  <2>2. ASSUME NEW t \in Threads, NEW c \in Classes, NEW i \in Places, i < ncached[t][c]
        PROVE  ptrs[t][c][i] \notin free /\ ptrs[t][c][i] \notin HeldObjects
    <3>1. <<t, c, i>> \in Live /\ At(<<t, c, i>>) = ptrs[t][c][i] BY <2>1, <2>2
    <3>2. At(<<t, c, i>>) \notin free \cup HeldObjects BY <3>1 DEF OwnedOnce
    <3> QED BY <3>1, <3>2
  <2>3. ASSUME NEW t \in Threads, NEW u \in Threads, NEW c \in Classes, NEW d \in Classes,
               NEW i \in Places, NEW j \in Places,
               i < ncached[t][c], j < ncached[u][d], ptrs[t][c][i] = ptrs[u][d][j]
        PROVE  t = u /\ c = d /\ i = j
    <3>1. <<t, c, i>> \in Live /\ At(<<t, c, i>>) = ptrs[t][c][i] BY <2>1, <2>3
    <3>2. <<u, d, j>> \in Live /\ At(<<u, d, j>>) = ptrs[u][d][j] BY <2>1, <2>3
    <3>3. <<t, c, i>> = <<u, d, j>> BY <2>3, <3>1, <3>2 DEF OwnedOnce
    <3> QED BY <3>3
  <2> QED BY <2>2, <2>3 DEF Owners, OwnedOnce
<1> QED BY <1>1, <1>2

\* The same for NothingLost.
LEMMA AccountedLosesNothing == Accounted => NothingLost
<1> SUFFICES ASSUME Accounted, NEW p \in Objects, p \notin free, p \notin HeldObjects
             PROVE  \E l \in Live : At(l) = p
  BY DEF NothingLost
<1>1. PICK t \in Threads, c \in Classes, i \in Places : i < ncached[t][c] /\ ptrs[t][c][i] = p
  BY DEF Accounted, Owned
<1>2. <<t, c, i>> \in Live /\ At(<<t, c, i>>) = p BY <1>1 DEF Live, At
<1> QED BY <1>2

-----------------------------------------------------------------------------
\* What allocate() and allocate_batch() do to bin c of thread t: the objects above place
\* k go to the caller, with those of S from the arena; the places from k to n are filled
\* with the objects of R, from the arena as well.
Popping(t, c, k) == {ptrs[t][c][i] : i \in {j \in Places : k <= j /\ j < ncached[t][c]}}

Fills(old, a, k, n, R) ==
  /\ a \in [Places -> Objects \cup {Nothing}]
  /\ \A i \in Places : i < k => a[i] = old[i]
  /\ \A i \in Places : k <= i /\ i < n => a[i] \in R
  /\ \A i, j \in Places : k <= i /\ i < n /\ k <= j /\ j < n /\ a[i] = a[j] => i = j
  /\ \A p \in R : \E i \in Places : k <= i /\ i < n /\ a[i] = p

\* Such a step keeps the invariant: what leaves the bin and the arena goes to the caller
\* or to places of the bin that hold nothing else, each object to one.
LEMMA Exchange ==
  ASSUME CacheInv, NEW t \in alive, NEW c \in Classes, NEW k \in 0 .. ncached[t][c],
         NEW S \in SUBSET free, NEW R \in SUBSET (free \ S), NEW n \in k .. Size, Flush <= n,
         NEW a, Fills(ptrs[t][c], a, k, n, R),
         ptrs' = [ptrs EXCEPT ![t][c] = a], ncached' = [ncached EXCEPT ![t][c] = n],
         free' = (free \ S) \ R, HandOver(c, Popping(t, c, k) \cup S), alive' = alive
  PROVE  CacheInv' /\ KeepsOwned
<1> USE CacheAssumption
<1> DEFINE H == Popping(t, c, k) \cup S
<1>1. CacheTypeOK /\ t \in Threads /\ ncached[t][c] \in 0 .. Size /\ k \in Nat /\ n \in 0 .. Size
      /\ Places \subseteq Nat
  BY DEF CacheInv, Bins, CacheTypeOK, Places
<1>2. /\ \A u \in Threads, d \in Classes : u # t \/ d # c =>
           ptrs'[u][d] = ptrs[u][d] /\ ncached'[u][d] = ncached[u][d]
      /\ ptrs'[t][c] = a /\ ncached'[t][c] = n
  BY <1>1 DEF CacheTypeOK
<1>3. H \subseteq Objects
  BY <1>1 DEF CacheInv, Bins, CacheTypeOK, Popping
<1>4. held' = held \cup {<<c, p>> : p \in H} BY DEF HandOver
<1>5. HeldObjects' = HeldObjects \cup H
  <2> HIDE DEF H
  <2>1. ASSUME NEW p PROVE p \in HeldObjects' <=> p \in HeldObjects \/ p \in H
    <3>1. p \in HeldObjects' <=> \E h \in held' : p = h[2] BY DEF HeldObjects
    <3>2. p \in HeldObjects <=> \E h \in held : p = h[2] BY DEF HeldObjects
    <3>3. \A q : <<c, q>>[2] = q OBVIOUS
    <3>4. p \in H => <<c, p>> \in held' BY <1>4
    <3>5. \A h \in held' : h \in held \/ \E q \in H : h = <<c, q>> BY <1>4
    <3>6. held \subseteq held' BY <1>4
    <3> QED BY <3>1, <3>2, <3>3, <3>4, <3>5, <3>6
  <2> QED BY <2>1
<1>6. \A p \in H : p \notin HeldObjects
  BY <1>1 DEF CacheInv, Owners, Popping
<1>7. CacheTypeOK'
  <2>1. ptrs' \in [Threads -> [Classes -> [Places -> Objects \cup {Nothing}]]]
    BY <1>1 DEF CacheTypeOK, Fills
  <2>2. ncached' \in [Threads -> [Classes -> 0 .. Size]] BY <1>1 DEF CacheTypeOK
  <2>3. held' \in SUBSET (Classes \X Objects) BY <1>1, <1>3, <1>4 DEF CacheTypeOK
  <2>4. free' \in SUBSET Objects /\ alive' \in SUBSET Threads BY <1>1 DEF CacheTypeOK
  <2> QED BY <2>1, <2>2, <2>3, <2>4 DEF CacheTypeOK
<1>8. Bins'
  <2>1. ASSUME NEW u \in Threads \ alive, NEW d \in Classes PROVE ncached'[u][d] = 0
    BY <1>2, <2>1 DEF CacheInv, Bins
  <2>2. ASSUME NEW u \in alive, NEW d \in Classes, NEW i \in Places
        PROVE  Flush <= ncached'[u][d] /\ (i < ncached'[u][d] => ptrs'[u][d][i] # Nothing)
    <3>1. CASE u # t \/ d # c
      BY <1>1, <1>2, <3>1 DEF CacheInv, Bins, CacheTypeOK
    <3>2. CASE u = t /\ d = c
      <4>1. Nothing \notin free
        BY <1>1 DEF CacheTypeOK, Objects, Classes, Nothing
      <4>2. ASSUME i < n PROVE a[i] # Nothing
        <5>1. CASE i < k BY <1>1, <5>1 DEF CacheInv, Bins, Fills
        <5>2. CASE k <= i BY <1>1, <4>1, <4>2, <5>2 DEF Fills
        <5> QED BY <1>1, <5>1, <5>2
      <4> QED BY <1>2, <3>2, <4>2
    <3> QED BY <3>1, <3>2
  <2> QED BY <1>7, <2>1, <2>2 DEF Bins
\* Where a cached object is after the step, and where it was before.
<1>9. ASSUME NEW u \in Threads, NEW d \in Classes, NEW i \in Places, i < ncached'[u][d]
      PROVE  \/ ~(u = t /\ d = c /\ k <= i) /\ i < ncached[u][d] /\ ptrs'[u][d][i] = ptrs[u][d][i]
             \/ u = t /\ d = c /\ k <= i /\ i < n /\ ptrs'[u][d][i] = a[i] /\ a[i] \in R
  <2>1. CASE u # t \/ d # c BY <1>2, <1>9, <2>1
  <2>2. CASE u = t /\ d = c /\ k <= i BY <1>2, <1>9, <2>2 DEF Fills
  <2>3. CASE u = t /\ d = c /\ i < k BY <1>1, <1>2, <1>9, <2>3 DEF Fills
  <2> QED BY <1>1, <2>1, <2>2, <2>3
<1>10. ASSUME NEW u \in Threads, NEW d \in Classes, NEW i \in Places, i < ncached[u][d],
              ~(u = t /\ d = c /\ k <= i)
       PROVE  ptrs[u][d][i] \notin H
  <2>1. ptrs[u][d][i] \notin S BY <1>10 DEF CacheInv, Owners
  <2>2. ptrs[u][d][i] \notin Popping(t, c, k) BY <1>1, <1>10 DEF CacheInv, Owners, Popping
  <2> QED BY <2>1, <2>2
<1> HIDE DEF H
<1>11. Owners'
  <2>1. ASSUME NEW u \in Threads, NEW d \in Classes, NEW i \in Places, i < ncached'[u][d]
        PROVE  ptrs'[u][d][i] \notin free' /\ ptrs'[u][d][i] \notin HeldObjects'
    <3>1. CASE ~(u = t /\ d = c /\ k <= i) /\ i < ncached[u][d] /\ ptrs'[u][d][i] = ptrs[u][d][i]
      BY <1>5, <1>10, <3>1 DEF CacheInv, Owners
    <3>2. CASE ptrs'[u][d][i] \in R
      <4>1. ptrs'[u][d][i] \notin Popping(t, c, k)
        BY <1>1, <3>2 DEF CacheInv, Owners, Popping
      <4> QED BY <1>5, <3>2, <4>1 DEF CacheInv, Owners, H
    <3> QED BY <1>9, <2>1, <3>1, <3>2
  <2>2. ASSUME NEW u \in Threads, NEW v \in Threads, NEW d \in Classes, NEW e \in Classes,
               NEW i \in Places, NEW j \in Places,
               i < ncached'[u][d], j < ncached'[v][e], ptrs'[u][d][i] = ptrs'[v][e][j]
        PROVE  u = v /\ d = e /\ i = j
    <3> DEFINE Old(w, f, l) ==
                 ~(w = t /\ f = c /\ k <= l) /\ l < ncached[w][f] /\ ptrs'[w][f][l] = ptrs[w][f][l]
               New(w, f, l) ==
                 w = t /\ f = c /\ k <= l /\ l < n /\ ptrs'[w][f][l] = a[l] /\ a[l] \in R
    <3>1. Old(u, d, i) \/ New(u, d, i) BY <1>9, <2>2
    <3>2. Old(v, e, j) \/ New(v, e, j) BY <1>9, <2>2
    <3>3. CASE Old(u, d, i) /\ Old(v, e, j) BY <2>2, <3>3 DEF CacheInv, Owners
    <3>4. CASE New(u, d, i) /\ New(v, e, j) BY <2>2, <3>4 DEF Fills
    <3>5. CASE Old(u, d, i) /\ New(v, e, j) BY <2>2, <3>5 DEF CacheInv, Owners
    <3>6. CASE New(u, d, i) /\ Old(v, e, j) BY <2>2, <3>6 DEF CacheInv, Owners
    <3> QED BY <3>1, <3>2, <3>3, <3>4, <3>5, <3>6
  <2>3. \A p \in free' : p \notin HeldObjects'
    BY <1>1, <1>5 DEF CacheInv, Owners, Popping, H
  <2>4. ASSUME NEW h \in held', NEW g \in held', h[2] = g[2] PROVE h = g
    <3>1. CASE h \in held /\ g \in held BY <2>4, <3>1 DEF CacheInv, Owners
    <3>2. \A x \in held : x[2] \in HeldObjects BY DEF HeldObjects
    <3>3. \A x \in held' : x \in held \/ (x = <<c, x[2]>> /\ x[2] \in H) BY <1>4
    <3> QED BY <1>6, <2>4, <3>1, <3>2, <3>3
  <2> QED BY <2>1, <2>2, <2>3, <2>4 DEF Owners
<1>12. KeepsOwned
  <2>1. ASSUME NEW p, Owned(p)' PROVE Owned(p)
    <3>1. CASE p \in free' BY <3>1 DEF Owned
    <3>2. CASE p \in HeldObjects'
      <4>1. CASE p \in HeldObjects \/ p \in S BY <4>1 DEF Owned
      <4>2. CASE p \in Popping(t, c, k) BY <1>1, <4>2 DEF Owned, Popping
      <4> QED BY <1>5, <3>2, <4>1, <4>2 DEF H
    <3>3. CASE \E u \in Threads, d \in Classes, i \in Places :
                 i < ncached'[u][d] /\ ptrs'[u][d][i] = p
      BY <1>9, <3>3 DEF Owned
    <3> QED BY <2>1, <3>1, <3>2, <3>3 DEF Owned
  <2>2. ASSUME NEW p, Owned(p), p \notin free', p \notin HeldObjects'
        PROVE  \E u \in Threads, d \in Classes, i \in Places :
                 i < ncached'[u][d] /\ ptrs'[u][d][i] = p
    <3>1. CASE p \in R
      <4>1. PICK i \in Places : k <= i /\ i < n /\ a[i] = p BY <3>1 DEF Fills
      <4> QED BY <1>1, <1>2, <4>1
    <3>2. CASE p \notin R
      <4>1. p \notin free /\ p \notin HeldObjects /\ p \notin H BY <1>5, <2>2, <3>2 DEF H
      <4>2. PICK u \in Threads, d \in Classes, i \in Places :
              i < ncached[u][d] /\ ptrs[u][d][i] = p
        BY <2>2, <4>1 DEF Owned
      <4>3. CASE u # t \/ d # c BY <1>2, <4>2, <4>3
      <4>4. CASE u = t /\ d = c
        <5>1. i < k BY <1>1, <4>1, <4>2, <4>4 DEF Popping, H
        <5>2. i < n /\ a[i] = p BY <1>1, <4>2, <4>4, <5>1 DEF Fills
        <5> QED BY <1>1, <1>2, <5>2
      <4> QED BY <4>3, <4>4
    <3> QED BY <3>1, <3>2
  <2>3. \A p : Owned(p) => Owned(p)' BY <2>2 DEF Owned
  <2> QED BY <2>1, <2>3 DEF KeepsOwned
<1> QED BY <1>8, <1>11, <1>12 DEF CacheInv

-----------------------------------------------------------------------------
\* What a bin's array can be.
Arrays == [Places -> Objects \cup {Nothing}]

\* Refill() takes from the arena as many objects as the bin lacks, or none.
LEMMA RefillGives ==
  ASSUME CacheInv, ~ArenaShort, NEW t \in alive, NEW c \in Classes,
         NEW k \in 0 .. ncached[t][c], NEW pool \in SUBSET Objects, Refill(t, c, k, pool)
  PROVE  \E R \in SUBSET pool, n \in k .. Size, a \in Arrays :
           /\ Flush <= n /\ Fills(ptrs[t][c], a, k, n, R)
           /\ ptrs' = [ptrs EXCEPT ![t][c] = a] /\ ncached' = [ncached EXCEPT ![t][c] = n]
           /\ free' = pool \ R
<1> USE CacheAssumption
<1>1. /\ CacheTypeOK /\ t \in Threads /\ ncached[t][c] \in 0 .. Size /\ k \in Nat /\ Flush \in Nat
      /\ Places \subseteq Nat
  BY DEF CacheInv, Bins, CacheTypeOK, Places
<1>2. ptrs[t][c] \in [Places -> Objects \cup {Nothing}] BY <1>1 DEF CacheTypeOK
<1>3. CASE k < Flush
  <2>1. PICK R \in Supplies(pool, Eight, Flush - k) :
          ptrs' = [ptrs EXCEPT ![t][c] = Stored(@, k, R)] /\ free' = pool \ R
    BY <1>1, <1>3 DEF Refill
  <2> DEFINE a == Stored(ptrs[t][c], k, R)
  <2>2. Eight \in Classes BY DEF Eight, Classes
  <2>3. Flush - k \in Nat BY <1>1, <1>3
  <2>4. R \subseteq pool /\ R \in SUBSET OfClass(Eight) /\ Cardinality(R) = Flush - k
    BY <2>2, <2>3, SupplyExact
  <2>5. Flush = k + Cardinality(R) /\ Flush <= Size BY <1>1, <2>4
  <2> HIDE DEF a
  <2>6. Fills(ptrs[t][c], a, k, Flush, R)
    BY <1>1, <1>2, <2>2, <2>4, <2>5, StoredFills DEF Fills, a
  <2>7. ncached' = [ncached EXCEPT ![t][c] = Flush] BY <1>1, <1>3 DEF Refill
  <2>8. ptrs' = [ptrs EXCEPT ![t][c] = a] BY <2>1 DEF a
  <2>10. a \in Arrays BY <2>6 DEF Fills, Arrays
  <2>9. Flush \in k .. Size /\ Flush <= Flush BY <1>1, <1>3
  <2> QED BY <2>1, <2>4, <2>6, <2>7, <2>8, <2>9, <2>10
<1>4. CASE Flush <= k
  <2>1. ncached' = [ncached EXCEPT ![t][c] = k] /\ free' = pool \ {} /\ ptrs' = ptrs
    BY <1>1, <1>4 DEF Refill
  <2>2. ptrs = [ptrs EXCEPT ![t][c] = ptrs[t][c]] BY <1>1 DEF CacheTypeOK
  <2>3. Fills(ptrs[t][c], ptrs[t][c], k, k, {}) BY <1>1, <1>2 DEF Fills
  <2>4. k \in k .. Size BY <1>1
  <2>5. {} \in SUBSET pool OBVIOUS
  <2>6. ptrs' = [ptrs EXCEPT ![t][c] = ptrs[t][c]] BY <2>1, <2>2
  <2> QED BY <1>2, <1>4, <2>1, <2>3, <2>4, <2>5, <2>6 DEF Arrays
<1> QED BY <1>1, <1>3, <1>4

\* A bin has no null pointers, so an operation pops as much as it asks for or all.
LEMMA PoppedIsTop ==
  ASSUME CacheInv, NEW t \in alive, NEW c \in Classes, NEW n \in Nat \ {0}
  PROVE  /\ Popped(t, c, n) \in 1 .. ncached[t][c]
         /\ ncached[t][c] - Popped(t, c, n) \in 0 .. ncached[t][c]
         /\ Top(t, c, Popped(t, c, n)) = Popping(t, c, ncached[t][c] - Popped(t, c, n))
<1> USE CacheAssumption
<1> DEFINE top == ncached[t][c]
           m == Popped(t, c, n)
<1>1. CacheTypeOK /\ t \in Threads /\ top \in 0 .. Size /\ Flush \in Nat \ {0} /\ Flush <= top
  <2>1. 0 \in Places BY DEF Places
  <2> QED BY <2>1 DEF CacheInv, Bins, CacheTypeOK
<1>2. \A i \in 1 .. top : top - i \in Places /\ top - i < top BY <1>1 DEF Places
<1>3. \A j \in Places : j < top => ptrs[t][c][j] # Nothing BY DEF CacheInv, Bins
<1>4. m = Min({n, top})
  <2>1. {i \in 1 .. top : i <= n /\ ptrs[t][c][top - i] = Nothing} = {} BY <1>2, <1>3
  <2> QED BY <2>1 DEF Popped
<1>5. m \in {n, top} /\ m <= n /\ m <= top
  <2>1. n \in Nat /\ top \in Nat BY <1>1
  <2>2. \E x \in {n, top} : \A y \in {n, top} : x <= y BY <2>1
  <2> HIDE DEF top
  <2> QED BY <1>4, <2>2 DEF Min
<1>6. m \in 1 .. top /\ top - m \in 0 .. top BY <1>1, <1>5
<1>7. Top(t, c, m) = Popping(t, c, top - m)
  <2>1. ASSUME NEW p \in Top(t, c, m) PROVE p \in Popping(t, c, top - m)
    <3>1. PICK i \in 1 .. m : p = ptrs[t][c][top - i] BY <2>1 DEF Top
    <3>2. top - i \in Places /\ top - m <= top - i /\ top - i < top BY <1>1, <1>2, <1>6
    <3> QED BY <3>1, <3>2 DEF Popping
  <2>2. ASSUME NEW p \in Popping(t, c, top - m) PROVE p \in Top(t, c, m)
    <3>1. PICK j \in Places : top - m <= j /\ j < top /\ p = ptrs[t][c][j] BY <2>2 DEF Popping
    <3>2. top - j \in 1 .. m /\ top - (top - j) = j BY <1>1, <1>6, <3>1 DEF Places
    <3>3. p # Nothing BY <1>3, <3>1
    <3> QED BY <3>1, <3>2, <3>3 DEF Top
  <2> QED BY <2>1, <2>2
<1> QED BY <1>6, <1>7

-----------------------------------------------------------------------------
\* allocate(): one object leaves the bin, and the bin is refilled.
LEMMA AllocateKeeps ==
  ASSUME CacheInv, ~ArenaShort, NEW t \in alive, NEW c \in Classes, Allocate(t, c)
  PROVE  CacheInv' /\ KeepsOwned /\ alive' = alive
         /\ free' \in SUBSET free /\ held \subseteq held'
<1> DEFINE k == ncached[t][c] - Popped(t, c, 1)
<1>1. /\ k \in 0 .. ncached[t][c]
      /\ HandOver(c, Popping(t, c, k)) /\ Refill(t, c, k, free) /\ alive' = alive
  BY PoppedIsTop DEF Allocate
<1>2. free \in SUBSET Objects BY DEF CacheInv, Bins, CacheTypeOK
<1> HIDE DEF k
<1>3. PICK R \in SUBSET free, n \in k .. Size, a \in Arrays :
        /\ Flush <= n /\ Fills(ptrs[t][c], a, k, n, R)
        /\ ptrs' = [ptrs EXCEPT ![t][c] = a] /\ ncached' = [ncached EXCEPT ![t][c] = n]
        /\ free' = free \ R
  BY <1>1, <1>2, RefillGives
<1>4. /\ {} \in SUBSET free /\ R \in SUBSET (free \ {}) /\ free' = (free \ {}) \ R
      /\ HandOver(c, Popping(t, c, k) \cup {})
  BY <1>1, <1>3
<1>5. CacheInv' /\ KeepsOwned BY <1>1, <1>3, <1>4, Exchange
<1> QED BY <1>1, <1>3, <1>5 DEF HandOver

\* allocate_batch(): so many objects leave the bin, and the arena gives the rest.
LEMMA AllocateBatchKeeps ==
  ASSUME CacheInv, ~ArenaShort, NEW t \in alive, NEW c \in Classes, NEW m \in 1 .. MaxBatch,
         AllocateBatch(t, c, m)
  PROVE  CacheInv' /\ KeepsOwned /\ alive' = alive
         /\ free' \in SUBSET free /\ held \subseteq held'
<1> DEFINE k == ncached[t][c] - Popped(t, c, m)
<1>1. m \in Nat \ {0} BY CacheAssumption
<1>2. k \in 0 .. ncached[t][c] /\ alive' = alive
      /\ Top(t, c, Popped(t, c, m)) = Popping(t, c, k)
  BY <1>1, PoppedIsTop DEF AllocateBatch
<1>3. PICK S : /\ S \in SUBSET free
               /\ HandOver(c, Popping(t, c, k) \cup S) /\ Refill(t, c, k, free \ S)
  <2>1. \A i : \A T \in Supplies(free, c, i) : T \in SUBSET free BY DEF Supplies
  <2> QED BY <1>2, <2>1 DEF AllocateBatch
<1> DEFINE pool == free \ S
<1>4. pool \in SUBSET Objects /\ Refill(t, c, k, pool)
  BY <1>3 DEF CacheInv, Bins, CacheTypeOK
<1> HIDE DEF k, pool
<1>5. PICK R \in SUBSET pool, n \in k .. Size, a \in Arrays :
        /\ Flush <= n /\ Fills(ptrs[t][c], a, k, n, R)
        /\ ptrs' = [ptrs EXCEPT ![t][c] = a] /\ ncached' = [ncached EXCEPT ![t][c] = n]
        /\ free' = pool \ R
  BY <1>2, <1>4, RefillGives
<1>6. CacheInv' /\ KeepsOwned BY <1>2, <1>3, <1>5, Exchange DEF pool
<1> QED BY <1>2, <1>3, <1>5, <1>6 DEF HandOver, pool

\* deallocate(): the object goes to the next place of the bin, or to the arena.
LEMMA DeallocateKeeps ==
  ASSUME CacheInv, NEW t \in alive, NEW c \in Classes, NEW p \in HeldAs(c), Deallocate(t, c, p)
  PROVE  CacheInv' /\ KeepsOwned /\ alive' = alive
         /\ free \subseteq free' /\ held' \in SUBSET held
<1> USE CacheAssumption
<1> DEFINE top == ncached[t][c]
<1>1. /\ CacheTypeOK /\ t \in Threads /\ top \in 0 .. Size /\ Places \subseteq Nat
      /\ p \in Objects /\ <<c, p>> \in held /\ held' = held \ {<<c, p>>} /\ alive' = alive
  BY DEF CacheInv, Bins, CacheTypeOK, Places, HeldAs, Deallocate
<1>2. HeldObjects' = HeldObjects \ {p} /\ p \in HeldObjects
  <2>1. <<c, p>>[2] = p OBVIOUS
  <2>2. \A h \in held : h[2] = p => h = <<c, p>> BY <1>1, <2>1 DEF CacheInv, Owners
  <2>3. ASSUME NEW q PROVE q \in HeldObjects' <=> q \in HeldObjects /\ q # p
    <3>1. q \in HeldObjects' <=> \E h \in held' : q = h[2] BY DEF HeldObjects
    <3>2. q \in HeldObjects <=> \E h \in held : q = h[2] BY DEF HeldObjects
    <3> QED BY <1>1, <2>1, <2>2, <3>1, <3>2
  <2>4. p \in HeldObjects BY <1>1, <2>1 DEF HeldObjects
  <2> QED BY <2>3, <2>4
<1>3. p \notin free /\ p # Nothing
      /\ \A u \in Threads, d \in Classes, i \in Places : i < ncached[u][d] => ptrs[u][d][i] # p
  <2>1. p # Nothing BY <1>1 DEF Objects, Classes, Nothing
  <2> QED BY <1>2, <2>1 DEF CacheInv, Owners
<1>4. held' \in SUBSET (Classes \X Objects) BY <1>1 DEF CacheTypeOK
<1>5. \A h, g \in held' : h[2] = g[2] => h = g BY <1>1 DEF CacheInv, Owners
<1>6. CASE top = Size
  <2>1. free' = free \cup {p} /\ ptrs' = ptrs /\ ncached' = ncached BY <1>6 DEF Deallocate
  <2>2. Bins' BY <1>1, <1>4, <2>1 DEF CacheInv, Bins, CacheTypeOK
  <2>3. Owners' BY <1>2, <1>3, <1>5, <2>1 DEF CacheInv, Owners
  <2>4. KeepsOwned BY <1>2, <2>1 DEF KeepsOwned, Owned
  <2> QED BY <1>1, <2>1, <2>2, <2>3, <2>4 DEF CacheInv
<1>7. CASE top # Size
  <2>1. /\ free' = free /\ top \in Places
        /\ ptrs' = [ptrs EXCEPT ![t][c][top] = p] /\ ncached' = [ncached EXCEPT ![t][c] = top + 1]
    BY <1>1, <1>7 DEF Deallocate, Places
  <2>2. /\ \A u \in Threads, d \in Classes :
           ncached'[u][d] = IF u = t /\ d = c THEN top + 1 ELSE ncached[u][d]
        /\ \A u \in Threads, d \in Classes, i \in Places :
             ptrs'[u][d][i] = IF u = t /\ d = c /\ i = top THEN p ELSE ptrs[u][d][i]
    BY <1>1, <2>1 DEF CacheTypeOK
  <2>3. CacheTypeOK'
    <3>1. top + 1 \in 0 .. Size BY <1>1, <1>7
    <3>2. ncached' \in [Threads -> [Classes -> 0 .. Size]] BY <1>1, <2>1, <3>1 DEF CacheTypeOK
    <3>3. ptrs' \in [Threads -> [Classes -> [Places -> Objects \cup {Nothing}]]]
      BY <1>1, <2>1 DEF CacheTypeOK
    <3> QED BY <1>1, <1>4, <2>1, <3>2, <3>3 DEF CacheTypeOK
  <2>4. \A u \in Threads, d \in Classes, i \in Places :
          i < ncached'[u][d] => \/ u = t /\ d = c /\ i = top /\ ptrs'[u][d][i] = p
                                \/ i < ncached[u][d] /\ ptrs'[u][d][i] = ptrs[u][d][i]
    <3> TAKE u \in Threads, d \in Classes, i \in Places
    <3>1. CASE u = t /\ d = c BY <1>1, <2>2, <3>1
    <3>2. CASE ~(u = t /\ d = c) BY <2>2, <3>2
    <3> QED BY <3>1, <3>2
  <2>5. Bins'
    <3>1. \A u \in alive, d \in Classes : Flush <= ncached'[u][d]
      <4>1. 0 \in Places BY DEF Places
      <4>2. Flush <= top /\ Flush <= top + 1 BY <1>1, <4>1 DEF CacheInv, Bins
      <4> QED BY <1>1, <2>2, <4>1, <4>2 DEF CacheInv, Bins, CacheTypeOK
    <3>2. \A u \in alive, d \in Classes, i \in Places :
            i < ncached'[u][d] => ptrs'[u][d][i] # Nothing
      BY <1>1, <1>3, <2>4 DEF CacheInv, Bins, CacheTypeOK
    <3>3. \A u \in Threads \ alive, d \in Classes : ncached'[u][d] = 0
      BY <2>2 DEF CacheInv, Bins
    <3> QED BY <1>1, <2>3, <3>1, <3>2, <3>3 DEF Bins
  <2>6. Owners'
    <3>1. \A u \in Threads, d \in Classes, i \in Places :
            i < ncached'[u][d] => ptrs'[u][d][i] \notin free' /\ ptrs'[u][d][i] \notin HeldObjects'
      BY <1>2, <1>3, <2>1, <2>4 DEF CacheInv, Owners
    <3>2. \A u, v \in Threads, d, e \in Classes, i, j \in Places :
            i < ncached'[u][d] /\ j < ncached'[v][e] /\ ptrs'[u][d][i] = ptrs'[v][e][j]
            => u = v /\ d = e /\ i = j
      <4> TAKE u, v \in Threads, d, e \in Classes, i, j \in Places
      <4> QED BY <1>3, <2>4 DEF CacheInv, Owners
    <3> QED BY <1>2, <1>5, <2>1, <3>1, <3>2 DEF CacheInv, Owners
  <2>7. KeepsOwned
    <3>1. ASSUME NEW q, Owned(q)' PROVE Owned(q)
      BY <1>2, <2>1, <2>4, <3>1 DEF Owned
    <3>2. ASSUME NEW q, Owned(q) PROVE Owned(q)'
      <4>1. CASE q = p
        <5>1. top < ncached'[t][c] /\ ptrs'[t][c][top] = p BY <1>1, <2>1, <2>2
        <5> QED BY <1>1, <2>1, <4>1, <5>1 DEF Owned
      <4>2. CASE q # p /\ (q \in free \/ q \in HeldObjects)
        BY <1>2, <2>1, <4>2 DEF Owned
      <4>3. ASSUME NEW u \in Threads, NEW d \in Classes, NEW i \in Places,
                   i < ncached[u][d], ptrs[u][d][i] = q
            PROVE  Owned(q)'
        <5>1. i < ncached'[u][d] BY <1>1, <2>2, <4>3
        <5>2. ptrs'[u][d][i] = q BY <1>1, <2>2, <4>3
        <5> QED BY <5>1, <5>2 DEF Owned
      <4> QED BY <3>2, <4>1, <4>2, <4>3 DEF Owned
    <3> QED BY <3>1, <3>2 DEF KeepsOwned
  <2> QED BY <1>1, <2>1, <2>5, <2>6, <2>7 DEF CacheInv
<1> QED BY <1>6, <1>7


\* What lies in the bins of t, in terms of places.
LEMMA ContentsPlaces ==
  ASSUME CacheTypeOK, NEW t \in Threads, NEW p
  PROVE  p \in Contents(t) <=>
           \E c \in Classes, i \in Places : i < ncached[t][c] /\ ptrs[t][c][i] = p
<1>1. \A c \in Classes : \A i : i \in 0 .. ncached[t][c] - 1 <=> i \in Places /\ i < ncached[t][c]
  BY CacheAssumption DEF CacheTypeOK, Places
<1>2. \A c \in Classes :
        p \in Cached(t, c) <=> \E i \in Places : i < ncached[t][c] /\ ptrs[t][c][i] = p
  BY <1>1 DEF Cached
<1> QED BY <1>2 DEF Contents

\* They are in no other place.
LEMMA ContentsAlone ==
  ASSUME CacheInv, NEW t \in Threads, NEW p \in Contents(t)
  PROVE  /\ p \in Objects /\ p \notin free /\ p \notin HeldObjects
         /\ \A u \in Threads, c \in Classes, i \in Places :
              i < ncached[u][c] /\ ptrs[u][c][i] = p => u = t
<1>1. CacheTypeOK BY DEF CacheInv, Bins
<1>2. PICK c \in Classes, i \in Places : i < ncached[t][c] /\ ptrs[t][c][i] = p
  BY <1>1, ContentsPlaces
<1>3. t \in alive
  <2>1. t \notin alive => ncached[t][c] = 0 BY DEF CacheInv, Bins
  <2> QED BY <1>2, <2>1, CacheAssumption DEF Places
<1>4. p \in Objects BY <1>1, <1>2, <1>3 DEF CacheInv, Bins, CacheTypeOK
<1> QED BY <1>2, <1>4 DEF CacheInv, Owners

\* A cache that does not exist has nothing in its bins.
LEMMA NoContents ==
  ASSUME CacheInv, NEW t \in Threads \ alive
  PROVE  Contents(t) = {}
<1>1. CacheTypeOK /\ \A c \in Classes : ncached[t][c] = 0 BY DEF CacheInv, Bins
<1>2. \A i \in Places : ~ (i < 0) BY CacheAssumption DEF Places
<1> QED BY <1>1, <1>2, ContentsPlaces

\* A new cache: its bins are filled from the free objects of each class, and whatever
\* was in them is owned no more.
LEMMA ConstructKeeps ==
  ASSUME CacheInv, ~ArenaShort, NEW t \in Threads, Construct(t)
  PROVE  CacheInv' /\ (\A p : Owned(p)' <=> Owned(p) /\ p \notin Contents(t))
         /\ alive' = alive \cup {t} /\ free' \in SUBSET free /\ held' = held
<1> USE CacheAssumption
<1>1. PICK supply \in [Classes -> UNION {Supplies(free, c, Size) : c \in Classes}] :
        /\ \A c \in Classes : supply[c] \in Supplies(free, c, Size)
        /\ ptrs' = [ptrs EXCEPT ![t] = [c \in Classes |-> Stored(Empty, 0, supply[c])]]
        /\ ncached' = [ncached EXCEPT ![t] = [c \in Classes |-> Cardinality(supply[c])]]
        /\ free' = free \ UNION {supply[c] : c \in Classes}
  BY DEF Construct
<1>2. CacheTypeOK /\ Places \subseteq Nat /\ \A i \in Places : i < Size
  BY DEF CacheInv, Bins, Places
<1>3. alive' = alive \cup {t} /\ held' = held /\ HeldObjects' = HeldObjects
  BY DEF Construct, HeldObjects
\* The supply of each class is a set of free objects of that class, and fills its bin.
<1>4. ASSUME NEW c \in Classes
      PROVE  /\ supply[c] \subseteq free /\ Cardinality(supply[c]) = Size
             /\ \A p \in supply[c] : p \in Objects /\ p[1] = c
             /\ Fills(Empty, ptrs'[t][c], 0, Size, supply[c])
             /\ ncached'[t][c] = Size
  <2>1. free \in SUBSET Objects /\ Size \in Nat /\ supply[c] \in Supplies(free, c, Size)
    BY <1>1, <1>2 DEF CacheTypeOK
  <2>2. supply[c] \subseteq free /\ supply[c] \in SUBSET OfClass(c) /\ Cardinality(supply[c]) = Size
    BY <2>1, SupplyExact
  <2>3. Empty \in [Places -> Objects \cup {Nothing}] BY DEF Empty
  <2>4. Size = 0 + Cardinality(supply[c]) /\ Size <= Size /\ 0 \in Nat BY <2>2
  <2>5. ptrs'[t][c] = Stored(Empty, 0, supply[c]) BY <1>1, <1>2 DEF CacheTypeOK
  <2>6. Fills(Empty, ptrs'[t][c], 0, Size, supply[c])
    BY <2>2, <2>3, <2>4, <2>5, StoredFills DEF Fills
  <2>7. ncached'[t][c] = Size BY <1>1, <1>2, <2>2 DEF CacheTypeOK
  <2> QED BY <2>2, <2>6, <2>7 DEF OfClass
<1>5. \A u \in Threads \ {t} : ptrs'[u] = ptrs[u] /\ ncached'[u] = ncached[u]
  BY <1>1, <1>2 DEF CacheTypeOK
<1>6. \A p \in Contents(t) : p \notin free /\ p \notin HeldObjects BY ContentsAlone
<1>7. ASSUME NEW c \in Classes, NEW i \in Places
      PROVE  ptrs'[t][c][i] \in supply[c] /\ ptrs'[t][c][i] \in free /\ ptrs'[t][c][i] \notin free'
             /\ ptrs'[t][c][i] # Nothing
  <2>1. 0 <= i /\ i < Size BY <1>2
  <2>2. ptrs'[t][c][i] \in supply[c] BY <1>4, <2>1 DEF Fills
  <2>3. \A p \in Objects : p # Nothing BY DEF Objects, Classes, Nothing
  <2> QED BY <1>1, <1>4, <2>2, <2>3
<1>8. Bins'
  <2>1. ptrs' \in [Threads -> [Classes -> [Places -> Objects \cup {Nothing}]]]
    <3>1. \A c \in Classes : Stored(Empty, 0, supply[c]) \in [Places -> Objects \cup {Nothing}]
      <4> TAKE c \in Classes
      <4>1. ptrs'[t][c] = Stored(Empty, 0, supply[c]) BY <1>1, <1>2 DEF CacheTypeOK
      <4> QED BY <1>4, <4>1 DEF Fills
    <3> QED BY <1>1, <1>2, <3>1 DEF CacheTypeOK
  <2>2. ncached' \in [Threads -> [Classes -> 0 .. Size]]
    BY <1>1, <1>2, <1>4 DEF CacheTypeOK
  <2>3. CacheTypeOK' BY <1>1, <1>2, <1>3, <2>1, <2>2 DEF CacheTypeOK
  <2>4. Flush <= Size OBVIOUS
  <2>5. ASSUME NEW u \in Threads \ alive', NEW c \in Classes PROVE ncached'[u][c] = 0
    <3>1. u \in Threads \ alive /\ u # t BY <1>3, <2>5
    <3> QED BY <1>5, <3>1 DEF CacheInv, Bins
  <2>6. ASSUME NEW u \in alive', NEW c \in Classes, NEW i \in Places
        PROVE  Flush <= ncached'[u][c] /\ (i < ncached'[u][c] => ptrs'[u][c][i] # Nothing)
    <3>1. CASE u = t BY <1>4, <1>7, <2>4, <3>1
    <3>2. CASE u # t
      <4>1. u \in alive /\ u \in Threads BY <1>2, <1>3, <2>6, <3>2 DEF CacheTypeOK
      <4>2. ptrs'[u] = ptrs[u] /\ ncached'[u] = ncached[u] BY <1>5, <3>2, <4>1
      <4> QED BY <4>1, <4>2 DEF CacheInv, Bins
    <3> QED BY <3>1, <3>2
  <2> QED BY <2>3, <2>5, <2>6 DEF Bins
<1>9. Owners'
  <2>1. ASSUME NEW u \in Threads, NEW c \in Classes, NEW i \in Places, i < ncached'[u][c]
        PROVE  ptrs'[u][c][i] \notin free' /\ ptrs'[u][c][i] \notin HeldObjects'
    BY <1>1, <1>3, <1>5, <1>7, <2>1 DEF CacheInv, Owners
  <2>2. ASSUME NEW u \in Threads, NEW v \in Threads, NEW c \in Classes, NEW d \in Classes,
               NEW i \in Places, NEW j \in Places,
               i < ncached'[u][c], j < ncached'[v][d], ptrs'[u][c][i] = ptrs'[v][d][j]
        PROVE  u = v /\ c = d /\ i = j
    <3>1. CASE u # t /\ v # t
      <4>1. /\ ptrs'[u] = ptrs[u] /\ ncached'[u] = ncached[u]
            /\ ptrs'[v] = ptrs[v] /\ ncached'[v] = ncached[v]
        BY <1>5, <3>1
      <4>2. i < ncached[u][c] /\ j < ncached[v][d] /\ ptrs[u][c][i] = ptrs[v][d][j]
        BY <2>2, <4>1
      <4> QED BY <4>2 DEF CacheInv, Owners
    <3>2. CASE u = t /\ v # t BY <1>5, <1>7, <2>2, <3>2 DEF CacheInv, Owners
    <3>3. CASE u # t /\ v = t BY <1>5, <1>7, <2>2, <3>3 DEF CacheInv, Owners
    <3>4. CASE u = t /\ v = t
      <4>1. c = d BY <1>4, <1>7, <2>2, <3>4
      <4>2. i = j BY <1>2, <1>4, <2>2, <3>4, <4>1 DEF Fills
      <4> QED BY <3>4, <4>1, <4>2
    <3> QED BY <3>1, <3>2, <3>3, <3>4
  <2> QED BY <1>1, <1>3, <2>1, <2>2 DEF CacheInv, Owners
<1>10. ASSUME NEW p, Owned(p)' PROVE Owned(p) /\ p \notin Contents(t)
  <2>1. CASE p \in free' \/ p \in HeldObjects'
    BY <1>1, <1>3, <1>6, <2>1 DEF Owned
  <2>2. ASSUME NEW u \in Threads, NEW c \in Classes, NEW i \in Places,
               i < ncached'[u][c], ptrs'[u][c][i] = p
        PROVE  Owned(p) /\ p \notin Contents(t)
    <3>1. CASE u = t BY <1>6, <1>7, <2>2, <3>1 DEF Owned
    <3>2. CASE u # t
      <4>1. i < ncached[u][c] /\ ptrs[u][c][i] = p BY <1>5, <2>2, <3>2
      <4> QED BY <3>2, <4>1, ContentsAlone DEF Owned
    <3> QED BY <3>1, <3>2
  <2> QED BY <1>10, <2>1, <2>2 DEF Owned
<1>11. ASSUME NEW p, Owned(p), p \notin Contents(t) PROVE Owned(p)'
  <2>1. CASE p \in free /\ p \notin free'
    <3>1. PICK c \in Classes : p \in supply[c] BY <1>1, <2>1
    <3>2. PICK i \in Places : i < Size /\ ptrs'[t][c][i] = p BY <1>4, <3>1 DEF Fills
    <3> QED BY <1>4, <3>2 DEF Owned
  <2>2. CASE p \in free' \/ p \in HeldObjects BY <1>3, <2>2 DEF Owned
  <2>3. ASSUME NEW u \in Threads, NEW c \in Classes, NEW i \in Places,
               i < ncached[u][c], ptrs[u][c][i] = p
        PROVE  Owned(p)'
    <3>1. u # t BY <1>2, <1>11, <2>3, ContentsPlaces
    <3>2. i < ncached'[u][c] /\ ptrs'[u][c][i] = p BY <1>5, <2>3, <3>1
    <3> QED BY <3>2 DEF Owned
  <2> QED BY <1>11, <2>1, <2>2, <2>3 DEF Owned
<1> QED BY <1>1, <1>3, <1>8, <1>9, <1>10, <1>11 DEF CacheInv

-----------------------------------------------------------------------------
\* At the beginning everything is free and there is no cache.
LEMMA CacheInitially == CacheInit => CacheInv /\ Accounted
<1> SUFFICES ASSUME CacheInit PROVE CacheInv /\ Accounted OBVIOUS
<1> USE CacheAssumption
<1>1. CacheTypeOK
  <2>1. ptrs \in [Threads -> [Classes -> [Places -> Objects \cup {Nothing}]]]
    BY DEF CacheInit, Empty
  <2> QED BY <2>1 DEF CacheInit, CacheTypeOK
<1>2. \A t \in Threads, c \in Classes : ncached[t][c] = 0 BY DEF CacheInit
<1>3. HeldObjects = {} BY DEF CacheInit, HeldObjects
<1>4. \A i \in Places : ~(i < 0) BY DEF Places
<1>5. Bins BY <1>1, <1>2 DEF CacheInit, Bins
<1>6. Owners BY <1>2, <1>3, <1>4 DEF CacheInit, Owners
<1>7. Accounted BY DEF CacheInit, Accounted, Owned
<1> QED BY <1>5, <1>6, <1>7 DEF CacheInv

\* The operations of a cache, without deallocate_batch.
LEMMA OperateKeeps ==
  ASSUME CacheInv, ~ArenaShort, "free_batch" \notin Operations, NEW t \in alive, Operate(t)
  PROVE  /\ CacheInv' /\ KeepsOwned /\ alive' = alive
         /\ \/ free' \in SUBSET free /\ held \subseteq held'
            \/ free \subseteq free' /\ held' \in SUBSET held
<1>1. PICK c \in Classes :
        \/ Allocate(t, c)
        \/ \E n \in 1 .. MaxBatch : AllocateBatch(t, c, n)
        \/ \E p \in HeldAs(c) : Deallocate(t, c, p)
  BY DEF Operate
<1>2. CASE Allocate(t, c) BY <1>2, AllocateKeeps
<1>3. CASE \E n \in 1 .. MaxBatch : AllocateBatch(t, c, n) BY <1>3, AllocateBatchKeeps
<1>4. CASE \E p \in HeldAs(c) : Deallocate(t, c, p) BY <1>4, DeallocateKeeps
<1> QED BY <1>1, <1>2, <1>3, <1>4

\* Every step of CacheSpec keeps the invariant and is a step of the abstract allocator.
LEMMA CacheStep ==
  ASSUME CacheInv, ~ArenaShort, "free_batch" \notin Operations, [CacheNext]_cacheVars
  PROVE  CacheInv' /\ KeepsOwned /\ [Allocator!AllocNext]_<<free, HeldObjects>>
<1>1. CASE UNCHANGED cacheVars
  <2>1. HeldObjects' = HeldObjects BY <1>1 DEF cacheVars, HeldObjects
  <2> QED BY <1>1, <2>1 DEF cacheVars, CacheInv, Bins, Owners, KeepsOwned, Owned, CacheTypeOK
<1>2. ASSUME CacheNext PROVE CacheInv' /\ KeepsOwned
             /\ \/ free' \in SUBSET free /\ held \subseteq held'
                \/ free \subseteq free' /\ held' \in SUBSET held
  <2>1. PICK t \in Threads : (t \notin alive /\ Construct(t)) \/ (t \in alive /\ Operate(t))
    BY <1>2 DEF CacheNext
  <2>2. CASE t \notin alive /\ Construct(t) BY <2>2, ConstructKeeps, NoContents DEF KeepsOwned
  <2>3. CASE t \in alive /\ Operate(t) BY <2>3, OperateKeeps
  <2> QED BY <2>1, <2>2, <2>3
<1>3. CASE CacheNext
  <2>1. CacheInv' /\ KeepsOwned BY <1>2, <1>3
  <2>2. HeldObjects' \in SUBSET (Objects \ free') /\ free' \in SUBSET (Objects \ HeldObjects')
    BY <2>1 DEF CacheInv, Owners, Bins, CacheTypeOK, HeldObjects
  <2>3. CASE free' \in SUBSET free /\ held \subseteq held'
    <3>1. HeldObjects \subseteq HeldObjects' BY <2>3 DEF HeldObjects
    <3> QED BY <2>1, <2>2, <2>3, <3>1 DEF Allocator!AllocNext, Allocator!Allocate
  <2>4. CASE free \subseteq free' /\ held' \in SUBSET held
    <3>1. HeldObjects' \in SUBSET HeldObjects BY <2>4 DEF HeldObjects
    <3> QED BY <2>1, <2>2, <2>4, <3>1 DEF Allocator!AllocNext, Allocator!Free
  <2> QED BY <1>2, <1>3, <2>3, <2>4
<1> QED BY <1>1, <1>3

\* The invariant of the caches.
LEMMA CacheInvariant ==
  ASSUME ~ArenaShort, "free_batch" \notin Operations
  PROVE  CacheSpec => [](CacheInv /\ Accounted)
<1>1. CacheInv /\ Accounted /\ [CacheNext]_cacheVars => CacheInv' /\ Accounted'
  BY CacheStep DEF Accounted, KeepsOwned, Objects, Classes
<1> QED BY <1>1, CacheInitially, PTL DEF CacheSpec

\* thread_cache.cc: no object is in two bins, in two callers' hands, or in one place
\* while the arena believes it free.
THEOREM ObjectsOwnedOnce ==
  ASSUME ~ArenaShort, "free_batch" \notin Operations
  PROVE  CacheSpec => []OwnedOnce
<1>1. CacheInv => OwnedOnce BY OwnersOwnOnce DEF CacheInv
<1> QED BY <1>1, CacheInvariant, PTL

\* thread_cache.cc and cache_bin.cc: every object stays with the arena, a bin or a caller.
THEOREM CacheLosesNothing ==
  ASSUME ~ArenaShort, "free_batch" \notin Operations
  PROVE  CacheSpec => []NothingLost
<1>1. Accounted => NothingLost BY AccountedLosesNothing
<1> QED BY <1>1, CacheInvariant, PTL

\* thread_cache::fill_cache keeps every bin at the threshold or above, without nulls.
THEOREM BinsStayStocked ==
  ASSUME ~ArenaShort, "free_batch" \notin Operations
  PROVE  CacheSpec => []Stocked
<1>1. CacheInv => Stocked
  <2> SUFFICES ASSUME CacheInv, NEW t \in alive, NEW c \in Classes
               PROVE  /\ ncached[t][c] >= Flush
                      /\ \A i \in 0 .. ncached[t][c] - 1 : ptrs[t][c][i] # Nothing
    BY DEF Stocked
  <2> USE CacheAssumption DEF CacheInv, Bins, CacheTypeOK
  <2>1. ncached[t][c] \in 0 .. Size /\ 0 \in Places BY DEF Places
  <2>2. \A i \in 0 .. ncached[t][c] - 1 : i \in Places /\ i < ncached[t][c] BY <2>1 DEF Places
  <2> QED BY <2>1, <2>2
<1> QED BY <1>1, CacheInvariant, PTL

\* The caches with the arena implement the abstract allocator: objects pass between free
\* and held only through it.
THEOREM CacheIsAllocator ==
  ASSUME ~ArenaShort, "free_batch" \notin Operations
  PROVE  CacheSpec => CacheImplementsAllocator
<1>1. CacheInit => Allocator!AllocInit BY DEF CacheInit, HeldObjects, Allocator!AllocInit
<1>2. CacheInv /\ [CacheNext]_cacheVars => [Allocator!AllocNext]_<<free, HeldObjects>> BY CacheStep
<1> QED BY <1>1, <1>2, CacheInvariant, PTL
        DEF CacheSpec, CacheImplementsAllocator, Allocator!AllocSpec, Allocator!allocVars

-----------------------------------------------------------------------------
(* The life of the caches *)


Labels == {"idle", "create", "register", "use", "arena", "reset", "shutdown", "gone"}

LifeTypeOK ==
  /\ alive \in SUBSET Threads
  /\ registered \in SUBSET Threads
  /\ tls \in SUBSET Threads
  /\ shutdown \in BOOLEAN
  /\ at \in [Threads -> Labels]

\* What a thread's place says about its cache.
Life(t) ==
  /\ at[t] \in {"register", "use"} => t \in alive
  /\ t \in tls /\ ~shutdown /\ at[t] # "reset" => t \in alive
  /\ t \in alive => t \in registered \/ at[t] = "register"
  /\ at[t] = "gone" => t \notin tls

\* shutdown() is called while no other thread is in a call, and later calls do
\* not come near a cache: this is what keeps it from deleting one in use.
ClosedAfterShutdown ==
  /\ shutdown => \A t \in Threads : at[t] \notin {"create", "register", "use"}
  /\ \A t \in Threads : at[t] = "shutdown" => shutdown

LifeInv ==
  /\ LifeTypeOK
  /\ registered \subseteq alive
  /\ \A t \in Threads : Life(t)
  /\ ClosedAfterShutdown

LEMMA LifeInitially == ManagerInit => LifeInv
BY DEF ManagerInit, CacheInit, LifeInv, LifeTypeOK, Life, ClosedAfterShutdown, Labels

\* No operation on a cache creates or deletes one.
LEMMA OperationsKeepCaches ==
  ASSUME NEW t \in Threads, Operate(t)
  PROVE  alive' = alive
BY DEF Operate, Allocate, AllocateBatch, Deallocate, DeallocateBatch

\* Every step of a thread keeps the invariant.
LEMMA LifeStep ==
  ASSUME LifeInv, NEW t \in Threads,
         \/ Enter(t) \/ Create(t) \/ Register(t) \/ Use(t) \/ UseArena(t)
         \/ CleanupCurrent(t) \/ ResetCurrent(t)
         \/ \E u \in Threads : CleanupThread(t, u)
         \/ Shutdown(t) \/ ShutdownDelete(t)
         \/ Exit(t) \/ Start(t)
  PROVE  LifeInv'
<1> USE DEF LifeInv, LifeTypeOK, Life, ClosedAfterShutdown, Labels, Goto
<1>1. CASE Enter(t) \/ Exit(t) \/ Start(t)
  BY <1>1 DEF Enter, Exit, Start, cacheVars
<1>2. CASE Create(t)
  BY <1>2 DEF Create, Construct
<1>3. CASE Register(t)
  BY <1>3 DEF Register, cacheVars
<1>4. CASE Use(t)
  BY <1>4, OperationsKeepCaches DEF Use
<1>5. CASE UseArena(t)
  BY <1>5 DEF UseArena
<1>6. CASE CleanupCurrent(t)
  BY <1>6 DEF CleanupCurrent, Delete, Destroy
<1>7. CASE ResetCurrent(t)
  BY <1>7 DEF ResetCurrent, cacheVars
<1>8. ASSUME NEW u \in Threads, CleanupThread(t, u) PROVE LifeInv'
  BY <1>8 DEF CleanupThread, Delete, Destroy
<1>9. CASE Shutdown(t)
  BY <1>9 DEF Shutdown, cacheVars
<1>10. CASE ShutdownDelete(t)
  BY <1>10 DEF ShutdownDelete, Delete, Destroy
<1> QED BY <1>1, <1>2, <1>3, <1>4, <1>5, <1>6, <1>7, <1>8, <1>9, <1>10

LEMMA LifeInductive ==
  ASSUME LifeInv, [ManagerNext]_managerVars
  PROVE  LifeInv'
<1> USE DEF LifeInv, LifeTypeOK, Life, ClosedAfterShutdown
<1>1. CASE ProcessExit
  BY <1>1 DEF ProcessExit, Delete, Destroy
<1>2. CASE UNCHANGED managerVars
  BY <1>2 DEF managerVars, cacheVars
<1> QED BY <1>1, <1>2, LifeStep DEF ManagerNext

\* thread_cache_manager.cc: with shutdown() called outside of calls, and cleanup for one's own
\* cache or a gone thread's, no call uses a cache that was deleted.
THEOREM NoUseAfterDelete == ManagerSpec => []UsedCacheExists
<1>1. LifeInv => UsedCacheExists BY DEF LifeInv, Life, UsedCacheExists
<1>2. LifeInv /\ [ManagerNext]_managerVars => LifeInv' BY LifeInductive
<1> QED BY <1>1, <1>2, LifeInitially, PTL DEF ManagerSpec

\* thread_cache_manager.cc: whether ids come back with cleanup or without, the registry names
\* a cache for every id that has one, and no cache that was deleted.
THEOREM RegistryNamesCaches == ManagerSpec => []RegistryExact
<1>1. LifeInv => RegistryExact BY DEF LifeInv, LifeTypeOK, Life, RegistryExact
<1>2. LifeInv /\ [ManagerNext]_managerVars => LifeInv' BY LifeInductive
<1> QED BY <1>1, <1>2, LifeInitially, PTL DEF ManagerSpec

-----------------------------------------------------------------------------
\* When shutdown() is over there are no caches, and none will come.
Lifetimes == shutdown /\ (\A t \in Threads : at[t] # "shutdown") => alive = {}

LEMMA LifetimesStep ==
  ASSUME LifeInv, Lifetimes, [ManagerNext]_managerVars
  PROVE  Lifetimes'
<1> USE DEF LifeInv, LifeTypeOK, Life, ClosedAfterShutdown, Lifetimes, Goto
<1>1. ASSUME NEW t \in Threads, Enter(t) \/ Exit(t) \/ Start(t) PROVE Lifetimes'
  BY <1>1 DEF Enter, Exit, Start, cacheVars
<1>2. ASSUME NEW t \in Threads, Create(t) PROVE Lifetimes'
  BY <1>2 DEF Create, Construct
<1>3. ASSUME NEW t \in Threads, Register(t) \/ Use(t) \/ UseArena(t) PROVE Lifetimes'
  BY <1>3, OperationsKeepCaches DEF Register, Use, UseArena, cacheVars
<1>4. ASSUME NEW t \in Threads, CleanupCurrent(t) PROVE Lifetimes'
  BY <1>4 DEF CleanupCurrent, Delete, Destroy
<1>5. ASSUME NEW t \in Threads, ResetCurrent(t) PROVE Lifetimes'
  BY <1>5 DEF ResetCurrent, cacheVars
<1>6. ASSUME NEW t \in Threads, NEW u \in Threads, CleanupThread(t, u) PROVE Lifetimes'
  BY <1>6 DEF CleanupThread, Delete, Destroy
<1>7. ASSUME NEW t \in Threads, Shutdown(t) PROVE Lifetimes'
  BY <1>7 DEF Shutdown, cacheVars
<1>8. ASSUME NEW t \in Threads, ShutdownDelete(t) PROVE Lifetimes'
  BY <1>8 DEF ShutdownDelete, Delete, Destroy
<1>9. CASE ProcessExit
  BY <1>9 DEF ProcessExit, Delete, Destroy
<1>10. CASE UNCHANGED managerVars
  BY <1>10 DEF managerVars, cacheVars
<1> QED BY <1>1, <1>2, <1>3, <1>4, <1>5, <1>6, <1>7, <1>8, <1>9, <1>10 DEF ManagerNext

\* A step in which the objects of D, and no others, lose their owners.
Drops(D) ==
  /\ \A p : Owned(p)' <=> Owned(p) /\ p \notin D
  /\ D \subseteq Objects
  /\ (orphaned \cup ignored)' = orphaned \cup ignored \cup D

\* What becomes of the objects in a step: the abstract allocator's two kinds of step.
Moves ==
  \/ free' \in SUBSET free /\ held \subseteq held'
  \/ free \subseteq free' /\ held' \in SUBSET held

\* Deleting caches gives the objects of their bins back, but for those the arena does not
\* take, which are lost.
LEMMA DestroyKeeps ==
  ASSUME CacheInv, NEW T \in SUBSET Threads, Destroy(T)
  PROVE  /\ CacheInv' /\ Moves
         /\ UNION {Untaken(t) : t \in T} \subseteq Objects
         /\ \A p : Owned(p)' <=> Owned(p) /\ p \notin UNION {Untaken(t) : t \in T}
<1> USE CacheAssumption
<1>1. /\ CacheTypeOK /\ held' = held /\ HeldObjects' = HeldObjects /\ Places \subseteq Nat
      /\ alive' = alive \ T /\ free' = free \cup UNION {Flushed(t) : t \in T}
  BY DEF CacheInv, Bins, Destroy, HeldObjects, Places
<1>2. /\ \A t \in Threads \ T, c \in Classes :
           ptrs'[t][c] = ptrs[t][c] /\ ncached'[t][c] = ncached[t][c]
      /\ \A t \in T, c \in Classes : ncached'[t][c] = 0
  BY DEF Destroy
<1>3. ASSUME NEW t \in T, NEW p \in Flushed(t)
      PROVE  /\ p \in Objects
             /\ \E c \in Classes, i \in Places : i < ncached[t][c] /\ ptrs[t][c][i] = p
  <2>0. PICK c \in Classes : p \in Cached(t, c) BY DEF Flushed
  <2>1. PICK i \in 0 .. ncached[t][c] - 1 : p = ptrs[t][c][i] BY <2>0 DEF Cached
  <2>2. t \in Threads /\ ncached[t][c] \in 0 .. Size BY <1>1 DEF CacheTypeOK
  <2>3. i \in Places /\ i < ncached[t][c] BY <2>2 DEF Places
  <2>4. t \in alive BY <1>1, <2>2, <2>3 DEF CacheInv, Bins
  <2>5. p \in Objects BY <1>1, <2>1, <2>2, <2>3, <2>4 DEF CacheInv, Bins, CacheTypeOK
  <2> QED BY <2>1, <2>3, <2>5
<1>4. Bins'
  <2>1. CacheTypeOK'
    <3>1. ptrs' \in [Threads -> [Classes -> [Places -> Objects \cup {Nothing}]]]
      BY <1>1 DEF CacheTypeOK, Destroy, Empty
    <3>2. ncached' \in [Threads -> [Classes -> 0 .. Size]] BY <1>1 DEF CacheTypeOK, Destroy
    <3>3. free' \in SUBSET Objects BY <1>1, <1>3 DEF CacheTypeOK
    <3> QED BY <1>1, <3>1, <3>2, <3>3 DEF CacheTypeOK
  <2>2. ASSUME NEW t \in Threads \ alive', NEW c \in Classes PROVE ncached'[t][c] = 0
    BY <1>1, <1>2, <2>2 DEF CacheInv, Bins
  <2>3. ASSUME NEW t \in alive', NEW c \in Classes, NEW i \in Places
        PROVE  Flush <= ncached'[t][c] /\ (i < ncached'[t][c] => ptrs'[t][c][i] # Nothing)
    <3>1. t \in alive /\ t \in Threads \ T BY <1>1, <2>3 DEF CacheTypeOK
    <3> QED BY <1>2, <3>1 DEF CacheInv, Bins
  <2> QED BY <2>1, <2>2, <2>3 DEF Bins
<1>5. ASSUME NEW t \in Threads, NEW c \in Classes, NEW i \in Places, i < ncached'[t][c]
      PROVE  t \notin T /\ i < ncached[t][c] /\ ptrs'[t][c][i] = ptrs[t][c][i]
  BY <1>1, <1>2, <1>5
<1>6. Owners'
  <2>1. ASSUME NEW t \in Threads, NEW c \in Classes, NEW i \in Places, i < ncached'[t][c]
        PROVE  ptrs'[t][c][i] \notin free' /\ ptrs'[t][c][i] \notin HeldObjects'
    <3>1. ptrs[t][c][i] \notin free /\ ptrs[t][c][i] \notin HeldObjects
      BY <1>5, <2>1 DEF CacheInv, Owners
    <3>2. ASSUME NEW u \in T PROVE ptrs[t][c][i] \notin Flushed(u)
      <4> SUFFICES ASSUME ptrs[t][c][i] \in Flushed(u) PROVE FALSE OBVIOUS
      <4>1. PICK d \in Classes, j \in Places : j < ncached[u][d] /\ ptrs[u][d][j] = ptrs[t][c][i]
        BY <1>3
      <4>2. u = t BY <1>5, <2>1, <4>1 DEF CacheInv, Owners
      <4> QED BY <1>5, <2>1, <4>2
    <3> QED BY <1>1, <1>5, <2>1, <3>1, <3>2
  <2>2. ASSUME NEW t \in Threads, NEW u \in Threads, NEW c \in Classes, NEW d \in Classes,
               NEW i \in Places, NEW j \in Places,
               i < ncached'[t][c], j < ncached'[u][d], ptrs'[t][c][i] = ptrs'[u][d][j]
        PROVE  t = u /\ c = d /\ i = j
    <3>1. i < ncached[t][c] /\ j < ncached[u][d] /\ ptrs[t][c][i] = ptrs[u][d][j] BY <1>5, <2>2
    <3> QED BY <3>1 DEF CacheInv, Owners
  <2>3. ASSUME NEW p \in free' PROVE p \notin HeldObjects'
    <3>1. CASE p \in free BY <1>1, <3>1 DEF CacheInv, Owners
    <3>2. CASE \E t \in T : p \in Flushed(t)
      BY <1>1, <1>3, <3>2 DEF CacheInv, Owners
    <3> QED BY <1>1, <2>3, <3>1, <3>2
  <2>4. \A h, g \in held' : h[2] = g[2] => h = g BY <1>1 DEF CacheInv, Owners
  <2> QED BY <2>1, <2>2, <2>3, <2>4 DEF Owners
<1>7. ASSUME NEW p, Owned(p)' PROVE Owned(p) /\ \A t \in T : p \notin Untaken(t)
  <2>1. CASE p \in free \/ p \in HeldObjects
    BY <2>1, ContentsAlone DEF Owned, Untaken
  <2>2. ASSUME NEW t \in T, p \in Flushed(t) PROVE Owned(p) /\ \A u \in T : p \notin Untaken(u)
    <3>1. p[1] = Eight BY <2>2 DEF Flushed
    <3>2. Owned(p) BY <1>3, <2>2 DEF Owned
    <3> QED BY <3>1, <3>2 DEF Untaken
  <2>3. ASSUME NEW u \in Threads, NEW c \in Classes, NEW i \in Places,
               i < ncached'[u][c], ptrs'[u][c][i] = p
        PROVE  Owned(p) /\ \A t \in T : p \notin Untaken(t)
    <3>1. u \notin T /\ i < ncached[u][c] /\ ptrs[u][c][i] = p BY <1>5, <2>3
    <3>2. \A t \in T : p \notin Contents(t) BY <3>1, ContentsAlone
    <3> QED BY <3>1, <3>2 DEF Owned, Untaken
  <2> QED BY <1>1, <1>7, <2>1, <2>2, <2>3 DEF Owned
<1>8. ASSUME NEW p, Owned(p), \A t \in T : p \notin Untaken(t) PROVE Owned(p)'
  <2>1. CASE p \in free \/ p \in HeldObjects BY <1>1, <2>1 DEF Owned
  <2>2. ASSUME NEW u \in Threads, NEW c \in Classes, NEW i \in Places,
               i < ncached[u][c], ptrs[u][c][i] = p
        PROVE  Owned(p)'
    <3>1. CASE u \notin T
      <4>1. i < ncached'[u][c] /\ ptrs'[u][c][i] = p BY <1>2, <2>2, <3>1
      <4> QED BY <4>1 DEF Owned
    <3>2. CASE u \in T
      <4>1. p \in Contents(u) BY <1>1, <2>2, ContentsPlaces
      <4>2. p \in Flushed(u) BY <1>8, <3>2, <4>1 DEF Untaken, Flushed, Contents
      <4> QED BY <1>1, <3>2, <4>2 DEF Owned
    <3> QED BY <3>1, <3>2
  <2> QED BY <1>8, <2>1, <2>2 DEF Owned
<1>9. UNION {Untaken(t) : t \in T} \subseteq Objects BY ContentsAlone DEF Untaken
<1>10. Moves BY <1>1 DEF Moves
<1> QED BY <1>4, <1>6, <1>7, <1>8, <1>9, <1>10 DEF CacheInv

\* A call that goes to the arena itself takes free objects, or gives held ones back; only a
\* batch that is given back under the wrong class is lost.
LEMMA UseArenaKeeps ==
  ASSUME CacheInv, NEW t \in Threads, UseArena(t)
  PROVE  CacheInv' /\ Moves /\ \E D : Drops(D)
<1> USE CacheAssumption
<1>1. UNCHANGED <<alive, ptrs, ncached, orphaned>> BY DEF UseArena
<1>2. CacheTypeOK BY DEF CacheInv, Bins
<1>3. PICK c \in Classes :
        \/ \E S \in SUBSET free : HandOver(c, S) /\ free' = free \ S /\ ignored' = ignored
        \/ \E P \in SUBSET HeldAs(c), Q \in SUBSET HeldAs(c) :
             /\ Q \subseteq P /\ ignored' = ignored \cup (P \ Q)
             /\ held' = held \ {<<c, p>> : p \in P} /\ free' = free \cup Q
  <2>1. PICK c \in Classes :
          \/ \E n \in 1 .. MaxBatch : \E S \in Supplies(free, c, n) :
               HandOver(c, S) /\ free' = free \ S /\ ignored' = ignored
          \/ \E p \in HeldAs(c) :
               held' = held \ {<<c, p>>} /\ free' = free \cup {p} /\ ignored' = ignored
          \/ \E P \in SUBSET HeldAs(c) :
               /\ held' = held \ {<<c, p>> : p \in P}
               /\ free' = free \cup {p \in P : p[1] = c}
               /\ ignored' = ignored \cup {p \in P : p[1] # c}
    BY DEF UseArena
  <2>2. \A n : \A S \in Supplies(free, c, n) : S \in SUBSET free BY DEF Supplies
  <2>3. ASSUME NEW p \in HeldAs(c), held' = held \ {<<c, p>>}, free' = free \cup {p},
               ignored' = ignored
        PROVE  \E P \in SUBSET HeldAs(c), Q \in SUBSET HeldAs(c) :
                 /\ Q \subseteq P /\ ignored' = ignored \cup (P \ Q)
                 /\ held' = held \ {<<c, q>> : q \in P} /\ free' = free \cup Q
    <3>1. {<<c, q>> : q \in {p}} = {<<c, p>>} OBVIOUS
    <3>2. {p} \in SUBSET HeldAs(c) /\ ignored' = ignored \cup ({p} \ {p}) BY <2>3
    <3> QED BY <2>3, <3>1, <3>2
  <2>4. ASSUME NEW P \in SUBSET HeldAs(c), held' = held \ {<<c, p>> : p \in P},
               free' = free \cup {p \in P : p[1] = c},
               ignored' = ignored \cup {p \in P : p[1] # c}
        PROVE  \E Q \in SUBSET HeldAs(c) :
                 Q \subseteq P /\ free' = free \cup Q /\ ignored' = ignored \cup (P \ Q)
    <3> DEFINE Q == {p \in P : p[1] = c}
    <3>1. Q \in SUBSET HeldAs(c) /\ Q \subseteq P OBVIOUS
    <3>2. P \ Q = {p \in P : p[1] # c} OBVIOUS
    <3> QED BY <2>4, <3>1, <3>2
  <2> QED BY <2>1, <2>2, <2>3, <2>4
<1>4. CASE \E S \in SUBSET free : HandOver(c, S) /\ free' = free \ S /\ ignored' = ignored
  <2>1. PICK S \in SUBSET free :
          held' = held \cup {<<c, p>> : p \in S} /\ free' = free \ S /\ ignored' = ignored
    BY <1>4 DEF HandOver
  <2>2. HeldObjects' = HeldObjects \cup S
    <3>1. ASSUME NEW p PROVE p \in HeldObjects' <=> p \in HeldObjects \/ p \in S
      <4>1. p \in HeldObjects' <=> \E h \in held' : p = h[2] BY DEF HeldObjects
      <4>2. p \in HeldObjects <=> \E h \in held : p = h[2] BY DEF HeldObjects
      <4>3. \A q : <<c, q>>[2] = q OBVIOUS
      <4>4. p \in S => <<c, p>> \in held' BY <2>1
      <4>5. \A h \in held' : h \in held \/ \E q \in S : h = <<c, q>> BY <2>1
      <4> QED BY <2>1, <4>1, <4>2, <4>3, <4>4, <4>5
    <3> QED BY <3>1
  <2>3. S \subseteq Objects /\ S \cap HeldObjects = {} BY <1>2 DEF CacheTypeOK, CacheInv, Owners
  <2>4. Bins' BY <1>1, <1>2, <2>1, <2>3 DEF CacheInv, Bins, CacheTypeOK
  <2>5. \A h, g \in held' : h[2] = g[2] => h = g
    <3>1. \A x \in held : x[2] \in HeldObjects BY DEF HeldObjects
    <3>2. \A x \in held' : x \in held \/ (x = <<c, x[2]>> /\ x[2] \in S) BY <2>1
    <3>3. ASSUME NEW h \in held', NEW g \in held', h[2] = g[2] PROVE h = g
      <4>1. CASE h \in held /\ g \in held BY <3>3, <4>1 DEF CacheInv, Owners
      <4> QED BY <2>3, <3>1, <3>2, <3>3, <4>1
    <3> QED BY <3>3
  <2>6. Owners'
    <3>1. ASSUME NEW u \in Threads, NEW d \in Classes, NEW i \in Places, i < ncached[u][d]
          PROVE  ptrs[u][d][i] \notin free' /\ ptrs[u][d][i] \notin HeldObjects'
      BY <2>1, <2>2, <3>1 DEF CacheInv, Owners
    <3>2. \A p \in free' : p \notin HeldObjects' BY <2>1, <2>2 DEF CacheInv, Owners
    <3> QED BY <1>1, <2>5, <3>1, <3>2 DEF CacheInv, Owners
  <2>7. Drops({})
    <3>1. \A p : Owned(p)' <=> Owned(p) BY <1>1, <2>1, <2>2 DEF Owned
    <3> QED BY <1>1, <2>1, <3>1 DEF Drops
  <2>8. Moves BY <2>1 DEF Moves
  <2> QED BY <2>4, <2>6, <2>7, <2>8 DEF CacheInv
<1>5. CASE \E P \in SUBSET HeldAs(c), Q \in SUBSET HeldAs(c) :
             /\ Q \subseteq P /\ ignored' = ignored \cup (P \ Q)
             /\ held' = held \ {<<c, p>> : p \in P} /\ free' = free \cup Q
  <2>1. PICK P \in SUBSET HeldAs(c), Q \in SUBSET HeldAs(c) :
             /\ Q \subseteq P /\ ignored' = ignored \cup (P \ Q)
             /\ held' = held \ {<<c, p>> : p \in P} /\ free' = free \cup Q
    BY <1>5
  <2>2. P \subseteq Objects /\ \A p \in P : <<c, p>> \in held BY DEF HeldAs
  <2>3. HeldObjects' = HeldObjects \ P /\ P \subseteq HeldObjects
    <3>1. \A p : <<c, p>>[2] = p OBVIOUS
    <3>2. \A h \in held : h[2] \in P => h = <<c, h[2]>>
      BY <2>2, <3>1 DEF CacheInv, Owners
    <3>3. ASSUME NEW p PROVE p \in HeldObjects' <=> p \in HeldObjects /\ p \notin P
      <4>1. p \in HeldObjects' <=> \E h \in held' : p = h[2] BY DEF HeldObjects
      <4>2. p \in HeldObjects <=> \E h \in held : p = h[2] BY DEF HeldObjects
      <4>3. \A h \in held : h \in held' <=> h[2] \notin P BY <2>1, <3>1, <3>2
      <4>4. held' \subseteq held BY <2>1
      <4> QED BY <4>1, <4>2, <4>3, <4>4
    <3>4. P \subseteq HeldObjects BY <2>2, <3>1 DEF HeldObjects
    <3> QED BY <3>3, <3>4
  <2>4. Bins' BY <1>1, <1>2, <2>1, <2>2 DEF CacheInv, Bins, CacheTypeOK
  <2>5. Owners'
    <3>1. ASSUME NEW u \in Threads, NEW d \in Classes, NEW i \in Places, i < ncached[u][d]
          PROVE  ptrs[u][d][i] \notin free' /\ ptrs[u][d][i] \notin HeldObjects'
      BY <2>1, <2>3, <3>1 DEF CacheInv, Owners
    <3>2. \A p \in free' : p \notin HeldObjects' BY <2>1, <2>3 DEF CacheInv, Owners
    <3>3. \A h, g \in held' : h[2] = g[2] => h = g BY <2>1 DEF CacheInv, Owners
    <3> QED BY <1>1, <3>1, <3>2, <3>3 DEF CacheInv, Owners
  <2>6. Drops(P \ Q)
    <3>1. ASSUME NEW p, p \in P PROVE Owned(p)' <=> p \in Q
      <4>1. p \in HeldObjects /\ p \notin HeldObjects' BY <2>3, <3>1
      <4>2. p \notin free BY <4>1 DEF CacheInv, Owners
      <4>3. \A u \in Threads, d \in Classes, i \in Places : i < ncached[u][d] => ptrs[u][d][i] # p
        BY <4>1 DEF CacheInv, Owners
      <4> QED BY <1>1, <2>1, <4>1, <4>2, <4>3 DEF Owned
    <3>2. ASSUME NEW p, p \notin P PROVE Owned(p)' <=> Owned(p)
      BY <1>1, <2>1, <2>3, <3>2 DEF Owned
    <3>3. \A p \in P : Owned(p) BY <2>3 DEF Owned
    <3>4. P \ Q \subseteq Objects BY <2>2
    <3>5. (orphaned \cup ignored)' = orphaned \cup ignored \cup (P \ Q) BY <1>1, <2>1
    <3> QED BY <2>1, <3>1, <3>2, <3>3, <3>4, <3>5 DEF Drops
  <2>7. Moves BY <2>1 DEF Moves
  <2> QED BY <2>4, <2>5, <2>6, <2>7 DEF CacheInv
<1> QED BY <1>3, <1>4, <1>5

\* Every step keeps the contents of the caches in order, and what it loses is written down.
LEMMA ContentsStep ==
  ASSUME CacheInv, LifeInv, ~ArenaShort, "free_batch" \notin Operations,
         [ManagerNext]_managerVars
  PROVE  CacheInv' /\ Moves /\ \E D : Drops(D)
<1>1. ASSUME UNCHANGED <<cacheVars, lossVars>> PROVE CacheInv' /\ Moves /\ Drops({})
  <2>1. HeldObjects' = HeldObjects BY <1>1 DEF cacheVars, HeldObjects
  <2>2. CacheInv' /\ Moves
    BY <1>1, <2>1 DEF cacheVars, CacheInv, Bins, Owners, CacheTypeOK, Moves
  <2>3. \A p : Owned(p)' <=> Owned(p) BY <1>1, <2>1 DEF cacheVars, Owned
  <2> QED BY <1>1, <2>2, <2>3 DEF Drops, lossVars
<1>2. ASSUME NEW t \in Threads, Create(t) PROVE CacheInv' /\ Moves /\ Drops(Contents(t))
  <2>1. Construct(t) /\ orphaned' = orphaned \cup Contents(t) /\ ignored' = ignored
    BY <1>2 DEF Create
  <2>2. Contents(t) \subseteq Objects BY ContentsAlone
  <2>3. CacheInv' /\ Moves BY <2>1, ConstructKeeps DEF Moves
  <2>4. \A p : Owned(p)' <=> Owned(p) /\ p \notin Contents(t) BY <2>1, ConstructKeeps
  <2>5. (orphaned \cup ignored)' = orphaned \cup ignored \cup Contents(t) BY <2>1
  <2> QED BY <2>2, <2>3, <2>4, <2>5 DEF Drops
<1>3. ASSUME NEW t \in Threads, Use(t) PROVE CacheInv' /\ Moves /\ Drops({})
  <2>1. CacheInv' /\ Moves /\ KeepsOwned BY <1>3, OperateKeeps DEF Use, Moves
  <2>2. (orphaned \cup ignored)' = orphaned \cup ignored BY <1>3 DEF Use, lossVars
  <2> QED BY <2>1, <2>2 DEF Drops, KeepsOwned
<1>4. ASSUME NEW t \in Threads,
             \/ Enter(t) \/ Register(t) \/ ResetCurrent(t) \/ Shutdown(t) \/ Exit(t) \/ Start(t)
      PROVE  UNCHANGED <<cacheVars, lossVars>>
  BY <1>4 DEF Enter, Register, ResetCurrent, Shutdown, Exit, Start
<1>5. ASSUME NEW T \in SUBSET Threads, Delete(T)
      PROVE  CacheInv' /\ Moves /\ Drops(UNION {Untaken(t) : t \in T})
  <2>1. Destroy(T) /\ ignored' = ignored \cup UNION {Untaken(t) : t \in T} /\ orphaned' = orphaned
    BY <1>5 DEF Delete
  <2> DEFINE D == UNION {Untaken(t) : t \in T}
  <2>2. /\ CacheInv' /\ Moves /\ D \subseteq Objects
        /\ \A p : Owned(p)' <=> Owned(p) /\ p \notin D
    BY <2>1, DestroyKeeps
  <2>3. (orphaned \cup ignored)' = orphaned \cup ignored \cup D BY <2>1
  <2> HIDE DEF D
  <2>4. Drops(D) BY <2>2, <2>3 DEF Drops
  <2> QED BY <2>2, <2>4 DEF D
<1>6. ASSUME \/ \E t \in Threads :
                  \/ CleanupCurrent(t) \/ ShutdownDelete(t)
                  \/ \E u \in Threads : CleanupThread(t, u)
             \/ ProcessExit
      PROVE  \E T \in SUBSET Threads : Delete(T)
  <2>1. registered \in SUBSET Threads BY DEF LifeInv, LifeTypeOK
  <2>2. ASSUME NEW t \in Threads, CleanupCurrent(t) PROVE \E T \in SUBSET Threads : Delete(T)
    <3>1. {t} \cap registered \in SUBSET Threads BY <2>1
    <3> QED BY <2>2, <3>1 DEF CleanupCurrent
  <2>3. ASSUME NEW t \in Threads, NEW u \in Threads, CleanupThread(t, u)
        PROVE  \E T \in SUBSET Threads : Delete(T)
    <3>1. {u} \in SUBSET Threads OBVIOUS
    <3> QED BY <2>3, <3>1 DEF CleanupThread
  <2>4. ASSUME NEW t \in Threads, ShutdownDelete(t) PROVE \E T \in SUBSET Threads : Delete(T)
    BY <2>1, <2>4 DEF ShutdownDelete
  <2>5. CASE ProcessExit BY <2>1, <2>5 DEF ProcessExit
  <2> QED BY <1>6, <2>2, <2>3, <2>4, <2>5
<1>7. CASE UNCHANGED managerVars BY <1>1, <1>7 DEF managerVars
<1>8. CASE ManagerNext
  <2>1. ASSUME NEW t \in Threads, UseArena(t) PROVE CacheInv' /\ Moves /\ \E D : Drops(D)
    BY <2>1, UseArenaKeeps
  <2> QED BY <1>1, <1>2, <1>3, <1>4, <1>5, <1>6, <1>8, <2>1 DEF ManagerNext
<1> QED BY <1>7, <1>8

\* What has no owner is what was seen to be lost.
Losses ==
  /\ orphaned \in SUBSET Objects /\ ignored \in SUBSET Objects
  /\ \A p \in Objects : Owned(p) <=> p \notin orphaned \cup ignored

ManagerInv == LifeInv /\ Lifetimes /\ CacheInv /\ Losses

LEMMA LossesStep ==
  ASSUME Losses, NEW D, Drops(D)
  PROVE  Losses'
<1>1. (orphaned \cup ignored)' = orphaned \cup ignored \cup D /\ D \subseteq Objects BY DEF Drops
<1>2. orphaned' \in SUBSET Objects /\ ignored' \in SUBSET Objects BY <1>1 DEF Losses
<1>3. \A p \in Objects : Owned(p)' <=> p \notin (orphaned \cup ignored)'
  BY <1>1 DEF Losses, Drops
<1> QED BY <1>2, <1>3 DEF Losses, Objects, Classes

LEMMA ManagerInitially == ManagerInit => ManagerInv
<1> SUFFICES ASSUME ManagerInit PROVE ManagerInv OBVIOUS
<1>1. LifeInv BY LifeInitially
<1>2. CacheInv /\ Accounted BY CacheInitially DEF ManagerInit
<1>3. Lifetimes BY DEF ManagerInit, CacheInit, Lifetimes
<1>4. Losses BY <1>2 DEF ManagerInit, Accounted, Losses
<1> QED BY <1>1, <1>2, <1>3, <1>4 DEF ManagerInv

LEMMA ManagerInvariant ==
  ASSUME ~ArenaShort, "free_batch" \notin Operations
  PROVE  ManagerSpec => []ManagerInv
<1>1. ManagerInv /\ [ManagerNext]_managerVars => ManagerInv'
  BY LifeInductive, LifetimesStep, ContentsStep, LossesStep DEF ManagerInv
<1> QED BY <1>1, ManagerInitially, PTL DEF ManagerSpec

\* The variables of the manager, its threads and their caches keep their types.
THEOREM ManagerTypeCorrect ==
  ASSUME ~ArenaShort, "free_batch" \notin Operations
  PROVE  ManagerSpec => []ManagerTypeOK
<1>1. ManagerInv => ManagerTypeOK
  BY DEF ManagerInv, LifeInv, LifeTypeOK, Labels, CacheInv, Bins, Losses, ManagerTypeOK
<1> QED BY <1>1, ManagerInvariant, PTL

\* thread_cache_manager.cc: through creation, cleanup, exits, restarts and shutdown no
\* object gets a second owner.
THEOREM ManagedObjectsOwnedOnce ==
  ASSUME ~ArenaShort, "free_batch" \notin Operations
  PROVE  ManagerSpec => []OwnedOnce
<1>1. ManagerInv => OwnedOnce BY OwnersOwnOnce DEF ManagerInv, CacheInv
<1> QED BY <1>1, ManagerInvariant, PTL

\* To its callers the manager is an object allocator all the while.
THEOREM ManagerIsAllocator ==
  ASSUME ~ArenaShort, "free_batch" \notin Operations
  PROVE  ManagerSpec => CacheImplementsAllocator
<1>1. ManagerInit => Allocator!AllocInit
  BY DEF ManagerInit, CacheInit, HeldObjects, Allocator!AllocInit
<1>2. ManagerInv /\ ManagerInv' /\ [ManagerNext]_managerVars
        => [Allocator!AllocNext]_<<free, HeldObjects>>
  <2> SUFFICES ASSUME ManagerInv, ManagerInv', [ManagerNext]_managerVars
               PROVE  Allocator!AllocNext
    OBVIOUS
  <2>1. Moves BY ContentsStep DEF ManagerInv
  <2>2. HeldObjects' \in SUBSET (Objects \ free') /\ free' \in SUBSET (Objects \ HeldObjects')
    BY DEF ManagerInv, CacheInv, Owners, Bins, CacheTypeOK, HeldObjects
  <2>3. CASE free' \in SUBSET free /\ held \subseteq held'
    <3>1. HeldObjects \subseteq HeldObjects' BY <2>3 DEF HeldObjects
    <3> QED BY <2>2, <2>3, <3>1 DEF Allocator!AllocNext, Allocator!Allocate
  <2>4. CASE free \subseteq free' /\ held' \in SUBSET held
    <3>1. HeldObjects' \in SUBSET HeldObjects BY <2>4 DEF HeldObjects
    <3> QED BY <2>2, <2>4, <3>1 DEF Allocator!AllocNext, Allocator!Free
  <2> QED BY <2>1, <2>3, <2>4 DEF Moves
<1> QED BY <1>1, <1>2, ManagerInvariant, PTL
        DEF ManagerSpec, CacheImplementsAllocator, Allocator!AllocSpec, Allocator!allocVars

\* thread_cache_manager.cc, flush_arena and the arena's batches: an object is lost when its
\* cache's entry is overwritten or when it is given back to the wrong class, and in no other way.
THEOREM LossesAreKnown ==
  ASSUME ~ArenaShort, "free_batch" \notin Operations
  PROVE  ManagerSpec => []LossesKnown
<1>1. ManagerInv => LossesKnown
  <2> SUFFICES ASSUME ManagerInv PROVE LossesKnown OBVIOUS
  <2>1. CacheInv /\ CacheTypeOK /\ Losses BY DEF ManagerInv, CacheInv, Bins
  <2> DEFINE binned == {At(l) : l \in Live}
  <2>2. ASSUME NEW p
        PROVE  p \in binned <=> \E t \in Threads, c \in Classes, i \in Places :
                                  i < ncached[t][c] /\ ptrs[t][c][i] = p
    <3>1. ASSUME NEW t \in Threads, NEW c \in Classes, NEW i \in Places, i < ncached[t][c]
          PROVE  <<t, c, i>> \in Live /\ At(<<t, c, i>>) = ptrs[t][c][i]
      BY <3>1 DEF Live, At
    <3>2. \A l \in Live : \E t \in Threads, c \in Classes, i \in Places :
                            i < ncached[t][c] /\ ptrs[t][c][i] = At(l)
      BY DEF Live, At
    <3>3. ASSUME p \in binned
          PROVE  \E t \in Threads, c \in Classes, i \in Places :
                   i < ncached[t][c] /\ ptrs[t][c][i] = p
      <4>1. PICK l \in Live : p = At(l) BY <3>3
      <4> QED BY <3>2, <4>1
    <3>4. ASSUME NEW t \in Threads, NEW c \in Classes, NEW i \in Places,
                 i < ncached[t][c], ptrs[t][c][i] = p
          PROVE  p \in binned
      <4>1. <<t, c, i>> \in Live /\ At(<<t, c, i>>) = p BY <3>1, <3>4
      <4> QED BY <4>1
    <3> QED BY <3>3, <3>4
  <2> HIDE DEF binned
  <2>3. \A p : p \in free \cup HeldObjects \cup binned <=> Owned(p) BY <2>2 DEF Owned
  <2>4. free \cup HeldObjects \cup binned \subseteq Objects
    <3>1. free \subseteq Objects /\ HeldObjects \subseteq Objects
      BY <2>1 DEF CacheTypeOK, HeldObjects
    <3>2. ASSUME NEW p \in binned PROVE p \in Objects
      <4>1. PICK t \in Threads, c \in Classes, i \in Places :
              i < ncached[t][c] /\ ptrs[t][c][i] = p
        BY <2>2
      <4> QED BY <2>1, <4>1, ContentsPlaces, ContentsAlone
    <3> QED BY <3>1, <3>2
  <2>5. Objects = free \cup HeldObjects \cup binned \cup (orphaned \cup ignored)
    BY <2>1, <2>3, <2>4 DEF Losses
  <2>6. (orphaned \cup ignored) \cap (free \cup HeldObjects \cup binned) = {}
    BY <2>1, <2>3, <2>4 DEF Losses
  <2> QED BY <2>5, <2>6 DEF LossesKnown, binned
<1> QED BY <1>1, ManagerInvariant, PTL

\* thread_cache_manager::shutdown(): when it is over, what no caller holds is in the arena,
\* but for what was lost before, with overwritten entries or to the wrong class.
THEOREM ShutdownReturnsEverything ==
  ASSUME ~ArenaShort, "free_batch" \notin Operations
  PROVE  ManagerSpec => []ShutdownReturnsAll
<1>1. ManagerInv => ShutdownReturnsAll
  <2> SUFFICES ASSUME ManagerInv, shutdown, \A t \in Threads : at[t] # "shutdown"
               PROVE  free = Objects \ (HeldObjects \cup orphaned \cup ignored)
    BY DEF ShutdownReturnsAll
  <2>1. alive = {} BY DEF ManagerInv, Lifetimes
  <2>2. \A t \in Threads, c \in Classes, i \in Places : ~(i < ncached[t][c])
    BY <2>1, CacheAssumption DEF ManagerInv, CacheInv, Bins, Places
  <2>3. free \subseteq Objects /\ free \cap HeldObjects = {}
    BY DEF ManagerInv, CacheInv, Bins, Owners, CacheTypeOK
  <2>4. \A p \in Objects : Owned(p) <=> p \in free \/ p \in HeldObjects BY <2>2 DEF Owned
  <2>5. \A p \in Objects : Owned(p) <=> p \notin orphaned \cup ignored BY DEF ManagerInv, Losses
  <2> QED BY <2>3, <2>4, <2>5
<1> QED BY <1>1, ManagerInvariant, PTL
=============================================================================
