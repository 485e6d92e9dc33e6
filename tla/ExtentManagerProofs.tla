------------------------ MODULE ExtentManagerProofs ------------------------
(***************************************************************************)
(* Proofs about ExtentManager.  The invariants hold where memory comes from *)
(* VirtualAlloc (for mmap the run extent_split_unmapped shows otherwise).    *)
(* IInv relates the extents in the trees to the reservations they lie in:   *)
(* each is a whole reservation, or what is left of one from whose end       *)
(* pieces were cut.  So a reservation that is released is nobody else's,    *)
(* and a piece, which is no reservation, releases nothing.  What merge()    *)
(* computes is a recursion over the addresses; its lemmas are proved by     *)
(* looking at the least address where they would fail.                      *)
(***************************************************************************)
EXTENDS ExtentManager, WellFoundedInduction, TLAPS

-----------------------------------------------------------------------------
(* Induction, and the recursion of merge() *)

\* A set of numbers that is not empty has a least one: what stands for induction below.
LEMMA LeastNumber ==
  ASSUME NEW T, T \subseteq Nat, T # {}
  PROVE  \E m \in T : \A n \in T : m <= n
<1>1. PICK m \in T : \A n \in T : <<n, m>> \notin OpToRel(<, Nat)
  BY NatLessThanWellFounded, WFMin
<1>2. \A n \in T : <<n, m>> \notin OpToRel(<, Nat) => m <= n
  BY <1>1 DEF OpToRel
<1> QED
  BY <1>1, <1>2

\* What merge() has made of `tree` after the extents that start below p.
MergeStep(tree, done, p) ==
  LET starts == {e \in tree : e.lo = p - 1}
  IN  IF starts = {} THEN done ELSE MergeInto(done, CHOOSE e \in starts : TRUE)

\* merge() goes through the extents, so there is a function that says what it has made
\* of those that start below p.
LEMMA UpToExists ==
  ASSUME NEW tree, NEW n \in Nat
  PROVE  \E f : f = [p \in 0 .. n |-> IF p = 0 THEN {} ELSE MergeStep(tree, f[p - 1], p)]
<1> DEFINE Fails == {k \in Nat :
             ~ \E f : f = [p \in 0 .. k |-> IF p = 0 THEN {} ELSE MergeStep(tree, f[p - 1], p)]}
<1> SUFFICES ASSUME Fails # {} PROVE FALSE
  OBVIOUS
<1>1. PICK k \in Fails : \A m \in Fails : k <= m
  BY LeastNumber
<1>2. CASE k = 0
  <2> DEFINE f == [p \in 0 .. k |-> {}]
  <2>1. f = [p \in 0 .. k |-> IF p = 0 THEN {} ELSE MergeStep(tree, f[p - 1], p)]
    BY <1>2
  <2> QED
    BY <2>1
<1>3. CASE k # 0
  <2>1. k - 1 \in Nat /\ k - 1 \notin Fails
    <3>1. k \in Nat
      OBVIOUS
    <3> HIDE DEF Fails
    <3> QED
      BY <1>1, <1>3, <3>1
  <2>2. PICK g : g = [p \in 0 .. k - 1 |-> IF p = 0 THEN {} ELSE MergeStep(tree, g[p - 1], p)]
    BY <2>1
  <2> DEFINE f == [p \in 0 .. k |-> IF p = k THEN MergeStep(tree, g[k - 1], k) ELSE g[p]]
  <2>3. \A p \in 0 .. k : f[p] = IF p = 0 THEN {} ELSE MergeStep(tree, f[p - 1], p)
    <3> SUFFICES ASSUME NEW p \in 0 .. k
                 PROVE  f[p] = IF p = 0 THEN {} ELSE MergeStep(tree, f[p - 1], p)
      OBVIOUS
    <3>1. CASE p = k
      <4>1. f[k - 1] = g[k - 1]
        BY <2>1, <1>3
      <4> QED
        BY <3>1, <4>1, <1>3
    <3>2. CASE p # k /\ p = 0
      BY <3>2, <2>2, <2>1
    <3>3. CASE p # k /\ p # 0
      <4>1. p \in 0 .. k - 1 /\ p - 1 \in 0 .. k - 1 /\ p - 1 # k
        BY <3>3, <2>1
      <4>2. f[p - 1] = g[p - 1] /\ f[p] = g[p]
        BY <4>1, <3>3
      <4>3. g[p] = MergeStep(tree, g[p - 1], p)
        BY <4>1, <3>3, <2>2
      <4> QED
        BY <4>2, <4>3, <3>3
    <3> QED
      BY <3>1, <3>2, <3>3
  <2>4. f = [p \in 0 .. k |-> IF p = 0 THEN {} ELSE MergeStep(tree, f[p - 1], p)]
    <3> HIDE DEF f
    <3>1. f = [p \in 0 .. k |-> f[p]]
      BY DEF f
    <3> QED
      BY <3>1, <2>3, Zenon
  <2> QED
    BY <2>4
<1> QED
  BY <1>2, <1>3

\* The function by which Merge is defined.
UpTo(tree) ==
  CHOOSE f : f = [p \in 0 .. PageCount |->
                    IF p = 0 THEN {} ELSE MergeStep(tree, f[p - 1], p)]

LEMMA UpToSteps ==
  ASSUME NEW tree
  PROVE  /\ Merge(tree) = UpTo(tree)[PageCount]
         /\ UpTo(tree)[0] = {}
         /\ \A p \in 1 .. PageCount : UpTo(tree)[p] = MergeStep(tree, UpTo(tree)[p - 1], p)
<1>0. PageCount \in Nat \ {0}
  BY ExtentAssumption
<1>1. Merge(tree) = UpTo(tree)[PageCount]
  BY Zenon DEF Merge, UpTo, MergeStep
<1>2. UpTo(tree) = [p \in 0 .. PageCount |->
                      IF p = 0 THEN {} ELSE MergeStep(tree, UpTo(tree)[p - 1], p)]
  BY <1>0, UpToExists DEF UpTo
<1> DEFINE f == UpTo(tree)
<1> HIDE DEF f
<1>3. f[0] = {} /\ \A p \in 1 .. PageCount : f[p] = MergeStep(tree, f[p - 1], p)
  <2>1. f = [p \in 0 .. PageCount |-> IF p = 0 THEN {} ELSE MergeStep(tree, f[p - 1], p)]
    BY <1>2 DEF f
  <2>2. 0 \in 0 .. PageCount
    BY <1>0
  <2>3. ASSUME NEW p \in 1 .. PageCount
        PROVE  f[p] = MergeStep(tree, f[p - 1], p)
    <3>1. p \in 0 .. PageCount /\ p # 0
      BY <1>0
    <3> QED
      BY <2>1, <3>1, Zenon
  <2> QED
    BY <2>1, <2>2, <2>3, Zenon
<1> QED
  BY <1>1, <1>3 DEF f

-----------------------------------------------------------------------------
(* What merge() keeps *)

\* Extents that do not overlap.
Apart(extents) == \A x, y \in extents : x # y => Span(x) \cap Span(y) = {}

InBounds(extents) == \A e \in extents : e.lo + e.size <= PageCount

\* A set of extents as a tree may hold it.
TreeOK(tree) == tree \subseteq ExtentRecord /\ InBounds(tree) /\ Apart(tree)

States(tree) == {e.state : e \in tree}

LEMMA SpanFacts ==
  ASSUME NEW e \in ExtentRecord
  PROVE  /\ e.lo \in Nat /\ e.size \in Nat \ {0} /\ e.lo \in Span(e)
         /\ e.lo + e.size - 1 \in Span(e)
         /\ \A p : p \in Span(e) <=> p \in Int /\ e.lo <= p /\ p < e.lo + e.size
<1>1. PageCount \in Nat
  BY ExtentAssumption
<1>2. e.lo \in Nat /\ e.size \in Nat \ {0}
  BY <1>1 DEF ExtentRecord, Page
<1> QED
  BY <1>2 DEF Span

LEMMA JoinFacts ==
  ASSUME NEW e \in ExtentRecord, NEW next \in ExtentRecord,
         CheckMerge(e, next), next.lo + next.size <= PageCount
  PROVE  /\ Join(e, next) \in ExtentRecord
         /\ Join(e, next).lo = e.lo /\ Join(e, next).size = e.size + next.size
         /\ Join(e, next).state = e.state
         /\ Span(Join(e, next)) = Span(e) \cup Span(next)
<1> DEFINE j == Join(e, next)
<1>0. PageCount \in Nat \ {0} /\ next.lo = e.lo + e.size
  BY ExtentAssumption DEF CheckMerge
<1>1. /\ e.lo \in 0 .. PageCount - 1 /\ e.size \in 1 .. PageCount /\ next.size \in 1 .. PageCount
      /\ next.lo \in 0 .. PageCount - 1 /\ e.orig \in 0 .. PageCount
  BY <1>0 DEF ExtentRecord, Page
<1>2. e.size + next.size \in 1 .. PageCount
  BY <1>0, <1>1
<1>3. j \in ExtentRecord /\ j.lo = e.lo /\ j.size = e.size + next.size /\ j.state = e.state
  BY <1>2 DEF Join, ExtentRecord
<1>4. ASSUME NEW p
      PROVE  p \in Span(j) <=> p \in Span(e) \/ p \in Span(next)
  <2> HIDE DEF j
  <2>1. p \in Span(j) <=> p \in Int /\ e.lo <= p /\ p < e.lo + (e.size + next.size)
    BY <1>3, SpanFacts
  <2>2. p \in Span(e) <=> p \in Int /\ e.lo <= p /\ p < e.lo + e.size
    BY SpanFacts
  <2>3. p \in Span(next) <=> p \in Int /\ next.lo <= p /\ p < next.lo + next.size
    BY SpanFacts
  <2> QED
    BY <2>1, <2>2, <2>3, <1>0, <1>1
<1>5. Span(j) = Span(e) \cup Span(next)
  BY <1>4
<1> QED
  BY <1>3, <1>5

\* One step of merge(): the pages of `next` join those of `done`, in one extent or another.
LEMMA MergeIntoKeeps ==
  ASSUME NEW done, TreeOK(done), NEW next \in ExtentRecord,
         next.lo + next.size <= PageCount,
         \A e \in done : Span(e) \cap Span(next) = {}
  PROVE  /\ TreeOK(MergeInto(done, next))
         /\ Pages(MergeInto(done, next)) = Pages(done) \cup Span(next)
         /\ States(MergeInto(done, next)) \subseteq States(done) \cup {next.state}
         /\ \A x \in MergeInto(done, next) :
              \E e \in done \cup {next} : x.lo = e.lo
<1> DEFINE before == {e \in done : CheckMerge(e, next)}
<1>1. CASE before = {}
  <2>1. MergeInto(done, next) = done \cup {next}
    BY <1>1 DEF MergeInto
  <2>2. TreeOK(done \cup {next})
    BY DEF TreeOK, InBounds, Apart
  <2> QED
    BY <2>1, <2>2 DEF Pages, States
<1>2. CASE before # {}
  <2>1. PICK e \in done : CheckMerge(e, next)
    BY <1>2
  <2>2. e \in ExtentRecord
    BY DEF TreeOK
  <2>3. ASSUME NEW f \in done, CheckMerge(f, next), f # e
        PROVE  FALSE
    <3>1. f \in ExtentRecord
      BY DEF TreeOK
    <3>2. next.lo = e.lo + e.size /\ next.lo = f.lo + f.size
      BY <2>1, <2>3 DEF CheckMerge
    <3>3. e.lo + e.size - 1 \in Span(e) /\ f.lo + f.size - 1 \in Span(f)
      BY <2>2, <3>1, SpanFacts
    <3>4. e.lo + e.size - 1 = f.lo + f.size - 1
      <4>1. /\ e.lo \in Nat /\ e.size \in Nat
            /\ f.lo \in Nat /\ f.size \in Nat
        BY <2>2, <3>1, SpanFacts
      <4> QED
        BY <3>2, <4>1
    <3>5. e.lo + e.size - 1 \in Span(e) \cap Span(f)
      BY <3>3, <3>4, Zenon
    <3> QED
      BY <3>5, <2>3 DEF TreeOK, Apart
  <2>4. before = {e}
    BY <2>1, <2>3
  <2> DEFINE j == Join(e, next)
  <2>5. MergeInto(done, next) = (done \ {e}) \cup {j}
    BY <2>4 DEF MergeInto
  <2>6. /\ j \in ExtentRecord /\ j.lo = e.lo /\ j.size = e.size + next.size
        /\ j.state = e.state /\ Span(j) = Span(e) \cup Span(next)
    BY <2>1, <2>2, JoinFacts
  <2> HIDE DEF j
  <2>7. InBounds((done \ {e}) \cup {j})
    <3>1. j.lo + j.size = next.lo + next.size
      BY <2>6, <2>1, <2>2, SpanFacts DEF CheckMerge
    <3> QED
      BY <3>1 DEF TreeOK, InBounds
  <2>8. Apart((done \ {e}) \cup {j})
    BY <2>6 DEF TreeOK, Apart
  <2>9. TreeOK((done \ {e}) \cup {j})
    BY <2>6, <2>7, <2>8 DEF TreeOK
  <2>10. Pages((done \ {e}) \cup {j}) = Pages(done) \cup Span(next)
    BY <2>6 DEF Pages
  <2>11. States((done \ {e}) \cup {j}) \subseteq States(done)
    BY <2>6 DEF States
  <2> QED
    BY <2>5, <2>6, <2>9, <2>10, <2>11
<1> QED
  BY <1>1, <1>2

\* merge() (dirty_tree.cc:238, muzzy_tree.cc:273) neither loses a page nor adds one, leaves
\* extents that do not overlap, and an extent's state is one that was in the tree.
THEOREM MergeKeepsPages ==
  ASSUME NEW tree, TreeOK(tree)
  PROVE  /\ TreeOK(Merge(tree))
         /\ Pages(Merge(tree)) = Pages(tree)
         /\ States(Merge(tree)) \subseteq States(tree)
<1>0. PageCount \in Nat \ {0}
  BY ExtentAssumption
<1> DEFINE Below(p) == {e \in tree : e.lo < p}
           upTo == UpTo(tree)
           Good(p) == /\ TreeOK(upTo[p])
                      /\ Pages(upTo[p]) = Pages(Below(p))
                      /\ States(upTo[p]) \subseteq States(tree)
           Bad == {p \in 0 .. PageCount : ~ Good(p)}
<1>1. Good(0)
  <2>1. upTo[0] = {}
    BY UpToSteps
  <2>2. Below(0) = {}
    BY SpanFacts DEF TreeOK
  <2> HIDE DEF Below, upTo
  <2> QED
    BY <2>1, <2>2 DEF TreeOK, InBounds, Apart, Pages, States
<1>2. ASSUME NEW p \in 1 .. PageCount, Good(p - 1)
      PROVE  Good(p)
  <2>0. p \in Nat /\ p - 1 \in Nat
    BY <1>0
  <2>1. upTo[p] = MergeStep(tree, upTo[p - 1], p)
    BY UpToSteps
  <2> DEFINE starts == {e \in tree : e.lo = p - 1}
  <2>2. CASE starts = {}
    <3>1. Below(p) = Below(p - 1)
      <4>1. ASSUME NEW e \in tree PROVE e.lo < p <=> e.lo < p - 1
        <5>1. e.lo \in Nat /\ e.lo # p - 1
          BY <2>2, SpanFacts DEF TreeOK
        <5> QED
          BY <5>1, <2>0
      <4> QED
        BY <4>1
    <3>2. upTo[p] = upTo[p - 1]
      BY <2>1, <2>2 DEF MergeStep
    <3> HIDE DEF Below, upTo
    <3> QED
      BY <3>1, <3>2, <1>2
  <2>3. CASE starts # {}
    <3> DEFINE next == CHOOSE e \in starts : TRUE
    <3>1. next \in tree /\ next.lo = p - 1
      BY <2>3
    <3>2. upTo[p] = MergeInto(upTo[p - 1], next)
      BY <2>1, <2>3 DEF MergeStep
    <3> HIDE DEF next
    <3>3. next \in ExtentRecord /\ next.lo + next.size <= PageCount
      BY <3>1 DEF TreeOK, InBounds
    <3>4. ASSUME NEW e \in tree
          PROVE  e.lo < p <=> e.lo < p - 1 \/ e = next
      <4>1. e \in ExtentRecord /\ e.lo \in Nat
        BY SpanFacts DEF TreeOK
      <4>2. CASE e.lo = p - 1
        <5>1. e.lo \in Span(e) \cap Span(next)
          BY <4>1, <4>2, <3>1, <3>3, SpanFacts
        <5>2. e = next
          BY <5>1, <3>1 DEF TreeOK, Apart
        <5> QED
          BY <5>2, <3>1, <2>0
      <4>3. CASE e.lo # p - 1
        BY <4>1, <4>3, <3>1, <2>0
      <4> QED
        BY <4>2, <4>3
    <3>5. Below(p) = Below(p - 1) \cup {next}
      BY <3>4, <3>1
    <3>6. \A e \in Below(p - 1) : Span(e) \cap Span(next) = {}
      <4>1. \A e \in Below(p - 1) : e \in tree /\ e # next
        BY <3>1, <2>0
      <4> QED
        BY <4>1, <3>1 DEF TreeOK, Apart
    <3> HIDE DEF Below, upTo
    <3>7. \A e \in upTo[p - 1] : Span(e) \cap Span(next) = {}
      <4>1. Pages(upTo[p - 1]) \cap Span(next) = {}
        BY <3>6, <1>2 DEF Pages
      <4> QED
        BY <4>1 DEF Pages
    <3>8. /\ TreeOK(upTo[p])
          /\ Pages(upTo[p]) = Pages(upTo[p - 1]) \cup Span(next)
          /\ States(upTo[p]) \subseteq States(upTo[p - 1]) \cup {next.state}
      BY <3>2, <3>3, <3>7, <1>2, MergeIntoKeeps
    <3>9. Pages(Below(p)) = Pages(Below(p - 1)) \cup Span(next)
      BY <3>5 DEF Pages
    <3>10. next.state \in States(tree)
      BY <3>1 DEF States
    <3> QED
      BY <3>8, <3>9, <3>10, <1>2
  <2> QED
    BY <2>2, <2>3
<1>3. Good(PageCount)
  <2>0. PageCount \in 0 .. PageCount
    BY <1>0
  <2> SUFFICES ASSUME Bad # {} PROVE FALSE
    BY <2>0, Zenon
  <2>1. PICK p \in Bad : \A q \in Bad : p <= q
    <3>1. Bad \subseteq Nat
      BY <1>0
    <3> HIDE DEF Bad
    <3> QED
      BY <3>1, LeastNumber
  <2>2. p \in 0 .. PageCount /\ ~ Good(p)
    OBVIOUS
  <2> HIDE DEF Good
  <2>3. p \in 1 .. PageCount
    BY <2>2, <1>1, <1>0
  <2>4. p - 1 \in 0 .. PageCount /\ p - 1 \notin Bad
    <3>1. p - 1 \in 0 .. PageCount /\ ~ (p <= p - 1)
      BY <2>3, <1>0
    <3> HIDE DEF Bad
    <3> QED
      BY <3>1, <2>1
  <2> QED
    BY <2>2, <2>3, <2>4, <1>2
<1>4. Below(PageCount) = tree
  <2>1. \A e \in tree : e.lo < PageCount
    BY <1>0 DEF TreeOK, ExtentRecord, Page
  <2> QED
    BY <2>1
<1>5. Merge(tree) = upTo[PageCount]
  BY UpToSteps
<1> QED
  BY <1>3, <1>4, <1>5

\* Where no extent goes on in the next one, merge() leaves the tree as it is.
LEMMA NothingToMerge ==
  ASSUME NEW tree, TreeOK(tree), \A e, next \in tree : ~ CheckMerge(e, next)
  PROVE  Merge(tree) = tree
<1>0. PageCount \in Nat \ {0}
  BY ExtentAssumption
<1> DEFINE Below(p) == {e \in tree : e.lo < p}
           upTo == UpTo(tree)
           Bad == {p \in 0 .. PageCount : upTo[p] # Below(p)}
<1>1. upTo[0] = Below(0)
  <2>1. upTo[0] = {}
    BY UpToSteps
  <2>2. Below(0) = {}
    BY SpanFacts DEF TreeOK
  <2> QED
    BY <2>1, <2>2
<1>2. ASSUME NEW p \in 1 .. PageCount, upTo[p - 1] = Below(p - 1)
      PROVE  upTo[p] = Below(p)
  <2>0. p \in Nat /\ p - 1 \in Nat
    BY <1>0
  <2>1. upTo[p] = MergeStep(tree, Below(p - 1), p)
    BY <1>2, UpToSteps
  <2> DEFINE starts == {e \in tree : e.lo = p - 1}
             next == CHOOSE e \in starts : TRUE
  <2>2. ASSUME NEW e \in tree PROVE e.lo \in Nat
    BY SpanFacts DEF TreeOK
  <2>3. CASE starts = {}
    <3>1. upTo[p] = Below(p - 1)
      BY <2>1, <2>3 DEF MergeStep
    <3>2. \A e \in tree : e.lo < p <=> e.lo < p - 1
      BY <2>0, <2>2, <2>3
    <3> QED
      BY <3>1, <3>2
  <2>4. CASE starts # {}
    <3>1. next \in tree /\ next.lo = p - 1
      BY <2>4
    <3>2. upTo[p] = MergeInto(Below(p - 1), next)
      BY <2>1, <2>4 DEF MergeStep
    <3> HIDE DEF next
    <3>3. upTo[p] = Below(p - 1) \cup {next}
      BY <3>1, <3>2 DEF MergeInto
    <3>4. ASSUME NEW e \in tree, e.lo = p - 1 PROVE e = next
      <4>1. e.lo \in Span(e) \cap Span(next)
        BY <3>1, <3>4, SpanFacts DEF TreeOK
      <4> QED
        BY <4>1, <3>1 DEF TreeOK, Apart
    <3>5. \A e \in tree : e.lo < p <=> e.lo < p - 1 \/ e = next
      BY <3>1, <3>4, <2>0, <2>2
    <3> QED
      BY <3>1, <3>3, <3>5
  <2> QED
    BY <2>3, <2>4
<1>3. upTo[PageCount] = Below(PageCount)
  <2>0. PageCount \in 0 .. PageCount
    BY <1>0
  <2> SUFFICES ASSUME Bad # {} PROVE FALSE
    BY <2>0, Zenon
  <2>1. PICK p \in Bad : \A q \in Bad : p <= q
    <3>1. Bad \subseteq Nat
      BY <1>0
    <3> HIDE DEF Bad
    <3> QED
      BY <3>1, LeastNumber
  <2>2. p \in 0 .. PageCount /\ upTo[p] # Below(p)
    OBVIOUS
  <2> HIDE DEF Below, upTo
  <2>3. p \in 1 .. PageCount
    BY <2>2, <1>1, <1>0
  <2>4. p - 1 \in 0 .. PageCount /\ p - 1 \notin Bad
    <3>1. p - 1 \in 0 .. PageCount /\ ~ (p <= p - 1)
      BY <2>3, <1>0
    <3> HIDE DEF Bad
    <3> QED
      BY <3>1, <2>1
  <2> QED
    BY <2>2, <2>3, <2>4, <1>2
<1>4. Below(PageCount) = tree
  <2>1. \A e \in tree : e.lo < PageCount
    BY <1>0 DEF TreeOK, ExtentRecord, Page
  <2> QED
    BY <2>1
<1> QED
  BY <1>3, <1>4, UpToSteps

-----------------------------------------------------------------------------
(* First fit, and what allocation takes out of a tree *)

LEMMA FirstFitFits ==
  ASSUME NEW tree, tree \subseteq ExtentRecord, NEW n, Fits(tree, n) # {}
  PROVE  FirstFit(tree, n) \in tree /\ FirstFit(tree, n).size >= n
<1> DEFINE starts == {e.lo : e \in Fits(tree, n)}
<1>1. starts \subseteq Nat /\ starts # {}
  BY SpanFacts DEF Fits
<1>2. PICK m \in starts : \A k \in starts : m <= k
  <2> HIDE DEF starts
  <2> QED
    BY <1>1, LeastNumber
<1>3. \E e \in Fits(tree, n) : \A f \in Fits(tree, n) : e.lo <= f.lo
  BY <1>2
<1>4. FirstFit(tree, n) \in Fits(tree, n)
  BY <1>3 DEF FirstFit
<1> QED
  BY <1>4 DEF Fits

-----------------------------------------------------------------------------
(* The inductive invariant, where memory comes from VirtualAlloc *)

Idle == dirty \cup muzzy \cup batch

\* The pages of the reservation that starts at page lo.
Reservation(lo) == {p \in Page : base[p] = lo}

\* A reservation's first page belongs to it.
WellBased == \A p \in Page : base[p] # NoAddr => base[base[p]] = base[p]

\* An extent that waits to be handed out is a whole reservation, or the front part of one
\* from which pieces were cut.
WholeOrCut(e) ==
  \/ e.type = "original" /\ e.orig = 0 /\ Reservation(e.lo) = Span(e)
  \/ /\ e.type = "primary" /\ e.size < e.orig
     /\ Reservation(e.lo) = e.lo .. (e.lo + e.orig - 1)

\* The recycler is filled with what has just been taken out of a tree.
BatchState ==
  \/ rec = "toMuzzy" /\ \A e \in batch : e.state = "dirty"
  \/ rec = "toRetained" /\ \A e \in batch : e.state = "muzzy" /\ e.type = "original"
  \/ batch = {}

\* Two trees, what the recycler is moving, and what callers hold do not overlap.
Separate(tree, other, moving, given) ==
  /\ Apart(tree) /\ Apart(other) /\ Apart(moving) /\ Apart(given)
  /\ Pages(tree) \cap Pages(other) = {}
  /\ Pages(tree) \cap Pages(moving) = {} /\ Pages(other) \cap Pages(moving) = {}
  /\ (Pages(tree) \cup Pages(other) \cup Pages(moving)) \cap Pages(given) = {}

Backed ==
  /\ Pages(held) \cup Pages(dirty) \subseteq committed
  /\ \A p \in committed : base[p] # NoAddr

\* What a caller asked for is known as long as its call runs.
Asking == \A t \in Threads : pc[t] # "idle" => request[t] \in Requests

IInv ==
  /\ ExtentTypeOK
  /\ Asking
  /\ inUse = {}
  /\ InBounds(Idle \cup held)
  /\ Separate(dirty, muzzy, batch, held)
  /\ WellBased
  /\ \A e \in Idle : WholeOrCut(e)
  /\ BatchState
  /\ Backed

\* Of the type invariant, what concerns memory and the extents,
MemoryTypeOK ==
  /\ base \in [Page -> 0 .. PageCount] /\ committed \subseteq Page
  /\ inUse \cup dirty \cup muzzy \cup retained \cup batch \subseteq ExtentRecord
  /\ \A e \in dirty : e.state = "dirty"
  /\ \A e \in muzzy : e.state = "muzzy"
  /\ \A e \in retained : e.state = "retained"

\* and what concerns the callers.
CallerTypeOK ==
  /\ held \subseteq [lo : 0 .. PageCount, size : Requests]
  /\ pc \in [Threads -> {"idle", "large", "dirty", "muzzy", "retained", "system", "stuck"}]
  /\ request \in [Threads -> Requests \cup {0}]
  /\ muzzyStuck = (\E t \in Threads : pc[t] = "stuck")

LEMMA TypeParts == ExtentTypeOK <=> MemoryTypeOK /\ CallerTypeOK
  BY DEF ExtentTypeOK, MemoryTypeOK, CallerTypeOK

LEMMA IdleFacts ==
  ASSUME IInv, NEW e \in Idle
  PROVE  /\ e \in ExtentRecord /\ e.lo \in Page /\ e.lo # NoAddr
         /\ e.lo + e.size <= PageCount
         /\ e.type \in {"original", "primary"}
         /\ base[e.lo] = e.lo
         /\ Span(e) \subseteq Reservation(e.lo)
<1>0. PageCount \in Nat \ {0}
  BY ExtentAssumption
<1>1. e \in ExtentRecord /\ e.lo \in Page /\ e.lo # NoAddr /\ e.lo + e.size <= PageCount
  BY <1>0 DEF IInv, ExtentTypeOK, Idle, ExtentRecord, Page, NoAddr, InBounds
<1>2. e.lo \in Nat /\ e.size \in Nat \ {0} /\ e.orig \in Nat /\ e.lo \in Span(e)
  BY <1>1, SpanFacts DEF ExtentRecord
<1>3. WholeOrCut(e)
  BY DEF IInv
<1>4. CASE e.type = "original" /\ Reservation(e.lo) = Span(e)
  BY <1>1, <1>2, <1>4 DEF Reservation
<1>5. CASE /\ e.type = "primary" /\ e.size < e.orig
           /\ Reservation(e.lo) = e.lo .. (e.lo + e.orig - 1)
  <2>1. Span(e) \subseteq e.lo .. (e.lo + e.orig - 1)
    BY <1>2, <1>5 DEF Span
  <2> QED
    BY <1>1, <1>2, <1>5, <2>1 DEF Reservation
<1> QED
  BY <1>3, <1>4, <1>5 DEF WholeOrCut

\* The extents in a tree never go on in one another, as a primary one has lost the end of
\* its reservation: merge() finds nothing to join, and destroys nothing.
LEMMA NoExtentsMerge ==
  ASSUME IInv, NEW tree \in {dirty, muzzy}
  PROVE  TreeOK(tree) /\ Merge(tree) = tree /\ Erased(tree) = {}
<1>0. tree \subseteq Idle
  BY DEF Idle
<1>1. TreeOK(tree)
  BY <1>0 DEF IInv, ExtentTypeOK, Separate, TreeOK, InBounds
<1>2. ASSUME NEW e \in tree, NEW next \in tree, CheckMerge(e, next)
      PROVE  FALSE
  <2>1. e \in Idle /\ next \in Idle
    BY <1>0
  <2>2. e.type = "primary" /\ e.size < e.orig /\ Reservation(e.lo) = e.lo .. (e.lo + e.orig - 1)
    BY <1>2, <2>1 DEF CheckMerge, IInv, WholeOrCut
  <2>3. e.lo \in Nat /\ e.size \in Nat \ {0} /\ e.orig \in Nat
    BY <2>1, IdleFacts, SpanFacts, ExtentAssumption DEF ExtentRecord
  <2>4. next.lo = e.lo + e.size /\ next.lo \in Reservation(e.lo) /\ next.lo # e.lo
    BY <1>2, <2>2, <2>3 DEF CheckMerge
  <2>5. base[next.lo] = next.lo
    BY <2>1, IdleFacts
  <2> QED
    BY <2>4, <2>5 DEF Reservation
<1>3. Merge(tree) = tree
  BY <1>1, <1>2, NothingToMerge
<1>4. Erased(tree) = {}
  BY <1>3 DEF Erased
<1> QED
  BY <1>1, <1>3, <1>4

LEMMA NoneDestroyed ==
  ASSUME IInv, NEW extents, extents \subseteq Idle
  PROVE  Destroyed(extents) = {}
<1>1. \A e \in extents : e.type # "split"
  BY IdleFacts
<1> QED
  BY <1>1 DEF Destroyed

LEMMA NothingUnmapped ==
  ASSUME MemoryTypeOK
  PROVE  Unmapped({}) = base
  BY DEF MemoryTypeOK, Unmapped

LEMMA WithoutPages ==
  ASSUME NEW extents, Apart(extents), NEW some, some \subseteq extents
  PROVE  Pages(extents \ some) = Pages(extents) \ Pages(some)
  BY DEF Apart, Pages

LEMMA PagesOne ==
  ASSUME NEW e
  PROVE  Pages({e}) = Span(e) /\ Pages({}) = {}
  BY DEF Pages

LEMMA PagesAdd ==
  ASSUME NEW S, NEW e
  PROVE  Pages(S \cup {e}) = Pages(S) \cup Span(e)
  BY DEF Pages

LEMMA PagesDrop ==
  ASSUME NEW S, Apart(S), NEW e \in S
  PROVE  Pages(S \ {e}) = Pages(S) \ Span(e) /\ Span(e) \subseteq Pages(S)
<1>1. Pages(S \ {e}) = Pages(S) \ Pages({e})
  BY WithoutPages
<1> QED
  BY <1>1, PagesOne DEF Pages

\* What allocate() takes out of a tree is memory of the size asked for that the tree has no
\* more; it is no reservation of its own, so that destroying its extent releases nothing.
LEMMA TakeOut ==
  ASSUME IInv, ~ Posix, NEW tree \in {dirty, muzzy}, NEW n \in Requests, Fits(tree, n) # {}
  PROVE  LET x == Taken(tree, n)
             rest == Left(tree, n)
         IN  /\ x \in ExtentRecord /\ x.lo \in Page /\ x.size = n /\ x.lo + n <= PageCount
             /\ Span(x) \subseteq Pages(tree)
             /\ Pages(rest) = Pages(tree) \ Span(x)
             /\ TreeOK(rest) /\ States(rest) \subseteq States(tree)
             /\ \A e \in rest : WholeOrCut(e)
             /\ x.type = "split" => Reservation(x.lo) = {}
             /\ x.state = "in_use" \/ x \in tree

<1> DEFINE e == FirstFit(tree, n)
           x == Taken(tree, n)
           rest == Left(tree, n)
<1>0. PageCount \in Nat \ {0} /\ n \in Nat \ {0}
  BY ExtentAssumption
<1>1. TreeOK(tree) /\ tree \subseteq Idle
  BY NoExtentsMerge DEF Idle
<1>2. e \in tree /\ e.size >= n
  BY <1>1, FirstFitFits DEF TreeOK
<1>3. /\ e \in ExtentRecord /\ e.lo \in Page /\ e.lo # NoAddr /\ e.lo + e.size <= PageCount
      /\ e.type \in {"original", "primary"} /\ base[e.lo] = e.lo
      /\ Span(e) \subseteq Reservation(e.lo) /\ WholeOrCut(e)
  BY <1>1, <1>2, IdleFacts DEF IInv
<1>4. /\ e.lo \in Nat /\ e.size \in Nat \ {0} /\ e.lo \in Span(e)
      /\ e.orig \in 0 .. PageCount /\ e.size \in 1 .. PageCount
      /\ \A p : p \in Span(e) <=> p \in Int /\ e.lo <= p /\ p < e.lo + e.size
  BY <1>0, <1>3, SpanFacts DEF ExtentRecord
<1>5. Apart(tree) /\ InBounds(tree) /\ tree \subseteq ExtentRecord
  BY <1>1 DEF TreeOK
<1>6. /\ Pages(tree \ {e}) = Pages(tree) \ Span(e) /\ Span(e) \subseteq Pages(tree)
  BY <1>2, <1>5, PagesDrop
<1>7. CASE ~ MustSplit(e, n)
  <2>1. x = e /\ rest = tree \ {e}
    BY <1>7 DEF Taken, Left
  <2>2. e.size = n
    BY <1>0, <1>2, <1>4, <1>7 DEF MustSplit
  <2>3. TreeOK(rest) /\ States(rest) \subseteq States(tree) /\ \A f \in rest : WholeOrCut(f)
    BY <2>1, <1>1, <1>5 DEF TreeOK, InBounds, Apart, States, IInv
  <2> HIDE DEF e, x, rest
  <2>4. /\ x \in ExtentRecord /\ x.lo \in Page /\ x.size = n /\ x.lo + n <= PageCount
        /\ x.type # "split" /\ x \in tree
    BY <2>1, <2>2, <1>2, <1>3
  <2>5. Span(x) \subseteq Pages(tree) /\ Pages(rest) = Pages(tree) \ Span(x)
    BY <2>1, <1>6
  <2> QED
    BY <2>3, <2>4, <2>5 DEF x, rest
<1>8. CASE MustSplit(e, n)
  <2> DEFINE r == Remainder(e, n)
             old == IF e.type = "original" THEN e.size ELSE e.orig
  <2>1. x = Piece(e, n) /\ rest = (tree \ {e}) \cup {r}
    BY <1>8 DEF Taken, Left
  <2>2. e.size >= n + 1
    BY <1>8 DEF MustSplit
  <2>3. e.size - n \in 1 .. PageCount /\ e.size - n < e.size
    BY <2>2, <1>0, <1>4
  <2>4. /\ r \in ExtentRecord /\ r.lo = e.lo /\ r.size = e.size - n /\ r.state = e.state
        /\ r.type = "primary" /\ r.orig = old
    <3>1. CASE e.type = "original"
      <4>1. e.orig = 0
        BY <1>3, <3>1 DEF WholeOrCut
      <4>2. r = [e EXCEPT !.type = "primary", !.orig = e.size, !.size = e.size - n]
        BY <4>1, <3>1 DEF Remainder
      <4> HIDE DEF e, r
      <4>3. r = [lo |-> e.lo, size |-> e.size - n, orig |-> e.size, state |-> e.state,
                 type |-> "primary"]
        BY <4>2, <1>3 DEF ExtentRecord
      <4>4. e.state \in {"in_use", "dirty", "muzzy", "retained"} /\ e.size \in 0 .. PageCount
        BY <1>3, <1>4, <1>0 DEF ExtentRecord
      <4> QED
        BY <4>3, <4>4, <3>1, <2>3, <1>3 DEF ExtentRecord
    <3>2. CASE e.type = "primary"
      BY <3>2, <2>3, <1>3, <1>4 DEF Remainder, ExtentRecord
    <3> QED
      BY <3>1, <3>2, <1>3
  <2>5. x.lo = e.lo + e.size - n /\ x.size = n /\ x.state = "in_use"
    BY <2>1 DEF Piece, NewExtent
  <2> HIDE DEF e, x, rest, r
  <2>6. r.size < old /\ Reservation(r.lo) = r.lo .. (r.lo + old - 1)
    <3>1. CASE e.type = "original"
      BY <3>1, <2>3, <2>4, <1>3, <1>4 DEF WholeOrCut, Span
    <3>2. CASE e.type = "primary"
      BY <3>2, <2>3, <2>4, <1>3, <1>4 DEF WholeOrCut
    <3> QED
      BY <3>1, <3>2, <1>3
  <2>7. WholeOrCut(r)
    BY <2>4, <2>6 DEF WholeOrCut
  <2>8. /\ \A p : p \in Span(r) <=> p \in Int /\ e.lo <= p /\ p < e.lo + (e.size - n)
        /\ \A p : p \in Span(x) <=> p \in Int /\ e.lo + e.size - n <= p /\ p < e.lo + e.size
    BY <2>4, <2>5, <1>0, <1>4 DEF Span
  <2>9. Span(r) = Span(e) \ Span(x) /\ Span(x) \subseteq Span(e) /\ x.lo \in Span(e) /\ x.lo # e.lo
    BY <2>8, <2>2, <2>5, <1>0, <1>4
  <2>10. Pages(rest) = Pages(tree) \ Span(x)
    <3>1. Pages(rest) = (Pages(tree) \ Span(e)) \cup Span(r)
      <4>1. Pages(rest) = Pages(tree \ {e}) \cup Span(r)
        BY <2>1, PagesAdd
      <4> QED
        BY <4>1, <1>6
    <3> QED
      BY <3>1, <2>9, <1>6
  <2>11. TreeOK(rest)
    <3>1. InBounds(rest)
      <4>1. r.lo + r.size <= PageCount
        BY <2>4, <2>3, <1>3, <1>4, <1>0
      <4> QED
        BY <4>1, <2>1, <1>5 DEF InBounds
    <3>2. Apart(rest)
      <4>1. \A f \in tree \ {e} : Span(f) \cap Span(e) = {}
        BY <1>2, <1>5 DEF Apart
      <4> QED
        BY <4>1, <2>1, <2>9, <1>5 DEF Apart
    <3> QED
      BY <3>1, <3>2, <2>1, <2>4, <1>5 DEF TreeOK
  <2>12. States(rest) \subseteq States(tree)
    BY <2>1, <2>4, <1>2 DEF States
  <2>13. \A f \in rest : WholeOrCut(f)
    BY <2>1, <2>7, <1>1 DEF IInv
  <2>14. Reservation(x.lo) = {}
    <3>1. base[x.lo] = e.lo /\ x.lo # e.lo /\ x.lo \in Page
      BY <2>9, <1>3 DEF Reservation
    <3>2. ASSUME NEW p \in Page, base[p] = x.lo
          PROVE  FALSE
      <4>1. base[p] # NoAddr
        BY <3>1, <3>2, <1>0 DEF Page, NoAddr
      <4>2. base[base[p]] = base[p]
        BY <4>1 DEF IInv, WellBased
      <4> QED
        BY <4>2, <3>1, <3>2
    <3> QED
      BY <3>2 DEF Reservation
  <2>15. x.lo \in Page /\ x.lo + n <= PageCount
    <3>1. x.lo \in Page
      BY <2>9, <1>3 DEF Reservation
    <3>2. x.lo + n = e.lo + e.size
      BY <2>5, <1>0, <1>4
    <3> QED
      BY <3>1, <3>2, <1>3
  <2>16. Span(x) \subseteq Pages(tree)
    BY <2>9, <1>6
  <2>17. x \in ExtentRecord
    <3>1. n \in 1 .. PageCount
      BY <2>3, <1>0, <1>2, <1>4
    <3>2. x = [lo |-> x.lo, size |-> n, state |-> "in_use", type |-> "split", orig |-> 0]
      BY <2>1, <2>5 DEF Piece, NewExtent
    <3> QED
      BY <3>1, <3>2, <2>15, <1>0 DEF ExtentRecord
  <2> QED
    BY <2>5, <2>10, <2>11, <2>12, <2>13, <2>14, <2>15, <2>16, <2>17 DEF x, rest
<1> QED
  BY <1>7, <1>8

-----------------------------------------------------------------------------
(* What the steps have in common *)

LEMMA SeparateSwap ==
  ASSUME NEW d, NEW m, NEW b, NEW h, Separate(d, m, b, h)
  PROVE  Separate(m, d, b, h)
  BY DEF Separate

LEMMA SeparateShrinks ==
  ASSUME NEW d, NEW m, NEW b, NEW h, Separate(d, m, b, h),
         NEW d1, NEW m1, NEW b1, NEW h1, Apart(d1), Apart(m1), Apart(b1), Apart(h1),
         Pages(d1) \subseteq Pages(d), Pages(m1) \subseteq Pages(m),
         Pages(b1) \subseteq Pages(b), Pages(h1) \subseteq Pages(h)
  PROVE  Separate(d1, m1, b1, h1)
  BY DEF Separate

LEMMA SeparateGives ==
  ASSUME NEW d, NEW m, NEW b, NEW h, Separate(d, m, b, h), NEW r,
         Span(r) \cap (Pages(d) \cup Pages(m) \cup Pages(b) \cup Pages(h)) = {}
  PROVE  Separate(d, m, b, h \cup {r})
<1>1. Pages(h \cup {r}) = Pages(h) \cup Span(r)
  BY PagesAdd
<1>2. Apart(h \cup {r})
  BY DEF Separate, Apart, Pages
<1> QED
  BY <1>1, <1>2 DEF Separate

\* Some extents of a tree go to a recycler that has none.
LEMMA SeparateReclaims ==
  ASSUME NEW d, NEW m, NEW h, Separate(d, m, {}, h), NEW some, some \subseteq d
  PROVE  Separate(d \ some, m, some, h)
<1>1. Pages(d \ some) = Pages(d) \ Pages(some) /\ Pages(some) \subseteq Pages(d)
  BY WithoutPages DEF Separate, Pages
<1>2. Apart(d \ some) /\ Apart(some)
  BY DEF Separate, Apart
<1> QED
  BY <1>1, <1>2 DEF Separate

\* The recycler passes an extent on to a tree.
LEMMA SeparatePasses ==
  ASSUME NEW d, NEW m, NEW b, NEW h, Separate(d, m, b, h), NEW e \in b, NEW f,
         Span(f) = Span(e)
  PROVE  Separate(d, m \cup {f}, b \ {e}, h)
<1>1. Pages(b \ {e}) = Pages(b) \ Span(e) /\ Span(e) \subseteq Pages(b)
  BY PagesDrop DEF Separate
<1>2. Pages(m \cup {f}) = Pages(m) \cup Span(e)
  BY PagesAdd
<1>3. Apart(m \cup {f}) /\ Apart(b \ {e})
  BY <1>1 DEF Separate, Apart, Pages
<1> QED
  BY <1>1, <1>2, <1>3 DEF Separate

LEMMA ApartSubset ==
  ASSUME NEW S, Apart(S), NEW T, T \subseteq S
  PROVE  Apart(T) /\ Pages(T) \subseteq Pages(S)
  BY DEF Apart, Pages

\* A caller goes on, and no thread gets stuck.
LEMMA CallerSteps ==
  ASSUME CallerTypeOK, Asking, NEW t \in Threads, pc[t] # "stuck",
         NEW l \in {"idle", "large", "dirty", "muzzy", "retained", "system"},
         pc' = [pc EXCEPT ![t] = l], NEW n \in Requests \cup {0},
         request' = [request EXCEPT ![t] = n], l # "idle" => n \in Requests,
         UNCHANGED muzzyStuck, held' \subseteq [lo : 0 .. PageCount, size : Requests]
  PROVE  CallerTypeOK' /\ Asking'
<1>1. pc' \in [Threads -> {"idle", "large", "dirty", "muzzy", "retained", "system", "stuck"}]
  BY DEF CallerTypeOK
<1>2. request' \in [Threads -> Requests \cup {0}]
  BY DEF CallerTypeOK
<1>3. \A s \in Threads : pc'[s] = "stuck" <=> pc[s] = "stuck"
  BY DEF CallerTypeOK
<1>4. muzzyStuck' = (\E s \in Threads : pc'[s] = "stuck")
  BY <1>3 DEF CallerTypeOK
<1>5. Asking'
  BY DEF Asking, CallerTypeOK
<1> QED
  BY <1>1, <1>2, <1>4, <1>5 DEF CallerTypeOK

LEMMA CallersKept ==
  ASSUME IInv, UNCHANGED <<callerVars, muzzyStuck>>
  PROVE  CallerTypeOK' /\ Asking'
  BY TypeParts DEF IInv, CallerTypeOK, Asking, callerVars

\* Steps that leave the reservations alone.
LEMMA BaseKept ==
  ASSUME IInv, MemoryTypeOK', CallerTypeOK', Asking', inUse' = {}, UNCHANGED base,
         InBounds(Idle' \cup held'), Separate(dirty', muzzy', batch', held'),
         \A e \in Idle' : WholeOrCut(e), BatchState',
         Pages(held') \cup Pages(dirty') \subseteq committed',
         \A p \in committed' : base[p] # NoAddr
  PROVE  IInv'
<1>1. ExtentTypeOK'
  BY TypeParts, PTL
<1>2. WellBased'
  BY DEF IInv, WellBased
<1>3. (\A e \in Idle : WholeOrCut(e))'
  BY DEF WholeOrCut, Reservation
<1>4. Backed'
  BY DEF Backed
<1>5. Separate(dirty, muzzy, batch, held)' /\ InBounds(Idle \cup held)'
  BY DEF Separate, InBounds
<1> QED
  BY <1>1, <1>2, <1>3, <1>4, <1>5 DEF IInv

\* Steps that leave memory alone altogether.
LEMMA Quiet ==
  ASSUME IInv, CallerTypeOK', Asking', BatchState', UNCHANGED <<osVars, treeVars, held, batch>>
  PROVE  IInv'
<1>1. MemoryTypeOK'
  BY TypeParts DEF IInv, MemoryTypeOK, osVars, treeVars
<1>2. /\ inUse' = {} /\ UNCHANGED base
      /\ InBounds(Idle' \cup held') /\ Separate(dirty', muzzy', batch', held')
      /\ \A e \in Idle' : WholeOrCut(e)
      /\ Pages(held') \cup Pages(dirty') \subseteq committed'
      /\ \A p \in committed' : base[p] # NoAddr
  BY DEF IInv, Idle, Backed, osVars, treeVars
<1> QED
  BY <1>1, <1>2, BaseKept

LEMMA PagesMapped ==
  ASSUME IInv, NEW p \in Pages(Idle)
  PROVE  p \in Page /\ base[p] # NoAddr
<1>1. PICK e \in Idle : p \in Span(e)
  BY DEF Pages
<1> QED
  BY <1>1, IdleFacts DEF Reservation

LEMMA IdlePages == Pages(Idle) = Pages(dirty) \cup Pages(muzzy) \cup Pages(batch)
  BY DEF Pages, Idle

\* An extent that is handed out is refused by in_use_tree and destroyed; nothing happens to
\* its memory.
LEMMA HandOutEffect ==
  ASSUME IInv, ~ Posix, NEW t, NEW x, x.type = "split" => Reservation(x.lo) = {},
         NEW usable, HandOut(t, x, usable)
  PROVE  /\ inUse' = {} /\ base' = base /\ committed' = usable
         /\ held' = held \cup {[lo |-> x.lo, size |-> request[t]]}
         /\ Finish(t)
<1>1. InUseInsert(x) = {}
  BY DEF InUseInsert, CasFails
<1>2. Destroyed({x} \ {}) = {}
  BY DEF Destroyed, Released, Reservation
<1>3. Unmapped({}) = base
  BY NothingUnmapped, TypeParts DEF IInv
<1> QED
  BY <1>1, <1>2, <1>3 DEF HandOut, IInv

-----------------------------------------------------------------------------
(* The steps of allocate() *)

LEMMA HandOutSeparate ==
  ASSUME NEW d, NEW m, NEW b, NEW h, Separate(d, m, b, h), NEW rest, Apart(rest),
         NEW r, Span(r) \subseteq Pages(d), Pages(rest) = Pages(d) \ Span(r)
  PROVE  Separate(rest, m, b, h \cup {r})
<1>1. Separate(rest, m, b, h)
  BY SeparateShrinks DEF Separate
<1>2. Span(r) \cap (Pages(rest) \cup Pages(m) \cup Pages(b) \cup Pages(h)) = {}
  BY DEF Separate
<1> QED
  BY <1>1, <1>2, SeparateGives

\* A new piece of memory with a caller.
LEMMA HeldRecord ==
  ASSUME IInv, NEW lo \in Page, NEW n \in Requests, lo + n <= PageCount
  PROVE  LET r == [lo |-> lo, size |-> n]
         IN  /\ held \cup {r} \subseteq [lo : 0 .. PageCount, size : Requests]
             /\ Span(r) = lo .. (lo + n - 1)
             /\ InBounds({r})
<1>1. lo \in 0 .. PageCount
  BY ExtentAssumption DEF Page
<1> QED
  BY <1>1 DEF IInv, ExtentTypeOK, Span, InBounds

LEMMA VisitDirtyStep ==
  ASSUME IInv, ~ Posix, NEW t \in Threads, VisitDirty(t)
  PROVE  IInv'
<1>0. /\ request[t] \in Requests /\ CallerTypeOK /\ Asking /\ MemoryTypeOK
      /\ request \in [Threads -> Requests \cup {0}]
  BY TypeParts DEF IInv, VisitDirty, Asking, CallerTypeOK
<1> DEFINE n == request[t]
           x == Taken(dirty, n)
           rest == Left(dirty, n)
           e == [x EXCEPT !.state = "in_use"]
           r == [lo |-> x.lo, size |-> n]
<1>1. CASE Fits(dirty, n) = {}
  <2>1. CallerTypeOK' /\ Asking'
    <3>1. request' = [request EXCEPT ![t] = n]
      BY <1>0, <1>1 DEF VisitDirty, Goto
    <3> QED
      BY <3>1, <1>0, <1>1, CallerSteps DEF VisitDirty, Goto, CallerTypeOK
  <2> QED
    BY <2>1, <1>1, Quiet DEF VisitDirty, taskVars, osVars, treeVars, IInv, BatchState
<1>2. CASE Fits(dirty, n) # {}
  <2>1. /\ x \in ExtentRecord /\ x.lo \in Page /\ x.size = n /\ x.lo + n <= PageCount
        /\ Span(x) \subseteq Pages(dirty)
        /\ Pages(rest) = Pages(dirty) \ Span(x)
        /\ TreeOK(rest) /\ States(rest) \subseteq States(dirty)
        /\ \A f \in rest : WholeOrCut(f)
        /\ x.type = "split" => Reservation(x.lo) = {}
    BY <1>0, <1>2, TakeOut
  <2>2. e.type = x.type /\ e.lo = x.lo
    BY <2>1 DEF ExtentRecord
  <2>3. /\ dirty' = rest /\ HandOut(t, e, committed)
        /\ UNCHANGED <<muzzy, retained, muzzyStuck, taskVars>>
    BY <1>2 DEF VisitDirty
  <2> HIDE DEF x, rest, e
  <2>4. /\ inUse' = {} /\ base' = base /\ committed' = committed
        /\ held' = held \cup {r} /\ Finish(t)
    BY <2>1, <2>2, <2>3, HandOutEffect
  <2>5. /\ held \cup {r} \subseteq [lo : 0 .. PageCount, size : Requests]
        /\ Span(r) = Span(x) /\ InBounds({r})
    BY <2>1, <1>0, HeldRecord DEF Span
  <2> HIDE DEF r
  <2>6. CallerTypeOK' /\ Asking'
    BY <1>0, <2>3, <2>4, <2>5, CallerSteps DEF Finish, VisitDirty
  <2>7. MemoryTypeOK'
    BY <1>0, <2>1, <2>3, <2>4 DEF MemoryTypeOK, TreeOK, States, taskVars
  <2>8. InBounds(Idle' \cup held')
    BY <2>1, <2>3, <2>4, <2>5 DEF IInv, InBounds, Idle, TreeOK, taskVars
  <2>9. Separate(dirty', muzzy', batch', held')
    BY <2>1, <2>3, <2>4, <2>5, HandOutSeparate DEF IInv, TreeOK, taskVars
  <2>10. \A f \in Idle' : WholeOrCut(f)
    BY <2>1, <2>3 DEF IInv, Idle, taskVars
  <2>11. BatchState'
    BY <2>3 DEF IInv, BatchState, taskVars
  <2>12. /\ Pages(held') \cup Pages(dirty') \subseteq committed'
         /\ \A p \in committed' : base[p] # NoAddr
    <3>1. Pages(held') = Pages(held) \cup Span(x)
      BY <2>4, <2>5, PagesAdd
    <3> QED
      BY <3>1, <2>1, <2>3, <2>4 DEF IInv, Backed
  <2> QED
    BY <2>4, <2>6, <2>7, <2>8, <2>9, <2>10, <2>11, <2>12, BaseKept
<1> QED
  BY <1>1, <1>2

LEMMA MuzzyHitStep ==
  ASSUME IInv, ~ Posix, NEW t \in Threads, MuzzyHit(t)
  PROVE  IInv'
<1>0. /\ request[t] \in Requests /\ CallerTypeOK /\ Asking /\ MemoryTypeOK
      /\ Fits(muzzy, request[t]) # {}
  BY TypeParts DEF IInv, MuzzyHit, Asking
<1> DEFINE n == request[t]
           x == Taken(muzzy, n)
           rest == Left(muzzy, n)
           e == [x EXCEPT !.state = "in_use"]
           r == [lo |-> x.lo, size |-> n]
<1>1. /\ x \in ExtentRecord /\ x.lo \in Page /\ x.size = n /\ x.lo + n <= PageCount
      /\ Span(x) \subseteq Pages(muzzy)
      /\ Pages(rest) = Pages(muzzy) \ Span(x)
      /\ TreeOK(rest) /\ States(rest) \subseteq States(muzzy)
      /\ \A f \in rest : WholeOrCut(f)
      /\ x.type = "split" => Reservation(x.lo) = {}
  BY <1>0, TakeOut
<1>2. e.type = x.type /\ e.lo = x.lo
  BY <1>1 DEF ExtentRecord
<1>3. /\ muzzy' = rest /\ HandOut(t, e, committed \cup Span(x))
      /\ UNCHANGED <<dirty, retained, muzzyStuck, taskVars>>
  BY DEF MuzzyHit
<1> HIDE DEF x, rest, e
<1>4. /\ inUse' = {} /\ base' = base /\ committed' = committed \cup Span(x)
      /\ held' = held \cup {r} /\ Finish(t)
  BY <1>1, <1>2, <1>3, HandOutEffect
<1>5. /\ held \cup {r} \subseteq [lo : 0 .. PageCount, size : Requests]
      /\ Span(r) = Span(x) /\ InBounds({r})
  BY <1>0, <1>1, HeldRecord DEF Span
<1> HIDE DEF r
<1>6. CallerTypeOK' /\ Asking'
  BY <1>0, <1>3, <1>4, <1>5, CallerSteps DEF Finish, MuzzyHit
<1>7. \A p \in Span(x) : p \in Page /\ base[p] # NoAddr
  BY <1>1, IdlePages, PagesMapped
<1>8. MemoryTypeOK'
  BY <1>0, <1>1, <1>3, <1>4, <1>7 DEF MemoryTypeOK, TreeOK, States, taskVars
<1>9. InBounds(Idle' \cup held')
  BY <1>1, <1>3, <1>4, <1>5 DEF IInv, InBounds, Idle, TreeOK, taskVars
<1>10. Separate(dirty', muzzy', batch', held')
  <2>1. Separate(rest, dirty, batch, held \cup {r})
    BY <1>1, <1>5, SeparateSwap, HandOutSeparate DEF IInv, TreeOK
  <2> QED
    BY <2>1, <1>3, <1>4, SeparateSwap DEF taskVars
<1>11. \A f \in Idle' : WholeOrCut(f)
  BY <1>1, <1>3 DEF IInv, Idle, taskVars
<1>12. BatchState'
  BY <1>3 DEF IInv, BatchState, taskVars
<1>13. /\ Pages(held') \cup Pages(dirty') \subseteq committed'
       /\ \A p \in committed' : base[p] # NoAddr
  <2>1. Pages(held') = Pages(held) \cup Span(x)
    BY <1>4, <1>5, PagesAdd
  <2> QED
    BY <2>1, <1>3, <1>4, <1>7 DEF IInv, Backed
<1> QED
  BY <1>4, <1>6, <1>8, <1>9, <1>10, <1>11, <1>12, <1>13, BaseKept

\* The extent is lost, but not to the recycler: its reservation is not released.
LEMMA MuzzyFailsStep ==
  ASSUME IInv, ~ Posix, NEW t \in Threads, MuzzyFails(t)
  PROVE  IInv'
<1>0. /\ request[t] \in Requests /\ CallerTypeOK /\ Asking /\ MemoryTypeOK
      /\ Fits(muzzy, request[t]) # {} /\ pc[t] = "muzzy"
  BY TypeParts DEF IInv, MuzzyFails, Asking
<1> DEFINE n == request[t]
           x == Taken(muzzy, n)
           rest == Left(muzzy, n)
           stuck == x.state = "muzzy"
<1>1. /\ x.lo \in Page
      /\ Pages(rest) = Pages(muzzy) \ Span(x)
      /\ TreeOK(rest) /\ States(rest) \subseteq States(muzzy)
      /\ \A f \in rest : WholeOrCut(f)
      /\ x.type = "split" => Reservation(x.lo) = {}
  BY <1>0, TakeOut
<1>2. /\ muzzy' = rest
      /\ base' = Unmapped(Destroyed({x})) /\ committed' = committed \ Destroyed({x})
      /\ muzzyStuck' = stuck /\ ~ muzzyStuck
      /\ Goto(t, IF stuck THEN "stuck" ELSE "retained")
      /\ UNCHANGED <<inUse, dirty, retained, held, taskVars>>
  BY DEF MuzzyFails
<1> HIDE DEF x, rest
<1>3. Destroyed({x}) = {}
  BY <1>1 DEF Destroyed, Released, Reservation
<1>4. base' = base /\ committed' = committed
  BY <1>0, <1>2, <1>3, NothingUnmapped
<1>5. CallerTypeOK' /\ Asking'
  <2>1. \A s \in Threads : pc[s] # "stuck"
    BY <1>0, <1>2 DEF CallerTypeOK
  <2>2. pc' \in [Threads -> {"idle", "large", "dirty", "muzzy", "retained", "system", "stuck"}]
    BY <1>0, <1>2 DEF Goto, CallerTypeOK
  <2>3. muzzyStuck' = (\E s \in Threads : pc'[s] = "stuck")
    <3>1. pc'[t] = "stuck" <=> stuck
      BY <1>0, <1>2 DEF Goto, CallerTypeOK
    <3>2. \A s \in Threads : s # t => pc'[s] # "stuck"
      BY <1>0, <1>2, <2>1 DEF Goto, CallerTypeOK
    <3>3. stuck \in BOOLEAN
      OBVIOUS
    <3> HIDE DEF stuck
    <3>4. muzzyStuck' <=> (\E s \in Threads : pc'[s] = "stuck")
      BY <1>2, <3>1, <3>2
    <3> QED
      BY <1>2, <3>3, <3>4, Zenon
  <2>4. Asking'
    BY <1>0, <1>2 DEF Asking, Goto, CallerTypeOK
  <2> QED
    BY <1>0, <1>2, <2>2, <2>3, <2>4 DEF CallerTypeOK, Goto
<1>6. MemoryTypeOK'
  BY <1>0, <1>1, <1>2, <1>4 DEF MemoryTypeOK, TreeOK, States, taskVars
<1>7. InBounds(Idle' \cup held')
  BY <1>1, <1>2 DEF IInv, InBounds, Idle, TreeOK, taskVars
<1>8. Separate(dirty', muzzy', batch', held')
  <2>1. Separate(dirty, rest, batch, held)
    BY <1>1, SeparateShrinks DEF IInv, TreeOK, Separate
  <2> QED
    BY <2>1, <1>2 DEF taskVars
<1>9. \A f \in Idle' : WholeOrCut(f)
  BY <1>1, <1>2 DEF IInv, Idle, taskVars
<1>10. BatchState'
  BY <1>2 DEF IInv, BatchState, taskVars
<1> QED
  BY <1>2, <1>4, <1>5, <1>6, <1>7, <1>8, <1>9, <1>10, BaseKept DEF IInv, Backed

\* A new mapping goes where nothing was.
LEMMA MappedStep ==
  ASSUME IInv, NEW n \in Requests, NEW lo \in Places(n), MappedAt(lo, n),
         held' = held \cup {[lo |-> lo, size |-> n]}, retained' \subseteq retained,
         CallerTypeOK', Asking', UNCHANGED <<inUse, dirty, muzzy, batch, rec>>
  PROVE  IInv'
<1> DEFINE S == lo .. (lo + n - 1)
           r == [lo |-> lo, size |-> n]
<1>0. /\ PageCount \in Nat \ {0} /\ n \in Nat \ {0}
      /\ base \in [Page -> 0 .. PageCount] /\ committed \subseteq Page
  BY ExtentAssumption DEF IInv, ExtentTypeOK
<1>1. /\ lo \in Page /\ lo \in Nat /\ lo # NoAddr /\ lo \in 0 .. PageCount
      /\ \A p \in S : p \in Page /\ base[p] = NoAddr
  BY <1>0 DEF Places, Page, NoAddr
<1>2. lo \in S /\ lo + n <= PageCount
  <2>1. lo \in S /\ lo + n - 1 \in S
    BY <1>0, <1>1
  <2>2. lo + n - 1 \in Page
    BY <2>1, <1>1
  <2> QED
    BY <2>1, <2>2, <1>0, <1>1 DEF Page
<1>3. /\ base' = [p \in Page |-> IF p \in S THEN lo ELSE base[p]]
      /\ committed' = committed \cup S
  BY DEF MappedAt
<1>4. Span(r) = S /\ InBounds({r})
  BY <1>2 DEF Span, InBounds
<1> HIDE DEF S, r
<1>5. ExtentTypeOK'
  <2>1. base' \in [Page -> 0 .. PageCount] /\ committed' \subseteq Page
    BY <1>0, <1>1, <1>3
  <2>2. MemoryTypeOK'
    BY <2>1, TypeParts DEF IInv, MemoryTypeOK
  <2> QED
    BY <2>2, TypeParts, PTL
<1>6. inUse' = {} /\ InBounds(Idle \cup held)' /\ BatchState'
  BY <1>4 DEF IInv, InBounds, Idle, BatchState, r
<1>7. S \cap (Pages(dirty) \cup Pages(muzzy) \cup Pages(batch) \cup Pages(held)) = {}
  <2>1. S \cap Pages(Idle) = {}
    BY <1>1, PagesMapped
  <2>2. S \cap Pages(held) = {}
    BY <1>1 DEF IInv, Backed
  <2> QED
    BY <2>1, <2>2, IdlePages
<1>8. Separate(dirty, muzzy, batch, held)'
  <2>1. Separate(dirty, muzzy, batch, held \cup {r})
    BY <1>4, <1>7, SeparateGives DEF IInv
  <2>2. Separate(dirty', muzzy', batch', held')
    BY <2>1 DEF r
  <2> QED
    BY <2>2 DEF Separate
<1>9. WellBased'
  <2> SUFFICES ASSUME NEW p \in Page, base'[p] # NoAddr
               PROVE  base'[base'[p]] = base'[p]
    BY DEF WellBased, Page, NoAddr
  <2>1. CASE p \in S
    BY <2>1, <1>1, <1>2, <1>3
  <2>2. CASE p \notin S
    <3>1. base'[p] = base[p] /\ base[p] \in 0 .. PageCount /\ base[p] # NoAddr
      BY <2>2, <1>0, <1>3
    <3>2. base[base[p]] = base[p] /\ base[p] \in Page
      BY <3>1, <1>0 DEF IInv, WellBased, Page, NoAddr
    <3>3. base[p] \notin S
      BY <3>1, <3>2, <1>1
    <3> QED
      BY <3>1, <3>2, <3>3, <1>3
  <2> QED
    BY <2>1, <2>2
<1>10. (\A e \in Idle : WholeOrCut(e))'
  <2> SUFFICES ASSUME NEW e \in Idle
               PROVE  WholeOrCut(e)'
    BY DEF Idle
  <2>1. e.lo \in Page /\ e.lo # NoAddr /\ base[e.lo] = e.lo /\ WholeOrCut(e)
    BY IdleFacts DEF IInv
  <2>2. e.lo # lo
    BY <2>1, <1>1, <1>2
  <2>3. \A p \in Page : base'[p] = e.lo <=> base[p] = e.lo
    BY <2>1, <2>2, <1>1, <1>3
  <2>4. Reservation(e.lo)' = Reservation(e.lo)
    BY <2>3 DEF Reservation, Page
  <2> QED
    BY <2>1, <2>4 DEF WholeOrCut, Span
<1>11. Backed'
  <2>1. Pages(held') = Pages(held) \cup S
    BY <1>4, PagesAdd DEF r
  <2>2. \A p \in committed' : base'[p] # NoAddr
    BY <1>0, <1>1, <1>3 DEF IInv, Backed
  <2>3. Pages(held') \cup Pages(dirty') \subseteq committed'
    BY <2>1, <1>3 DEF IInv, Backed
  <2> QED
    BY <2>2, <2>3 DEF Backed, Pages, NoAddr
<1> QED
  BY <1>5, <1>6, <1>8, <1>9, <1>10, <1>11 DEF IInv

LEMMA RetainedHitStep ==
  ASSUME IInv, ~ Posix, NEW t \in Threads, RetainedHit(t)
  PROVE  IInv'
<1>0. /\ request[t] \in Requests /\ CallerTypeOK /\ Asking /\ pc[t] = "retained"
  BY TypeParts DEF IInv, RetainedHit, Asking
<1> DEFINE n == request[t]
<1>1. PICK e \in Fits(retained, n) :
         /\ retained' = retained \ {e}
         /\ \/ \E lo \in Places(n) : MappedAt(lo, n) /\ held' = held \cup {[lo |-> lo, size |-> n]}
            \/ GotNothing(t) /\ UNCHANGED <<osVars>>
  BY DEF RetainedHit
<1>2. Finish(t) /\ UNCHANGED <<inUse, dirty, muzzy, muzzyStuck, taskVars>>
  BY DEF RetainedHit
<1>3. ASSUME NEW lo \in Places(n), MappedAt(lo, n), held' = held \cup {[lo |-> lo, size |-> n]}
      PROVE  IInv'
  <2>1. held' \subseteq [lo : 0 .. PageCount, size : Requests]
    BY <1>0, <1>3, ExtentAssumption DEF CallerTypeOK, Places, Page
  <2>2. CallerTypeOK' /\ Asking'
    BY <2>1, <1>0, <1>2, CallerSteps DEF Finish
  <2> QED
    BY <2>2, <1>0, <1>1, <1>2, <1>3, MappedStep DEF taskVars
<1>4. CASE GotNothing(t) /\ UNCHANGED <<osVars>>
  <2>1. held' = held
    BY <1>4 DEF GotNothing
  <2>2. CallerTypeOK' /\ Asking'
    BY <2>1, <1>0, <1>2, CallerSteps DEF Finish, CallerTypeOK
  <2>3. MemoryTypeOK'
    BY <1>1, <1>2, <1>4, TypeParts DEF IInv, MemoryTypeOK, osVars, taskVars
  <2>4. /\ inUse' = {} /\ UNCHANGED base /\ BatchState'
        /\ InBounds(Idle' \cup held') /\ Separate(dirty', muzzy', batch', held')
        /\ \A f \in Idle' : WholeOrCut(f)
        /\ Pages(held') \cup Pages(dirty') \subseteq committed'
        /\ \A p \in committed' : base[p] # NoAddr
    BY <2>1, <1>2, <1>4 DEF IInv, Idle, Backed, BatchState, osVars, taskVars
  <2> QED
    BY <2>2, <2>3, <2>4, BaseKept
<1> QED
  BY <1>1, <1>3, <1>4

LEMMA SystemGivesStep ==
  ASSUME IInv, NEW t \in Threads, SystemGives(t)
  PROVE  IInv'
<1>0. /\ request[t] \in Requests /\ CallerTypeOK /\ Asking /\ pc[t] # "stuck"
  BY TypeParts DEF IInv, SystemGives, Asking
<1> DEFINE n == request[t]
<1>1. PICK lo \in Places(n) :
         LET e == NewExtent(lo, n, "dirty", "original")
         IN  /\ MappedAt(lo, n)
             /\ inUse' = inUse \cup {[f EXCEPT !.state = "in_use"] : f \in InUseInsert(e)}
             /\ held' = held \cup {[lo |-> lo, size |-> n]}
  BY DEF SystemGives
<1>2. inUse' = inUse
  BY <1>1 DEF InUseInsert, CasFails
<1>3. held' \subseteq [lo : 0 .. PageCount, size : Requests]
  BY <1>0, <1>1, ExtentAssumption DEF CallerTypeOK, Places, Page
<1>4. CallerTypeOK' /\ Asking'
  BY <1>0, <1>3, CallerSteps DEF Finish, SystemGives
<1> QED
  BY <1>0, <1>1, <1>2, <1>4, MappedStep DEF SystemGives, taskVars

\* The caller goes from one place to another and touches nothing.
LEMMA CallerMoves ==
  ASSUME IInv, NEW t \in Threads, pc[t] # "stuck", held' = held,
         UNCHANGED <<osVars, treeVars, muzzyStuck, taskVars>>,
         NEW l \in {"idle", "large", "dirty", "muzzy", "retained", "system"},
         pc' = [pc EXCEPT ![t] = l], NEW n \in Requests \cup {0},
         request' = [request EXCEPT ![t] = n], l # "idle" => n \in Requests
  PROVE  IInv'
<1>1. CallerTypeOK /\ Asking
  BY TypeParts DEF IInv
<1>2. CallerTypeOK' /\ Asking'
  BY <1>1, CallerSteps DEF CallerTypeOK
<1>3. BatchState'
  BY DEF IInv, BatchState, taskVars
<1> QED
  BY <1>2, <1>3, Quiet DEF taskVars

LEMMA AllocateStep ==
  ASSUME IInv, ~ Posix, NEW t \in Threads, Allocate(t)
  PROVE  IInv'
<1>0. /\ request \in [Threads -> Requests \cup {0}]
      /\ pc[t] # "idle" => request[t] \in Requests
  BY DEF IInv, ExtentTypeOK, Asking
<1>1. CASE VisitDirty(t)
  BY <1>1, VisitDirtyStep
<1>2. ASSUME NEW l \in {"idle", "dirty", "retained", "system"}, Goto(t, l), pc[t] # "idle",
             pc[t] # "stuck", held' = held,
             UNCHANGED <<osVars, treeVars, muzzyStuck, taskVars>>
      PROVE  IInv'
  <2>1. request' = [request EXCEPT ![t] = request[t]]
    BY <1>0, <1>2 DEF Goto
  <2> QED
    BY <2>1, <1>0, <1>2, CallerMoves DEF Goto
<1>3. CASE MuzzyMiss(t)
  BY <1>2, <1>3 DEF MuzzyMiss
<1>4. CASE MuzzyHit(t)
  BY <1>4, MuzzyHitStep
<1>5. CASE MuzzyFails(t)
  BY <1>5, MuzzyFailsStep
<1>6. CASE RetainedMiss(t)
  BY <1>2, <1>6 DEF RetainedMiss
<1>7. CASE RetainedHit(t)
  BY <1>7, RetainedHitStep
<1>8. CASE SystemGives(t)
  BY <1>8, SystemGivesStep
<1>9. CASE SystemRefuses(t)
  <2>1. /\ pc[t] \in {"large", "system"} /\ held' = held
        /\ Goto(t, "dirty") \/ Finish(t)
        /\ UNCHANGED <<osVars, treeVars, muzzyStuck, taskVars>>
    BY <1>9 DEF SystemRefuses, GotNothing
  <2>2. CASE Goto(t, "dirty")
    BY <2>1, <2>2, <1>2
  <2>3. CASE Finish(t)
    BY <2>1, <2>3, CallerMoves DEF Finish
  <2> QED
    BY <2>1, <2>2, <2>3
<1> QED
  BY <1>1, <1>3, <1>4, <1>5, <1>6, <1>7, <1>8, <1>9 DEF Allocate

LEMMA CallStep ==
  ASSUME IInv, NEW t \in Threads, NEW n \in Requests, Call(t, n)
  PROVE  IInv'
<1>1. /\ pc[t] = "idle" /\ held' = held
      /\ UNCHANGED <<osVars, treeVars, muzzyStuck, taskVars>>
      /\ request' = [request EXCEPT ![t] = n]
      /\ pc' = [pc EXCEPT ![t] = "large"] \/ pc' = [pc EXCEPT ![t] = "dirty"]
  BY DEF Call
<1> QED
  BY <1>1, CallerMoves

\* As in_use_tree is empty, all that deallocate() does is to find nothing.
LEMMA DeallocateStep ==
  ASSUME IInv, NEW r \in held, Deallocate(r)
  PROVE  IInv'
<1>0. MemoryTypeOK /\ inUse = {}
  BY TypeParts DEF IInv
<1> DEFINE found == {e \in inUse : e.lo = r.lo}
           back  == {e \in found : e.size = r.size}
           large == {e \in back : e.size >= MaxBlock}
           gone  == UNION {Released(e) : e \in large} \cup Destroyed(found \ back)
<1>1. found = {} /\ gone = {} /\ back \ large = {}
  BY <1>0 DEF Destroyed
<1>2. /\ inUse' = inUse \ found
      /\ dirty' = dirty \cup {[e EXCEPT !.state = "dirty"] : e \in back \ large}
      /\ base' = Unmapped(gone) /\ committed' = committed \ gone
      /\ held' = held \ {r}
      /\ UNCHANGED <<muzzy, retained, pc, request, muzzyStuck, taskVars>>
  BY DEF Deallocate
<1> HIDE DEF found, back, large, gone
<1>3. inUse' = {} /\ dirty' = dirty /\ base' = base /\ committed' = committed
  <2>1. dirty' = dirty
    BY <1>1, <1>2
  <2> QED
    BY <2>1, <1>0, <1>1, <1>2, NothingUnmapped
<1>4. CallerTypeOK' /\ Asking'
  BY <1>2, TypeParts DEF IInv, CallerTypeOK, Asking
<1>5. MemoryTypeOK'
  BY <1>0, <1>2, <1>3 DEF MemoryTypeOK, taskVars
<1>6. /\ InBounds(Idle' \cup held') /\ BatchState'
      /\ \A f \in Idle' : WholeOrCut(f)
  BY <1>2, <1>3 DEF IInv, Idle, InBounds, BatchState, taskVars
<1>7. Apart(held \ {r}) /\ Pages(held \ {r}) \subseteq Pages(held)
  BY ApartSubset DEF IInv, Separate
<1>8. Separate(dirty', muzzy', batch', held')
  <2>1. Separate(dirty, muzzy, batch, held \ {r})
    BY <1>7, SeparateShrinks DEF IInv, Separate
  <2> QED
    BY <2>1, <1>2, <1>3 DEF taskVars
<1>9. /\ Pages(held') \cup Pages(dirty') \subseteq committed'
      /\ \A p \in committed' : base[p] # NoAddr
  BY <1>2, <1>3, <1>7 DEF IInv, Backed
<1> QED
  BY <1>3, <1>4, <1>5, <1>6, <1>8, <1>9, BaseKept

-----------------------------------------------------------------------------
(* The steps of the recycler *)

\* The recycler goes on and touches nothing.
LEMMA RecyclerMoves ==
  ASSUME IInv, UNCHANGED <<osVars, dirty, muzzy, retained, batch>>, RecUnchanged, BatchState'
  PROVE  IInv'
<1>1. CallerTypeOK' /\ Asking'
  BY CallersKept DEF RecUnchanged
<1> QED
  BY <1>1, Quiet DEF RecUnchanged, osVars, treeVars, callerVars

LEMMA TreeMergeStep ==
  ASSUME IInv, DirtyMerge \/ MuzzyMerge
  PROVE  IInv'
<1>1. /\ Merge(dirty) = dirty /\ Merge(muzzy) = muzzy
      /\ Destroyed(Erased(dirty)) = {} /\ Destroyed(Erased(muzzy)) = {}
  BY NoExtentsMerge DEF Destroyed
<1>2. Unmapped({}) = base
  BY NothingUnmapped, TypeParts DEF IInv
<1>3. /\ UNCHANGED <<osVars, dirty, muzzy, retained, batch>> /\ RecUnchanged
  BY <1>1, <1>2 DEF DirtyMerge, MuzzyMerge, osVars
<1>4. batch = {}
  BY DEF IInv, BatchState, DirtyMerge, MuzzyMerge
<1>5. BatchState'
  BY <1>3, <1>4 DEF BatchState
<1> QED
  BY <1>3, <1>5, RecyclerMoves

LEMMA ReclaimStep ==
  ASSUME IInv, DirtyReclaim \/ MuzzyReclaim
  PROVE  IInv'
<1>0. MemoryTypeOK /\ Separate(dirty, muzzy, batch, held)
  BY TypeParts DEF IInv
<1>1. batch = {}
  BY DEF IInv, BatchState, DirtyReclaim, MuzzyReclaim
<1>2. /\ UNCHANGED <<osVars, retained>> /\ RecUnchanged
  BY DEF DirtyReclaim, MuzzyReclaim
<1>3. PICK some :
        \/ /\ some \subseteq dirty /\ dirty' = dirty \ some /\ batch' = some
           /\ muzzy' = muzzy /\ rec' = "toMuzzy"
        \/ /\ some \subseteq muzzy /\ muzzy' = muzzy \ some /\ batch' = some
           /\ dirty' = dirty /\ rec' = "toRetained"
           /\ \A e \in some : e.type = "original"
  BY DEF DirtyReclaim, MuzzyReclaim, RecGoto, Reclaimable
<1>4. CallerTypeOK' /\ Asking'
  BY <1>2, CallersKept DEF RecUnchanged
<1>5. MemoryTypeOK' /\ BatchState'
  BY <1>0, <1>2, <1>3 DEF MemoryTypeOK, BatchState, RecUnchanged, osVars
<1>6. Idle' \subseteq Idle /\ held' = held /\ inUse' = {} /\ dirty' \subseteq dirty
  BY <1>2, <1>3 DEF IInv, Idle, RecUnchanged, callerVars
<1>7. Separate(dirty', muzzy', batch', held')
  <2>1. CASE /\ some \subseteq dirty /\ dirty' = dirty \ some /\ batch' = some /\ muzzy' = muzzy
    BY <2>1, <1>0, <1>1, <1>6, SeparateReclaims
  <2>2. CASE /\ some \subseteq muzzy /\ muzzy' = muzzy \ some /\ batch' = some /\ dirty' = dirty
    <3>1. Separate(muzzy \ some, dirty, some, held)
      BY <2>2, <1>0, <1>1, SeparateSwap, SeparateReclaims
    <3> QED
      BY <3>1, <2>2, <1>6, SeparateSwap
  <2> QED
    BY <1>3, <2>1, <2>2
<1>8. /\ InBounds(Idle' \cup held') /\ \A f \in Idle' : WholeOrCut(f)
      /\ Pages(held') \cup Pages(dirty') \subseteq committed'
      /\ \A p \in committed' : base[p] # NoAddr
  BY <1>2, <1>6 DEF IInv, InBounds, Backed, Pages, osVars
<1> QED
  BY <1>2, <1>4, <1>5, <1>6, <1>7, <1>8, BaseKept DEF osVars

LEMMA MuzzyInsertStep ==
  ASSUME IInv, ~ Posix, MuzzyInsert
  PROVE  IInv'
<1>0. MemoryTypeOK /\ Separate(dirty, muzzy, batch, held) /\ rec = "toMuzzy" /\ rec' = rec
  BY TypeParts DEF IInv, MuzzyInsert
<1>1. PICK e \in batch :
        /\ batch' = batch \ {e}
        /\ \/ /\ muzzy' = muzzy \cup {[e EXCEPT !.state = "muzzy"]}
              /\ committed' = committed \ Span(e)
              /\ base' = base
           \/ /\ base' = Unmapped(Destroyed({e}))
              /\ committed' = committed \ Destroyed({e})
              /\ muzzy' = muzzy
  BY DEF MuzzyInsert
<1>2. /\ UNCHANGED <<dirty, retained>> /\ RecUnchanged
  BY DEF MuzzyInsert
<1>3. Destroyed({e}) = {}
  BY NoneDestroyed DEF Idle
<1>4. base' = base
  BY <1>0, <1>1, <1>3, NothingUnmapped
<1> DEFINE f == [e EXCEPT !.state = "muzzy"]
<1>5. /\ e \in ExtentRecord /\ f \in ExtentRecord /\ f.state = "muzzy"
      /\ f.lo = e.lo /\ f.size = e.size /\ f.type = e.type /\ f.orig = e.orig
  BY <1>0 DEF MemoryTypeOK, ExtentRecord
<1> HIDE DEF f
<1>6. Span(f) = Span(e) /\ WholeOrCut(e) /\ WholeOrCut(f)
  BY <1>5 DEF IInv, Idle, Span, WholeOrCut
<1>7. muzzy' \subseteq muzzy \cup {f} /\ held' = held /\ inUse' = {}
  BY <1>1, <1>2 DEF f, IInv, RecUnchanged, callerVars
<1>8. CallerTypeOK' /\ Asking'
  BY <1>2, CallersKept DEF RecUnchanged
<1>9. MemoryTypeOK'
  <2>1. committed' \subseteq committed
    BY <1>1
  <2>2. inUse' \cup dirty' \cup muzzy' \cup retained' \cup batch' \subseteq ExtentRecord
    BY <1>0, <1>1, <1>2, <1>5, <1>7 DEF MemoryTypeOK
  <2>3. \A x \in muzzy' : x.state = "muzzy"
    BY <1>0, <1>5, <1>7 DEF MemoryTypeOK
  <2> QED
    BY <2>1, <2>2, <2>3, <1>0, <1>2, <1>4 DEF MemoryTypeOK
<1>10. BatchState'
  BY <1>0, <1>1 DEF IInv, BatchState
<1>11. InBounds(Idle' \cup held') /\ \A x \in Idle' : WholeOrCut(x)
  <2>1. \A x \in Idle' : x \in Idle \/ x = f
    BY <1>1, <1>2, <1>7 DEF Idle
  <2>2. f.lo + f.size <= PageCount
    BY <1>5 DEF IInv, InBounds, Idle
  <2> QED
    BY <2>1, <2>2, <1>6, <1>7 DEF IInv, InBounds
<1>12. Separate(dirty', muzzy', batch', held')
  <2>1. CASE muzzy' = muzzy \cup {f}
    BY <2>1, <1>0, <1>1, <1>2, <1>6, <1>7, SeparatePasses
  <2>2. CASE muzzy' = muzzy
    <3>1. Apart(batch \ {e}) /\ Pages(batch \ {e}) \subseteq Pages(batch)
      BY <1>0, ApartSubset DEF Separate
    <3>2. Separate(dirty, muzzy, batch \ {e}, held)
      BY <1>0, <3>1, SeparateShrinks DEF Separate
    <3> QED
      BY <3>2, <2>2, <1>1, <1>2, <1>7
  <2> QED
    BY <1>1, <2>1, <2>2 DEF f
<1>13. /\ Pages(held') \cup Pages(dirty') \subseteq committed'
       /\ \A p \in committed' : base[p] # NoAddr
  <2>1. committed \ Span(e) \subseteq committed'
    BY <1>1, <1>3
  <2>2. Span(e) \subseteq Pages(batch)
    BY DEF Pages
  <2>3. Span(e) \cap (Pages(held) \cup Pages(dirty)) = {}
    BY <2>2, <1>0 DEF Separate
  <2> QED
    BY <2>1, <2>3, <1>1, <1>2, <1>7 DEF IInv, Backed
<1> QED
  BY <1>4, <1>7, <1>8, <1>9, <1>10, <1>11, <1>12, <1>13, BaseKept

\* The reservation that is released is that of the extent, and nothing else lies in it.
LEMMA RetainedInsertStep ==
  ASSUME IInv, ~ Posix, RetainedInsert
  PROVE  IInv'
<1>0. /\ MemoryTypeOK /\ Separate(dirty, muzzy, batch, held) /\ batch # {}
      /\ rec = "toRetained" /\ rec' = rec
      /\ PageCount \in Nat \ {0} /\ base \in [Page -> 0 .. PageCount]
  BY TypeParts, ExtentAssumption DEF IInv, RetainedInsert, MemoryTypeOK
<1>1. PICK e \in batch :
        /\ batch' = batch \ {e}
        /\ base' = Unmapped(Released(e))
        /\ committed' = committed \ Released(e)
        /\ retained' = retained \cup
             (IF Released(e) = {} THEN {} ELSE {[e EXCEPT !.state = "retained"]})
  BY DEF RetainedInsert
<1>2. /\ UNCHANGED <<dirty, muzzy>> /\ RecUnchanged
  BY DEF RetainedInsert
<1>3. e.type = "original" /\ e \in Idle /\ WholeOrCut(e) /\ e \in ExtentRecord
  BY <1>0 DEF IInv, BatchState, Idle, MemoryTypeOK
<1>4. Released(e) = Span(e) /\ Reservation(e.lo) = Span(e)
  BY <1>3 DEF WholeOrCut, Released, Reservation
<1>5. /\ \A p \in Page : p \in Span(e) => base'[p] = NoAddr
      /\ \A p \in Page : p \notin Span(e) => base'[p] = base[p]
      /\ DOMAIN base' = Page
  BY <1>1, <1>4 DEF Unmapped
<1>6. /\ batch' = batch \ {e} /\ held' = held /\ inUse' = {} /\ committed' = committed \ Span(e)
      /\ Idle' \subseteq Idle
  BY <1>1, <1>2, <1>4 DEF IInv, RecUnchanged, callerVars, Idle
<1>7. ExtentTypeOK'
  <2>1. base' \in [Page -> 0 .. PageCount]
    BY <1>0, <1>1 DEF Unmapped, NoAddr
  <2>2. /\ [e EXCEPT !.state = "retained"] \in ExtentRecord
        /\ [e EXCEPT !.state = "retained"].state = "retained"
    BY <1>3 DEF ExtentRecord
  <2>3. retained' \subseteq ExtentRecord /\ \A x \in retained' : x.state = "retained"
    BY <2>2, <1>0, <1>1 DEF MemoryTypeOK
  <2>4. MemoryTypeOK'
    BY <2>1, <2>3, <1>0, <1>2, <1>6 DEF MemoryTypeOK
  <2>5. CallerTypeOK'
    BY <1>2, CallersKept DEF RecUnchanged
  <2> QED
    BY <2>4, <2>5, TypeParts, PTL
<1>8. Asking' /\ BatchState' /\ InBounds(Idle \cup held)'
  <2>1. Asking'
    BY <1>2, CallersKept DEF RecUnchanged
  <2>2. BatchState'
    BY <1>0, <1>6 DEF IInv, BatchState
  <2>3. InBounds(Idle \cup held)'
    BY <1>6 DEF IInv, InBounds
  <2> QED
    BY <2>1, <2>2, <2>3
<1>9. Pages(batch \ {e}) = Pages(batch) \ Span(e) /\ Span(e) \subseteq Pages(batch)
  BY <1>0, PagesDrop DEF Separate
<1>10. Separate(dirty, muzzy, batch, held)'
  <2>1. Apart(batch \ {e})
    BY <1>0, ApartSubset DEF Separate
  <2>2. Separate(dirty, muzzy, batch \ {e}, held)
    BY <2>1, <1>0, <1>9, SeparateShrinks DEF Separate
  <2>3. Separate(dirty', muzzy', batch', held')
    BY <2>2, <1>2, <1>6
  <2> QED
    BY <2>3 DEF Separate
<1>11. WellBased'
  <2> SUFFICES ASSUME NEW p \in Page, base'[p] # NoAddr
               PROVE  base'[base'[p]] = base'[p]
    BY DEF WellBased, Page, NoAddr
  <2>1. p \notin Span(e) /\ base'[p] = base[p] /\ base[p] # NoAddr
    BY <1>5
  <2>2. base[base[p]] = base[p] /\ base[p] \in Page
    BY <2>1, <1>0 DEF IInv, WellBased, Page, NoAddr
  <2>3. base[p] \notin Span(e)
    <3>1. base[p] \in Span(e) => base[base[p]] = e.lo
      BY <2>2, <1>4 DEF Reservation
    <3>2. base[p] # e.lo
      BY <2>1, <1>4 DEF Reservation
    <3> QED
      BY <3>1, <3>2, <2>2
  <2> QED
    BY <2>1, <2>2, <2>3, <1>5
<1>12. (\A x \in Idle : WholeOrCut(x))'
  <2> SUFFICES ASSUME NEW x \in Idle'
               PROVE  WholeOrCut(x)'
    OBVIOUS
  <2>1. x \in Idle /\ WholeOrCut(x) /\ base[x.lo] = x.lo /\ x.lo \in Page /\ x.lo # NoAddr
    BY <1>6, IdleFacts DEF IInv
  <2>2. x.lo # e.lo
    <3>1. x.lo \in Span(x) /\ x.lo \in Page /\ e.lo \in Span(e)
      BY <2>1, <1>3, IdleFacts, SpanFacts
    <3>2. x \in dirty \cup muzzy \cup (batch \ {e})
      BY <1>2, <1>6 DEF Idle
    <3>3. Span(x) \cap Span(e) = {}
      <4>1. Pages(dirty) \cap Span(e) = {} /\ Pages(muzzy) \cap Span(e) = {}
        BY <1>0, <1>9 DEF Separate
      <4>2. Pages(batch \ {e}) \cap Span(e) = {}
        BY <1>9
      <4> QED
        BY <3>2, <4>1, <4>2 DEF Pages
    <3> QED
      BY <3>1, <3>3
  <2>3. \A p \in Page : base'[p] = x.lo <=> base[p] = x.lo
    BY <2>1, <2>2, <1>4, <1>5 DEF Reservation
  <2>4. Reservation(x.lo)' = Reservation(x.lo)
    BY <2>3 DEF Reservation, Page
  <2> QED
    BY <2>1, <2>4 DEF WholeOrCut, Span
<1>13. Backed'
  <2>1. Span(e) \cap (Pages(held) \cup Pages(dirty)) = {}
    BY <1>0, <1>9 DEF Separate
  <2>2. Pages(held') \cup Pages(dirty') \subseteq committed'
    BY <2>1, <1>2, <1>6 DEF IInv, Backed
  <2>3. \A p \in committed' : base'[p] # NoAddr
    BY <1>0, <1>5, <1>6 DEF IInv, Backed, MemoryTypeOK
  <2> QED
    BY <2>2, <2>3 DEF Backed, Pages, NoAddr
<1> QED
  BY <1>6, <1>7, <1>8, <1>10, <1>11, <1>12, <1>13 DEF IInv

LEMMA RetainedReclaimStep ==
  ASSUME IInv, RetainedReclaim
  PROVE  IInv'
<1>1. /\ retained' \subseteq retained /\ UNCHANGED <<osVars, dirty, muzzy, batch>> /\ RecUnchanged
      /\ batch = {}
  BY DEF RetainedReclaim, IInv, BatchState
<1>2. CallerTypeOK' /\ Asking'
  BY <1>1, CallersKept DEF RecUnchanged
<1>3. MemoryTypeOK'
  BY <1>1, TypeParts DEF IInv, MemoryTypeOK, RecUnchanged, osVars
<1>4. /\ inUse' = {} /\ UNCHANGED base /\ BatchState'
      /\ InBounds(Idle' \cup held') /\ Separate(dirty', muzzy', batch', held')
      /\ \A f \in Idle' : WholeOrCut(f)
      /\ Pages(held') \cup Pages(dirty') \subseteq committed'
      /\ \A p \in committed' : base[p] # NoAddr
  BY <1>1 DEF IInv, Idle, Backed, BatchState, RecUnchanged, osVars, callerVars
<1> QED
  BY <1>2, <1>3, <1>4, BaseKept

LEMMA RecyclerStep ==
  ASSUME IInv, ~ Posix, Recycler
  PROVE  IInv'
<1>1. CASE LoopTest \/ DirtyDone \/ MuzzyDone \/ WaitTest \/ Wait \/ Timeout
  <2>1. UNCHANGED <<osVars, dirty, muzzy, retained, batch>> /\ RecUnchanged /\ batch = {}
    BY <1>1 DEF LoopTest, DirtyDone, MuzzyDone, WaitTest, Wait, Timeout, IInv, BatchState
  <2>2. BatchState'
    BY <2>1 DEF BatchState
  <2> QED
    BY <2>1, <2>2, RecyclerMoves
<1>2. CASE DirtyMerge \/ MuzzyMerge
  BY <1>2, TreeMergeStep
<1>3. CASE DirtyReclaim \/ MuzzyReclaim
  BY <1>3, ReclaimStep
<1>4. CASE MuzzyInsert
  BY <1>4, MuzzyInsertStep
<1>5. CASE RetainedInsert
  BY <1>5, RetainedInsertStep
<1>6. CASE RetainedReclaim
  BY <1>6, RetainedReclaimStep
<1> QED
  BY <1>1, <1>2, <1>3, <1>4, <1>5, <1>6 DEF Recycler

-----------------------------------------------------------------------------
(* The destructor *)

\* A tree is emptied: no extent in it is a piece, so that nothing is released.
LEMMA ClearStep ==
  ASSUME IInv, UNCHANGED <<held, pc, request, muzzyStuck, batch, rec>>,
         inUse' = {}, dirty' \in {dirty, {}}, muzzy' \in {muzzy, {}},
         retained' \in {retained, {}}, UNCHANGED osVars
  PROVE  IInv'
<1>1. CallerTypeOK' /\ Asking'
  BY CallersKept DEF callerVars
<1>2. MemoryTypeOK'
  BY TypeParts DEF IInv, MemoryTypeOK, osVars
<1>3. dirty' \subseteq dirty /\ muzzy' \subseteq muzzy /\ Idle' \subseteq Idle
  BY DEF Idle
<1>4. Separate(dirty', muzzy', batch', held')
  <2>1. Separate(dirty, muzzy, batch, held)
    BY DEF IInv
  <2>2. /\ Apart(dirty') /\ Apart(muzzy')
        /\ Pages(dirty') \subseteq Pages(dirty) /\ Pages(muzzy') \subseteq Pages(muzzy)
    BY <2>1, <1>3, ApartSubset DEF Separate
  <2>3. Separate(dirty', muzzy', batch, held)
    BY <2>1, <2>2, SeparateShrinks DEF Separate
  <2> QED
    BY <2>3
<1>5. /\ InBounds(Idle' \cup held') /\ BatchState' /\ \A f \in Idle' : WholeOrCut(f)
      /\ Pages(held') \cup Pages(dirty') \subseteq committed'
      /\ \A p \in committed' : base[p] # NoAddr
  BY <1>3 DEF IInv, InBounds, BatchState, Backed, Pages, osVars
<1> QED
  BY <1>1, <1>2, <1>4, <1>5, BaseKept DEF osVars

LEMMA CloserStep ==
  ASSUME IInv, ClearInUse \/ Closing
  PROVE  IInv'
<1>0. /\ Destroyed({}) = {} /\ Destroyed(dirty) = {} /\ Destroyed(muzzy) = {}
      /\ inUse = {} /\ Unmapped({}) = base
  BY NoneDestroyed, NothingUnmapped, TypeParts DEF IInv, Idle
<1>1. CASE ClearInUse
  BY <1>0, <1>1, ClearStep DEF ClearInUse, CloserUnchanged, callerVars, osVars
<1>2. CASE ClearDirty
  BY <1>0, <1>2, ClearStep DEF ClearDirty, CloserUnchanged, callerVars, osVars
<1>3. CASE ClearMuzzy
  BY <1>0, <1>3, ClearStep DEF ClearMuzzy, CloserUnchanged, callerVars, osVars
<1>4. CASE ClearRetained
  BY <1>0, <1>4, ClearStep DEF ClearRetained, callerVars, osVars
<1>5. CASE StopFlag \/ Notify \/ JoinRecycler
  <2>1. /\ UNCHANGED <<osVars, treeVars, callerVars, muzzyStuck, batch>>
        /\ rec' = rec \/ (rec = "waiting" /\ rec' = "test")
    BY <1>5 DEF StopFlag, Notify, JoinRecycler, CloserUnchanged, treeVars
  <2>2. CallerTypeOK' /\ Asking'
    BY <2>1, CallersKept
  <2>3. BatchState'
    BY <2>1 DEF IInv, BatchState
  <2> QED
    BY <2>1, <2>2, <2>3, Quiet DEF callerVars
<1> QED
  BY <1>1, <1>2, <1>3, <1>4, <1>5 DEF Closing

-----------------------------------------------------------------------------
(* The theorems *)

\* The preallocated blocks are reservations of their own.
LEMMA InitInvariant ==
  ASSUME ExtentInit
  PROVE  IInv
<1>0. PageCount \in Nat \ {0} /\ Prealloc \in Seq(1 .. MaxBlock) /\ MaxBlock \in Nat \ {0}
  BY ExtentAssumption
<1>1. PICK f \in Placements :
        dirty = {NewExtent(f[i], Prealloc[i], "dirty", "original") : i \in DOMAIN Prealloc}
  BY DEF ExtentInit
<1>2. /\ committed = Pages(dirty)
      /\ base = [p \in Page |->
           IF p \in committed THEN (CHOOSE e \in dirty : p \in Span(e)).lo ELSE NoAddr]
      /\ inUse = {} /\ muzzy = {} /\ retained = {} /\ held = {} /\ batch = {}
      /\ pc = [t \in Threads |-> "idle"] /\ request = [t \in Threads |-> 0]
      /\ muzzyStuck = FALSE
  BY DEF ExtentInit
<1>3. ASSUME NEW i \in DOMAIN Prealloc
      PROVE  /\ Prealloc[i] \in Nat \ {0} /\ f[i] \in Page /\ f[i] \in Nat
             /\ f[i] + Prealloc[i] <= PageCount
  BY <1>0 DEF Placements, Page
<1>4. ASSUME NEW e \in dirty
      PROVE  \E i \in DOMAIN Prealloc :
               e = [lo |-> f[i], size |-> Prealloc[i], state |-> "dirty", type |-> "original",
                    orig |-> 0]
  BY <1>1 DEF NewExtent
<1>5. ASSUME NEW e \in dirty
      PROVE  /\ e \in ExtentRecord /\ e.lo + e.size <= PageCount
             /\ e.state = "dirty" /\ e.type = "original" /\ e.orig = 0
             /\ Span(e) \subseteq Page
  <2>1. PICK i \in DOMAIN Prealloc :
               e = [lo |-> f[i], size |-> Prealloc[i], state |-> "dirty", type |-> "original",
                    orig |-> 0]
    BY <1>4
  <2>2. /\ Prealloc[i] \in 1 .. PageCount /\ f[i] \in Page /\ f[i] \in Nat
        /\ f[i] + Prealloc[i] <= PageCount /\ 0 \in 0 .. PageCount
    BY <1>0, <1>3
  <2>3. e \in ExtentRecord
    BY <2>1, <2>2 DEF ExtentRecord
  <2>4. Span(e) \subseteq Page
    BY <2>1, <2>2, <1>0 DEF Span, Page
  <2> QED
    BY <2>1, <2>2, <2>3, <2>4
<1>6. Apart(dirty)
  <2> SUFFICES ASSUME NEW x \in dirty, NEW y \in dirty, x # y
               PROVE  Span(x) \cap Span(y) = {}
    BY DEF Apart
  <2>1. PICK i \in DOMAIN Prealloc :
               x = [lo |-> f[i], size |-> Prealloc[i], state |-> "dirty", type |-> "original",
                    orig |-> 0]
    BY <1>4
  <2>2. PICK j \in DOMAIN Prealloc :
               y = [lo |-> f[j], size |-> Prealloc[j], state |-> "dirty", type |-> "original",
                    orig |-> 0]
    BY <1>4
  <2>3. i # j
    BY <2>1, <2>2
  <2>4. f[i] + Prealloc[i] <= f[j] \/ f[j] + Prealloc[j] <= f[i]
    BY <2>3 DEF Placements
  <2> QED
    BY <2>1, <2>2, <2>4, <1>3 DEF Span
<1>7. ASSUME NEW p \in Page, NEW e \in dirty, p \in Span(e)
      PROVE  base[p] = e.lo /\ p \in committed
  <2>1. p \in committed
    BY <1>2, <1>7 DEF Pages
  <2> DEFINE c == CHOOSE x \in dirty : p \in Span(x)
  <2>2. c \in dirty /\ p \in Span(c)
    BY <1>7
  <2>3. c = e
    BY <2>2, <1>6, <1>7 DEF Apart
  <2> QED
    BY <2>1, <2>3, <1>2
<1>8. ASSUME NEW p \in Page, base[p] # NoAddr
      PROVE  p \in committed /\ \E e \in dirty : p \in Span(e)
  BY <1>2, <1>8 DEF Pages
<1>9. ASSUME NEW e \in dirty
      PROVE  e.lo \in Page /\ e.lo # NoAddr /\ e.lo \in Span(e)
  BY <1>0, <1>5, SpanFacts DEF ExtentRecord, Page, NoAddr
<1>10. base \in [Page -> 0 .. PageCount] /\ committed \subseteq Page
  <2>1. committed \subseteq Page
    BY <1>2, <1>5 DEF Pages
  <2>2. ASSUME NEW p \in Page PROVE base[p] \in 0 .. PageCount
    <3>1. CASE base[p] = NoAddr
      BY <3>1, <1>0 DEF NoAddr
    <3>2. CASE base[p] # NoAddr
      <4>1. PICK e \in dirty : p \in Span(e)
        BY <3>2, <1>8
      <4>2. base[p] = e.lo /\ e.lo \in Page
        BY <4>1, <1>7, <1>9
      <4> QED
        BY <4>2, <1>0 DEF Page
    <3> QED
      BY <3>1, <3>2
  <2>3. base = [p \in Page |-> base[p]]
    BY <1>2
  <2> QED
    BY <2>1, <2>2, <2>3
<1>11. ExtentTypeOK
  <2>1. MemoryTypeOK
    BY <1>2, <1>5, <1>10 DEF MemoryTypeOK
  <2>2. CallerTypeOK
    BY <1>2 DEF CallerTypeOK
  <2> QED
    BY <2>1, <2>2, TypeParts
<1>12. Asking /\ BatchState
  BY <1>2 DEF Asking, BatchState
<1>13. InBounds(Idle \cup held) /\ Separate(dirty, muzzy, batch, held)
  BY <1>2, <1>5, <1>6 DEF InBounds, Idle, Separate, Apart, Pages
<1>14. WellBased
  <2> SUFFICES ASSUME NEW p \in Page, base[p] # NoAddr
               PROVE  base[base[p]] = base[p]
    BY DEF WellBased
  <2>1. PICK e \in dirty : p \in Span(e)
    BY <1>8
  <2>2. base[p] = e.lo /\ base[e.lo] = e.lo
    BY <2>1, <1>7, <1>9
  <2> QED
    BY <2>2
<1>15. \A e \in Idle : WholeOrCut(e)
  <2> SUFFICES ASSUME NEW e \in dirty PROVE WholeOrCut(e)
    BY <1>2 DEF Idle
  <2>1. ASSUME NEW p \in Page
        PROVE  base[p] = e.lo <=> p \in Span(e)
    <3>1. p \in Span(e) => base[p] = e.lo
      BY <1>7
    <3>2. ASSUME base[p] = e.lo PROVE p \in Span(e)
      <4>1. PICK x \in dirty : p \in Span(x)
        BY <3>2, <1>8, <1>9
      <4>2. x.lo = e.lo /\ x.lo \in Span(x) /\ e.lo \in Span(e)
        BY <4>1, <3>2, <1>7, <1>9
      <4>3. x = e
        BY <4>2, <1>6 DEF Apart
      <4> QED
        BY <4>1, <4>3
    <3> QED
      BY <3>1, <3>2
  <2>2. Reservation(e.lo) = Span(e)
    BY <2>1, <1>5 DEF Reservation
  <2> QED
    BY <2>2, <1>5 DEF WholeOrCut
<1>16. Backed
  <2>1. \A p \in committed : base[p] # NoAddr
    <3> SUFFICES ASSUME NEW p \in committed PROVE base[p] # NoAddr
      OBVIOUS
    <3>1. PICK e \in dirty : p \in Span(e)
      BY <1>2 DEF Pages
    <3> QED
      BY <3>1, <1>7, <1>9, <1>10
  <2> QED
    BY <2>1, <1>2 DEF Backed, Pages
<1> QED
  BY <1>2, <1>11, <1>12, <1>13, <1>14, <1>15, <1>16 DEF IInv

LEMMA NextInvariant ==
  ASSUME IInv, ~ Posix, [ExtentNext]_extentVars
  PROVE  IInv'
<1>1. CASE ExtentNext
  BY <1>1, AllocateStep, CallStep, DeallocateStep, RecyclerStep, CloserStep DEF ExtentNext
<1>2. CASE UNCHANGED extentVars
  <2>1. UNCHANGED <<osVars, treeVars, callerVars, muzzyStuck, rec, batch>>
    BY <1>2 DEF extentVars, taskVars
  <2>2. CallerTypeOK' /\ Asking'
    BY <2>1, CallersKept
  <2>3. BatchState'
    BY <2>1 DEF IInv, BatchState
  <2> QED
    BY <2>1, <2>2, <2>3, Quiet DEF callerVars
<1> QED
  BY <1>1, <1>2

LEMMA Invariance ==
  ASSUME ~ Posix
  PROVE  ExtentSpec => []IInv
<1>1. ExtentInit => IInv
  BY InitInvariant
<1>2. IInv /\ [ExtentNext]_extentVars => IInv'
  BY NextInvariant
<1> QED
  BY <1>1, <1>2, PTL DEF ExtentSpec

\* The trees, the system's memory and the callers hold what their types say
\* (extent_manager.cc, with VirtualAlloc's memory).
THEOREM ExtentTypeCorrect ==
  ASSUME ~ Posix
  PROVE  ExtentSpec => []ExtentTypeOK
<1>1. IInv => ExtentTypeOK
  BY DEF IInv
<1> QED
  BY <1>1, Invariance, PTL

\* What allocate() returned (extent_manager.cc:207-230) can be used until it is given back,
\* whatever the recycler and the other callers do meanwhile.
THEOREM HandedOutStaysUsable ==
  ASSUME ~ Posix
  PROVE  ExtentSpec => []HandedOutUsable
<1>1. IInv => HandedOutUsable
  BY DEF IInv, Backed, HandedOutUsable, Pages
<1> QED
  BY <1>1, Invariance, PTL

\* No page is in two hands: two callers', two trees', a caller's and a tree's.
THEOREM PagesStayDisjoint ==
  ASSUME ~ Posix
  PROVE  ExtentSpec => []PagesDisjoint
<1>1. ASSUME IInv PROVE PagesDisjoint
  <2> SUFFICES ASSUME NEW x \in Idle \cup held, NEW y \in Idle \cup held, x # y
               PROVE  Span(x) \cap Span(y) = {}
    BY DEF PagesDisjoint, Idle
  <2>1. Separate(dirty, muzzy, batch, held)
    BY <1>1 DEF IInv
  <2>2. \A S, T : \A u \in S, v \in T : Pages(S) \cap Pages(T) = {} => Span(u) \cap Span(v) = {}
    BY DEF Pages
  <2>3. CASE \E S \in {dirty, muzzy, batch, held} : x \in S /\ y \in S
    BY <2>1, <2>3 DEF Separate, Apart
  <2>4. CASE ~ \E S \in {dirty, muzzy, batch, held} : x \in S /\ y \in S
    <3>1. PICK S \in {dirty, muzzy, batch, held}, T \in {dirty, muzzy, batch, held} :
            x \in S /\ y \in T
      BY DEF Idle
    <3>2. S # T
      BY <2>4, <3>1
    <3>3. Pages(S) \cap Pages(T) = {}
      BY <2>1, <3>2 DEF Separate
    <3> QED
      BY <3>1, <3>3, <2>2
  <2> QED
    BY <2>3, <2>4
<1> QED
  BY <1>1, Invariance, PTL

\* What waits in a tree to be handed out is memory (dirty_tree.cc:116, muzzy_tree.cc:157).
THEOREM TreesStayBacked ==
  ASSUME ~ Posix
  PROVE  ExtentSpec => []TreesBacked
<1>1. ASSUME IInv PROVE TreesBacked
  <2>1. \A p \in Pages(muzzy) : base[p] # NoAddr
    BY <1>1, IdlePages, PagesMapped
  <2> QED
    BY <1>1, <2>1 DEF IInv, Backed, TreesBacked, Pages
<1> QED
  BY <1>1, Invariance, PTL

\* Steps that give no memory back.
LEMMA NothingReleased ==
  ASSUME IInv, ~ Posix, [ExtentNext]_extentVars, ~ RetainedInsert,
         NEW p \in Page, base[p] # NoAddr
  PROVE  base'[p] # NoAddr
<1>0. Unmapped({}) = base
  BY NothingUnmapped, TypeParts DEF IInv
<1>1. base' = base => base'[p] # NoAddr
  OBVIOUS
<1>2. ASSUME NEW t \in Threads, NEW n \in Requests, Call(t, n) PROVE base' = base
  BY <1>2 DEF Call, osVars
<1>3. ASSUME NEW t \in Threads, Allocate(t) PROVE base'[p] # NoAddr
  <2>0. Asking /\ request \in [Threads -> Requests \cup {0}]
    BY DEF IInv, ExtentTypeOK
  <2>1. ASSUME NEW n, NEW lo \in Places(n), MappedAt(lo, n) PROVE base'[p] # NoAddr
    <3>1. lo # NoAddr
      BY ExtentAssumption DEF Places, Page, NoAddr
    <3> QED
      BY <2>1, <3>1 DEF MappedAt
  <2>2. ASSUME NEW tree \in {dirty, muzzy}, Fits(tree, request[t]) # {}, pc[t] # "idle"
        PROVE  LET x == Taken(tree, request[t])
               IN  /\ Destroyed({x}) = {}
                   /\ \A usable : HandOut(t, [x EXCEPT !.state = "in_use"], usable) => base' = base
    <3> DEFINE x == Taken(tree, request[t])
               e == [x EXCEPT !.state = "in_use"]
    <3>1. x \in ExtentRecord /\ (x.type = "split" => Reservation(x.lo) = {})
      BY <2>0, <2>2, TakeOut DEF Asking
    <3>2. e.type = x.type /\ e.lo = x.lo
      BY <3>1 DEF ExtentRecord
    <3>3. Destroyed({x}) = {}
      BY <3>1 DEF Destroyed, Released, Reservation
    <3> HIDE DEF x, e
    <3>4. ASSUME NEW usable, HandOut(t, e, usable) PROVE base' = base
      BY <3>1, <3>2, <3>4, HandOutEffect
    <3> QED
      BY <3>3, <3>4 DEF x, e
  <2>3. CASE VisitDirty(t)
    BY <2>2, <2>3 DEF VisitDirty, osVars
  <2>4. CASE MuzzyHit(t)
    BY <2>2, <2>4 DEF MuzzyHit
  <2>5. CASE MuzzyFails(t)
    <3>1. base' = Unmapped(Destroyed({Taken(muzzy, request[t])}))
      BY <2>5 DEF MuzzyFails
    <3> QED
      BY <3>1, <2>2, <2>5, <1>0 DEF MuzzyFails
  <2>6. CASE RetainedHit(t)
    BY <2>1, <2>6 DEF RetainedHit, osVars
  <2>7. CASE SystemGives(t)
    BY <2>1, <2>7 DEF SystemGives
  <2>8. CASE MuzzyMiss(t) \/ RetainedMiss(t) \/ SystemRefuses(t)
    BY <2>8 DEF MuzzyMiss, RetainedMiss, SystemRefuses, osVars
  <2> QED
    BY <1>3, <2>3, <2>4, <2>5, <2>6, <2>7, <2>8 DEF Allocate
<1>4. ASSUME NEW r \in held, Deallocate(r) PROVE base' = base
  <2>1. inUse = {} /\ Destroyed({}) = {}
    BY DEF IInv, Destroyed
  <2> DEFINE found == {e \in inUse : e.lo = r.lo}
             back  == {e \in found : e.size = r.size}
             large == {e \in back : e.size >= MaxBlock}
             gone  == UNION {Released(e) : e \in large} \cup Destroyed(found \ back)
  <2>2. base' = Unmapped(gone)
    BY <1>4 DEF Deallocate
  <2>3. gone = {}
    BY <2>1
  <2> QED
    BY <2>2, <2>3, <1>0
<1>5. /\ Destroyed(Erased(dirty)) = {} /\ Destroyed(Erased(muzzy)) = {}
      /\ Destroyed(dirty) = {} /\ Destroyed(muzzy) = {} /\ Destroyed(inUse) = {}
  BY NoExtentsMerge, NoneDestroyed DEF IInv, Idle
<1>6. ASSUME Recycler PROVE base' = base
  <2>1. ASSUME NEW e \in batch PROVE Destroyed({e}) = {}
    BY NoneDestroyed DEF Idle
  <2>2. CASE MuzzyInsert
    BY <2>1, <2>2, <1>0 DEF MuzzyInsert
  <2>3. CASE DirtyMerge \/ MuzzyMerge
    BY <2>3, <1>0, <1>5 DEF DirtyMerge, MuzzyMerge
  <2>4. CASE \/ LoopTest \/ DirtyReclaim \/ DirtyDone \/ MuzzyReclaim \/ MuzzyDone
             \/ RetainedReclaim \/ WaitTest \/ Wait \/ Timeout
    BY <2>4 DEF LoopTest, DirtyReclaim, DirtyDone, MuzzyReclaim, MuzzyDone, RetainedReclaim,
                WaitTest, Wait, Timeout, osVars
  <2> QED
    BY <1>6, <2>2, <2>3, <2>4 DEF Recycler
<1>7. ASSUME ClearInUse \/ Closing PROVE base' = base
  BY <1>0, <1>5, <1>7 DEF ClearInUse, Closing, ClearDirty, ClearMuzzy, ClearRetained, StopFlag,
                          Notify, JoinRecycler, osVars
<1>8. CASE UNCHANGED extentVars
  BY <1>8 DEF extentVars, osVars
<1> QED
  BY <1>1, <1>2, <1>3, <1>4, <1>6, <1>7, <1>8 DEF ExtentNext

\* Memory goes back to the system only from the recycler, and only the whole of what was
\* allocated (muzzy_tree.cc:231, retained_tree.cc:86).
THEOREM OnlyWholeReleased ==
  ASSUME ~ Posix
  PROVE  ExtentSpec => ReleasedWhole
<1> DEFINE Step == \A p \in Page : base[p] # NoAddr /\ base'[p] = NoAddr =>
                     \E e \in batch : e.state = "muzzy" /\ p \in Span(e)
<1>1. ASSUME IInv, [ExtentNext]_extentVars
      PROVE  Step
  <2> SUFFICES ASSUME NEW p \in Page, base[p] # NoAddr, base'[p] = NoAddr
               PROVE  \E e \in batch : e.state = "muzzy" /\ p \in Span(e)
    OBVIOUS
  <2>1. RetainedInsert
    BY <1>1, NothingReleased
  <2>2. PICK e \in batch : base' = Unmapped(Released(e))
    BY <2>1 DEF RetainedInsert
  <2>3. e.state = "muzzy" /\ e.type = "original" /\ WholeOrCut(e)
    BY <1>1, <2>1 DEF IInv, BatchState, RetainedInsert, Idle
  <2>4. Released(e) = Span(e)
    BY <2>3 DEF WholeOrCut, Released, Reservation
  <2>5. p \in Span(e)
    BY <2>2, <2>4 DEF Unmapped
  <2> QED
    BY <2>3, <2>5
<1>2. IInv /\ [ExtentNext]_extentVars => [Step]_extentVars
  BY <1>1
<1> QED
  BY <1>2, Invariance, PTL DEF ExtentSpec, ReleasedWhole

\* in_use_tree refuses what is handed out, so that no piece ever comes back: merge()
\* (dirty_tree.cc:238, muzzy_tree.cc:273) never finds two extents to join.
THEOREM TreesNeverMerge ==
  ASSUME ~ Posix
  PROVE  ExtentSpec => [](Merge(dirty) = dirty /\ Merge(muzzy) = muzzy)
<1>1. IInv => Merge(dirty) = dirty /\ Merge(muzzy) = muzzy
  BY NoExtentsMerge
<1> QED
  BY <1>1, Invariance, PTL
=============================================================================
