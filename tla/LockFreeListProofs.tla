------------------------- MODULE LockFreeListProofs -------------------------
(***************************************************************************)
(* Proofs about LockFreeList, for any number of threads, nodes, tags and    *)
(* retries.  InvOf(s) says that the links go through the sequence s and     *)
(* what each thread knows of it; every step of the code leaves s as it is,  *)
(* adds a node to one end or takes one out (ListMoves).                     *)
(* Two things are assumed.  GroupsApart: an append overlaps no prepend, and *)
(* a removal no other call; on an empty or nearly empty list they disturb   *)
(* each other's two stores to the head and the tail.  ~WeakFailure: a       *)
(* compare_exchange_weak fails only when the values differ, since the list  *)
(* ignores the failure of some.                                             *)
(***************************************************************************)
EXTENDS LockFreeList, TLAPS, FiniteSetTheorems, SequenceTheorems, WellFoundedInduction

Appends  == {"push_back", "emplace_back"}
Prepends == {"push_front", "emplace_front"}
Removals == {"erase", "clear"}
Finds    == {"find", "find_if"}

AppendPlaces  == {"loadTail", "claim", "loadHead", "setHead", "loadNext", "help", "link",
                  "swing", "count"}
PrependPlaces == {"pushHead", "checkTail", "setTail", "count"}
RemovalPlaces == {"top", "match", "unlinkHead", "walk", "look", "unlink", "loadEnd", "setEnd",
                  "free", "uncount"}
FindPlaces    == {"begin", "visit"}

\* A thread has a node that is not in the list, or is in the list and not counted; ...
Unlinked == {"loadTail", "claim", "loadNext", "help", "link", "pushHead"}
Uncounted == {"loadHead", "setHead", "swing", "checkTail", "setTail", "count"}

\* ... a removal has taken its node off the list, or not counted that yet.
Removed  == {"loadEnd", "setEnd", "free"}
Uncounting == Removed \cup {"uncount"}

\* Which calls may overlap: a find with every other, but no append with a prepend, and
\* no removal with any other call.
Mild == Finds \cup {"set_max_retries"}
GroupsApart ==
  \A group \in Together : group \subseteq Appends \cup Mild \/ group \subseteq Prepends \cup Mild

-----------------------------------------------------------------------------
(* The invariant, for s the nodes of the list *)

FirstOf(s) == IF s = <<>> THEN Null ELSE s[1]
LastOf(s)  == IF s = <<>> THEN Null ELSE s[Len(s)]
In(s)      == {s[i] : i \in 1 .. Len(s)}

\* The nodes of s from p on.
Ahead(s, p) == {n \in Nodes : \E i, j \in 1 .. Len(s) : i <= j /\ s[i] = p /\ s[j] = n}

\* The links go through s.
Path(links, s) ==
  /\ s \in Seq(Nodes)
  /\ \A i, j \in 1 .. Len(s) : s[i] = s[j] => i = j
  /\ \A i \in 1 .. Len(s) : links[s[i]].ptr = IF i = Len(s) THEN Null ELSE s[i + 1]

\* The head is the first node, or an append is about to set it; the tail is the last,
\* or a thread is about to set it.
HeadRight(s) ==
  \/ head.ptr = FirstOf(s)
  \/ \E t \in Threads : at[t] \in {"loadHead", "setHead"}

TailRight(s) ==
  \/ tail.ptr = LastOf(s)
  \/ \E t \in Threads : at[t] = "swing" /\ loc[t].cur = tail /\ loc[t].node = LastOf(s)
  \/ \E t \in Threads : at[t] \in {"checkTail", "setTail", "loadEnd", "setEnd"}

\* Each node is free, in the list or a thread's.
Shared(s) ==
  /\ pool \cap In(s) = {}
  /\ Nodes \subseteq pool \cup In(s) \cup Private

Counted(s) ==
  size + Cardinality({t \in Threads : at[t] \in Uncounted}) =
    Len(s) + Cardinality({t \in Threads : at[t] \in Uncounting})

Calls(t) ==
  /\ at[t] = "idle" <=> loc[t].op = "none"
  /\ loc[t].op \in Appends  => at[t] \in AppendPlaces
  /\ loc[t].op \in Prepends => at[t] \in PrependPlaces
  /\ loc[t].op \in Removals => at[t] \in RemovalPlaces
  /\ loc[t].op \in Finds    => at[t] \in FindPlaces

\* The node of an append or a prepend.
Adds(t, s) ==
  /\ at[t] \in Unlinked  => loc[t].node \in Nodes \ (pool \cup In(s))
  /\ at[t] \in Uncounted => loc[t].node \in In(s)

\* An append has come past a node of the list, from which the tail moves ahead only.
AppendKnows(t, s) ==
  /\ at[t] \in Unlinked \ {"pushHead"} => next[loc[t].node].ptr = Null
  /\ at[t] = "claim" => loc[t].cur.ptr = Null
  /\ at[t] \in {"loadHead", "setHead"} => head.ptr = Null /\ loc[t].node = FirstOf(s)
  /\ at[t] = "setHead" => loc[t].cur = head
  /\ at[t] \in {"loadNext", "help", "link", "swing"} =>
       tail.ptr \in Ahead(s, loc[t].cur.ptr) /\ (loc[t].cur.ptr = tail.ptr => loc[t].cur = tail)
  /\ at[t] = "help" => loc[t].nxt.ptr # Null /\ next[loc[t].cur.ptr].ptr = loc[t].nxt.ptr
  /\ at[t] = "link" => loc[t].nxt.ptr = Null
  /\ at[t] = "swing" => next[loc[t].cur.ptr].ptr = loc[t].node

PrependKnows(t, s) ==
  /\ at[t] = "pushHead" => next[loc[t].node] = loc[t].cur
  /\ at[t] \in {"checkTail", "setTail"} => tail.ptr = Null /\ loc[t].node = LastOf(s)
  /\ at[t] = "setTail" => loc[t].cur = tail

RemovalKnows(t, s) ==
  /\ at[t] \in {"match", "unlinkHead"} =>
       loc[t].cur = head /\ head.ptr # Null /\ loc[t].prev = Null
  /\ at[t] \in {"walk", "look", "unlink"} => loc[t].prev \in In(s)
  /\ at[t] \in {"look", "unlink"} => loc[t].cur.ptr # Null /\ loc[t].cur = next[loc[t].prev]
  /\ at[t] \in {"unlinkHead", "unlink"} => loc[t].nxt = next[loc[t].cur.ptr]
  /\ at[t] \in {"loadEnd", "setEnd"} => loc[t].prev = LastOf(s)
  /\ at[t] = "setEnd" => loc[t].nxt = tail
  /\ at[t] \in Uncounting => loc[t].cur.ptr \in Nodes \ In(s)
  /\ at[t] \in Removed => loc[t].cur.ptr \notin pool

FindKnows(t, s) ==
  /\ at[t] \in FindPlaces => due[t] \subseteq In(s) /\ \A n \in due[t] : value[n] \in loc[t].want
  /\ at[t] = "visit" => loc[t].cur.ptr \in In(s) \cup {Null}
  /\ at[t] = "visit" /\ loc[t].cur.ptr # Null => due[t] \subseteq Ahead(s, loc[t].cur.ptr)

Knows(t, s) ==
  AppendKnows(t, s) /\ PrependKnows(t, s) /\ RemovalKnows(t, s) /\ FindKnows(t, s)

\* Two calls under way are of one group, and have nodes of their own.
Together2(t, u) ==
  \/ {loc[t].op, loc[u].op} \subseteq Appends \cup Finds
  \/ {loc[t].op, loc[u].op} \subseteq Prepends \cup Finds

Apart(t, u) ==
  /\ "none" \notin {loc[t].op, loc[u].op} => Together2(t, u)
  /\ {at[t], at[u]} \subseteq Unlinked \cup Uncounted => loc[t].node # loc[u].node

ListShape(s) ==
  /\ Path(next, s)
  /\ HeadRight(s)
  /\ TailRight(s)
  /\ Shared(s)
  /\ \A t \in Threads : Calls(t) /\ Adds(t, s) /\ Knows(t, s)
  /\ \A t, u \in Threads : t # u => Apart(t, u)

\* The types; that size is in its range follows from what it counts.
Locals == [op : Ops, node : Pointers, cur : Refs, nxt : Refs, prev : Pointers,
           left : 0 .. MaxRetries, want : SUBSET Values]

Typed ==
  /\ pool \in SUBSET Nodes
  /\ head \in Refs /\ tail \in Refs
  /\ next \in [Nodes -> Refs]
  /\ value \in [Nodes -> Values]
  /\ size \in Int
  /\ limit \in 1 .. MaxRetries
  /\ at \in [Threads -> Places]
  /\ loc \in [Threads -> Locals]
  /\ due \in [Threads -> SUBSET Nodes]

InvOf(s) == Typed /\ ListShape(s) /\ Counted(s)

ListInv == \E s : InvOf(s)

-----------------------------------------------------------------------------
(* What Chain reads off the links *)

\* A set of numbers that is not empty has a least one: what stands for induction below.
LEMMA LeastNumber ==
  ASSUME NEW T, T \subseteq Nat, T # {}
  PROVE  \E m \in T : \A n \in T : m <= n
<1>1. PICK m \in T : \A n \in T : <<n, m>> \notin OpToRel(<, Nat)
  BY NatLessThanWellFounded, WFMin
<1>2. \A n \in T : <<n, m>> \notin OpToRel(<, Nat) => m <= n
  BY <1>1 DEF OpToRel
<1> QED
  BY <1>1, <1>2

LEMMA NodesFinite == IsFiniteSet(Nodes) /\ Cardinality(Nodes) \in Nat
BY ListAssumption, FS_CardinalityType

LEMMA PathFacts ==
  ASSUME NEW links, NEW s, Path(links, s)
  PROVE  /\ Len(s) \in 0 .. Cardinality(Nodes)
         /\ s \in [1 .. Len(s) -> Nodes]
         /\ In(s) \subseteq Nodes
         /\ Null \notin In(s)
         /\ Cardinality(In(s)) = Len(s)
<1> DEFINE k == Len(s)
<1>1. k \in Nat /\ s \in [1 .. k -> Nodes]
  BY DEF Path
<1>2. In(s) \subseteq Nodes /\ Null \notin In(s)
  BY <1>1, ListAssumption DEF In
<1>3. s \in Bijection(1 .. k, In(s)) /\ s \in Injection(1 .. k, Nodes)
  <2>1. \A i, j \in 1 .. k : s[i] = s[j] => i = j
    BY DEF Path
  <2>2. s \in [1 .. k -> In(s)] /\ In(s) = {s[i] : i \in 1 .. k}
    BY <1>1 DEF In
  <2> HIDE DEF k
  <2> QED
    BY <1>1, <2>1, <2>2 DEF Bijection, Injection, Surjection, IsInjective
<1> HIDE DEF k
<1>4. IsFiniteSet(1 .. k) /\ Cardinality(1 .. k) = k
  BY <1>1, FS_Interval
<1>5. Cardinality(In(s)) = k
  BY <1>3, <1>4, FS_Bijection DEF ExistsBijection
<1>6. k <= Cardinality(Nodes)
  BY <1>3, <1>4, NodesFinite, FS_Injection
<1> QED
  BY <1>1, <1>2, <1>5, <1>6, NodesFinite DEF k

\* If the links go through s, this is what is read from its first node on.
LEMMA ChainIsPath ==
  ASSUME NEW links, NEW s, Path(links, s)
  PROVE  ChainIn(links, FirstOf(s)) = s
<1> DEFINE m == Cardinality(Nodes) + 1
           p == FirstOf(s)
           After(n) == IF n = Null THEN Null ELSE links[n].ptr
           Def(f) == f = [i \in 1 .. m |-> IF i = 1 THEN p ELSE After(f[i - 1])]
           nth == CHOOSE f : Def(f)
           g == [i \in 1 .. m |-> IF i <= Len(s) THEN s[i] ELSE Null]
<1>1. /\ m \in Nat \ {0} /\ Len(s) \in 0 .. m - 1 /\ s \in [1 .. Len(s) -> Nodes]
      /\ Null \notin Nodes
  BY PathFacts, NodesFinite, ListAssumption
<1>2. ChainIn(links, p) = [i \in {j \in 1 .. m : nth[j] # Null} |-> nth[i]]
  BY Zenon DEF ChainIn
<1>3. \A i \in 1 .. m : g[i] = IF i = 1 THEN p ELSE After(g[i - 1])
  <2> SUFFICES ASSUME NEW i \in 1 .. m
               PROVE  g[i] = IF i = 1 THEN p ELSE After(g[i - 1])
    OBVIOUS
  <2>1. CASE i = 1
    BY <1>1, <2>1 DEF FirstOf
  <2>2. CASE i # 1
    <3>1. i - 1 \in 1 .. m
      BY <2>2, <1>1
    <3>2. CASE i - 1 <= Len(s)
      <4>1. i - 1 \in 1 .. Len(s) /\ g[i - 1] = s[i - 1] /\ s[i - 1] # Null
        BY <3>1, <3>2, <1>1
      <4>2. links[s[i - 1]].ptr = IF i - 1 = Len(s) THEN Null ELSE s[(i - 1) + 1]
        BY <4>1 DEF Path
      <4>3. g[i] = IF i - 1 = Len(s) THEN Null ELSE s[i]
        BY <4>1, <1>1
      <4> QED
        BY <2>2, <4>1, <4>2, <4>3
    <3>3. CASE ~ (i - 1 <= Len(s))
      BY <3>1, <3>3, <2>2, <1>1
    <3> QED
      BY <3>2, <3>3
  <2> QED
    BY <2>1, <2>2
<1>4. Def(g)
  <2>1. g = [i \in 1 .. m |-> g[i]]
    OBVIOUS
  <2> HIDE DEF g, m, p, After
  <2> QED
    BY <2>1, <1>3, Zenon
<1>5. Def(nth)
  <2> HIDE DEF Def, g
  <2> QED
    BY <1>4
<1> HIDE DEF nth, p, m, After
<1>6. \A i \in 1 .. m : nth[i] = IF i = 1 THEN p ELSE After(nth[i - 1])
  BY <1>5, Zenon
<1>7. \A i \in 1 .. m : nth[i] = g[i]
  <2> DEFINE Bad == {i \in 1 .. m : nth[i] # g[i]}
  <2> SUFFICES ASSUME Bad # {} PROVE FALSE
    OBVIOUS
  <2>1. PICK i \in Bad : \A j \in Bad : i <= j
    <3>1. Bad \subseteq Nat
      BY <1>1
    <3> HIDE DEF Bad
    <3> QED
      BY <3>1, LeastNumber
  <2>2. i \in 1 .. m /\ nth[i] # g[i]
    OBVIOUS
  <2>3. i # 1
    BY <2>2, <1>3, <1>6
  <2>4. i - 1 \in 1 .. m /\ i - 1 \notin Bad
    <3>1. i - 1 \in 1 .. m /\ ~ (i <= i - 1)
      BY <2>2, <2>3, <1>1
    <3> HIDE DEF Bad
    <3> QED
      BY <3>1, <2>1
  <2>5. nth[i - 1] = g[i - 1]
    BY <2>4
  <2> HIDE DEF Bad, g
  <2> QED
    BY <2>2, <2>3, <2>5, <1>3, <1>6
<1>8. {j \in 1 .. m : nth[j] # Null} = 1 .. Len(s)
  BY <1>1, <1>7
<1>9. \A i \in 1 .. Len(s) : nth[i] = s[i]
  BY <1>1, <1>7
<1>10. [i \in 1 .. Len(s) |-> nth[i]] = s
  BY <1>1, <1>9
<1> QED
  BY <1>2, <1>8, <1>10 DEF p

\* Another path from p: the links between its nodes are all that matters.
LEMMA PathOfFunction ==
  ASSUME NEW k \in Nat, NEW f \in [1 .. k -> Nodes], NEW links,
         \A i, j \in 1 .. k : f[i] = f[j] => i = j,
         \A i \in 1 .. k : links[f[i]].ptr = IF i = k THEN Null ELSE f[i + 1]
  PROVE  Len(f) = k /\ Path(links, f)
<1>1. f \in Seq(Nodes) /\ Len(f) = k
  OBVIOUS
<1> QED
  BY <1>1 DEF Path

LEMMA AheadIsReach ==
  ASSUME NEW links, NEW s, Path(links, s), NEW p \in In(s) \cup {Null}
  PROVE  /\ Range(ChainIn(links, p)) = Ahead(s, p)
         /\ \A i \in 1 .. Len(s) : s[i] = p => Len(ChainIn(links, p)) = Len(s) - i + 1
<1>0. /\ Len(s) \in Nat /\ s \in [1 .. Len(s) -> Nodes] /\ Null \notin Nodes
      /\ \A i, j \in 1 .. Len(s) : s[i] = s[j] => i = j
      /\ \A i \in 1 .. Len(s) : links[s[i]].ptr = IF i = Len(s) THEN Null ELSE s[i + 1]
  BY PathFacts, ListAssumption DEF Path
<1>1. CASE p = Null
  <2>1. Path(links, <<>>)
    BY DEF Path
  <2>2. ChainIn(links, p) = <<>>
    BY <1>1, <2>1, ChainIsPath DEF FirstOf
  <2>3. Ahead(s, p) = {}
    BY <1>0, <1>1 DEF Ahead
  <2>4. Range(<<>>) = {}
    BY DEF Range
  <2> QED
    BY <1>0, <1>1, <2>2, <2>3, <2>4
<1>2. CASE p \in In(s)
  <2>1. PICK i \in 1 .. Len(s) : s[i] = p
    BY <1>2 DEF In
  <2> DEFINE k == Len(s) - i + 1
             f == [j \in 1 .. k |-> s[i + j - 1]]
  <2>2. k \in Nat \ {0} /\ \A j \in 1 .. k : i + j - 1 \in 1 .. Len(s)
    BY <1>0
  <2>3. f \in [1 .. k -> Nodes]
    BY <1>0, <2>2
  <2>4. \A a, b \in 1 .. k : f[a] = f[b] => a = b
    BY <1>0, <2>2
  <2>5. \A a \in 1 .. k : links[f[a]].ptr = IF a = k THEN Null ELSE f[a + 1]
    <3> SUFFICES ASSUME NEW a \in 1 .. k
                 PROVE  links[f[a]].ptr = IF a = k THEN Null ELSE f[a + 1]
      OBVIOUS
    <3> DEFINE b == i + a - 1
    <3>1. b \in 1 .. Len(s) /\ f[a] = s[b] /\ (b = Len(s) <=> a = k)
      BY <2>2
    <3>2. a # k => f[a + 1] = s[b + 1]
      BY <2>2
    <3> HIDE DEF f, k, b
    <3> QED
      BY <1>0, <3>1, <3>2
  <2>6. f[1] = p /\ In(f) = Ahead(s, p) /\ Range(f) = In(f)
    <3>1. f[1] = p
      BY <2>1, <2>2
    <3>2. Len(f) = k
      BY <2>2, <2>3
    <3>3. ASSUME NEW n \in In(f) PROVE n \in Ahead(s, p)
      <4>1. PICK a \in 1 .. k : n = f[a]
        BY <3>2 DEF In
      <4>2. i + a - 1 \in 1 .. Len(s) /\ i <= i + a - 1 /\ n = s[i + a - 1]
        BY <2>2, <4>1
      <4> HIDE DEF f, k
      <4> QED
        BY <1>0, <2>1, <4>2 DEF Ahead
    <3>4. ASSUME NEW n \in Ahead(s, p) PROVE n \in In(f)
      <4>1. PICK a, b \in 1 .. Len(s) : a <= b /\ s[a] = p /\ s[b] = n
        BY DEF Ahead
      <4>2. a = i
        BY <1>0, <2>1, <4>1
      <4>3. b - i + 1 \in 1 .. k /\ f[b - i + 1] = n
        BY <4>1, <4>2, <2>2
      <4> HIDE DEF f, k
      <4> QED
        BY <3>2, <4>3 DEF In
    <3>5. Range(f) = In(f)
      BY <3>2, <2>3 DEF Range, In
    <3> QED
      BY <3>1, <3>3, <3>4, <3>5
  <2> HIDE DEF f, k
  <2>7. Len(f) = k /\ Path(links, f)
    BY <2>2, <2>3, <2>4, <2>5, PathOfFunction
  <2>8. FirstOf(f) = p
    BY <2>2, <2>6, <2>7 DEF FirstOf
  <2>9. ChainIn(links, p) = f
    BY <2>7, <2>8, ChainIsPath
  <2> QED
    BY <1>0, <2>1, <2>6, <2>7, <2>9 DEF k
<1> QED
  BY <1>1, <1>2

\* How Ahead goes with the links.
LEMMA AheadFacts ==
  ASSUME NEW links, NEW s, Path(links, s), NEW p \in In(s)
  PROVE  /\ Ahead(s, p) \subseteq In(s)
         /\ p \in Ahead(s, p)
         /\ LastOf(s) \in Ahead(s, p)
         /\ links[p].ptr = Null <=> p = LastOf(s)
         /\ p = LastOf(s) => Ahead(s, p) = {p}
         /\ p # LastOf(s) => /\ links[p].ptr \in In(s)
                             /\ Ahead(s, p) = {p} \cup Ahead(s, links[p].ptr)
                             /\ p \notin Ahead(s, links[p].ptr)
<1>0. /\ Len(s) \in Nat /\ s \in [1 .. Len(s) -> Nodes] /\ Null \notin Nodes
      /\ \A i, j \in 1 .. Len(s) : s[i] = s[j] => i = j
      /\ \A i \in 1 .. Len(s) : links[s[i]].ptr = IF i = Len(s) THEN Null ELSE s[i + 1]
  BY PathFacts, ListAssumption DEF Path
<1>1. PICK i \in 1 .. Len(s) : s[i] = p
  BY DEF In
<1>2. Len(s) # 0 /\ s # <<>> /\ LastOf(s) = s[Len(s)] /\ Len(s) \in 1 .. Len(s)
  BY <1>0, <1>1 DEF LastOf
<1>3. Ahead(s, p) = {s[j] : j \in i .. Len(s)}
  BY <1>0, <1>1 DEF Ahead
<1>4. p = LastOf(s) <=> i = Len(s)
  BY <1>0, <1>1, <1>2
<1>5. links[p].ptr = IF i = Len(s) THEN Null ELSE s[i + 1]
  BY <1>0, <1>1
<1>6. i # Len(s) => s[i + 1] \in Nodes /\ i + 1 \in 1 .. Len(s)
  BY <1>0, <1>1
<1>7. /\ Ahead(s, p) \subseteq In(s) /\ p \in Ahead(s, p) /\ LastOf(s) \in Ahead(s, p)
      /\ links[p].ptr = Null <=> p = LastOf(s)
  BY <1>0, <1>1, <1>2, <1>3, <1>4, <1>5, <1>6 DEF In
<1>8. p = LastOf(s) => Ahead(s, p) = {p}
  BY <1>0, <1>1, <1>3, <1>4
<1>9. CASE p # LastOf(s)
  <2>1. i # Len(s) /\ i + 1 \in 1 .. Len(s) /\ links[p].ptr = s[i + 1]
    BY <1>9, <1>4, <1>5, <1>6
  <2>2. Ahead(s, s[i + 1]) = {s[j] : j \in i + 1 .. Len(s)}
    BY <1>0, <2>1 DEF Ahead
  <2>3. links[p].ptr \in In(s)
    BY <2>1 DEF In
  <2>4. i .. Len(s) = {i} \cup (i + 1 .. Len(s))
    BY <1>0, <1>1
  <2>5. Ahead(s, p) = {p} \cup Ahead(s, links[p].ptr)
    BY <1>1, <1>3, <2>1, <2>2, <2>4
  <2>6. p \notin Ahead(s, links[p].ptr)
    BY <1>0, <1>1, <2>1, <2>2
  <2> QED
    BY <1>7, <1>8, <1>9, <2>3, <2>5, <2>6
<1> QED
  BY <1>7, <1>8, <1>9

LEMMA EmptyPath ==
  ASSUME NEW links, NEW s, Path(links, s)
  PROVE  /\ s = <<>> <=> In(s) = {}
         /\ s = <<>> <=> FirstOf(s) = Null
         /\ s = <<>> <=> LastOf(s) = Null
         /\ s # <<>> => FirstOf(s) \in In(s) /\ LastOf(s) \in In(s)
         /\ s = <<>> => \A p : Ahead(s, p) = {}
         /\ s # <<>> => \A p \in In(s) : p \in Ahead(s, FirstOf(s))
<1>0. Len(s) \in Nat /\ s \in [1 .. Len(s) -> Nodes] /\ Null \notin Nodes
  BY PathFacts, ListAssumption
<1>1. CASE s = <<>>
  BY <1>1 DEF In, FirstOf, LastOf, Ahead
<1>2. CASE s # <<>>
  <2>1. Len(s) # 0
    BY <1>0, <1>2
  <2>2. 1 \in 1 .. Len(s) /\ Len(s) \in 1 .. Len(s)
    BY <1>0, <2>1
  <2>3. \A p \in In(s) : p \in Ahead(s, s[1])
    <3> SUFFICES ASSUME NEW p \in In(s) PROVE p \in Ahead(s, s[1])
      OBVIOUS
    <3>1. PICK i \in 1 .. Len(s) : s[i] = p
      BY DEF In
    <3>2. 1 <= i /\ p \in Nodes
      BY <1>0, <3>1
    <3> QED
      BY <2>2, <3>1, <3>2 DEF Ahead
  <2> QED
    BY <1>0, <1>2, <2>2, <2>3 DEF In, FirstOf, LastOf
<1> QED
  BY <1>1, <1>2

\* A node is linked behind the last.
LinkedLast(links, new, s, n) ==
  /\ new[n].ptr = Null
  /\ s # <<>> => new[LastOf(s)].ptr = n
  /\ \A m \in In(s) : m # LastOf(s) => new[m].ptr = links[m].ptr

LEMMA AppendPath ==
  ASSUME NEW links, NEW new, NEW s, Path(links, s), NEW n \in Nodes \ In(s),
         LinkedLast(links, new, s, n)
  PROVE  /\ Path(new, Append(s, n))
         /\ Len(Append(s, n)) = Len(s) + 1
         /\ In(Append(s, n)) = In(s) \cup {n}
         /\ FirstOf(Append(s, n)) = IF s = <<>> THEN n ELSE FirstOf(s)
         /\ LastOf(Append(s, n)) = n
         /\ \A p : Ahead(s, p) \subseteq Ahead(Append(s, n), p)
<1>l. /\ new[n].ptr = Null /\ (s # <<>> => new[LastOf(s)].ptr = n)
      /\ \A m \in In(s) : m # LastOf(s) => new[m].ptr = links[m].ptr
  BY Zenon DEF LinkedLast
<1>0. Len(s) \in Nat /\ s \in [1 .. Len(s) -> Nodes] /\ s \in Seq(Nodes)
  BY PathFacts DEF Path
<1>a. \A i, j \in 1 .. Len(s) : s[i] = s[j] => i = j
  BY DEF Path
<1>b. \A i \in 1 .. Len(s) : links[s[i]].ptr = IF i = Len(s) THEN Null ELSE s[i + 1]
  BY DEF Path
<1>c. Len(s) \in Nat
  BY <1>0
<1> DEFINE f == Append(s, n)
           k == Len(s) + 1
<1>1. /\ k \in Nat /\ Len(f) = k /\ f \in [1 .. k -> Nodes]
      /\ f[k] = n /\ \A i \in 1 .. Len(s) : f[i] = s[i]
  <2>1. k \in Nat /\ f \in Seq(Nodes) /\ Len(f) = k
    BY <1>0
  <2>2. f[k] = n
    BY <1>0
  <2>3. \A i \in 1 .. Len(s) : f[i] = s[i]
    BY <1>0
  <2> HIDE DEF f, k
  <2>4. f \in [1 .. k -> Nodes]
    BY <2>1
  <2> QED
    BY <2>1, <2>2, <2>3, <2>4
<1>2. \A i \in 1 .. Len(s) : s[i] # n
  BY DEF In
<1>3. \A i, j \in 1 .. k : f[i] = f[j] => i = j
  <2> HIDE DEF f
  <2> QED
    BY <1>c, <1>a, <1>1, <1>2
<1>4. s # <<>> <=> Len(s) # 0
  BY <1>0
<1>5. ASSUME NEW i \in 1 .. k
      PROVE  new[f[i]].ptr = IF i = k THEN Null ELSE f[i + 1]
  <2> HIDE DEF f
  <2>1. CASE i = k
    BY <2>1, <1>1, <1>l
  <2>2. CASE i = Len(s)
    <3>1. LastOf(s) = s[i] /\ f[i] = s[i] /\ f[i + 1] = n /\ i # k
      BY <2>2, <1>0, <1>1, <1>4 DEF LastOf
    <3> QED
      BY <3>1, <2>2, <1>4, <1>c, <1>l
  <2>3. CASE i < Len(s)
    <3>1. /\ i \in 1 .. Len(s) /\ i + 1 \in 1 .. Len(s) /\ Len(s) \in 1 .. Len(s)
          /\ f[i] = s[i] /\ f[i + 1] = s[i + 1] /\ i # k
      BY <2>3, <1>c, <1>1
    <3>2. s[i] # LastOf(s) /\ s[i] \in In(s)
      <4>1. i # Len(s) /\ s # <<>> /\ LastOf(s) = s[Len(s)]
        BY <3>1, <2>3, <1>c, <1>4 DEF LastOf
      <4>2. s[i] # s[Len(s)]
        BY <3>1, <4>1, <1>a
      <4> QED
        BY <3>1, <4>1, <4>2 DEF In
    <3>3. new[s[i]].ptr = s[i + 1]
      <4>1. i # Len(s)
        BY <2>3, <1>c
      <4>2. links[s[i]].ptr = s[i + 1]
        BY <3>1, <4>1, <1>b
      <4> QED
        BY <3>2, <4>2, <1>l
    <3> QED
      BY <3>1, <3>3
  <2> QED
    BY <1>c, <2>1, <2>2, <2>3
<1>6. Path(new, f)
  <2> HIDE DEF f, k
  <2> QED
    BY <1>1, <1>3, <1>5, PathOfFunction
<1>7. f # <<>> /\ LastOf(f) = n /\ FirstOf(f) = IF s = <<>> THEN n ELSE FirstOf(s)
  <2> HIDE DEF f
  <2>1. f # <<>>
    BY <1>c, <1>1
  <2>2. LastOf(f) = n
    BY <2>1, <1>1 DEF LastOf
  <2>3. FirstOf(f) = f[1]
    BY <2>1 DEF FirstOf
  <2>4. s = <<>> => f[1] = n
    BY <1>c, <1>1, <1>4
  <2>5. s # <<>> => f[1] = s[1]
    BY <1>c, <1>1, <1>4
  <2> QED
    BY <2>1, <2>2, <2>3, <2>4, <2>5 DEF FirstOf
<1>8. In(f) = In(s) \cup {n}
  <2> HIDE DEF f
  <2>1. 1 .. k = (1 .. Len(s)) \cup {k}
    BY <1>c
  <2> QED
    BY <2>1, <1>1 DEF In
<1>9. \A p : Ahead(s, p) \subseteq Ahead(f, p)
  <2> HIDE DEF f
  <2>1. 1 .. Len(s) \subseteq 1 .. Len(f)
    BY <1>c, <1>1
  <2> QED
    BY <2>1, <1>1 DEF Ahead
<1> QED
  BY <1>1, <1>6, <1>7, <1>8, <1>9

\* A node is linked before the first.
LEMMA PrependPath ==
  ASSUME NEW links, NEW s, Path(links, s), NEW n \in Nodes \ In(s),
         links[n].ptr = FirstOf(s)
  PROVE  /\ Path(links, <<n>> \o s)
         /\ Len(<<n>> \o s) = Len(s) + 1
         /\ In(<<n>> \o s) = In(s) \cup {n}
         /\ FirstOf(<<n>> \o s) = n
         /\ LastOf(<<n>> \o s) = IF s = <<>> THEN n ELSE LastOf(s)
         /\ \A p : Ahead(s, p) \subseteq Ahead(<<n>> \o s, p)
<1>0. Len(s) \in Nat /\ s \in [1 .. Len(s) -> Nodes] /\ s \in Seq(Nodes)
  BY PathFacts DEF Path
<1>a. \A i, j \in 1 .. Len(s) : s[i] = s[j] => i = j
  BY DEF Path
<1>b. \A i \in 1 .. Len(s) : links[s[i]].ptr = IF i = Len(s) THEN Null ELSE s[i + 1]
  BY DEF Path
<1>c. Len(s) \in Nat
  BY <1>0
<1> DEFINE f == <<n>> \o s
           k == Len(s) + 1
<1>1. /\ k \in Nat /\ Len(f) = k /\ f \in [1 .. k -> Nodes]
      /\ f[1] = n /\ \A i \in 1 .. Len(s) : f[i + 1] = s[i]
  <2>0. <<n>> \in Seq(Nodes) /\ Len(<<n>>) = 1 /\ <<n>>[1] = n
    OBVIOUS
  <2>1. k \in Nat /\ f \in Seq(Nodes) /\ Len(f) = k
    BY <1>0, <2>0
  <2>2. f[1] = n
    BY <1>0, <2>0
  <2>3. \A i \in 1 .. Len(s) : f[i + 1] = s[i]
    BY <1>0, <2>0
  <2> HIDE DEF f, k
  <2>4. f \in [1 .. k -> Nodes]
    BY <2>1
  <2> QED
    BY <2>1, <2>2, <2>3, <2>4
<1>2. \A i \in 1 .. Len(s) : s[i] # n /\ s[i] \in In(s)
  BY DEF In
<1> HIDE DEF f
<1>d. \A i \in 2 .. k : i - 1 \in 1 .. Len(s) /\ f[i] = s[i - 1]
  <2> SUFFICES ASSUME NEW i \in 2 .. k PROVE i - 1 \in 1 .. Len(s) /\ f[i] = s[i - 1]
    OBVIOUS
  <2>1. i - 1 \in 1 .. Len(s) /\ (i - 1) + 1 = i
    BY <1>c
  <2> QED
    BY <2>1, <1>1
<1>e. \A i \in 1 .. k : i # 1 => i \in 2 .. k
  BY <1>c
<1>3. \A i, j \in 1 .. k : f[i] = f[j] => i = j
  <2> SUFFICES ASSUME NEW i \in 1 .. k, NEW j \in 1 .. k, f[i] = f[j] PROVE i = j
    OBVIOUS
  <2>1. CASE i # 1 /\ j # 1
    <3>1. i - 1 = j - 1
      BY <2>1, <1>a, <1>d, <1>e
    <3> QED
      BY <3>1
  <2>2. CASE i = 1 \/ j = 1
    BY <2>2, <1>1, <1>2, <1>d, <1>e
  <2> QED
    BY <2>1, <2>2
<1>4. s # <<>> <=> Len(s) # 0
  BY <1>0
<1>5. ASSUME NEW i \in 1 .. k
      PROVE  links[f[i]].ptr = IF i = k THEN Null ELSE f[i + 1]
  <2>1. CASE i = 1
    <3>1. links[f[i]].ptr = FirstOf(s)
      BY <2>1, <1>1
    <3>2. CASE s = <<>>
      <4>1. i = k /\ FirstOf(s) = Null
        BY <3>2, <2>1, <1>4, <1>c DEF FirstOf
      <4> QED
        BY <3>1, <4>1
    <3>3. CASE s # <<>>
      <4>1. i # k /\ FirstOf(s) = s[1] /\ 1 \in 1 .. Len(s)
        BY <3>3, <2>1, <1>4, <1>c DEF FirstOf
      <4>2. f[i + 1] = s[1]
        BY <4>1, <2>1, <1>1
      <4> QED
        BY <3>1, <4>1, <4>2
    <3> QED
      BY <3>2, <3>3
  <2>2. CASE i # 1
    <3> DEFINE h == i - 1
    <3>1. h \in 1 .. Len(s) /\ f[i] = s[h] /\ (i = k <=> h = Len(s)) /\ h + 1 = i
      BY <2>2, <1>c, <1>d, <1>e
    <3> HIDE DEF h
    <3>2. links[f[i]].ptr = IF h = Len(s) THEN Null ELSE s[h + 1]
      BY <3>1, <1>2, <1>b
    <3>3. h # Len(s) => h + 1 \in 1 .. Len(s) /\ f[i + 1] = s[h + 1]
      BY <3>1, <1>c, <1>1
    <3> QED
      BY <3>1, <3>2, <3>3
  <2> QED
    BY <2>1, <2>2
<1>6. Path(links, f)
  <2> HIDE DEF k
  <2> QED
    BY <1>1, <1>3, <1>5, PathOfFunction
<1>7. FirstOf(f) = n /\ LastOf(f) = IF s = <<>> THEN n ELSE LastOf(s)
  <2>1. f # <<>>
    BY <1>c, <1>1
  <2>2. s = <<>> => f[k] = n
    BY <1>1, <1>4, <1>c
  <2>3. s # <<>> => f[k] = s[Len(s)]
    <3>1. s # <<>> => Len(s) \in 1 .. Len(s)
      BY <1>4, <1>c
    <3> QED
      BY <3>1, <1>1
  <2> QED
    BY <2>1, <2>2, <2>3, <1>1 DEF FirstOf, LastOf
<1>8. In(f) = In(s) \cup {n}
  <2>1. ASSUME NEW m \in In(f) PROVE m \in In(s) \cup {n}
    <3>1. PICK i \in 1 .. k : m = f[i]
      BY <1>1 DEF In
    <3> QED
      BY <3>1, <1>1, <1>2, <1>d, <1>e
  <2>2. ASSUME NEW m \in In(s) PROVE m \in In(f)
    <3>1. PICK i \in 1 .. Len(s) : m = s[i]
      BY DEF In
    <3>2. i + 1 \in 1 .. k /\ f[i + 1] = m
      BY <3>1, <1>1, <1>c
    <3> QED
      BY <3>2, <1>1 DEF In
  <2>3. n \in In(f)
    <3>1. 1 \in 1 .. k
      BY <1>c
    <3> QED
      BY <3>1, <1>1 DEF In
  <2> QED
    BY <2>1, <2>2, <2>3
<1>9. ASSUME NEW p, NEW m \in Ahead(s, p) PROVE m \in Ahead(f, p)
  <2>1. PICK i, j \in 1 .. Len(s) : m \in Nodes /\ i <= j /\ s[i] = p /\ s[j] = m
    BY DEF Ahead
  <2>2. /\ i + 1 \in 1 .. k /\ j + 1 \in 1 .. k /\ i + 1 <= j + 1
        /\ f[i + 1] = p /\ f[j + 1] = m
    BY <2>1, <1>1, <1>c
  <2> HIDE DEF k
  <2> QED
    BY <2>1, <2>2, <1>1 DEF Ahead
<1>10. \A p : Ahead(s, p) \subseteq Ahead(f, p)
  BY <1>9
<1> QED
  BY <1>1, <1>6, <1>7, <1>8, <1>10 DEF f

\* The places of a sequence of n without place i.
Skip(i, a) == IF a < i THEN a ELSE a + 1

LEMMA Skipping ==
  ASSUME NEW n \in Nat, NEW i \in 1 .. n
  PROVE  /\ n - 1 \in Nat
         /\ \A a \in 1 .. n - 1 : Skip(i, a) \in 1 .. n /\ Skip(i, a) # i
         /\ \A a, b \in 1 .. n - 1 : Skip(i, a) = Skip(i, b) => a = b
         /\ \A c \in 1 .. n : c # i => \E a \in 1 .. n - 1 : Skip(i, a) = c
         /\ \A a \in 1 .. n - 1 : a = i - 1 =>
              /\ Skip(i, a) = i - 1 /\ Skip(i, a + 1) = i + 1
              /\ a = n - 1 <=> i = n
              /\ i # 1
         /\ \A a \in 1 .. n - 1 : a # i - 1 =>
              /\ Skip(i, a) # i - 1 /\ Skip(i, a + 1) = Skip(i, a) + 1
              /\ a = n - 1 <=> Skip(i, a) = n
         /\ n - 1 = 0 => i = 1 /\ n = 1
         /\ n - 1 # 0 => /\ 1 \in 1 .. n - 1 /\ n - 1 \in 1 .. n - 1 /\ n # 1
                         /\ Skip(i, 1) = IF i = 1 THEN 2 ELSE 1
                         /\ Skip(i, n - 1) = IF i = n THEN i - 1 ELSE n
                         /\ i = n => i # 1
<1>1. ASSUME NEW c \in 1 .. n, c # i PROVE \E a \in 1 .. n - 1 : Skip(i, a) = c
  <2>1. CASE c < i
    <3>1. c \in 1 .. n - 1 /\ Skip(i, c) = c
      BY <2>1 DEF Skip
    <3> QED
      BY <3>1
  <2>2. CASE c > i
    <3>1. c - 1 \in 1 .. n - 1 /\ Skip(i, c - 1) = c
      BY <2>2 DEF Skip
    <3> QED
      BY <3>1
  <2> QED
    BY <1>1, <2>1, <2>2
<1>2. \A c \in 1 .. n : c # i => \E a \in 1 .. n - 1 : Skip(i, a) = c
  BY <1>1
<1> QED
  BY <1>2 DEF Skip

\* A node is taken out: the link to it goes on to the next.
Bypass(links, new, s, i) ==
  /\ i # 1 => new[s[i - 1]].ptr = links[s[i]].ptr
  /\ \A j \in 1 .. Len(s) : j # i - 1 => new[s[j]].ptr = links[s[j]].ptr

Shortened(links, new, s, i, s2) ==
  /\ Path(new, s2)
  /\ Len(s2) = Len(s) - 1
  /\ In(s2) = In(s) \ {s[i]}
  /\ FirstOf(s2) = IF i = 1 THEN links[s[1]].ptr ELSE FirstOf(s)
  /\ LastOf(s2) = IF i # Len(s) THEN LastOf(s) ELSE IF i = 1 THEN Null ELSE s[i - 1]

LEMMA RemovePath ==
  ASSUME NEW links, NEW new, NEW s, Path(links, s), NEW i \in 1 .. Len(s),
         Bypass(links, new, s, i)
  PROVE  Shortened(links, new, s, i, RemoveAt(s, i))
<1>0. Len(s) \in Nat /\ s \in [1 .. Len(s) -> Nodes] /\ s \in Seq(Nodes)
  BY PathFacts DEF Path
<1>a. \A a, b \in 1 .. Len(s) : s[a] = s[b] => a = b
  BY DEF Path
<1>b. \A a \in 1 .. Len(s) : links[s[a]].ptr = IF a = Len(s) THEN Null ELSE s[a + 1]
  BY DEF Path
<1>c. Len(s) \in Nat /\ i \in 1 .. Len(s)
  BY <1>0
<1> DEFINE f == RemoveAt(s, i)
           k == Len(s) - 1
<1>1. /\ k \in Nat /\ Len(f) = k /\ f \in [1 .. k -> Nodes]
      /\ \A a \in 1 .. k : f[a] = s[Skip(i, a)]
  <2> DEFINE left == SubSeq(s, 1, i - 1)
             right == SubSeq(s, i + 1, Len(s))
  <2>1. left \in Seq(Nodes) /\ Len(left) = i - 1 /\ \A a \in 1 .. i - 1 : left[a] = s[a]
    BY <1>0, <1>c
  <2>2. /\ right \in Seq(Nodes) /\ Len(right) = Len(s) - i
        /\ \A a \in 1 .. Len(s) - i : right[a] = s[i + a]
    <3>1. i + 1 \in Int /\ Len(s) \in Int /\ \A a \in i + 1 .. Len(s) : s[a] \in Nodes
      BY <1>0, <1>c
    <3>2. /\ right \in Seq(Nodes)
          /\ Len(right) = IF i + 1 <= Len(s) THEN Len(s) - (i + 1) + 1 ELSE 0
          /\ \A a \in 1 .. Len(s) - (i + 1) + 1 : right[a] = s[i + 1 + a - 1]
      BY <3>1, SubSeqProperties
    <3> HIDE DEF right
    <3>3. Len(right) = Len(s) - i /\ Len(s) - (i + 1) + 1 = Len(s) - i
      BY <3>2, <1>c
    <3>4. \A a \in 1 .. Len(s) - i : i + 1 + a - 1 = i + a
      BY <1>c
    <3> QED
      BY <3>2, <3>3, <3>4
  <2>3. f = left \o right
    BY DEF RemoveAt
  <2> HIDE DEF f, left, right
  <2>4. /\ f \in Seq(Nodes) /\ Len(f) = Len(left) + Len(right)
        /\ \A a \in 1 .. Len(left) + Len(right) :
             f[a] = IF a <= Len(left) THEN left[a] ELSE right[a - Len(left)]
    BY <2>1, <2>2, <2>3, ConcatProperties
  <2>5. k \in Nat /\ Len(f) = k
    BY <2>1, <2>2, <2>4, <1>c
  <2>6. ASSUME NEW a \in 1 .. k PROVE f[a] = s[Skip(i, a)]
    <3>1. CASE a < i
      <4>1. a \in 1 .. i - 1 /\ a \in 1 .. Len(left) /\ a \in 1 .. Len(left) + Len(right)
        BY <3>1, <1>c, <2>1, <2>2
      <4>2. f[a] = left[a]
        BY <4>1, <2>1, <2>4
      <4> QED
        BY <3>1, <4>1, <4>2, <2>1 DEF Skip
    <3>2. CASE ~ (a < i)
      <4> DEFINE b == a - (i - 1)
      <4>1. b \in 1 .. Len(s) - i /\ a = Len(left) + b /\ i + b = a + 1
        BY <3>2, <1>c, <2>1, <2>2
      <4>2. f[a] = right[b]
        <5>1. a \in 1 .. Len(left) + Len(right) /\ ~ (a <= Len(left)) /\ a - Len(left) = b
          BY <3>2, <1>c, <2>1, <2>2
        <5> HIDE DEF b
        <5> QED
          BY <5>1, <2>4
      <4> HIDE DEF b
      <4> QED
        BY <3>2, <4>1, <4>2, <2>2 DEF Skip
    <3> QED
      BY <3>1, <3>2
  <2>7. f \in [1 .. k -> Nodes]
    <3> HIDE DEF k
    <3> QED
      BY <2>4, <2>5
  <2> HIDE DEF k
  <2> QED
    BY <2>5, <2>6, <2>7
<1>2. Len(s) = k + 1 /\ k = Len(s) - 1
  BY <1>c
<1> HIDE DEF f
<1>3. ASSUME NEW a \in 1 .. k, NEW b \in 1 .. k, f[a] = f[b] PROVE a = b
  <2>1. f[a] = s[Skip(i, a)] /\ f[b] = s[Skip(i, b)]
    BY <1>1
  <2>2. Skip(i, a) \in 1 .. Len(s) /\ Skip(i, b) \in 1 .. Len(s)
    BY <1>c, Skipping
  <2>3. Skip(i, a) = Skip(i, b)
    BY <2>1, <2>2, <1>3, <1>a, Zenon
  <2> QED
    BY <2>3, <1>c, Skipping
<1>5. ASSUME NEW a \in 1 .. k
      PROVE  new[f[a]].ptr = IF a = k THEN Null ELSE f[a + 1]
  <2>1. f[a] = s[Skip(i, a)] /\ Skip(i, a) \in 1 .. Len(s)
    BY <1>1, <1>c, Skipping
  <2>2. a # k => f[a + 1] = s[Skip(i, a + 1)]
    <3>1. a # k => a + 1 \in 1 .. k
      BY <1>1
    <3> HIDE DEF k
    <3> QED
      BY <3>1, <1>1
  <2>3. CASE a = i - 1
    <3>1. Skip(i, a) = i - 1 /\ Skip(i, a + 1) = i + 1 /\ i # 1 /\ (a = k <=> i = Len(s))
      BY <2>3, <1>c, Skipping
    <3>2. new[f[a]].ptr = links[s[i]].ptr
      BY <2>1, <3>1 DEF Bypass
    <3>3. links[s[i]].ptr = IF i = Len(s) THEN Null ELSE s[i + 1]
      BY <1>b
    <3> HIDE DEF k
    <3> QED
      BY <2>2, <3>1, <3>2, <3>3
  <2>4. CASE a # i - 1
    <3> DEFINE c == Skip(i, a)
    <3>1. c \in 1 .. Len(s) /\ c # i - 1 /\ (a = k <=> c = Len(s)) /\ Skip(i, a + 1) = c + 1
      <4>1. Skip(i, a) \in 1 .. Len(s)
        BY <1>c, Skipping
      <4>2. /\ Skip(i, a) # i - 1 /\ Skip(i, a + 1) = Skip(i, a) + 1
            /\ a = Len(s) - 1 <=> Skip(i, a) = Len(s)
        BY <2>4, <1>c DEF Skip
      <4> QED
        BY <4>1, <4>2
    <3>2. f[a] = s[c]
      BY <2>1
    <3> HIDE DEF c, k
    <3>3. new[f[a]].ptr = links[s[c]].ptr
      BY <3>1, <3>2 DEF Bypass
    <3>4. links[s[c]].ptr = IF c = Len(s) THEN Null ELSE s[c + 1]
      BY <3>1, <1>b
    <3> QED
      BY <2>2, <3>1, <3>3, <3>4
  <2> QED
    BY <2>3, <2>4
<1> HIDE DEF k
<1>6. Path(new, f)
  BY <1>1, <1>3, <1>5, PathOfFunction
<1>4. f = <<>> <=> k = 0
  BY <1>1
<1>7. FirstOf(f) = IF i = 1 THEN links[s[1]].ptr ELSE FirstOf(s)
  <2>0. s # <<>> /\ 1 \in 1 .. Len(s)
    BY <1>c
  <2>1. links[s[1]].ptr = (IF Len(s) = 1 THEN Null ELSE s[2]) /\ FirstOf(s) = s[1]
    <3>1. links[s[1]].ptr = IF 1 = Len(s) THEN Null ELSE s[1 + 1]
      BY <2>0, <1>b
    <3> QED
      BY <3>1, <2>0 DEF FirstOf
  <2>2. CASE k = 0
    <3>1. i = 1 /\ Len(s) = 1
      BY <2>2, <1>2, <1>c, Skipping
    <3>2. f = <<>>
      BY <2>2, <1>4
    <3> QED
      BY <3>1, <3>2, <2>1 DEF FirstOf
  <2>3. CASE k # 0
    <3>1. 1 \in 1 .. k /\ Len(s) # 1 /\ Skip(i, 1) = IF i = 1 THEN 2 ELSE 1
      BY <2>3, <1>2, <1>c, Skipping
    <3>2. FirstOf(f) = f[1]
      BY <2>3, <1>4 DEF FirstOf
    <3>3. f[1] = s[Skip(i, 1)]
      BY <3>1, <1>1
    <3> QED
      BY <2>1, <3>1, <3>2, <3>3
  <2> QED
    BY <2>2, <2>3
<1>8. LastOf(f) = IF i # Len(s) THEN LastOf(s) ELSE IF i = 1 THEN Null ELSE s[i - 1]
  <2>0. s # <<>>
    BY <1>c
  <2>1. LastOf(s) = s[Len(s)]
    BY <2>0 DEF LastOf
  <2>2. CASE k = 0
    <3>1. i = 1 /\ Len(s) = 1
      BY <2>2, <1>2, <1>c, Skipping
    <3>2. f = <<>>
      BY <2>2, <1>4
    <3> QED
      BY <3>1, <3>2 DEF LastOf
  <2>3. CASE k # 0
    <3>1. /\ k \in 1 .. k
          /\ Skip(i, k) = IF i = Len(s) THEN i - 1 ELSE Len(s)
          /\ i = Len(s) => i # 1
      BY <2>3, <1>2, <1>c, Skipping
    <3>2. LastOf(f) = f[k]
      BY <2>3, <1>4, <1>1 DEF LastOf
    <3>3. f[k] = s[Skip(i, k)]
      BY <3>1, <1>1
    <3> QED
      BY <2>1, <3>1, <3>2, <3>3
  <2> QED
    BY <2>2, <2>3
<1>9. In(f) = In(s) \ {s[i]}
  <2>1. ASSUME NEW m \in In(f) PROVE m \in In(s) \ {s[i]}
    <3>1. PICK a \in 1 .. k : m = f[a]
      BY <1>1 DEF In
    <3>2. m = s[Skip(i, a)] /\ Skip(i, a) \in 1 .. Len(s) /\ Skip(i, a) # i
      BY <3>1, <1>1, <1>2, <1>c, Skipping
    <3> QED
      BY <3>2, <1>a DEF In
  <2>2. ASSUME NEW m \in In(s), m # s[i] PROVE m \in In(f)
    <3>1. PICK c \in 1 .. Len(s) : m = s[c]
      BY DEF In
    <3>2. c # i
      BY <3>1, <2>2
    <3>3. PICK a \in 1 .. k : Skip(i, a) = c
      BY <3>2, <1>2, <1>c, Skipping
    <3> QED
      BY <3>1, <3>3, <1>1 DEF In
  <2> QED
    BY <2>1, <2>2
<1> QED
  BY <1>1, <1>6, <1>7, <1>8, <1>9 DEF f, k, Shortened

-----------------------------------------------------------------------------
(* Reading the list in a state of the invariant *)

LEMMA ListedIs == \A s : ListShape(s) => Listed = s
<1> SUFFICES ASSUME NEW s, ListShape(s) PROVE Listed = s
  OBVIOUS
<1>1. Path(next, s) /\ HeadRight(s) /\ \A t \in Threads : AppendKnows(t, s)
  BY DEF ListShape, Knows
<1>2. \A t \in Threads : at[t] \in {"loadHead", "setHead"} =>
        head.ptr = Null /\ loc[t].node = FirstOf(s)
  BY <1>1 DEF AppendKnows
<1>3. First = FirstOf(s)
  <2>1. CASE head.ptr = Null /\ Claiming # {}
    <3>1. \A n \in Claiming : n = FirstOf(s)
      BY <1>2 DEF Claiming
    <3>2. (CHOOSE n \in Claiming : TRUE) \in Claiming
      BY <2>1
    <3> QED
      BY <2>1, <3>1, <3>2 DEF First
  <2>2. CASE ~ (head.ptr = Null /\ Claiming # {})
    <3>1. First = head.ptr
      BY <2>2 DEF First
    <3>2. \A t \in Threads : at[t] \notin {"loadHead", "setHead"}
      BY <2>2, <1>2 DEF Claiming
    <3> QED
      BY <1>1, <3>1, <3>2 DEF HeadRight
  <2> QED
    BY <2>1, <2>2
<1>4. Listed = ChainIn(next, FirstOf(s))
  BY <1>3 DEF Listed, Chain
<1> QED
  BY <1>1, <1>4, ChainIsPath

LEMMA ListedIsNext == (\A s : ListShape(s) => Listed = s)'
BY ListedIs, PTL

-----------------------------------------------------------------------------
(* Types *)

LEMMA RefTypes ==
  /\ \A p \in Pointers, tag \in Nat :
       Ref(p, tag) \in Refs /\ Ref(p, tag).ptr = p
  /\ NullRef \in Refs /\ NullRef.ptr = Null
  /\ \A r \in Refs : r.ptr \in Pointers /\ r.tag \in Nat
  /\ Null \in Pointers /\ Nodes \subseteq Pointers
BY ListAssumption DEF Ref, Refs, NullRef, Pointers

LEMMA BlankType == Blank \in Locals /\ Blank.op = "none"
BY RefTypes, ListAssumption DEF Blank, Locals, Ops

\* The steps of t change nothing of other threads.
Others(t) ==
  \A u \in Threads : u # t => at'[u] = at[u] /\ loc'[u] = loc[u] /\ due'[u] = due[u]

Moved(t, place, l, d) ==
  /\ at' = [at EXCEPT ![t] = place]
  /\ loc' = [loc EXCEPT ![t] = l]
  /\ due' = [due EXCEPT ![t] = d]

LEMMA MovedFacts ==
  ASSUME Typed, NEW t \in Threads, NEW place, NEW l, NEW d, Moved(t, place, l, d)
  PROVE  /\ at'[t] = place /\ loc'[t] = l /\ due'[t] = d /\ Others(t)
         /\ place \in Places => at' \in [Threads -> Places]
         /\ l \in Locals => loc' \in [Threads -> Locals]
         /\ d \in SUBSET Nodes => due' \in [Threads -> SUBSET Nodes]
BY DEF Typed, Moved, Others

-----------------------------------------------------------------------------
(* Which calls are under way with which *)

LEMMA PlacesOfOps ==
  ASSUME Typed, NEW u \in Threads, Calls(u)
  PROVE  /\ at[u] \in AppendPlaces \ {"count"} => loc[u].op \in Appends
         /\ at[u] \in PrependPlaces \ {"count"} => loc[u].op \in Prepends
         /\ at[u] = "count" => loc[u].op \in Appends \cup Prepends
         /\ at[u] \in RemovalPlaces => loc[u].op \in Removals
         /\ at[u] \in FindPlaces => loc[u].op \in Finds
         /\ at[u] = "idle" <=> loc[u].op = "none"
<1>1. loc[u].op \in Ops
  BY DEF Typed, Locals
<1>2. loc[u].op \in Appends \cup Prepends \cup Removals \cup Finds \cup {"none"}
  BY <1>1 DEF Ops, Appends, Prepends, Removals, Finds
<1> QED
  BY <1>2 DEF Calls, AppendPlaces, PrependPlaces, RemovalPlaces, FindPlaces

\* The calls that may be under way with that of t.
Company(t, op) ==
  \A u \in Threads : u # t =>
    /\ loc[u].op # "none" => \/ {op, loc[u].op} \subseteq Appends \cup Finds
                             \/ {op, loc[u].op} \subseteq Prepends \cup Finds
    /\ at[u] \notin RemovalPlaces
    /\ op \in Appends => at[u] \notin PrependPlaces \ {"count"}
    /\ op \in Prepends => at[u] \notin AppendPlaces \ {"count"}
    /\ op \in Removals => at[u] = "idle"

LEMMA CompanyFrom ==
  ASSUME NEW s, InvOf(s), NEW t \in Threads, NEW op, op # "none",
         \A u \in Threads : u # t =>
           (loc[u].op # "none" => \/ {op, loc[u].op} \subseteq Appends \cup Finds
                                  \/ {op, loc[u].op} \subseteq Prepends \cup Finds)
  PROVE  Company(t, op)
<1> SUFFICES ASSUME NEW u \in Threads, u # t
             PROVE  /\ at[u] \notin RemovalPlaces
                    /\ op \in Appends => at[u] \notin PrependPlaces \ {"count"}
                    /\ op \in Prepends => at[u] \notin AppendPlaces \ {"count"}
                    /\ op \in Removals => at[u] = "idle"
  BY DEF Company
<1>1. Typed /\ Calls(u)
  BY DEF InvOf, ListShape
<1>2. loc[u].op # "none" => \/ {op, loc[u].op} \subseteq Appends \cup Finds
                            \/ {op, loc[u].op} \subseteq Prepends \cup Finds
  OBVIOUS
<1>3. /\ at[u] \in AppendPlaces \ {"count"} => loc[u].op \in Appends
      /\ at[u] \in PrependPlaces \ {"count"} => loc[u].op \in Prepends
      /\ at[u] \in RemovalPlaces => loc[u].op \in Removals
      /\ at[u] = "idle" <=> loc[u].op = "none"
  BY <1>1, PlacesOfOps
<1> HIDE DEF Company
<1> QED
  BY <1>2, <1>3 DEF Appends, Prepends, Removals, Finds

LEMMA Accompanied ==
  ASSUME NEW s, InvOf(s), NEW t \in Threads, loc[t].op # "none"
  PROVE  Company(t, loc[t].op)
<1>1. \A u \in Threads : u # t => Apart(t, u)
  BY DEF InvOf, ListShape
<1>2. \A u \in Threads : u # t =>
           (loc[u].op # "none" => \/ {loc[t].op, loc[u].op} \subseteq Appends \cup Finds
                                  \/ {loc[t].op, loc[u].op} \subseteq Prepends \cup Finds)
  BY <1>1 DEF Apart, Together2
<1> QED
  BY <1>2, CompanyFrom

LEMMA StartsAccompanied ==
  ASSUME GroupsApart, NEW s, InvOf(s), NEW t \in Threads, at[t] = "idle",
         NEW op \in Ops \ {"none"}, MayStart(op)
  PROVE  Company(t, op)
<1>1. ASSUME NEW u \in Threads, u # t, loc[u].op # "none"
      PROVE  \/ {op, loc[u].op} \subseteq Appends \cup Finds
             \/ {op, loc[u].op} \subseteq Prepends \cup Finds
  <2>1. loc[u].op \in Ops /\ at[u] # "idle"
    BY <1>1 DEF InvOf, Typed, Locals, ListShape, Calls
  <2>2. loc[u].op \in Running
    BY <2>1 DEF Running
  <2>3. PICK group \in Together : Running \union {op} \subseteq group
    BY <2>2 DEF MayStart
  <2>4. {op, loc[u].op} \subseteq group
    BY <2>2, <2>3
  <2>5. group \subseteq Appends \cup Mild \/ group \subseteq Prepends \cup Mild
    BY DEF GroupsApart
  <2>6. "set_max_retries" \notin Ops
    BY DEF Ops
  <2> QED
    BY <2>1, <2>4, <2>5, <2>6 DEF Mild
<1> QED
  BY <1>1, CompanyFrom

LEMMA StaysApart ==
  ASSUME NEW s, InvOf(s), NEW t \in Threads, Others(t),
         \/ loc'[t].op = "none"
         \/ Company(t, loc'[t].op),
         at'[t] \in Unlinked \cup Uncounted =>
           \A u \in Threads : u # t /\ at[u] \in Unlinked \cup Uncounted =>
             loc'[t].node # loc[u].node
  PROVE  \A u, v \in Threads : u # v => Apart(u, v)'
<1> SUFFICES ASSUME NEW u \in Threads, NEW v \in Threads, u # v
             PROVE  Apart(u, v)'
  OBVIOUS
<1>1. Apart(u, v)
  BY DEF InvOf, ListShape
<1>2. CASE u # t /\ v # t
  <2>1. at'[u] = at[u] /\ loc'[u] = loc[u] /\ at'[v] = at[v] /\ loc'[v] = loc[v]
    BY <1>2 DEF Others
  <2> QED
    BY <1>1, <2>1 DEF Apart, Together2
<1>3. ASSUME NEW w \in Threads, w # t
      PROVE  Apart(t, w)'
  <2>1. at'[w] = at[w] /\ loc'[w] = loc[w]
    BY <1>3 DEF Others
  <2>2. "none" \notin {loc'[t].op, loc'[w].op} => Together2(t, w)'
    BY <1>3, <2>1 DEF Company, Together2
  <2> QED
    BY <1>3, <2>1, <2>2 DEF Apart
<1>4. \A w \in Threads : Apart(t, w)' => Apart(w, t)'
  BY DEF Apart, Together2
<1> QED
  BY <1>2, <1>3, <1>4

-----------------------------------------------------------------------------
(* Counting *)

Adding == {t \in Threads : at[t] \in Uncounted}
Taking == {t \in Threads : at[t] \in Uncounting}

\* Each thread that has added a node and not counted it has a node of the list of its own.
LEMMA CountsFinite ==
  ASSUME NEW s, InvOf(s)
  PROVE  /\ IsFiniteSet(Adding) /\ Cardinality(Adding) \in 0 .. Len(s)
         /\ IsFiniteSet(Taking) /\ Cardinality(Taking) \in {0, 1}
         /\ Cardinality(Taking) = 1 => Len(s) < Cardinality(Nodes)
<1>1. Path(next, s)
  BY DEF InvOf, ListShape
<1>2. Len(s) \in Nat /\ IsFiniteSet(In(s)) /\ Cardinality(In(s)) = Len(s) /\ In(s) \subseteq Nodes
  BY <1>1, PathFacts, NodesFinite, FS_Subset
<1>3. IsFiniteSet(Adding) /\ Cardinality(Adding) <= Len(s)
  <2> DEFINE f == [t \in Adding |-> loc[t].node]
  <2>1. \A t \in Adding : f[t] \in In(s)
    BY DEF Adding, InvOf, ListShape, Adds
  <2>2. \A t, u \in Adding : f[t] = f[u] => t = u
    BY DEF Adding, InvOf, ListShape, Apart
  <2>3. f \in Injection(Adding, In(s))
    <3>1. f \in [Adding -> In(s)] BY <2>1
    <3> HIDE DEF f
    <3> QED BY <3>1, <2>2 DEF Injection, IsInjective
  <2> QED
    BY <2>3, <1>2, FS_Injection
<1>4. Cardinality(Adding) \in Nat
  BY <1>3, FS_CardinalityType
<1>5. \A t, u \in Taking : t = u
  <2> SUFFICES ASSUME NEW t \in Taking, NEW u \in Taking, t # u PROVE FALSE
    OBVIOUS
  <2>1. loc[t].op \in Removals /\ at[u] \in RemovalPlaces
    BY PlacesOfOps DEF Taking, InvOf, ListShape, Uncounting, Removed, RemovalPlaces
  <2>2. Company(t, loc[t].op)
    BY <2>1, Accompanied DEF Taking, Removals
  <2> QED
    BY <2>1, <2>2 DEF Company, Taking
<1>6. CASE Taking = {}
  BY <1>2, <1>3, <1>4, <1>6, FS_EmptySet
<1>7. CASE Taking # {}
  <2>1. PICK t \in Taking : Taking = {t}
    BY <1>5, <1>7
  <2>2. IsFiniteSet(Taking) /\ Cardinality(Taking) = 1
    BY <2>1, FS_Singleton
  <2>3. loc[t].cur.ptr \in Nodes \ In(s)
    BY DEF Taking, InvOf, ListShape, Knows, RemovalKnows
  <2>4. In(s) # Nodes
    BY <2>3
  <2>5. Cardinality(In(s)) <= Cardinality(Nodes) /\ Cardinality(In(s)) # Cardinality(Nodes)
    BY <2>4, <1>2, NodesFinite, FS_Subset
  <2>6. Len(s) < Cardinality(Nodes)
    BY <2>5, <1>2, NodesFinite
  <2> QED
    BY <1>2, <1>3, <1>4, <2>2, <2>6
<1> QED
  BY <1>6, <1>7

\* size counts the nodes, but for those that have been added and not counted.
LEMMA SizeIs ==
  ASSUME NEW s, InvOf(s)
  PROVE  /\ size = Len(s) + Cardinality(Taking) - Cardinality(Adding)
         /\ size \in 0 .. Cardinality(Nodes)
<1>1. size + Cardinality(Adding) = Len(s) + Cardinality(Taking) /\ size \in Int
  BY DEF InvOf, Counted, Typed, Adding, Taking
<1>2. Path(next, s)
  BY DEF InvOf, ListShape
<1>3. Len(s) \in 0 .. Cardinality(Nodes) /\ Cardinality(Nodes) \in Nat
  BY <1>2, PathFacts, NodesFinite
<1>4. size = Len(s) + Cardinality(Taking) - Cardinality(Adding)
  BY <1>1, <1>3, CountsFinite
<1>5. size \in 0 .. Cardinality(Nodes)
  <2> DEFINE a == Cardinality(Adding)
             b == Cardinality(Taking)
             k == Len(s)
             m == Cardinality(Nodes)
  <2>1. a \in 0 .. k /\ b \in {0, 1} /\ (b = 1 => k < m) /\ k \in 0 .. m /\ m \in Nat
    BY <1>3, CountsFinite
  <2>2. size = k + b - a
    BY <1>4
  <2> HIDE DEF a, b, k, m
  <2>3. size \in 0 .. m
    BY <2>1, <2>2
  <2> QED
    BY <2>3 DEF m
<1> QED
  BY <1>4, <1>5

LEMMA InvTypes == ASSUME NEW s, InvOf(s) PROVE ListTypeOK
<1>1. Typed /\ size \in 0 .. Cardinality(Nodes)
  BY SizeIs DEF InvOf
<1> QED
  BY <1>1 DEF Typed, ListTypeOK, Locals

\* How the counts change when t takes a step.
LEMMA CountsChange ==
  ASSUME NEW s, InvOf(s), NEW t \in Threads, Others(t)
  PROVE  /\ (at[t] \in Uncounted <=> at'[t] \in Uncounted) =>
              Cardinality(Adding)' = Cardinality(Adding)
         /\ at[t] \notin Uncounted /\ at'[t] \in Uncounted =>
              Cardinality(Adding)' = Cardinality(Adding) + 1
         /\ at[t] \in Uncounted /\ at'[t] \notin Uncounted =>
              Cardinality(Adding)' = Cardinality(Adding) - 1
         /\ (at[t] \in Uncounting <=> at'[t] \in Uncounting) =>
              Cardinality(Taking)' = Cardinality(Taking)
         /\ at[t] \notin Uncounting /\ at'[t] \in Uncounting =>
              Cardinality(Taking)' = Cardinality(Taking) + 1
         /\ at[t] \in Uncounting /\ at'[t] \notin Uncounting =>
              Cardinality(Taking)' = Cardinality(Taking) - 1
<1>1. IsFiniteSet(Adding) /\ IsFiniteSet(Taking)
  BY CountsFinite
<1>2. /\ (at[t] \in Uncounted <=> at'[t] \in Uncounted) => Adding' = Adding
      /\ at[t] \notin Uncounted /\ at'[t] \in Uncounted =>
           Adding' = Adding \cup {t} /\ t \notin Adding
      /\ at[t] \in Uncounted /\ at'[t] \notin Uncounted =>
           Adding' = Adding \ {t} /\ t \in Adding
  BY DEF Adding, Others
<1>3. /\ (at[t] \in Uncounting <=> at'[t] \in Uncounting) => Taking' = Taking
      /\ at[t] \notin Uncounting /\ at'[t] \in Uncounting =>
           Taking' = Taking \cup {t} /\ t \notin Taking
      /\ at[t] \in Uncounting /\ at'[t] \notin Uncounting =>
           Taking' = Taking \ {t} /\ t \in Taking
  BY DEF Taking, Others
<1>4. /\ Cardinality(Adding \cup {t}) = IF t \in Adding THEN Cardinality(Adding)
                                        ELSE Cardinality(Adding) + 1
      /\ Cardinality(Adding \ {t}) = IF t \in Adding THEN Cardinality(Adding) - 1
                                     ELSE Cardinality(Adding)
      /\ Cardinality(Taking \cup {t}) = IF t \in Taking THEN Cardinality(Taking)
                                        ELSE Cardinality(Taking) + 1
      /\ Cardinality(Taking \ {t}) = IF t \in Taking THEN Cardinality(Taking) - 1
                                     ELSE Cardinality(Taking)
  BY <1>1, FS_AddElement, FS_RemoveElement
<1> QED
  BY <1>2, <1>3, <1>4

LEMMA StaysCounted ==
  ASSUME NEW s, InvOf(s), NEW t \in Threads, Others(t), size' = size,
         at[t] \in Uncounted <=> at'[t] \in Uncounted,
         at[t] \in Uncounting <=> at'[t] \in Uncounting
  PROVE  Counted(s)'
<1>1. Cardinality(Adding)' = Cardinality(Adding) /\ Cardinality(Taking)' = Cardinality(Taking)
  BY CountsChange
<1> QED
  BY <1>1 DEF InvOf, Counted, Adding, Taking

-----------------------------------------------------------------------------
(* What a step leaves as it is *)

\* The node that t alone can reach.
PrivateOf(t) ==
  IF at[t] \in Unlinked THEN {loc[t].node}
  ELSE IF at[t] \in Removed THEN {loc[t].cur.ptr} ELSE {}

LEMMA PrivateIs == \A n : n \in Private <=> \E t \in Threads : n \in PrivateOf(t)
BY DEF Private, PrivateOf, Unlinked, Removed

LEMMA PrivateIsNext == (\A n : n \in Private <=> \E t \in Threads : n \in PrivateOf(t))'
BY PrivateIs, PTL

LEMMA StaysShared ==
  ASSUME NEW s, InvOf(s), NEW t \in Threads, Others(t), NEW s2,
         pool' \cap In(s2) = {},
         pool \cup In(s) \cup PrivateOf(t) \subseteq pool' \cup In(s2) \cup PrivateOf(t)'
  PROVE  Shared(s2)'
<1>1. ASSUME NEW n \in Nodes PROVE n \in pool' \cup In(s2) \cup Private'
  <2>1. n \in pool \cup In(s) \/ \E u \in Threads : n \in PrivateOf(u)
    BY PrivateIs DEF InvOf, ListShape, Shared
  <2>2. ASSUME NEW u \in Threads, u # t, n \in PrivateOf(u) PROVE n \in PrivateOf(u)'
    BY <2>2 DEF PrivateOf, Others
  <2> QED
    BY <2>1, <2>2, PrivateIsNext
<1> QED
  BY <1>1 DEF Shared

\* n is the only node that a step of t changes, and it is not in the list, nor another
\* thread's: all that the others know is still true.
Untouched(t, n) ==
  /\ Others(t)
  /\ head' = head /\ tail' = tail
  /\ \A m \in Nodes : m # n => next'[m] = next[m] /\ value'[m] = value[m]
  /\ \A m \in Nodes : m # n => (m \in pool' <=> m \in pool)
  /\ \A u \in Threads : u # t => n \notin PrivateOf(u)

LEMMA OthersKnow ==
  ASSUME NEW s, InvOf(s), NEW t \in Threads, NEW op, Company(t, op), NEW n,
         n \notin In(s), Untouched(t, n), NEW u \in Threads, u # t
  PROVE  Calls(u)' /\ Adds(u, s)' /\ Knows(u, s)'
<1>0. at'[u] = at[u] /\ loc'[u] = loc[u] /\ due'[u] = due[u] /\ at[u] \notin RemovalPlaces
  BY DEF Untouched, Others, Company
<1>1. Calls(u) /\ Adds(u, s) /\ Knows(u, s) /\ Path(next, s) /\ Typed
  BY DEF InvOf, ListShape
<1>2. In(s) \subseteq Nodes /\ \A p : Ahead(s, p) \subseteq In(s)
  BY <1>1, PathFacts DEF Ahead, In
<1>p. \A p : p \notin In(s) => Ahead(s, p) = {}
  BY DEF Ahead, In
<1>3. at[u] \in Unlinked => loc[u].node \in Nodes /\ loc[u].node # n
  BY <1>1 DEF Adds, Untouched, PrivateOf
<1>4. Calls(u)'
  BY <1>0, <1>1 DEF Calls
<1>5. Adds(u, s)'
  BY <1>0, <1>1, <1>3 DEF Adds, Untouched
<1>6. AppendKnows(u, s)'
  <2>1. at[u] \in {"loadNext", "help", "link", "swing"} =>
          loc[u].cur.ptr \in In(s) /\ loc[u].cur.ptr # n
    BY <1>1, <1>p DEF Knows, AppendKnows
  <2>2. at[u] \in {"loadNext", "help", "link", "swing"} =>
          next'[loc[u].cur.ptr] = next[loc[u].cur.ptr]
    BY <2>1, <1>2 DEF Untouched
  <2>3. at[u] \in Unlinked \ {"pushHead"} => next'[loc[u].node] = next[loc[u].node]
    BY <1>3 DEF Untouched
  <2> QED
    BY <1>0, <1>1, <2>2, <2>3 DEF Knows, AppendKnows, Untouched
<1>7. PrependKnows(u, s)'
  <2>1. at[u] = "pushHead" => next'[loc[u].node] = next[loc[u].node]
    BY <1>3 DEF Untouched, Unlinked
  <2> QED
    BY <1>0, <1>1, <2>1 DEF Knows, PrependKnows, Untouched
<1>8. RemovalKnows(u, s)'
  BY <1>0 DEF RemovalKnows, RemovalPlaces, Removed, Uncounting
<1>9. FindKnows(u, s)'
  <2>1. at[u] \in FindPlaces => \A m \in due[u] : m \in In(s) /\ m \in Nodes /\ m # n
    BY <1>1, <1>2 DEF Knows, FindKnows, FindPlaces
  <2>2. at[u] \in FindPlaces => \A m \in due[u] : value'[m] = value[m]
    BY <2>1 DEF Untouched
  <2> QED
    BY <1>0, <1>1, <2>2 DEF Knows, FindKnows, Untouched
<1> QED
  BY <1>4, <1>5, <1>6, <1>7, <1>8, <1>9 DEF Knows

\* What holds the list together, when a step of t changes none of its links.
LEMMA SamePath ==
  ASSUME NEW s, InvOf(s), NEW t \in Threads, NEW n, n \notin In(s), Untouched(t, n),
         at[t] \in {"loadHead", "setHead"} => at'[t] \in {"loadHead", "setHead"},
         at[t] = "swing" => loc[t].cur # tail,
         at[t] \in {"checkTail", "setTail", "loadEnd", "setEnd"} =>
           at'[t] \in {"checkTail", "setTail", "loadEnd", "setEnd"}
  PROVE  Path(next', s) /\ HeadRight(s)' /\ TailRight(s)'
<1>1. Path(next, s) /\ HeadRight(s) /\ TailRight(s)
  BY DEF InvOf, ListShape
<1>2. \A i \in 1 .. Len(s) : s[i] \in Nodes /\ s[i] # n
  BY <1>1, PathFacts DEF In
<1>3. Path(next', s)
  BY <1>1, <1>2 DEF Path, Untouched
<1>4. HeadRight(s)'
  BY <1>1 DEF HeadRight, Untouched, Others
<1>5. TailRight(s)'
  BY <1>1 DEF TailRight, Untouched, Others
<1> QED
  BY <1>3, <1>4, <1>5

\* The nodes that threads have to themselves are theirs alone.
LEMMA PrivateNodes ==
  ASSUME NEW s, InvOf(s), NEW t \in Threads
  PROVE  /\ PrivateOf(t) \subseteq Nodes \ (pool \cup In(s))
         /\ \A u \in Threads : u # t => PrivateOf(t) \cap PrivateOf(u) = {}
<1>1. \A u \in Threads : Calls(u) /\ Adds(u, s) /\ Knows(u, s)
  BY DEF InvOf, ListShape
<1>2. \A u \in Threads : PrivateOf(u) \subseteq Nodes \ (pool \cup In(s))
  BY <1>1 DEF PrivateOf, Adds, Knows, RemovalKnows, Uncounting
<1>3. ASSUME NEW u \in Threads, u # t PROVE PrivateOf(t) \cap PrivateOf(u) = {}
  <2>1. CASE at[t] \in Removed \/ at[u] \in Removed
    <3>1. ASSUME NEW v \in Threads, at[v] \in Removed, NEW w \in Threads, w # v
          PROVE  PrivateOf(w) = {}
      <4>1. Calls(v) /\ Typed /\ at[v] \in RemovalPlaces
        BY <3>1, <1>1 DEF Removed, RemovalPlaces, InvOf
      <4>2. loc[v].op \in Removals
        BY <4>1, PlacesOfOps
      <4>3. Company(v, loc[v].op)
        BY <4>2, Accompanied DEF Removals
      <4>4. at[w] = "idle"
        BY <3>1, <4>2, <4>3 DEF Company
      <4> QED
        BY <4>4 DEF PrivateOf, Unlinked, Removed
    <3> QED
      BY <2>1, <3>1, <1>3
  <2>2. CASE ~ (at[t] \in Removed \/ at[u] \in Removed)
    <3>1. Apart(t, u)
      BY <1>3 DEF InvOf, ListShape
    <3> QED
      BY <2>2, <3>1 DEF PrivateOf, Apart
  <2> QED
    BY <2>1, <2>2
<1> QED
  BY <1>2, <1>3

-----------------------------------------------------------------------------
(* Steps that change the locals of their thread only *)

Quiet(t) ==
  /\ UNCHANGED shared
  /\ Others(t)
  /\ at[t] \in Uncounted <=> at'[t] \in Uncounted
  /\ at[t] \in Uncounting <=> at'[t] \in Uncounting
  /\ PrivateOf(t)' = PrivateOf(t)
  /\ at[t] \in {"loadHead", "setHead"} => at'[t] \in {"loadHead", "setHead"}
  /\ at[t] = "swing" => loc[t].cur # tail
  /\ at[t] \in {"checkTail", "setTail", "loadEnd", "setEnd"} =>
       at'[t] \in {"checkTail", "setTail", "loadEnd", "setEnd"}
  /\ at'[t] \in Unlinked \cup Uncounted =>
       at[t] \in Unlinked \cup Uncounted /\ loc'[t].node = loc[t].node

LEMMA QuietStep ==
  ASSUME NEW s, InvOf(s), NEW t \in Threads, Quiet(t),
         at' \in [Threads -> Places], loc' \in [Threads -> Locals],
         due' \in [Threads -> SUBSET Nodes],
         NEW op, Company(t, op), loc'[t].op \in {op, "none"},
         Calls(t)', Adds(t, s)', Knows(t, s)'
  PROVE  InvOf(s)'
<1>1. Null \notin In(s) /\ Untouched(t, Null)
  <2>1. Path(next, s)
    BY DEF InvOf, ListShape
  <2>2. \A u \in Threads : Null \notin PrivateOf(u)
    BY PrivateNodes, ListAssumption
  <2> QED
    BY <2>1, <2>2, PathFacts DEF Untouched, Quiet, shared
<1>2. Path(next', s) /\ HeadRight(s)' /\ TailRight(s)'
  BY <1>1, SamePath DEF Quiet
<1>3. Shared(s)'
  <2>1. pool' = pool /\ pool \cap In(s) = {} /\ PrivateOf(t)' = PrivateOf(t) /\ Others(t)
    BY DEF InvOf, ListShape, Shared, Quiet, shared
  <2> QED
    BY <2>1, StaysShared
<1>4. \A u \in Threads : Calls(u)' /\ Adds(u, s)' /\ Knows(u, s)'
  BY <1>1, OthersKnow
<1>5. \A u, v \in Threads : u # v => Apart(u, v)'
  <2>1. at'[t] \in Unlinked \cup Uncounted =>
           \A u \in Threads : u # t /\ at[u] \in Unlinked \cup Uncounted =>
             loc'[t].node # loc[u].node
    BY DEF Quiet, InvOf, ListShape, Apart
  <2>2. loc'[t].op = "none" \/ Company(t, loc'[t].op)
    OBVIOUS
  <2> QED
    BY <2>1, <2>2, StaysApart DEF Quiet
<1>6. Counted(s)'
  BY StaysCounted DEF Quiet, shared
<1>7. Typed'
  BY DEF InvOf, Typed, Quiet, shared
<1> QED
  BY <1>2, <1>3, <1>4, <1>5, <1>6, <1>7 DEF InvOf, ListShape

LEMMA MovedBy ==
  ASSUME Typed, NEW t \in Threads
  PROVE  /\ \A place, l : Go(t, place) /\ Set(t, l) /\ UNCHANGED due =>
              Moved(t, place, l, due[t])
         /\ \A place : Go(t, place) /\ UNCHANGED <<loc, due>> =>
              Moved(t, place, loc[t], due[t])
         /\ \A l : Set(t, l) /\ UNCHANGED <<at, due>> => Moved(t, at[t], l, due[t])
         /\ Return(t) => Moved(t, "idle", Blank, {})
BY DEF Typed, Moved, Go, Set, Return

LEMMA LocalTypes ==
  ASSUME Typed, NEW t \in Threads
  PROVE  /\ at[t] \in Places /\ loc[t] \in Locals /\ due[t] \in SUBSET Nodes
         /\ loc[t].op \in Ops /\ loc[t].node \in Pointers /\ loc[t].cur \in Refs
         /\ loc[t].nxt \in Refs /\ loc[t].prev \in Pointers
         /\ loc[t].left \in 0 .. MaxRetries /\ loc[t].want \in SUBSET Values
BY DEF Typed, Locals

\* The assignments to locals, and what they leave as it was.
SetCur(l, c)         == [l EXCEPT !.cur = c]
SetNxt(l, c)         == [l EXCEPT !.nxt = c]
SetPrev(l, p)        == [l EXCEPT !.prev = p]
Retry(l, k, c)       == [l EXCEPT !.left = k, !.cur = c]
Again(l, k, c)       == [l EXCEPT !.cur = c, !.left = k]
Restart(l, k, c, p)  == [l EXCEPT !.left = k, !.cur = c, !.prev = p]

LEMMA SetCurs ==
  ASSUME NEW l \in Locals, NEW c \in Refs
  PROVE  /\ SetCur(l, c) \in Locals
         /\ SetCur(l, c).cur = c
         /\ SetCur(l, c).op = l.op
         /\ SetCur(l, c).node = l.node
         /\ SetCur(l, c).nxt = l.nxt
         /\ SetCur(l, c).prev = l.prev
         /\ SetCur(l, c).want = l.want
BY DEF SetCur, Locals

LEMMA SetNxts ==
  ASSUME NEW l \in Locals, NEW c \in Refs
  PROVE  /\ SetNxt(l, c) \in Locals
         /\ SetNxt(l, c).nxt = c
         /\ SetNxt(l, c).op = l.op
         /\ SetNxt(l, c).node = l.node
         /\ SetNxt(l, c).cur = l.cur
         /\ SetNxt(l, c).prev = l.prev
         /\ SetNxt(l, c).want = l.want
BY DEF SetNxt, Locals

LEMMA SetPrevs ==
  ASSUME NEW l \in Locals, NEW p \in Pointers
  PROVE  /\ SetPrev(l, p) \in Locals
         /\ SetPrev(l, p).prev = p
         /\ SetPrev(l, p).op = l.op
         /\ SetPrev(l, p).node = l.node
         /\ SetPrev(l, p).cur = l.cur
         /\ SetPrev(l, p).nxt = l.nxt
         /\ SetPrev(l, p).want = l.want
BY DEF SetPrev, Locals

LEMMA Retries ==
  ASSUME NEW l \in Locals, NEW k \in 0 .. MaxRetries, NEW c \in Refs
  PROVE  /\ Retry(l, k, c) \in Locals
         /\ Retry(l, k, c).cur = c
         /\ Retry(l, k, c).op = l.op
         /\ Retry(l, k, c).node = l.node
         /\ Again(l, k, c) = Retry(l, k, c)
BY DEF Retry, Again, Locals

LEMMA Restarts ==
  ASSUME NEW l \in Locals, NEW k \in 0 .. MaxRetries, NEW c \in Refs, NEW p \in Pointers
  PROVE  /\ Restart(l, k, c, p) \in Locals
         /\ Restart(l, k, c, p).cur = c
         /\ Restart(l, k, c, p).prev = p
         /\ Restart(l, k, c, p).op = l.op
BY DEF Restart, Locals

LEMMA OneRetryLess ==
  ASSUME NEW l \in Locals, l.left > 0
  PROVE  l.left - 1 \in 0 .. MaxRetries
BY ListAssumption DEF Locals

\* A call that returns holds nothing and knows nothing.
LEMMA ReturnStep ==
  ASSUME NEW s, InvOf(s), NEW t \in Threads, loc[t].op # "none", Return(t), UNCHANGED shared,
         at[t] \notin Unlinked \cup Uncounted \cup Uncounting
  PROVE  InvOf(s)'
<1>0. Typed
  BY DEF InvOf
<1>1. /\ at'[t] = "idle" /\ loc'[t] = Blank /\ due'[t] = {} /\ Others(t)
      /\ at' \in [Threads -> Places] /\ loc' \in [Threads -> Locals]
      /\ due' \in [Threads -> SUBSET Nodes]
  BY <1>0, MovedBy, MovedFacts, BlankType DEF Places
<1>2. Calls(t)' /\ Adds(t, s)' /\ Knows(t, s)'
  BY <1>1, BlankType DEF Calls, Adds, Knows, AppendKnows, PrependKnows, RemovalKnows, FindKnows,
     Unlinked, Uncounted, Uncounting, Removed, FindPlaces, Appends, Prepends, Removals, Finds
<1>3. Quiet(t)
  <2>1. at[t] \notin {"loadHead", "setHead", "swing", "checkTail", "setTail"}
    BY DEF Uncounted
  <2>2. at[t] \notin {"loadEnd", "setEnd"} \cup Removed
    BY DEF Uncounting, Removed
  <2> QED
    BY <1>1, <2>1, <2>2 DEF Quiet, PrivateOf, Unlinked, Uncounted, Uncounting, Removed
<1>4. Company(t, loc[t].op)
  BY Accompanied
<1> QED
  BY <1>1, <1>2, <1>3, <1>4, BlankType, QuietStep

-----------------------------------------------------------------------------
(* Appends *)

\* While appends are under way the tail is a node of the list.
LEMMA TailIn ==
  ASSUME NEW s, InvOf(s), NEW t \in Threads, loc[t].op \in Appends
  PROVE  /\ tail.ptr = Null <=> s = <<>>
         /\ tail.ptr # Null => tail.ptr \in In(s)
<1>1. TailRight(s) /\ Path(next, s) /\ Calls(t) /\ \A u \in Threads : Knows(u, s)
  BY DEF InvOf, ListShape
<1>2. Company(t, loc[t].op) /\ at[t] \in AppendPlaces
  BY <1>1, Accompanied DEF Appends, Calls
<1>3. \A u \in Threads : at[u] \notin {"checkTail", "setTail", "loadEnd", "setEnd"}
  BY <1>2 DEF Company, AppendPlaces, PrependPlaces, RemovalPlaces
<1>4. CASE tail.ptr = LastOf(s)
  BY <1>1, <1>4, EmptyPath, PathFacts
<1>5. CASE \E u \in Threads : at[u] = "swing" /\ loc[u].cur = tail
  <2>1. \E p : tail.ptr \in Ahead(s, p)
    BY <1>1, <1>5 DEF Knows, AppendKnows
  <2>2. tail.ptr \in In(s)
    BY <2>1 DEF Ahead, In
  <2> QED
    BY <1>1, <2>2, EmptyPath, PathFacts
<1> QED
  BY <1>1, <1>3, <1>4, <1>5 DEF TailRight

LEMMA LoadTailStep ==
  ASSUME NEW s, InvOf(s), NEW t \in Threads, loc[t].op \in Appends, LoadTail(t),
         loc[t].left > 0
  PROVE  InvOf(s)'
<1>0. Typed /\ Calls(t) /\ Adds(t, s) /\ Knows(t, s) /\ at[t] = "loadTail" /\ Path(next, s)
  BY DEF InvOf, ListShape, LoadTail
<1> DEFINE l == Retry(loc[t], loc[t].left - 1, tail)
           place == IF tail.ptr = Null THEN "claim" ELSE "loadNext"
<1>1. l \in Locals /\ l.op = loc[t].op /\ l.node = loc[t].node /\ l.cur = tail
  BY <1>0, LocalTypes, OneRetryLess, Retries DEF Typed
<1>2. Moved(t, place, l, due[t]) /\ UNCHANGED shared
  BY <1>0, MovedBy DEF LoadTail, Retry
<1> HIDE DEF l
<1>3. /\ at'[t] = place /\ loc'[t] = l /\ due'[t] = due[t] /\ Others(t)
      /\ at' \in [Threads -> Places] /\ loc' \in [Threads -> Locals]
      /\ due' \in [Threads -> SUBSET Nodes]
  BY <1>0, <1>1, <1>2, MovedFacts, LocalTypes DEF Places
<1>4. Calls(t)' /\ Adds(t, s)'
  BY <1>0, <1>1, <1>2, <1>3 DEF Calls, Adds, shared, Unlinked, Uncounted,
     AppendPlaces, Appends, Prepends, Removals, Finds
<1>5. AppendKnows(t, s)'
  <2>1. tail.ptr # Null => tail.ptr \in Ahead(s, tail.ptr)
    BY <1>0, TailIn, AheadFacts
  <2> QED
    BY <1>0, <1>1, <1>2, <1>3, <2>1 DEF Knows, AppendKnows, shared, Unlinked
<1>6. PrependKnows(t, s)' /\ RemovalKnows(t, s)' /\ FindKnows(t, s)'
  BY <1>3 DEF PrependKnows, RemovalKnows, FindKnows, Removed, Uncounting, FindPlaces
<1>7. Quiet(t)
  BY <1>0, <1>1, <1>2, <1>3 DEF Quiet, PrivateOf, Unlinked, Uncounted, Uncounting, Removed
<1>8. Company(t, loc[t].op)
  BY Accompanied DEF Appends
<1> QED
  BY <1>1, <1>3, <1>4, <1>5, <1>6, <1>7, <1>8, QuietStep DEF Knows

\* One place follows another in a call, and the node of the call stays where it is.
SameKind(p, q) ==
  /\ p # "idle" /\ q # "idle"
  /\ p \in AppendPlaces => q \in AppendPlaces
  /\ p \in PrependPlaces => q \in PrependPlaces
  /\ p \in RemovalPlaces => q \in RemovalPlaces
  /\ p \in FindPlaces => q \in FindPlaces
  /\ p \in Unlinked <=> q \in Unlinked
  /\ p \in Uncounted <=> q \in Uncounted
  /\ p \in Uncounting <=> q \in Uncounting
  /\ p \in Removed <=> q \in Removed
  /\ p \in {"loadHead", "setHead"} => q \in {"loadHead", "setHead"}
  /\ p \in {"checkTail", "setTail", "loadEnd", "setEnd"} =>
       q \in {"checkTail", "setTail", "loadEnd", "setEnd"}

LEMMA QuietMove ==
  ASSUME NEW s, InvOf(s), NEW t \in Threads, loc[t].op # "none", UNCHANGED shared,
         NEW place \in Places, NEW l \in Locals, Moved(t, place, l, due[t]),
         SameKind(at[t], place),
         at[t] = "swing" => loc[t].cur # tail,
         l.op = loc[t].op, l.node = loc[t].node,
         place \in Removed => l.cur = loc[t].cur,
         Knows(t, s)'
  PROVE  InvOf(s)'
<1>0. Typed /\ Calls(t) /\ Adds(t, s)
  BY DEF InvOf, ListShape
<1>1. /\ at'[t] = place /\ loc'[t] = l /\ due'[t] = due[t] /\ Others(t)
      /\ at' \in [Threads -> Places] /\ loc' \in [Threads -> Locals]
      /\ due' \in [Threads -> SUBSET Nodes]
  BY <1>0, MovedFacts, LocalTypes
<1>2. Calls(t)'
  BY <1>0, <1>1 DEF Calls, SameKind
<1>3. Adds(t, s)'
  BY <1>0, <1>1 DEF Adds, SameKind, shared
<1>4. Quiet(t)
  BY <1>1 DEF Quiet, PrivateOf, SameKind
<1>5. Company(t, loc[t].op)
  BY Accompanied
<1> QED
  BY <1>1, <1>2, <1>3, <1>4, <1>5, QuietStep

LEMMA LoadHeadStep ==
  ASSUME NEW s, InvOf(s), NEW t \in Threads, loc[t].op \in Appends, LoadHead(t)
  PROVE  InvOf(s)'
<1>0. Typed /\ Knows(t, s) /\ at[t] = "loadHead"
  BY DEF InvOf, ListShape, LoadHead
<1> DEFINE l == SetCur(loc[t], head)
<1>1. l \in Locals /\ l.op = loc[t].op /\ l.node = loc[t].node /\ l.cur = head
  BY <1>0, LocalTypes, SetCurs DEF Typed
<1>2. Moved(t, "setHead", l, due[t]) /\ UNCHANGED shared
  BY <1>0, MovedBy DEF LoadHead, SetCur
<1> HIDE DEF l
<1>3. at'[t] = "setHead" /\ loc'[t] = l /\ "setHead" \in Places
  BY <1>0, <1>2, MovedFacts DEF Places
<1>4. Knows(t, s)'
  BY <1>0, <1>1, <1>2, <1>3 DEF Knows, AppendKnows, PrependKnows, RemovalKnows, FindKnows, shared,
     Unlinked, Removed, Uncounting, FindPlaces
<1>5. SameKind(at[t], "setHead")
  BY <1>0 DEF SameKind, AppendPlaces, PrependPlaces, RemovalPlaces, FindPlaces, Unlinked,
     Uncounted, Uncounting, Removed
<1> QED
  BY <1>0, <1>1, <1>2, <1>3, <1>4, <1>5, QuietMove DEF Appends, Removed

LEMMA LoadNextStep ==
  ASSUME NEW s, InvOf(s), NEW t \in Threads, loc[t].op \in Appends, LoadNext(t)
  PROVE  InvOf(s)'
<1>0. Typed /\ Knows(t, s) /\ at[t] = "loadNext" /\ Path(next, s)
  BY DEF InvOf, ListShape, LoadNext
<1> DEFINE link == next[loc[t].cur.ptr]
           l == SetNxt(loc[t], link)
           place == IF link.ptr = Null THEN "link" ELSE "help"
<1>1. l \in Locals /\ l.op = loc[t].op /\ l.node = loc[t].node /\ l.cur = loc[t].cur /\ l.nxt = link
  <2>1. tail.ptr \in Ahead(s, loc[t].cur.ptr)
    BY <1>0 DEF Knows, AppendKnows
  <2>2. loc[t].cur.ptr \in Nodes
    BY <2>1, <1>0, PathFacts DEF Ahead
  <2>3. link \in Refs
    BY <2>2, <1>0 DEF Typed
  <2> QED
    BY <1>0, <2>3, LocalTypes, SetNxts
<1>2. Moved(t, place, l, due[t]) /\ UNCHANGED shared
  BY <1>0, MovedBy DEF LoadNext, SetNxt
<1> HIDE DEF l
<1>3. at'[t] = place /\ loc'[t] = l /\ place \in Places
  BY <1>0, <1>2, MovedFacts DEF Places
<1>4. Knows(t, s)'
  BY <1>0, <1>1, <1>2, <1>3 DEF Knows, AppendKnows, PrependKnows, RemovalKnows, FindKnows, shared,
     Unlinked, Removed, Uncounting, FindPlaces
<1>5. SameKind(at[t], place)
  BY <1>0 DEF SameKind, AppendPlaces, PrependPlaces, RemovalPlaces, FindPlaces, Unlinked,
     Uncounted, Uncounting, Removed
<1> QED
  BY <1>0, <1>1, <1>2, <1>3, <1>4, <1>5, QuietMove DEF Appends, Removed

\* A failed CAS starts the round anew, or leaves the tail to the thread that moved it.
LEMMA FailedAppend ==
  ASSUME NEW s, InvOf(s), NEW t \in Threads, loc[t].op \in Appends, UNCHANGED <<shared, loc, due>>,
         \/ at[t] \in {"claim", "help", "link"} /\ Go(t, "loadTail")
         \/ at[t] = "swing" /\ Go(t, "count") /\ loc[t].cur # tail
  PROVE  InvOf(s)'
<1>0. Typed /\ Knows(t, s)
  BY DEF InvOf, ListShape
<1> DEFINE place == IF at[t] = "swing" THEN "count" ELSE "loadTail"
<1>1. Moved(t, place, loc[t], due[t]) /\ place \in Places
  BY <1>0, MovedBy DEF Places
<1>2. at'[t] = place /\ loc'[t] = loc[t]
  BY <1>0, <1>1, MovedFacts
<1>3. Knows(t, s)'
  BY <1>0, <1>2 DEF Knows, AppendKnows, PrependKnows, RemovalKnows, FindKnows, shared,
     Unlinked, Removed, Uncounting, FindPlaces
<1>4. SameKind(at[t], place)
  BY DEF SameKind, AppendPlaces, PrependPlaces, RemovalPlaces, FindPlaces, Unlinked,
     Uncounted, Uncounting, Removed
<1> QED
  BY <1>0, <1>1, <1>3, <1>4, LocalTypes, QuietMove DEF Appends

-----------------------------------------------------------------------------
(* Removals *)

\* A removal is under way alone.
LEMMA Alone ==
  ASSUME NEW s, InvOf(s), NEW t \in Threads, loc[t].op \in Removals
  PROVE  /\ at[t] \in RemovalPlaces
         /\ \A u \in Threads : u # t => at[u] = "idle"
         /\ head.ptr = FirstOf(s)
         /\ tail.ptr = LastOf(s) \/ at[t] \in {"loadEnd", "setEnd"}
<1>1. Calls(t) /\ HeadRight(s) /\ TailRight(s)
  BY DEF InvOf, ListShape
<1>2. at[t] \in RemovalPlaces
  BY <1>1 DEF Calls
<1>3. \A u \in Threads : u # t => at[u] = "idle"
  BY Accompanied DEF Company, Removals
<1>4. \A u \in Threads : at[u] \notin {"loadHead", "setHead", "swing", "checkTail", "setTail"}
  BY <1>2, <1>3 DEF RemovalPlaces
<1>5. \A u \in Threads : at[u] \in {"loadEnd", "setEnd"} => u = t
  BY <1>3
<1> QED
  BY <1>1, <1>2, <1>3, <1>4, <1>5 DEF HeadRight, TailRight

LEMMA TopStep ==
  ASSUME NEW s, InvOf(s), NEW t \in Threads, loc[t].op \in Removals, Top(t)
  PROVE  InvOf(s)'
<1>0. Typed /\ Knows(t, s) /\ at[t] = "top" /\ UNCHANGED shared
  BY DEF InvOf, ListShape, Top
<1>1. CASE loc[t].left > 0 /\ head.ptr # Null
  <2> DEFINE l == Restart(loc[t], loc[t].left - 1, head, Null)
  <2>1. /\ l \in Locals /\ l.op = loc[t].op /\ l.cur = head /\ l.prev = Null
        /\ l.node = loc[t].node
    <3>1. l \in Locals /\ l.op = loc[t].op /\ l.cur = head /\ l.prev = Null
      <4>1. loc[t] \in Locals /\ head \in Refs /\ Null \in Pointers
        BY <1>0, LocalTypes, RefTypes DEF Typed
      <4>2. loc[t].left - 1 \in 0 .. MaxRetries
        BY <1>1, <4>1, OneRetryLess
      <4> QED
        BY <4>1, <4>2, Restarts
    <3>2. l.node = loc[t].node
      BY <1>0, LocalTypes DEF Restart, Locals
    <3> QED
      BY <3>1, <3>2
  <2>2. Moved(t, "match", l, due[t])
    BY <1>0, <1>1, MovedBy DEF Top, Restart
  <2> HIDE DEF l
  <2>3. at'[t] = "match" /\ loc'[t] = l /\ "match" \in Places
    BY <1>0, <2>2, MovedFacts DEF Places
  <2>4. Knows(t, s)'
    BY <1>0, <1>1, <2>1, <2>3 DEF Knows, AppendKnows, PrependKnows, RemovalKnows, FindKnows,
       shared, Unlinked, Removed, Uncounting, FindPlaces
  <2>5. SameKind(at[t], "match")
    BY <1>0 DEF SameKind, AppendPlaces, PrependPlaces, RemovalPlaces, FindPlaces, Unlinked,
       Uncounted, Uncounting, Removed
  <2> QED
    BY <1>0, <2>1, <2>2, <2>3, <2>4, <2>5, QuietMove DEF Removals, Removed
<1>2. CASE ~ (loc[t].left > 0 /\ head.ptr # Null)
  <2>1. Return(t)
    BY <1>2 DEF Top
  <2> QED
    BY <1>0, <2>1, ReturnStep DEF Removals, Unlinked, Uncounted, Uncounting, Removed
<1> QED
  BY <1>1, <1>2

LEMMA MatchStep ==
  ASSUME NEW s, InvOf(s), NEW t \in Threads, loc[t].op \in Removals, Match(t)
  PROVE  InvOf(s)'
<1>0. Typed /\ Knows(t, s) /\ at[t] = "match" /\ Path(next, s) /\ UNCHANGED shared
  BY DEF InvOf, ListShape, Match
<1>1. /\ loc[t].cur = head /\ head.ptr # Null /\ loc[t].prev = Null
      /\ head.ptr \in In(s) /\ head.ptr \in Nodes
  <2>1. loc[t].cur = head /\ head.ptr # Null /\ loc[t].prev = Null
    BY <1>0 DEF Knows, RemovalKnows
  <2>2. head.ptr = FirstOf(s)
    BY Alone
  <2>3. head.ptr \in In(s)
    BY <1>0, <2>1, <2>2, EmptyPath
  <2> QED
    BY <1>0, <2>1, <2>3, PathFacts
<1>2. CASE value[loc[t].cur.ptr] \in loc[t].want
  <2> DEFINE l == SetNxt(loc[t], next[loc[t].cur.ptr])
  <2>1. /\ l \in Locals /\ l.op = loc[t].op /\ l.node = loc[t].node /\ l.cur = loc[t].cur
        /\ l.nxt = next[loc[t].cur.ptr] /\ l.prev = loc[t].prev
    BY <1>0, <1>1, LocalTypes, SetNxts DEF Typed
  <2>2. Moved(t, "unlinkHead", l, due[t])
    BY <1>0, <1>2, MovedBy DEF Match, SetNxt
  <2> HIDE DEF l
  <2>3. at'[t] = "unlinkHead" /\ loc'[t] = l /\ "unlinkHead" \in Places
    BY <1>0, <2>2, MovedFacts DEF Places
  <2>4. Knows(t, s)'
    BY <1>0, <1>1, <2>1, <2>3 DEF Knows, AppendKnows, PrependKnows, RemovalKnows, FindKnows,
       shared, Unlinked, Removed, Uncounting, FindPlaces
  <2>5. SameKind(at[t], "unlinkHead")
    BY <1>0 DEF SameKind, AppendPlaces, PrependPlaces, RemovalPlaces, FindPlaces, Unlinked,
       Uncounted, Uncounting, Removed
  <2> QED
    BY <1>0, <2>1, <2>2, <2>3, <2>4, <2>5, QuietMove DEF Removals, Removed
<1>3. CASE value[loc[t].cur.ptr] \notin loc[t].want
  <2> DEFINE l == SetPrev(loc[t], loc[t].cur.ptr)
  <2>1. /\ l \in Locals /\ l.op = loc[t].op /\ l.node = loc[t].node /\ l.cur = loc[t].cur
        /\ l.prev = head.ptr
    BY <1>0, <1>1, LocalTypes, SetPrevs, RefTypes
  <2>2. Moved(t, "walk", l, due[t])
    BY <1>0, <1>3, MovedBy DEF Match, SetPrev
  <2> HIDE DEF l
  <2>3. at'[t] = "walk" /\ loc'[t] = l /\ "walk" \in Places
    BY <1>0, <2>2, MovedFacts DEF Places
  <2>4. Knows(t, s)'
    BY <1>0, <1>1, <2>1, <2>3 DEF Knows, AppendKnows, PrependKnows, RemovalKnows, FindKnows,
       shared, Unlinked, Removed, Uncounting, FindPlaces
  <2>5. SameKind(at[t], "walk")
    BY <1>0 DEF SameKind, AppendPlaces, PrependPlaces, RemovalPlaces, FindPlaces, Unlinked,
       Uncounted, Uncounting, Removed
  <2> QED
    BY <1>0, <2>1, <2>2, <2>3, <2>4, <2>5, QuietMove DEF Removals, Removed
<1> QED
  BY <1>2, <1>3

LEMMA WalkStep ==
  ASSUME NEW s, InvOf(s), NEW t \in Threads, loc[t].op \in Removals, Walk(t)
  PROVE  InvOf(s)'
<1>0. Typed /\ Knows(t, s) /\ at[t] = "walk" /\ Path(next, s) /\ UNCHANGED shared
  BY DEF InvOf, ListShape, Walk
<1> DEFINE link == next[loc[t].prev]
           l == SetCur(loc[t], link)
<1>1. loc[t].prev \in In(s)
  BY <1>0 DEF Knows, RemovalKnows
<1>2. CASE link.ptr # Null
  <2>1. /\ l \in Locals /\ l.op = loc[t].op /\ l.node = loc[t].node /\ l.cur = link
        /\ l.prev = loc[t].prev
    <3>1. link \in Refs
      BY <1>0, <1>1, PathFacts DEF Typed
    <3> QED
      BY <1>0, <3>1, LocalTypes, SetCurs
  <2>2. Moved(t, "look", l, due[t])
    BY <1>0, <1>2, MovedBy DEF Walk, SetCur
  <2> HIDE DEF l
  <2>3. at'[t] = "look" /\ loc'[t] = l /\ "look" \in Places
    BY <1>0, <2>2, MovedFacts DEF Places
  <2>4. Knows(t, s)'
    BY <1>0, <1>1, <1>2, <2>1, <2>3 DEF Knows, AppendKnows, PrependKnows, RemovalKnows,
       FindKnows, shared, Unlinked, Removed, Uncounting, FindPlaces
  <2>5. SameKind(at[t], "look")
    BY <1>0 DEF SameKind, AppendPlaces, PrependPlaces, RemovalPlaces, FindPlaces, Unlinked,
       Uncounted, Uncounting, Removed
  <2> QED
    BY <1>0, <2>1, <2>2, <2>3, <2>4, <2>5, QuietMove DEF Removals, Removed
<1>3. CASE link.ptr = Null
  <2>1. Return(t)
    BY <1>3 DEF Walk
  <2> QED
    BY <1>0, <2>1, ReturnStep DEF Removals, Unlinked, Uncounted, Uncounting, Removed
<1> QED
  BY <1>2, <1>3

LEMMA LookStep ==
  ASSUME NEW s, InvOf(s), NEW t \in Threads, loc[t].op \in Removals, Look(t)
  PROVE  InvOf(s)'
<1>0. Typed /\ Knows(t, s) /\ at[t] = "look" /\ Path(next, s) /\ UNCHANGED shared
  BY DEF InvOf, ListShape, Look
<1>1. /\ loc[t].prev \in In(s) /\ loc[t].cur.ptr # Null /\ loc[t].cur = next[loc[t].prev]
      /\ loc[t].cur.ptr \in In(s) /\ loc[t].cur.ptr \in Nodes
  <2>1. loc[t].prev \in In(s) /\ loc[t].cur.ptr # Null /\ loc[t].cur = next[loc[t].prev]
    BY <1>0 DEF Knows, RemovalKnows
  <2>2. loc[t].cur.ptr \in In(s)
    BY <1>0, <2>1, AheadFacts
  <2> QED
    BY <1>0, <2>1, <2>2, PathFacts
<1>2. CASE value[loc[t].cur.ptr] \in loc[t].want
  <2> DEFINE l == SetNxt(loc[t], next[loc[t].cur.ptr])
  <2>1. /\ l \in Locals /\ l.op = loc[t].op /\ l.node = loc[t].node /\ l.cur = loc[t].cur
        /\ l.nxt = next[loc[t].cur.ptr] /\ l.prev = loc[t].prev
    <3>1. next[loc[t].cur.ptr] \in Refs /\ loc[t] \in Locals
      BY <1>0, <1>1, LocalTypes DEF Typed
    <3> QED
      BY <3>1, SetNxts
  <2>2. Moved(t, "unlink", l, due[t])
    BY <1>0, <1>2, MovedBy DEF Look, SetNxt
  <2> HIDE DEF l
  <2>3. at'[t] = "unlink" /\ loc'[t] = l /\ "unlink" \in Places
    BY <1>0, <2>2, MovedFacts DEF Places
  <2>4. Knows(t, s)'
    BY <1>0, <1>1, <2>1, <2>3 DEF Knows, AppendKnows, PrependKnows, RemovalKnows, FindKnows,
       shared, Unlinked, Removed, Uncounting, FindPlaces
  <2>5. SameKind(at[t], "unlink")
    BY <1>0 DEF SameKind, AppendPlaces, PrependPlaces, RemovalPlaces, FindPlaces, Unlinked,
       Uncounted, Uncounting, Removed
  <2> QED
    BY <1>0, <2>1, <2>2, <2>3, <2>4, <2>5, QuietMove DEF Removals, Removed
<1>3. CASE value[loc[t].cur.ptr] \notin loc[t].want
  <2> DEFINE l == SetPrev(loc[t], loc[t].cur.ptr)
  <2>1. /\ l \in Locals /\ l.op = loc[t].op /\ l.node = loc[t].node /\ l.cur = loc[t].cur
        /\ l.prev = loc[t].cur.ptr
    BY <1>0, <1>1, LocalTypes, SetPrevs, RefTypes
  <2>2. Moved(t, "walk", l, due[t])
    BY <1>0, <1>3, MovedBy DEF Look, SetPrev
  <2> HIDE DEF l
  <2>3. at'[t] = "walk" /\ loc'[t] = l /\ "walk" \in Places
    BY <1>0, <2>2, MovedFacts DEF Places
  <2>4. Knows(t, s)'
    BY <1>0, <1>1, <2>1, <2>3 DEF Knows, AppendKnows, PrependKnows, RemovalKnows, FindKnows,
       shared, Unlinked, Removed, Uncounting, FindPlaces
  <2>5. SameKind(at[t], "walk")
    BY <1>0 DEF SameKind, AppendPlaces, PrependPlaces, RemovalPlaces, FindPlaces, Unlinked,
       Uncounted, Uncounting, Removed
  <2> QED
    BY <1>0, <2>1, <2>2, <2>3, <2>4, <2>5, QuietMove DEF Removals, Removed
<1> QED
  BY <1>2, <1>3

LEMMA LoadEndStep ==
  ASSUME NEW s, InvOf(s), NEW t \in Threads, loc[t].op \in Removals, LoadEnd(t)
  PROVE  InvOf(s)'
<1>0. Typed /\ Knows(t, s) /\ at[t] = "loadEnd" /\ UNCHANGED shared
  BY DEF InvOf, ListShape, LoadEnd
<1> DEFINE l == SetNxt(loc[t], tail)
<1>1. /\ l \in Locals /\ l.op = loc[t].op /\ l.node = loc[t].node /\ l.cur = loc[t].cur
      /\ l.nxt = tail /\ l.prev = loc[t].prev
  BY <1>0, LocalTypes, SetNxts DEF Typed
<1>2. Moved(t, "setEnd", l, due[t])
  BY <1>0, MovedBy DEF LoadEnd, SetNxt
<1> HIDE DEF l
<1>3. at'[t] = "setEnd" /\ loc'[t] = l /\ "setEnd" \in Places
  BY <1>0, <1>2, MovedFacts DEF Places
<1>4. Knows(t, s)'
  BY <1>0, <1>1, <1>3 DEF Knows, AppendKnows, PrependKnows, RemovalKnows, FindKnows,
     shared, Unlinked, Removed, Uncounting, FindPlaces
<1>5. SameKind(at[t], "setEnd")
  BY <1>0 DEF SameKind, AppendPlaces, PrependPlaces, RemovalPlaces, FindPlaces, Unlinked,
     Uncounted, Uncounting, Removed
<1> QED
  BY <1>0, <1>1, <1>2, <1>3, <1>4, <1>5, QuietMove DEF Removals, Removed

LEMMA FailedRemoval ==
  ASSUME NEW s, InvOf(s), NEW t \in Threads, loc[t].op \in Removals,
         UNCHANGED <<shared, loc, due>>, at[t] \in {"unlinkHead", "unlink"}, Go(t, "top")
  PROVE  InvOf(s)'
<1>0. Typed /\ Knows(t, s)
  BY DEF InvOf, ListShape
<1>1. Moved(t, "top", loc[t], due[t]) /\ "top" \in Places
  BY <1>0, MovedBy DEF Places
<1>2. at'[t] = "top" /\ loc'[t] = loc[t]
  BY <1>0, <1>1, MovedFacts
<1>3. Knows(t, s)'
  BY <1>0, <1>2 DEF Knows, AppendKnows, PrependKnows, RemovalKnows, FindKnows, shared,
     Unlinked, Removed, Uncounting, FindPlaces
<1>4. SameKind(at[t], "top")
  BY DEF SameKind, AppendPlaces, PrependPlaces, RemovalPlaces, FindPlaces, Unlinked,
     Uncounted, Uncounting, Removed
<1> QED
  BY <1>0, <1>1, <1>3, <1>4, LocalTypes, QuietMove DEF Removals, Removed

LEMMA CheckTailStep ==
  ASSUME NEW s, InvOf(s), NEW t \in Threads, loc[t].op \in Prepends, CheckTail(t)
  PROVE  InvOf(s)'
<1>0. Typed /\ Knows(t, s) /\ at[t] = "checkTail" /\ UNCHANGED shared
  BY DEF InvOf, ListShape, CheckTail
<1> DEFINE l == SetCur(loc[t], tail)
<1>1. l \in Locals /\ l.op = loc[t].op /\ l.node = loc[t].node /\ l.cur = tail
  BY <1>0, LocalTypes, SetCurs DEF Typed
<1>2. Moved(t, "setTail", l, due[t])
  BY <1>0, MovedBy DEF CheckTail, SetCur
<1> HIDE DEF l
<1>3. at'[t] = "setTail" /\ loc'[t] = l /\ "setTail" \in Places
  BY <1>0, <1>2, MovedFacts DEF Places
<1>4. Knows(t, s)'
  BY <1>0, <1>1, <1>3 DEF Knows, AppendKnows, PrependKnows, RemovalKnows, FindKnows,
     shared, Unlinked, Removed, Uncounting, FindPlaces
<1>5. SameKind(at[t], "setTail")
  BY <1>0 DEF SameKind, AppendPlaces, PrependPlaces, RemovalPlaces, FindPlaces, Unlinked,
     Uncounted, Uncounting, Removed
<1> QED
  BY <1>0, <1>1, <1>2, <1>3, <1>4, <1>5, QuietMove DEF Prepends, Removed

-----------------------------------------------------------------------------
(* Finds *)

\* What the call of an idle thread makes of the locals.
Begun(op, vs, k) == [Blank EXCEPT !.op = op, !.want = vs, !.left = k]
Asked(op, vs)    == [Blank EXCEPT !.op = op, !.want = vs]

LEMMA Begins ==
  ASSUME NEW op \in Ops, NEW vs \in SUBSET Values, NEW k \in 0 .. MaxRetries
  PROVE  /\ Begun(op, vs, k) \in Locals /\ Begun(op, vs, k).op = op
         /\ Asked(op, vs) \in Locals /\ Asked(op, vs).op = op /\ Asked(op, vs).want = vs
BY BlankType DEF Begun, Asked, Locals, Blank

LEMMA StartRemovalStep ==
  ASSUME GroupsApart, NEW s, InvOf(s), NEW t \in Threads, NEW op \in Removals,
         NEW vs \in SUBSET Values, StartRemoval(t, op, vs)
  PROVE  InvOf(s)'
<1>0. /\ Typed /\ at[t] = "idle" /\ UNCHANGED shared /\ op \in Ops \ {"none"}
      /\ limit \in 0 .. MaxRetries
  BY ListAssumption DEF InvOf, ListShape, StartRemoval, Typed, Removals, Ops
<1> DEFINE l == Begun(op, vs, limit)
<1>1. l \in Locals /\ l.op = op
  BY <1>0, Begins
<1>2. Moved(t, "top", l, due[t])
  BY <1>0, MovedBy DEF StartRemoval, Begun
<1> HIDE DEF l
<1>3. /\ at'[t] = "top" /\ loc'[t] = l /\ due'[t] = due[t] /\ Others(t)
      /\ at' \in [Threads -> Places] /\ loc' \in [Threads -> Locals]
      /\ due' \in [Threads -> SUBSET Nodes]
  BY <1>0, <1>1, <1>2, MovedFacts, LocalTypes DEF Places
<1>4. Calls(t)' /\ Adds(t, s)' /\ Knows(t, s)'
  BY <1>1, <1>3 DEF Calls, Adds, Knows, AppendKnows, PrependKnows, RemovalKnows, FindKnows,
     Unlinked, Uncounted, Uncounting, Removed, FindPlaces, RemovalPlaces,
     Appends, Prepends, Removals, Finds
<1>5. Quiet(t)
  BY <1>0, <1>3 DEF Quiet, PrivateOf, Unlinked, Uncounted, Uncounting, Removed
<1>6. Company(t, op)
  BY <1>0, StartsAccompanied DEF StartRemoval
<1> QED
  BY <1>1, <1>3, <1>4, <1>5, <1>6, QuietStep

\* The head may be null while an append is about to set it.
LEMMA HeadIn ==
  ASSUME NEW s, InvOf(s)
  PROVE  /\ head.ptr \in In(s) \cup {Null}
         /\ head.ptr # Null => head.ptr = FirstOf(s)
         /\ Reach(head.ptr) = Ahead(s, head.ptr)
<1>1. HeadRight(s) /\ Path(next, s) /\ \A u \in Threads : Knows(u, s)
  BY DEF InvOf, ListShape
<1>2. \A u \in Threads : at[u] \in {"loadHead", "setHead"} => head.ptr = Null
  BY <1>1 DEF Knows, AppendKnows
<1>3. head.ptr = FirstOf(s) \/ head.ptr = Null
  BY <1>1, <1>2 DEF HeadRight
<1>4. head.ptr \in In(s) \cup {Null}
  BY <1>1, <1>3, EmptyPath
<1> QED
  BY <1>1, <1>3, <1>4, AheadIsReach DEF Reach, Chain

LEMMA StartFindStep ==
  ASSUME GroupsApart, NEW s, InvOf(s), NEW t \in Threads, NEW op \in Finds,
         NEW vs \in SUBSET Values, StartFind(t, op, vs)
  PROVE  InvOf(s)'
<1>0. Typed /\ at[t] = "idle" /\ UNCHANGED shared /\ op \in Ops \ {"none"} /\ Path(next, s)
  BY DEF InvOf, ListShape, StartFind, Finds, Ops
<1> DEFINE l == Asked(op, vs)
           d == {n \in Range(Listed) : value[n] \in vs}
<1>1. l \in Locals /\ l.op = op /\ l.want = vs
  BY <1>0, Begins, ListAssumption
<1>2. d \subseteq In(s) /\ d \in SUBSET Nodes /\ \A n \in d : value[n] \in vs
  <2>1. Listed = s /\ In(s) \subseteq Nodes
    BY <1>0, ListedIs, PathFacts DEF InvOf
  <2>2. Range(s) = In(s)
    <3>1. s \in Seq(Nodes)
      BY <1>0 DEF Path
    <3> QED
      BY <3>1 DEF Range, In
  <2> QED
    BY <2>1, <2>2
<1>3. Moved(t, "begin", l, d)
  BY DEF StartFind, Asked, Moved, Go, Set
<1> HIDE DEF l, d
<1>4. /\ at'[t] = "begin" /\ loc'[t] = l /\ due'[t] = d /\ Others(t)
      /\ at' \in [Threads -> Places] /\ loc' \in [Threads -> Locals]
      /\ due' \in [Threads -> SUBSET Nodes]
  BY <1>0, <1>1, <1>2, <1>3, MovedFacts DEF Places
<1>5. Calls(t)' /\ Adds(t, s)' /\ AppendKnows(t, s)' /\ PrependKnows(t, s)' /\ RemovalKnows(t, s)'
  BY <1>1, <1>4 DEF Calls, Adds, AppendKnows, PrependKnows, RemovalKnows,
     Unlinked, Uncounted, Uncounting, Removed, FindPlaces,
     Appends, Prepends, Removals, Finds
<1>6. FindKnows(t, s)'
  BY <1>0, <1>1, <1>2, <1>4 DEF FindKnows, shared
<1>7. Quiet(t)
  BY <1>0, <1>4 DEF Quiet, PrivateOf, Unlinked, Uncounted, Uncounting, Removed
<1>8. Company(t, op)
  BY <1>0, StartsAccompanied DEF StartFind
<1> QED
  BY <1>1, <1>4, <1>5, <1>6, <1>7, <1>8, QuietStep DEF Knows

LEMMA BeginFindStep ==
  ASSUME NEW s, InvOf(s), NEW t \in Threads, loc[t].op \in Finds, BeginFind(t)
  PROVE  InvOf(s)'
<1>0. Typed /\ Knows(t, s) /\ at[t] = "begin" /\ UNCHANGED <<shared, due>>
  BY DEF InvOf, ListShape, BeginFind
<1> DEFINE l == SetCur(loc[t], head)
<1>1. /\ l \in Locals /\ l.op = loc[t].op /\ l.node = loc[t].node /\ l.cur = head
      /\ l.want = loc[t].want
  BY <1>0, LocalTypes, SetCurs DEF Typed
<1>2. Moved(t, "visit", l, due[t])
  BY <1>0, MovedBy DEF BeginFind, SetCur
<1> HIDE DEF l
<1>3. at'[t] = "visit" /\ loc'[t] = l /\ "visit" \in Places
  BY <1>0, <1>2, MovedFacts DEF Places
<1>4. FindKnows(t, s)'
  <2>1. Path(next, s) /\ head.ptr \in In(s) \cup {Null}
    BY HeadIn DEF InvOf, ListShape
  <2>2. head.ptr # Null => In(s) \subseteq Ahead(s, head.ptr)
    BY <2>1, HeadIn, EmptyPath
  <2> QED
    BY <1>0, <1>1, <1>3, <2>1, <2>2 DEF Knows, FindKnows, FindPlaces, shared
<1>5. AppendKnows(t, s)' /\ PrependKnows(t, s)' /\ RemovalKnows(t, s)'
  BY <1>3 DEF AppendKnows, PrependKnows, RemovalKnows, Unlinked, Removed, Uncounting
<1>6. SameKind(at[t], "visit")
  BY <1>0 DEF SameKind, AppendPlaces, PrependPlaces, RemovalPlaces, FindPlaces, Unlinked,
     Uncounted, Uncounting, Removed
<1> QED
  BY <1>0, <1>1, <1>2, <1>3, <1>4, <1>5, <1>6, QuietMove DEF Finds, Removed, Knows

\* A find stays behind what it has to find: it passes a node with another value only.
LEMMA VisitStep ==
  ASSUME NEW s, InvOf(s), NEW t \in Threads, loc[t].op \in Finds, Visit(t)
  PROVE  InvOf(s)'
<1>0. Typed /\ Knows(t, s) /\ at[t] = "visit" /\ UNCHANGED shared /\ Path(next, s)
  BY DEF InvOf, ListShape, Visit
<1> DEFINE p == loc[t].cur.ptr
           l == SetCur(loc[t], next[p])
<1>1. CASE p = Null \/ value[p] \in loc[t].want
  <2>1. Return(t)
    BY <1>1 DEF Visit
  <2> QED
    BY <1>0, <2>1, ReturnStep DEF Finds, Unlinked, Uncounted, Uncounting, Removed
<1>2. CASE p # Null /\ value[p] \notin loc[t].want
  <2>1. /\ p \in In(s) /\ p \in Nodes /\ due[t] \subseteq Ahead(s, p) /\ due[t] \subseteq In(s)
        /\ \A n \in due[t] : value[n] \in loc[t].want
    BY <1>0, <1>2, PathFacts DEF Knows, FindKnows, FindPlaces
  <2>2. /\ l \in Locals /\ l.op = loc[t].op /\ l.node = loc[t].node /\ l.cur = next[p]
        /\ l.want = loc[t].want
    <3>1. next[p] \in Refs
      BY <1>0, <2>1 DEF Typed
    <3> QED
      BY <1>0, <3>1, LocalTypes, SetCurs
  <2>3. due[t] \subseteq Ahead(s, next[p].ptr) /\ next[p].ptr \in In(s) \cup {Null}
    <3>1. p \notin due[t]
      BY <1>2, <2>1
    <3>2. CASE p = LastOf(s)
      BY <1>0, <2>1, <3>1, <3>2, AheadFacts
    <3>3. CASE p # LastOf(s)
      BY <1>0, <2>1, <3>1, <3>3, AheadFacts
    <3> QED
      BY <3>2, <3>3
  <2>4. Moved(t, "visit", l, due[t])
    BY <1>0, <1>2, MovedBy DEF Visit, SetCur
  <2> HIDE DEF l
  <2>5. at'[t] = "visit" /\ loc'[t] = l /\ due'[t] = due[t] /\ "visit" \in Places
    BY <1>0, <2>4, MovedFacts DEF Places
  <2>6. FindKnows(t, s)'
    BY <1>0, <2>1, <2>2, <2>3, <2>5 DEF FindKnows, FindPlaces, shared
  <2>7. AppendKnows(t, s)' /\ PrependKnows(t, s)' /\ RemovalKnows(t, s)'
    BY <2>5 DEF AppendKnows, PrependKnows, RemovalKnows, Unlinked, Removed, Uncounting
  <2>8. SameKind(at[t], "visit")
    BY <1>0 DEF SameKind
  <2> QED
    BY <1>0, <2>2, <2>4, <2>5, <2>6, <2>7, <2>8, QuietMove DEF Finds, Removed, Knows
<1> QED
  BY <1>1, <1>2

LEMMA SetMaxRetriesStep ==
  ASSUME NEW s, InvOf(s), NEW m \in 1 .. MaxRetries, SetMaxRetries(m)
  PROVE  InvOf(s)'
<1>1. UNCHANGED <<pool, head, tail, next, value, size, at, loc, due>> /\ limit' = m
  BY DEF SetMaxRetries
<1>2. Typed'
  BY <1>1 DEF InvOf, Typed
<1>3. Path(next', s) /\ HeadRight(s)' /\ TailRight(s)' /\ Shared(s)' /\ Counted(s)'
  BY <1>1 DEF InvOf, ListShape, HeadRight, TailRight, Shared, Private, Counted
<1>4. \A t \in Threads : Calls(t)' /\ Adds(t, s)' /\ Knows(t, s)'
  BY <1>1 DEF InvOf, ListShape, Calls, Adds, Knows, AppendKnows, PrependKnows, RemovalKnows,
     FindKnows
<1>5. \A t, u \in Threads : t # u => Apart(t, u)'
  BY <1>1 DEF InvOf, ListShape, Apart, Together2
<1> QED
  BY <1>2, <1>3, <1>4, <1>5 DEF InvOf, ListShape

-----------------------------------------------------------------------------
(* Steps on a node that only their thread can reach *)

Belongs(t, n) ==
  /\ Untouched(t, n)
  /\ size' = size
  /\ at[t] \in Uncounted <=> at'[t] \in Uncounted
  /\ at[t] \in Uncounting <=> at'[t] \in Uncounting
  /\ at[t] \notin {"loadHead", "setHead", "swing", "checkTail", "setTail", "loadEnd", "setEnd"}
  /\ pool \cup PrivateOf(t) \subseteq pool' \cup PrivateOf(t)'

Retyped ==
  /\ pool' \in SUBSET Nodes
  /\ next' \in [Nodes -> Refs]
  /\ value' \in [Nodes -> Values]
  /\ limit' \in 1 .. MaxRetries
  /\ at' \in [Threads -> Places]
  /\ loc' \in [Threads -> Locals]
  /\ due' \in [Threads -> SUBSET Nodes]

LEMMA PrivateStep ==
  ASSUME NEW s, InvOf(s), NEW t \in Threads, NEW op, Company(t, op),
         NEW n, n \notin In(s), Belongs(t, n), Retyped,
         pool' \cap In(s) = {},
         loc'[t].op \in {op, "none"},
         at'[t] \in Unlinked \cup Uncounted =>
           \A u \in Threads : u # t /\ at[u] \in Unlinked \cup Uncounted =>
             loc'[t].node # loc[u].node,
         Calls(t)', Adds(t, s)', Knows(t, s)'
  PROVE  InvOf(s)'
<1>0. Untouched(t, n) /\ Others(t)
  BY DEF Belongs, Untouched
<1>1. Path(next', s) /\ HeadRight(s)' /\ TailRight(s)'
  BY <1>0, SamePath DEF Belongs
<1>2. Shared(s)'
  <2>1. pool \cup In(s) \cup PrivateOf(t) \subseteq pool' \cup In(s) \cup PrivateOf(t)'
    BY DEF Belongs
  <2> QED
    BY <1>0, <2>1, StaysShared
<1>3. \A u \in Threads : Calls(u)' /\ Adds(u, s)' /\ Knows(u, s)'
  BY <1>0, OthersKnow
<1>4. \A u, v \in Threads : u # v => Apart(u, v)'
  <2>1. loc'[t].op = "none" \/ Company(t, loc'[t].op)
    OBVIOUS
  <2> QED
    BY <1>0, <2>1, StaysApart
<1>5. Counted(s)'
  BY <1>0, StaysCounted DEF Belongs
<1>6. Typed'
  BY DEF InvOf, Typed, Retyped, Belongs, Untouched
<1> QED
  BY <1>1, <1>2, <1>3, <1>4, <1>5, <1>6 DEF InvOf, ListShape

\* What a call makes of the locals for a node.
Holding(op, n, k)      == [Blank EXCEPT !.op = op, !.node = n, !.left = k]
HoldingAt(op, n, c, k) == [Blank EXCEPT !.op = op, !.node = n, !.cur = c, !.left = k]

LEMMA Holdings ==
  ASSUME NEW op \in Ops, NEW n \in Nodes, NEW c \in Refs, NEW k \in 0 .. MaxRetries
  PROVE  /\ Holding(op, n, k) \in Locals
         /\ Holding(op, n, k).op = op
         /\ Holding(op, n, k).node = n
         /\ HoldingAt(op, n, c, k) \in Locals
         /\ HoldingAt(op, n, c, k).op = op
         /\ HoldingAt(op, n, c, k).node = n
         /\ HoldingAt(op, n, c, k).cur = c
<1>1. n \in Pointers
  BY DEF Pointers
<1> QED
  BY <1>1, BlankType DEF Holding, HoldingAt, Locals, Blank

\* A free node is in nobody's hands.
LEMMA FreeIsFree ==
  ASSUME NEW s, InvOf(s), NEW n \in pool
  PROVE  /\ n \in Nodes \ In(s)
         /\ \A u \in Threads : n \notin PrivateOf(u)
         /\ \A u \in Threads : at[u] \in Unlinked \cup Uncounted => loc[u].node # n
<1>1. /\ n \in Nodes /\ pool \cap In(s) = {} /\ \A u \in Threads : Adds(u, s)
  BY DEF InvOf, ListShape, Shared, Typed
<1> QED
  BY <1>1, PrivateNodes DEF Adds

LEMMA StartBackStep ==
  ASSUME GroupsApart, NEW s, InvOf(s), NEW t \in Threads, NEW op \in Appends, NEW v \in Values,
         StartBack(t, op, v)
  PROVE  InvOf(s)'
<1>0. Typed /\ at[t] = "idle" /\ op \in Ops \ {"none"} /\ limit \in 0 .. MaxRetries
  BY ListAssumption DEF InvOf, ListShape, StartBack, Typed, Appends, Ops
<1>1. PICK n \in pool :
        /\ pool' = pool \ {n}
        /\ next' = [next EXCEPT ![n] = NullRef]
        /\ value' = [value EXCEPT ![n] = v]
        /\ Set(t, Holding(op, n, limit))
  BY DEF StartBack, Holding
<1>2. /\ n \in Nodes \ In(s) /\ \A u \in Threads : n \notin PrivateOf(u)
      /\ \A u \in Threads : at[u] \in Unlinked \cup Uncounted => loc[u].node # n
  BY FreeIsFree
<1> DEFINE l == Holding(op, n, limit)
<1>3. l \in Locals /\ l.op = op /\ l.node = n
  BY <1>0, <1>2, Holdings, RefTypes
<1>4. Moved(t, "loadTail", l, due[t]) /\ UNCHANGED <<head, tail, size, limit>>
  BY <1>0, <1>1, MovedBy DEF StartBack
<1> HIDE DEF l
<1>5. /\ at'[t] = "loadTail" /\ loc'[t] = l /\ due'[t] = due[t] /\ Others(t)
      /\ at' \in [Threads -> Places] /\ loc' \in [Threads -> Locals]
      /\ due' \in [Threads -> SUBSET Nodes]
  BY <1>0, <1>3, <1>4, MovedFacts, LocalTypes DEF Places
<1>6. /\ pool' \in SUBSET Nodes /\ next' \in [Nodes -> Refs] /\ value' \in [Nodes -> Values]
      /\ next'[n].ptr = Null /\ n \notin pool'
      /\ \A m \in Nodes : m # n => next'[m] = next[m] /\ value'[m] = value[m]
      /\ \A m \in Nodes : m # n => (m \in pool' <=> m \in pool)
  BY <1>0, <1>1, <1>2, RefTypes DEF Typed
<1>7. Untouched(t, n)
  BY <1>2, <1>4, <1>5, <1>6 DEF Untouched
<1>8. Belongs(t, n)
  BY <1>0, <1>1, <1>3, <1>4, <1>5, <1>7 DEF Belongs, PrivateOf, Unlinked, Uncounted, Uncounting,
     Removed
<1>9. Retyped
  BY <1>0, <1>4, <1>5, <1>6 DEF Retyped, Typed
<1>10. Calls(t)' /\ Adds(t, s)' /\ Knows(t, s)'
  BY <1>2, <1>3, <1>5, <1>6 DEF Calls, Adds, Knows, AppendKnows, PrependKnows, RemovalKnows,
     FindKnows, Unlinked, Uncounted, Uncounting, Removed, FindPlaces, AppendPlaces,
     Appends, Prepends, Removals, Finds
<1>11. pool' \cap In(s) = {}
  BY <1>1 DEF InvOf, ListShape, Shared
<1>12. Company(t, op)
  BY <1>0, StartsAccompanied DEF StartBack
<1> QED
  BY <1>2, <1>3, <1>5, <1>8, <1>9, <1>10, <1>11, <1>12, PrivateStep

LEMMA StartFrontStep ==
  ASSUME GroupsApart, NEW s, InvOf(s), NEW t \in Threads, NEW op \in Prepends, NEW v \in Values,
         StartFront(t, op, v)
  PROVE  InvOf(s)'
<1>0. Typed /\ at[t] = "idle" /\ op \in Ops \ {"none"} /\ limit \in 0 .. MaxRetries
  BY ListAssumption DEF InvOf, ListShape, StartFront, Typed, Prepends, Ops
<1>1. PICK n \in pool :
        /\ pool' = pool \ {n}
        /\ next' = [next EXCEPT ![n] = head]
        /\ value' = [value EXCEPT ![n] = v]
        /\ Set(t, HoldingAt(op, n, head, limit))
  BY DEF StartFront, HoldingAt
<1>2. /\ n \in Nodes \ In(s) /\ \A u \in Threads : n \notin PrivateOf(u)
      /\ \A u \in Threads : at[u] \in Unlinked \cup Uncounted => loc[u].node # n
  BY FreeIsFree
<1> DEFINE l == HoldingAt(op, n, head, limit)
<1>3. l \in Locals /\ l.op = op /\ l.node = n /\ l.cur = head
  <2>1. head \in Refs
    BY <1>0 DEF Typed
  <2> QED
    BY <1>0, <1>2, <2>1, Holdings
<1>4. Moved(t, "pushHead", l, due[t]) /\ UNCHANGED <<head, tail, size, limit>>
  BY <1>0, <1>1, MovedBy DEF StartFront
<1> HIDE DEF l
<1>5. /\ at'[t] = "pushHead" /\ loc'[t] = l /\ due'[t] = due[t] /\ Others(t)
      /\ at' \in [Threads -> Places] /\ loc' \in [Threads -> Locals]
      /\ due' \in [Threads -> SUBSET Nodes]
  BY <1>0, <1>3, <1>4, MovedFacts, LocalTypes DEF Places
<1>6. /\ pool' \in SUBSET Nodes /\ next' \in [Nodes -> Refs] /\ value' \in [Nodes -> Values]
      /\ next'[n] = head /\ n \notin pool'
      /\ \A m \in Nodes : m # n => next'[m] = next[m] /\ value'[m] = value[m]
      /\ \A m \in Nodes : m # n => (m \in pool' <=> m \in pool)
  BY <1>0, <1>1, <1>2 DEF Typed
<1>7. Untouched(t, n)
  BY <1>2, <1>4, <1>5, <1>6 DEF Untouched
<1>8. Belongs(t, n)
  BY <1>0, <1>1, <1>3, <1>4, <1>5, <1>7 DEF Belongs, PrivateOf, Unlinked, Uncounted, Uncounting,
     Removed
<1>9. Retyped
  BY <1>0, <1>4, <1>5, <1>6 DEF Retyped, Typed
<1>10. Calls(t)' /\ Adds(t, s)' /\ Knows(t, s)'
  BY <1>2, <1>3, <1>5, <1>6 DEF Calls, Adds, Knows, AppendKnows, PrependKnows, RemovalKnows,
     FindKnows, Unlinked, Uncounted, Uncounting, Removed, FindPlaces, PrependPlaces,
     Appends, Prepends, Removals, Finds
<1>11. pool' \cap In(s) = {}
  BY <1>1 DEF InvOf, ListShape, Shared
<1>12. Company(t, op)
  BY <1>0, StartsAccompanied DEF StartFront
<1> QED
  BY <1>2, <1>3, <1>5, <1>8, <1>9, <1>10, <1>11, <1>12, PrivateStep

\* Without retries left a call gives its node back.
LEMMA GiveBackStep ==
  ASSUME NEW s, InvOf(s), NEW t \in Threads, loc[t].op # "none",
         at[t] \in {"loadTail", "pushHead"}, Return(t),
         pool' = pool \union {loc[t].node}, UNCHANGED <<head, tail, next, value, size, limit>>
  PROVE  InvOf(s)'
<1>0. Typed /\ Adds(t, s) /\ at[t] \in Unlinked
  BY DEF InvOf, ListShape, Unlinked
<1> DEFINE n == loc[t].node
<1>1. n \in Nodes \ In(s) /\ PrivateOf(t) = {n}
  BY <1>0 DEF Adds, PrivateOf
<1>2. \A u \in Threads : u # t => n \notin PrivateOf(u)
  BY <1>1, PrivateNodes
<1>3. /\ at'[t] = "idle" /\ loc'[t] = Blank /\ due'[t] = {} /\ Others(t)
      /\ at' \in [Threads -> Places] /\ loc' \in [Threads -> Locals]
      /\ due' \in [Threads -> SUBSET Nodes]
  BY <1>0, MovedBy, MovedFacts, BlankType DEF Places
<1>4. Untouched(t, n)
  BY <1>2, <1>3 DEF Untouched
<1>5. Belongs(t, n)
  BY <1>0, <1>1, <1>3, <1>4 DEF Belongs, Uncounted, Uncounting, Removed
<1>6. Retyped
  BY <1>0, <1>1, <1>3 DEF Retyped, Typed
<1>7. Calls(t)' /\ Adds(t, s)' /\ Knows(t, s)'
  BY <1>3, BlankType DEF Calls, Adds, Knows, AppendKnows, PrependKnows, RemovalKnows, FindKnows,
     Unlinked, Uncounted, Uncounting, Removed, FindPlaces, Appends, Prepends, Removals, Finds
<1>8. pool' \cap In(s) = {}
  BY <1>1 DEF InvOf, ListShape, Shared
<1>9. Company(t, loc[t].op) /\ at'[t] \notin Unlinked \cup Uncounted
  BY <1>3, Accompanied DEF Unlinked, Uncounted
<1> QED
  BY <1>1, <1>3, <1>5, <1>6, <1>7, <1>8, <1>9, BlankType, PrivateStep

\* After a failed CAS the node is linked to the new head.
LEMMA PushAgainStep ==
  ASSUME NEW s, InvOf(s), NEW t \in Threads, loc[t].op \in Prepends, at[t] = "pushHead",
         loc[t].left > 0,
         next' = [next EXCEPT ![loc[t].node] = head],
         Set(t, Again(loc[t], loc[t].left - 1, head)),
         UNCHANGED <<pool, head, at, due, tail, value, size, limit>>
  PROVE  InvOf(s)'
<1>0. Typed /\ Adds(t, s) /\ Calls(t) /\ Knows(t, s) /\ at[t] \in Unlinked
  BY DEF InvOf, ListShape, Unlinked
<1> DEFINE n == loc[t].node
           l == Again(loc[t], loc[t].left - 1, head)
<1>1. n \in Nodes \ (pool \cup In(s)) /\ PrivateOf(t) = {n}
  BY <1>0 DEF Adds, PrivateOf
<1>2. \A u \in Threads : u # t => n \notin PrivateOf(u)
  BY <1>1, PrivateNodes
<1>3. l \in Locals /\ l.op = loc[t].op /\ l.node = n /\ l.cur = head
  <2>1. head \in Refs /\ loc[t] \in Locals
    BY <1>0, LocalTypes DEF Typed
  <2>2. loc[t].left - 1 \in 0 .. MaxRetries
    BY <2>1, OneRetryLess
  <2> QED
    BY <2>1, <2>2, Retries
<1>4. Moved(t, at[t], l, due[t])
  BY <1>0, MovedBy
<1> HIDE DEF l
<1>5. /\ at'[t] = at[t] /\ loc'[t] = l /\ due'[t] = due[t] /\ Others(t)
      /\ at' \in [Threads -> Places] /\ loc' \in [Threads -> Locals]
      /\ due' \in [Threads -> SUBSET Nodes]
  BY <1>0, <1>3, <1>4, MovedFacts, LocalTypes
<1>6. /\ next' \in [Nodes -> Refs] /\ next'[n] = head
      /\ \A m \in Nodes : m # n => next'[m] = next[m]
  BY <1>0, <1>1 DEF Typed
<1>7. Untouched(t, n)
  BY <1>2, <1>5, <1>6 DEF Untouched
<1>8. Belongs(t, n)
  BY <1>0, <1>3, <1>5, <1>7 DEF Belongs, PrivateOf
<1>9. Retyped
  BY <1>0, <1>5, <1>6 DEF Retyped, Typed
<1>10. Calls(t)' /\ Adds(t, s)' /\ Knows(t, s)'
  BY <1>0, <1>1, <1>3, <1>5, <1>6 DEF Calls, Adds, Knows, AppendKnows, PrependKnows, RemovalKnows,
     FindKnows, Unlinked, Uncounted, Uncounting, Removed, FindPlaces, PrependPlaces,
     Appends, Prepends, Removals, Finds
<1>11. pool' \cap In(s) = {}
  BY DEF InvOf, ListShape, Shared
<1>12. Company(t, loc[t].op)
  BY Accompanied DEF Prepends
<1>13. \A u \in Threads : u # t /\ at[u] \in Unlinked \cup Uncounted => l.node # loc[u].node
  BY <1>0, <1>3 DEF InvOf, ListShape, Apart
<1> QED
  BY <1>1, <1>3, <1>5, <1>8, <1>9, <1>10, <1>11, <1>12, <1>13, PrivateStep

LEMMA FreeNodeStep ==
  ASSUME NEW s, InvOf(s), NEW t \in Threads, loc[t].op \in Removals, FreeNode(t)
  PROVE  InvOf(s)'
<1>0. /\ Typed /\ Knows(t, s) /\ Calls(t) /\ at[t] = "free"
      /\ UNCHANGED <<head, tail, next, value, size, limit>>
  BY DEF InvOf, ListShape, FreeNode
<1> DEFINE n == loc[t].cur.ptr
<1>1. n \in Nodes \ In(s) /\ PrivateOf(t) = {n}
  BY <1>0 DEF Knows, RemovalKnows, PrivateOf, Uncounting, Removed, Unlinked
<1>2. \A u \in Threads : u # t => n \notin PrivateOf(u)
  BY <1>1, PrivateNodes
<1>3. Moved(t, "uncount", loc[t], due[t]) /\ pool' = pool \union {n}
  BY <1>0, MovedBy DEF FreeNode
<1>4. /\ at'[t] = "uncount" /\ loc'[t] = loc[t] /\ due'[t] = due[t] /\ Others(t)
      /\ at' \in [Threads -> Places] /\ loc' \in [Threads -> Locals]
      /\ due' \in [Threads -> SUBSET Nodes]
  BY <1>0, <1>3, MovedFacts, LocalTypes DEF Places
<1>5. Untouched(t, n)
  BY <1>0, <1>2, <1>3, <1>4 DEF Untouched
<1>6. Belongs(t, n)
  BY <1>0, <1>1, <1>3, <1>4, <1>5 DEF Belongs, Uncounted, Uncounting, Removed
<1>7. Retyped
  BY <1>0, <1>1, <1>3, <1>4 DEF Retyped, Typed
<1>8. Calls(t)' /\ Adds(t, s)' /\ Knows(t, s)'
  BY <1>0, <1>1, <1>4 DEF Calls, Adds, Knows, AppendKnows, PrependKnows, RemovalKnows, FindKnows,
     Unlinked, Uncounted, Uncounting, Removed, FindPlaces, RemovalPlaces,
     Appends, Prepends, Removals, Finds
<1>9. pool' \cap In(s) = {}
  BY <1>1, <1>3 DEF InvOf, ListShape, Shared
<1>10. Company(t, loc[t].op) /\ at'[t] \notin Unlinked \cup Uncounted
  BY <1>4, Accompanied DEF Unlinked, Uncounted, Removals
<1> QED
  BY <1>1, <1>4, <1>6, <1>7, <1>8, <1>9, <1>10, PrivateStep

-----------------------------------------------------------------------------
(* Counting the node added or removed *)

LEMMA CountingStep ==
  ASSUME NEW s, InvOf(s), NEW t \in Threads, Others(t),
         UNCHANGED <<pool, head, tail, next, value, limit>>,
         at'[t] \in {"idle", "top"},
         \/ at[t] = "count" /\ size' = size + 1
         \/ at[t] = "uncount" /\ size' = size - 1,
         at' \in [Threads -> Places], loc' \in [Threads -> Locals],
         due' \in [Threads -> SUBSET Nodes],
         NEW op, Company(t, op), loc'[t].op \in {op, "none"},
         Calls(t)', Adds(t, s)', Knows(t, s)'
  PROVE  InvOf(s)'
<1>1. Null \notin In(s) /\ Untouched(t, Null)
  <2>1. Path(next, s)
    BY DEF InvOf, ListShape
  <2>2. \A u \in Threads : Null \notin PrivateOf(u)
    BY PrivateNodes, ListAssumption
  <2> QED
    BY <2>1, <2>2, PathFacts DEF Untouched
<1>2. Path(next', s) /\ HeadRight(s)' /\ TailRight(s)'
  BY <1>1, SamePath
<1>3. Shared(s)'
  <2>1. pool \cap In(s) = {} /\ PrivateOf(t) = {}
    BY DEF InvOf, ListShape, Shared, PrivateOf, Unlinked, Removed
  <2> QED
    BY <2>1, StaysShared
<1>4. \A u \in Threads : Calls(u)' /\ Adds(u, s)' /\ Knows(u, s)'
  BY <1>1, OthersKnow
<1>5. \A u, v \in Threads : u # v => Apart(u, v)'
  <2>1. at'[t] \notin Unlinked \cup Uncounted
    BY DEF Unlinked, Uncounted
  <2>2. loc'[t].op = "none" \/ Company(t, loc'[t].op)
    OBVIOUS
  <2> QED
    BY <2>1, <2>2, StaysApart
<1>6. Counted(s)'
  <2>1. /\ size \in Int /\ size + Cardinality(Adding) = Len(s) + Cardinality(Taking)
        /\ Cardinality(Adding) \in Int /\ Cardinality(Taking) \in Int
    <3>1. size \in Int /\ size + Cardinality(Adding) = Len(s) + Cardinality(Taking)
      BY DEF InvOf, Typed, Counted, Adding, Taking
    <3>2. Cardinality(Adding) \in Int /\ Cardinality(Taking) \in Int
      BY CountsFinite, FS_CardinalityType
    <3> QED
      BY <3>1, <3>2
  <2>2. CASE at[t] = "count" /\ size' = size + 1
    <3>1. /\ Cardinality(Adding)' = Cardinality(Adding) - 1
          /\ Cardinality(Taking)' = Cardinality(Taking)
      BY <2>2, CountsChange DEF Uncounted, Uncounting, Removed
    <3> QED
      BY <2>1, <2>2, <3>1 DEF Counted, Adding, Taking
  <2>3. CASE at[t] = "uncount" /\ size' = size - 1
    <3>1. /\ Cardinality(Adding)' = Cardinality(Adding)
          /\ Cardinality(Taking)' = Cardinality(Taking) - 1
      BY <2>3, CountsChange DEF Uncounted, Uncounting, Removed
    <3> QED
      BY <2>1, <2>3, <3>1 DEF Counted, Adding, Taking
  <2> QED
    BY <2>2, <2>3
<1>7. Typed'
  BY DEF InvOf, Typed
<1> QED
  BY <1>2, <1>3, <1>4, <1>5, <1>6, <1>7 DEF InvOf, ListShape

LEMMA CountStep ==
  ASSUME NEW s, InvOf(s), NEW t \in Threads, loc[t].op # "none", Count(t)
  PROVE  InvOf(s)'
<1>0. /\ Typed /\ at[t] = "count" /\ size' = size + 1
      /\ UNCHANGED <<pool, head, tail, next, value, limit>>
  BY DEF InvOf, Count
<1>1. /\ at'[t] = "idle" /\ loc'[t] = Blank /\ due'[t] = {} /\ Others(t)
      /\ at' \in [Threads -> Places] /\ loc' \in [Threads -> Locals]
      /\ due' \in [Threads -> SUBSET Nodes]
  BY <1>0, MovedBy, MovedFacts, BlankType DEF Places, Count
<1>2. Calls(t)' /\ Adds(t, s)' /\ Knows(t, s)'
  BY <1>1, BlankType DEF Calls, Adds, Knows, AppendKnows, PrependKnows, RemovalKnows, FindKnows,
     Unlinked, Uncounted, Uncounting, Removed, FindPlaces, Appends, Prepends, Removals, Finds
<1> QED
  BY <1>0, <1>1, <1>2, BlankType, Accompanied, CountingStep

LEMMA UncountStep ==
  ASSUME NEW s, InvOf(s), NEW t \in Threads, loc[t].op \in Removals, Uncount(t)
  PROVE  InvOf(s)'
<1>0. /\ Typed /\ at[t] = "uncount" /\ size' = size - 1 /\ limit \in 0 .. MaxRetries
      /\ UNCHANGED <<pool, head, tail, next, value, limit>> /\ loc[t].op # "none"
  BY ListAssumption DEF InvOf, Uncount, Typed, Removals
<1>1. CASE loc[t].op = "clear"
  <2> DEFINE l == Begun("clear", Values, limit)
  <2>1. l \in Locals /\ l.op = "clear"
    BY <1>0, Begins DEF Ops
  <2>2. Moved(t, "top", l, due[t])
    BY <1>0, <1>1, MovedBy DEF Uncount, Begun
  <2> HIDE DEF l
  <2>3. /\ at'[t] = "top" /\ loc'[t] = l /\ due'[t] = due[t] /\ Others(t)
        /\ at' \in [Threads -> Places] /\ loc' \in [Threads -> Locals]
        /\ due' \in [Threads -> SUBSET Nodes]
    BY <1>0, <2>1, <2>2, MovedFacts, LocalTypes DEF Places
  <2>4. Calls(t)' /\ Adds(t, s)' /\ Knows(t, s)'
    BY <2>1, <2>3 DEF Calls, Adds, Knows, AppendKnows, PrependKnows, RemovalKnows, FindKnows,
       Unlinked, Uncounted, Uncounting, Removed, FindPlaces, RemovalPlaces,
       Appends, Prepends, Removals, Finds
  <2> QED
    BY <1>0, <1>1, <2>1, <2>3, <2>4, Accompanied, CountingStep
<1>2. CASE loc[t].op # "clear"
  <2>1. /\ at'[t] = "idle" /\ loc'[t] = Blank /\ due'[t] = {} /\ Others(t)
        /\ at' \in [Threads -> Places] /\ loc' \in [Threads -> Locals]
        /\ due' \in [Threads -> SUBSET Nodes]
    BY <1>0, <1>2, MovedBy, MovedFacts, BlankType DEF Places, Uncount
  <2>2. Calls(t)' /\ Adds(t, s)' /\ Knows(t, s)'
    BY <2>1, BlankType DEF Calls, Adds, Knows, AppendKnows, PrependKnows, RemovalKnows, FindKnows,
       Unlinked, Uncounted, Uncounting, Removed, FindPlaces, Appends, Prepends, Removals, Finds
  <2> QED
    BY <1>0, <2>1, <2>2, BlankType, Accompanied, CountingStep
<1> QED
  BY <1>1, <1>2

-----------------------------------------------------------------------------
(* Steps that change the links of the list, its head or its tail *)

\* t goes from place p to q, and the list gets n nodes longer.
Lengthens(p, q, n) ==
  \/ /\ p \in Unlinked /\ q \in Uncounted
     /\ n = 1
  \/ /\ p \in {"unlinkHead", "unlink"} /\ q \in {"loadEnd", "free"}
     /\ n = -1
  \/ /\ p \in Unlinked <=> q \in Unlinked
     /\ p \in Uncounted <=> q \in Uncounted
     /\ p \in Uncounting <=> q \in Uncounting
     /\ n = 0

LEMMA LinkingStep ==
  ASSUME NEW s, InvOf(s), NEW t \in Threads, loc[t].op # "none",
         NEW place \in Places, Go(t, place), UNCHANGED <<pool, value, size, limit, loc, due>>,
         head' \in Refs, tail' \in Refs, next' \in [Nodes -> Refs],
         NEW s2, Path(next', s2), HeadRight(s2)', TailRight(s2)',
         pool \cap In(s2) = {},
         In(s) \cup PrivateOf(t) \subseteq In(s2) \cup PrivateOf(t)',
         Calls(t)', \A u \in Threads : Adds(u, s2)' /\ Knows(u, s2)',
         NEW n \in Int, Len(s2) = Len(s) + n, Lengthens(at[t], place, n)
  PROVE  InvOf(s2)'
<1>0. Typed /\ Path(next, s) /\ \A u \in Threads : Calls(u)
  BY DEF InvOf, ListShape
<1>1. Moved(t, place, loc[t], due[t])
  BY <1>0, MovedBy
<1>2. /\ at'[t] = place /\ loc'[t] = loc[t] /\ due'[t] = due[t] /\ Others(t)
      /\ at' \in [Threads -> Places]
  BY <1>0, <1>1, MovedFacts
<1>3. Typed'
  BY <1>0, <1>2 DEF Typed
<1>4. Shared(s2)'
  <2>1. pool \cup In(s) \cup PrivateOf(t) \subseteq pool' \cup In(s2) \cup PrivateOf(t)'
    OBVIOUS
  <2>2. pool' \cap In(s2) = {}
    OBVIOUS
  <2> QED
    BY <1>2, <2>1, <2>2, StaysShared
<1>5. \A u \in Threads : Calls(u)'
  BY <1>0, <1>2 DEF Calls, Others
<1>6. \A u, v \in Threads : u # v => Apart(u, v)'
  <2>1. at'[t] \in Unlinked \cup Uncounted => at[t] \in Unlinked \cup Uncounted
    BY <1>2 DEF Lengthens, Unlinked, Uncounted
  <2>2. at'[t] \in Unlinked \cup Uncounted =>
           \A u \in Threads : u # t /\ at[u] \in Unlinked \cup Uncounted =>
             loc'[t].node # loc[u].node
    BY <1>2, <2>1 DEF InvOf, ListShape, Apart
  <2>3. Company(t, loc'[t].op)
    BY <1>2, Accompanied
  <2> QED
    BY <1>2, <2>2, <2>3, StaysApart
<1>7. Counted(s2)'
  <2>1. size \in Int /\ size + Cardinality(Adding) = Len(s) + Cardinality(Taking)
    BY DEF InvOf, Typed, Counted, Adding, Taking
  <2>2. Cardinality(Adding) \in Int /\ Cardinality(Taking) \in Int /\ Len(s) \in Int
    BY <1>0, CountsFinite, FS_CardinalityType, PathFacts
  <2>3. Cardinality(Taking)' - Cardinality(Adding)' = Cardinality(Taking) - Cardinality(Adding) - n
        /\ Cardinality(Adding)' \in Int /\ Cardinality(Taking)' \in Int
    <3>1. CASE at[t] \in Unlinked /\ place \in Uncounted /\ n = 1
      <4>1. /\ at[t] \notin Uncounted /\ at'[t] \in Uncounted
            /\ at[t] \in Uncounting <=> at'[t] \in Uncounting
        BY <1>2, <3>1 DEF Unlinked, Uncounted, Uncounting, Removed
      <4>2. /\ Cardinality(Adding)' = Cardinality(Adding) + 1
            /\ Cardinality(Taking)' = Cardinality(Taking)
        BY <1>2, <4>1, CountsChange
      <4> QED
        BY <2>2, <3>1, <4>2
    <3>2. CASE at[t] \in {"unlinkHead", "unlink"} /\ place \in {"loadEnd", "free"} /\ n = -1
      <4>1. /\ at[t] \notin Uncounting /\ at'[t] \in Uncounting
            /\ at[t] \in Uncounted <=> at'[t] \in Uncounted
        BY <1>2, <3>2 DEF Unlinked, Uncounted, Uncounting, Removed
      <4>2. /\ Cardinality(Adding)' = Cardinality(Adding)
            /\ Cardinality(Taking)' = Cardinality(Taking) + 1
        BY <1>2, <4>1, CountsChange
      <4> QED
        BY <2>2, <3>2, <4>2
    <3>3. CASE /\ at[t] \in Uncounted <=> place \in Uncounted
               /\ at[t] \in Uncounting <=> place \in Uncounting
               /\ n = 0
      <4>1. /\ Cardinality(Adding)' = Cardinality(Adding)
            /\ Cardinality(Taking)' = Cardinality(Taking)
        BY <1>2, <3>3, CountsChange
      <4> QED
        BY <2>2, <3>3, <4>1
    <3> QED
      BY <3>1, <3>2, <3>3 DEF Lengthens
  <2>4. size + Cardinality(Adding)' = Len(s) + n + Cardinality(Taking)'
    BY <2>1, <2>2, <2>3
  <2> QED
    BY <2>4 DEF Counted, Adding, Taking
<1> QED
  BY <1>3, <1>4, <1>5, <1>6, <1>7 DEF InvOf, ListShape

\* At the head of a list that was empty no other append gets in between: this node is
\* the first, and each thread has a node of its own.
LEMMA SetHeadStep ==
  ASSUME ~ WeakFailure, NEW s, InvOf(s), NEW t \in Threads, loc[t].op \in Appends, SetHead(t)
  PROVE  InvOf(s)'
<1>0. /\ Typed /\ Path(next, s) /\ TailRight(s) /\ at[t] = "setHead"
      /\ \A u \in Threads : Calls(u) /\ Adds(u, s) /\ Knows(u, s)
      /\ UNCHANGED <<pool, tail, next, value, size, limit, loc, due>> /\ Go(t, "count")
  BY DEF InvOf, ListShape, SetHead
<1>1. loc[t].cur = head /\ head.ptr = Null /\ loc[t].node = FirstOf(s) /\ loc[t].node \in Nodes
  <2>1. loc[t].cur = head /\ head.ptr = Null /\ loc[t].node = FirstOf(s)
    BY <1>0 DEF Knows, AppendKnows
  <2>2. loc[t].node \in In(s)
    BY <1>0 DEF Adds, Uncounted
  <2> QED
    BY <1>0, <2>1, <2>2, PathFacts
<1>2. head' = Ref(loc[t].node, loc[t].cur.tag + 1)
  BY <1>1 DEF SetHead, Succeeds, Fails
<1>3. head' \in Refs /\ head'.ptr = FirstOf(s)
  <2>1. loc[t].node \in Pointers /\ loc[t].cur.tag + 1 \in Nat
    BY <1>0, LocalTypes, RefTypes
  <2> QED
    BY <1>1, <1>2, <2>1, RefTypes
<1>4. /\ at' = [at EXCEPT ![t] = "count"] /\ at'[t] = "count"
      /\ \A u \in Threads : u # t => at'[u] = at[u]
  BY <1>0 DEF Go, Typed
<1>5. HeadRight(s)' /\ TailRight(s)'
  BY <1>0, <1>3, <1>4 DEF HeadRight, TailRight
<1>6. Calls(t)'
  BY <1>0, <1>4 DEF Calls, AppendPlaces, PrependPlaces, RemovalPlaces, FindPlaces, Appends,
     Prepends, Removals, Finds
<1>7. ASSUME NEW u \in Threads PROVE Adds(u, s)' /\ Knows(u, s)'
  <2>1. CASE u = t
    BY <1>0, <1>4, <2>1 DEF Adds, Knows, AppendKnows, PrependKnows, RemovalKnows, FindKnows,
       Unlinked, Uncounted, Uncounting, Removed, FindPlaces
  <2>2. CASE u # t
    <3>1. at'[u] = at[u] /\ loc'[u] = loc[u] /\ due'[u] = due[u]
      BY <1>0, <1>4, <2>2
    <3>2. at[u] \notin {"loadHead", "setHead"}
      <4>1. at[u] \in {"loadHead", "setHead"} => loc[u].node = loc[t].node
        BY <1>0, <1>1 DEF Knows, AppendKnows
      <4>2. Apart(t, u)
        BY <2>2 DEF InvOf, ListShape
      <4> QED
        BY <1>0, <4>1, <4>2 DEF Apart, Uncounted
    <3>3. at[u] \notin RemovalPlaces
      BY <2>2, Accompanied DEF Company, Appends
    <3>4. Adds(u, s)'
      BY <1>0, <3>1 DEF Adds
    <3>5. AppendKnows(u, s)' /\ PrependKnows(u, s)'
      BY <1>0, <3>1, <3>2 DEF Knows, AppendKnows, PrependKnows
    <3>6. RemovalKnows(u, s)'
      BY <3>1, <3>3 DEF RemovalKnows, RemovalPlaces, Removed, Uncounting
    <3>7. FindKnows(u, s)'
      BY <1>0, <3>1 DEF Knows, FindKnows
    <3> QED
      BY <3>4, <3>5, <3>6, <3>7 DEF Knows
  <2> QED
    BY <2>1, <2>2
<1>8. PrivateOf(t) = {} /\ pool \cap In(s) = {}
  BY <1>0 DEF PrivateOf, Unlinked, Removed, InvOf, ListShape, Shared
<1>9. Lengthens(at[t], "count", 0) /\ "count" \in Places /\ loc[t].op # "none"
  BY <1>0 DEF Lengthens, Unlinked, Uncounted, Uncounting, Removed, Places, Appends
<1>10. Len(s) = Len(s) + 0 /\ tail' \in Refs /\ next' \in [Nodes -> Refs] /\ Path(next', s)
  BY <1>0, PathFacts DEF Typed
<1> QED
  BY <1>0, <1>3, <1>5, <1>6, <1>7, <1>8, <1>9, <1>10, LinkingStep

\* Likewise for the tail of a list that was empty when its first node was prepended.
LEMMA SetTailStep ==
  ASSUME ~ WeakFailure, NEW s, InvOf(s), NEW t \in Threads, loc[t].op \in Prepends, SetTail(t)
  PROVE  InvOf(s)'
<1>0. /\ Typed /\ Path(next, s) /\ HeadRight(s) /\ at[t] = "setTail"
      /\ \A u \in Threads : Calls(u) /\ Adds(u, s) /\ Knows(u, s)
      /\ UNCHANGED <<pool, head, next, value, size, limit, loc, due>> /\ Go(t, "count")
  BY DEF InvOf, ListShape, SetTail
<1>1. loc[t].cur = tail /\ tail.ptr = Null /\ loc[t].node = LastOf(s) /\ loc[t].node \in Nodes
  <2>1. loc[t].cur = tail /\ tail.ptr = Null /\ loc[t].node = LastOf(s)
    BY <1>0 DEF Knows, PrependKnows
  <2>2. loc[t].node \in In(s)
    BY <1>0 DEF Adds, Uncounted
  <2> QED
    BY <1>0, <2>1, <2>2, PathFacts
<1>2. tail' = Ref(loc[t].node, 0)
  BY <1>1 DEF SetTail, Succeeds, Fails
<1>3. tail' \in Refs /\ tail'.ptr = LastOf(s)
  BY <1>0, <1>1, <1>2, LocalTypes, RefTypes
<1>4. /\ at' = [at EXCEPT ![t] = "count"] /\ at'[t] = "count"
      /\ \A u \in Threads : u # t => at'[u] = at[u]
  BY <1>0 DEF Go, Typed
<1>5. HeadRight(s)' /\ TailRight(s)'
  BY <1>0, <1>3, <1>4 DEF HeadRight, TailRight
<1>6. Calls(t)'
  BY <1>0, <1>4 DEF Calls, AppendPlaces, PrependPlaces, RemovalPlaces, FindPlaces, Appends,
     Prepends, Removals, Finds
<1>7. ASSUME NEW u \in Threads PROVE Adds(u, s)' /\ Knows(u, s)'
  <2>1. CASE u = t
    BY <1>0, <1>4, <2>1 DEF Adds, Knows, AppendKnows, PrependKnows, RemovalKnows, FindKnows,
       Unlinked, Uncounted, Uncounting, Removed, FindPlaces
  <2>2. CASE u # t
    <3>1. at'[u] = at[u] /\ loc'[u] = loc[u] /\ due'[u] = due[u]
      BY <1>0, <1>4, <2>2
    <3>2. at[u] \notin {"checkTail", "setTail"}
      <4>1. at[u] \in {"checkTail", "setTail"} => loc[u].node = loc[t].node
        BY <1>0, <1>1 DEF Knows, PrependKnows
      <4>2. Apart(t, u)
        BY <2>2 DEF InvOf, ListShape
      <4> QED
        BY <1>0, <4>1, <4>2 DEF Apart, Uncounted
    <3>3. at[u] \notin RemovalPlaces /\ at[u] \notin AppendPlaces \ {"count"}
      BY <2>2, Accompanied DEF Company, Prepends
    <3>4. Adds(u, s)' /\ FindKnows(u, s)'
      BY <1>0, <3>1 DEF Adds, Knows, FindKnows
    <3>5. AppendKnows(u, s)'
      BY <3>1, <3>3 DEF AppendKnows, AppendPlaces, Unlinked
    <3>6. PrependKnows(u, s)'
      BY <1>0, <3>1, <3>2 DEF Knows, PrependKnows
    <3>7. RemovalKnows(u, s)'
      BY <3>1, <3>3 DEF RemovalKnows, RemovalPlaces, Removed, Uncounting
    <3> QED
      BY <3>4, <3>5, <3>6, <3>7 DEF Knows
  <2> QED
    BY <2>1, <2>2
<1>8. PrivateOf(t) = {} /\ pool \cap In(s) = {}
  BY <1>0 DEF PrivateOf, Unlinked, Removed, InvOf, ListShape, Shared
<1>9. Lengthens(at[t], "count", 0) /\ "count" \in Places /\ loc[t].op # "none"
  BY <1>0 DEF Lengthens, Unlinked, Uncounted, Uncounting, Removed, Places, Prepends
<1>10. Len(s) = Len(s) + 0 /\ head' \in Refs /\ next' \in [Nodes -> Refs] /\ Path(next', s)
  BY <1>0, PathFacts DEF Typed
<1> QED
  BY <1>0, <1>3, <1>5, <1>6, <1>7, <1>8, <1>9, <1>10, LinkingStep

LEMMA SetEndStep ==
  ASSUME ~ WeakFailure, NEW s, InvOf(s), NEW t \in Threads, loc[t].op \in Removals, SetEnd(t)
  PROVE  InvOf(s)'
<1>0. /\ Typed /\ Path(next, s) /\ HeadRight(s) /\ at[t] = "setEnd"
      /\ \A u \in Threads : Calls(u) /\ Adds(u, s) /\ Knows(u, s)
      /\ UNCHANGED <<pool, head, next, value, size, limit, loc, due>> /\ Go(t, "free")
  BY DEF InvOf, ListShape, SetEnd
<1>1. loc[t].nxt = tail /\ loc[t].prev = LastOf(s)
  BY <1>0 DEF Knows, RemovalKnows
<1>2. tail' = Ref(loc[t].prev, loc[t].nxt.tag + 1)
  BY <1>1 DEF SetEnd, Succeeds, Fails
<1>3. tail' \in Refs /\ tail'.ptr = LastOf(s)
  <2>1. loc[t].prev \in Pointers /\ loc[t].nxt.tag + 1 \in Nat
    BY <1>0, LocalTypes, RefTypes
  <2> QED
    BY <1>1, <1>2, <2>1, RefTypes
<1>4. /\ at' = [at EXCEPT ![t] = "free"] /\ at'[t] = "free"
      /\ \A u \in Threads : u # t => at'[u] = at[u]
  BY <1>0 DEF Go, Typed
<1>5. HeadRight(s)' /\ TailRight(s)'
  BY <1>0, <1>3, <1>4 DEF HeadRight, TailRight
<1>6. Calls(t)'
  BY <1>0, <1>4 DEF Calls, AppendPlaces, PrependPlaces, RemovalPlaces, FindPlaces, Appends,
     Prepends, Removals, Finds
<1>7. ASSUME NEW u \in Threads PROVE Adds(u, s)' /\ Knows(u, s)'
  <2>1. CASE u = t
    BY <1>0, <1>4, <2>1 DEF Adds, Knows, AppendKnows, PrependKnows, RemovalKnows, FindKnows,
       Unlinked, Uncounted, Uncounting, Removed, FindPlaces
  <2>2. CASE u # t
    <3>1. at'[u] = "idle"
      BY <1>4, <2>2, Alone
    <3> QED
      BY <3>1 DEF Adds, Knows, AppendKnows, PrependKnows, RemovalKnows, FindKnows,
         Unlinked, Uncounted, Uncounting, Removed, FindPlaces
  <2> QED
    BY <2>1, <2>2
<1>8. PrivateOf(t) = PrivateOf(t)' /\ pool \cap In(s) = {}
  BY <1>0, <1>4 DEF PrivateOf, Unlinked, Removed, InvOf, ListShape, Shared
<1>9. Lengthens(at[t], "free", 0) /\ "free" \in Places /\ loc[t].op # "none"
  BY <1>0 DEF Lengthens, Unlinked, Uncounted, Uncounting, Removed, Places, Removals
<1>10. Len(s) = Len(s) + 0 /\ head' \in Refs /\ next' \in [Nodes -> Refs] /\ Path(next', s)
  BY <1>0, PathFacts DEF Typed
<1> QED
  BY <1>0, <1>3, <1>5, <1>6, <1>7, <1>8, <1>9, <1>10, LinkingStep

\* While appends are under way a tail that is behind is behind by the one node of a
\* thread about to set it; whoever moves it on moves it to the end.
LEMMA TailMoves ==
  ASSUME NEW s, InvOf(s), NEW t \in Threads, loc[t].op \in Appends, at[t] \in {"help", "swing"},
         NEW place, Go(t, place), place = IF at[t] = "help" THEN "loadTail" ELSE "count",
         UNCHANGED <<pool, head, next, value, size, limit, loc, due>>,
         loc[t].cur = tail, next[tail.ptr].ptr # Null,
         tail' = Ref(next[tail.ptr].ptr, loc[t].cur.tag + 1)
  PROVE  InvOf(s)'
<1>0. /\ Typed /\ Path(next, s) /\ HeadRight(s) /\ TailRight(s)
      /\ \A u \in Threads : Calls(u) /\ Adds(u, s) /\ Knows(u, s)
      /\ Company(t, loc[t].op)
  BY Accompanied DEF InvOf, ListShape, Appends
<1> DEFINE q == next[tail.ptr].ptr
<1>1. tail.ptr \in In(s) /\ tail.ptr # LastOf(s) /\ LastOf(s) \in In(s)
  <2>1. tail.ptr \in Ahead(s, tail.ptr)
    BY <1>0 DEF Knows, AppendKnows
  <2>2. tail.ptr \in In(s)
    BY <2>1 DEF Ahead, In
  <2>3. tail.ptr # LastOf(s) /\ s # <<>>
    BY <1>0, <2>2, AheadFacts, EmptyPath
  <2> QED
    BY <1>0, <2>2, <2>3, EmptyPath
<1>2. q = LastOf(s)
  <2>1. \A u \in Threads : at[u] \notin {"checkTail", "setTail", "loadEnd", "setEnd"}
    BY <1>0 DEF Company, PrependPlaces, RemovalPlaces
  <2>2. PICK u \in Threads : at[u] = "swing" /\ loc[u].cur = tail /\ loc[u].node = LastOf(s)
    BY <1>0, <1>1, <2>1 DEF TailRight
  <2>3. next[loc[u].cur.ptr].ptr = loc[u].node
    BY <1>0, <2>2 DEF Knows, AppendKnows
  <2> QED
    BY <2>2, <2>3
<1>3. tail' \in Refs /\ tail'.ptr = LastOf(s)
  <2>1. q \in Pointers /\ loc[t].cur.tag + 1 \in Nat
    BY <1>0, <1>1, <1>2, LocalTypes, RefTypes, PathFacts
  <2> QED
    BY <1>2, <2>1, RefTypes
<1>4. at' = [at EXCEPT ![t] = place] /\ at'[t] = place /\ \A u \in Threads : u # t => at'[u] = at[u]
  BY <1>0 DEF Go, Typed
<1>5. HeadRight(s)' /\ TailRight(s)'
  BY <1>0, <1>3, <1>4 DEF HeadRight, TailRight
<1>6. Calls(t)'
  BY <1>0, <1>4 DEF Calls, AppendPlaces, PrependPlaces, RemovalPlaces, FindPlaces, Appends,
     Prepends, Removals, Finds
<1>7. ASSUME NEW u \in Threads PROVE Adds(u, s)' /\ Knows(u, s)'
  <2>1. CASE u = t
    <3>1. Adds(t, s)'
      BY <1>0, <1>4 DEF Adds, Unlinked, Uncounted
    <3>2. Knows(t, s)'
      BY <1>0, <1>4 DEF Knows, AppendKnows, PrependKnows, RemovalKnows, FindKnows,
         Unlinked, Uncounting, Removed, FindPlaces
    <3> QED
      BY <2>1, <3>1, <3>2
  <2>2. CASE u # t
    <3>1. at'[u] = at[u] /\ loc'[u] = loc[u] /\ due'[u] = due[u]
      BY <1>0, <1>4, <2>2
    <3>2. /\ at[u] \notin RemovalPlaces
          /\ at[u] \notin PrependPlaces \ {"count"}
      BY <1>0, <2>2 DEF Company
    <3>3. Adds(u, s)' /\ FindKnows(u, s)'
      BY <1>0, <3>1 DEF Adds, Knows, FindKnows
    <3>4. RemovalKnows(u, s)' /\ PrependKnows(u, s)'
      BY <3>1, <3>2 DEF RemovalKnows, RemovalPlaces, Removed, Uncounting, PrependKnows,
         PrependPlaces
    <3>5. at[u] \in {"loadNext", "help", "link", "swing"} =>
            /\ tail'.ptr \in Ahead(s, loc[u].cur.ptr)
            /\ loc[u].cur.ptr # tail'.ptr
      <4> SUFFICES ASSUME at[u] \in {"loadNext", "help", "link", "swing"}
                   PROVE  /\ LastOf(s) \in Ahead(s, loc[u].cur.ptr)
                          /\ loc[u].cur.ptr # LastOf(s)
        BY <1>3
      <4>1. tail.ptr \in Ahead(s, loc[u].cur.ptr)
        BY <1>0 DEF Knows, AppendKnows
      <4>2. loc[u].cur.ptr \in In(s)
        BY <4>1 DEF Ahead, In
      <4> QED
        BY <1>0, <1>1, <4>1, <4>2, AheadFacts
    <3>6. AppendKnows(u, s)'
      BY <1>0, <3>1, <3>5 DEF Knows, AppendKnows
    <3> QED
      BY <3>3, <3>4, <3>6 DEF Knows
  <2> QED
    BY <2>1, <2>2
<1>8. PrivateOf(t) = PrivateOf(t)' /\ pool \cap In(s) = {}
  <2>1. PrivateOf(t) = PrivateOf(t)'
    BY <1>0, <1>4 DEF PrivateOf, Unlinked, Removed
  <2> QED
    BY <2>1 DEF InvOf, ListShape, Shared
<1>9. Lengthens(at[t], place, 0) /\ place \in Places /\ loc[t].op # "none"
  BY DEF Lengthens, Unlinked, Uncounted, Uncounting, Removed, Places, Appends
<1>10. Len(s) = Len(s) + 0 /\ head' \in Refs /\ next' \in [Nodes -> Refs] /\ Path(next', s)
  BY <1>0, PathFacts DEF Typed
<1> QED
  BY <1>0, <1>3, <1>5, <1>6, <1>7, <1>8, <1>9, <1>10, LinkingStep

LEMMA HelpStep ==
  ASSUME NEW s, InvOf(s), NEW t \in Threads, loc[t].op \in Appends, Help(t)
  PROVE  InvOf(s)'
<1>0. /\ at[t] = "help" /\ Go(t, "loadTail")
      /\ UNCHANGED <<pool, head, next, value, size, limit, loc, due>>
      /\ loc[t].nxt.ptr # Null /\ next[loc[t].cur.ptr].ptr = loc[t].nxt.ptr
  BY DEF Help, InvOf, ListShape, Knows, AppendKnows
<1>1. CASE Succeeds(tail, loc[t].cur) /\ tail' = Ref(loc[t].nxt.ptr, loc[t].cur.tag + 1)
  <2>1. tail = loc[t].cur /\ tail' = Ref(next[tail.ptr].ptr, loc[t].cur.tag + 1)
    BY <1>0, <1>1 DEF Succeeds
  <2> QED
    BY <1>0, <2>1, TailMoves
<1>2. CASE UNCHANGED tail
  BY <1>0, <1>2, FailedAppend DEF shared
<1> QED
  BY <1>1, <1>2 DEF Help

LEMMA SwingStep ==
  ASSUME ~ WeakFailure, NEW s, InvOf(s), NEW t \in Threads, loc[t].op \in Appends, Swing(t)
  PROVE  InvOf(s)'
<1>0. /\ at[t] = "swing" /\ Go(t, "count") /\ Path(next, s)
      /\ UNCHANGED <<pool, head, next, value, size, limit, loc, due>>
      /\ next[loc[t].cur.ptr].ptr = loc[t].node /\ loc[t].node \in In(s)
  BY DEF Swing, InvOf, ListShape, Knows, AppendKnows, Adds, Uncounted
<1>1. CASE Succeeds(tail, loc[t].cur) /\ tail' = Ref(loc[t].node, loc[t].cur.tag + 1)
  <2>1. tail = loc[t].cur /\ tail' = Ref(next[tail.ptr].ptr, loc[t].cur.tag + 1)
    BY <1>0, <1>1 DEF Succeeds
  <2>2. next[tail.ptr].ptr # Null
    BY <1>0, <2>1, PathFacts
  <2> QED
    BY <1>0, <2>1, <2>2, TailMoves
<1>2. CASE Fails(tail, loc[t].cur) /\ UNCHANGED tail
  BY <1>0, <1>2, FailedAppend DEF shared, Fails
<1> QED
  BY <1>1, <1>2 DEF Swing

-----------------------------------------------------------------------------
(* Steps that change the list *)

Moves(s, s2) ==
  \/ s2 = s
  \/ \E n \in Nodes \ In(s) : s2 = Append(s, n) \/ s2 = <<n>> \o s
  \/ \E i \in 1 .. Len(s) : s2 = RemoveAt(s, i)

\* The tail of an empty list is null, so that one append alone can set it.
LEMMA ClaimStep ==
  ASSUME NEW s, InvOf(s), NEW t \in Threads, loc[t].op \in Appends, at[t] = "claim",
         loc[t].cur = tail, tail' = Ref(loc[t].node, 0), Go(t, "loadHead"),
         UNCHANGED <<pool, head, next, value, size, limit, loc, due>>,
         NEW n, n = loc[t].node
  PROVE  n \in Nodes \ In(s) /\ InvOf(Append(s, n))'
<1>0. /\ Typed /\ Path(next, s) /\ HeadRight(s) /\ TailRight(s) /\ pool \cap In(s) = {}
      /\ \A u \in Threads : Calls(u) /\ Adds(u, s) /\ Knows(u, s)
      /\ Company(t, loc[t].op)
  BY Accompanied DEF InvOf, ListShape, Appends, Shared
<1> DEFINE s2 == Append(s, n)
<1>1. n \in Nodes \ (pool \cup In(s)) /\ next[n].ptr = Null
  BY <1>0 DEF Adds, Unlinked, Knows, AppendKnows
<1>2. s = <<>> /\ In(s) = {} /\ \A p : Ahead(s, p) = {}
  <2>1. tail.ptr = Null
    BY <1>0 DEF Knows, AppendKnows
  <2>2. s = <<>>
    BY <2>1, TailIn
  <2> QED
    BY <1>0, <2>2, EmptyPath
<1>3. /\ Path(next, s2) /\ Len(s2) = Len(s) + 1 /\ In(s2) = {n} /\ FirstOf(s2) = n
      /\ LastOf(s2) = n
  <2>1. LinkedLast(next, next, s, n)
    BY <1>1, <1>2 DEF LinkedLast
  <2>2. /\ Path(next, s2) /\ Len(s2) = Len(s) + 1 /\ In(s2) = In(s) \cup {n}
        /\ FirstOf(s2) = (IF s = <<>> THEN n ELSE FirstOf(s)) /\ LastOf(s2) = n
        /\ \A q : Ahead(s, q) \subseteq Ahead(s2, q)
    <3>1. Path(next, s) /\ n \in Nodes \ In(s)
      BY <1>0, <1>1
    <3> QED
      BY <3>1, <2>1, AppendPath
  <2> QED
    BY <1>2, <2>2
<1> HIDE DEF s2
<1>4. \A u \in Threads : at[u] \notin Uncounted \cup {"loadNext", "help", "link"}
  <2>1. \A u \in Threads : at[u] \notin Uncounted
    BY <1>0, <1>2 DEF Adds
  <2>2. \A u \in Threads : at[u] \notin {"loadNext", "help", "link"}
    BY <1>0, <1>2 DEF Knows, AppendKnows
  <2> QED
    BY <2>1, <2>2
<1>5. head.ptr = Null
  <2>1. FirstOf(s) = Null
    BY <1>0, <1>2, EmptyPath
  <2> QED
    BY <1>0, <1>4, <2>1 DEF HeadRight, Uncounted
<1>6. tail' \in Refs /\ tail'.ptr = n
  BY <1>1, RefTypes
<1>7. at' = [at EXCEPT ![t] = "loadHead"] /\ at'[t] = "loadHead"
      /\ \A u \in Threads : u # t => at'[u] = at[u]
  BY <1>0 DEF Go, Typed
<1>8. HeadRight(s2)' /\ TailRight(s2)'
  BY <1>3, <1>6, <1>7 DEF HeadRight, TailRight
<1>9. Calls(t)'
  BY <1>0, <1>7 DEF Calls, AppendPlaces, PrependPlaces, RemovalPlaces, FindPlaces, Appends,
     Prepends, Removals, Finds
<1>10. ASSUME NEW u \in Threads PROVE Adds(u, s2)' /\ Knows(u, s2)'
  <2>1. CASE u = t
    <3>1. Adds(t, s2)'
      BY <1>3, <1>7 DEF Adds, Unlinked, Uncounted
    <3>2. AppendKnows(t, s2)'
      BY <1>3, <1>5, <1>7 DEF AppendKnows, Unlinked
    <3>3. PrependKnows(t, s2)' /\ RemovalKnows(t, s2)' /\ FindKnows(t, s2)'
      BY <1>7 DEF PrependKnows, RemovalKnows, FindKnows, Uncounting, Removed, FindPlaces
    <3> QED
      BY <2>1, <3>1, <3>2, <3>3 DEF Knows
  <2>2. CASE u # t
    <3>1. /\ at'[u] = at[u] /\ loc'[u] = loc[u] /\ due'[u] = due[u]
          /\ at[u] \notin Uncounted \cup {"loadNext", "help", "link"}
      BY <1>4, <1>7, <2>2
    <3>2. /\ at[u] \notin RemovalPlaces
          /\ at[u] \notin PrependPlaces \ {"count"}
      BY <1>0, <2>2 DEF Company
    <3>3. Adds(u, s2)'
      <4>1. at[u] \in Unlinked => loc[u].node # n
        BY <2>2 DEF InvOf, ListShape, Apart, Unlinked
      <4> QED
        BY <1>0, <1>2, <1>3, <3>1, <4>1 DEF Adds
    <3>4. AppendKnows(u, s2)'
      BY <1>0, <3>1 DEF Knows, AppendKnows, Uncounted
    <3>5. RemovalKnows(u, s2)' /\ PrependKnows(u, s2)'
      BY <3>1, <3>2 DEF RemovalKnows, RemovalPlaces, Removed, Uncounting, PrependKnows,
         PrependPlaces
    <3>6. FindKnows(u, s2)'
      <4>1. at[u] \in FindPlaces => due[u] = {}
        BY <1>0, <1>2 DEF Knows, FindKnows
      <4>2. at[u] = "visit" => loc[u].cur.ptr = Null
        BY <1>0, <1>2 DEF Knows, FindKnows
      <4> QED
        BY <3>1, <4>1, <4>2 DEF FindKnows, FindPlaces
    <3> QED
      BY <3>3, <3>4, <3>5, <3>6 DEF Knows
  <2> QED
    BY <2>1, <2>2
<1>11. PrivateOf(t) = {n} /\ pool \cap In(s2) = {}
  BY <1>1, <1>3 DEF PrivateOf, Unlinked
<1>12. Lengthens(at[t], "loadHead", 1) /\ "loadHead" \in Places /\ loc[t].op # "none"
  BY DEF Lengthens, Unlinked, Uncounted, Places, Appends
<1>13. head' \in Refs /\ next' \in [Nodes -> Refs] /\ Path(next', s2)
  BY <1>0, <1>3 DEF Typed
<1>14. In(s) \cup PrivateOf(t) \subseteq In(s2) \cup PrivateOf(t)'
  BY <1>2, <1>3, <1>11
<1>15. InvOf(s2)'
  BY <1>3, <1>6, <1>8, <1>9, <1>10, <1>11, <1>12, <1>13, <1>14, LinkingStep
<1> QED
  BY <1>1, <1>15 DEF s2

\* A node whose link is null is the last of the list, and the tail is where it was read.
LEMMA LinkStep ==
  ASSUME NEW s, InvOf(s), NEW t \in Threads, loc[t].op \in Appends, at[t] = "link",
         next[loc[t].cur.ptr] = loc[t].nxt, Go(t, "swing"),
         next' = [next EXCEPT ![loc[t].cur.ptr] = Ref(loc[t].node, loc[t].nxt.tag + 1)],
         UNCHANGED <<pool, head, tail, value, size, limit, loc, due>>,
         NEW n, n = loc[t].node
  PROVE  n \in Nodes \ In(s) /\ InvOf(Append(s, n))'
<1>0. /\ Typed /\ Path(next, s) /\ HeadRight(s) /\ TailRight(s) /\ pool \cap In(s) = {}
      /\ \A u \in Threads : Calls(u) /\ Adds(u, s) /\ Knows(u, s)
      /\ Company(t, loc[t].op)
  BY Accompanied DEF InvOf, ListShape, Appends, Shared
<1> DEFINE p == loc[t].cur.ptr
           s2 == Append(s, n)
<1>1. n \in Nodes \ (pool \cup In(s)) /\ next[n].ptr = Null
  BY <1>0 DEF Adds, Unlinked, Knows, AppendKnows
<1>2. /\ p \in In(s) /\ p \in Nodes /\ p # n /\ p = LastOf(s) /\ loc[t].cur = tail /\ s # <<>>
      /\ next[p].ptr = Null
  <2>1. /\ tail.ptr \in Ahead(s, p) /\ (p = tail.ptr => loc[t].cur = tail)
        /\ next[p].ptr = Null
    BY <1>0 DEF Knows, AppendKnows
  <2>2. p \in In(s)
    BY <2>1 DEF Ahead, In
  <2>3. p = LastOf(s) /\ Ahead(s, p) = {p}
    BY <1>0, <2>1, <2>2, AheadFacts
  <2>4. p \in Nodes /\ s # <<>>
    BY <1>0, <2>2, PathFacts, EmptyPath
  <2> QED
    BY <1>1, <2>1, <2>2, <2>3, <2>4
<1>3. /\ next' \in [Nodes -> Refs] /\ next'[p].ptr = n
      /\ \A m \in Nodes : m # p => next'[m] = next[m]
  <2>1. Ref(n, loc[t].nxt.tag + 1) \in Refs /\ Ref(n, loc[t].nxt.tag + 1).ptr = n
    <3>1. n \in Pointers /\ loc[t].nxt.tag + 1 \in Nat
      BY <1>0, <1>1, LocalTypes, RefTypes
    <3> QED
      BY <3>1, RefTypes
  <2> QED
    BY <1>0, <1>2, <2>1 DEF Typed
<1>4. /\ Path(next', s2) /\ Len(s2) = Len(s) + 1 /\ In(s2) = In(s) \cup {n}
      /\ FirstOf(s2) = FirstOf(s) /\ LastOf(s2) = n
      /\ \A q : Ahead(s, q) \subseteq Ahead(s2, q)
  <2>1. next'[n].ptr = Null /\ next'[LastOf(s)].ptr = n
    BY <1>1, <1>2, <1>3
  <2>2. \A m \in In(s) : m # LastOf(s) => next'[m].ptr = next[m].ptr
    BY <1>0, <1>2, <1>3, PathFacts
  <2>4. LinkedLast(next, next', s, n)
    BY <2>1, <2>2 DEF LinkedLast
  <2>3. /\ Path(next', s2) /\ Len(s2) = Len(s) + 1 /\ In(s2) = In(s) \cup {n}
        /\ FirstOf(s2) = (IF s = <<>> THEN n ELSE FirstOf(s)) /\ LastOf(s2) = n
        /\ \A q : Ahead(s, q) \subseteq Ahead(s2, q)
    <3>1. Path(next, s) /\ n \in Nodes \ In(s)
      BY <1>0, <1>1
    <3> QED
      BY <3>1, <2>4, AppendPath
  <2> QED
    BY <1>2, <2>3
<1> HIDE DEF s2, p
<1>7. at' = [at EXCEPT ![t] = "swing"] /\ at'[t] = "swing"
      /\ \A u \in Threads : u # t => at'[u] = at[u]
  BY <1>0 DEF Go, Typed
<1>8. HeadRight(s2)' /\ TailRight(s2)'
  BY <1>0, <1>2, <1>4, <1>7 DEF HeadRight, TailRight
<1>9. Calls(t)'
  BY <1>0, <1>7 DEF Calls, AppendPlaces, PrependPlaces, RemovalPlaces, FindPlaces, Appends,
     Prepends, Removals, Finds
<1>10. ASSUME NEW u \in Threads PROVE Adds(u, s2)' /\ Knows(u, s2)'
  <2>1. CASE u = t
    <3>1. Adds(t, s2)'
      BY <1>4, <1>7 DEF Adds, Unlinked, Uncounted
    <3>2. AppendKnows(t, s2)'
      <4>1. tail.ptr \in Ahead(s2, p) /\ p = tail.ptr
        <5>1. p \in Ahead(s, p) /\ p = tail.ptr
          BY <1>0, <1>2, AheadFacts DEF p
        <5> QED
          BY <1>4, <5>1
      <4> QED
        BY <1>2, <1>3, <1>7, <4>1 DEF AppendKnows, Unlinked
    <3>3. PrependKnows(t, s2)' /\ RemovalKnows(t, s2)' /\ FindKnows(t, s2)'
      BY <1>7 DEF PrependKnows, RemovalKnows, FindKnows, Uncounting, Removed, FindPlaces
    <3> QED
      BY <2>1, <3>1, <3>2, <3>3 DEF Knows
  <2>2. CASE u # t
    <3>1. at'[u] = at[u] /\ loc'[u] = loc[u] /\ due'[u] = due[u]
      BY <1>7, <2>2
    <3>2. /\ at[u] \notin RemovalPlaces
          /\ at[u] \notin PrependPlaces \ {"count"}
      BY <1>0, <2>2 DEF Company
    <3>3. Adds(u, s2)'
      <4>1. at[u] \in Unlinked => loc[u].node # n
        BY <2>2 DEF InvOf, ListShape, Apart, Unlinked
      <4> QED
        BY <1>0, <1>4, <3>1, <4>1 DEF Adds
    <3>4. AppendKnows(u, s2)'
      <4>1. at[u] \in Unlinked \ {"pushHead"} => next'[loc[u].node] = next[loc[u].node]
        <5>1. at[u] \in Unlinked => loc[u].node \in Nodes \ In(s)
          BY <1>0 DEF Adds
        <5> QED
          BY <1>2, <1>3, <5>1
      <4>2. at[u] = "help" => next[loc[u].cur.ptr].ptr # Null
        BY <1>0 DEF Knows, AppendKnows
      <4>3. at[u] = "swing" => next[loc[u].cur.ptr].ptr # Null
        <5>1. at[u] = "swing" => loc[u].node \in In(s) /\ next[loc[u].cur.ptr].ptr = loc[u].node
          BY <1>0 DEF Knows, AppendKnows, Adds, Uncounted
        <5> QED
          BY <1>0, <5>1, PathFacts
      <4>4. at[u] \in {"help", "swing"} => loc[u].cur.ptr \in Nodes
        <5>1. at[u] \in {"help", "swing"} => tail.ptr \in Ahead(s, loc[u].cur.ptr)
          BY <1>0 DEF Knows, AppendKnows
        <5>2. at[u] \in {"help", "swing"} => loc[u].cur.ptr \in In(s)
          BY <5>1 DEF Ahead, In
        <5> QED
          BY <1>0, <5>2, PathFacts
      <4>5. at[u] \in {"help", "swing"} => next'[loc[u].cur.ptr] = next[loc[u].cur.ptr]
        BY <1>2, <1>3, <4>2, <4>3, <4>4
      <4> QED
        BY <1>0, <1>4, <3>1, <4>1, <4>5 DEF Knows, AppendKnows
    <3>5. RemovalKnows(u, s2)' /\ PrependKnows(u, s2)'
      BY <3>1, <3>2 DEF RemovalKnows, RemovalPlaces, Removed, Uncounting, PrependKnows,
         PrependPlaces
    <3>6. FindKnows(u, s2)'
      BY <1>0, <1>4, <3>1 DEF Knows, FindKnows
    <3> QED
      BY <3>3, <3>4, <3>5, <3>6 DEF Knows
  <2> QED
    BY <2>1, <2>2
<1>11. PrivateOf(t) = {n} /\ pool \cap In(s2) = {}
  BY <1>0, <1>1, <1>4 DEF PrivateOf, Unlinked
<1>12. Lengthens(at[t], "swing", 1) /\ "swing" \in Places /\ loc[t].op # "none"
  BY DEF Lengthens, Unlinked, Uncounted, Places, Appends
<1>13. head' \in Refs /\ tail' \in Refs /\ next' \in [Nodes -> Refs]
  BY <1>0, <1>3 DEF Typed
<1>14. In(s) \cup PrivateOf(t) \subseteq In(s2) \cup PrivateOf(t)'
  BY <1>4, <1>11
<1>15. /\ InvOf(s) /\ t \in Threads /\ Go(t, "swing")
       /\ UNCHANGED <<pool, value, size, limit, loc, due>>
  OBVIOUS
<1>16. InvOf(s2)'
  BY ONLY <1>15, <1>4, <1>8, <1>9, <1>10, <1>11, <1>12, <1>13, <1>14, LinkingStep
<1> QED
  BY <1>1, <1>16 DEF s2

\* The new head goes before the old; before an empty list it is the tail to be, too.
LEMMA PushHeadStep ==
  ASSUME NEW s, InvOf(s), NEW t \in Threads, loc[t].op \in Prepends, at[t] = "pushHead",
         head = loc[t].cur, head' = Ref(loc[t].node, loc[t].cur.tag + 1),
         NEW place, place = IF loc[t].cur.ptr = Null THEN "checkTail" ELSE "count", Go(t, place),
         UNCHANGED <<pool, tail, next, value, size, limit, loc, due>>,
         NEW n, n = loc[t].node
  PROVE  n \in Nodes \ In(s) /\ InvOf(<<n>> \o s)'
<1>0. /\ Typed /\ Path(next, s) /\ HeadRight(s) /\ TailRight(s) /\ pool \cap In(s) = {}
      /\ \A u \in Threads : Calls(u) /\ Adds(u, s) /\ Knows(u, s)
      /\ Company(t, loc[t].op)
  BY Accompanied DEF InvOf, ListShape, Prepends, Shared
<1> DEFINE s2 == <<n>> \o s
<1>1. /\ n \in Nodes \ (pool \cup In(s)) /\ next[n] = head /\ n \in Nodes \ In(s)
  BY <1>0 DEF Adds, Unlinked, Knows, PrependKnows
<1>2. head.ptr = FirstOf(s) /\ (head.ptr = Null <=> s = <<>>)
  <2>1. \A u \in Threads : at[u] \notin {"loadHead", "setHead"}
    BY <1>0 DEF Company, AppendPlaces
  <2>2. head.ptr = FirstOf(s)
    BY <1>0, <2>1 DEF HeadRight
  <2> QED
    BY <1>0, <2>2, EmptyPath
<1>3. /\ Path(next, s2) /\ Len(s2) = Len(s) + 1 /\ In(s2) = In(s) \cup {n} /\ FirstOf(s2) = n
      /\ LastOf(s2) = (IF s = <<>> THEN n ELSE LastOf(s))
      /\ \A p : Ahead(s, p) \subseteq Ahead(s2, p)
  <2>1. next[n].ptr = FirstOf(s)
    BY <1>1, <1>2
  <2> QED
    BY <1>0, <1>1, <2>1, PrependPath
<1> HIDE DEF s2
<1>4. s2 # <<>> /\ In(s2) \subseteq Ahead(s2, n)
  <2>1. n \in In(s2)
    BY <1>3
  <2> QED
    BY <1>3, <2>1, EmptyPath
<1>5. s = <<>> => tail.ptr = Null
  <2>1. \A u \in Threads : at[u] \notin {"swing", "loadEnd", "setEnd"}
    BY <1>0 DEF Company, AppendPlaces, RemovalPlaces
  <2>2. \A u \in Threads : at[u] \in {"checkTail", "setTail"} => tail.ptr = Null
    BY <1>0 DEF Knows, PrependKnows
  <2>3. s = <<>> => LastOf(s) = Null
    BY <1>0, EmptyPath
  <2> QED
    BY <1>0, <2>1, <2>2, <2>3 DEF TailRight
<1>6. head' \in Refs /\ head'.ptr = n
  <2>1. n \in Pointers /\ loc[t].cur.tag + 1 \in Nat
    BY <1>0, <1>1, LocalTypes, RefTypes
  <2> QED
    BY <2>1, RefTypes
<1>7. at' = [at EXCEPT ![t] = place] /\ at'[t] = place
      /\ \A u \in Threads : u # t => at'[u] = at[u]
  BY <1>0 DEF Go, Typed
<1>8. HeadRight(s2)' /\ TailRight(s2)'
  <2>1. HeadRight(s2)'
    BY <1>3, <1>6 DEF HeadRight
  <2>2. CASE s = <<>>
    <3>1. at'[t] = "checkTail"
      BY <1>2, <1>7, <2>2
    <3> QED
      BY <2>1, <3>1 DEF TailRight
  <2>3. CASE s # <<>>
    <3>1. LastOf(s2) = LastOf(s)
      BY <1>3, <2>3
    <3>2. at[t] \notin {"swing", "checkTail", "setTail", "loadEnd", "setEnd"}
      OBVIOUS
    <3>3. TailRight(s2)'
      BY <1>0, <1>7, <3>1, <3>2 DEF TailRight
    <3> QED
      BY <2>1, <3>3
  <2> QED
    BY <2>2, <2>3
<1>9. Calls(t)'
  BY <1>0, <1>7 DEF Calls, AppendPlaces, PrependPlaces, RemovalPlaces, FindPlaces, Appends,
     Prepends, Removals, Finds
<1>10. ASSUME NEW u \in Threads PROVE Adds(u, s2)' /\ Knows(u, s2)'
  <2>1. CASE u = t
    <3>1. Adds(t, s2)'
      BY <1>3, <1>7 DEF Adds, Unlinked, Uncounted
    <3>2. PrependKnows(t, s2)'
      BY <1>2, <1>3, <1>5, <1>7 DEF PrependKnows
    <3>3. AppendKnows(t, s2)' /\ RemovalKnows(t, s2)' /\ FindKnows(t, s2)'
      BY <1>7 DEF AppendKnows, RemovalKnows, FindKnows, Unlinked, Uncounting, Removed, FindPlaces
    <3> QED
      BY <2>1, <3>1, <3>2, <3>3 DEF Knows
  <2>2. CASE u # t
    <3>1. at'[u] = at[u] /\ loc'[u] = loc[u] /\ due'[u] = due[u]
      BY <1>7, <2>2
    <3>2. /\ at[u] \notin RemovalPlaces
          /\ at[u] \notin AppendPlaces \ {"count"}
      BY <1>0, <2>2 DEF Company, Prepends
    <3>3. Adds(u, s2)'
      <4>1. at[u] \in Unlinked => loc[u].node # n
        BY <2>2 DEF InvOf, ListShape, Apart, Unlinked
      <4> QED
        BY <1>0, <1>3, <3>1, <4>1 DEF Adds
    <3>4. PrependKnows(u, s2)'
      <4>1. at[u] \in {"checkTail", "setTail"} => s # <<>>
        <5>1. at[u] \in {"checkTail", "setTail"} => loc[u].node \in In(s)
          BY <1>0 DEF Adds, Uncounted
        <5> QED
          BY <1>0, <5>1, EmptyPath
      <4> QED
        BY <1>0, <1>3, <3>1, <4>1 DEF Knows, PrependKnows
    <3>5. AppendKnows(u, s2)' /\ RemovalKnows(u, s2)'
      BY <3>1, <3>2 DEF RemovalKnows, RemovalPlaces, Removed, Uncounting, AppendKnows, AppendPlaces,
         Unlinked
    <3>6. FindKnows(u, s2)'
      BY <1>0, <1>3, <3>1 DEF Knows, FindKnows
    <3> QED
      BY <3>3, <3>4, <3>5, <3>6 DEF Knows
  <2> QED
    BY <2>1, <2>2
<1>11. PrivateOf(t) = {n} /\ pool \cap In(s2) = {}
  BY <1>0, <1>1, <1>3 DEF PrivateOf, Unlinked
<1>12. Lengthens(at[t], place, 1) /\ place \in Places /\ loc[t].op # "none"
  BY DEF Lengthens, Unlinked, Uncounted, Places, Prepends
<1>13. tail' \in Refs /\ next' \in [Nodes -> Refs] /\ Path(next', s2)
  BY <1>0, <1>3 DEF Typed
<1>14. In(s) \cup PrivateOf(t) \subseteq In(s2) \cup PrivateOf(t)'
  BY <1>3, <1>11
<1>15. /\ InvOf(s) /\ t \in Threads /\ Go(t, place)
       /\ UNCHANGED <<pool, value, size, limit, loc, due>>
  OBVIOUS
<1>16. InvOf(s2)'
  BY ONLY <1>15, <1>3, <1>6, <1>8, <1>9, <1>10, <1>11, <1>12, <1>13, <1>14, LinkingStep
<1> QED
  BY <1>1, <1>16 DEF s2

\* What a removal, alone in the list, knows of it after it has unlinked a node.
LEMMA UnlinkedKnows ==
  ASSUME NEW s, InvOf(s), NEW t \in Threads, loc[t].op \in Removals,
         NEW place \in {"loadEnd", "free"}, Go(t, place),
         UNCHANGED <<pool, tail, value, size, limit, loc, due>>,
         NEW s2, In(s2) = In(s) \ {loc[t].cur.ptr}, loc[t].cur.ptr \in In(s),
         place = "loadEnd" => loc[t].prev = LastOf(s2),
         place = "free" => LastOf(s2) = LastOf(s),
         at[t] \in {"unlinkHead", "unlink"},
         head'.ptr = FirstOf(s2), Len(s2) = Len(s) - 1, Path(next', s2),
         head' \in Refs, next' \in [Nodes -> Refs]
  PROVE  InvOf(s2)'
<1>0. /\ Typed /\ Path(next, s) /\ pool \cap In(s) = {} /\ Calls(t)
  BY DEF InvOf, ListShape, Shared
<1>1. /\ loc[t].cur.ptr \in Nodes \ (In(s2) \cup pool)
  BY <1>0, PathFacts
<1>2. at' = [at EXCEPT ![t] = place] /\ at'[t] = place
      /\ \A u \in Threads : u # t => at'[u] = at[u]
  BY <1>0 DEF Go, Typed
<1>3. \A u \in Threads : u # t => at'[u] = "idle"
  BY <1>2, Alone
<1>4. HeadRight(s2)' /\ TailRight(s2)'
  <2>1. tail.ptr = LastOf(s)
    BY Alone
  <2> QED
    BY <1>2, <2>1 DEF HeadRight, TailRight
<1>5. Calls(t)'
  BY <1>0, <1>2 DEF Calls, AppendPlaces, PrependPlaces, RemovalPlaces, FindPlaces, Appends,
     Prepends, Removals, Finds
<1>6. ASSUME NEW u \in Threads PROVE Adds(u, s2)' /\ Knows(u, s2)'
  <2>1. CASE u = t
    <3>1. Adds(t, s2)'
      BY <1>2 DEF Adds, Unlinked, Uncounted
    <3>2. RemovalKnows(t, s2)'
      BY <1>1, <1>2 DEF RemovalKnows, Uncounting, Removed
    <3>3. AppendKnows(t, s2)' /\ PrependKnows(t, s2)' /\ FindKnows(t, s2)'
      BY <1>2 DEF AppendKnows, PrependKnows, FindKnows, Unlinked, FindPlaces
    <3> QED
      BY <2>1, <3>1, <3>2, <3>3 DEF Knows
  <2>2. CASE u # t
    BY <1>3, <2>2 DEF Adds, Knows, AppendKnows, PrependKnows, RemovalKnows, FindKnows,
       Unlinked, Uncounted, Uncounting, Removed, FindPlaces
  <2> QED
    BY <2>1, <2>2
<1>7. In(s) \cup PrivateOf(t) \subseteq In(s2) \cup PrivateOf(t)'
  <2>1. PrivateOf(t) = {}
    BY DEF PrivateOf, Unlinked, Removed
  <2>2. PrivateOf(t)' = {loc[t].cur.ptr}
    BY <1>2 DEF PrivateOf, Unlinked, Removed
  <2> QED
    BY <2>1, <2>2
<1>8. Lengthens(at[t], place, -1) /\ place \in Places /\ loc[t].op # "none"
  BY DEF Lengthens, Places, Removals
<1>9. Len(s2) = Len(s) + -1 /\ tail' \in Refs /\ pool \cap In(s2) = {} /\ -1 \in Int
  BY <1>0, PathFacts DEF Typed
<1> QED
  BY <1>4, <1>5, <1>6, <1>7, <1>8, <1>9, LinkingStep

LEMMA UnlinkHeadStep ==
  ASSUME NEW s, InvOf(s), NEW t \in Threads, loc[t].op \in Removals, at[t] = "unlinkHead",
         head = loc[t].cur, head' = Ref(loc[t].nxt.ptr, loc[t].cur.tag + 1),
         Go(t, AfterUnlink(t)), UNCHANGED <<pool, tail, next, value, size, limit, loc, due>>
  PROVE  1 \in 1 .. Len(s) /\ InvOf(RemoveAt(s, 1))'
<1>0. Typed /\ Path(next, s) /\ Knows(t, s) /\ Len(s) \in Nat
  BY PathFacts DEF InvOf, ListShape
<1>p. Path(next, s)
  BY <1>0
<1>n. Len(s) \in Nat
  BY <1>0
<1> DEFINE s2 == RemoveAt(s, 1)
           place == AfterUnlink(t)
<1>1. /\ head.ptr # Null /\ loc[t].prev = Null /\ loc[t].nxt = next[loc[t].cur.ptr]
  BY <1>0 DEF Knows, RemovalKnows
<1>2. head.ptr = FirstOf(s) /\ s # <<>> /\ head.ptr \in In(s) /\ head.ptr \in Nodes
  BY <1>0, <1>1, Alone, EmptyPath, PathFacts
<1>3. 1 \in 1 .. Len(s) /\ s[1] = head.ptr
  <2>1. Len(s) # 0
    BY <1>0, <1>2 DEF Path
  <2> QED
    BY <1>0, <1>2, <2>1 DEF FirstOf
<1>4. /\ Path(next, s2) /\ Len(s2) = Len(s) - 1 /\ In(s2) = In(s) \ {s[1]}
      /\ FirstOf(s2) = next[s[1]].ptr
      /\ LastOf(s2) = (IF 1 # Len(s) THEN LastOf(s) ELSE Null)
  <2>1. Bypass(next, next, s, 1)
    BY DEF Bypass
  <2>2. Shortened(next, next, s, 1, s2)
    BY <1>p, <1>3, <2>1, RemovePath
  <2> HIDE DEF s2
  <2> QED
    BY <2>2 DEF Shortened
<1> HIDE DEF s2
<1>5. next[s[1]].ptr = Null <=> 1 = Len(s)
  <2>1. next[s[1]].ptr = IF 1 = Len(s) THEN Null ELSE s[1 + 1]
    BY <1>0, <1>3 DEF Path
  <2>2. 1 # Len(s) => s[1 + 1] # Null
    <3>1. 1 # Len(s) => 1 + 1 \in 1 .. Len(s)
      <4> DEFINE k == Len(s)
      <4>1. k \in Nat /\ 1 \in 1 .. k
        BY <1>n, <1>3
      <4> HIDE DEF k
      <4>2. 1 # k => 1 + 1 \in 1 .. k
        BY <4>1
      <4> QED
        BY <4>2 DEF k
    <3>2. s \in [1 .. Len(s) -> Nodes]
      BY <1>0, PathFacts
    <3> QED
      BY <3>1, <3>2, ListAssumption
  <2> QED
    BY <2>1, <2>2
<1>6. head' \in Refs /\ head'.ptr = FirstOf(s2)
  <2>1. loc[t].nxt.ptr \in Pointers /\ loc[t].cur.tag + 1 \in Nat
    BY <1>0, LocalTypes, RefTypes
  <2>2. head' \in Refs /\ head'.ptr = loc[t].nxt.ptr
    BY <2>1, RefTypes
  <2> QED
    BY <1>1, <1>3, <1>4, <2>2
<1>7. /\ place \in {"loadEnd", "free"}
      /\ place = "loadEnd" => loc[t].prev = LastOf(s2)
      /\ place = "free" => LastOf(s2) = LastOf(s)
  BY <1>1, <1>3, <1>4, <1>5 DEF AfterUnlink
<1>8. /\ InvOf(s) /\ t \in Threads /\ loc[t].op \in Removals /\ at[t] \in {"unlinkHead", "unlink"}
      /\ Go(t, place) /\ UNCHANGED <<pool, tail, value, size, limit, loc, due>>
      /\ loc[t].cur.ptr \in In(s) /\ In(s2) = In(s) \ {loc[t].cur.ptr}
      /\ next' \in [Nodes -> Refs] /\ Path(next', s2) /\ Len(s2) = Len(s) - 1
  BY <1>0, <1>2, <1>3, <1>4 DEF Typed
<1>9. InvOf(s2)'
  BY ONLY <1>6, <1>7, <1>8, UnlinkedKnows
<1> QED
  BY <1>3, <1>9 DEF s2

LEMMA UnlinkStep ==
  ASSUME NEW s, InvOf(s), NEW t \in Threads, loc[t].op \in Removals, at[t] = "unlink",
         next[loc[t].prev] = loc[t].cur,
         next' = [next EXCEPT ![loc[t].prev] = Ref(loc[t].nxt.ptr, loc[t].cur.tag + 1)],
         Go(t, AfterUnlink(t)), UNCHANGED <<pool, head, tail, value, size, limit, loc, due>>
  PROVE  \E i \in 1 .. Len(s) : InvOf(RemoveAt(s, i))'
<1>0. Typed /\ Path(next, s) /\ Knows(t, s) /\ Len(s) \in Nat /\ s \in [1 .. Len(s) -> Nodes]
  BY PathFacts DEF InvOf, ListShape
<1>p. Path(next, s)
  BY <1>0
<1>n. Len(s) \in Nat
  BY <1>0
<1>1. /\ loc[t].prev \in In(s) /\ loc[t].cur.ptr # Null /\ loc[t].nxt = next[loc[t].cur.ptr]
  BY <1>0 DEF Knows, RemovalKnows
<1>2. PICK j \in 1 .. Len(s) : s[j] = loc[t].prev
  BY <1>1 DEF In
<1>3. next[s[j]].ptr = IF j = Len(s) THEN Null ELSE s[j + 1]
  BY <1>0 DEF Path
<1>4. PICK i \in 1 .. Len(s) : i = j + 1
  <2>1. j # Len(s)
    BY <1>1, <1>2, <1>3
  <2> QED
    BY ONLY <1>n, <1>2, <2>1
<1>5. s[i] = loc[t].cur.ptr /\ i - 1 = j /\ i # 1 /\ s[i] \in Nodes /\ s[j] \in Nodes
  <2>1. i - 1 = j /\ i # 1 /\ j # Len(s)
    BY <1>0, <1>4
  <2> QED
    BY <1>0, <1>2, <1>3, <1>4, <2>1
<1>6. /\ next' \in [Nodes -> Refs] /\ next'[s[j]].ptr = next[s[i]].ptr
      /\ \A m \in Nodes : m # s[j] => next'[m] = next[m]
  <2>1. /\ Ref(loc[t].nxt.ptr, loc[t].cur.tag + 1) \in Refs
        /\ Ref(loc[t].nxt.ptr, loc[t].cur.tag + 1).ptr = loc[t].nxt.ptr
    <3>1. loc[t].nxt.ptr \in Pointers /\ loc[t].cur.tag + 1 \in Nat
      BY <1>0, LocalTypes, RefTypes
    <3> QED
      BY <3>1, RefTypes
  <2>2. loc[t].nxt.ptr = next[s[i]].ptr
    BY <1>1, <1>5
  <2> QED
    BY <1>0, <1>2, <1>5, <2>1, <2>2 DEF Typed
<1> DEFINE s2 == RemoveAt(s, i)
           place == AfterUnlink(t)
<1>7. /\ Path(next', s2) /\ Len(s2) = Len(s) - 1 /\ In(s2) = In(s) \ {s[i]}
      /\ FirstOf(s2) = FirstOf(s)
      /\ LastOf(s2) = IF i # Len(s) THEN LastOf(s) ELSE s[j]
  <2>1. Bypass(next, next', s, i)
    <3>1. ASSUME NEW a \in 1 .. Len(s), a # i - 1 PROVE next'[s[a]].ptr = next[s[a]].ptr
      <4>1. s[a] # s[j] /\ s[a] \in Nodes
        BY <1>0, <1>5, <3>1 DEF Path
      <4> QED
        BY <1>6, <4>1
    <3> QED
      BY <1>5, <1>6, <3>1 DEF Bypass
  <2>2. Shortened(next, next', s, i, s2)
    BY <1>p, <2>1, RemovePath
  <2> HIDE DEF s2
  <2> QED
    BY <1>5, <2>2 DEF Shortened
<1> HIDE DEF s2
<1>8. next[s[i]].ptr = Null <=> i = Len(s)
  <2>1. next[s[i]].ptr = IF i = Len(s) THEN Null ELSE s[i + 1]
    BY <1>0 DEF Path
  <2>2. i # Len(s) => s[i + 1] # Null
    <3>1. i # Len(s) => i + 1 \in 1 .. Len(s)
      BY ONLY <1>n, <1>4
    <3> QED
      BY <1>0, <3>1, ListAssumption
  <2> QED
    BY <2>1, <2>2
<1>9. head' \in Refs /\ head'.ptr = FirstOf(s2)
  BY <1>0, <1>7, Alone DEF Typed
<1>10. /\ place \in {"loadEnd", "free"}
       /\ place = "loadEnd" => loc[t].prev = LastOf(s2)
       /\ place = "free" => LastOf(s2) = LastOf(s)
  BY <1>1, <1>2, <1>5, <1>7, <1>8 DEF AfterUnlink
<1>11. /\ InvOf(s) /\ t \in Threads /\ loc[t].op \in Removals /\ at[t] \in {"unlinkHead", "unlink"}
       /\ Go(t, place) /\ UNCHANGED <<pool, tail, value, size, limit, loc, due>>
       /\ loc[t].cur.ptr \in In(s) /\ In(s2) = In(s) \ {loc[t].cur.ptr}
       /\ next' \in [Nodes -> Refs] /\ Path(next', s2) /\ Len(s2) = Len(s) - 1
  <2>1. s[i] \in In(s)
    BY DEF In
  <2> QED
    BY <1>5, <1>6, <1>7, <2>1
<1>12. InvOf(s2)'
  BY ONLY <1>9, <1>10, <1>11, UnlinkedKnows
<1> QED
  BY <1>12 DEF s2

-----------------------------------------------------------------------------
(* Every step keeps the invariant, and moves the list by one node at most *)

Kept(s) == \E s2 : InvOf(s2)' /\ Moves(s, s2)

LEMMA KeptAsIs ==
  ASSUME NEW s, InvOf(s)'
  PROVE  Kept(s)
BY DEF Kept, Moves

LEMMA BackMoves ==
  ASSUME ~ WeakFailure, NEW s, InvOf(s), NEW t \in Threads, loc[t].op \in Appends,
         BackStep(t) \/ Count(t)
  PROVE  Kept(s)
<1>0. Typed /\ loc[t].op # "none"
  BY DEF InvOf, Appends
<1>1. CASE LoadTail(t)
  <2>1. CASE loc[t].left > 0
    BY <1>1, <2>1, LoadTailStep, KeptAsIs
  <2>2. CASE ~ (loc[t].left > 0)
    <3>1. /\ at[t] \in {"loadTail", "pushHead"} /\ Return(t) /\ pool' = pool \union {loc[t].node}
          /\ UNCHANGED <<head, tail, next, value, size, limit>>
      BY <1>1, <2>2 DEF LoadTail
    <3>2. InvOf(s)'
      BY <1>0, <3>1, GiveBackStep
    <3> QED
      BY <3>2, KeptAsIs
  <2> QED
    BY <2>1, <2>2
<1>2. CASE Claim(t)
  <2>1. CASE Succeeds(tail, loc[t].cur) /\ tail' = Ref(loc[t].node, 0) /\ Go(t, "loadHead")
    <3>1. /\ at[t] = "claim" /\ loc[t].cur = tail
          /\ UNCHANGED <<pool, head, next, value, size, limit, loc, due>>
      BY <1>2, <2>1 DEF Claim, Succeeds
    <3>2. PICK n : n = loc[t].node
      OBVIOUS
    <3>3. n \in Nodes \ In(s) /\ InvOf(Append(s, n))'
      BY <2>1, <3>1, <3>2, ClaimStep
    <3> QED
      BY <3>3 DEF Kept, Moves
  <2>2. CASE Go(t, "loadTail") /\ UNCHANGED tail
    <3>1. at[t] = "claim" /\ UNCHANGED <<shared, loc, due>>
      BY <1>2, <2>2 DEF Claim, shared
    <3>2. InvOf(s)'
      BY <2>2, <3>1, FailedAppend
    <3> QED
      BY <3>2, KeptAsIs
  <2> QED
    BY <1>2, <2>1, <2>2 DEF Claim
<1>3. CASE LoadHead(t)
  BY <1>3, LoadHeadStep, KeptAsIs
<1>4. CASE SetHead(t)
  BY <1>4, SetHeadStep, KeptAsIs
<1>5. CASE LoadNext(t)
  BY <1>5, LoadNextStep, KeptAsIs
<1>6. CASE Help(t)
  BY <1>6, HelpStep, KeptAsIs
<1>7. CASE Link(t)
  <2>1. CASE /\ Succeeds(next[loc[t].cur.ptr], loc[t].nxt)
             /\ next' = [next EXCEPT ![loc[t].cur.ptr] = Ref(loc[t].node, loc[t].nxt.tag + 1)]
             /\ Go(t, "swing")
    <3>1. /\ at[t] = "link" /\ next[loc[t].cur.ptr] = loc[t].nxt
          /\ UNCHANGED <<pool, head, tail, value, size, limit, loc, due>>
      BY <1>7, <2>1 DEF Link, Succeeds
    <3>2. PICK n : n = loc[t].node
      OBVIOUS
    <3>3. n \in Nodes \ In(s) /\ InvOf(Append(s, n))'
      BY <2>1, <3>1, <3>2, LinkStep
    <3> QED
      BY <3>3 DEF Kept, Moves
  <2>2. CASE Go(t, "loadTail") /\ UNCHANGED next
    <3>1. at[t] = "link" /\ UNCHANGED <<shared, loc, due>>
      BY <1>7, <2>2 DEF Link, shared
    <3>2. InvOf(s)'
      BY <2>2, <3>1, FailedAppend
    <3> QED
      BY <3>2, KeptAsIs
  <2> QED
    BY <1>7, <2>1, <2>2 DEF Link
<1>8. CASE Swing(t)
  BY <1>8, SwingStep, KeptAsIs
<1>9. CASE Count(t)
  BY <1>0, <1>9, CountStep, KeptAsIs
<1> QED
  BY <1>1, <1>2, <1>3, <1>4, <1>5, <1>6, <1>7, <1>8, <1>9 DEF BackStep

LEMMA FrontMoves ==
  ASSUME ~ WeakFailure, NEW s, InvOf(s), NEW t \in Threads, loc[t].op \in Prepends,
         FrontStep(t) \/ Count(t)
  PROVE  Kept(s)
<1>0. Typed /\ loc[t].op # "none"
  BY DEF InvOf, Prepends
<1>1. CASE PushHead(t)
  <2>0. at[t] = "pushHead" /\ UNCHANGED <<tail, value, size, limit>>
    BY <1>1 DEF PushHead
  <2>1. CASE /\ Succeeds(head, loc[t].cur) /\ head' = Ref(loc[t].node, loc[t].cur.tag + 1)
             /\ Go(t, IF loc[t].cur.ptr = Null THEN "checkTail" ELSE "count")
             /\ UNCHANGED <<pool, next, loc, due>>
    <3>1. PICK n, place : /\ n = loc[t].node
                          /\ place = IF loc[t].cur.ptr = Null THEN "checkTail" ELSE "count"
      OBVIOUS
    <3>2. /\ head = loc[t].cur /\ head' = Ref(loc[t].node, loc[t].cur.tag + 1) /\ Go(t, place)
          /\ UNCHANGED <<pool, tail, next, value, size, limit, loc, due>>
      BY <2>0, <2>1, <3>1 DEF Succeeds
    <3>3. n \in Nodes \ In(s) /\ InvOf(<<n>> \o s)'
      BY <2>0, <3>1, <3>2, PushHeadStep
    <3> QED
      BY <3>3 DEF Kept, Moves
  <2>2. CASE /\ loc[t].left > 0
             /\ next' = [next EXCEPT ![loc[t].node] = head]
             /\ Set(t, [loc[t] EXCEPT !.cur = head, !.left = @ - 1])
             /\ UNCHANGED <<pool, head, at, due>>
    <3>1. Set(t, Again(loc[t], loc[t].left - 1, head))
      BY <2>2 DEF Again
    <3>2. InvOf(s)'
      BY <2>0, <2>2, <3>1, PushAgainStep
    <3> QED
      BY <3>2, KeptAsIs
  <2>3. CASE /\ pool' = pool \union {loc[t].node} /\ Return(t)
             /\ UNCHANGED <<head, next>>
    <3>1. InvOf(s)'
      BY <1>0, <2>0, <2>3, GiveBackStep
    <3> QED
      BY <3>1, KeptAsIs
  <2> QED
    BY <1>1, <2>1, <2>2, <2>3 DEF PushHead
<1>2. CASE CheckTail(t)
  BY <1>2, CheckTailStep, KeptAsIs
<1>3. CASE SetTail(t)
  BY <1>3, SetTailStep, KeptAsIs
<1>4. CASE Count(t)
  BY <1>0, <1>4, CountStep, KeptAsIs
<1> QED
  BY <1>1, <1>2, <1>3, <1>4 DEF FrontStep

LEMMA RemovalMoves ==
  ASSUME ~ WeakFailure, NEW s, InvOf(s), NEW t \in Threads, loc[t].op \in Removals,
         RemovalStep(t) \/ Walk(t) \/ Look(t) \/ Unlink(t)
  PROVE  Kept(s)
<1>1. CASE Top(t)
  BY <1>1, TopStep, KeptAsIs
<1>2. CASE Match(t)
  BY <1>2, MatchStep, KeptAsIs
<1>3. CASE UnlinkHead(t)
  <2>1. CASE /\ Succeeds(head, loc[t].cur) /\ head' = Ref(loc[t].nxt.ptr, loc[t].cur.tag + 1)
             /\ Go(t, AfterUnlink(t))
    <3>1. /\ at[t] = "unlinkHead" /\ head = loc[t].cur
          /\ UNCHANGED <<pool, tail, next, value, size, limit, loc, due>>
      BY <1>3, <2>1 DEF UnlinkHead, Succeeds
    <3>2. 1 \in 1 .. Len(s) /\ InvOf(RemoveAt(s, 1))'
      BY <2>1, <3>1, UnlinkHeadStep
    <3> QED
      BY <3>2 DEF Kept, Moves
  <2>2. CASE Go(t, "top") /\ UNCHANGED head
    <3>1. at[t] = "unlinkHead" /\ UNCHANGED <<shared, loc, due>>
      BY <1>3, <2>2 DEF UnlinkHead, shared
    <3>2. InvOf(s)'
      BY <2>2, <3>1, FailedRemoval
    <3> QED
      BY <3>2, KeptAsIs
  <2> QED
    BY <1>3, <2>1, <2>2 DEF UnlinkHead
<1>4. CASE LoadEnd(t)
  BY <1>4, LoadEndStep, KeptAsIs
<1>5. CASE SetEnd(t)
  BY <1>5, SetEndStep, KeptAsIs
<1>6. CASE FreeNode(t)
  BY <1>6, FreeNodeStep, KeptAsIs
<1>7. CASE Uncount(t)
  BY <1>7, UncountStep, KeptAsIs
<1>8. CASE Walk(t)
  BY <1>8, WalkStep, KeptAsIs
<1>9. CASE Look(t)
  BY <1>9, LookStep, KeptAsIs
<1>10. CASE Unlink(t)
  <2>1. CASE /\ Succeeds(next[loc[t].prev], loc[t].cur)
             /\ next' = [next EXCEPT ![loc[t].prev] = Ref(loc[t].nxt.ptr, loc[t].cur.tag + 1)]
             /\ Go(t, AfterUnlink(t))
    <3>1. /\ at[t] = "unlink" /\ next[loc[t].prev] = loc[t].cur
          /\ UNCHANGED <<pool, head, tail, value, size, limit, loc, due>>
      BY <1>10, <2>1 DEF Unlink, Succeeds
    <3>2. \E i \in 1 .. Len(s) : InvOf(RemoveAt(s, i))'
      BY <2>1, <3>1, UnlinkStep
    <3> QED
      BY <3>2 DEF Kept, Moves
  <2>2. CASE Go(t, "top") /\ UNCHANGED next
    <3>1. at[t] = "unlink" /\ UNCHANGED <<shared, loc, due>>
      BY <1>10, <2>2 DEF Unlink, shared
    <3>2. InvOf(s)'
      BY <2>2, <3>1, FailedRemoval
    <3> QED
      BY <3>2, KeptAsIs
  <2> QED
    BY <1>10, <2>1, <2>2 DEF Unlink
<1> QED
  BY <1>1, <1>2, <1>3, <1>4, <1>5, <1>6, <1>7, <1>8, <1>9, <1>10 DEF RemovalStep

LEMMA InvStutters ==
  ASSUME NEW s, InvOf(s), UNCHANGED listVars
  PROVE  InvOf(s)'
<1>1. UNCHANGED <<pool, head, tail, next, value, size, limit, at, loc, due>>
  BY DEF listVars
<1>2. Typed'
  BY <1>1 DEF InvOf, Typed
<1>3. Path(next', s) /\ HeadRight(s)' /\ TailRight(s)' /\ Shared(s)' /\ Counted(s)'
  BY <1>1 DEF InvOf, ListShape, HeadRight, TailRight, Shared, Private, Counted
<1>4. \A t \in Threads : Calls(t)' /\ Adds(t, s)' /\ Knows(t, s)'
  BY <1>1 DEF InvOf, ListShape, Calls, Adds, Knows, AppendKnows, PrependKnows, RemovalKnows,
     FindKnows
<1>5. \A t, u \in Threads : t # u => Apart(t, u)'
  BY <1>1 DEF InvOf, ListShape, Apart, Together2
<1> QED
  BY <1>2, <1>3, <1>4, <1>5 DEF InvOf, ListShape

LEMMA ListMoves ==
  ASSUME GroupsApart, ~ WeakFailure, NEW s, InvOf(s), [ListNext]_listVars
  PROVE  Kept(s)
<1>1. ASSUME NEW t \in Threads, PushBack(t) PROVE Kept(s)
  <2>1. CASE \E v \in Values : StartBack(t, "push_back", v)
    BY <2>1, StartBackStep, KeptAsIs DEF Appends
  <2>2. CASE loc[t].op = "push_back" /\ (BackStep(t) \/ Count(t))
    BY <2>2, BackMoves DEF Appends
  <2> QED
    BY <1>1, <2>1, <2>2 DEF PushBack
<1>2. ASSUME NEW t \in Threads, EmplaceBack(t) PROVE Kept(s)
  <2>1. CASE StartBack(t, "emplace_back", Default)
    BY <2>1, StartBackStep, KeptAsIs, ListAssumption DEF Appends
  <2>2. CASE loc[t].op = "emplace_back" /\ (BackStep(t) \/ Count(t))
    BY <2>2, BackMoves DEF Appends
  <2> QED
    BY <1>2, <2>1, <2>2 DEF EmplaceBack
<1>3. ASSUME NEW t \in Threads, PushFront(t) PROVE Kept(s)
  <2>1. CASE \E v \in Values : StartFront(t, "push_front", v)
    BY <2>1, StartFrontStep, KeptAsIs DEF Prepends
  <2>2. CASE loc[t].op = "push_front" /\ (FrontStep(t) \/ Count(t))
    BY <2>2, FrontMoves DEF Prepends
  <2> QED
    BY <1>3, <2>1, <2>2 DEF PushFront
<1>4. ASSUME NEW t \in Threads, EmplaceFront(t) PROVE Kept(s)
  <2>1. CASE StartFront(t, "emplace_front", Default)
    BY <2>1, StartFrontStep, KeptAsIs, ListAssumption DEF Prepends
  <2>2. CASE loc[t].op = "emplace_front" /\ (FrontStep(t) \/ Count(t))
    BY <2>2, FrontMoves DEF Prepends
  <2> QED
    BY <1>4, <2>1, <2>2 DEF EmplaceFront
<1>5. ASSUME NEW t \in Threads, Erase(t) PROVE Kept(s)
  <2>1. CASE \E v \in Values : StartRemoval(t, "erase", {v})
    <3>1. PICK v \in Values : StartRemoval(t, "erase", {v})
      BY <2>1
    <3>2. {v} \in SUBSET Values /\ "erase" \in Removals
      BY DEF Removals
    <3>3. InvOf(s)'
      BY <3>1, <3>2, StartRemovalStep
    <3> QED
      BY <3>3, KeptAsIs
  <2>2. CASE /\ loc[t].op = "erase"
             /\ RemovalStep(t) \/ Walk(t) \/ Look(t) \/ Unlink(t)
    BY <2>2, RemovalMoves DEF Removals
  <2> QED
    BY <1>5, <2>1, <2>2 DEF Erase
<1>6. ASSUME NEW t \in Threads, Clear(t) PROVE Kept(s)
  <2>1. CASE StartRemoval(t, "clear", Values)
    BY <2>1, StartRemovalStep, KeptAsIs DEF Removals
  <2>2. CASE loc[t].op = "clear" /\ RemovalStep(t)
    BY <2>2, RemovalMoves DEF Removals
  <2> QED
    BY <1>6, <2>1, <2>2 DEF Clear
<1>7. ASSUME NEW t \in Threads, Find(t) PROVE Kept(s)
  <2>1. CASE \E v \in Values : StartFind(t, "find", {v})
    <3>1. PICK v \in Values : StartFind(t, "find", {v})
      BY <2>1
    <3>2. {v} \in SUBSET Values /\ "find" \in Finds
      BY DEF Finds
    <3>3. InvOf(s)'
      BY <3>1, <3>2, StartFindStep
    <3> QED
      BY <3>3, KeptAsIs
  <2>2. CASE loc[t].op = "find" /\ (BeginFind(t) \/ Visit(t))
    BY <2>2, BeginFindStep, VisitStep, KeptAsIs DEF Finds
  <2> QED
    BY <1>7, <2>1, <2>2 DEF Find
<1>8. ASSUME NEW t \in Threads, FindIf(t) PROVE Kept(s)
  <2>1. CASE \E vs \in SUBSET Values : StartFind(t, "find_if", vs)
    BY <2>1, StartFindStep, KeptAsIs DEF Finds
  <2>2. CASE loc[t].op = "find_if" /\ (BeginFind(t) \/ Visit(t))
    BY <2>2, BeginFindStep, VisitStep, KeptAsIs DEF Finds
  <2> QED
    BY <1>8, <2>1, <2>2 DEF FindIf
<1>9. ASSUME NEW m \in 1 .. MaxRetries, SetMaxRetries(m) PROVE Kept(s)
  BY <1>9, SetMaxRetriesStep, KeptAsIs
<1>10. CASE UNCHANGED listVars
  BY <1>10, InvStutters, KeptAsIs
<1> QED
  BY <1>1, <1>2, <1>3, <1>4, <1>5, <1>6, <1>7, <1>8, <1>9, <1>10 DEF ListNext

-----------------------------------------------------------------------------
(* The theorems *)

LEMMA EmptyListInv == ListInit => InvOf(<<>>)
<1> SUFFICES ASSUME ListInit PROVE InvOf(<<>>)
  OBVIOUS
<1>1. Typed
  BY RefTypes, BlankType, ListAssumption DEF ListInit, Typed, Places
<1>2. \A t \in Threads : at[t] = "idle" /\ loc[t].op = "none" /\ due[t] = {}
  BY BlankType DEF ListInit
<1>3. Path(next, <<>>) /\ In(<<>>) = {} /\ FirstOf(<<>>) = Null /\ LastOf(<<>>) = Null
  BY DEF Path, In, FirstOf, LastOf
<1>4. HeadRight(<<>>) /\ TailRight(<<>>) /\ Shared(<<>>)
  BY <1>3, RefTypes DEF ListInit, HeadRight, TailRight, Shared
<1>5. \A t \in Threads : Calls(t) /\ Adds(t, <<>>) /\ Knows(t, <<>>)
  BY <1>2 DEF Calls, Adds, Knows, AppendKnows, PrependKnows, RemovalKnows, FindKnows, Unlinked,
     Uncounted, Uncounting, Removed, FindPlaces, Appends, Prepends, Removals, Finds
<1>6. \A t, u \in Threads : t # u => Apart(t, u)
  BY <1>2 DEF Apart, Unlinked, Uncounted
<1>7. Counted(<<>>)
  <2>1. /\ {t \in Threads : at[t] \in Uncounted} = {}
        /\ {t \in Threads : at[t] \in Uncounting} = {}
    BY <1>2 DEF Uncounted, Uncounting, Removed
  <2>2. Cardinality({}) = 0 /\ Len(<<>>) = 0 /\ size = 0
    BY FS_EmptySet DEF ListInit
  <2> QED
    BY <2>1, <2>2 DEF Counted
<1> QED
  BY <1>1, <1>3, <1>4, <1>5, <1>6, <1>7 DEF InvOf, ListShape

\* The inductive invariant: there is a sequence of nodes that the links go through, and
\* every thread is where it may be with regard to it (all of lock_free_list.inl).
THEOREM ListInvariant == GroupsApart /\ ~ WeakFailure /\ ListSpec => []ListInv
<1>1. ListInit => ListInv
  BY EmptyListInv DEF ListInv
<1>2. GroupsApart /\ ~ WeakFailure /\ ListInv /\ [ListNext]_listVars => ListInv'
  BY ListMoves DEF ListInv, Kept
<1>3. CASE GroupsApart /\ ~ WeakFailure
  <2>1. ListInv /\ [ListNext]_listVars => ListInv'
    BY <1>2, <1>3
  <2> QED
    BY <1>1, <2>1, PTL DEF ListSpec
<1>4. CASE ~ (GroupsApart /\ ~ WeakFailure)
  BY <1>4
<1> QED
  BY <1>3, <1>4

\* Every variable has its type; size_ is never negative and never above the nodes there
\* are (lock_free_list.inl:138, 399).
THEOREM ListTypeCorrect == GroupsApart /\ ~ WeakFailure /\ ListSpec => []ListTypeOK
<1>1. ListInv => ListTypeOK
  BY InvTypes DEF ListInv
<1> QED
  BY <1>1, ListInvariant, PTL

\* The list of the model is the sequence of the invariant.
LEMMA ListedInv ==
  ASSUME ListInv
  PROVE  /\ InvOf(Listed) /\ Path(next, Listed)
         /\ DOMAIN Listed = 1 .. Len(Listed) /\ Range(Listed) = In(Listed)
<1>1. PICK s : InvOf(s)
  BY DEF ListInv
<1>2. Listed = s
  BY <1>1, ListedIs DEF InvOf
<1>3. Path(next, s) /\ s \in Seq(Nodes)
  BY <1>1 DEF InvOf, ListShape, Path
<1>4. DOMAIN s = 1 .. Len(s) /\ Range(s) = In(s)
  BY <1>3 DEF Range, In
<1> QED
  BY <1>1, <1>2, <1>3, <1>4

\* No node is lost: each is free, in the list or with one thread, and counted once; when
\* the CASes of an append (lock_free_list.inl:100-137) race, one at a time gets its node in.
THEOREM ListLosesNoNode == GroupsApart /\ ~ WeakFailure /\ ListSpec => []NoNodeLost
<1>1. ListInv => NoNodeLost
  <2> SUFFICES ASSUME ListInv PROVE NoNodeLost
    OBVIOUS
  <2>1. PICK s : s = Listed
    OBVIOUS
  <2>2. InvOf(s) /\ Path(next, s) /\ DOMAIN s = 1 .. Len(s) /\ Range(s) = In(s)
    BY <2>1, ListedInv
  <2>3. /\ Typed /\ Shared(s) /\ \A t \in Threads : Knows(t, s)
    BY <2>2 DEF InvOf, ListShape
  <2>4. Cardinality(Claiming) <= 1
    <3>1. Claiming \in SUBSET {FirstOf(s)}
      BY <2>3 DEF Claiming, Knows, AppendKnows
    <3>2. IsFiniteSet({FirstOf(s)}) /\ Cardinality({FirstOf(s)}) = 1
      BY FS_Singleton
    <3> QED
      BY <3>1, <3>2, FS_Subset
  <2>5. IsInjective(s)
    BY <2>2 DEF Path, IsInjective
  <2>6. Private \subseteq Nodes \ (pool \cup In(s))
    BY <2>2, PrivateNodes, PrivateIs
  <2>7. pool \subseteq Nodes /\ In(s) \subseteq Nodes /\ pool \cap In(s) = {}
    BY <2>2, <2>3, PathFacts DEF Typed, Shared
  <2>8. Nodes = pool \cup In(s) \cup Private
    BY <2>3, <2>6, <2>7 DEF Shared
  <2>9. Cardinality(Nodes) = Cardinality(pool) + Len(s) + Cardinality(Private)
    <3>1. IsFiniteSet(pool) /\ IsFiniteSet(In(s)) /\ IsFiniteSet(Private)
      BY <2>6, <2>7, NodesFinite, FS_Subset
    <3>2. /\ IsFiniteSet(pool \cup In(s))
          /\ Cardinality(pool \cup In(s)) =
               Cardinality(pool) + Cardinality(In(s)) - Cardinality(pool \cap In(s))
      BY <3>1, FS_Union
    <3>3. Cardinality((pool \cup In(s)) \cup Private) =
            Cardinality(pool \cup In(s)) + Cardinality(Private)
              - Cardinality((pool \cup In(s)) \cap Private)
      BY <3>1, <3>2, FS_Union
    <3>4. (pool \cup In(s)) \cap Private = {}
      BY <2>6
    <3>5. Cardinality(pool \cap In(s)) = 0 /\ Cardinality((pool \cup In(s)) \cap Private) = 0
      BY <2>7, <3>4, FS_EmptySet
    <3>6. Cardinality(In(s)) = Len(s)
      BY <2>2, PathFacts
    <3>7. /\ Cardinality(pool) \in Nat /\ Cardinality(In(s)) \in Nat
          /\ Cardinality(Private) \in Nat
      BY <3>1, FS_CardinalityType
    <3>8. Cardinality(Nodes) = Cardinality((pool \cup In(s)) \cup Private)
      BY <2>8
    <3> QED
      BY <3>2, <3>3, <3>5, <3>6, <3>7, <3>8
  <2> QED
    BY <2>1, <2>2, <2>4, <2>5, <2>8, <2>9 DEF NoNodeLost
<1> QED
  BY <1>1, ListInvariant, PTL

\* At rest the tail is the last node and the size is the number of nodes, whichever of
\* the CASes on the tail (lock_free_list.inl:122, 133, 221, 301) failed on the way.
THEOREM ListQuiescentExact == GroupsApart /\ ~ WeakFailure /\ ListSpec => []QuiescentExact
<1>1. ListInv => QuiescentExact
  <2> SUFFICES ASSUME ListInv, Running = {} PROVE
      /\ tail.ptr = (IF Listed = <<>> THEN Null ELSE Last(Listed))
      /\ size = Len(Listed)
    BY DEF QuiescentExact
  <2>1. PICK s : s = Listed
    OBVIOUS
  <2>2. InvOf(s) /\ Path(next, s)
    BY <2>1, ListedInv
  <2>3. \A t \in Threads : at[t] = "idle"
    BY DEF Running
  <2>4. tail.ptr = LastOf(s)
    BY <2>2, <2>3 DEF InvOf, ListShape, TailRight
  <2>5. Adding = {} /\ Taking = {}
    BY <2>3 DEF Adding, Taking, Uncounted, Uncounting, Removed
  <2>6. size = Len(s) + 0 - 0
    BY <2>2, <2>5, SizeIs, FS_EmptySet
  <2>7. Len(s) \in Nat
    BY <2>2 DEF Path
  <2>8. size = Len(s)
    BY <2>6, <2>7
  <2> QED
    BY <2>1, <2>4, <2>8 DEF LastOf, Last
<1> QED
  BY <1>1, ListInvariant, PTL

LEMMA NearTheEnd ==
  ASSUME NEW links, NEW s, Path(links, s), NEW p
  PROVE  /\ s # <<>> /\ p = LastOf(s) => p \in In(s) /\ Len(ChainIn(links, p)) = 1
         /\ p \in In(s) /\ p # LastOf(s) /\ links[p].ptr = LastOf(s) =>
              Len(ChainIn(links, p)) = 2
<1> DEFINE k == Len(s)
<1>0. /\ k \in Nat /\ s \in [1 .. k -> Nodes] /\ s \in Seq(Nodes)
      /\ \A i, j \in 1 .. k : s[i] = s[j] => i = j
      /\ \A i \in 1 .. k : links[s[i]].ptr = IF i = k THEN Null ELSE s[i + 1]
  BY PathFacts DEF Path
<1>1. s # <<>> => k \in 1 .. k /\ LastOf(s) = s[k]
  <2>1. s \in Seq(Nodes)
    BY <1>0
  <2>2. s # <<>> => k # 0
    BY ONLY <2>1
  <2>3. s # <<>> => LastOf(s) = s[k]
    BY DEF LastOf
  <2> HIDE DEF k
  <2> QED
    BY <1>0, <2>2, <2>3
<1>2. In(s) = {s[i] : i \in 1 .. k}
  BY DEF In
<1>3. ASSUME NEW q \in In(s), NEW i \in 1 .. k, s[i] = q
      PROVE  Len(ChainIn(links, q)) = k - i + 1
  BY <1>3, AheadIsReach
<1>4. ASSUME s # <<>>, p = LastOf(s) PROVE p \in In(s) /\ Len(ChainIn(links, p)) = 1
  <2>1. k \in 1 .. k /\ p = s[k]
    BY <1>1, <1>4
  <2>2. p \in In(s)
    BY <1>2, <2>1
  <2>3. Len(ChainIn(links, p)) = k - k + 1
    BY <1>3, <2>1, <2>2
  <2> HIDE DEF k
  <2> QED
    BY <1>0, <2>2, <2>3
<1>5. ASSUME p \in In(s), p # LastOf(s), links[p].ptr = LastOf(s)
      PROVE  Len(ChainIn(links, p)) = 2
  <2>1. PICK i \in 1 .. k : s[i] = p
    BY <1>2, <1>5
  <2>2. s # <<>>
    BY <2>1
  <2>3. k \in 1 .. k /\ LastOf(s) = s[k] /\ i # k
    BY <1>1, <1>5, <2>1, <2>2
  <2>4. s[i + 1] = s[k]
    BY <1>0, <1>5, <2>1, <2>3
  <2>5. Len(ChainIn(links, p)) = k - i + 1
    BY <1>3, <1>5, <2>1
  <2> HIDE DEF k
  <2>6. i + 1 \in 1 .. k
    BY <1>0, <2>3
  <2>7. i + 1 = k
    BY <1>0, <2>3, <2>4, <2>6
  <2> QED
    BY <1>0, <2>5, <2>7
<1> QED
  BY <1>4, <1>5

\* While appends and finds overlap, the tail is a node of the list, and the last or the
\* one before it: an append helps (lock_free_list.inl:119) before it links its own node.
THEOREM TailNeverFarBehind == GroupsApart /\ ~ WeakFailure /\ ListSpec => []TailOneBehind
<1>1. ListInv => TailOneBehind
  <2> SUFFICES ASSUME ListInv,
                      Running \subseteq {"push_back", "emplace_back", "find", "find_if"}
               PROVE  /\ Listed # <<>> => tail.ptr \in Range(Listed)
                      /\ tail.ptr # Null => Len(Chain(tail.ptr)) <= 2
    BY DEF TailOneBehind
  <2>1. PICK s : s = Listed
    OBVIOUS
  <2>2. InvOf(s) /\ Path(next, s) /\ Range(s) = In(s)
    BY <2>1, ListedInv
  <2>3. /\ Typed /\ TailRight(s)
        /\ \A t \in Threads : Calls(t) /\ Knows(t, s)
    BY <2>2 DEF InvOf, ListShape
  <2>4. \A t \in Threads : at[t] \notin {"checkTail", "setTail", "loadEnd", "setEnd"}
    <3> SUFFICES ASSUME NEW t \in Threads PROVE
          at[t] \notin {"checkTail", "setTail", "loadEnd", "setEnd"}
      OBVIOUS
    <3>1. at[t] # "idle" => loc[t].op \in Appends \cup Finds
      BY DEF Running, Appends, Finds
    <3> QED
      BY <2>3, <3>1 DEF Calls, Appends, Finds, AppendPlaces, FindPlaces
  <2>6. CASE tail.ptr = LastOf(s)
    <3>1. s = <<>> => tail.ptr = Null
      BY <2>6 DEF LastOf
    <3>2. s # <<>> => tail.ptr \in In(s) /\ Len(ChainIn(next, tail.ptr)) = 1
      BY <2>2, <2>6, NearTheEnd
    <3>3. s # <<>> => Len(Chain(tail.ptr)) <= 2
      <4>1. Chain(tail.ptr) = ChainIn(next, tail.ptr)
        BY DEF Chain
      <4> DEFINE c == Len(Chain(tail.ptr))
      <4>2. s # <<>> => c = 1
        BY <3>2, <4>1
      <4> HIDE DEF c
      <4>3. s # <<>> => c <= 2
        BY <4>2
      <4> QED
        BY <4>3 DEF c
    <3> QED
      BY <2>1, <2>2, <3>1, <3>2, <3>3
  <2>7. CASE tail.ptr # LastOf(s)
    <3>1. PICK t \in Threads :
            at[t] = "swing" /\ loc[t].cur = tail /\ loc[t].node = LastOf(s)
      BY <2>3, <2>4, <2>7 DEF TailRight
    <3>2. tail.ptr \in Ahead(s, tail.ptr) /\ next[tail.ptr].ptr = LastOf(s)
      BY <2>3, <3>1 DEF Knows, AppendKnows
    <3>3. tail.ptr \in In(s)
      BY <3>2 DEF Ahead, In
    <3>4. Len(ChainIn(next, tail.ptr)) = 2
      BY <2>2, <2>7, <3>2, <3>3, NearTheEnd
    <3>5. Len(Chain(tail.ptr)) <= 2
      BY <3>4 DEF Chain
    <3> QED
      BY <2>1, <2>2, <3>3, <3>5
  <2> QED
    BY <2>6, <2>7
<1> QED
  BY <1>1, ListInvariant, PTL

\* What a call that is no search does to the cursors of the searches: nothing.
Unmoved ==
  \A t \in Threads : at'[t] = "visit" => at[t] = "visit" /\ loc'[t] = loc[t]

LEMMA AddsUnmoved ==
  ASSUME Typed, NEW u \in Threads,
         PushBack(u) \/ EmplaceBack(u) \/ PushFront(u) \/ EmplaceFront(u)
  PROVE  Unmoved
<1>0. at \in [Threads -> Places] /\ loc \in [Threads -> Locals]
  BY DEF Typed
<1>1. ASSUME NEW op, NEW v, StartBack(u, op, v) \/ StartFront(u, op, v) PROVE Unmoved
  BY <1>0, <1>1 DEF StartBack, StartFront, Go, Set, Unmoved
<1>2. ASSUME LoadTail(u) \/ Claim(u) \/ LoadHead(u) \/ SetHead(u) PROVE Unmoved
  BY <1>0, <1>2 DEF LoadTail, Claim, LoadHead, SetHead, Go, Set, Return, Unmoved
<1>3. ASSUME LoadNext(u) \/ Help(u) \/ Link(u) \/ Swing(u) PROVE Unmoved
  BY <1>0, <1>3 DEF LoadNext, Help, Link, Swing, Go, Set, Unmoved
<1>4. ASSUME PushHead(u) \/ CheckTail(u) \/ SetTail(u) PROVE Unmoved
  BY <1>0, <1>4 DEF PushHead, CheckTail, SetTail, Go, Set, Return, Unmoved
<1>5. ASSUME Count(u) PROVE Unmoved
  BY <1>0, <1>5 DEF Count, Go, Set, Return, Unmoved
<1> QED
  BY <1>1, <1>2, <1>3, <1>4, <1>5 DEF PushBack, EmplaceBack, PushFront, EmplaceFront,
     BackStep, FrontStep

LEMMA RemovalsUnmoved ==
  ASSUME Typed, NEW u \in Threads, Erase(u) \/ Clear(u)
  PROVE  Unmoved
<1>0. at \in [Threads -> Places] /\ loc \in [Threads -> Locals]
  BY DEF Typed
<1>1. ASSUME NEW op, NEW vs, StartRemoval(u, op, vs) PROVE Unmoved
  BY <1>0, <1>1 DEF StartRemoval, Go, Set, Unmoved
<1>2. ASSUME Top(u) \/ Match(u) \/ UnlinkHead(u) PROVE Unmoved
  BY <1>0, <1>2 DEF Top, Match, UnlinkHead, AfterUnlink, Go, Set, Return, Unmoved
<1>3. ASSUME Walk(u) \/ Look(u) \/ Unlink(u) PROVE Unmoved
  BY <1>0, <1>3 DEF Walk, Look, Unlink, AfterUnlink, Go, Set, Return, Unmoved
<1>4. ASSUME LoadEnd(u) \/ SetEnd(u) \/ FreeNode(u) \/ Uncount(u) PROVE Unmoved
  BY <1>0, <1>4 DEF LoadEnd, SetEnd, FreeNode, Uncount, Go, Set, Return, Unmoved
<1> QED
  BY <1>1, <1>2, <1>3, <1>4 DEF Erase, Clear, RemovalStep

\* A cursor is moved by its own search alone.
LEMMA OnlyFindsMove ==
  ASSUME Typed, ListNext, NEW t \in Threads, at'[t] = "visit",
         at[t] = "begin" \/ loc'[t].cur # loc[t].cur
  PROVE  BeginFind(t) \/ Visit(t)
<1>0. at \in [Threads -> Places] /\ loc \in [Threads -> Locals] /\ ~ Unmoved
  BY DEF Typed, Unmoved
<1>1. \A m : ~ SetMaxRetries(m)
  BY <1>0 DEF SetMaxRetries, Unmoved
<1>2. PICK u \in Threads : Find(u) \/ FindIf(u)
  BY <1>0, <1>1, AddsUnmoved, RemovalsUnmoved DEF ListNext
<1>3. \A op, vs : ~ StartFind(u, op, vs)
  BY <1>0 DEF StartFind, Go, Set, Unmoved
<1>4. BeginFind(u) \/ Visit(u)
  BY <1>2, <1>3 DEF Find, FindIf
<1>5. u = t
  BY <1>0, <1>4 DEF BeginFind, Visit, Go, Set, Return
<1> QED
  BY <1>4, <1>5

\* A search begins at the head.  There is none while the first append is between its two
\* CASes; then the tail is not null.
LEMMA NoHeadYet ==
  ASSUME NEW s, InvOf(s), s # <<>>, head.ptr = Null
  PROVE  tail.ptr # Null
<1>0. /\ Path(next, s) /\ HeadRight(s) /\ TailRight(s) /\ Typed
      /\ \A u \in Threads : Calls(u) /\ Knows(u, s)
      /\ \A u, v \in Threads : u # v => Apart(u, v)
  BY DEF InvOf, ListShape
<1>1. PICK t \in Threads : at[t] \in {"loadHead", "setHead"}
  BY <1>0, EmptyPath DEF HeadRight
<1>2. loc[t].op \in Appends
  <2>1. loc[t].op \in Ops
    BY <1>0 DEF Typed, Locals
  <2> QED
    BY <1>0, <1>1, <2>1 DEF Calls, Ops, Appends, Prepends, Removals, Finds, AppendPlaces,
       PrependPlaces, RemovalPlaces, FindPlaces
<1>3. \A u \in Threads : at[u] \notin {"checkTail", "setTail", "loadEnd", "setEnd"}
  <2> SUFFICES ASSUME NEW u \in Threads, at[u] \in {"checkTail", "setTail", "loadEnd", "setEnd"}
               PROVE  FALSE
    OBVIOUS
  <2>1. u # t /\ loc[u].op \in Ops
    BY <1>0, <1>1 DEF Typed, Locals
  <2>2. loc[u].op \in Prepends \cup Removals
    BY <1>0, <2>1 DEF Calls, Ops, Appends, Prepends, Removals, Finds, AppendPlaces,
       PrependPlaces, RemovalPlaces, FindPlaces
  <2>3. Together2(t, u)
    BY <1>0, <1>2, <2>1, <2>2 DEF Apart, Appends, Prepends, Removals
  <2> QED
    BY <1>2, <2>2, <2>3 DEF Together2, Appends, Prepends, Removals, Finds
<1>4. CASE tail.ptr = LastOf(s)
  BY <1>0, <1>4, EmptyPath
<1>5. CASE tail.ptr # LastOf(s)
  <2>1. PICK u \in Threads : at[u] = "swing" /\ loc[u].cur = tail
    BY <1>0, <1>3, <1>5 DEF TailRight
  <2>2. tail.ptr \in Nodes
    BY <1>0, <2>1 DEF Knows, AppendKnows, Ahead
  <2> QED
    BY <2>2, ListAssumption
<1> QED
  BY <1>4, <1>5

\* Wherever the cursor of a search gets to (lock_free_list.inl:344-354), it is at or before
\* every node that matched when the search began, whatever is added to either end
\* meanwhile.  The one exception is a search that reads the head between the two CASes of
\* the first append (lines 100 and 109), which finds nothing.
THEOREM FindsSeeAll == GroupsApart /\ ~ WeakFailure /\ ListSpec => FindSeesAll
<1> DEFINE Sees ==
      \A t \in Threads :
        at'[t] = "visit" /\ (at[t] = "begin" \/ loc'[t].cur # loc[t].cur) =>
          \/ due[t] \subseteq Reach(loc'[t].cur.ptr)
          \/ at[t] = "begin" /\ head.ptr = Null /\ tail.ptr # Null
<1>1. ListInv /\ [ListNext]_listVars => [Sees]_listVars
  <2> SUFFICES ASSUME ListInv, ListNext, NEW t \in Threads, at'[t] = "visit",
                      at[t] = "begin" \/ loc'[t].cur # loc[t].cur
               PROVE  \/ due[t] \subseteq Reach(loc'[t].cur.ptr)
                      \/ at[t] = "begin" /\ head.ptr = Null /\ tail.ptr # Null
    OBVIOUS
  <2>1. PICK s : InvOf(s)
    BY DEF ListInv
  <2>2. Path(next, s) /\ FindKnows(t, s) /\ Typed
    BY <2>1 DEF InvOf, ListShape, Knows
  <2>3. \A p \in In(s) \cup {Null} : Reach(p) = Ahead(s, p)
    BY <2>2, AheadIsReach DEF Reach, Chain
  <2>4. CASE BeginFind(t)
    <3>1. at[t] = "begin" /\ loc'[t].cur.ptr = head.ptr /\ due[t] \subseteq In(s)
      BY <2>2, <2>4 DEF BeginFind, Set, Typed, Locals, FindKnows, FindPlaces
    <3>2. CASE head.ptr # Null
      <4>1. head.ptr \in In(s) /\ In(s) \subseteq Ahead(s, head.ptr)
        BY <2>1, <2>2, <3>2, HeadIn, EmptyPath
      <4> QED
        BY <2>3, <3>1, <4>1
    <3>3. CASE head.ptr = Null
      <4>1. CASE s = <<>>
        BY <2>2, <3>1, <4>1, EmptyPath
      <4>2. CASE s # <<>>
        BY <2>1, <3>1, <3>3, <4>2, NoHeadYet
      <4> QED
        BY <4>1, <4>2
    <3> QED
      BY <3>2, <3>3
  <2>5. CASE Visit(t)
    <3> DEFINE p == loc[t].cur.ptr
    <3>1. /\ at[t] = "visit" /\ p # Null /\ value[p] \notin loc[t].want
          /\ loc'[t].cur = next[p]
      BY <2>2, <2>5 DEF Visit, Return, Go, Set, Typed, Locals
    <3>2. /\ p \in In(s) /\ due[t] \subseteq Ahead(s, p)
          /\ \A n \in due[t] : value[n] \in loc[t].want
      BY <2>2, <3>1 DEF FindKnows, FindPlaces
    <3>3. due[t] \subseteq Ahead(s, p) \ {p}
      BY <3>1, <3>2
    <3>4. CASE p = LastOf(s)
      BY <2>2, <3>2, <3>3, <3>4, AheadFacts
    <3>5. CASE p # LastOf(s)
      <4>1. next[p].ptr \in In(s) /\ Ahead(s, p) = {p} \cup Ahead(s, next[p].ptr)
        BY <2>2, <3>2, <3>5, AheadFacts
      <4> QED
        BY <2>3, <3>1, <3>3, <4>1
    <3> QED
      BY <3>4, <3>5
  <2> QED
    BY <2>2, <2>4, <2>5, OnlyFindsMove
<1>2. CASE GroupsApart /\ ~ WeakFailure
  <2>1. ListSpec => []ListInv
    BY <1>2, ListInvariant
  <2> QED
    BY <1>1, <2>1, PTL DEF ListSpec, FindSeesAll
<1>3. CASE ~ (GroupsApart /\ ~ WeakFailure)
  BY <1>3
<1> QED
  BY <1>2, <1>3

\* The list is a sequence of nodes: each step of the code leaves it as it is, adds a
\* node that is not in it at one end, or takes one node out.
THEOREM ListImplementsSequence ==
  GroupsApart /\ ~ WeakFailure /\ ListSpec => ImplementsSequence
<1>1. ListInit => Sequence!SequenceInit
  <2>1. ListInit => Listed = <<>>
    BY EmptyListInv, ListedIs DEF InvOf
  <2> QED
    BY <2>1 DEF Sequence!SequenceInit
<1>2. GroupsApart /\ ~ WeakFailure /\ ListInv /\ [ListNext]_listVars =>
        [Sequence!SequenceNext]_Listed
  <2> SUFFICES ASSUME GroupsApart, ~ WeakFailure, ListInv, [ListNext]_listVars
               PROVE  [Sequence!SequenceNext]_Listed
    OBVIOUS
  <2>1. PICK s : InvOf(s)
    BY DEF ListInv
  <2>2. PICK s2 : InvOf(s2)' /\ Moves(s, s2)
    BY <2>1, ListMoves DEF Kept
  <2>3. Listed = s /\ Listed' = s2
    BY <2>1, <2>2, ListedIs, ListedIsNext DEF InvOf
  <2>4. Range(Listed) = In(s) /\ DOMAIN Listed = 1 .. Len(s)
    BY <2>3, ListedInv
  <2>5. CASE s2 = s
    BY <2>3, <2>5
  <2>6. CASE \E n \in Nodes \ In(s) : s2 = Append(s, n) \/ s2 = <<n>> \o s
    <3>1. PICK n \in Nodes \ In(s) : s2 = Append(s, n) \/ s2 = <<n>> \o s
      BY <2>6
    <3>2. Sequence!AtBack(n) \/ Sequence!AtFront(n)
      BY <2>3, <2>4, <3>1 DEF Sequence!AtBack, Sequence!AtFront,
         Sequence!Range, Range
    <3> QED
      BY <3>1, <3>2 DEF Sequence!SequenceNext
  <2>7. CASE \E i \in 1 .. Len(s) : s2 = RemoveAt(s, i)
    <3>1. PICK i \in DOMAIN Listed : s2 = RemoveAt(s, i)
      BY <2>4, <2>7
    <3>2. Sequence!Removal(i)
      BY <2>3, <3>1 DEF Sequence!Removal, Sequence!RemoveAt, RemoveAt
    <3> QED
      BY <3>1, <3>2 DEF Sequence!SequenceNext
  <2> QED
    BY <2>2, <2>5, <2>6, <2>7 DEF Moves
<1>3. CASE GroupsApart /\ ~ WeakFailure
  <2>1. ListInv /\ [ListNext]_listVars => [Sequence!SequenceNext]_Listed
    BY <1>2, <1>3
  <2>2. ListSpec => []ListInv
    BY <1>3, ListInvariant
  <2> QED
    BY <1>1, <2>1, <2>2, PTL DEF ListSpec, ImplementsSequence, Sequence!SequenceSpec
<1>4. CASE ~ (GroupsApart /\ ~ WeakFailure)
  BY <1>4
<1> QED
  BY <1>3, <1>4
=============================================================================
