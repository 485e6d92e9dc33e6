--------------------------- MODULE LifoPoolProofs ---------------------------
(***************************************************************************)
(* For any number of threads, nodes and tags, and even if                   *)
(* compare_exchange_weak fails spuriously: the pool implements a stack with *)
(* atomic operations, and each node is in one place, provided that no       *)
(* thread is overtaken TagMod times between its load and its CAS.           *)
(*                                                                          *)
(* The argument: the tag that a thread expects differs from the pool's by   *)
(* the number of CASes it was overtaken by.  So its own CAS succeeds only   *)
(* if it was not overtaken, and then the link it read is still the link of  *)
(* the top node, for links change only in nodes that are being released.    *)
(***************************************************************************)
EXTENDS LifoPool, TLAPS, SequenceTheorems

TagAfter(tag, n) == IF tag + n < TagMod THEN tag + n ELSE tag + n - TagMod

\* The tag of a snapshot tells by how many CASes it is behind.
TagTellsLag ==
  \A t \in Threads : InWindow(t) =>
    /\ top.tag = TagAfter(snap[t].tag, lag[t])
    /\ lag[t] = 0 => snap[t].ptr = top.ptr

\* What a thread of acquire() that was not overtaken has read is still true.
LinkReadFresh ==
  \A t \in Threads :
    /\ at[t] \in {"read", "pop"} => snap[t].ptr # Null
    /\ at[t] = "pop" /\ lag[t] = 0 => nxt[t] = next[snap[t].ptr]

\* The node that is about to be pushed is linked to the top its thread expects.
LinkWritten ==
  \A t \in Threads :
    /\ Releasing(t) => node[t] \in Nodes
    /\ at[t] = "push" => next[node[t]] = snap[t].ptr

LifoInv ==
  /\ LifoTypeOK
  /\ EachNodeOnce
  /\ ChainIsStack
  /\ TagTellsLag
  /\ LinkReadFresh
  /\ LinkWritten

-----------------------------------------------------------------------------
LEMMA NextTagIsTag == ASSUME NEW tag \in Tags PROVE NextTag(tag) \in Tags
BY LifoAssumption DEF NextTag, Tags

LEMMA NoLag == ASSUME NEW tag \in Tags PROVE TagAfter(tag, 0) = tag
BY LifoAssumption DEF TagAfter, Tags

\* One more CAS advances the tag by one.
LEMMA OneMore ==
  ASSUME NEW tag \in Tags, NEW n \in Nat, n + 1 < TagMod
  PROVE  TagAfter(tag, n + 1) = NextTag(TagAfter(tag, n))
BY LifoAssumption DEF TagAfter, NextTag, Tags

\* A CAS succeeds only for a thread that was not overtaken.
LEMMA MatchMeansFresh ==
  ASSUME LifoTypeOK, TagTellsLag, NEW t \in Threads, InWindow(t), Matches(t)
  PROVE  lag[t] = 0
<1>1. snap[t].tag \in Tags /\ lag[t] \in Tags /\ top.tag = snap[t].tag
  BY DEF LifoTypeOK, Tagged, Matches
<1>2. top.tag = TagAfter(snap[t].tag, lag[t])
  BY DEF TagTellsLag
<1> QED BY <1>1, <1>2, LifoAssumption DEF TagAfter, Tags

LEMMA Popped ==
  ASSUME NEW s \in Seq(Nodes), s # <<>>
  PROVE  /\ Tail(s) \in Seq(Nodes)
         /\ Len(Tail(s)) = Len(s) - 1
         /\ \A i \in 1 .. Len(s) - 1 : Tail(s)[i] = s[i + 1]
         /\ Head(s) = s[1]
         /\ Len(s) \in Nat \ {0}
         /\ DOMAIN s = 1 .. Len(s)
         /\ DOMAIN Tail(s) = 1 .. Len(s) - 1
         /\ s[1] \in Nodes
<1>1. Len(s) \in Nat /\ Len(s) # 0 BY EmptySeq, LenProperties
<1>2. Tail(s) \in Seq(Nodes) BY HeadTailProperties
<1>3. /\ Len(Tail(s)) = Len(s) - 1 
      /\ \A i \in 1 .. Len(s) - 1 : Tail(s)[i] = s[i + 1]
  BY HeadTailProperties
<1> QED BY <1>1, <1>2, <1>3, LenProperties, ElementOfSeq

LEMMA Pushed ==
  ASSUME NEW s \in Seq(Nodes), NEW n \in Nodes
  PROVE  LET p == <<n>> \o s
         IN  /\ p \in Seq(Nodes)
             /\ Len(p) = Len(s) + 1
             /\ p[1] = n
             /\ \A i \in 2 .. Len(s) + 1 : p[i] = s[i - 1]
             /\ Len(s) \in Nat
             /\ DOMAIN s = 1 .. Len(s)
             /\ DOMAIN p = 1 .. Len(s) + 1
             /\ p # <<>>
<1>1. <<n>> \in Seq(Nodes) /\ Len(<<n>>) = 1 /\ <<n>>[1] = n
  OBVIOUS
<1>2. Len(s) \in Nat BY LenProperties
<1> DEFINE p == <<n>> \o s
<1>3. /\ p \in Seq(Nodes)
      /\ Len(p) = 1 + Len(s)
      /\ \A i \in 1 .. 1 + Len(s) : p[i] = IF i <= 1 THEN <<n>>[i] ELSE s[i - 1]
  BY <1>1, ConcatProperties
<1>4. p[1] = n /\ \A i \in 2 .. Len(s) + 1 : p[i] = s[i - 1]
  BY <1>1, <1>2, <1>3
<1>5. DOMAIN p = 1 .. Len(s) + 1 /\ DOMAIN s = 1 .. Len(s)
  BY <1>2, <1>3, LenProperties
<1> QED BY <1>2, <1>3, <1>4, <1>5, EmptySeq

-----------------------------------------------------------------------------
LEMMA LifoInitially == LifoInit => LifoInv
<1> SUFFICES ASSUME LifoInit PROVE LifoInv
  OBVIOUS
<1>1. /\ stack \in Seq(Nodes) /\ Len(stack) = N /\ DOMAIN stack = 1 .. N
      /\ \A i \in 1 .. N : stack[i] = i
      /\ stack # <<>>
  <2>1. stack \in [1 .. N -> Nodes] BY DEF LifoInit, Nodes
  <2>2. stack \in Seq(Nodes) BY <2>1, LifoAssumption, SeqDef
  <2>3. Len(stack) = N BY <2>1, <2>2, LifoAssumption, LenProperties
  <2> QED BY <2>1, <2>2, <2>3, LifoAssumption, EmptySeq, LenProperties DEF LifoInit, Nodes
<1>2. LifoTypeOK
  BY <1>1, LifoAssumption, NullAssumption
     DEF LifoInit, LifoTypeOK, Nodes, Pointers, Tags, Tagged, Places
<1>3. EachNodeOnce
  BY <1>1, LifoAssumption DEF LifoInit, EachNodeOnce, OnStack, InRelease, Releasing, Nodes
<1>4. ChainIsStack
  <2>1. \A i \in 1 .. N : next[i] = (IF i < N THEN i + 1 ELSE Null)
    BY DEF LifoInit, Nodes
  <2>2. \A i \in 1 .. N : next[stack[i]] = (IF i = N THEN Null ELSE stack[i + 1])
    <3> SUFFICES ASSUME NEW i \in 1 .. N
                 PROVE  next[stack[i]] = (IF i = N THEN Null ELSE stack[i + 1])
      OBVIOUS
    <3>1. CASE i = N BY <1>1, <2>1, <3>1, LifoAssumption
    <3>2. CASE i # N
      <4>1. i + 1 \in 1 .. N BY <3>2, LifoAssumption
      <4> QED BY <1>1, <2>1, <3>2, <4>1, LifoAssumption
    <3> QED BY <3>1, <3>2
  <2>3. top.ptr = stack[1]
    BY <1>1, LifoAssumption DEF LifoInit
  <2> QED BY <1>1, <2>2, <2>3 DEF ChainIsStack
<1>5. TagTellsLag /\ LinkReadFresh /\ LinkWritten
  BY DEF LifoInit, TagTellsLag, LinkReadFresh, LinkWritten, InWindow, Window, Releasing
<1> QED BY <1>2, <1>3, <1>4, <1>5 DEF LifoInv

LEMMA LoadTopKeeps ==
  ASSUME LifoInv, NEW t \in Threads, LoadTop(t) PROVE LifoInv'
<1> USE DEF LoadTop, Load
<1>1. LifoTypeOK'
  BY LifoAssumption DEF LifoInv, LifoTypeOK, Tags, Places
<1>2. EachNodeOnce'
  <2>1. InRelease' = InRelease /\ OnStack' = OnStack
    BY DEF InRelease, OnStack, Releasing, LifoInv, LifoTypeOK
  <2> QED BY <2>1 DEF LifoInv, EachNodeOnce, Releasing, LifoTypeOK
<1>3. ChainIsStack'
  BY DEF LifoInv, ChainIsStack
<1>4. TagTellsLag'
  BY NoLag DEF LifoInv, TagTellsLag, InWindow, LifoTypeOK, Tagged
<1>5. LinkReadFresh' /\ LinkWritten'
  BY DEF LifoInv, LinkReadFresh, LinkWritten, Releasing, LifoTypeOK
<1> QED BY <1>1, <1>2, <1>3, <1>4, <1>5 DEF LifoInv

LEMMA ReadNextKeeps ==
  ASSUME LifoInv, NEW t \in Threads, ReadNext(t) PROVE LifoInv'
<1> USE DEF ReadNext
<1>0. snap[t].ptr \in Nodes
  BY DEF LifoInv, LifoTypeOK, LinkReadFresh, Tagged, Pointers
<1>1. LifoTypeOK'
  BY <1>0 DEF LifoInv, LifoTypeOK, Places
<1>2. EachNodeOnce'
  <2>1. InRelease' = InRelease /\ OnStack' = OnStack
    BY DEF InRelease, OnStack, Releasing, LifoInv, LifoTypeOK
  <2> QED BY <2>1 DEF LifoInv, EachNodeOnce, Releasing, LifoTypeOK
<1>3. ChainIsStack'
  BY DEF LifoInv, ChainIsStack
<1>4. TagTellsLag'
  BY DEF LifoInv, TagTellsLag, InWindow, Window, LifoTypeOK
<1>5. LinkReadFresh' /\ LinkWritten'
  BY DEF LifoInv, LinkReadFresh, LinkWritten, Releasing, LifoTypeOK
<1> QED BY <1>1, <1>2, <1>3, <1>4, <1>5 DEF LifoInv

LEMMA StartReleaseKeeps ==
  ASSUME LifoInv, NEW t \in Threads, NEW n \in Nodes, StartRelease(t, n) PROVE LifoInv'
<1> USE DEF StartRelease, Load
<1>1. LifoTypeOK'
  BY LifoAssumption DEF LifoInv, LifoTypeOK, Tags, Places, Pointers
<1>2. EachNodeOnce'
  <2>1. InRelease' = InRelease \union {n} /\ OnStack' = OnStack
    BY DEF InRelease, OnStack, Releasing, LifoInv, LifoTypeOK
  <2>2. n \notin OnStack /\ n \notin InRelease /\ n \notin held'
    BY DEF LifoInv, EachNodeOnce
  <2>3. \A u \in Threads : u # t /\ Releasing(u)' => node'[u] = node[u] /\ node[u] \in InRelease
    BY DEF Releasing, InRelease, LifoInv, LifoTypeOK
  <2>4. \A u \in Threads : u # t /\ Releasing(u)' => node'[u] # n
    BY <2>2, <2>3
  <2> QED BY <2>1, <2>2, <2>4 DEF LifoInv, EachNodeOnce, Releasing, LifoTypeOK
<1>3. ChainIsStack'
  BY DEF LifoInv, ChainIsStack
<1>4. TagTellsLag'
  BY NoLag DEF LifoInv, TagTellsLag, InWindow, LifoTypeOK, Tagged
<1>5. LinkReadFresh' /\ LinkWritten'
  BY DEF LifoInv, LinkReadFresh, LinkWritten, Releasing, LifoTypeOK
<1> QED BY <1>1, <1>2, <1>3, <1>4, <1>5 DEF LifoInv

\* No thread that was not overtaken expects the node that is being linked.
LEMMA LinkNodeKeeps ==
  ASSUME LifoInv, NEW t \in Threads, LinkNode(t) PROVE LifoInv'
<1> USE DEF LinkNode
<1>0. node[t] \in Nodes /\ node[t] \in InRelease
  BY DEF LifoInv, LinkWritten, Releasing, InRelease
<1>1. LifoTypeOK'
  BY <1>0 DEF LifoInv, LifoTypeOK, Places, Tagged
<1>2. EachNodeOnce'
  <2>1. InRelease' = InRelease /\ OnStack' = OnStack
    BY DEF InRelease, OnStack, Releasing, LifoInv, LifoTypeOK
  <2> QED BY <2>1 DEF LifoInv, EachNodeOnce, Releasing, LifoTypeOK
<1>3. ChainIsStack'
  <2>1. \A i \in DOMAIN stack : stack[i] # node[t]
    BY <1>0 DEF LifoInv, EachNodeOnce, OnStack
  <2> QED BY <1>0, <2>1 DEF LifoInv, ChainIsStack, LifoTypeOK
<1>4. TagTellsLag'
  BY DEF LifoInv, TagTellsLag, InWindow, Window, LifoTypeOK
<1>5. LinkReadFresh'
  <2>1. top.ptr # node[t]
    <3>1. CASE stack = <<>>
      BY <1>0, <3>1, NullAssumption DEF LifoInv, ChainIsStack
    <3>2. CASE stack # <<>>
      <4>1. stack[1] \in OnStack
        BY <3>2, Popped DEF LifoInv, LifoTypeOK, OnStack
      <4> QED BY <1>0, <3>2, <4>1 DEF LifoInv, ChainIsStack, EachNodeOnce
    <3> QED BY <3>1, <3>2
  <2>2. \A u \in Threads : at[u] = "pop" /\ lag[u] = 0 => snap[u].ptr # node[t]
    BY <2>1 DEF LifoInv, TagTellsLag, InWindow, Window
  <2> QED BY <2>2 DEF LifoInv, LinkReadFresh, LifoTypeOK
<1>6. LinkWritten'
  <2>1. \A u \in Threads : u # t /\ Releasing(u) => node[u] # node[t]
    BY DEF LifoInv, EachNodeOnce, Releasing
  <2> QED BY <1>0, <2>1 DEF LifoInv, LinkWritten, Releasing, LifoTypeOK
<1> QED BY <1>1, <1>2, <1>3, <1>4, <1>5, <1>6 DEF LifoInv

LEMMA PopAgainKeeps ==
  ASSUME LifoInv, NEW t \in Threads, PopAgain(t) PROVE LifoInv'
<1> USE DEF PopAgain, Load, Leave
<1>1. LifoTypeOK'
  <2>1. [ptr |-> Null, tag |-> 0] \in Tagged /\ 0 \in Tags
    BY LifoAssumption DEF Tagged, Pointers, Tags
  <2>2. CASE top.ptr # Null
    BY <2>1, <2>2 DEF LifoInv, LifoTypeOK, Places, Pointers
  <2>3. CASE top.ptr = Null
    BY <2>1, <2>3 DEF LifoInv, LifoTypeOK, Places, Pointers
  <2> QED BY <2>2, <2>3
<1>2. EachNodeOnce'
  <2>1. InRelease' = InRelease /\ OnStack' = OnStack
    BY DEF InRelease, OnStack, Releasing, LifoInv, LifoTypeOK
  <2> QED BY <2>1 DEF LifoInv, EachNodeOnce, Releasing, LifoTypeOK
<1>3. ChainIsStack'
  BY DEF LifoInv, ChainIsStack
<1>4. TagTellsLag'
  BY NoLag DEF LifoInv, TagTellsLag, InWindow, Window, LifoTypeOK, Tagged
<1>5. LinkReadFresh' /\ LinkWritten'
  BY DEF LifoInv, LinkReadFresh, LinkWritten, Releasing, LifoTypeOK
<1> QED BY <1>1, <1>2, <1>3, <1>4, <1>5 DEF LifoInv

LEMMA PushAgainKeeps ==
  ASSUME LifoInv, NEW t \in Threads, PushAgain(t) PROVE LifoInv'
<1> USE DEF PushAgain, Load
<1>1. LifoTypeOK'
  BY LifoAssumption DEF LifoInv, LifoTypeOK, Tags, Places
<1>2. EachNodeOnce'
  <2>1. InRelease' = InRelease /\ OnStack' = OnStack
    BY DEF InRelease, OnStack, Releasing, LifoInv, LifoTypeOK
  <2> QED BY <2>1 DEF LifoInv, EachNodeOnce, Releasing, LifoTypeOK
<1>3. ChainIsStack'
  BY DEF LifoInv, ChainIsStack
<1>4. TagTellsLag'
  BY NoLag DEF LifoInv, TagTellsLag, InWindow, LifoTypeOK, Tagged
<1>5. LinkReadFresh' /\ LinkWritten'
  BY DEF LifoInv, LinkReadFresh, LinkWritten, Releasing, LifoTypeOK
<1> QED BY <1>1, <1>2, <1>3, <1>4, <1>5 DEF LifoInv

\* A successful CAS keeps the relation of tags and lags: the others are one more
\* behind, and the thread itself has left the window.
LEMMA SwingKeepsTags ==
  ASSUME LifoInv, ~Lapping, NEW t \in Threads, InWindow(t), Matches(t),
         NEW p \in Pointers, SwingTop(t, p)
  PROVE  /\ TagTellsLag'
         /\ \A u \in Threads : u # t /\ InWindow(u) => lag'[u] = lag[u] + 1
         /\ lag' \in [Threads -> Tags]
         /\ top' \in Tagged
         /\ snap' \in [Threads -> Tagged]
         /\ at' \in [Threads -> Places]
<1> USE DEF SwingTop, Leave
<1>1. snap[t].tag \in Tags /\ top.tag = snap[t].tag
  BY DEF LifoInv, LifoTypeOK, Tagged, Matches
<1>2. top' \in Tagged /\ top'.tag = NextTag(top.tag)
  BY <1>1, NextTagIsTag DEF Tagged
<1>3. \A u \in Threads : u # t /\ InWindow(u) => lag'[u] = lag[u] + 1 /\ lag[u] + 1 < TagMod
  BY DEF NoneLapped
<1>4. lag' \in [Threads -> Tags]
  BY LifoAssumption DEF LifoInv, LifoTypeOK, Tags
<1>5. snap' \in [Threads -> Tagged] /\ at' \in [Threads -> Places]
  BY LifoAssumption DEF LifoInv, LifoTypeOK, Tagged, Pointers, Tags, Places
<1>6. TagTellsLag'
  <2> SUFFICES ASSUME NEW u \in Threads, InWindow(u)'
               PROVE  /\ top'.tag = TagAfter(snap'[u].tag, lag'[u])
                      /\ lag'[u] = 0 => snap'[u].ptr = top'.ptr
    BY DEF TagTellsLag
  <2>1. u # t /\ InWindow(u) /\ snap'[u] = snap[u]
    BY DEF InWindow, Window, LifoInv, LifoTypeOK
  <2>2. /\ snap[u].tag \in Tags /\ lag[u] \in Nat
        /\ top.tag = TagAfter(snap[u].tag, lag[u])
    BY <2>1 DEF LifoInv, LifoTypeOK, Tagged, Tags, TagTellsLag
  <2>3. lag'[u] = lag[u] + 1 /\ lag[u] + 1 < TagMod
    BY <1>3, <2>1
  <2> QED BY <1>2, <2>1, <2>2, <2>3, OneMore
<1> QED BY <1>2, <1>3, <1>4, <1>5, <1>6

\* acquire() takes the node that is on top of the stack.
LEMMA PopTakesTop ==
  ASSUME LifoInv, NEW t \in Threads, at[t] = "pop", Matches(t)
  PROVE  /\ stack # <<>>
         /\ snap[t].ptr = stack[1]
         /\ nxt[t] = (IF Len(stack) = 1 THEN Null ELSE stack[2])
<1>1. lag[t] = 0
  BY MatchMeansFresh DEF LifoInv, InWindow, Window
<1>2. snap[t].ptr = top.ptr /\ snap[t].ptr # Null /\ nxt[t] = next[snap[t].ptr]
  BY <1>1 DEF LifoInv, LinkReadFresh, Matches
<1>3. stack # <<>> /\ snap[t].ptr = stack[1]
  BY <1>2 DEF LifoInv, ChainIsStack
<1>4. 1 \in DOMAIN stack
  BY <1>3, Popped DEF LifoInv, LifoTypeOK
<1>5. next[stack[1]] = (IF 1 = Len(stack) THEN Null ELSE stack[1 + 1])
  BY <1>4 DEF LifoInv, ChainIsStack
<1> QED BY <1>2, <1>3, <1>5

LEMMA PopKeeps ==
  ASSUME LifoInv, ~Lapping, NEW t \in Threads, Pop(t) PROVE LifoInv'
<1>0. at[t] = "pop" /\ InWindow(t) /\ Matches(t) /\ SwingTop(t, nxt[t]) /\ nxt[t] \in Pointers
  BY DEF Pop, InWindow, Window, LifoInv, LifoTypeOK
<1>1. /\ stack # <<>> /\ stack \in Seq(Nodes)
      /\ snap[t].ptr = stack[1]
      /\ nxt[t] = (IF Len(stack) = 1 THEN Null ELSE stack[2])
  BY <1>0, PopTakesTop DEF LifoInv, LifoTypeOK
<1>2. /\ stack' = Tail(stack) /\ held' = held \union {stack[1]}
      /\ top'.ptr = nxt[t] /\ next' = next /\ node' = node
      /\ nxt' = [nxt EXCEPT ![t] = Null]
      /\ at' = [at EXCEPT ![t] = "out"]
      /\ \A u \in Threads : u # t => snap'[u] = snap[u]
  BY <1>0, <1>1 DEF Pop, SwingTop, Leave, LifoInv, LifoTypeOK
<1>3. /\ Tail(stack) \in Seq(Nodes) /\ Len(Tail(stack)) = Len(stack) - 1
      /\ \A i \in 1 .. Len(stack) - 1 : Tail(stack)[i] = stack[i + 1]
      /\ Len(stack) \in Nat \ {0} /\ stack[1] \in Nodes
      /\ DOMAIN stack = 1 .. Len(stack) /\ DOMAIN Tail(stack) = 1 .. Len(stack) - 1
  BY <1>1, Popped
<1>4. /\ TagTellsLag'
      /\ \A u \in Threads : u # t /\ InWindow(u) => lag'[u] = lag[u] + 1
      /\ lag' \in [Threads -> Tags] /\ top' \in Tagged /\ snap' \in [Threads -> Tagged]
      /\ at' \in [Threads -> Places]
  BY <1>0, SwingKeepsTags
<1>5. LifoTypeOK'
  BY <1>2, <1>3, <1>4 DEF LifoInv, LifoTypeOK, Pointers
<1>6. EachNodeOnce'
  <2>1. InRelease' = InRelease
    BY <1>0, <1>2 DEF InRelease, Releasing, LifoInv, LifoTypeOK
  <2>2. OnStack = OnStack' \union {stack[1]} /\ stack[1] \notin OnStack'
    <3>1. OnStack' = {stack[i] : i \in 2 .. Len(stack)}
      <4>1. \A i \in 1 .. Len(stack) - 1 : i + 1 \in 2 .. Len(stack) /\ stack'[i] = stack[i + 1]
        BY <1>2, <1>3
      <4>2. \A j \in 2 .. Len(stack) : j - 1 \in 1 .. Len(stack) - 1 /\ stack'[j - 1] = stack[j]
        BY <1>2, <1>3
      <4>3. OnStack' = {stack'[i] : i \in 1 .. Len(stack) - 1}
        BY <1>2, <1>3 DEF OnStack
      <4>4. OnStack' \subseteq {stack[i] : i \in 2 .. Len(stack)}
        BY <4>1, <4>3
      <4>5. {stack[i] : i \in 2 .. Len(stack)} \subseteq OnStack'
        <5> SUFFICES ASSUME NEW j \in 2 .. Len(stack) PROVE stack[j] \in OnStack'
          OBVIOUS
        <5> QED BY <4>2, <4>3
      <4> QED BY <4>4, <4>5
    <3>2. \A i \in 2 .. Len(stack) : stack[i] # stack[1]
      BY <1>3 DEF LifoInv, EachNodeOnce
    <3>3. OnStack = {stack[i] : i \in 2 .. Len(stack)} \union {stack[1]}
      BY <1>3 DEF OnStack
    <3> QED BY <3>1, <3>2, <3>3
  <2>3. \A i, j \in DOMAIN stack' : stack'[i] = stack'[j] => i = j
    BY <1>2, <1>3 DEF LifoInv, EachNodeOnce
  <2>4. \A u, w \in Threads :
          u # w /\ Releasing(u)' /\ Releasing(w)' => node'[u] # node'[w]
    BY <1>0, <1>2 DEF LifoInv, EachNodeOnce, Releasing, LifoTypeOK
  <2> QED BY <1>2, <2>1, <2>2, <2>3, <2>4 DEF LifoInv, EachNodeOnce
<1>7. ChainIsStack'
  <2>1. top'.ptr = (IF stack' = <<>> THEN Null ELSE stack'[1])
    <3>1. CASE Len(stack) = 1
      BY <1>1, <1>2, <1>3, <3>1, EmptySeq
    <3>2. CASE Len(stack) # 1
      <4>1. Len(stack) - 1 # 0 /\ stack'[1] = stack[2] BY <1>2, <1>3, <3>2
      <4> QED BY <1>1, <1>2, <1>3, <3>2, <4>1, EmptySeq
    <3> QED BY <3>1, <3>2
  <2>2. \A i \in DOMAIN stack' :
          next'[stack'[i]] = (IF i = Len(stack') THEN Null ELSE stack'[i + 1])
    BY <1>2, <1>3 DEF LifoInv, ChainIsStack
  <2> QED BY <2>1, <2>2 DEF ChainIsStack
<1>8. LinkReadFresh'
  <2> SUFFICES ASSUME NEW u \in Threads
               PROVE  /\ at'[u] \in {"read", "pop"} => snap'[u].ptr # Null
                      /\ at'[u] = "pop" /\ lag'[u] = 0 => nxt'[u] = next'[snap'[u].ptr]
    BY DEF LinkReadFresh
  <2>1. CASE u = t BY <1>2, <2>1 DEF LifoInv, LifoTypeOK
  <2>2. CASE u # t
    <3>1. at'[u] = at[u] /\ snap'[u] = snap[u] BY <1>2, <2>2 DEF LifoInv, LifoTypeOK
    <3>2. at[u] = "pop" => lag'[u] # 0
      BY <1>4, <2>2 DEF InWindow, Window, LifoInv, LifoTypeOK, Tags
    <3> QED BY <3>1, <3>2 DEF LifoInv, LinkReadFresh
  <2> QED BY <2>1, <2>2
<1>9. LinkWritten'
  BY <1>0, <1>2 DEF LifoInv, LinkWritten, Releasing, LifoTypeOK
<1> QED BY <1>4, <1>5, <1>6, <1>7, <1>8, <1>9 DEF LifoInv

LEMMA PushKeeps ==
  ASSUME LifoInv, ~Lapping, NEW t \in Threads, Push(t) PROVE LifoInv'
<1>0. /\ at[t] = "push" /\ Releasing(t) /\ InWindow(t) /\ Matches(t)
      /\ node[t] \in Nodes /\ node[t] \in Pointers
      /\ SwingTop(t, node[t]) /\ stack \in Seq(Nodes)
      /\ next[node[t]] = top.ptr
  BY DEF Push, InWindow, Window, Releasing, Matches, Pointers, LifoInv, LifoTypeOK, LinkWritten
<1>1. node[t] \in InRelease
  BY <1>0 DEF InRelease
<1>2. /\ stack' = <<node[t]>> \o stack
      /\ top'.ptr = node[t] /\ next' = next /\ held' = held /\ nxt' = nxt
      /\ node' = [node EXCEPT ![t] = Null]
      /\ at' = [at EXCEPT ![t] = "out"]
      /\ \A u \in Threads : u # t => snap'[u] = snap[u]
  BY <1>0 DEF Push, SwingTop, Leave, LifoInv, LifoTypeOK
<1>3. /\ stack' \in Seq(Nodes) /\ Len(stack') = Len(stack) + 1 /\ stack'[1] = node[t]
      /\ \A i \in 2 .. Len(stack) + 1 : stack'[i] = stack[i - 1]
      /\ Len(stack) \in Nat /\ DOMAIN stack = 1 .. Len(stack)
      /\ DOMAIN stack' = 1 .. Len(stack) + 1 /\ stack' # <<>>
  BY <1>0, <1>2, Pushed
<1>4. /\ TagTellsLag'
      /\ \A u \in Threads : u # t /\ InWindow(u) => lag'[u] = lag[u] + 1
      /\ lag' \in [Threads -> Tags] /\ top' \in Tagged /\ snap' \in [Threads -> Tagged]
      /\ at' \in [Threads -> Places]
  BY <1>0, SwingKeepsTags
<1>5. LifoTypeOK'
  BY <1>2, <1>3, <1>4 DEF LifoInv, LifoTypeOK, Pointers
<1>6. EachNodeOnce'
  <2>1. InRelease' = InRelease \ {node[t]}
    <3>1. \A u \in Threads : u # t /\ Releasing(u) => node[u] # node[t]
      BY <1>0 DEF LifoInv, EachNodeOnce
    <3>2. \A u \in Threads : Releasing(u)' <=> u # t /\ Releasing(u)
      BY <1>2 DEF Releasing, LifoInv, LifoTypeOK
    <3>3. \A u \in Threads : u # t => node'[u] = node[u]
      BY <1>2 DEF LifoInv, LifoTypeOK
    <3> QED BY <3>1, <3>2, <3>3 DEF InRelease
  <2>2. OnStack' = OnStack \union {node[t]} /\ node[t] \notin OnStack
    <3>1. \A i \in 1 .. Len(stack) : i + 1 \in 2 .. Len(stack) + 1 /\ stack'[i + 1] = stack[i]
      BY <1>3
    <3>2. OnStack \subseteq OnStack'
      <4> SUFFICES ASSUME NEW i \in 1 .. Len(stack) PROVE stack[i] \in OnStack'
        BY <1>3 DEF OnStack
      <4> QED BY <1>3, <3>1 DEF OnStack
    <3>3. node[t] \in OnStack'
      BY <1>3 DEF OnStack
    <3>4. OnStack' \subseteq OnStack \union {node[t]}
      <4> SUFFICES ASSUME NEW i \in 1 .. Len(stack) + 1
                   PROVE  stack'[i] \in OnStack \union {node[t]}
        BY <1>3 DEF OnStack
      <4>1. CASE i = 1 BY <1>3, <4>1
      <4>2. CASE i # 1
        <5>1. i - 1 \in DOMAIN stack /\ stack'[i] = stack[i - 1] BY <1>3, <4>2
        <5> QED BY <5>1 DEF OnStack
      <4> QED BY <4>1, <4>2
    <3>5. node[t] \notin OnStack
      BY <1>1 DEF LifoInv, EachNodeOnce
    <3> QED BY <3>2, <3>3, <3>4, <3>5
  <2>3. \A i, j \in DOMAIN stack' : stack'[i] = stack'[j] => i = j
    <3>1. \A i \in 1 .. Len(stack) : stack[i] # node[t]
      BY <1>3, <2>2 DEF OnStack
    <3>2. \A i \in 2 .. Len(stack) + 1 :
            i - 1 \in 1 .. Len(stack) /\ stack'[i] = stack[i - 1]
      BY <1>3
    <3>3. \A i \in 2 .. Len(stack) + 1 : stack'[i] # stack'[1]
      BY <1>3, <3>1, <3>2
    <3>4. \A i, j \in 2 .. Len(stack) + 1 : stack'[i] = stack'[j] => i = j
      <4> SUFFICES ASSUME NEW i \in 2 .. Len(stack) + 1, NEW j \in 2 .. Len(stack) + 1,
                          stack'[i] = stack'[j]
                   PROVE  i = j
        OBVIOUS
      <4>1. stack[i - 1] = stack[j - 1] BY <3>2
      <4>2. i - 1 = j - 1 BY <1>3, <3>2, <4>1 DEF LifoInv, EachNodeOnce
      <4> QED BY <1>3, <4>2
    <3>5. \A i \in DOMAIN stack' : i = 1 \/ i \in 2 .. Len(stack) + 1
      BY <1>3
    <3> QED BY <3>3, <3>4, <3>5
  <2>4. \A u, w \in Threads :
          u # w /\ Releasing(u)' /\ Releasing(w)' => node'[u] # node'[w]
    BY <1>0, <1>2 DEF LifoInv, EachNodeOnce, Releasing, LifoTypeOK
  <2> QED BY <1>1, <1>2, <2>1, <2>2, <2>3, <2>4 DEF LifoInv, EachNodeOnce
<1>7. ChainIsStack'
  <2> SUFFICES ASSUME NEW i \in 1 .. Len(stack) + 1
               PROVE  next[stack'[i]] = (IF i = Len(stack) + 1 THEN Null ELSE stack'[i + 1])
    BY <1>2, <1>3 DEF ChainIsStack
  <2>1. CASE i = 1
    <3>1. CASE stack = <<>>
      BY <1>0, <1>3, <2>1, <3>1, EmptySeq DEF LifoInv, ChainIsStack
    <3>2. CASE stack # <<>>
      <4>1. Len(stack) # 0 BY <1>0, <3>2, EmptySeq
      <4>2. stack'[i + 1] = stack[1] BY <1>3, <2>1, <4>1
      <4>3. next[stack'[i]] = stack[1] BY <1>0, <1>3, <2>1, <3>2 DEF LifoInv, ChainIsStack
      <4> QED BY <1>3, <2>1, <4>1, <4>2, <4>3
    <3> QED BY <3>1, <3>2
  <2>2. CASE i # 1
    <3>1. i - 1 \in DOMAIN stack /\ stack'[i] = stack[i - 1] BY <1>3, <2>2
    <3>2. next[stack[i - 1]] = (IF i - 1 = Len(stack) THEN Null ELSE stack[(i - 1) + 1])
      BY <3>1 DEF LifoInv, ChainIsStack
    <3>3. CASE i - 1 = Len(stack) BY <1>3, <3>1, <3>2, <3>3
    <3>4. CASE i - 1 # Len(stack)
      <4>1. i + 1 \in 2 .. Len(stack) + 1 BY <1>3, <2>2, <3>4
      <4>2. stack'[i + 1] = stack[i] /\ (i - 1) + 1 = i /\ (i + 1) - 1 = i
        BY <1>3, <4>1
      <4> QED BY <1>3, <3>1, <3>2, <3>4, <4>2
    <3> QED BY <3>3, <3>4
  <2> QED BY <2>1, <2>2
<1>8. LinkReadFresh'
  <2> SUFFICES ASSUME NEW u \in Threads
               PROVE  /\ at'[u] \in {"read", "pop"} => snap'[u].ptr # Null
                      /\ at'[u] = "pop" /\ lag'[u] = 0 => nxt'[u] = next'[snap'[u].ptr]
    BY DEF LinkReadFresh
  <2>1. CASE u = t BY <1>2, <2>1 DEF LifoInv, LifoTypeOK
  <2>2. CASE u # t
    <3>1. at'[u] = at[u] /\ snap'[u] = snap[u] BY <1>2, <2>2 DEF LifoInv, LifoTypeOK
    <3>2. at[u] = "pop" => lag'[u] # 0
      BY <1>4, <2>2 DEF InWindow, Window, LifoInv, LifoTypeOK, Tags
    <3> QED BY <3>1, <3>2 DEF LifoInv, LinkReadFresh
  <2> QED BY <2>1, <2>2
<1>9. LinkWritten'
  BY <1>0, <1>2 DEF LifoInv, LinkWritten, Releasing, LifoTypeOK
<1> QED BY <1>4, <1>5, <1>6, <1>7, <1>8, <1>9 DEF LifoInv

LEMMA LifoInvInductive == LifoInv /\ ~Lapping /\ [LifoNext]_lifoVars => LifoInv'
<1> SUFFICES ASSUME LifoInv, ~Lapping, [LifoNext]_lifoVars PROVE LifoInv'
  OBVIOUS
<1>1. CASE LifoNext
  <2> SUFFICES ASSUME NEW t \in Threads, LifoStep(t) PROVE LifoInv'
    BY <1>1 DEF LifoNext
  <2> QED BY LoadTopKeeps, ReadNextKeeps, PopKeeps, PopAgainKeeps, StartReleaseKeeps,
             LinkNodeKeeps, PushKeeps, PushAgainKeeps DEF LifoStep
<1>2. CASE UNCHANGED lifoVars
  <2>1. InRelease' = InRelease /\ OnStack' = OnStack
    BY <1>2 DEF lifoVars, InRelease, OnStack, Releasing
  <2>2. EachNodeOnce'
    BY <1>2, <2>1 DEF lifoVars, LifoInv, EachNodeOnce, Releasing
  <2>3. LifoTypeOK' /\ ChainIsStack'
    BY <1>2 DEF lifoVars, LifoInv, LifoTypeOK, ChainIsStack
  <2>4. TagTellsLag' /\ LinkReadFresh' /\ LinkWritten'
    BY <1>2 DEF lifoVars, LifoInv, TagTellsLag, LinkReadFresh, LinkWritten, InWindow, Releasing
  <2> QED BY <2>2, <2>3, <2>4 DEF LifoInv
<1> QED BY <1>1, <1>2

LEMMA LifoInvariant == ASSUME ~Lapping PROVE LifoSpec => []LifoInv
<1>1. LifoInv /\ [LifoNext]_lifoVars => LifoInv'
  BY LifoInvInductive
<1> QED BY <1>1, LifoInitially, PTL DEF LifoSpec

\* Every variable of the pool keeps its type; in particular a thread never follows a
\* null pointer, and no tag leaves its bits.
THEOREM LifoTypeCorrect == ASSUME ~Lapping PROVE LifoSpec => []LifoTypeOK
<1>1. LifoInv => LifoTypeOK BY DEF LifoInv
<1> QED BY <1>1, LifoInvariant, PTL

\* No node of a LIFO pool is ever handed out twice, and none is lost.
THEOREM NodesInOnePlace == ASSUME ~Lapping PROVE LifoSpec => []EachNodeOnce
<1>1. LifoInv => EachNodeOnce BY DEF LifoInv
<1> QED BY <1>1, LifoInvariant, PTL

\* The links from free_top_ are the stack of the nodes released and not acquired.
THEOREM LinksFormStack == ASSUME ~Lapping PROVE LifoSpec => []ChainIsStack
<1>1. LifoInv => ChainIsStack BY DEF LifoInv
<1> QED BY <1>1, LifoInvariant, PTL

\* The pool implements a stack with atomic operations: each operation takes effect
\* at its successful CAS, and everything before it changes nothing for the clients.
THEOREM PoolImplementsStack == ASSUME ~Lapping PROVE LifoSpec => ImplementsStack
<1>1. LifoInit => Abstract!StackInit
  <2> SUFFICES ASSUME LifoInit PROVE Abstract!StackInit
    OBVIOUS
  <2>1. stack \in [1 .. N -> Nodes] /\ \A n \in Nodes : n \in DOMAIN stack /\ stack[n] = n
    BY DEF LifoInit, Nodes
  <2>2. stack \in Seq(Nodes)
    BY LifoInitially DEF LifoInv, LifoTypeOK
  <2>3. \A i, j \in DOMAIN stack : stack[i] = stack[j] => i = j
    BY <2>1, LifoInitially DEF LifoInv, EachNodeOnce
  <2>4. held \union InRelease = {}
    BY DEF LifoInit, InRelease, Releasing
  <2> QED BY <2>1, <2>2, <2>3, <2>4 DEF Abstract!StackInit
<1>2. LifoInv /\ [LifoNext]_lifoVars => [Abstract!StackNext]_(Abstract!stackVars)
  <2> SUFFICES ASSUME LifoInv, [LifoNext]_lifoVars
               PROVE  [Abstract!StackNext]_(Abstract!stackVars)
    OBVIOUS
  <2> USE DEF Abstract!stackVars
  <2>1. ASSUME NEW t \in Threads,
               LoadTop(t) \/ ReadNext(t) \/ PopAgain(t) \/ LinkNode(t) \/ PushAgain(t)
        PROVE  UNCHANGED Abstract!stackVars
    <3>1. stack' = stack /\ held' = held /\ node' = node
      BY <2>1 DEF LoadTop, ReadNext, PopAgain, LinkNode, PushAgain
    <3>2. \A u \in Threads : Releasing(u)' <=> Releasing(u)
      BY <2>1 DEF LoadTop, ReadNext, PopAgain, LinkNode, PushAgain, Load, Leave, Releasing,
                  LifoInv, LifoTypeOK
    <3> QED BY <3>1, <3>2 DEF InRelease
  <2>2. ASSUME NEW t \in Threads, NEW n \in Nodes, StartRelease(t, n)
        PROVE  UNCHANGED Abstract!stackVars
    <3>1. InRelease' = InRelease \union {n}
      BY <2>2 DEF StartRelease, Load, InRelease, Releasing, LifoInv, LifoTypeOK
    <3> QED BY <2>2, <3>1 DEF StartRelease
  <2>3. ASSUME NEW t \in Threads, Pop(t) PROVE Abstract!Take
    <3>1. stack # <<>> /\ snap[t].ptr = stack[1]
      BY <2>3, PopTakesTop DEF Pop
    <3>2. Head(stack) = stack[1]
      BY <3>1, Popped DEF LifoInv, LifoTypeOK
    <3>3. InRelease' = InRelease
      BY <2>3 DEF Pop, SwingTop, Leave, InRelease, Releasing, LifoInv, LifoTypeOK
    <3> QED BY <2>3, <3>1, <3>2, <3>3 DEF Pop, Abstract!Take
  <2>4. ASSUME NEW t \in Threads, Push(t) PROVE \E n \in Nodes : Abstract!Put(n)
    <3>1. /\ Releasing(t) /\ node[t] \in InRelease /\ node[t] \in Nodes
          /\ node[t] \notin held /\ held' = held
      BY <2>4 DEF Push, Releasing, InRelease, LifoInv, LinkWritten, EachNodeOnce
    <3>2. InRelease' = InRelease \ {node[t]}
      <4>1. \A u \in Threads : u # t /\ Releasing(u) => node[u] # node[t]
        BY <3>1 DEF LifoInv, EachNodeOnce
      <4>2. \A u \in Threads : Releasing(u)' <=> u # t /\ Releasing(u)
        BY <2>4 DEF Push, SwingTop, Leave, Releasing, LifoInv, LifoTypeOK
      <4>3. \A u \in Threads : u # t => node'[u] = node[u]
        BY <2>4 DEF Push, LifoInv, LifoTypeOK
      <4> QED BY <4>1, <4>2, <4>3 DEF InRelease
    <3>3. Abstract!Put(node[t])
      BY <2>4, <3>1, <3>2 DEF Push, Abstract!Put
    <3> QED BY <3>1, <3>3
  <2>5. CASE UNCHANGED lifoVars
    BY <2>5 DEF lifoVars, InRelease, Releasing
  <2>6. CASE LifoNext
    BY <2>1, <2>2, <2>3, <2>4, <2>6 DEF LifoNext, LifoStep, Abstract!StackNext
  <2> QED BY <2>5, <2>6
<1> QED BY <1>1, <1>2, LifoInvariant, PTL DEF LifoSpec, ImplementsStack, Abstract!StackSpec
=============================================================================
