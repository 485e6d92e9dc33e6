------------------------------ MODULE LifoPool ------------------------------
(***************************************************************************)
(* lock_free_pool<T, N, pool_strategy::LIFO>: the free nodes are linked     *)
(* from free_top_, a pointer with a tag in its upper 16 bits, changed only  *)
(* by compare-and-swap.  Every successful CAS advances the tag, so that a   *)
(* CAS fails although the same node has come back on top in the meantime.   *)
(*                                                                          *)
(* The tag wraps.  A thread that sleeps between its load of free_top_ and   *)
(* its CAS while exactly TagMod others succeed would be deceived; NoneLapped *)
(* is the assumption that this does not happen (TagMod is 65536 in the      *)
(* code), and Lapping = TRUE drops it.                                      *)
(*                                                                          *)
(* Abstracted: size_, a statistic that no part of the product reads, and    *)
(* release() of a foreign pointer, which returns false and does nothing.    *)
(***************************************************************************)
EXTENDS Naturals, Sequences

CONSTANTS Threads,     \* the threads that use the pool
          N,           \* the number of nodes
          Null,        \* the null pointer
          TagMod,      \* the number of different tags
          WeakFailure, \* may compare_exchange_weak fail although the values match?
          Lapping      \* may a thread be overtaken TagMod times between load and CAS?

ASSUME LifoAssumption ==
  /\ N \in Nat \ {0}
  /\ TagMod \in Nat \ {0}
  /\ WeakFailure \in BOOLEAN
  /\ Lapping \in BOOLEAN

Nodes == 1 .. N

ASSUME NullAssumption == Null \notin Nodes

Pointers == Nodes \union {Null}
Tags == 0 .. TagMod - 1
Tagged == [ptr : Pointers, tag : Tags]

VARIABLES top,    \* free_top_
          next,   \* next_: the link of every node
          at,     \* where each thread is in acquire() or release()
          snap,   \* old_top: what the thread expects free_top_ to be
          nxt,    \* next_ptr, as acquire() read it
          node,   \* the node that release() puts back
          held,   \* the nodes the clients have
          stack,  \* history: the free nodes in the order of the successful CASes
          lag     \* history: successful CASes since the thread loaded free_top_

lifoVars == <<top, next, at, snap, nxt, node, held, stack, lag>>

Places == {"out", "read", "pop", "link", "push"}
Window == {"read", "pop", "link", "push"}       \* between load and CAS
Releasing(t) == at[t] \in {"link", "push"}

LifoTypeOK ==
  /\ top \in Tagged
  /\ next \in [Nodes -> Pointers]
  /\ at \in [Threads -> Places]
  /\ snap \in [Threads -> Tagged]
  /\ nxt \in [Threads -> Pointers]
  /\ node \in [Threads -> Pointers]
  /\ held \in SUBSET Nodes
  /\ stack \in Seq(Nodes)
  /\ lag \in [Threads -> Tags]

\* The constructor links all nodes in their order.
LifoInit ==
  /\ top = [ptr |-> 1, tag |-> 0]
  /\ next = [n \in Nodes |-> IF n < N THEN n + 1 ELSE Null]
  /\ at = [t \in Threads |-> "out"]
  /\ snap = [t \in Threads |-> [ptr |-> Null, tag |-> 0]]
  /\ nxt = [t \in Threads |-> Null]
  /\ node = [t \in Threads |-> Null]
  /\ held = {}
  /\ stack = [i \in Nodes |-> i]
  /\ lag = [t \in Threads |-> 0]

-----------------------------------------------------------------------------
\* Mutant: the tag stays as it is.
SameTag(tag) == tag

\* pack() keeps the low bits of the tag.
NextTag(tag) == IF tag + 1 = TagMod THEN 0 ELSE tag + 1

InWindow(t) == at[t] \in Window

NoneLapped == Lapping \/ \A t \in Threads : InWindow(t) => lag[t] + 1 < TagMod

\* get_ptr_tag(), or what a failed CAS leaves in its first argument.  The locals
\* that are dead are reset, to keep the state space small.
Load(t, place) ==
  /\ snap' = [snap EXCEPT ![t] = top]
  /\ lag' = [lag EXCEPT ![t] = 0]
  /\ at' = [at EXCEPT ![t] = place]

Leave(t) ==
  /\ snap' = [snap EXCEPT ![t] = [ptr |-> Null, tag |-> 0]]
  /\ at' = [at EXCEPT ![t] = "out"]

\* Mutant: the CAS compares the pointers only.
MatchesPointer(t) == snap[t].ptr = top.ptr

Matches(t) == snap[t] = top

\* free_top_ changes; the other threads between load and CAS are overtaken.
SwingTop(t, p) ==
  /\ NoneLapped
  /\ top' = [ptr |-> p, tag |-> NextTag(snap[t].tag)]
  /\ lag' = [u \in Threads |-> IF u # t /\ InWindow(u) /\ lag[u] + 1 < TagMod
                               THEN lag[u] + 1 ELSE 0]
  /\ Leave(t)

-----------------------------------------------------------------------------
\* acquire() finds a node on top; on an empty pool it returns nullptr at once.
LoadTop(t) ==
  /\ at[t] = "out"
  /\ top.ptr # Null
  /\ Load(t, "read")
  /\ UNCHANGED <<top, next, nxt, node, held, stack>>

\* acquire() reads the link of the node it found on top.
ReadNext(t) ==
  /\ at[t] = "read"
  /\ nxt' = [nxt EXCEPT ![t] = next[snap[t].ptr]]
  /\ at' = [at EXCEPT ![t] = "pop"]
  /\ UNCHANGED <<top, next, snap, node, held, stack, lag>>

\* The CAS of acquire() succeeds: the node is the caller's.
Pop(t) ==
  /\ at[t] = "pop"
  /\ Matches(t)
  /\ SwingTop(t, nxt[t])
  /\ nxt' = [nxt EXCEPT ![t] = Null]
  /\ held' = held \union {snap[t].ptr}
  /\ stack' = IF stack = <<>> THEN <<>> ELSE Tail(stack)
  /\ UNCHANGED <<next, node>>

\* The CAS of acquire() fails: again with what is on top now, or nullptr.
PopAgain(t) ==
  /\ at[t] = "pop"
  /\ ~Matches(t) \/ WeakFailure
  /\ IF top.ptr # Null THEN Load(t, "read")
                       ELSE Leave(t) /\ lag' = [lag EXCEPT ![t] = 0]
  /\ nxt' = [nxt EXCEPT ![t] = Null]
  /\ UNCHANGED <<top, next, node, held, stack>>

\* release(n) of a node that a client has.
StartRelease(t, n) ==
  /\ at[t] = "out"
  /\ n \in held
  /\ held' = held \ {n}
  /\ node' = [node EXCEPT ![t] = n]
  /\ Load(t, "link")
  /\ UNCHANGED <<top, next, nxt, stack>>

\* release() links its node to the one it found on top.
LinkNode(t) ==
  /\ at[t] = "link"
  /\ next' = [next EXCEPT ![node[t]] = snap[t].ptr]
  /\ at' = [at EXCEPT ![t] = "push"]
  /\ UNCHANGED <<top, snap, nxt, node, held, stack, lag>>

\* The CAS of release() succeeds: the node is on top.
Push(t) ==
  /\ at[t] = "push"
  /\ Matches(t)
  /\ SwingTop(t, node[t])
  /\ stack' = <<node[t]>> \o stack
  /\ node' = [node EXCEPT ![t] = Null]
  /\ UNCHANGED <<next, nxt, held>>

\* Mutant: after a failure the CAS is tried again without linking the node anew.
PushAgainUnlinked(t) ==
  /\ at[t] = "push"
  /\ ~Matches(t) \/ WeakFailure
  /\ Load(t, "push")
  /\ UNCHANGED <<top, next, nxt, node, held, stack>>

\* The CAS of release() fails: link again and retry.
PushAgain(t) ==
  /\ at[t] = "push"
  /\ ~Matches(t) \/ WeakFailure
  /\ Load(t, "link")
  /\ UNCHANGED <<top, next, nxt, node, held, stack>>

LifoStep(t) ==
  \/ LoadTop(t) \/ ReadNext(t) \/ Pop(t) \/ PopAgain(t)
  \/ \E n \in Nodes : StartRelease(t, n)
  \/ LinkNode(t) \/ Push(t) \/ PushAgain(t)

LifoNext == \E t \in Threads : LifoStep(t)

LifoSpec == LifoInit /\ [][LifoNext]_lifoVars

-----------------------------------------------------------------------------
\* The nodes that left the clients' hands and are not linked yet.
InRelease == {node[t] : t \in {u \in Threads : Releasing(u)}}
OnStack == {stack[i] : i \in DOMAIN stack}

\* A node is free, or with a client, or with one thread that releases it: no node
\* is handed out twice, however the loads and the CASes of the threads interleave,
\* and none is lost.
EachNodeOnce ==
  /\ \A i, j \in DOMAIN stack : stack[i] = stack[j] => i = j
  /\ OnStack \intersect held = {}
  /\ InRelease \intersect (held \union OnStack) = {}
  /\ \A t, u \in Threads :
       t # u /\ Releasing(t) /\ Releasing(u) => node[t] # node[u]
  /\ Nodes \subseteq OnStack \union held \union InRelease

\* What free_top_ and the links show is the stack: a thread that was overtaken
\* leaves no stale link in it.
ChainIsStack ==
  /\ top.ptr = (IF stack = <<>> THEN Null ELSE stack[1])
  /\ \A i \in DOMAIN stack :
       next[stack[i]] = (IF i = Len(stack) THEN Null ELSE stack[i + 1])

\* Each acquire() and release() takes effect at its successful CAS.
Abstract == INSTANCE NodeStack WITH out <- held \union InRelease

ImplementsStack == Abstract!StackSpec
=============================================================================
