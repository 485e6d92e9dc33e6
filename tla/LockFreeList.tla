---------------------------- MODULE LockFreeList ----------------------------
(***************************************************************************)
(* lock_free_list<T, N>: a singly linked list with a head and a tail, all   *)
(* links pointers with a tag, changed by compare-and-swap.  Its nodes come  *)
(* from a LIFO pool, whose acquire() and release() are atomic here because  *)
(* LifoPool shows that they implement a stack; which free node acquire()    *)
(* takes makes no difference to the list, so the pool is a set.             *)
(*                                                                          *)
(* Each step is one access to shared memory.  What a thread does to a node  *)
(* that only it can reach belongs to the step before.                       *)
(*                                                                          *)
(* The list holds together only while certain operations overlap: those of  *)
(* one group of Together.  An operation starts when every call under way is *)
(* in a group with it, or when there is none.  The product lets             *)
(* emplace_back() and find_if() overlap and calls nothing else.             *)
(***************************************************************************)
EXTENDS Integers, FiniteSets, SequencesExt

CONSTANTS Threads,
          Nodes,       \* the nodes of the pool
          Values,      \* what the nodes hold
          Default,     \* what a default-constructed node holds
          Null,        \* the null pointer
          TagMod,      \* the number of different tags
          MaxRetries,  \* the largest max_retries_
          Together,    \* the groups of operations that may overlap
          WeakFailure  \* may compare_exchange_weak fail although the values match?

ASSUME ListAssumption ==
  /\ IsFiniteSet(Nodes)
  /\ Default \in Values
  /\ Null \notin Nodes
  /\ TagMod \in Nat \ {0}
  /\ MaxRetries \in Nat \ {0}
  /\ WeakFailure \in BOOLEAN

VARIABLES pool,   \* the free nodes of pool_
          head,   \* head_
          tail,   \* tail_
          next,   \* the link of each node
          value,  \* the value of each node
          size,   \* size_
          limit,  \* max_retries_
          at,     \* where each thread is
          loc,    \* the locals of each thread
          due     \* history: the nodes that were in the list when a find began, and match

listVars == <<pool, head, tail, next, value, size, limit, at, loc, due>>
shared == <<pool, head, tail, next, value, size, limit>>

Pointers == Nodes \union {Null}
Ref(p, tag) == [ptr |-> p, tag |-> tag % TagMod]
NullRef == Ref(Null, 0)
Refs == [ptr : Pointers, tag : 0 .. TagMod - 1]

Places == {"idle",
           "loadTail", "claim", "loadHead", "setHead", "loadNext", "help", "link", "swing",
           "pushHead", "checkTail", "setTail",
           "top", "match", "unlinkHead", "walk", "look", "unlink", "loadEnd", "setEnd", "free",
           "begin", "visit",
           "count", "uncount"}

\* op: the call; node: new_node; cur, nxt, prev: the links it has read; left: the
\* retries it has left; want: the values that the predicate or the argument accepts.
Blank == [op |-> "none", node |-> Null, cur |-> NullRef, nxt |-> NullRef, prev |-> Null,
          left |-> 0, want |-> {}]

Ops == {"push_back", "emplace_back", "push_front", "emplace_front", "erase", "clear",
        "find", "find_if", "none"}

ListTypeOK ==
  /\ pool \in SUBSET Nodes
  /\ {head, tail} \subseteq Refs
  /\ next \in [Nodes -> Refs]
  /\ value \in [Nodes -> Values]
  /\ size \in 0 .. Cardinality(Nodes)
  /\ limit \in 1 .. MaxRetries
  /\ at \in [Threads -> Places]
  /\ loc \in [Threads -> [op : Ops, node : Pointers, cur : Refs, nxt : Refs,
                          prev : Pointers, left : 0 .. MaxRetries, want : SUBSET Values]]
  /\ due \in [Threads -> SUBSET Nodes]

ListInit ==
  /\ pool = Nodes
  /\ head = NullRef
  /\ tail = NullRef
  /\ next = [n \in Nodes |-> NullRef]
  /\ value = [n \in Nodes |-> Default]
  /\ size = 0
  /\ limit = MaxRetries
  /\ at = [t \in Threads |-> "idle"]
  /\ loc = [t \in Threads |-> Blank]
  /\ due = [t \in Threads |-> {}]

-----------------------------------------------------------------------------
Running == {loc[u].op : u \in {v \in Threads : at[v] # "idle"}}

MayStart(op) == Running = {} \/ \E group \in Together : Running \union {op} \subseteq group

Go(t, place) == at' = [at EXCEPT ![t] = place]
Set(t, l) == loc' = [loc EXCEPT ![t] = l]

\* The call of t returns.
Return(t) ==
  /\ Go(t, "idle")
  /\ Set(t, Blank)
  /\ due' = [due EXCEPT ![t] = {}]

\* The outcomes of a compare_exchange_weak.
Succeeds(word, expected) == word = expected
Fails(word, expected) == word # expected \/ WeakFailure

\* The nodes linked from p, as the links say.  A cycle would give more than there are.
ChainIn(links, p) ==
  LET nth[i \in 1 .. Cardinality(Nodes) + 1] ==
        IF i = 1 THEN p
        ELSE IF nth[i - 1] = Null THEN Null ELSE links[nth[i - 1]].ptr
  IN  [i \in {j \in 1 .. Cardinality(Nodes) + 1 : nth[j] # Null} |-> nth[i]]

Chain(p) == ChainIn(next, p)

Reach(p) == Range(Chain(p))

-----------------------------------------------------------------------------
\* push_back() and emplace_back().  A node is acquired and filled, its link reset;
\* on an empty pool the call returns at once and nothing changes.
StartBack(t, op, v) ==
  /\ at[t] = "idle"
  /\ MayStart(op)
  /\ \E n \in pool :
       /\ pool' = pool \ {n}
       /\ next' = [next EXCEPT ![n] = NullRef]
       /\ value' = [value EXCEPT ![n] = v]
       /\ Set(t, [Blank EXCEPT !.op = op, !.node = n, !.left = limit])
  /\ Go(t, "loadTail")
  /\ UNCHANGED <<head, tail, size, limit, due>>

\* The retry loop reads the tail, or gives the node back when the retries are used up.
LoadTail(t) ==
  /\ at[t] = "loadTail"
  /\ IF loc[t].left > 0
     THEN /\ Set(t, [loc[t] EXCEPT !.left = @ - 1, !.cur = tail])
          /\ Go(t, IF tail.ptr = Null THEN "claim" ELSE "loadNext")
          /\ UNCHANGED <<shared, due>>
     ELSE /\ pool' = pool \union {loc[t].node}
          /\ Return(t)
          /\ UNCHANGED <<head, tail, next, value, size, limit>>

\* On an empty list the node becomes the tail first ...
Claim(t) ==
  /\ at[t] = "claim"
  /\ \/ /\ Succeeds(tail, loc[t].cur)
        /\ tail' = Ref(loc[t].node, 0)
        /\ Go(t, "loadHead")
     \/ /\ Fails(tail, loc[t].cur)
        /\ Go(t, "loadTail")
        /\ UNCHANGED tail
  /\ UNCHANGED <<pool, head, next, value, size, limit, loc, due>>

LoadHead(t) ==
  /\ at[t] = "loadHead"
  /\ Set(t, [loc[t] EXCEPT !.cur = head])
  /\ Go(t, "setHead")
  /\ UNCHANGED <<shared, due>>

\* ... and then the head, unless the CAS fails: its result is not looked at.
SetHead(t) ==
  /\ at[t] = "setHead"
  /\ \/ Succeeds(head, loc[t].cur) /\ head' = Ref(loc[t].node, loc[t].cur.tag + 1)
     \/ Fails(head, loc[t].cur) /\ UNCHANGED head
  /\ Go(t, "count")
  /\ UNCHANGED <<pool, tail, next, value, size, limit, loc, due>>

\* Mutant: the append walks on to the last node and leaves the tail where it is.
LoadNextWalking(t) ==
  /\ at[t] = "loadNext"
  /\ LET link == next[loc[t].cur.ptr] IN
       IF link.ptr = Null THEN Set(t, [loc[t] EXCEPT !.nxt = link]) /\ Go(t, "link")
                          ELSE Set(t, [loc[t] EXCEPT !.cur = link]) /\ UNCHANGED at
  /\ UNCHANGED <<shared, due>>

\* Mutant: a node that is linked already is not noticed.
LoadNextUnaware(t) ==
  /\ at[t] = "loadNext"
  /\ Set(t, [loc[t] EXCEPT !.nxt = next[loc[t].cur.ptr]])
  /\ Go(t, "link")
  /\ UNCHANGED <<shared, due>>

\* Otherwise the last node is looked for: the tail, if nothing is linked behind it.
LoadNext(t) ==
  /\ at[t] = "loadNext"
  /\ LET link == next[loc[t].cur.ptr] IN
       /\ Set(t, [loc[t] EXCEPT !.nxt = link])
       /\ Go(t, IF link.ptr = Null THEN "link" ELSE "help")
  /\ UNCHANGED <<shared, due>>

\* A tail left behind is moved on for the thread that linked the next node.
Help(t) ==
  /\ at[t] = "help"
  /\ \/ Succeeds(tail, loc[t].cur) /\ tail' = Ref(loc[t].nxt.ptr, loc[t].cur.tag + 1)
     \/ Fails(tail, loc[t].cur) /\ UNCHANGED tail
  /\ Go(t, "loadTail")
  /\ UNCHANGED <<pool, head, next, value, size, limit, loc, due>>

\* Mutant: the link is stored, not compared.
LinkBlindly(t) ==
  /\ at[t] = "link"
  /\ next' = [next EXCEPT ![loc[t].cur.ptr] = Ref(loc[t].node, loc[t].nxt.tag + 1)]
  /\ Go(t, "swing")
  /\ UNCHANGED <<pool, head, tail, value, size, limit, loc, due>>

\* The node is linked behind the last one.
Link(t) ==
  /\ at[t] = "link"
  /\ LET p == loc[t].cur.ptr IN
       \/ /\ Succeeds(next[p], loc[t].nxt)
          /\ next' = [next EXCEPT ![p] = Ref(loc[t].node, loc[t].nxt.tag + 1)]
          /\ Go(t, "swing")
       \/ /\ Fails(next[p], loc[t].nxt)
          /\ Go(t, "loadTail")
          /\ UNCHANGED next
  /\ UNCHANGED <<pool, head, tail, value, size, limit, loc, due>>

\* Mutant: the tail is left to the next append.
SwingLeft(t) ==
  /\ at[t] = "swing"
  /\ Go(t, "count")
  /\ UNCHANGED <<shared, loc, due>>

\* The tail follows, unless another thread has moved it on already.
Swing(t) ==
  /\ at[t] = "swing"
  /\ \/ Succeeds(tail, loc[t].cur) /\ tail' = Ref(loc[t].node, loc[t].cur.tag + 1)
     \/ Fails(tail, loc[t].cur) /\ UNCHANGED tail
  /\ Go(t, "count")
  /\ UNCHANGED <<pool, head, next, value, size, limit, loc, due>>

Count(t) ==
  /\ at[t] = "count"
  /\ size' = size + 1
  /\ Return(t)
  /\ UNCHANGED <<pool, head, tail, next, value, limit>>

BackStep(t) ==
  \/ LoadTail(t) \/ Claim(t) \/ LoadHead(t) \/ SetHead(t)
  \/ LoadNext(t) \/ Help(t) \/ Link(t) \/ Swing(t)

PushBack(t) ==
  \/ \E v \in Values : StartBack(t, "push_back", v)
  \/ loc[t].op = "push_back" /\ (BackStep(t) \/ Count(t))

EmplaceBack(t) ==
  \/ StartBack(t, "emplace_back", Default)
  \/ loc[t].op = "emplace_back" /\ (BackStep(t) \/ Count(t))

-----------------------------------------------------------------------------
\* push_front() and emplace_front(): the node is linked to the head as it was read.
StartFront(t, op, v) ==
  /\ at[t] = "idle"
  /\ MayStart(op)
  /\ \E n \in pool :
       /\ pool' = pool \ {n}
       /\ next' = [next EXCEPT ![n] = head]
       /\ value' = [value EXCEPT ![n] = v]
       /\ Set(t, [Blank EXCEPT !.op = op, !.node = n, !.cur = head, !.left = limit])
  /\ Go(t, "pushHead")
  /\ UNCHANGED <<head, tail, size, limit, due>>

\* The CAS on the head; a failure leaves the new head in cur, and the node is linked anew.
PushHead(t) ==
  /\ at[t] = "pushHead"
  /\ \/ /\ loc[t].left > 0
        /\ Succeeds(head, loc[t].cur)
        /\ head' = Ref(loc[t].node, loc[t].cur.tag + 1)
        /\ Go(t, IF loc[t].cur.ptr = Null THEN "checkTail" ELSE "count")
        /\ UNCHANGED <<pool, next, loc, due>>
     \/ /\ loc[t].left > 0
        /\ Fails(head, loc[t].cur)
        /\ next' = [next EXCEPT ![loc[t].node] = head]
        /\ Set(t, [loc[t] EXCEPT !.cur = head, !.left = @ - 1])
        /\ UNCHANGED <<pool, head, at, due>>
     \/ /\ loc[t].left = 0
        /\ pool' = pool \union {loc[t].node}
        /\ Return(t)
        /\ UNCHANGED <<head, next>>
  /\ UNCHANGED <<tail, value, size, limit>>

\* The first node is the tail too, unless the CAS fails: its result is not looked at.
CheckTail(t) ==
  /\ at[t] = "checkTail"
  /\ Set(t, [loc[t] EXCEPT !.cur = tail])
  /\ Go(t, "setTail")
  /\ UNCHANGED <<shared, due>>

SetTail(t) ==
  /\ at[t] = "setTail"
  /\ \/ Succeeds(tail, loc[t].cur) /\ tail' = Ref(loc[t].node, 0)
     \/ Fails(tail, loc[t].cur) /\ UNCHANGED tail
  /\ Go(t, "count")
  /\ UNCHANGED <<pool, head, next, value, size, limit, loc, due>>

FrontStep(t) == PushHead(t) \/ CheckTail(t) \/ SetTail(t)

PushFront(t) ==
  \/ \E v \in Values : StartFront(t, "push_front", v)
  \/ loc[t].op = "push_front" /\ (FrontStep(t) \/ Count(t))

EmplaceFront(t) ==
  \/ StartFront(t, "emplace_front", Default)
  \/ loc[t].op = "emplace_front" /\ (FrontStep(t) \/ Count(t))

-----------------------------------------------------------------------------
\* erase(v) removes the first node with the value, clear() the head until there is none.
StartRemoval(t, op, vs) ==
  /\ at[t] = "idle"
  /\ MayStart(op)
  /\ Set(t, [Blank EXCEPT !.op = op, !.want = vs, !.left = limit])
  /\ Go(t, "top")
  /\ UNCHANGED <<shared, due>>

\* The retry loop reads the head; it ends on an empty list, or without retries left.
Top(t) ==
  /\ at[t] = "top"
  /\ IF loc[t].left > 0 /\ head.ptr # Null
     THEN /\ Set(t, [loc[t] EXCEPT !.left = @ - 1, !.cur = head, !.prev = Null])
          /\ Go(t, "match")
          /\ UNCHANGED due
     ELSE Return(t)
  /\ UNCHANGED shared

\* Does the head have the value?
Match(t) ==
  /\ at[t] = "match"
  /\ IF value[loc[t].cur.ptr] \in loc[t].want
     THEN /\ Set(t, [loc[t] EXCEPT !.nxt = next[loc[t].cur.ptr]])
          /\ Go(t, "unlinkHead")
     ELSE /\ Set(t, [loc[t] EXCEPT !.prev = loc[t].cur.ptr])
          /\ Go(t, "walk")
  /\ UNCHANGED <<shared, due>>

AfterUnlink(t) == IF loc[t].nxt.ptr = Null THEN "loadEnd" ELSE "free"

UnlinkHead(t) ==
  /\ at[t] = "unlinkHead"
  /\ \/ /\ Succeeds(head, loc[t].cur)
        /\ head' = Ref(loc[t].nxt.ptr, loc[t].cur.tag + 1)
        /\ Go(t, AfterUnlink(t))
     \/ /\ Fails(head, loc[t].cur)
        /\ Go(t, "top")
        /\ UNCHANGED head
  /\ UNCHANGED <<pool, tail, next, value, size, limit, loc, due>>

\* erase() reads the next link; at the end of the list it returns false.
Walk(t) ==
  /\ at[t] = "walk"
  /\ LET link == next[loc[t].prev] IN
       IF link.ptr = Null
       THEN Return(t)
       ELSE Set(t, [loc[t] EXCEPT !.cur = link]) /\ Go(t, "look") /\ UNCHANGED due
  /\ UNCHANGED shared

\* Does the node behind prev have the value?
Look(t) ==
  /\ at[t] = "look"
  /\ LET n == loc[t].cur.ptr IN
       IF value[n] \in loc[t].want
       THEN Set(t, [loc[t] EXCEPT !.nxt = next[n]]) /\ Go(t, "unlink")
       ELSE Set(t, [loc[t] EXCEPT !.prev = n]) /\ Go(t, "walk")
  /\ UNCHANGED <<shared, due>>

Unlink(t) ==
  /\ at[t] = "unlink"
  /\ LET p == loc[t].prev IN
       \/ /\ Succeeds(next[p], loc[t].cur)
          /\ next' = [next EXCEPT ![p] = Ref(loc[t].nxt.ptr, loc[t].cur.tag + 1)]
          /\ Go(t, AfterUnlink(t))
       \/ /\ Fails(next[p], loc[t].cur)
          /\ Go(t, "top")
          /\ UNCHANGED next
  /\ UNCHANGED <<pool, head, tail, value, size, limit, loc, due>>

\* The last node is gone: the tail goes back to the one before it, or to null.
LoadEnd(t) ==
  /\ at[t] = "loadEnd"
  /\ Set(t, [loc[t] EXCEPT !.nxt = tail])
  /\ Go(t, "setEnd")
  /\ UNCHANGED <<shared, due>>

SetEnd(t) ==
  /\ at[t] = "setEnd"
  /\ \/ Succeeds(tail, loc[t].nxt) /\ tail' = Ref(loc[t].prev, loc[t].nxt.tag + 1)
     \/ Fails(tail, loc[t].nxt) /\ UNCHANGED tail
  /\ Go(t, "free")
  /\ UNCHANGED <<pool, head, next, value, size, limit, loc, due>>

FreeNode(t) ==
  /\ at[t] = "free"
  /\ pool' = pool \union {loc[t].cur.ptr}
  /\ Go(t, "uncount")
  /\ UNCHANGED <<head, tail, next, value, size, limit, loc, due>>

\* erase() returns true; clear() goes on with all its retries.
Uncount(t) ==
  /\ at[t] = "uncount"
  /\ size' = size - 1
  /\ IF loc[t].op = "clear"
     THEN /\ Set(t, [Blank EXCEPT !.op = "clear", !.want = Values, !.left = limit])
          /\ Go(t, "top")
          /\ UNCHANGED due
     ELSE Return(t)
  /\ UNCHANGED <<pool, head, tail, next, value, limit>>

RemovalStep(t) ==
  \/ Top(t) \/ Match(t) \/ UnlinkHead(t) \/ LoadEnd(t) \/ SetEnd(t)
  \/ FreeNode(t) \/ Uncount(t)

Erase(t) ==
  \/ \E v \in Values : StartRemoval(t, "erase", {v})
  \/ loc[t].op = "erase" /\ (RemovalStep(t) \/ Walk(t) \/ Look(t) \/ Unlink(t))

Clear(t) ==
  \/ StartRemoval(t, "clear", Values)
  \/ loc[t].op = "clear" /\ RemovalStep(t)

-----------------------------------------------------------------------------
\* The node that was made the tail of an empty list and is about to become its head.
Claiming == {loc[t].node : t \in {u \in Threads : at[u] \in {"loadHead", "setHead"}}}

First == IF head.ptr = Null /\ Claiming # {} THEN CHOOSE n \in Claiming : TRUE
                                              ELSE head.ptr

\* The nodes of the list, from the first append on.
Listed == Chain(First)

StartFind(t, op, vs) ==
  /\ at[t] = "idle"
  /\ MayStart(op)
  /\ Set(t, [Blank EXCEPT !.op = op, !.want = vs])
  /\ due' = [due EXCEPT ![t] = {n \in Range(Listed) : value[n] \in vs}]
  /\ Go(t, "begin")
  /\ UNCHANGED shared

BeginFind(t) ==
  /\ at[t] = "begin"
  /\ Set(t, [loc[t] EXCEPT !.cur = head])
  /\ Go(t, "visit")
  /\ UNCHANGED <<shared, due>>

\* The node under the cursor is returned, or the cursor moves to the next.
Visit(t) ==
  /\ at[t] = "visit"
  /\ LET p == loc[t].cur.ptr IN
       IF p = Null \/ value[p] \in loc[t].want
       THEN Return(t)
       ELSE Set(t, [loc[t] EXCEPT !.cur = next[p]]) /\ UNCHANGED <<at, due>>
  /\ UNCHANGED shared

Find(t) ==
  \/ \E v \in Values : StartFind(t, "find", {v})
  \/ loc[t].op = "find" /\ (BeginFind(t) \/ Visit(t))

FindIf(t) ==
  \/ \E vs \in SUBSET Values : StartFind(t, "find_if", vs)
  \/ loc[t].op = "find_if" /\ (BeginFind(t) \/ Visit(t))

SetMaxRetries(m) ==
  /\ MayStart("set_max_retries")
  /\ limit' = m
  /\ UNCHANGED <<pool, head, tail, next, value, size, at, loc, due>>

ListNext ==
  \/ \E t \in Threads : \/ PushBack(t) \/ EmplaceBack(t) \/ PushFront(t) \/ EmplaceFront(t)
                        \/ Erase(t) \/ Clear(t) \/ Find(t) \/ FindIf(t)
  \/ \E m \in 1 .. MaxRetries : SetMaxRetries(m)

ListSpec == ListInit /\ [][ListNext]_listVars

-----------------------------------------------------------------------------
\* The nodes that a thread has acquired and not linked, or unlinked and not released.
Private ==
  {loc[t].node : t \in {u \in Threads : at[u] \in {"loadTail", "claim", "loadNext", "help",
                                                   "link", "pushHead"}}}
  \union
  {loc[t].cur.ptr : t \in {u \in Threads : at[u] \in {"loadEnd", "setEnd", "free"}}}

\* Every node is free, in the list or with one thread, and at one of these places
\* only: appends that race each other lose no node, and link none twice.
NoNodeLost ==
  /\ Cardinality(Claiming) <= 1
  /\ IsInjective(Listed)
  /\ Nodes = pool \union Range(Listed) \union Private
  /\ Cardinality(Nodes) = Cardinality(pool) + Len(Listed) + Cardinality(Private)

\* At rest the tail is the last node, and size() counts the nodes.
QuiescentExact ==
  Running = {} =>
    /\ tail.ptr = (IF Listed = <<>> THEN Null ELSE Last(Listed))
    /\ size = Len(Listed)

\* While appends overlap the tail is at most one node behind, so that an append gets
\* to the end of the list with one round of help.
TailOneBehind ==
  Running \subseteq {"push_back", "emplace_back", "find", "find_if"} =>
    /\ Listed # <<>> => tail.ptr \in Range(Listed)
    /\ tail.ptr # Null => Len(Chain(tail.ptr)) <= 2

\* Wherever a find() or find_if() gets to, it is at or before every node that it has to
\* find: those that match and were in the list when it began, linked from the head or not
\* yet.  So the first match it reports is no later one, and null means that there was none.
\* There is one exception: while the first append has made its node the tail and not yet
\* the head, a search finds nothing, though appends behind that tail have returned.
FindSeesAll ==
  [][\A t \in Threads :
       at'[t] = "visit" /\ (at[t] = "begin" \/ loc'[t].cur # loc[t].cur) =>
         \/ due[t] \subseteq Reach(loc'[t].cur.ptr)
         \/ at[t] = "begin" /\ head.ptr = Null /\ tail.ptr # Null]_listVars

\* Each operation changes the list in one step: an append when the link or the first
\* tail is set, a removal when the node is unlinked.
Sequence == INSTANCE NodeSequence WITH seq <- Listed

ImplementsSequence == Sequence!SequenceSpec
=============================================================================
