----------------------------- MODULE ThreadCache -----------------------------
(***************************************************************************)
(* thread_cache and its cache_bins: one bin of at most Size pointers for    *)
(* each size class, filled from the arena when it falls below Flush.  A     *)
(* cache belongs to one thread and every operation runs to its end without  *)
(* locks; what threads share is the arena, and the objects themselves: an   *)
(* object may be freed by another thread than the one that allocated it.    *)
(*                                                                          *)
(* An object is <<c, i>>: number i of class c, so c is the class it really  *)
(* has, whichever bin it lies in.  `held` remembers with every object in    *)
(* the callers' hands the class it was asked for, because a caller passes   *)
(* the same size to the call that frees it.                                 *)
(*                                                                          *)
(* The arena is what the operations need of it: the free objects of every   *)
(* class, of which it hands out the lowest first.  Requests above the       *)
(* largest class go straight to the arena and are left out.  The write past *)
(* the end of the caller's array in cache_bin::deallocate_batch is          *)
(* undefined behaviour whose effect on other memory is not modelled.        *)
(***************************************************************************)
EXTENDS Naturals, FiniteSets

CONSTANTS Threads,
          ClassCount,   \* CLASS_COUNT
          PerClass,     \* objects the arena can supply of every class
          Size,         \* TCACHE_SIZE
          Flush,        \* TCACHE_FLUSH_BATCH
          MaxBatch,     \* largest n of the batch calls (bounds the model)
          MaxHeld,      \* objects in the callers' hands (bounds the model)
          Operations,   \* the operations the callers use
          ArenaShort    \* may the arena hand out fewer objects than asked for?

ASSUME CacheAssumption ==
  /\ ClassCount \in Nat \ {0} /\ PerClass \in Nat /\ MaxBatch \in Nat \ {0} /\ MaxHeld \in Nat
  /\ Size \in Nat /\ Flush \in 1 .. Size - 1
  /\ Operations \subseteq {"allocate", "free", "allocate_batch", "free_batch"}
  /\ ArenaShort \in BOOLEAN

Classes == 0 .. ClassCount - 1
Objects == Classes \X (1 .. PerClass)
Nothing == <<ClassCount, 0>>          \* nullptr
Places == 0 .. Size - 1
Eight == 0                            \* the class of the default size, 8 bytes

VARIABLES
  free,      \* the objects the arena has
  held,      \* <<c, p>>: object p, in a caller's hands, was asked for as class c
  alive,     \* the threads that have a cache
  ptrs,      \* bins_[c].ptrs of every thread's cache
  ncached    \* bins_[c].ncached

cacheVars == <<free, held, alive, ptrs, ncached>>

Min(S) == CHOOSE n \in S : \A m \in S : n <= m

HeldObjects == {h[2] : h \in held}

-----------------------------------------------------------------------------
(* The arena, as the cache uses it *)

Rank(p, S) == Cardinality({q \in S : q[2] <= p[2]})

\* What the arena may hand out of class c, when `pool` is free and it is asked
\* for n objects: the lowest n of them, or fewer if ArenaShort.  If not, a call
\* that the arena could not serve in full is not made (this bounds the model).
Supplies(pool, c, n) ==
  LET F == {p \in pool : p[1] = c}
  IN  {{p \in F : Rank(p, F) <= k} :
         k \in (IF ArenaShort THEN 0 .. n ELSE {n}) \cap 0 .. Cardinality(F)}

\* The array with the objects of S stored from position i on.
Stored(array, i, S) ==
  [j \in Places |-> IF j \in i .. i + Cardinality(S) - 1
                      THEN CHOOSE p \in S : Rank(p, S) = j - i + 1
                      ELSE array[j]]

-----------------------------------------------------------------------------
(* Construction and destruction *)

Empty == [i \in Places |-> Nothing]

\* Every bin starts full, if the arena can do that.
Construct(t) ==
  /\ \E supply \in [Classes -> UNION {Supplies(free, c, Size) : c \in Classes}] :
       /\ \A c \in Classes : supply[c] \in Supplies(free, c, Size)
       /\ ptrs' = [ptrs EXCEPT ![t] = [c \in Classes |-> Stored(Empty, 0, supply[c])]]
       /\ ncached' = [ncached EXCEPT ![t] = [c \in Classes |-> Cardinality(supply[c])]]
       /\ free' = free \ UNION {supply[c] : c \in Classes}
  /\ alive' = alive \cup {t}
  /\ UNCHANGED held

Cached(t, c) == {ptrs[t][c][i] : i \in 0 .. ncached[t][c] - 1}

\* Mutant: the last place of every bin is not flushed.
FlushedShort(t) ==
  {p \in UNION {{ptrs[t][c][i] : i \in 0 .. ncached[t][c] - 2} : c \in Classes} : p[1] = Eight}

\* The destructor gives the bins' objects back with flush_arena, which names no
\* size: the arena looks for every one of them in the class of 8 bytes, and an
\* object that is not found there is not freed.
Flushed(t) == {p \in UNION {Cached(t, c) : c \in Classes} : p[1] = Eight}

Destroy(T) ==
  /\ free' = free \cup UNION {Flushed(t) : t \in T}
  /\ alive' = alive \ T
  /\ ptrs' = [t \in Threads |-> IF t \in T THEN [c \in Classes |-> Empty] ELSE ptrs[t]]
  /\ ncached' = [t \in Threads |-> IF t \in T THEN [c \in Classes |-> 0] ELSE ncached[t]]
  /\ UNCHANGED held

-----------------------------------------------------------------------------
(* allocate and allocate_batch *)

\* The n objects on top of the bin, or those above the first nullptr: how many
\* places are given up, and what is in them.
Popped(t, c, n) ==
  LET top == ncached[t][c]
      nulls == {i \in 1 .. top : i <= n /\ ptrs[t][c][top - i] = Nothing}
  IN  IF nulls # {} THEN Min(nulls) ELSE Min({n, top})

Top(t, c, k) == {ptrs[t][c][ncached[t][c] - i] : i \in 1 .. k} \ {Nothing}

\* Mutant: the bin is filled up to one object less.
RefillShort(t, c, n, pool) ==
  \/ /\ n < Flush
     /\ \E S \in Supplies(pool, Eight, Flush - 1 - n) :
          /\ ptrs' = [ptrs EXCEPT ![t][c] = Stored(@, n, S)]
          /\ free' = pool \ S
     /\ ncached' = [ncached EXCEPT ![t][c] = Flush - 1]
  \/ /\ n >= Flush
     /\ ncached' = [ncached EXCEPT ![t][c] = n]
     /\ free' = pool
     /\ UNCHANGED ptrs

\* The bin has n objects left, the arena has `pool`.  If n is below Flush,
\* fill_cache asks for the difference, again without a size, stores what it got
\* and counts what it asked for.
Refill(t, c, n, pool) ==
  \/ /\ n < Flush
     /\ \E S \in Supplies(pool, Eight, Flush - n) :
          /\ ptrs' = [ptrs EXCEPT ![t][c] = Stored(@, n, S)]
          /\ free' = pool \ S
     /\ ncached' = [ncached EXCEPT ![t][c] = Flush]
  \/ /\ n >= Flush
     /\ ncached' = [ncached EXCEPT ![t][c] = n]
     /\ free' = pool
     /\ UNCHANGED ptrs

HandOver(c, S) == held' = held \cup {<<c, p>> : p \in S}

Allocate(t, c) ==
  /\ HandOver(c, Top(t, c, Popped(t, c, 1)))
  /\ Refill(t, c, ncached[t][c] - Popped(t, c, 1), free)
  /\ UNCHANGED alive

\* What the bin cannot give comes from the arena, in the right class.
AllocateBatch(t, c, n) ==
  LET popped == Popped(t, c, n)
      top    == Top(t, c, popped)
  IN  /\ \E S \in IF Cardinality(top) = n THEN {{}}
                  ELSE Supplies(free, c, n - Cardinality(top)) :
           /\ HandOver(c, top \cup S)
           /\ Refill(t, c, ncached[t][c] - popped, free \ S)
      /\ UNCHANGED alive

-----------------------------------------------------------------------------
(* deallocate and deallocate_batch *)

\* Mutant: a full bin takes the object and the arena gets it as well.
DeallocateTwice(t, c, p) ==
  /\ held' = held \ {<<c, p>>}
  /\ free' = free \cup {p}
  /\ IF ncached[t][c] = Size
       THEN UNCHANGED <<ptrs, ncached>>
       ELSE /\ ptrs' = [ptrs EXCEPT ![t][c][ncached[t][c]] = p]
            /\ ncached' = [ncached EXCEPT ![t][c] = @ + 1]
  /\ UNCHANGED alive

\* Mutant: the object is put on the bin without asking whether it is full.
DeallocateNoCheck(t, c, p) ==
  /\ held' = held \ {<<c, p>>}
  /\ ptrs' = [ptrs EXCEPT ![t][c][ncached[t][c]] = p]
  /\ ncached' = [ncached EXCEPT ![t][c] = @ + 1]
  /\ UNCHANGED <<free, alive>>

\* Mutant: what a full bin refuses is forgotten.
DeallocateDropped(t, c, p) ==
  /\ held' = held \ {<<c, p>>}
  /\ IF ncached[t][c] = Size
       THEN UNCHANGED <<ptrs, ncached>>
       ELSE /\ ptrs' = [ptrs EXCEPT ![t][c][ncached[t][c]] = p]
            /\ ncached' = [ncached EXCEPT ![t][c] = @ + 1]
  /\ UNCHANGED <<free, alive>>

\* Into the bin, or, when it is full, back to the arena, which looks in every
\* class for the object.
Deallocate(t, c, p) ==
  /\ held' = held \ {<<c, p>>}
  /\ IF ncached[t][c] = Size
       THEN free' = free \cup {p} /\ UNCHANGED <<ptrs, ncached>>
       ELSE /\ ptrs' = [ptrs EXCEPT ![t][c][ncached[t][c]] = p]
            /\ ncached' = [ncached EXCEPT ![t][c] = @ + 1]
            /\ UNCHANGED free
  /\ UNCHANGED alive

\* need_fill() >= n, in size_t arithmetic: above Flush the difference wraps
\* around to a huge number.
RoomFor(t, c, n) == ncached[t][c] > Flush \/ Flush - ncached[t][c] >= n

\* Into the bin or back to the arena, which looks in class c only.  In the bin,
\* the parameter hides the member of the same name: the pointers are copied
\* within the caller's array, ncached grows, and the bin's places stay as they are.
DeallocateBatch(t, c, P) ==
  /\ held' = held \ {<<c, p>> : p \in P}
  /\ IF ncached[t][c] < Size /\ RoomFor(t, c, Cardinality(P))
       THEN /\ ncached' = [ncached EXCEPT ![t][c] = Min({Size, @ + Cardinality(P)})]
            /\ UNCHANGED free
       ELSE /\ free' = free \cup {p \in P : p[1] = c}
            /\ UNCHANGED ncached
  /\ UNCHANGED <<alive, ptrs>>

-----------------------------------------------------------------------------
CacheInit ==
  /\ free = Objects
  /\ held = {}
  /\ alive = {}
  /\ ptrs = [t \in Threads |-> [c \in Classes |-> Empty]]
  /\ ncached = [t \in Threads |-> [c \in Classes |-> 0]]

HeldAs(c) == {p \in Objects : <<c, p>> \in held}

MayHold(n) == Cardinality(held) + n <= MaxHeld

\* One operation of the callers on thread t's cache.
Operate(t) ==
  \E c \in Classes :
    \/ "allocate" \in Operations /\ MayHold(1) /\ Allocate(t, c)
    \/ /\ "allocate_batch" \in Operations
       /\ \E n \in 1 .. MaxBatch : MayHold(n) /\ AllocateBatch(t, c, n)
    \/ "free" \in Operations /\ \E p \in HeldAs(c) : Deallocate(t, c, p)
    \/ /\ "free_batch" \in Operations
       /\ \E P \in SUBSET HeldAs(c) :
            Cardinality(P) \in 1 .. MaxBatch /\ DeallocateBatch(t, c, P)

CacheNext ==
  \E t \in Threads :
    \/ t \notin alive /\ Construct(t)
    \/ t \in alive /\ Operate(t)

CacheSpec == CacheInit /\ [][CacheNext]_cacheVars

-----------------------------------------------------------------------------
CacheTypeOK ==
  /\ free \in SUBSET Objects
  /\ held \in SUBSET (Classes \X Objects)
  /\ alive \in SUBSET Threads
  /\ ptrs \in [Threads -> [Classes -> [Places -> Objects \cup {Nothing}]]]
  /\ ncached \in [Threads -> [Classes -> 0 .. Size]]

\* The places of all bins that hold cached objects.
Live == {l \in Threads \X Classes \X Places : l[3] < ncached[l[1]][l[2]]}
At(l) == ptrs[l[1]][l[2]][l[3]]

\* An object has one owner: it is free in the arena, or in one place of one
\* bin, or with one caller.  If not, two callers will get the same memory.
OwnedOnce ==
  /\ \A l \in Live : At(l) \notin free \cup HeldObjects
  /\ \A l, m \in Live : l # m => At(l) # At(m)
  /\ free \cap HeldObjects = {}
  /\ \A h, g \in held : h[2] = g[2] => h = g

\* No object is lost to the allocator.
NothingLost ==
  \A p \in Objects : p \in free \cup HeldObjects \/ \E l \in Live : At(l) = p

\* A cache never runs dry while the arena can fill it: after every operation
\* each bin has Flush objects, so that allocate() finds one to return.
Stocked ==
  \A t \in alive, c \in Classes :
    ncached[t][c] >= Flush /\ \A i \in 0 .. ncached[t][c] - 1 : ptrs[t][c][i] # Nothing

\* Caches and arena together are an object allocator: an object in a bin is set
\* aside, neither free nor held.
Allocator == INSTANCE ObjectAllocator
               WITH Everything <- Objects, held <- HeldObjects

CacheImplementsAllocator == Allocator!AllocSpec
=============================================================================
