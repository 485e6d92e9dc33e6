# CascadingPool in TLA+

Specifications, model checks and proofs for CascadingPool, a layered memory
allocator in C++.  The modules translate the code under `include/cascading/` and
`src/`; line numbers of what each definition stands for are in `PROJECT.json`
("map").

## The system

A request goes through these layers.  A layer keeps going to the next one only
when it cannot serve the request itself.

| Part | State | Operations | Talks to |
| --- | --- | --- | --- |
| `cascading_pool` (facade) | none | initialize, shutdown, allocate, deallocate, batch forms, cleanup | `thread_cache_manager`, `arena` |
| `thread_cache_manager` (singleton) | registry `all_caches_` under `mutex_`, atomic `shutdown_`, per thread `tls_cache_` and `tls_initialized_` | get_or_create_cache, allocate/deallocate (batch), cleanup_current_thread, cleanup_thread_cache, shutdown | `thread_cache` of the thread; `arena` after shutdown |
| `thread_cache`, `cache_bin` | 36 bins: array `ptrs` of 32 places and `ncached` | allocate, deallocate, batch forms, fill from and flush to the arena | `arena` |
| `arena` (singleton) | table of 36 size classes (type-erased), `initialized_` | allocate, deallocate, batch forms by size or class | `size_class`, `extent_manager` for large requests |
| `size_class_table` | none (pure) | size_to_class, class_to_size | |
| `size_class` | lock-free list of chunks, `active_chunk_`, `chunk_count_` | allocate, deallocate, batch forms, create_new_chunk, full, empty | `lock_free_list`, `chunk`, `extent_manager` |
| `chunk` | slab groups and the address of a 4 MB data area | initialize, allocate, deallocate, full, empty | `slab_group` |
| `slab_group` | pool of slabs, `initialized_`, base address | initialize, allocate, deallocate, batch forms, full, empty | `lock_free_pool` (round-robin), `slab` |
| `slab` | bitmap of atomic words, plain `allocated_count_` and `next_search_start_`, `data_region_` | initialize, allocate, deallocate, batch forms | |
| `lock_free_pool` | round-robin: a flag per slot and an index; LIFO and FIFO: tagged indices | acquire, release | |
| `lock_free_list` | head, tail, nodes with tagged pointers, a LIFO pool of nodes | push and emplace at both ends, erase, find, clear | `lock_free_pool` (LIFO) |
| `extent_manager` (singleton) | four trees of extents and a recycler thread | allocate, deallocate, reclaim, pressure | trees, `timed_task`, the operating system |
| `in_use_tree`, `dirty_tree`, `muzzy_tree`, `retained_tree` | ordered maps under a mutex, expiry indices | allocate (with split), insert, remove, merge, reclaim | |
| `timed_task` | `running_`, `stop_requested_`, a thread, a condition variable | start, stop | |

Not modelled:

* the FIFO strategy of `lock_free_pool`, `lock_free_stack` and `delayed_task`: nothing in
  the product uses them (the stack's two operations are those of the LIFO pool with a
  value); `tagged_index` is only the data of the FIFO pool and of the stack;
* `cpu_affinity` and `compiler.h`: calls of the operating system, with no state of their own;
* `tree_info`: statistics that no decision reads;
* the dispatch of `arena` from a class number to its `size_class`, and its large path to
  `extent_manager`: both sides are modelled, each with the other as an abstraction;
* the build tree and the tests.

### What is hard here

* Threads meet in the slabs.  A slab is taken out of the group's pool to allocate
  from it, but `deallocate` finds the slab by address and changes its bitmap and its
  plain counter without taking it.  A slab whose search fails is released twice, so
  even the holder of a slab may not be alone.
* A chunk is visible to other threads before it is initialized, and a slab group says
  it is initialized before it is; whoever enters it then disturbs its construction, which
  may fail because of it.
* The list of chunks grows while other threads search it, and the count of chunks is
  compared with the maximum long before it is incremented.  An append swings two links,
  and its nodes come from a pool whose tags are all that tells a node from the same
  node come back.
* A thread's cache is used without locks, while other threads may delete it
  (`shutdown`, `cleanup_thread_cache`).  Objects travel between the caches of
  different threads.
* Boundaries: a full bin, an empty bin, an arena that supplies less than asked for,
  unsigned subtraction in `need_fill`, a 16-bit count that can drift below zero, a
  binary search over 36 classes and two tables of class sizes that must agree.
* The recycler thread moves extents between trees while callers allocate from them.

`PROJECT.json` lists every hazard with its line and the properties that cover it.

### What makes each part correct

* Round-robin pool: a slot has at most one holder; a slot in use has a holder.
* LIFO pool: a node is free or held, not both, and once only; the links are a stack whose
  pushes and pops happen at the CAS (`NodeStack`).
* List: a node is free, linked or in one thread's hands; tail and size are exact at rest,
  and the tail is never more than one node behind; a search misses nothing that was in the
  list when it began, unless it falls into the first append; the list is a sequence
  (`NodeSequence`).
* Slab group: an object has at most one owner; the bitmap tells owned objects
  exactly; the count is exact without frees; calls return.
* Size class: a region is with the extent manager, with one creating thread, or in one
  initialized chunk; the count of chunks follows the list and stays within its maximum; a
  free finds the chunk of its object; the active chunk is finished; no object is handed
  out twice, as long as nobody disturbed the construction of its chunk.
* Table of size classes: the smallest class that fits; one notion of what is large; small
  objects as large as their requests.
* Thread cache: an object is in one place only (arena, one bin, or one caller); none is
  lost; bins are not empty after an operation.
* Manager: a cache that is used exists; the registry names the caches that exist; what is
  lost is lost in one of two ways (a registry entry overwritten, or a class mistaken); after
  shutdown everything else that is not held is back in the arena.
* Everything above the operating system: an object allocator (`ObjectAllocator`).
* Extents: memory handed out is in one place only and stays usable; only whole blocks
  go back to the system, step by step; calls return and the recycler can be stopped.

## The modules

`ObjectAllocator` is the abstract specification every layer is to implement: objects
are free, held by callers, or set aside; they pass between free and held only
through the allocator.

`RoundRobinPool` models `lock_free_pool<T, N, ROUND_ROBIN>`.  One action is one
atomic operation: the `fetch_add` of the index (`StartScan`), one CAS of the scan
(`ProbeHit`, `ProbeMiss`), the CAS of `release` (`Release`).  Its own `PoolSpec` adds
clients that release each slot once.  The index is kept modulo N; `size_` is left out.

`LifoPool` models `lock_free_pool<T, N, LIFO>` on `tagger_ptr`: a load of `free_top_`, the
read or write of a node's link, and the CAS are one action each; a CAS that fails, also
spuriously (`WeakFailure`), loads the word again.  `size_` is left out.  Two history
variables serve the properties: `stack`, the free nodes in the order of the successful
CASes, and `lag`, for each thread the CASes that succeeded since its load.  The tag has 16
bits and wraps, so a thread overtaken exactly 65536 times between load and CAS would be
deceived; `NoneLapped` guards the steps that overtake, and is the assumption that this does
not happen (`Lapping = TRUE` drops it, and `ChainIsStack` fails).  `NodeStack` is what the
pool promises: one step pushes or pops.

`LockFreeList` models `lock_free_list`.  Its node pool is a set whose operations are
atomic, because `LifoPool` implements `NodeStack` and the list does not care which free
node it gets.  An action is one access to `head_`, `tail_`, a link or `size_`; `at` is the
place of a thread in the code, `loc` its locals.  The list does not bear every overlap of
its operations (see the end of this text), so `Together` names the groups of operations
that may overlap, and an operation starts when all calls under way are in a group with it.
`size_class`, the only user, overlaps `emplace_back` and `find_if`.  `NodeSequence` is the
abstract list: a node is appended or prepended, or one is removed, in one step.  The list
is read from `First`: the head, or the node that is the tail of an empty list and about to become
its head.  `due` is a history variable: the nodes that a search under way has to come past,
which are those that were in the list in this sense when the search was called.
`FindSeesAll` looks at each step of a cursor.  It excepts one case, which the code does not
bear: a search that reads the head after the first append has set the tail
(lock_free_list.inl:102) and before it has set the head (109) finds nothing, though appends
behind that tail may have returned.  In the product `initialize()` makes the first append before
there are other threads.

`SlabGroup` EXTENDS the round-robin pool and models `slab` and `slab_group`.  `pc` is a thread's
place in the code.  An action ends where other threads can see or disturb the
next step: a load or CAS of a bitmap word, a read or write of the plain count, an
operation of the pool.  A bitmap is the set of its one bits; a pointer is a pair of
region and object; object numbers are contiguous over the words, and the last word may
be used in part, as in the code.  `count` is reduced modulo `CountMod` like the
`uint16_t`.  The counter's write and the hint's write after it are one step, and so
are the three writes of `slab::initialize` that clear a slab: each is a coarser
interleaving than the code's.  The threads also stand for the callers: `live` holds the
pointers they own, any thread may free a live pointer, and none is freed twice.
There are two initial conditions: a group that was initialized before anyone else saw
it (`ReadyInit`), which is how the arena's constructor makes the first chunk of a
class, and a published group that one thread is about to initialize (`FreshInit`);
`Shared` says whether others can reach it meanwhile, which is the case of a chunk that
grows a class.

`SizeClass` models `size_class` and `chunk`.  The list of chunks is `1 .. len`, since it only
grows and `LockFreeList` shows an append to be one step.  `VisitChunk` is one probe of
`find_if`; `create_new_chunk` goes through the places `check`, `extent`, `emplace`, `setFlag`,
`setBase`, `group`, `build`, `count`, in which the chunk is in the list before it is initialized,
as in the code, and its slab group says that it is initialized (`InitGroup`) before its slabs
are acquired, cleared and released (`BuildGroup`).

A call of an undisturbed slab group is one step on the set of its `taken` objects, since
`SlabGroup` implements `ObjectAllocator`; a deallocation is two, the bit and then the count.
What is left of the races in such a group is that a call may miss: while another thread is
inside the same chunk, `full()` and `empty()` may answer either way and an allocation may get
less than there is; and that counts drift: when an increment and a decrement meet, the
chunk is in `drift` from then on, its `full()` answers either way and its `allocate()` may fail.

A group that another thread enters while it is `HalfBuilt` is another matter, since
`slab_shared_creation` shows what happens to it.  The model does not follow the damage: it
puts the region in `spoilt`, for good, and from then on any object of it may be handed out
at any time, its `full()` answers either way, and its construction may fail (`BuildFails`): the chunk
stays in the list with its base and without flags, and the region goes back (`GiveBack`).  So
the properties say how far the damage goes: regions, the count and the walks stay right in any
case, and the class is an allocator of the `Sound` objects, those of other regions.

`SizeClassTable` has the three functions of `size_class_table` and the table of
`arena::get_initializer`, as functions, with the requests enumerated one by one.  The binary
search is a function of the pair of its bounds.

`ThreadCache` models `thread_cache` with its bins, and the arena as far as a cache
sees it: a set of free objects for each class.  An object carries the class it really
has; `held` remembers the class it was asked for.  An operation of a cache is one
action because its thread alone uses the cache, and what it does in the arena only
removes objects from, or adds them to, the free set; a request to the arena is one
atomic step (the slab level is `SlabGroup`'s).  The
default size of 8 bytes in `fill_cache` and `flush_arena` is modelled as it is.

`ThreadCacheManager` EXTENDS the cache.  A critical section under `mutex_` is one
action; test of `shutdown_`, creation, registration and use of a cache are separate
actions.  A thread that has exited may come back as a new one with the same id, with its
old cache cleaned up or not, as cleanup is optional; the new cache then overwrites the old
entry.  Two history variables collect what is lost: `orphaned`, the objects in caches that no
entry names any more, and `ignored`, those that were given back to a class that is not theirs
(by `flush_arena`, or by a batch to the arena).  The callers keep to two rules.  `shutdown` is
called while no other thread is in a call, as the README asks for (README.md:431); and
`cleanup_thread_cache` is for threads that have exited, since there is no lock under which a
running thread uses its cache.

`Extents` has the extents and the code that `dirty_tree` and `muzzy_tree` share: first
fit, split, merge.  A tree is a set of extents and addresses are in pages; `merge()`, which goes
through the map in the order of the addresses, is a function over the addresses.

`ExtentManager` models `extent_manager` with its four trees, the recycler (a
`timed_task`), the destructor and the memory calls of the operating system.  A visit to
a tree, which the code makes under the tree's mutex, is one action; callers, recycler
and destructor interleave between visits.  A call of `allocate` goes through the places
`dirty`, `muzzy`, `retained`, `system` of `pc`, a large one begins at `large`; handing
the extent to `in_use_tree`, which destroys it, is part of the visit.  `rec` follows
`reclaim()` and the wait of `timed_task`, where testing the flag and beginning to wait are
two steps, because `stop()` does not take the mutex.  `base` and `committed` are the
system's view of the pages.  Any extent may expire at any time, so the expiry
indices, the byte totals and the memory pressure are not needed.  `muzzy_tree::reclaim`
erases from the set it iterates over; what it collects is any part of the expired extents.
Since `in_use_tree` stores nothing, an extent that left a tree never comes back, the
pieces of a block never meet again, and `merge()`, though modelled, finds nothing to do.

The `MC*` modules add the symmetry set for TLC, and a VIEW or a specification where a run
needs one.  Operators under a comment
"Mutant:" are plausible mistakes; the specifications do not use them, and they serve
to show that the properties can fail.

## Model checking

| Run | Expected | Shows |
| --- | --- | --- |
| `rr_pool` | pass | 3 threads, 3 slots, spurious CAS failures: `Exclusive`. |
| `lifo_pool` | pass | 3 threads, 3 nodes, spurious CAS failures, tags modulo 5 that wrap: `EachNodeOnce`, `ChainIsStack`, refinement of `NodeStack`. |
| `lock_free_list` | pass | 3 threads, 3 nodes, appends with searches, prepends, removals: `NoNodeLost`, `QuiescentExact`, `TailOneBehind`, `FindSeesAll`, refinement of `NodeSequence`. |
| `slab_group` | pass | 2 threads, 1 slab of 3 objects in 2 words, calls and frees of up to 2 objects: `NoDoubleHandout`, `BitsMatchOwners`, refinement of `ObjectAllocator`. |
| `slab_group_create` | pass | 2 threads, 2 slabs, initialization, then all calls but frees: `CountExact`, `HolderAlone`, `NoSlotLost`, and every call returns. |
| `slab_shared_creation` | violation | `NoDoubleHandout` when others reach a group that is being initialized. |
| `size_class` | pass | 2 threads, up to 2 chunks of 2 objects, 3 regions, all operations, disturbed and failing constructions, drifting counts: `RegionsAccounted`, `CountBehindList`, `FreeFindsChunk`, `ActiveReady`, refinement of `ObjectAllocator`. |
| `size_class_batch` | violation | 2 threads, 1 chunk of 2 objects: `CallsReturnAlone` when a count has drifted. |
| `size_classes` | pass | All requests of 1 to 10500 bytes; the largest class is 10320 (not 3456, as the README says): `TightestClass`, `SmallObjectsFit`. |
| `cache_manager` | pass | 2 threads, 2 classes of 4 objects, bins of 2, all operations, exits and restarts with and without cleanup, shutdown: `OwnedOnce`, `Stocked`, refinement of `ObjectAllocator`, `UsedCacheExists`, `RegistryExact`, `LossesKnown`, `ShutdownReturnsAll`. |
| `extent_manager` | pass | 2 callers, recycler and destructor, 3 pages in blocks of 2 and 1, requests of 1 and 3 pages, memory calls that fail: `HandedOutUsable`, `PagesDisjoint`, `TreesBacked`, `ReleasedWhole`, and, under fairness, `AllocateReturns` and `StopReturns`. |
| `extent_split_unmapped` | violation | `HandedOutUsable` with `munmap`: a piece of a block is unmapped before its address is returned. |

The type invariants of the pools and of the size class are proved, and not part of a run.

### Bounds, and why they are enough

* Three threads and three nodes in `lifo_pool`: the classic ABA needs one thread asleep
  with an old top while another takes two nodes and returns the first.  With
  `TagMod = 5` that takes fewer CASes than `NoneLapped` allows, and the tags wrap.
* `TagMod = 2` in `lock_free_list`, where tags are reset whenever a node is acquired anyway;
  `MaxRetries = 2` lets an append or a removal run out of retries; three nodes let the pool run
  empty while a node is in a thread's hands.
* `ChunkMaxCount = 2`, `RegionCount = 2`, `MaxBatch = 2`, three regions in `size_class`: both
  threads can find the first chunk full, pass the check of the maximum and carry a region
  when only one more chunk fits in the list; a batch is served from one chunk, from two, or in part.
  Two threads suffice to spoil a region and to have its construction fail, and three regions
  leave one to come back in another chunk.
* One chunk and batches of one in `size_class_batch`: the counterexample needs no more.  Its
  specification leaves out the behaviours in which time passes between a look at the
  counts and the CAS, so that each of its steps is one of the code's.
* Two words with three objects: the search has a second word to go to, it can start in
  either (`next_search_start_`), and the last word has a bit without an object.
  `CountMod = 4` lets the count wrap, as 65536 would after enough lost updates.
* One slab in `slab_group` makes two threads meet in every step, through the double
  release; two slabs in `slab_group_create` exercise the loop over the slabs and the
  dealing out of regions.  Three threads and one-object slabs in
  `slab_shared_creation` are the least with which the two owners appear.
* `MaxBatch = 2`: a batch is then refused in part, served from two words, or whole.
* Bins of 2 places with a threshold of 1: a bin is full, half full, or below the
  threshold and refilled.  A call that the
  arena could not serve in full is not made (`ArenaShort = FALSE`): a short arena makes
  `fill_cache` count places it did not fill, and breaks `OwnedOnce`.
* `MaxHeld` bounds the objects in the callers' hands, so that the arena is not exhausted.
* Two classes in `cache_manager`, of which the arena's default size names the first: at
  destruction what is in the bins of the second leaks, and is counted.  The run tells states
  apart by a VIEW, without the pointers that a bin has beyond `ncached`: without "free_batch" and
  with an arena that is never short no operation reads them.  Two threads are enough for one
  to free what the other allocated, to clean up after the other, and to come back with
  its own old entry in the registry.
* `WeakFailure` in `SlabGroup` and `LockFreeList`: `compare_exchange_weak` does not fail spuriously on x86, for which the
  repository is built; these runs use FALSE.  With spurious failures
  `release()` of the round-robin pool loses slots and the list loses nodes.
* Three pages in `extent_manager`: a request of one page splits the block of two or takes
  a whole one, from each tree; a request of three is large, and is granted only when all
  that was preallocated has gone back to the system, in competition with the old
  addresses in the retained tree.  Two callers and the recycler reach every tree between
  each other's visits.  `Failing` lets each memory call fail.
* `CHECK_DEADLOCK FALSE` in the run of the table (the requests end), in the
  run of the cache manager and in those of the extents (the process has ended; and a
  thread that cannot commit a muzzy extent locks `muzzy_mutex_` twice and blocks
  everyone).

### Fairness

`FairFreshSpec` assumes weak fairness of each thread's steps inside a call: the
operating system runs every thread that is not blocked, and no step of a slab group
blocks.  Nothing is assumed of callers.  `CallsReturn` is checked without frees: an
allocation that races a stream of frees in one word may see its CAS fail without
bound, as lock-free code may.

`FairPromptSpec` assumes the same of the threads inside a size class.  `CallsReturnAlone` asks
for the least there is to ask: that a call that is, from some time on, the only one under way
comes to its end.  It is violated.

`FairExtentSpec` assumes weak fairness of each caller inside a call, of the recycler and of
the destructor once it has begun.  For the recycler this includes that `wait_until`
returns when the interval is over: `StopReturns` rests on it, since the notification can
come between the test of the flag and the wait, and is then lost; `stop()` then lasts up to
one interval (10 s).  Both properties except the state in which `muzzy_mutex_` has been
locked twice by one thread.

## Proofs

TLAPS proves these for every value of the constants that the assumptions allow.

* `RoundRobinPoolProofs`: `PoolTypeCorrect`, `PoolExclusive` and `PoolLosesNoSlot`.  For the
  second, the invariant adds that a slot with a holder has its flag set; a CAS that finds
  the flag clear has then no other holder.  The third assumes `~WeakFailure`.
* `LifoPoolProofs`: `LifoTypeCorrect`, `NodesInOnePlace`, `LinksFormStack` and
  `PoolImplementsStack`, assuming `~Lapping`.  The links are a stack because a successful CAS
  finds the link of its node unchanged since it read it; that rests on `TagTellsLag`: between load
  and CAS, the tag of `free_top_` is the one a thread loaded plus its `lag`, modulo `TagMod`,
  and `lag` stays below `TagMod`, so that equal tags mean that no CAS came in between.
* `SizeClassProofs`: `ClassKeepsRegions`, `ClassFindsChunk`, `ClassActiveReady` and
  `ClassImplementsAllocator`, without any assumption beyond those on the constants, and
  `ClassCountsChunks`, for finitely many threads.  The invariant `ClassInv` has the types and, by
  name: `Construction`, how far each chunk of the list is initialized and by whom, down to those
  whose initialization failed; `Regional`, where each region is; `Cursor`, that a walk or
  a use is within the list, and that a chunk about to be published is one that is finished
  or spoilt; `Seeking`, that the walk of a free is not past the chunk of its object; and
  `Owners`, that the `Sound` objects in callers' and threads' hands are taken, once each.
  `FreeFindsChunk` needs all of them: an object that is held must have a chunk that
  can no longer change, and the walk must not have passed it.  The crux is that `spoilt` only
  grows (`StepSpoils`), and that whoever gets an object of a chunk under construction has spoilt
  its region in the same step (`RoomFit`), so that what is known of `Sound` objects is known of
  finished chunks.  Neither the value of `chunk_count_` nor the answers of `full()` matter
  to any of this, so that drifting counts do not either; the count has an induction of
  its own, on the set of uncounted creators.
* `SlabGroupProofs`: `SlabTypeCorrect`, `NoObjectHandedOutTwice`, `BitmapsTellOwners` and
  `GroupImplementsAllocator`, for `Spec`, that is, for groups initialized before they are
  shared.  `NoDoubleHandout` alone is not inductive: that the object of a bit about to
  be set has no owner follows only from "owned objects have their bit set", and that a
  cleared bit's object has no second owner only from `NoDoubleHandout`; so they are proved
  together, with where each thread's words and slots come from.  The invariant says
  nothing of the count, of the hint or of the flags of the pool: the result does not
  rest on them.  The refinement maps free objects to zero bits: the CAS and the
  clearing of a bit are the steps that change them.
  Its last part has `GroupLosesNoSlab`, `GroupKeepsPoolRules` and `CreatedGroupIsSafe`, for
  `FreshSpec` with `~Shared`, `~MayFree` and `~WeakFailure`: a group that one thread creates
  and from which callers only allocate.  The end of `slab_group::allocate` releases a slab a second time when
  `slab::allocate` found nothing in it; the slab may be another thread's by then.  The proof
  shows that without frees this is not reached: the count is
  exact because the thread has the slab to itself, so that a slab below `Regions` has a zero
  bit; the search covers every word (`SearchSeesAll`), and the words it has passed stay full.  So the
  results hold together, by `Tenancy`, and each step of the group is a step of a client of the pool
  that releases once, which brings in `PoolInvInductive`.  `Opening` describes the group while its creator
  initializes it: the pool hands out the slabs in their order, and slab s gets region s.
* `ThreadCacheManagerProofs`, on the contents of the caches: `ObjectsOwnedOnce`,
  `CacheLosesNothing`, `BinsStayStocked` and `CacheIsAllocator`, assuming `~ArenaShort` and that
  `deallocate_batch` is not among the `Operations`.  The invariant has three parts: `Bins`, that
  each live bin is filled to the threshold or above with objects, and that the bin of a thread
  without a cache is empty; `Owners`, that an object in a bin is in one place and neither free nor
  held; and `Accounted`, that every object is in one of the three.  A refill takes a set of objects
  from the arena and `Rank` numbers it: `RankNumbers` shows that this is a bijection with the
  places to fill, so that each object gets one place.  What a call pops, with
  the refill behind it, is one lemma, `Exchange`, for `allocate` and `allocate_batch` alike.
* The same module, on the life of the caches: `NoUseAfterDelete` and `RegistryNamesCaches`, without
  assumptions.  The strengthening tells which threads may be in a call when caches are
  deleted (`ClosedAfterShutdown` and the relation of `tls`, the registry and
  the places of the threads).  Under the assumptions on the contents besides, their
  invariant holds through the life of the caches, which gives `ManagerTypeCorrect`,
  `ManagedObjectsOwnedOnce` and `ManagerIsAllocator`; `Lifetimes` is what links the two: a cache is
  created only by a thread that has none in `tls`, and none in the registry is left after
  shutdown.  `LossesAreKnown` has the objects that are lost apart from all others, for
  any number of classes, and `ShutdownReturnsEverything` follows: with no cache left, what
  is not held and not lost is free.
* `LockFreeListProofs`: `ListTypeCorrect`, `ListLosesNoNode`, `ListQuiescentExact`,
  `TailNeverFarBehind`, `FindsSeeAll` and `ListImplementsSequence`, assuming `GroupsApart` and
  `~WeakFailure`.  `GroupsApart` says that of the operations that may overlap, appends do not
  overlap prepends, and removals overlap nothing; searches and `set_max_retries` may overlap
  both.  That is more than the product does (`emplace_back` with `find_if`), and the limit of
  what the code bears: with any other two operations in one group of `Together`
  (`set_max_retries` aside), TLC finds one of these properties violated.  The invariant `ListInv` says that
  there is a sequence s with `InvOf(s)`: the links go through s (`Path`), the head is its first
  node and the tail its last unless a thread is at a place from which it will still set them
  (`HeadRight`, `TailRight`), and each thread knows what `Knows` says for its place.  None of the
  properties is inductive without `AppendKnows`: a thread that has read the tail may sleep while
  others append, and its CAS must be seen to fail, or to be harmless, when it wakes.  What saves
  it is that the tail moves ahead in s only, so that a tail that is still at the same node is the
  same word: the tag, which starts again at 0 whenever a node is reused, is not needed for this.
  `ChainIsPath` shows that `Chain`, which follows the links with a bound, is s; it is the only
  fact about the recursion that the rest uses.  `ListMoves` says what a step does to s, which is
  the refinement step of `NodeSequence` as well.  `FindsSeeAll` rests on the same sequence: it
  only grows while a search is under way, and what was in s when it began stays ahead of its
  cursor.
* `ExtentManagerProofs`: `ExtentTypeCorrect`, `HandedOutStaysUsable`, `PagesStayDisjoint`,
  `TreesStayBacked` and `OnlyWholeReleased`, assuming `~Posix`: with `munmap` a piece of a block
  is unmapped before its address is returned (`extent_split_unmapped`), while `VirtualFree`
  refuses an address that is no reservation.  `PagesDisjoint` alone is not inductive, since it
  does not say what the system will release when an extent dies.  The invariant `IInv` says it:
  each extent in a tree is a whole reservation, or the front of one from whose end pieces were
  cut and handed out; the two trees, the recycler's batch and what callers hold share no page;
  and what is in the dirty tree or with a caller is committed.  `MergeKeepsPages` is about `merge()` on any set of extents that do not overlap: no page is lost or added, and
  the result does not overlap.  It says more than the manager needs: by `TreesNeverMerge` no two
  extents in its trees can be joined, because a piece never comes back.
* `SizeClassTableProofs`: `SearchIsTight`, that the binary search returns the smallest class that fits, for
  every request, and `SmallRequestsFit`, that the first 17 classes are as large as the requests they serve.

Three of these models have recursive functions (`Chain`, `Merge`, the table and its search).  The
library's induction theorems cannot be used, as they take an operator; in their place
`LeastNumber` gives the least argument at which two functions would differ, or at which none
would exist, and the definition at that argument is the contradiction.

Only model-checked: `CallsReturn`, `AllocateReturns` and `StopReturns`, which are
liveness and out of the prover's reach; and `CountExact` and `HolderAlone`, of which the proof of
`GroupLosesNoSlab` contains what it needs.  Every other property of the runs that pass is also
a theorem.

## Where code and documents disagree

* `slab_shared_creation`: a chunk is published before it is initialized
  (size_class.inl:33), and an object gets two owners.
* `size_class_batch`: an increment and a decrement of the plain `allocated_count_` (slab.inl:72 and
  114) meet and one is lost; when the count of a full chunk is too low, `allocate_batch` finds
  that chunk for ever (size_class.inl:220-230).
* `extent_split_unmapped`: `in_use_tree::insert` refuses extents in state in_use and
  inverts the test of its CAS, so that it stores nothing; the extent is destroyed, and
  the destructor of a split one gives its pages back.

Seen in the models or while reading, and not the subject of a run of their own.

Pools and list:

* `LockFreeList` with `push_back` and `push_front` in one group, `push_back` and `erase`, or two
  calls of `erase`, loses nodes; `push_front` with `erase` leaves a wrong tail or size.  Yet
  lock_free_list.h:13 calls the class thread-safe.  Searches that overlap removals miss nodes and
  reach released ones.
* With `WeakFailure`, the ignored CASes at lock_free_list.inl:40 and 109 leave the list without a
  head or a tail.
* A `find` that reads the head when the first append has set the tail but not the head
  finds an empty list, and misses appends that were completed behind that one (the
  exception in `FindSeesAll`).
* A node's tag starts at 0 again whenever the node is reused.
* The comment "all slots are in use" at the end of the round-robin `acquire` does not hold
  for a scan that is not atomic; the helping loop of the FIFO pool (lock_free_pool.inl:185-193)
  does not seem to do what its comment says.

Slabs and size classes:

* With frees, the count of allocated objects of a slab drifts, and `CountExact` holds only
  without.
* If the group of a new chunk fails to initialize, because other threads have its slabs, the
  chunk stays in the list with its base address while the region goes back
  (size_class.inl:41-46): each such failure costs one of the chunks that the class may have.
* `size_class_table` ends at 10320 bytes, and larger requests are large; README.md:616-631 and a
  comment in arena_test.cc:94 say 3456, which is the last entry of the arena's table.
* `find_if` may stop at a chunk that is not initialized yet; `allocate()` then creates another
  chunk even if a later one has room, and fails when there may be no more.
* The arena's table of object sizes is not that of `size_class_table` from class 17 on: a
  request of 161 bytes gets 160 (`SmallObjectsFit` stops at class 16).

Caches:

* `cache_bin::deallocate_batch` stores nothing (a parameter hides the member): with
  "free_batch" in `Operations`, `OwnedOnce` fails.
* `fill_cache` uses the default size of 8 bytes for every bin, so refilled bins hold objects of
  the smallest class.
* `tls_cache_` dangles after `shutdown` and `cleanup_thread_cache`; after `shutdown` the test of the
  flag keeps calls from it.
* A thread id that is used again without cleanup overwrites its entry in the registry
  (thread_cache_manager.cc:24), and the old cache with its objects is never deleted, though
  README.md:534 leaves cleanup to the end of the process.

Extents:

* `extent_manager::deallocate` finds nothing in `in_use_tree`, so that freed memory is lost.
* `muzzy_tree::allocate` calls `insert` with its own mutex held when committing fails
  (`MuzzyFails`); `dirty_tree::insert` and `retained_tree::insert` take no lock.
* `reclaim()` called by a user shares `reclaim_extents_` with the recycler.
* `allocate_memory` and `reuse_memory` take `MAP_FAILED` for an address.

## Plan

The pools, the list, the slabs, the size class, the caches and the extents are modelled and
their safety proved.  Left, in this order:

1. `DirtyTree`: one tree as a class of its own, with callers that return what they took:
   the expiry index agrees with the tree, the byte total with its extents, and merging
   restores whole blocks (a second split of a restored block leaves it of type original).
   `MergeKeepsPages` is stated for such trees already.
2. The large path and the batch free of `arena`, composed with the caches and
   `ExtentManager`.
3. Theorems: the invariants of 1 and 2; and that the list in `SizeClass` and the pool in
   `LockFreeList` rely on no more than `NodeSequence` and `NodeStack` promise, which this
   text only argues.
