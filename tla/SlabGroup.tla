------------------------------ MODULE SlabGroup ------------------------------
(***************************************************************************)
(* slab_group and its slabs: a 4 MB data area cut into N regions, and N     *)
(* slab objects (a bitmap, a count, a search hint, a pointer to a region)   *)
(* kept in a round-robin pool.  allocate() and allocate_batch() take a slab *)
(* out of the pool, claim zero bits of its bitmap with a CAS per bit and    *)
(* give the slab back; deallocate() computes the slab from the address and  *)
(* clears the bit WITHOUT taking the slab.  The bitmap words are atomic;    *)
(* the count and the hint are plain integers, so an update is a read and a  *)
(* write that other threads may fall between.                               *)
(*                                                                          *)
(* A pointer is <<k, b>>: object b of data region k.  The threads stand for *)
(* the callers above slab_group as well: a pointer that was returned is in  *)
(* `live` until some thread, not always the one that got it, frees it, and  *)
(* no pointer is freed twice.                                               *)
(***************************************************************************)
EXTENDS RoundRobinPool

CONSTANTS Words,      \* BITMAP_WORDS
          WordBits,   \* BITS_PER_WORD
          Regions,    \* REGION_COUNT, objects in a slab
          CountMod,   \* the count is a uint16_t: 2^16
          MaxBatch,   \* largest n of the batch calls (bounds the model)
          Calls,      \* the calls the threads make that walk the slabs
          MayFree,    \* do the callers free objects?
          Shared      \* can other threads reach the group while it is initialized?

ASSUME SlabAssumption ==
  /\ Words \in Nat \ {0} /\ WordBits \in Nat \ {0}
  /\ Regions \in 1 .. Words * WordBits
  /\ CountMod \in Nat /\ CountMod > Regions
  /\ MaxBatch \in Nat \ {0}
  /\ Calls \subseteq {"allocate", "batch", "full", "empty"}
  /\ MayFree \in BOOLEAN /\ Shared \in BOOLEAN

Objects == 0 .. Regions - 1
Pointers == Slots \X Objects
NoRegion == N                       \* data_region_ == nullptr
WordOf(w) == {b \in Objects : b \div WordBits = w}
IsLowest(b, S) == b \in S /\ \A c \in S : b <= c

VARIABLES
  ready,     \* initialized_
  region,    \* data_region_ of every slab, as the number of the region
  bits,      \* bitmap_ of every slab, as the set of its one bits
  count,     \* allocated_count_
  hint,      \* next_search_start_
  live,      \* the pointers in the callers' hands
  pc, op,    \* each thread's place and the call it is executing
  tries,     \* loop counter over the slabs (i)
  want,      \* n of allocate_batch
  from,      \* start_word
  word,      \* loop counter over the words
  seen,      \* word_value, as the set of its one bits
  bit,       \* the object whose bit the thread set last
  got,       \* the pointers obtained for the caller
  todo,      \* the pointers still to be freed by this call
  target,    \* the slab whose bit was just cleared
  tmp        \* allocated_count_ as read by ++ or --

slabVars  == <<ready, region, bits, count, hint>>
searchVars == <<from, word, seen, bit>>
freeVars  == <<todo, target>>
callVars  == <<op, tries, want>>
vars == <<poolVars, slabVars, live, pc, callVars, searchVars, got, freeVars, tmp>>

Ops == {"none", "allocate", "batch", "full", "empty", "free", "init"}
Labels == {"idle", "next", "scan", "no_slab", "check_full", "enter", "load", "cas",
           "claimed", "count_up", "release", "release_last", "query",
           "free", "cleared", "count_down",
           "init", "clear_slab", "set_region", "init_release"}

Goto(t, l) == pc' = [pc EXCEPT ![t] = l]
Held(t) == slot[t]

-----------------------------------------------------------------------------
(* Entering and leaving a call *)

Initializing == \E t \in Threads : pc[t] = "init" \/ op[t] = "init"

\* A call that walks the slabs of the pool: allocate, allocate_batch, full, empty.
Call(t) ==
  /\ pc[t] = "idle" /\ ready /\ (Initializing => Shared)
  /\ \E o \in Calls, n \in 1 .. MaxBatch :
       /\ o # "batch" => n = 1
       /\ op' = [op EXCEPT ![t] = o]
       /\ want' = [want EXCEPT ![t] = n]
  /\ tries' = [tries EXCEPT ![t] = 0]
  /\ Goto(t, "next")
  /\ UNCHANGED <<poolVars, slabVars, live, searchVars, got, freeVars, tmp>>

\* On a group that is not initialized every one of them returns at once.
CallRefused(t) ==
  /\ pc[t] = "idle" /\ ~ready
  /\ UNCHANGED vars

\* Return to the caller, who now owns what the call obtained.  (Locals that are
\* dead are reset, here and below, to keep the state space small.)
Return(t) ==
  /\ live' = live \cup got[t]
  /\ got' = [got EXCEPT ![t] = {}]
  /\ op' = [op EXCEPT ![t] = "none"]
  /\ tries' = [tries EXCEPT ![t] = 0]
  /\ want' = [want EXCEPT ![t] = 1]
  /\ Goto(t, "idle")

\* The head of the loop: take the next slab from the pool, or stop.
NextSlab(t) ==
  /\ pc[t] = "next"
  /\ tries[t] < N /\ (op[t] = "batch" => Cardinality(got[t]) < want[t])
  /\ StartScan(t)
  /\ Goto(t, "scan")
  /\ UNCHANGED <<slabVars, live, callVars, searchVars, got, freeVars, tmp>>

\* The loop is over: nullptr, what was obtained, or "all slabs are full / empty".
LoopEnds(t) ==
  /\ pc[t] = "next"
  /\ tries[t] = N \/ (op[t] = "batch" /\ Cardinality(got[t]) >= want[t])
  /\ Return(t)
  /\ UNCHANGED <<poolVars, slabVars, searchVars, freeVars, tmp>>

Scan(t) ==
  /\ pc[t] = "scan"
  /\ \/ ProbeHit(t) /\ Goto(t, CASE op[t] = "allocate" -> "check_full"
                                 [] op[t] = "batch"    -> "enter"
                                 [] op[t] = "init"     -> "clear_slab"
                                 [] OTHER              -> "query")
     \/ ProbeMiss(t) /\ Goto(t, IF at'[t] = "null" THEN "no_slab" ELSE "scan")
  /\ UNCHANGED <<slabVars, live, callVars, searchVars, got, freeVars, tmp>>

\* The pool had no slab: the same results as at the end of the loop, but
\* initialize() withdraws the flag it had set and fails.
NoSlab(t) ==
  /\ pc[t] = "no_slab"
  /\ ready' = (ready /\ op[t] # "init")
  /\ Return(t)
  /\ UNCHANGED <<poolVars, region, bits, count, hint, searchVars, freeVars, tmp>>

-----------------------------------------------------------------------------
(* slab::allocate and slab::allocate_batch on the slab the thread took *)

\* slab_group::allocate asks full() first.
CheckFull(t) ==
  /\ pc[t] = "check_full"
  /\ Goto(t, IF count[Held(t)] >= Regions THEN "release_last" ELSE "enter")
  /\ UNCHANGED <<poolVars, slabVars, live, callVars, searchVars, got, freeVars, tmp>>

\* The slab has no region yet, or (allocate only) its count says it is full.
Refused(t) == region[Held(t)] = NoRegion
              \/ (op[t] = "allocate" /\ count[Held(t)] >= Regions)

EnterSlab(t) ==
  /\ pc[t] = "enter"
  /\ IF Refused(t)
       THEN Goto(t, "release") /\ UNCHANGED <<from, word>>
       ELSE /\ from' = [from EXCEPT ![t] = hint[Held(t)]]
            /\ word' = [word EXCEPT ![t] = 0]
            /\ Goto(t, "load")
  /\ UNCHANGED <<poolVars, slabVars, live, callVars, seen, bit, got, freeVars, tmp>>

SearchOver(t) ==
  /\ from' = [from EXCEPT ![t] = 0]
  /\ word' = [word EXCEPT ![t] = 0]
  /\ seen' = [seen EXCEPT ![t] = {}]
  /\ bit' = [bit EXCEPT ![t] = 0]

WordIndex(t) == (from[t] + word[t]) % Words
Zeros(t) == WordOf(WordIndex(t)) \ seen[t]

\* Mutant: the search goes one word too far.
LoadWordPast(t) ==
  /\ pc[t] = "load"
  /\ IF word[t] > Words
       THEN Goto(t, "release") /\ SearchOver(t)
       ELSE LET value == bits[Held(t)] \cap WordOf(WordIndex(t)) IN
            /\ IF value = WordOf(WordIndex(t))
                 THEN word' = [word EXCEPT ![t] = @ + 1] /\ UNCHANGED <<pc, seen>>
                 ELSE /\ seen' = [seen EXCEPT ![t] = value]
                      /\ Goto(t, "cas") /\ UNCHANGED word
            /\ UNCHANGED <<from, bit>>
  /\ UNCHANGED <<poolVars, slabVars, live, callVars, got, freeVars, tmp>>

\* Load a word; go on to the next one when it has no zero bit for an object.
LoadWord(t) ==
  /\ pc[t] = "load"
  /\ IF word[t] = Words
       THEN Goto(t, "release") /\ SearchOver(t)
       ELSE LET value == bits[Held(t)] \cap WordOf(WordIndex(t)) IN
            /\ IF value = WordOf(WordIndex(t))
                 THEN word' = [word EXCEPT ![t] = @ + 1] /\ UNCHANGED <<pc, seen>>
                 ELSE /\ seen' = [seen EXCEPT ![t] = value]
                      /\ Goto(t, "cas") /\ UNCHANGED word
            /\ UNCHANGED <<from, bit>>
  /\ UNCHANGED <<poolVars, slabVars, live, callVars, got, freeVars, tmp>>

CasFails(t) ==
  /\ bits[Held(t)] \cap WordOf(WordIndex(t)) # seen[t] \/ WeakFailure
  /\ seen' = [seen EXCEPT ![t] = {}]
  /\ Goto(t, "load")
  /\ UNCHANGED <<bits, bit>>

SetBit(t) ==
  \E b \in Objects :
    /\ IsLowest(b, Zeros(t))
    /\ bits' = [bits EXCEPT ![Held(t)] = @ \cup {b}]
    /\ bit' = [bit EXCEPT ![t] = b]
    /\ seen' = [seen EXCEPT ![t] = @ \cup {b}]
    /\ Goto(t, "claimed")

casFrame == <<poolVars, ready, region, count, hint, live, callVars, from, word, got,
              freeVars, tmp>>

\* Mutant: the bit is set with a plain store, whatever the word is by now.
ClaimBitStore(t) ==
  /\ pc[t] = "cas"
  /\ SetBit(t) \/ CasFails(t)
  /\ UNCHANGED casFrame

\* Set the lowest zero bit if the word is still what was loaded, else reload it.
ClaimBit(t) ==
  /\ pc[t] = "cas"
  /\ \/ bits[Held(t)] \cap WordOf(WordIndex(t)) = seen[t] /\ SetBit(t)
     \/ CasFails(t)
  /\ UNCHANGED casFrame

Claimed(t) == <<region[Held(t)], bit[t]>>

\* allocated_count_++ reads ... allocate_batch has stored the pointer already.
CountUpRead(t) ==
  /\ pc[t] = "claimed"
  /\ tmp' = [tmp EXCEPT ![t] = count[Held(t)]]
  /\ got' = [got EXCEPT ![t] = IF op[t] = "batch" THEN @ \cup {Claimed(t)} ELSE @]
  /\ Goto(t, "count_up")
  /\ UNCHANGED <<poolVars, slabVars, live, callVars, searchVars, freeVars>>

\* Mutant: the holder writes back the count it read.
CountUpForgotten(n) == n

CountUp(n) == (n + 1) % CountMod

\* ... and writes; the hint follows; allocate computes its pointer last, while
\* allocate_batch goes on in the word it has, with the value it wrote there.
CountUpWrite(t) ==
  /\ pc[t] = "count_up"
  /\ count' = [count EXCEPT ![Held(t)] = CountUp(tmp[t])]
  /\ hint' = [hint EXCEPT ![Held(t)] = WordIndex(t)]
  /\ tmp' = [tmp EXCEPT ![t] = 0]
  /\ \/ /\ op[t] = "allocate"
        /\ got' = [got EXCEPT ![t] = {Claimed(t)}]
        /\ SearchOver(t) /\ Goto(t, "release")
     \/ /\ op[t] = "batch" /\ Cardinality(got[t]) >= want[t]
        /\ SearchOver(t) /\ Goto(t, "release")
        /\ UNCHANGED got
     \/ /\ op[t] = "batch" /\ Cardinality(got[t]) < want[t]
        /\ IF Zeros(t) # {}
             THEN Goto(t, "cas") /\ UNCHANGED word
             ELSE Goto(t, "load") /\ word' = [word EXCEPT ![t] = @ + 1]
        /\ seen' = [seen EXCEPT ![t] = IF Zeros(t) # {} THEN @ ELSE {}]
        /\ bit' = [bit EXCEPT ![t] = 0]
        /\ UNCHANGED <<from, got>>
  /\ UNCHANGED <<poolVars, ready, region, bits, live, callVars, freeVars>>

\* Give the slab back.  allocate returns its pointer if it has one; if not it
\* falls through to a second release.  allocate_batch goes on in its loop.
ReleaseSlab(t) ==
  /\ pc[t] = "release"
  /\ Release(t, Held(t))
  /\ \/ /\ op[t] = "batch"
        /\ tries' = [tries EXCEPT ![t] = @ + 1]
        /\ Goto(t, "next")
        /\ UNCHANGED <<live, got, op, want>>
     \/ /\ op[t] = "allocate" /\ got[t] # {}
        /\ Return(t)
     \/ /\ op[t] = "allocate" /\ got[t] = {}
        /\ Goto(t, "release_last")
        /\ UNCHANGED <<live, got, callVars>>
  /\ UNCHANGED <<slabVars, searchVars, freeVars, tmp>>

\* Mutant: a full slab is skipped without being given back.
ReleaseLastForgotten(t) ==
  /\ pc[t] = "release_last"
  /\ tries' = [tries EXCEPT ![t] = @ + 1]
  /\ at' = [at EXCEPT ![t] = "out"]
  /\ Goto(t, "next")
  /\ UNCHANGED <<inUse, rr, start, probe, slot, slabVars, live, op, want, searchVars,
                 got, freeVars, tmp>>

\* Mutant: a full slab does not count as tried.
ReleaseLastAgain(t) ==
  /\ pc[t] = "release_last"
  /\ Release(t, Held(t))
  /\ Goto(t, "next")
  /\ UNCHANGED <<slabVars, live, callVars, searchVars, got, freeVars, tmp>>

\* The release at the end of allocate's loop body: the only one for a full
\* slab, the second one for a slab whose allocate() returned nullptr.
ReleaseLast(t) ==
  /\ pc[t] = "release_last"
  /\ Release(t, Held(t))
  /\ tries' = [tries EXCEPT ![t] = @ + 1]
  /\ Goto(t, "next")
  /\ UNCHANGED <<slabVars, live, op, want, searchVars, got, freeVars, tmp>>

-----------------------------------------------------------------------------
(* full() and empty(): one slab after another, each read once *)
Query(t) ==
  /\ pc[t] = "query"
  /\ Release(t, Held(t))
  /\ IF IF op[t] = "full" THEN count[Held(t)] >= Regions ELSE count[Held(t)] = 0
       THEN /\ tries' = [tries EXCEPT ![t] = @ + 1]
            /\ Goto(t, "next")
            /\ UNCHANGED <<live, got, op, want>>
       ELSE Return(t)
  /\ UNCHANGED <<slabVars, searchVars, freeVars, tmp>>

-----------------------------------------------------------------------------
(* deallocate and deallocate_batch: no slab is taken from the pool *)

\* A caller gives back pointers it owns: one, or a batch in any order.  Only
\* deallocate_batch asks whether the group is initialized.
CallDeallocate(t) ==
  /\ pc[t] = "idle" /\ MayFree
  /\ \E ps \in SUBSET live, batch \in BOOLEAN :
       /\ Cardinality(ps) \in 1 .. (IF batch THEN MaxBatch ELSE 1)
       /\ todo' = [todo EXCEPT ![t] = IF batch /\ ~ready THEN {} ELSE ps]
       /\ live' = live \ ps
  /\ op' = [op EXCEPT ![t] = "free"]
  /\ Goto(t, "free")
  /\ UNCHANGED <<poolVars, slabVars, tries, want, searchVars, got, target, tmp>>

\* Mutant: the mask of fetch_and clears the object's whole word.
ClearedWord(s, b) == bits[s] \ WordOf(b \div WordBits)

Cleared(s, b) == bits[s] \ {b}

\* Clear the bit in the slab with the pointer's index, if that slab says its
\* region contains the address; otherwise the pointer is ignored.
ClearBit(t) ==
  /\ pc[t] = "free"
  /\ \E p \in todo[t] :
       /\ todo' = [todo EXCEPT ![t] = @ \ {p}]
       /\ IF region[p[1]] = p[1]
            THEN /\ bits' = [bits EXCEPT ![p[1]] = Cleared(p[1], p[2])]
                 /\ target' = [target EXCEPT ![t] = p[1]]
                 /\ Goto(t, "cleared")
            ELSE UNCHANGED <<bits, target, pc>>
  /\ UNCHANGED <<poolVars, ready, region, count, hint, live, callVars, searchVars,
                 got, tmp>>

\* allocated_count_-- reads ...
CountDownRead(t) ==
  /\ pc[t] = "cleared"
  /\ tmp' = [tmp EXCEPT ![t] = count[target[t]]]
  /\ Goto(t, "count_down")
  /\ UNCHANGED <<poolVars, slabVars, live, callVars, searchVars, got, freeVars>>

\* ... and writes, modulo 2^16.
CountDownWrite(t) ==
  /\ pc[t] = "count_down"
  /\ count' = [count EXCEPT ![target[t]] = (tmp[t] + CountMod - 1) % CountMod]
  /\ tmp' = [tmp EXCEPT ![t] = 0]
  /\ target' = [target EXCEPT ![t] = 0]
  /\ Goto(t, "free")
  /\ UNCHANGED <<poolVars, ready, region, bits, hint, live, callVars, searchVars,
                 got, todo>>

DeallocateReturns(t) ==
  /\ pc[t] = "free" /\ todo[t] = {}
  /\ Return(t)
  /\ UNCHANGED <<poolVars, slabVars, searchVars, freeVars, tmp>>

-----------------------------------------------------------------------------
(* initialize(): called once, by the thread that created the chunk.  A chunk *)
(* that grows a size class is in the class's list, open to every thread,     *)
(* before it is initialized (Shared); the first chunk of a class is created  *)
(* by the arena's constructor, before there are other threads.               *)

\* The CAS on initialized_ comes first: the group looks ready from here on.
InitPublish(t) ==
  /\ pc[t] = "init"
  /\ ready' = TRUE
  /\ tries' = [tries EXCEPT ![t] = 0]
  /\ Goto(t, "next")
  /\ UNCHANGED <<poolVars, region, bits, count, hint, live, op, want,
                 searchVars, got, freeVars, tmp>>

\* slab::initialize zeroes the bitmap, the hint and the count ...
InitClear(t) ==
  /\ pc[t] = "clear_slab"
  /\ bits' = [bits EXCEPT ![Held(t)] = {}]
  /\ hint' = [hint EXCEPT ![Held(t)] = 0]
  /\ count' = [count EXCEPT ![Held(t)] = 0]
  /\ Goto(t, "set_region")
  /\ UNCHANGED <<poolVars, ready, region, live, callVars, searchVars, got, freeVars, tmp>>

RegionAt(i) == i

\* ... and points it at region i, whichever slab the pool returned.
InitRegion(t) ==
  /\ pc[t] = "set_region"
  /\ region' = [region EXCEPT ![Held(t)] = RegionAt(tries[t])]
  /\ Goto(t, "init_release")
  /\ UNCHANGED <<poolVars, ready, bits, count, hint, live, callVars, searchVars, got,
                 freeVars, tmp>>

InitRelease(t) ==
  /\ pc[t] = "init_release"
  /\ Release(t, Held(t))
  /\ tries' = [tries EXCEPT ![t] = @ + 1]
  /\ Goto(t, "next")
  /\ UNCHANGED <<slabVars, live, op, want, searchVars, got, freeVars, tmp>>

-----------------------------------------------------------------------------
\* Nothing but the slabs' own state: common to the two initial conditions.
InitIdle ==
  /\ PoolInit
  /\ bits = [s \in Slots |-> {}]
  /\ count = [s \in Slots |-> 0]
  /\ hint = [s \in Slots |-> 0]
  /\ live = {}
  /\ tries = [t \in Threads |-> 0]
  /\ want = [t \in Threads |-> 1]
  /\ from = [t \in Threads |-> 0]
  /\ word = [t \in Threads |-> 0]
  /\ seen = [t \in Threads |-> {}]
  /\ bit = [t \in Threads |-> 0]
  /\ got = [t \in Threads |-> {}]
  /\ todo = [t \in Threads |-> {}]
  /\ target = [t \in Threads |-> 0]
  /\ tmp = [t \in Threads |-> 0]

\* A group whose initialize() ran before any other thread saw it.
ReadyInit ==
  /\ InitIdle
  /\ ready = TRUE
  /\ region = [s \in Slots |-> s]
  /\ pc = [t \in Threads |-> "idle"]
  /\ op = [t \in Threads |-> "none"]

\* A group that is published and that one thread is about to initialize.
FreshInit ==
  /\ InitIdle
  /\ ready = FALSE
  /\ region = [s \in Slots |-> NoRegion]
  /\ \E creator \in Threads :
       /\ pc = [t \in Threads |-> IF t = creator THEN "init" ELSE "idle"]
       /\ op = [t \in Threads |-> IF t = creator THEN "init" ELSE "none"]

Step(t) ==
  \/ Call(t) \/ CallRefused(t) \/ NextSlab(t) \/ LoopEnds(t) \/ Scan(t) \/ NoSlab(t)
  \/ CheckFull(t) \/ EnterSlab(t) \/ LoadWord(t) \/ ClaimBit(t)
  \/ CountUpRead(t) \/ CountUpWrite(t) \/ ReleaseSlab(t) \/ ReleaseLast(t)
  \/ Query(t)
  \/ CallDeallocate(t) \/ ClearBit(t) \/ CountDownRead(t) \/ CountDownWrite(t)
  \/ DeallocateReturns(t)
  \/ InitPublish(t) \/ InitClear(t) \/ InitRegion(t) \/ InitRelease(t)

Next == \E t \in Threads : Step(t)

\* The steps of a call in progress; a caller need not start another one.
Progress(t) == Step(t) /\ pc[t] # "idle"

Spec == ReadyInit /\ [][Next]_vars
FreshSpec == FreshInit /\ [][Next]_vars

\* The operating system runs every thread that is inside a call.
FairFreshSpec == FreshSpec /\ \A t \in Threads : WF_vars(Progress(t))

-----------------------------------------------------------------------------
SlabTypeOK ==
  /\ PoolTypeOK
  /\ ready \in BOOLEAN
  /\ region \in [Slots -> Slots \cup {NoRegion}]
  /\ bits \in [Slots -> SUBSET Objects]
  /\ count \in [Slots -> 0 .. CountMod - 1]
  /\ hint \in [Slots -> 0 .. Words - 1]
  /\ live \in SUBSET Pointers
  /\ pc \in [Threads -> Labels]
  /\ op \in [Threads -> Ops]
  /\ tries \in [Threads -> 0 .. N]
  /\ want \in [Threads -> 1 .. MaxBatch]
  /\ from \in [Threads -> 0 .. Words - 1]
  /\ word \in [Threads -> 0 .. Words]
  /\ seen \in [Threads -> SUBSET Objects]
  /\ bit \in [Threads -> Objects]
  /\ got \in [Threads -> SUBSET Pointers]
  /\ todo \in [Threads -> SUBSET Pointers]
  /\ target \in [Threads -> Slots]
  /\ tmp \in [Threads -> 0 .. CountMod - 1]

\* The object whose bit a thread has set and not yet turned into a pointer.
Pending(t) ==
  IF pc[t] = "claimed" \/ (pc[t] = "count_up" /\ op[t] = "allocate")
    THEN {Claimed(t)} ELSE {}

\* The pointers a call in progress is about to hand out or has yet to free.
InFlight(t) == got[t] \cup todo[t] \cup Pending(t)

\* An object is never handed to two owners: not to two calls in progress, not
\* twice by one call, and not while a caller still holds it.  It rests on the
\* CAS of slab::allocate alone, whatever the pool and the counts do.
NoDoubleHandout ==
  \A t \in Threads :
    /\ InFlight(t) \cap live = {}
    /\ Pending(t) \cap got[t] = {}
    /\ \A u \in Threads \ {t} : InFlight(t) \cap InFlight(u) = {}

\* A bit is set exactly while its object belongs to a caller or to a call in
\* progress: no object is lost, and none in use looks free.
BitsMatchOwners ==
  \A s \in Slots, b \in Objects :
    b \in bits[s] <=> \/ <<s, b>> \in live
                       \/ \E t \in Threads : <<s, b>> \in InFlight(t)

\* An initialized group is an object allocator whose free objects are those
\* with a zero bit: the CAS sets an object aside, a return hands out what the
\* call set aside, a deallocation takes the objects back and then frees them.
FreeObjects == {p \in Pointers : p[2] \notin bits[p[1]]}

Allocator == INSTANCE ObjectAllocator
               WITH Everything <- Pointers, free <- FreeObjects, held <- live

\* Every step of the group is a step of the allocator or leaves it alone: no
\* call hands out an object that is free or that a caller already holds, and
\* none frees an object before its owner gave it back.
ImplementsAllocator == Allocator!AllocSpec

\* Between calls a slab's count is the number of its one bits, as the comment
\* on allocated() says ("the number of regions allocated").
CountExact ==
  (\A t \in Threads : pc[t] = "idle") =>
    \A s \in Slots : count[s] = Cardinality(bits[s])

\* While one thread is between the claim of a bit and the release of its slab,
\* no other allocating thread is in that slab: the pool protects the counters
\* of a slab ("every thread can take a slab of its own").
HolderAlone ==
  \A t, u \in Threads :
    /\ t # u
    /\ pc[t] \in {"claimed", "count_up"}
    /\ pc[u] \in {"check_full", "enter", "load", "cas", "claimed", "count_up"}
    => slot[t] # slot[u]

\* Every call returns: the scans, the retried CAS and the loop over the slabs
\* all end once the thread is scheduled.
CallsReturn == \A t \in Threads : pc[t] # "idle" ~> pc[t] = "idle"
=============================================================================
