------------------------------ MODULE SizeClass ------------------------------
(***************************************************************************)
(* size_class and its chunks: a list of chunks that only grows, each chunk  *)
(* a region of the extent manager cut into objects by its slab group.       *)
(* allocate() tries the active chunk, then the first chunk of the list that *)
(* is not full, then a new one; allocate_batch() goes on until it has all   *)
(* its objects or cannot create a chunk; deallocate() walks the list for    *)
(* the chunk whose region contains the address.                             *)
(*                                                                          *)
(* A chunk is linked into the list before it is initialized, so that other  *)
(* threads come past chunks that have no region yet, and past chunks whose  *)
(* slab group claims to be initialized while it is being built.  A thread   *)
(* that enters such a group disturbs the construction: slabs are left out,  *)
(* or initialized twice, or missing so that the construction fails, as      *)
(* SlabGroup shows.  From then on the region is spoilt, and the model lets  *)
(* its chunk do anything: hand out any object, answer either way, fail.     *)
(*                                                                          *)
(* The list is the sequence of chunks 1 .. len, an append one step, as      *)
(* LockFreeList shows for emplace_back().  A call of an undisturbed slab    *)
(* group is one step on the set of its taken objects, as SlabGroup shows,   *)
(* and a deallocation two: the bit, then the count.  What is left of the    *)
(* races inside a group is that a call may miss what another thread has in  *)
(* its hands, and that the counts drift: an increment and a decrement that  *)
(* meet lose one of the two for good.                                       *)
(***************************************************************************)
EXTENDS Naturals, FiniteSets

CONSTANTS Threads,
          ChunkMaxCount,  \* the number of nodes of chunk_list_, too
          Regions,        \* the regions that the extent manager can hand out
          None,           \* no region: a null pointer
          RegionCount,    \* objects in a region
          MaxBatch,       \* largest n of the batch calls (bounds the model)
          Queries         \* which of "full" and "empty" the threads call

ASSUME SizeClassAssumption ==
  /\ ChunkMaxCount \in Nat \ {0}
  /\ None \notin Regions
  /\ RegionCount \in Nat \ {0}
  /\ MaxBatch \in Nat \ {0}
  /\ Queries \subseteq {"full", "empty"}

Chunks == 1 .. ChunkMaxCount
Objects == Regions \X (1 .. RegionCount)

VARIABLES extents,  \* the regions that the extent manager has
          len,      \* the number of chunks in chunk_list_
          flag,     \* initialized_ of each chunk
          base,     \* data_region_base_ of each chunk
          ready,    \* initialized_ of each chunk's slab group
          spoilt,   \* the regions that a disturbed construction has spoilt
          taken,    \* the objects whose bits are set, but for spoilt regions
          drift,    \* the chunks whose counts have drifted
          active,   \* active_chunk_, 0 for null
          count,    \* chunk_count_
          inited,   \* initialized_ of the size class
          live,     \* the objects in the callers' hands
          at,       \* where each thread is
          loc       \* the locals of each thread

chunkVars == <<extents, len, flag, base, ready>>
bitVars == <<spoilt, taken, drift>>
classVars == <<chunkVars, bitVars, active, count, inited, live, at, loc>>

Ops == {"none", "init", "allocate", "batch", "free", "full", "empty"}
Tries == {"active", "found", "new", "dry"}
Places == {"idle", "take", "ask", "many", "visit", "publish", "check", "extent", "emplace",
           "setFlag", "setBase", "group", "build", "giveBack", "count", "seek", "lower"}

\* op: the call; cur: the chunk under the cursor of find_if, or the one in use; try:
\* how it was found; want: n; got: ptrs; obj: the object
\* that is being freed; todo: those still to come; region: data_region.
Blank == [op |-> "none", cur |-> 0, try |-> "active", want |-> 0, got |-> {}, obj |-> {},
          todo |-> {}, region |-> None]

ClassTypeOK ==
  /\ extents \in SUBSET Regions
  /\ len \in 0 .. ChunkMaxCount
  /\ flag \in [Chunks -> BOOLEAN]
  /\ base \in [Chunks -> Regions \union {None}]
  /\ ready \in [Chunks -> BOOLEAN]
  /\ spoilt \in SUBSET Regions
  /\ taken \in SUBSET Objects
  /\ drift \in SUBSET Chunks
  /\ active \in 0 .. ChunkMaxCount
  /\ count \in 0 .. ChunkMaxCount
  /\ inited \in BOOLEAN
  /\ live \in SUBSET Objects
  /\ at \in [Threads -> Places]
  /\ loc \in [Threads -> [op : Ops, cur : 0 .. ChunkMaxCount + 1, try : Tries,
                          want : 0 .. MaxBatch, got : SUBSET Objects,
                          obj : SUBSET Objects, todo : SUBSET Objects,
                          region : Regions \union {None}]]

ClassInit ==
  /\ extents = Regions
  /\ len = 0
  /\ flag = [c \in Chunks |-> FALSE]
  /\ base = [c \in Chunks |-> None]
  /\ ready = [c \in Chunks |-> FALSE]
  /\ spoilt = {}
  /\ taken = {}
  /\ drift = {}
  /\ active = 0
  /\ count = 0
  /\ inited = FALSE
  /\ live = {}
  /\ at = [t \in Threads |-> "idle"]
  /\ loc = [t \in Threads |-> Blank]

-----------------------------------------------------------------------------
Go(t, place, l) ==
  /\ at' = [at EXCEPT ![t] = place]
  /\ loc' = [loc EXCEPT ![t] = l]

\* The call returns what it got to its caller.
Return(t, got) ==
  /\ Go(t, "idle", Blank)
  /\ live' = live \union got

Continue(t, place, l) == Go(t, place, l) /\ UNCHANGED live

\* chunk::contains(): the address is in the region.
Contains(c, o) == base[c] = o[1]

\* The objects that chunk c could hand out, and its correct answers.  A chunk whose slab
\* group is not initialized has none, and is neither full nor in use.
Room(c) == IF ready[c] THEN {o \in Objects : Contains(c, o)} \ taken ELSE {}
Empty(c) == ready[c] => \A o \in taken : ~Contains(c, o)

Full(c) == ready[c] /\ Room(c) = {}

\* Another thread is inside chunk c.
Shared(t, c) ==
  \E u \in Threads \ {t} : /\ loc[u].cur = c
                           /\ at[u] \in {"take", "ask", "many", "visit", "seek", "lower"}

\* The slab group of chunk c is being built.
HalfBuilt(c) == \E u \in Threads : at[u] = "build" /\ loc[u].cur = c

\* Nothing is known of what chunk c does.
Unsure(c) == ready[c] /\ (HalfBuilt(c) \/ base[c] \in spoilt)

\* Whoever enters a group that is being built spoils its region.
Enter(c) == spoilt' = IF Unsure(c) THEN spoilt \union {base[c]} ELSE spoilt

\* Another thread has cleared a bit of chunk c and not lowered the count yet.
Lowering(t, c) == \E u \in Threads \ {t} : at[u] = "lower" /\ loc[u].cur = c

\* full() or empty() of chunk c answers b.
Answers(t, c, right, b) == b = right \/ Shared(t, c) \/ Unsure(c) \/ c \in drift

\* The count of chunk c is changed, and is wrong from now on when another thread is
\* lowering it at the same time.
Recount(t, c) ==
  \/ UNCHANGED drift
  \/ Lowering(t, c) /\ ~Unsure(c) /\ drift' = drift \union {c}

\* The bits of the objects are set; those of spoilt regions are not followed.
SetBits(objs) == taken' = taken \union {o \in objs : o[1] \notin spoilt'}

-----------------------------------------------------------------------------
\* Every call returns at once, and changes nothing, while the class is not initialized.
\* initialize() is called by the arena's constructor, before there are other threads.
Initialize(t) ==
  /\ at[t] = "idle" /\ ~inited
  /\ \A u \in Threads : at[u] = "idle"
  /\ Continue(t, "check", [Blank EXCEPT !.op = "init", !.try = "new"])
  /\ UNCHANGED <<chunkVars, bitVars, active, count, inited>>

Allocate(t) ==
  /\ at[t] = "idle" /\ inited
  /\ Continue(t, "take", [Blank EXCEPT !.op = "allocate", !.cur = active])
  /\ UNCHANGED <<chunkVars, bitVars, active, count, inited>>

AllocateBatch(t) ==
  /\ at[t] = "idle" /\ inited
  /\ \E n \in 1 .. MaxBatch :
       Continue(t, "ask", [Blank EXCEPT !.op = "batch", !.cur = active, !.want = n])
  /\ UNCHANGED <<chunkVars, bitVars, active, count, inited>>

\* deallocate(p) or deallocate_batch(ps, n): the callers give back what they hold.  An
\* object of a spoilt region may have been handed out more than once, and is still held.
Deallocate(t) ==
  /\ at[t] = "idle" /\ inited
  /\ \E objs \in SUBSET live, o \in Objects :
       /\ Cardinality(objs) \in 1 .. MaxBatch /\ o \in objs
       /\ live' = live \ {p \in objs : p[1] \notin spoilt}
       /\ Go(t, "seek", [Blank EXCEPT !.op = "free", !.cur = 1, !.obj = {o}, !.todo = objs \ {o}])
  /\ UNCHANGED <<chunkVars, bitVars, active, count, inited>>

\* full() and empty() of the class change nothing, but walk the chunks.
Query(t) ==
  /\ at[t] = "idle" /\ inited
  /\ \E op \in Queries : Continue(t, "visit", [Blank EXCEPT !.op = op, !.cur = 1])
  /\ UNCHANGED <<chunkVars, bitVars, active, count, inited>>

-----------------------------------------------------------------------------
\* chunk::allocate() hands out an object.
TakeOne(t) ==
  /\ at[t] = "take"
  /\ Enter(loc[t].cur)
  /\ Recount(t, loc[t].cur)
  /\ \E o \in Room(loc[t].cur) :
       /\ SetBits({o})
       /\ IF loc[t].try = "found"
          THEN Continue(t, "publish", [loc[t] EXCEPT !.got = {o}])
          ELSE Return(t, {o})
  /\ UNCHANGED <<chunkVars, active, count, inited>>

\* It returns null, because there is nothing left, or because the count says so, or
\* because of other threads: the walk comes next, then a new chunk, then the caller.
TakeNone(t) ==
  /\ at[t] = "take"
  /\ LET c == loc[t].cur
     IN  Room(c) = {} \/ Shared(t, c) \/ Unsure(c) \/ c \in drift
  /\ Enter(loc[t].cur)
  /\ \/ /\ loc[t].try = "active"
        /\ Continue(t, "visit", [loc[t] EXCEPT !.cur = 1, !.try = "found"])
     \/ /\ loc[t].try = "found"
        /\ Continue(t, "check", [loc[t] EXCEPT !.cur = 0, !.try = "new"])
     \/ loc[t].try = "new" /\ Return(t, {})
  /\ UNCHANGED <<chunkVars, taken, drift, active, count, inited>>

\* allocate_batch() asks the active chunk whether it is full.
AskActive(t) ==
  /\ at[t] = "ask"
  /\ Enter(loc[t].cur)
  /\ \E full \in BOOLEAN :
       /\ Answers(t, loc[t].cur, Full(loc[t].cur), full)
       /\ IF full THEN Continue(t, "visit", [loc[t] EXCEPT !.cur = 1, !.try = "found"])
                  ELSE Continue(t, "many", loc[t])
  /\ UNCHANGED <<chunkVars, taken, drift, active, count, inited>>

\* chunk::allocate_batch() hands out as many objects as are missing and as it has.  It
\* goes by the bits alone, so that it misses none because of the count.
TakeMany(t) ==
  /\ at[t] = "many"
  /\ Enter(loc[t].cur)
  /\ LET me == loc[t]
         room == Room(me.cur)
         need == me.want - Cardinality(me.got)
         most == IF Cardinality(room) < need THEN Cardinality(room) ELSE need
     IN \E objs \in SUBSET room :
          /\ \/ Cardinality(objs) = most
             \/ Cardinality(objs) < most /\ (Shared(t, me.cur) \/ Unsure(me.cur))
          /\ SetBits(objs)
          /\ IF objs = {} THEN UNCHANGED drift ELSE Recount(t, me.cur)
          /\ LET now == [me EXCEPT !.got = @ \union objs]
                 done == Cardinality(now.got) = me.want
             IN \/ /\ me.try = "active" /\ done
                   /\ Return(t, now.got)
                \/ /\ \/ me.try = "found" /\ done
                      \/ me.try = "new"
                   /\ Continue(t, "publish",
                               [now EXCEPT !.try = IF objs = {} THEN "dry" ELSE @])
                \/ /\ me.try \in {"active", "found"} /\ ~done
                   /\ Continue(t, "visit", [now EXCEPT !.cur = 1, !.try = "found"])
  /\ UNCHANGED <<chunkVars, active, count, inited>>

\* find_if looks at a chunk of the list; the first that is not full (for empty(): not
\* empty) is the result.
VisitChunk(t) ==
  /\ at[t] = "visit" /\ loc[t].cur <= len
  /\ Enter(loc[t].cur)
  /\ LET c == loc[t].cur
     IN \E skip \in BOOLEAN :
          /\ Answers(t, c, IF loc[t].op = "empty" THEN Empty(c) ELSE Full(c), skip)
          /\ \/ skip /\ Continue(t, "visit", [loc[t] EXCEPT !.cur = @ + 1])
             \/ /\ ~skip /\ loc[t].op \in {"allocate", "batch"}
                /\ Continue(t, IF loc[t].op = "batch" THEN "many" ELSE "take", loc[t])
             \/ ~skip /\ loc[t].op \in Queries /\ Return(t, {})
  /\ UNCHANGED <<chunkVars, taken, drift, active, count, inited>>

\* find_if found no chunk: a new one is created, unless the call is a query.
VisitEnds(t) ==
  /\ at[t] = "visit" /\ loc[t].cur > len
  /\ IF loc[t].op \in Queries
     THEN Return(t, {})
     ELSE Continue(t, "check", [loc[t] EXCEPT !.cur = 0, !.try = "new"])
  /\ UNCHANGED <<chunkVars, bitVars, active, count, inited>>

\* The chunk becomes the active one, after a successful allocation from it, or because it
\* is new; allocate() takes its object from a new chunk only then.
Publish(t) ==
  /\ at[t] = "publish"
  /\ active' = loc[t].cur
  /\ inited' = TRUE
  /\ LET me == loc[t] IN
       \/ me.op = "init" /\ Return(t, {})
       \/ me.op = "allocate" /\ me.try = "found" /\ Return(t, me.got)
       \/ me.op = "allocate" /\ me.try = "new" /\ Continue(t, "take", me)
       \/ me.op = "batch" /\ \/ me.try \in {"found", "dry"}
                             \/ Cardinality(me.got) = me.want
          /\ Return(t, me.got)
       \/ /\ me.op = "batch" /\ me.try = "new" /\ Cardinality(me.got) < me.want
          /\ Continue(t, "check", [me EXCEPT !.cur = 0])
  /\ UNCHANGED <<chunkVars, bitVars, count>>

-----------------------------------------------------------------------------
\* create_new_chunk() gives up, and with it the call: null, or what the batch has got.
NoChunk(t) == Return(t, loc[t].got)

CheckCount(t) ==
  /\ at[t] = "check"
  /\ IF count >= ChunkMaxCount THEN NoChunk(t) ELSE Continue(t, "extent", loc[t])
  /\ UNCHANGED <<chunkVars, bitVars, active, count, inited>>

\* The extent manager hands out a region (which one makes no difference), or has none.
AllocateRegion(t) ==
  /\ at[t] = "extent"
  /\ IF extents # {}
     THEN LET r == CHOOSE r \in extents : TRUE
          IN /\ extents' = extents \ {r}
             /\ Continue(t, "emplace", [loc[t] EXCEPT !.region = r])
     ELSE NoChunk(t) /\ UNCHANGED extents
  /\ UNCHANGED <<len, flag, base, ready, bitVars, active, count, inited>>

\* Mutant: the chunk becomes the active one before it is initialized.
EmplaceActivating(t) ==
  /\ at[t] = "emplace"
  /\ len < ChunkMaxCount
  /\ len' = len + 1
  /\ active' = len'
  /\ Continue(t, "setFlag", [loc[t] EXCEPT !.cur = len'])
  /\ UNCHANGED <<extents, flag, base, ready, bitVars, count, inited>>

\* emplace_back() links a chunk that is not initialized.
Emplace(t) ==
  /\ at[t] = "emplace"
  /\ len < ChunkMaxCount
  /\ len' = len + 1
  /\ Continue(t, "setFlag", [loc[t] EXCEPT !.cur = len'])
  /\ UNCHANGED <<extents, flag, base, ready, bitVars, active, count, inited>>

\* Mutant: the region is not given back.
EmplaceLeaks(t) ==
  /\ at[t] = "emplace"
  /\ len = ChunkMaxCount
  /\ NoChunk(t)
  /\ UNCHANGED <<chunkVars, bitVars, active, count, inited>>

\* The list has no node left, because other threads passed the check of the count as
\* well, or its retries are used up: the region goes back.
EmplaceFails(t) ==
  /\ at[t] = "emplace"
  /\ len = ChunkMaxCount \/ \E u \in Threads \ {t} : at[u] = "emplace"
  /\ extents' = extents \union {loc[t].region}
  /\ NoChunk(t)
  /\ UNCHANGED <<len, flag, base, ready, bitVars, active, count, inited>>

\* chunk::initialize(): the flag first ...
SetFlag(t) ==
  /\ at[t] = "setFlag"
  /\ flag' = [flag EXCEPT ![loc[t].cur] = TRUE]
  /\ Continue(t, "setBase", loc[t])
  /\ UNCHANGED <<extents, len, base, ready, bitVars, active, count, inited>>

\* ... then the region ...
SetBase(t) ==
  /\ at[t] = "setBase"
  /\ base' = [base EXCEPT ![loc[t].cur] = loc[t].region]
  /\ Continue(t, "group", loc[t])
  /\ UNCHANGED <<extents, len, flag, ready, bitVars, active, count, inited>>

\* ... and then the slab group, which claims to be initialized ...
InitGroup(t) ==
  /\ at[t] = "group"
  /\ ready' = [ready EXCEPT ![loc[t].cur] = TRUE]
  /\ Continue(t, "build", loc[t])
  /\ UNCHANGED <<extents, len, flag, base, bitVars, active, count, inited>>

\* ... before its slabs are acquired, cleared and released one after another.
BuildGroup(t) ==
  /\ at[t] = "build"
  /\ taken' = {o \in taken : ~Contains(loc[t].cur, o)}
  /\ Continue(t, "count", [loc[t] EXCEPT !.region = None])
  /\ UNCHANGED <<chunkVars, spoilt, drift, active, count, inited>>

\* No slab can be acquired, because of others in the group: the chunk stays in the list,
\* uninitialized, with its base ...
BuildFails(t) ==
  /\ at[t] = "build"
  /\ base[loc[t].cur] \in spoilt
  /\ ready' = [ready EXCEPT ![loc[t].cur] = FALSE]
  /\ flag' = [flag EXCEPT ![loc[t].cur] = FALSE]
  /\ Continue(t, "giveBack", loc[t])
  /\ UNCHANGED <<extents, len, base, bitVars, active, count, inited>>

\* ... and the region goes back.
GiveBack(t) ==
  /\ at[t] = "giveBack"
  /\ extents' = extents \union {loc[t].region}
  /\ NoChunk(t)
  /\ UNCHANGED <<len, flag, base, ready, bitVars, active, count, inited>>

\* Mutant: the count is left alone.
NoMore(n) == n

OneMore(n) == n + 1

\* chunk_count_ follows, and the call goes on with its new chunk.
CountChunk(t) ==
  /\ at[t] = "count"
  /\ count' = OneMore(count)
  /\ Continue(t, IF loc[t].op = "batch" THEN "many" ELSE "publish", loc[t])
  /\ UNCHANGED <<chunkVars, bitVars, active, inited>>

CreateChunk(t) ==
  \/ CheckCount(t) \/ AllocateRegion(t) \/ Emplace(t) \/ EmplaceFails(t)
  \/ SetFlag(t) \/ SetBase(t) \/ InitGroup(t) \/ BuildGroup(t) \/ BuildFails(t)
  \/ GiveBack(t) \/ CountChunk(t)

-----------------------------------------------------------------------------
\* Mutant: chunk::deallocate clears the neighbour's bit too.
ClearTwo(o) == {o, <<o[1], (o[2] % RegionCount) + 1>>}

Clear(o) == {o}

\* Mutant: the search for the next object goes on where the last one was found.
RestartAt(c) == c

Restart(c) == 1

\* deallocate_batch() goes on with its next object, from the first chunk on, or returns.
NextObject(t) ==
  \/ \E p \in loc[t].todo :
       Continue(t, "seek", [loc[t] EXCEPT !.cur = Restart(@), !.obj = {p}, !.todo = @ \ {p}])
  \/ loc[t].todo = {} /\ Return(t, {})

\* deallocate() looks for the chunk of an object.  An object that no chunk contains is
\* dropped; a chunk that is not initialized drops it.
Seek(t) ==
  /\ at[t] = "seek"
  /\ \E o \in loc[t].obj :
       LET c == loc[t].cur
       IN \/ /\ c <= len /\ ~Contains(c, o)
             /\ Continue(t, "seek", [loc[t] EXCEPT !.cur = c + 1])
             /\ UNCHANGED taken
          \/ /\ c <= len /\ Contains(c, o) /\ flag[c] /\ ready[c]
             /\ taken' = taken \ Clear(o)
             /\ Continue(t, "lower", [loc[t] EXCEPT !.obj = {}])
          \/ /\ c > len \/ (Contains(c, o) /\ ~(flag[c] /\ ready[c]))
             /\ NextObject(t)
             /\ UNCHANGED taken
  /\ UNCHANGED <<chunkVars, spoilt, drift, active, count, inited>>

\* The bit is clear, and the count of the slab is decremented.
Lower(t) ==
  /\ at[t] = "lower"
  /\ Recount(t, loc[t].cur)
  /\ NextObject(t)
  /\ UNCHANGED <<chunkVars, spoilt, taken, active, count, inited>>

ClassStep(t) ==
  \/ TakeOne(t) \/ TakeNone(t) \/ AskActive(t) \/ TakeMany(t)
  \/ VisitChunk(t) \/ VisitEnds(t) \/ Publish(t) \/ CreateChunk(t)
  \/ Seek(t) \/ Lower(t)

ClassNext ==
  \E t \in Threads : \/ Initialize(t) \/ Allocate(t) \/ AllocateBatch(t) \/ Deallocate(t)
                     \/ Query(t) \/ ClassStep(t)

ClassSpec == ClassInit /\ [][ClassNext]_classVars

-----------------------------------------------------------------------------
\* The threads whose create_new_chunk() holds a region that is in no chunk, those whose
\* chunk is in the list but not counted, and the chunks whose initialization has failed.
Carrying(t) == at[t] \in {"emplace", "setFlag", "setBase", "giveBack"}
Uncounted == {t \in Threads : at[t] \in {"setFlag", "setBase", "group", "build", "count"}}
Failed(c) == base[c] # None /\ ~flag[c]

\* Each region is with the extent manager, or with one thread that creates a chunk, or
\* in one initialized chunk, whatever check of the count the threads pass together and
\* wherever the creation of a chunk fails: none is lost, and no two initialized chunks
\* cut objects out of the same one.
RegionsAccounted ==
  LET inChunk == {base[c] : c \in {d \in Chunks : flag[d]}} \ {None}
      carried == {loc[t].region : t \in {u \in Threads : Carrying(u)}}
  IN  /\ Regions = extents \union inChunk \union carried
      /\ inChunk \intersect extents = {}
      /\ carried \intersect (extents \union inChunk) = {}
      /\ \A c, d \in Chunks : flag[c] /\ flag[d] /\ base[c] = base[d] /\ base[c] # None => c = d
      /\ \A t, u \in Threads : Carrying(t) /\ Carrying(u) /\ loc[t].region = loc[u].region => t = u

\* chunk_count_ is the number of chunks in the list but for those under construction and
\* those that failed; so it never passes ChunkMaxCount, though it is checked long before
\* it is incremented, and each failure costs a chunk for good.
CountBehindList ==
  count + Cardinality(Uncounted) + Cardinality({c \in Chunks : Failed(c)}) = len

\* A deallocation finds a chunk for its object: the walk is never past it.  Unless the
\* region is spoilt, that chunk and its slab group take the object back.
FreeFindsChunk ==
  \A t \in Threads : at[t] = "seek" =>
    \A o \in loc[t].obj :
      \E c \in loc[t].cur .. len :
        /\ Contains(c, o)
        /\ o[1] \notin spoilt => flag[c] /\ ready[c] /\ ~HalfBuilt(c)

\* The active chunk is finished, unless its construction was disturbed: a thread that
\* comes to a half-built group may publish it as the active chunk.
ActiveReady ==
  inited => /\ active # 0
            /\ base[active] # None
            /\ base[active] \notin spoilt => flag[active] /\ ready[active] /\ ~HalfBuilt(active)

\* The class is an object allocator for the regions whose construction was not disturbed:
\* no object is handed out that is in a caller's hands or in those of another call, none
\* becomes free before it is given back.
Sound == {o \in Objects : o[1] \notin spoilt}

Allocator == INSTANCE ObjectAllocator
               WITH Everything <- Objects, free <- Sound \ taken, held <- Sound \intersect live

ImplementsAllocator == Allocator!AllocSpec

\* A call that runs alone returns.
Alone(t) == at[t] # "idle" /\ \A u \in Threads \ {t} : at[u] = "idle"

CallsReturnAlone == \A t \in Threads : []<>~Alone(t)
=============================================================================
