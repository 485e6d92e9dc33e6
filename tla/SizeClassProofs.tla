--------------------------- MODULE SizeClassProofs ---------------------------
(***************************************************************************)
(* A size class loses no region, finds the chunk of whatever is given back, *)
(* publishes no undisturbed chunk that is not finished, counts its chunks   *)
(* exactly, and is an object allocator for the regions whose construction   *)
(* was not disturbed: for any number of threads, chunks, regions and        *)
(* objects, and whichever constructions are disturbed or fail.  What full() *)
(* answers plays no part in the argument.                                   *)
(***************************************************************************)
EXTENDS SizeClass, TLAPS, FiniteSetTheorems

\* The types that the argument needs; chunk_count_ and the drift of the counts play no part.
Locals == [op : Ops, cur : 0 .. ChunkMaxCount + 1, try : Tries, want : 0 .. MaxBatch,
           got : SUBSET Objects, obj : SUBSET Objects, todo : SUBSET Objects,
           region : Regions \union {None}]

Types ==
  /\ extents \in SUBSET Regions
  /\ len \in 0 .. ChunkMaxCount
  /\ flag \in [Chunks -> BOOLEAN]
  /\ base \in [Chunks -> Regions \union {None}]
  /\ ready \in [Chunks -> BOOLEAN]
  /\ spoilt \in SUBSET Regions
  /\ taken \in SUBSET Objects
  /\ active \in 0 .. ChunkMaxCount
  /\ inited \in BOOLEAN
  /\ live \in SUBSET Objects
  /\ at \in [Threads -> Places]
  /\ loc \in [Threads -> Locals]

Building(t) == at[t] \in {"setFlag", "setBase", "group", "build", "count"}
Creating(t) == at[t] \in {"check", "extent", "emplace", "giveBack"} \/ Building(t)

\* The slab group of a chunk claims to be initialized; it is; its construction has failed.
Claimed(c) == flag[c] /\ base[c] # None /\ ready[c]
Built(c)   == flag[c] /\ ready[c] /\ ~HalfBuilt(c)
Dead(c)    == Failed(c) /\ ~ready[c] /\ base[c] \in spoilt

\* A chunk with a region, which is built unless its construction was disturbed.
Fit(c) == base[c] # None /\ (base[c] \notin spoilt => Built(c))

\* How far a chunk is, by the place of its creator.
Stage(t, c) ==
  /\ at[t] = "setFlag" => ~flag[c] /\ base[c] = None /\ ~ready[c]
  /\ at[t] = "setBase" => flag[c] /\ base[c] = None /\ ~ready[c]
  /\ at[t] = "group" => flag[c] /\ base[c] = loc[t].region /\ ~ready[c]
  /\ at[t] = "build" => Claimed(c) /\ base[c] = loc[t].region
  /\ at[t] = "count" => Claimed(c)

\* A chunk of the list is finished, or has failed, or has one creator; beyond the list
\* there is nothing.
Construction ==
  /\ \A t \in Threads : Building(t) => loc[t].cur \in 1 .. len /\ Stage(t, loc[t].cur)
  /\ \A t, u \in Threads : t # u /\ Building(t) /\ Building(u) => loc[t].cur # loc[u].cur
  /\ \A c \in Chunks : c > len => ~flag[c] /\ base[c] = None /\ ~ready[c]
  /\ \A c \in 1 .. len : \/ Claimed(c) \/ Dead(c)
                         \/ \E t \in Threads : Building(t) /\ loc[t].cur = c

\* RegionsAccounted, with its sets spelled out.
Regional ==
  /\ \A t \in Threads : Carrying(t) => loc[t].region \in Regions \ extents
  /\ \A t \in Threads : at[t] \in {"group", "build"} => loc[t].region \in Regions
  /\ \A t, u \in Threads : t # u /\ Carrying(t) /\ Carrying(u) => loc[t].region # loc[u].region
  /\ \A t \in Threads, c \in Chunks : Carrying(t) /\ flag[c] => base[c] # loc[t].region
  /\ \A c \in Chunks : flag[c] => base[c] \notin extents
  /\ \A c, d \in Chunks : flag[c] /\ flag[d] /\ base[c] = base[d] /\ base[c] # None => c = d
  /\ \A r \in Regions : \/ r \in extents
                        \/ \E c \in Chunks : flag[c] /\ base[c] = r
                        \/ \E t \in Threads : Carrying(t) /\ loc[t].region = r

\* The chunk that has room or is going to be published is in the list, and fit for it; a
\* batch that is still on its way is not complete, so that what completes it comes from a
\* chunk that has objects.
Cursor(t) ==
  LET me == loc[t]
  IN  /\ at[t] \in {"take", "ask", "many", "publish"} => me.cur \in 1 .. len
      /\ at[t] \in {"visit", "seek"} => me.cur \in 1 .. len + 1
      /\ at[t] = "publish" \/ (at[t] = "many" /\ me.try = "new") => Fit(me.cur)
      /\ Creating(t) => me.try = "new"
      /\ at[t] = "visit" /\ me.op = "batch" => me.try = "found"
      /\ at[t] = "ask" => me.try = "active"
      /\ at[t] = "take" => me.op # "batch"
      /\ \/ at[t] = "ask" \/ (at[t] = "many" /\ me.try # "new")
         \/ (at[t] = "visit" /\ me.op = "batch")
         => Cardinality(me.got) # me.want

Holds(c, o) == Contains(c, o) /\ Fit(c)
Placed(o) == \E c \in 1 .. len : Holds(c, o)

\* The objects a call has taken and not returned, or was given back and has not freed.
InHand(t) == loc[t].got \union loc[t].obj \union loc[t].todo

\* Every object outside has its place; those of sound regions are taken, and have at most
\* one owner.
Owners ==
  /\ taken \subseteq Sound
  /\ \A o \in taken \union live : Placed(o)
  /\ live \intersect Sound \subseteq taken
  /\ \A t \in Threads : /\ \A o \in InHand(t) : Placed(o)
                        /\ InHand(t) \intersect Sound \subseteq taken
                        /\ InHand(t) \intersect Sound \intersect live = {}
  /\ \A t, u \in Threads : t # u => InHand(t) \intersect InHand(u) \intersect Sound = {}

\* deallocate() has one object in its hands, whose chunk is not behind the cursor; once the
\* bit is cleared, only those still to come.
Seeking(t) ==
  IF at[t] = "seek"
  THEN \E o \in Objects : /\ loc[t].obj = {o} /\ o \notin loc[t].todo /\ loc[t].got = {}
                          /\ \E c \in loc[t].cur .. len : Holds(c, o)
  ELSE /\ loc[t].obj = {} /\ (at[t] = "lower" \/ loc[t].todo = {})
       /\ at[t] = "lower" => loc[t].got = {}

ClassInv ==
  /\ Types
  /\ Construction
  /\ Regional
  /\ ActiveReady /\ (inited => active \in 1 .. len)
  /\ \A t \in Threads : Cursor(t) /\ Seeking(t)
  /\ Owners

-----------------------------------------------------------------------------
CallStep(t) ==
  Initialize(t) \/ Allocate(t) \/ AllocateBatch(t) \/ Deallocate(t) \/ Query(t)

Acts(t) == CallStep(t) \/ ClassStep(t)

\* The other threads stay where they are.
OthersKeep(t) == \A u \in Threads \ {t} : at'[u] = at[u] /\ loc'[u] = loc[u]

\* What a step never takes back from the chunks of the list.
Grows ==
  /\ len <= len'
  /\ \A c \in Chunks : base[c] # None =>
       /\ base'[c] = base[c]
       /\ Built(c) /\ base[c] \notin spoilt' => Built(c)'

\* A region stays spoilt, and none becomes so from which objects have been handed out.
Spoiling ==
  /\ spoilt \subseteq spoilt'
  /\ \A o \in Sound : Placed(o) => o \in Sound'

\* A chunk whose slab group claims to be initialized is in the list, with its region.
LEMMA ReadyClaimed ==
  ASSUME Types, Construction, NEW c \in Chunks, ready[c]
  PROVE  c \in 1 .. len /\ Claimed(c)
<1>1. c \in 1 .. len
  BY SizeClassAssumption DEF Types, Construction, Chunks
<1>2. Claimed(c) \/ Dead(c) \/ \E t \in Threads : Building(t) /\ loc[t].cur = c
  BY <1>1 DEF Construction
<1>3. ASSUME NEW t \in Threads, Building(t), loc[t].cur = c PROVE Claimed(c)
  BY <1>3 DEF Construction, Stage, Building
<1> QED BY <1>1, <1>2, <1>3 DEF Dead

\* A chunk with a sound region has not failed.
LEMMA SoundFlagged ==
  ASSUME Types, Construction, NEW c \in Chunks, base[c] # None, base[c] \notin spoilt
  PROVE  flag[c]
<1>1. c \in 1 .. len
  BY SizeClassAssumption DEF Types, Construction, Chunks
<1>2. Claimed(c) \/ Dead(c) \/ \E t \in Threads : Building(t) /\ loc[t].cur = c
  BY <1>1 DEF Construction
<1>3. ASSUME NEW t \in Threads, Building(t), loc[t].cur = c PROVE flag[c]
  BY <1>3 DEF Construction, Stage, Building, Claimed
<1> QED BY <1>2, <1>3 DEF Dead, Claimed

LEMMA OneSoundChunk ==
  ASSUME Types, Construction, Regional, NEW c \in Chunks, NEW d \in Chunks,
         base[c] = base[d], base[c] # None, base[c] \notin spoilt
  PROVE  c = d
BY SoundFlagged DEF Regional

\* A chunk that is half built is in the list, and claims to be finished.
LEMMA HalfBuiltClaims ==
  ASSUME Types, Construction, NEW c, HalfBuilt(c)
  PROVE  c \in 1 .. len /\ c \in Chunks /\ Claimed(c)
<1>1. PICK t \in Threads : at[t] = "build" /\ loc[t].cur = c
  BY DEF HalfBuilt
<1>2. c \in 1 .. len /\ Claimed(c)
  BY <1>1 DEF Construction, Building, Stage
<1> QED BY <1>2, SizeClassAssumption DEF Types, Chunks

\* Whoever enters a chunk that is being built finds no object of it in anyone's hands.
LEMMA EnterSpoils ==
  ASSUME ClassInv, NEW c \in Chunks, Enter(c)
  PROVE  Spoiling /\ spoilt' \in SUBSET Regions
<1> USE DEF ClassInv
<1>1. CASE ~Unsure(c)
  <2>1. spoilt' = spoilt BY <1>1 DEF Enter
  <2> QED BY <2>1 DEF Spoiling, Sound, Types
<1>2. CASE Unsure(c)
  <2>1. spoilt' = spoilt \union {base[c]} BY <1>2 DEF Enter
  <2>2. Claimed(c) /\ base[c] \in Regions
    BY <1>2, ReadyClaimed DEF Unsure, Claimed, Types
  <2>3. ASSUME NEW o \in Sound, Placed(o), o[1] = base[c] PROVE FALSE
    <3>1. PICK d \in 1 .. len : Holds(d, o) BY <2>3 DEF Placed
    <3>2. d \in Chunks /\ base[d] = base[c] /\ base[c] \notin spoilt
      BY <2>3, <3>1, SizeClassAssumption DEF Types, Chunks, Holds, Contains, Sound
    <3>3. d = c BY <2>2, <3>2, OneSoundChunk DEF Claimed
    <3>4. Built(c) BY <3>1, <3>2, <3>3 DEF Holds, Fit
    <3> QED BY <1>2, <3>2, <3>4 DEF Unsure, Built
  <2> QED BY <2>1, <2>2, <2>3 DEF Spoiling, Sound, Types
<1> QED BY <1>1, <1>2

LEMMA StepSpoils ==
  ASSUME ClassInv, NEW t \in Threads, Acts(t)
  PROVE  Spoiling /\ spoilt' \in SUBSET Regions
<1>1. CASE UNCHANGED spoilt
  BY <1>1 DEF Spoiling, Sound, ClassInv, Types
<1>2. CASE TakeOne(t) \/ TakeNone(t) \/ AskActive(t) \/ TakeMany(t) \/ VisitChunk(t)
  <2>1. at[t] \in {"take", "ask", "many"} \/ (at[t] = "visit" /\ loc[t].cur <= len)
    BY <1>2 DEF TakeOne, TakeNone, AskActive, TakeMany, VisitChunk
  <2>2. loc[t].cur \in Chunks
    BY <2>1, SizeClassAssumption DEF ClassInv, Cursor, Types, Chunks
  <2>3. Enter(loc[t].cur)
    BY <1>2 DEF TakeOne, TakeNone, AskActive, TakeMany, VisitChunk
  <2> QED BY <2>2, <2>3, EnterSpoils
<1>3. CASE CallStep(t)
  BY <1>1, <1>3 DEF CallStep, Initialize, Allocate, AllocateBatch, Deallocate, Query, bitVars
<1>4. CASE VisitEnds(t) \/ Publish(t) \/ Seek(t) \/ Lower(t)
  BY <1>1, <1>4 DEF VisitEnds, Publish, Seek, Lower, bitVars
<1>5. CASE CreateChunk(t)
  BY <1>1, <1>5 DEF CreateChunk, CheckCount, AllocateRegion, Emplace, EmplaceFails, SetFlag,
     SetBase, InitGroup, BuildGroup, BuildFails, GiveBack, CountChunk, bitVars
<1> QED BY <1>2, <1>3, <1>4, <1>5 DEF Acts, ClassStep

LEMMA Moves ==
  ASSUME Types, NEW t \in Threads, NEW p, NEW l, Go(t, p, l)
  PROVE  at'[t] = p /\ loc'[t] = l /\ OthersKeep(t)
BY DEF Types, Go, OthersKeep

LEMMA MovesTyped ==
  ASSUME Types, NEW t \in Threads, NEW p \in Places, NEW l \in Locals, Go(t, p, l)
  PROVE  at' \in [Threads -> Places] /\ loc' \in [Threads -> Locals]
BY DEF Types, Go

\* The locals keep their type when fields are updated, first of all one field.
LEMMA FieldTyped ==
  ASSUME NEW l \in Locals
  PROVE  /\ \A op \in Ops : [l EXCEPT !.op = op] \in Locals
         /\ \A c \in 0 .. ChunkMaxCount + 1 : [l EXCEPT !.cur = c] \in Locals
         /\ \A try \in Tries : [l EXCEPT !.try = try] \in Locals
         /\ \A n \in 0 .. MaxBatch : [l EXCEPT !.want = n] \in Locals
         /\ \A objs \in SUBSET Objects : [l EXCEPT !.got = objs] \in Locals
         /\ \A objs \in SUBSET Objects : [l EXCEPT !.obj = objs] \in Locals
         /\ \A objs \in SUBSET Objects : [l EXCEPT !.todo = objs] \in Locals
         /\ \A r \in Regions \union {None} : [l EXCEPT !.region = r] \in Locals
<1>1. ASSUME NEW op \in Ops PROVE [l EXCEPT !.op = op] \in Locals
  BY DEF Locals
<1>2. ASSUME NEW c \in 0 .. ChunkMaxCount + 1 PROVE [l EXCEPT !.cur = c] \in Locals
  BY DEF Locals
<1>3. ASSUME NEW try \in Tries PROVE [l EXCEPT !.try = try] \in Locals
  BY DEF Locals
<1>4. ASSUME NEW n \in 0 .. MaxBatch PROVE [l EXCEPT !.want = n] \in Locals
  BY DEF Locals
<1>5. ASSUME NEW objs \in SUBSET Objects
      PROVE  /\ [l EXCEPT !.got = objs] \in Locals
             /\ [l EXCEPT !.obj = objs] \in Locals
             /\ [l EXCEPT !.todo = objs] \in Locals
  BY DEF Locals
<1>6. ASSUME NEW r \in Regions \union {None} PROVE [l EXCEPT !.region = r] \in Locals
  BY DEF Locals
<1> QED BY ONLY <1>1, <1>2, <1>3, <1>4, <1>5, <1>6

LEMMA BlankTyped ==
  /\ Blank \in Locals
  /\ [Blank EXCEPT !.op = "init", !.try = "new"] \in Locals
  /\ \A c \in 0 .. ChunkMaxCount + 1, op \in Ops :
       [Blank EXCEPT !.op = op, !.cur = c] \in Locals
  /\ \A c \in 0 .. ChunkMaxCount + 1, n \in 0 .. MaxBatch :
       [Blank EXCEPT !.op = "batch", !.cur = c, !.want = n] \in Locals
  /\ \A objs, more \in SUBSET Objects :
       [Blank EXCEPT !.op = "free", !.cur = 1, !.obj = objs, !.todo = more] \in Locals
<1>1. Blank \in Locals
  BY SizeClassAssumption DEF Blank, Locals, Ops, Tries
<1>2. /\ {"init", "batch", "free"} \subseteq Ops /\ "new" \in Tries
      /\ 1 \in 0 .. ChunkMaxCount + 1
  BY SizeClassAssumption DEF Ops, Tries
<1>3. \A op \in Ops : [Blank EXCEPT !.op = op] \in Locals
  BY <1>1, FieldTyped, Zenon
<1>4. [[Blank EXCEPT !.op = "init"] EXCEPT !.try = "new"] \in Locals
  BY <1>2, <1>3, FieldTyped, Zenon
<1>5. \A c \in 0 .. ChunkMaxCount + 1, op \in Ops :
        [[Blank EXCEPT !.op = op] EXCEPT !.cur = c] \in Locals
  BY <1>3, FieldTyped, Zenon
<1>6. \A c \in 0 .. ChunkMaxCount + 1, n \in 0 .. MaxBatch :
        [[[Blank EXCEPT !.op = "batch"] EXCEPT !.cur = c] EXCEPT !.want = n] \in Locals
  BY <1>2, <1>5, FieldTyped, Zenon
<1>7. \A objs \in SUBSET Objects :
        [[[Blank EXCEPT !.op = "free"] EXCEPT !.cur = 1] EXCEPT !.obj = objs] \in Locals
  BY <1>2, <1>5, FieldTyped, Zenon
<1>8. \A objs, more \in SUBSET Objects :
        [[[[Blank EXCEPT !.op = "free"] EXCEPT !.cur = 1] EXCEPT !.obj = objs]
           EXCEPT !.todo = more] \in Locals
  BY <1>7, FieldTyped, Zenon
<1> QED BY ONLY <1>1, <1>4, <1>5, <1>6, <1>8

LEMMA LocalsTyped ==
  ASSUME NEW l \in Locals
  PROVE  /\ [l EXCEPT !.cur = 1, !.try = "found"] \in Locals
         /\ [l EXCEPT !.cur = 0, !.try = "new"] \in Locals
         /\ \A objs \in SUBSET Objects, try \in Tries :
              [[l EXCEPT !.got = @ \union objs] EXCEPT !.try = try] \in Locals
         /\ \A objs \in SUBSET Objects :
              [[l EXCEPT !.got = @ \union objs] EXCEPT !.cur = 1, !.try = "found"] \in Locals
         /\ \A p \in Objects : [l EXCEPT !.cur = 1, !.obj = {p}, !.todo = @ \ {p}] \in Locals
<1>1. {"found", "new"} \subseteq Tries /\ {0, 1} \subseteq 0 .. ChunkMaxCount + 1
  BY SizeClassAssumption DEF Tries
<1>2. [l EXCEPT !.cur = 1] \in Locals /\ [l EXCEPT !.cur = 0] \in Locals
  BY <1>1, FieldTyped, Zenon
<1>3. /\ [[l EXCEPT !.cur = 1] EXCEPT !.try = "found"] \in Locals
      /\ [[l EXCEPT !.cur = 0] EXCEPT !.try = "new"] \in Locals
  BY <1>1, <1>2, FieldTyped, Zenon
<1>4. ASSUME NEW objs \in SUBSET Objects
      PROVE  [l EXCEPT !.got = @ \union objs] \in Locals
  BY DEF Locals
<1>5. \A objs \in SUBSET Objects, try \in Tries :
        [[l EXCEPT !.got = @ \union objs] EXCEPT !.try = try] \in Locals
  BY <1>4, FieldTyped, Zenon
<1>6. \A objs \in SUBSET Objects :
        [[[l EXCEPT !.got = @ \union objs] EXCEPT !.cur = 1] EXCEPT !.try = "found"] \in Locals
  <2>1. \A objs \in SUBSET Objects :
          [[l EXCEPT !.got = @ \union objs] EXCEPT !.cur = 1] \in Locals
    BY <1>1, <1>4, FieldTyped, Zenon
  <2> QED BY <1>1, <2>1, FieldTyped, Zenon
<1>7. ASSUME NEW p \in Objects
      PROVE  [l EXCEPT !.cur = 1, !.obj = {p}, !.todo = @ \ {p}] \in Locals
  <2>1. [[l EXCEPT !.cur = 1] EXCEPT !.obj = {p}] \in Locals BY <1>2 DEF Locals
  <2>2. [[[l EXCEPT !.cur = 1] EXCEPT !.obj = {p}] EXCEPT !.todo = @ \ {p}] \in Locals
    BY <2>1 DEF Locals
  <2> QED BY ONLY <2>2
<1> QED BY ONLY <1>3, <1>5, <1>6, <1>7

LEMMA ReturnTyped ==
  ASSUME Types, NEW t \in Threads, NEW got \in SUBSET Objects, Return(t, got)
  PROVE  /\ at' \in [Threads -> Places] /\ loc' \in [Threads -> Locals]
         /\ live' \in SUBSET Objects
<1>1. "idle" \in Places BY DEF Places
<1>2. Blank \in Locals BY SizeClassAssumption DEF Blank, Locals, Ops, Tries
<1> QED BY <1>1, <1>2, MovesTyped DEF Return, Types

\* The next object of a batch, or the end of the call.
LEMMA NextTyped ==
  ASSUME Types, NEW t \in Threads, NextObject(t)
  PROVE  /\ at' \in [Threads -> Places] /\ loc' \in [Threads -> Locals]
         /\ live' \in SUBSET Objects
<1>a. loc[t] \in Locals /\ live \in SUBSET Objects BY DEF Types
<1>1. CASE \E p \in loc[t].todo :
             Continue(t, "seek", [loc[t] EXCEPT !.cur = Restart(@), !.obj = {p}, !.todo = @ \ {p}])
  <2>1. PICK p \in loc[t].todo :
          Continue(t, "seek", [loc[t] EXCEPT !.cur = 1, !.obj = {p}, !.todo = @ \ {p}])
    BY <1>1 DEF Restart
  <2>2. [loc[t] EXCEPT !.cur = 1, !.obj = {p}, !.todo = @ \ {p}] \in Locals
    BY <1>a, LocalsTyped DEF Locals
  <2> QED BY <1>a, <2>1, <2>2, MovesTyped DEF Continue, Places
<1>2. CASE Return(t, {})
  <2>1. {} \in SUBSET Objects OBVIOUS
  <2> QED BY <1>2, <2>1, ReturnTyped
<1> QED BY <1>1, <1>2 DEF NextObject

\* The variables keep their types.
LEMMA TypesStep ==
  ASSUME ClassInv, NEW t \in Threads, Acts(t)
  PROVE  Types'
<1> USE SizeClassAssumption DEF Chunks
<1>a. Types /\ spoilt' \in SUBSET Regions BY StepSpoils DEF ClassInv
<1>b. loc[t] \in Locals BY <1>a DEF Types
<1>c. Cursor(t) BY DEF ClassInv
<1>d. \A p \in Places, l \in Locals :
        Go(t, p, l) => at' \in [Threads -> Places] /\ loc' \in [Threads -> Locals]
  BY <1>a, MovesTyped
<1>e. \A got \in SUBSET Objects :
        Return(t, got) => /\ at' \in [Threads -> Places] /\ loc' \in [Threads -> Locals]
                          /\ live' \in SUBSET Objects
  BY <1>a, ReturnTyped
<1>f. loc[t].got \in SUBSET Objects /\ {} \in SUBSET Objects BY <1>b DEF Locals
<1>1. CASE CallStep(t)
  <2>1. CASE Initialize(t)
    <3>1. [Blank EXCEPT !.op = "init", !.try = "new"] \in Locals
      BY BlankTyped DEF Ops
    <3>2. at' \in [Threads -> Places] /\ loc' \in [Threads -> Locals]
      BY <1>d, <2>1, <3>1 DEF Initialize, Continue, Places
    <3> QED BY <1>a, <2>1, <3>2 DEF Initialize, Continue, Types, chunkVars, bitVars
  <2>2. CASE Allocate(t)
    <3>1. [Blank EXCEPT !.op = "allocate", !.cur = active] \in Locals
      <4>1. active \in 0 .. ChunkMaxCount + 1 /\ "allocate" \in Ops
            /\ 1 .. MaxBatch \subseteq 0 .. MaxBatch
        BY <1>a DEF Types, Ops
      <4> QED BY <4>1, BlankTyped, Zenon
    <3>2. at' \in [Threads -> Places] /\ loc' \in [Threads -> Locals]
      BY <1>d, <2>2, <3>1 DEF Allocate, Continue, Places
    <3> QED BY <1>a, <2>2, <3>2 DEF Allocate, Continue, Types, chunkVars, bitVars
  <2>3. CASE AllocateBatch(t)
    <3>1. \A n \in 1 .. MaxBatch :
            [Blank EXCEPT !.op = "batch", !.cur = active, !.want = n] \in Locals
      <4>1. active \in 0 .. ChunkMaxCount + 1 /\ "allocate" \in Ops
            /\ 1 .. MaxBatch \subseteq 0 .. MaxBatch
        BY <1>a DEF Types, Ops
      <4> QED BY <4>1, BlankTyped, Zenon
    <3> QED BY <1>a, <1>d, <2>3, <3>1 DEF AllocateBatch, Continue, Types, chunkVars, bitVars, Places
  <2>4. CASE Deallocate(t)
    <3>1. PICK objs \in SUBSET live, o \in Objects :
            /\ o \in objs /\ live' = live \ {p \in objs : p[1] \notin spoilt}
            /\ Go(t, "seek", [Blank EXCEPT !.op = "free", !.cur = 1, !.obj = {o},
                                           !.todo = objs \ {o}])
      BY <2>4 DEF Deallocate
    <3>2. [Blank EXCEPT !.op = "free", !.cur = 1, !.obj = {o}, !.todo = objs \ {o}] \in Locals
      <4>1. objs \ {o} \in SUBSET Objects /\ {o} \in SUBSET Objects /\ "free" \in Ops
        BY <1>a DEF Types, Ops
      <4>2. 1 \in 0 .. ChunkMaxCount OBVIOUS
      <4> QED BY <4>1, <4>2, BlankTyped
    <3>3. at' \in [Threads -> Places] /\ loc' \in [Threads -> Locals]
      BY <1>d, <3>1, <3>2 DEF Places
    <3> QED BY <1>a, <2>4, <3>1, <3>3 DEF Deallocate, Types, chunkVars, bitVars
  <2>5. CASE Query(t)
    <3>1. \A op \in Queries : [Blank EXCEPT !.op = op, !.cur = 1] \in Locals
      <4>1. 1 \in 0 .. ChunkMaxCount + 1 /\ Queries \subseteq Ops BY DEF Ops
      <4> QED BY <4>1, BlankTyped, Zenon
    <3>2. at' \in [Threads -> Places] /\ loc' \in [Threads -> Locals]
      BY <1>d, <2>5, <3>1 DEF Query, Continue, Places
    <3> QED BY <1>a, <2>5, <3>2 DEF Query, Continue, Types, chunkVars, bitVars
  <2> QED BY <1>1, <2>1, <2>2, <2>3, <2>4, <2>5 DEF CallStep
<1>2. CASE TakeOne(t)
  <2>1. PICK o \in Room(loc[t].cur) :
          /\ taken' = taken \union {p \in {o} : p[1] \notin spoilt'}
          /\ IF loc[t].try = "found"
             THEN Continue(t, "publish", [loc[t] EXCEPT !.got = {o}])
             ELSE Return(t, {o})
    BY <1>2 DEF TakeOne, SetBits
  <2>2. o \in Objects BY <2>1 DEF Room
  <2>3. [loc[t] EXCEPT !.got = {o}] \in Locals BY <1>b, <2>2 DEF Locals
  <2>4. CASE loc[t].try = "found"
    <3>1. at' \in [Threads -> Places] /\ loc' \in [Threads -> Locals]
      BY <1>d, <2>1, <2>3, <2>4 DEF Continue, Places
    <3> QED BY <1>a, <1>2, <2>1, <2>2, <2>4, <3>1 DEF TakeOne, Continue, Types, chunkVars, bitVars
  <2>5. CASE loc[t].try # "found"
    <3>1. {o} \in SUBSET Objects BY <2>2
    <3> QED BY <1>a, <1>e, <1>2, <2>1, <2>2, <2>5, <3>1 DEF TakeOne, Types, chunkVars, bitVars
  <2> QED BY <2>4, <2>5
<1>3. CASE TakeNone(t)
  <2>1. /\ [loc[t] EXCEPT !.cur = 1, !.try = "found"] \in Locals
        /\ [loc[t] EXCEPT !.cur = 0, !.try = "new"] \in Locals
    BY <1>b, LocalsTyped
  <2>2. at' \in [Threads -> Places] /\ loc' \in [Threads -> Locals] /\ live' \in SUBSET Objects
    <3>1. CASE Return(t, {}) BY <1>e, <1>f, <3>1
    <3>2. CASE ~Return(t, {}) BY <1>a, <1>d, <1>3, <2>1, <3>2 DEF TakeNone, Continue, Places, Types
    <3> QED BY <3>1, <3>2
  <2> QED BY <1>a, <1>3, <2>2 DEF TakeNone, Types, chunkVars, bitVars
<1>4. CASE AskActive(t)
  <2>1. [loc[t] EXCEPT !.cur = 1, !.try = "found"] \in Locals
    BY <1>b, LocalsTyped
  <2> QED BY <1>a, <1>b, <1>d, <1>4, <2>1 DEF AskActive, Continue, Types, chunkVars, bitVars, Places
<1>5. CASE TakeMany(t)
  <2>1. PICK objs \in SUBSET Room(loc[t].cur) :
          /\ taken' = taken \union {o \in objs : o[1] \notin spoilt'}
          /\ \/ Return(t, loc[t].got \union objs)
             \/ /\ \/ Go(t, "publish", [[loc[t] EXCEPT !.got = @ \union objs] EXCEPT
                                      !.try = IF objs = {} THEN "dry" ELSE loc[t].try])
                   \/ Go(t, "visit", [[loc[t] EXCEPT !.got = @ \union objs] EXCEPT
                                              !.cur = 1, !.try = "found"])
                /\ UNCHANGED live
    BY <1>5, <1>b DEF TakeMany, Locals, SetBits, Continue
  <2>2. objs \in SUBSET Objects BY <2>1 DEF Room
  <2>3. (IF objs = {} THEN "dry" ELSE loc[t].try) \in Tries
    BY <1>b DEF Locals, Tries
  <2>4. /\ [[loc[t] EXCEPT !.got = @ \union objs] EXCEPT
              !.try = IF objs = {} THEN "dry" ELSE loc[t].try] \in Locals
        /\ [[loc[t] EXCEPT !.got = @ \union objs] EXCEPT !.cur = 1, !.try = "found"] \in Locals
    BY <1>b, <2>2, <2>3, LocalsTyped, Zenon
  <2>5. at' \in [Threads -> Places] /\ loc' \in [Threads -> Locals] /\ live' \in SUBSET Objects
    <3>1. loc[t].got \union objs \in SUBSET Objects BY <1>f, <2>2
    <3>2. "publish" \in Places /\ "visit" \in Places BY DEF Places
    <3>3. live \in SUBSET Objects BY <1>a DEF Types
    <3> QED BY <1>d, <1>e, <2>1, <2>4, <3>1, <3>2, <3>3
  <2> QED BY <1>a, <1>5, <2>1, <2>2, <2>5 DEF TakeMany, Types, chunkVars, bitVars
<1>6. CASE VisitChunk(t)
  <2>1. loc[t].cur + 1 \in 0 .. ChunkMaxCount + 1
    BY <1>a, <1>b, <1>6 DEF VisitChunk, Types, Locals
  <2>2. [loc[t] EXCEPT !.cur = @ + 1] \in Locals
    BY <1>b, <2>1 DEF Locals
  <2>3. at' \in [Threads -> Places] /\ loc' \in [Threads -> Locals] /\ live' \in SUBSET Objects
    <3>1. \/ Return(t, {})
          \/ /\ live' = live
             /\ \/ Go(t, "visit", [loc[t] EXCEPT !.cur = @ + 1])
                \/ Go(t, IF loc[t].op = "batch" THEN "many" ELSE "take", loc[t])
      BY <1>6 DEF VisitChunk, Continue
    <3>2. /\ "visit" \in Places /\ live \in SUBSET Objects
          /\ (IF loc[t].op = "batch" THEN "many" ELSE "take") \in Places
      BY <1>a DEF Places, Types
    <3> QED BY <1>b, <1>d, <1>e, <1>f, <2>2, <3>1, <3>2
  <2> QED BY <1>a, <1>6, <2>3 DEF VisitChunk, Types, chunkVars
<1>7. CASE VisitEnds(t)
  <2>1. [loc[t] EXCEPT !.cur = 0, !.try = "new"] \in Locals
    BY <1>b, LocalsTyped
  <2>2. at' \in [Threads -> Places] /\ loc' \in [Threads -> Locals] /\ live' \in SUBSET Objects
    <3>1. CASE Return(t, {}) BY <1>e, <1>f, <3>1
    <3>2. CASE ~Return(t, {})
      BY <1>a, <1>d, <1>7, <2>1, <3>2 DEF VisitEnds, Continue, Places, Types
    <3> QED BY <3>1, <3>2
  <2> QED BY <1>a, <1>7, <2>2 DEF VisitEnds, Types, chunkVars, bitVars
<1>8. CASE Publish(t)
  <2>1. [loc[t] EXCEPT !.cur = 0] \in Locals BY <1>b DEF Locals
  <2>2. loc[t].cur \in 0 .. ChunkMaxCount
    BY <1>a, <1>c, <1>8 DEF Publish, Cursor, Types
  <2> QED BY <1>a, <1>b, <1>d, <1>e, <1>f, <1>8, <2>1, <2>2
          DEF Publish, Continue, Types, chunkVars, bitVars, Places
<1>9. CASE CreateChunk(t)
  <2>1. CASE CheckCount(t)
    BY <1>a, <1>b, <1>d, <1>e, <1>f, <2>1
    DEF CheckCount, NoChunk, Continue, Types, chunkVars, bitVars, Places
  <2>2. CASE AllocateRegion(t)
    <3>1. CASE extents = {}
      BY <1>a, <1>e, <1>f, <2>2, <3>1 DEF AllocateRegion, NoChunk, Types, bitVars
    <3>2. CASE extents # {}
      <4>1. PICK r \in extents : /\ extents' = extents \ {r}
                                 /\ Continue(t, "emplace", [loc[t] EXCEPT !.region = r])
        BY <2>2, <3>2 DEF AllocateRegion
      <4>2. [loc[t] EXCEPT !.region = r] \in Locals BY <1>a, <1>b DEF Locals, Types
      <4> QED BY <1>a, <1>d, <2>2, <4>1, <4>2 DEF AllocateRegion, Continue, Types, bitVars, Places
    <3> QED BY <3>1, <3>2
  <2>3. CASE Emplace(t)
    <3>1. len' = len + 1 /\ len' \in 1 .. ChunkMaxCount BY <1>a, <2>3 DEF Emplace, Types
    <3>2. [loc[t] EXCEPT !.cur = len'] \in Locals BY <1>b, <3>1 DEF Locals
    <3> QED BY <1>a, <1>d, <2>3, <3>1, <3>2 DEF Emplace, Continue, Types, bitVars, Places
  <2>4. CASE EmplaceFails(t)
    <3>1. loc[t].region \in Regions
      BY <2>4 DEF EmplaceFails, ClassInv, Regional, Carrying
    <3> QED BY <1>a, <1>e, <1>f, <2>4, <3>1 DEF EmplaceFails, NoChunk, Types, bitVars
  <2>5. CASE SetFlag(t)
    BY <1>a, <1>b, <1>d, <2>5 DEF SetFlag, Continue, Types, bitVars, Places
  <2>6. CASE SetBase(t)
    <3>1. loc[t].region \in Regions \union {None} BY <1>b DEF Locals
    <3> QED BY <1>a, <1>b, <1>d, <2>6, <3>1 DEF SetBase, Continue, Types, bitVars, Places
  <2>7. CASE InitGroup(t)
    BY <1>a, <1>b, <1>d, <2>7 DEF InitGroup, Continue, Types, bitVars, Places
  <2>8. CASE CountChunk(t)
    BY <1>a, <1>b, <1>d, <2>8 DEF CountChunk, Continue, Types, chunkVars, bitVars, Places
  <2>9. CASE BuildGroup(t)
    <3>1. [loc[t] EXCEPT !.region = None] \in Locals BY <1>b DEF Locals
    <3> QED BY <1>a, <1>d, <2>9, <3>1 DEF BuildGroup, Continue, Types, chunkVars, bitVars, Places
  <2>10. CASE BuildFails(t)
    BY <1>a, <1>b, <1>d, <2>10 DEF BuildFails, Continue, Types, bitVars, Places
  <2>11. CASE GiveBack(t)
    <3>1. loc[t].region \in Regions
      BY <2>11 DEF GiveBack, ClassInv, Regional, Carrying
    <3> QED BY <1>a, <1>e, <1>f, <2>11, <3>1 DEF GiveBack, NoChunk, Types, bitVars
  <2> QED BY <1>9, <2>1, <2>2, <2>3, <2>4, <2>5, <2>6, <2>7, <2>8, <2>9, <2>10, <2>11
          DEF CreateChunk
<1>10. CASE Seek(t)
  <2>1. loc[t].cur <= len => [loc[t] EXCEPT !.cur = loc[t].cur + 1] \in Locals
    <3>1. loc[t].cur \in 0 .. ChunkMaxCount + 1 /\ len \in 0 .. ChunkMaxCount
      BY <1>a, <1>b DEF Locals, Types
    <3>2. loc[t].cur <= len => loc[t].cur + 1 \in 0 .. ChunkMaxCount + 1 BY <3>1
    <3> QED BY <1>b, <3>2 DEF Locals
  <2>2. [loc[t] EXCEPT !.obj = {}] \in Locals BY <1>b DEF Locals
  <2>3. /\ taken' \subseteq taken
        /\ \/ /\ live' = live /\ loc[t].cur <= len
              /\ Go(t, "seek", [loc[t] EXCEPT !.cur = loc[t].cur + 1])
           \/ live' = live /\ Go(t, "lower", [loc[t] EXCEPT !.obj = {}])
           \/ NextObject(t)
    BY <1>10 DEF Seek, Continue
  <2>4. at' \in [Threads -> Places] /\ loc' \in [Threads -> Locals] /\ live' \in SUBSET Objects
    <3>1. "seek" \in Places /\ "lower" \in Places /\ live \in SUBSET Objects
      BY <1>a DEF Places, Types
    <3>2. CASE NextObject(t) BY <1>a, <3>2, NextTyped
    <3> QED BY <1>d, <2>1, <2>2, <2>3, <3>1, <3>2
  <2> QED BY <1>a, <1>10, <2>3, <2>4 DEF Seek, Types, chunkVars, bitVars
<1>11. CASE Lower(t)
  BY <1>a, <1>11, NextTyped DEF Lower, Types, chunkVars, bitVars
<1> QED
  BY <1>1, <1>2, <1>3, <1>4, <1>5, <1>6, <1>7, <1>8, <1>9, <1>10, <1>11 DEF Acts, ClassStep

-----------------------------------------------------------------------------
(* What a step may do, as far as the invariant is concerned.               *)

Making == {"emplace", "setFlag", "setBase", "group", "build", "giveBack", "count"}

\* The step has to do with no chunk that is under construction.
Quiet(t) ==
  /\ OthersKeep(t)
  /\ UNCHANGED chunkVars
  /\ at[t] \notin Making /\ at'[t] \notin Making

\* The step takes the objects G; what the call and its caller have after it, they had
\* before or is in G.
Handles(t, G) ==
  /\ taken' = taken \union {o \in G : o[1] \notin spoilt'}
  /\ G \intersect taken = {}
  /\ \A o \in G : Placed(o)'
  /\ live' \union InHand(t)' \subseteq live \union InHand(t) \union G
  /\ live' \intersect InHand(t)' \intersect Sound' = {}

LEMMA QuietChunks ==
  ASSUME Types, Construction, Regional, Spoiling, NEW t \in Threads, Quiet(t)
  PROVE  Construction' /\ Regional' /\ Grows
<1> USE DEF Quiet, OthersKeep, chunkVars, Making
<1>1. \A u \in Threads : /\ Building(u)' <=> Building(u)
                         /\ Carrying(u)' <=> Carrying(u)
                         /\ at'[u] \in {"group", "build"} <=> at[u] \in {"group", "build"}
                         /\ at'[u] = "build" <=> at[u] = "build"
                         /\ Building(u) \/ Carrying(u) => at'[u] = at[u] /\ loc'[u] = loc[u]
  BY DEF Building, Carrying
<1>2. \A c : HalfBuilt(c)' <=> HalfBuilt(c)
  BY <1>1 DEF HalfBuilt, Building
<1>3. Construction'
  <2>1. \A u \in Threads : \A c : Building(u) => (Stage(u, c)' <=> Stage(u, c))
    BY <1>1 DEF Stage, Claimed
  <2>2. \A c \in 1 .. len : Claimed(c) \/ Dead(c) => Claimed(c)' \/ Dead(c)'
    BY DEF Claimed, Dead, Failed, Spoiling
  <2>3. \A c \in 1 .. len : \/ Claimed(c)' \/ Dead(c)'
                            \/ \E u \in Threads : Building(u)' /\ loc'[u].cur = c
    BY <1>1, <2>2 DEF Construction
  <2>4. /\ \A u \in Threads : Building(u)' => loc'[u].cur \in 1 .. len' /\ Stage(u, loc[u].cur)'
        /\ \A u, v \in Threads :
             u # v /\ Building(u)' /\ Building(v)' => loc'[u].cur # loc'[v].cur
        /\ \A c \in Chunks : c > len' => ~flag'[c] /\ base'[c] = None /\ ~ready'[c]
    BY <1>1, <2>1 DEF Construction
  <2> QED BY <2>3, <2>4 DEF Construction
<1>4. Regional'
  BY <1>1 DEF Regional, Building
<1>5. Grows BY <1>2, SizeClassAssumption DEF Grows, Types, Built
<1> QED BY <1>3, <1>4, <1>5

\* Where nothing is taken back from the chunks, a chunk that is fit stays so.
LEMMA FitStays ==
  ASSUME Grows, Spoiling, NEW c \in Chunks, Fit(c)
  PROVE  base'[c] = base[c] /\ Fit(c)'
<1>1. base'[c] = base[c] BY DEF Grows, Fit
<1>2. base[c] \notin spoilt' => Built(c)' BY DEF Fit, Grows, Spoiling
<1> QED BY <1>1, <1>2 DEF Fit

LEMMA PlacesStay ==
  ASSUME Types, Types', Grows, Spoiling, NEW o, Placed(o)
  PROVE  Placed(o)'
<1>1. PICK c \in 1 .. len : Holds(c, o) BY DEF Placed
<1>2. c \in Chunks /\ c \in 1 .. len' BY SizeClassAssumption DEF Types, Grows, Chunks
<1>3. Holds(c, o)' BY <1>1, <1>2, FitStays DEF Holds, Contains
<1> QED BY <1>2, <1>3 DEF Placed

\* What the other threads know stays true.
LEMMA OthersKnow ==
  ASSUME Types, Types', NEW u \in Threads, Cursor(u), Seeking(u), Grows, Spoiling,
         at'[u] = at[u], loc'[u] = loc[u]
  PROVE  Cursor(u)' /\ Seeking(u)'
<1> USE SizeClassAssumption
<1>1. len \in Nat /\ len' \in Nat /\ len <= len' /\ len' <= ChunkMaxCount
  BY DEF Types, Grows
<1>2. /\ \A i \in 1 .. len : i \in 1 .. len'
      /\ \A i \in 1 .. len + 1 : i \in 1 .. len' + 1
  <2>1. ASSUME NEW m \in Nat, NEW n \in Nat, m <= n
        PROVE  1 .. m \subseteq 1 .. n /\ 1 .. m + 1 \subseteq 1 .. n + 1
    BY ONLY <2>1
  <2> QED BY <1>1, <2>1
<1>3. loc[u] \in Locals BY DEF Types
<1>4. \A c \in 1 .. len : Fit(c) => Fit(c)'
  <2>1. \A c \in 1 .. len : c \in Chunks BY <1>1 DEF Chunks
  <2> QED BY <2>1, FitStays
<1>5. \A c \in Chunks, o \in Objects : Holds(c, o) => Holds(c, o)'
  BY FitStays DEF Holds, Contains
<1>6. Cursor(u)'
  <2>1. at[u] = "publish" \/ (at[u] = "many" /\ loc[u].try = "new") => Fit(loc[u].cur)'
    BY <1>4 DEF Cursor
  <2> QED BY <1>2, <2>1 DEF Cursor, Creating, Building
<1>7. Seeking(u)'
  <2>1. CASE at[u] = "seek"
    <3>1. PICK o \in Objects : /\ loc[u].obj = {o} /\ o \notin loc[u].todo /\ loc[u].got = {}
                               /\ \E c \in loc[u].cur .. len : Holds(c, o)
      BY <2>1 DEF Seeking
    <3>2. PICK c \in loc[u].cur .. len : Holds(c, o) BY <3>1
    <3>3. loc[u].cur \in 1 .. len + 1 BY <2>1 DEF Cursor
    <3>4. c \in Chunks /\ c \in loc[u].cur .. len' BY <1>1, <3>2, <3>3 DEF Chunks
    <3>5. Holds(c, o)' BY <1>5, <3>2, <3>4
    <3> QED BY <2>1, <3>1, <3>4, <3>5 DEF Seeking
  <2>2. CASE at[u] # "seek" BY <2>2 DEF Seeking
  <2> QED BY <2>1, <2>2
<1> QED BY <1>6, <1>7

LEMMA OwnersAfterHandling ==
  ASSUME Types, Types', Owners, Grows, Spoiling, NEW t \in Threads, OthersKeep(t),
         NEW G \in SUBSET Objects, Handles(t, G)
  PROVE  Owners'
<1>1. \A u \in Threads \ {t} : InHand(u)' = InHand(u)
  BY DEF OthersKeep, InHand
<1>2. /\ Sound' \subseteq Sound /\ \A o \in taken : o \in Sound'
      /\ \A o \in G : o \in Sound' <=> o[1] \notin spoilt'
  BY DEF Sound, Spoiling, Owners
<1>3. taken' \subseteq Sound'
  BY <1>2 DEF Handles
<1>4. /\ \A o \in taken' \union live' \union InHand(t)' : Placed(o)'
      /\ \A u \in Threads \ {t} : \A o \in InHand(u)' : Placed(o)'
  <2>1. \A o \in taken \union live \union InHand(t) : Placed(o) BY DEF Owners
  <2>2. \A u \in Threads \ {t} : \A o \in InHand(u)' : Placed(o) BY <1>1 DEF Owners
  <2>3. \A o : Placed(o) => Placed(o)' BY PlacesStay
  <2> QED BY <2>1, <2>2, <2>3 DEF Handles
<1>5. (live' \union InHand(t)') \intersect Sound' \subseteq taken'
  <2>1. (live \union InHand(t)) \intersect Sound \subseteq taken BY DEF Owners
  <2> QED BY <1>2, <2>1 DEF Handles
<1>6. \A u \in Threads \ {t} :
        /\ InHand(u)' \intersect Sound' \subseteq taken'
        /\ InHand(u)' \intersect Sound' \intersect (live' \union InHand(t)') = {}
  <2>1. ASSUME NEW u \in Threads \ {t}
        PROVE  /\ InHand(u) \intersect Sound \subseteq taken
               /\ InHand(u) \intersect Sound \intersect (live \union InHand(t)) = {}
    BY DEF Owners
  <2> QED BY <1>1, <1>2, <2>1 DEF Handles
<1>7. \A u, v \in Threads : u # v => InHand(u)' \intersect InHand(v)' \intersect Sound' = {}
  <2>1. ASSUME NEW u \in Threads, NEW v \in Threads, u # v
        PROVE  InHand(u)' \intersect InHand(v)' \intersect Sound' = {}
    <3>1. CASE u = t \/ v = t BY <1>6, <2>1, <3>1
    <3>2. CASE u # t /\ v # t BY <1>1, <1>2, <2>1, <3>2 DEF Owners
    <3> QED BY <3>1, <3>2
  <2> QED BY <2>1
<1>8. \A u \in Threads : /\ \A o \in InHand(u)' : Placed(o)'
                         /\ InHand(u)' \intersect Sound' \subseteq taken'
                         /\ InHand(u)' \intersect Sound' \intersect live' = {}
  <2>1. InHand(t)' \intersect Sound' \intersect live' = {} BY DEF Handles
  <2> QED BY <1>4, <1>5, <1>6, <2>1
<1> QED BY <1>3, <1>4, <1>5, <1>7, <1>8 DEF Owners

\* ActiveReady speaks of a fit chunk.
LEMMA ActiveFit == ActiveReady <=> (inited => active # 0 /\ Fit(active))
BY DEF ActiveReady, Fit, Built

LEMMA ActiveStays ==
  ASSUME ClassInv, Types', Grows, Spoiling, UNCHANGED <<active, inited>>
  PROVE  ActiveReady' /\ (inited' => active' \in 1 .. len')
<1>1. CASE inited
  <2>1. active \in 1 .. len /\ active # 0 /\ Fit(active)
    BY <1>1, ActiveFit DEF ClassInv
  <2>2. active \in Chunks /\ active \in 1 .. len'
    BY <2>1, SizeClassAssumption DEF ClassInv, Types, Grows, Chunks
  <2>3. Fit(active)' BY <2>1, <2>2, FitStays DEF Fit
  <2> QED BY <2>1, <2>2, <2>3 DEF ActiveReady, Fit, Built
<1>2. CASE ~inited BY <1>2 DEF ActiveReady
<1> QED BY <1>1, <1>2

\* The steps that are quiet and take objects, or pass them on.
LEMMA QuietStep ==
  ASSUME ClassInv, Types', Spoiling, NEW t \in Threads, Quiet(t), Cursor(t)', Seeking(t)',
         UNCHANGED <<active, inited>>, NEW G \in SUBSET Objects, Handles(t, G)
  PROVE  ClassInv'
<1> USE DEF ClassInv
<1>1. Construction' /\ Regional' /\ Grows BY QuietChunks
<1>2. Owners' BY <1>1, OwnersAfterHandling DEF Quiet
<1>3. \A u \in Threads : Cursor(u)' /\ Seeking(u)'
  <2>1. ASSUME NEW u \in Threads, u # t PROVE Cursor(u)' /\ Seeking(u)'
    <3>1. at'[u] = at[u] /\ loc'[u] = loc[u] BY <2>1 DEF Quiet, OthersKeep
    <3> QED BY <1>1, <3>1, OthersKnow
  <2> QED BY <2>1
<1>4. ActiveReady' /\ (inited' => active' \in 1 .. len')
  BY <1>1, ActiveStays
<1> QED BY <1>1, <1>2, <1>3, <1>4

-----------------------------------------------------------------------------
(* The steps one by one: the calls.                                        *)

\* What a call starts with.
LEMMA BlankFields ==
  /\ Blank.got = {} /\ Blank.obj = {} /\ Blank.todo = {} /\ Blank.try = "active"
  /\ LET l == [Blank EXCEPT !.op = "init", !.try = "new"]
     IN  l.got = {} /\ l.obj = {} /\ l.todo = {} /\ l.try = "new"
  /\ \A c, op : LET l == [Blank EXCEPT !.op = op, !.cur = c]
                IN  /\ l.got = {} /\ l.obj = {} /\ l.todo = {} /\ l.try = "active"
                    /\ l.op = op /\ l.cur = c
  /\ \A c, n : LET l == [Blank EXCEPT !.op = "batch", !.cur = c, !.want = n]
               IN  /\ l.got = {} /\ l.obj = {} /\ l.todo = {} /\ l.try = "active"
                   /\ l.op = "batch" /\ l.cur = c /\ l.want = n
  /\ \A objs, more : LET l == [Blank EXCEPT !.op = "free", !.cur = 1, !.obj = objs,
                                            !.todo = more]
                     IN  l.got = {} /\ l.obj = objs /\ l.todo = more /\ l.cur = 1
BY DEF Blank

\* A call that starts and has nothing in its hands yet.
LEMMA CallStarts ==
  ASSUME ClassInv, Types', NEW t \in Threads, at[t] = "idle", NEW l \in Locals,
         NEW p \in {"check", "take", "ask", "visit"}, Continue(t, p, l),
         l.got = {}, l.obj = {}, l.todo = {}, Cursor(t)',
         UNCHANGED <<chunkVars, bitVars, active, inited>>
  PROVE  ClassInv'
<1> USE DEF ClassInv
<1>1. at'[t] = p /\ loc'[t] = l /\ OthersKeep(t)
  BY Moves DEF Continue
<1>2. Quiet(t) BY <1>1 DEF Quiet, Making
<1>3. Seeking(t)' BY <1>1 DEF Seeking
<1>4. Handles(t, {}) BY <1>1 DEF Handles, InHand, Continue, bitVars
<1>5. Spoiling BY DEF Spoiling, Sound, bitVars
<1> QED BY <1>2, <1>3, <1>4, <1>5, QuietStep

LEMMA InitializeStep ==
  ASSUME ClassInv, Types', NEW t \in Threads, Initialize(t)
  PROVE  ClassInv'
<1> DEFINE l == [Blank EXCEPT !.op = "init", !.try = "new"]
<1>1. /\ at[t] = "idle" /\ Continue(t, "check", l)
      /\ UNCHANGED <<chunkVars, bitVars, active, inited>>
  BY DEF Initialize
<1>2. l \in Locals BY BlankTyped
<1>3. l.got = {} /\ l.obj = {} /\ l.todo = {} /\ l.try = "new" BY BlankFields
<1> HIDE DEF l
<1>4. at'[t] = "check" /\ loc'[t] = l BY <1>1, Moves DEF Continue, ClassInv
<1>5. Cursor(t)' BY <1>3, <1>4 DEF Cursor
<1> QED BY <1>1, <1>2, <1>3, <1>5, CallStarts

LEMMA AllocateStep ==
  ASSUME ClassInv, Types', NEW t \in Threads, Allocate(t)
  PROVE  ClassInv'
<1> DEFINE l == [Blank EXCEPT !.op = "allocate", !.cur = active]
<1>1. /\ at[t] = "idle" /\ Continue(t, "take", l) /\ inited
      /\ UNCHANGED <<chunkVars, bitVars, active, inited>>
  BY DEF Allocate
<1>2. l \in Locals
  <2>1. active \in 0 .. ChunkMaxCount + 1 /\ "allocate" \in Ops
    BY SizeClassAssumption DEF ClassInv, Types, Ops
  <2> QED BY <2>1, BlankTyped, Zenon
<1>3. l.got = {} /\ l.obj = {} /\ l.todo = {} /\ l.cur = active /\ l.op = "allocate"
  BY BlankFields
<1> HIDE DEF l
<1>4. at'[t] = "take" /\ loc'[t] = l BY <1>1, Moves DEF Continue, ClassInv
<1>5. Cursor(t)'
  BY <1>1, <1>3, <1>4 DEF Cursor, Creating, Building, ClassInv, chunkVars
<1> QED BY <1>1, <1>2, <1>3, <1>5, CallStarts

LEMMA AllocateBatchStep ==
  ASSUME ClassInv, Types', NEW t \in Threads, AllocateBatch(t)
  PROVE  ClassInv'
<1>1. PICK n \in 1 .. MaxBatch :
        Continue(t, "ask", [Blank EXCEPT !.op = "batch", !.cur = active, !.want = n])
  BY DEF AllocateBatch
<1> DEFINE l == [Blank EXCEPT !.op = "batch", !.cur = active, !.want = n]
<1>2. /\ at[t] = "idle" /\ Continue(t, "ask", l) /\ inited
      /\ UNCHANGED <<chunkVars, bitVars, active, inited>>
  BY <1>1 DEF AllocateBatch
<1>3. l \in Locals
  <2>1. active \in 0 .. ChunkMaxCount + 1 /\ n \in 0 .. MaxBatch
    BY SizeClassAssumption DEF ClassInv, Types
  <2> QED BY <2>1, BlankTyped, Zenon
<1>4. l.got = {} /\ l.obj = {} /\ l.todo = {} /\ l.cur = active /\ l.want = n /\ l.try = "active"
  BY BlankFields
<1> HIDE DEF l
<1>5. at'[t] = "ask" /\ loc'[t] = l BY <1>2, Moves DEF Continue, ClassInv
<1>6. Cardinality(l.got) # l.want BY <1>4, FS_EmptySet
<1>7. Cursor(t)'
  BY <1>2, <1>4, <1>5, <1>6 DEF Cursor, Creating, Building, ClassInv, chunkVars
<1> QED BY <1>2, <1>3, <1>4, <1>7, CallStarts

LEMMA QueryStep ==
  ASSUME ClassInv, Types', NEW t \in Threads, Query(t)
  PROVE  ClassInv'
<1>1. PICK op \in Queries : Continue(t, "visit", [Blank EXCEPT !.op = op, !.cur = 1])
  BY DEF Query
<1> DEFINE l == [Blank EXCEPT !.op = op, !.cur = 1]
<1>2. /\ at[t] = "idle" /\ Continue(t, "visit", l) /\ inited
      /\ UNCHANGED <<chunkVars, bitVars, active, inited>>
  BY <1>1 DEF Query
<1>3. l \in Locals
  <2>1. 1 \in 0 .. ChunkMaxCount + 1 /\ op \in Ops BY SizeClassAssumption DEF Ops
  <2> QED BY <2>1, BlankTyped, Zenon
<1>4. l.got = {} /\ l.obj = {} /\ l.todo = {} /\ l.cur = 1 /\ l.op # "batch"
  <2>1. op # "batch" BY SizeClassAssumption
  <2> QED BY <2>1, BlankFields
<1> HIDE DEF l
<1>5. at'[t] = "visit" /\ loc'[t] = l BY <1>2, Moves DEF Continue, ClassInv
<1>6. Cursor(t)'
  <2>1. len' = len /\ len \in Nat BY <1>2, SizeClassAssumption DEF chunkVars, ClassInv, Types
  <2>2. 1 \in 1 .. len' + 1 BY <2>1
  <2> QED BY <1>4, <1>5, <2>2 DEF Cursor, Creating, Building
<1> QED BY <1>2, <1>3, <1>4, <1>6, CallStarts

LEMMA DeallocateStep ==
  ASSUME ClassInv, Types', NEW t \in Threads, Deallocate(t)
  PROVE  ClassInv'
<1> USE DEF ClassInv
<1>1. PICK objs \in SUBSET live, o \in Objects :
        /\ o \in objs /\ live' = live \ {p \in objs : p[1] \notin spoilt}
        /\ Go(t, "seek", [Blank EXCEPT !.op = "free", !.cur = 1, !.obj = {o},
                                       !.todo = objs \ {o}])
  BY DEF Deallocate
<1> DEFINE l == [Blank EXCEPT !.op = "free", !.cur = 1, !.obj = {o}, !.todo = objs \ {o}]
<1>2. /\ at[t] = "idle" /\ Go(t, "seek", l)
      /\ UNCHANGED <<chunkVars, bitVars, active, inited>>
  BY <1>1 DEF Deallocate
<1>3. l.got = {} /\ l.obj = {o} /\ l.todo = objs \ {o} /\ l.cur = 1
  BY BlankFields
<1> HIDE DEF l
<1>4. at'[t] = "seek" /\ loc'[t] = l /\ OthersKeep(t) BY <1>2, Moves
<1>5. Quiet(t) BY <1>2, <1>4 DEF Quiet, Making
<1>6. Cursor(t)'
  <2>1. len' = len /\ len \in Nat BY <1>2, SizeClassAssumption DEF chunkVars, Types
  <2>2. 1 \in 1 .. len' + 1 BY <2>1
  <2> QED BY <1>3, <1>4, <2>2 DEF Cursor, Creating, Building
<1>7. Spoiling BY <1>2 DEF Spoiling, Sound, bitVars
<1>8. Seeking(t)'
  <2>1. Placed(o) BY <1>1 DEF Owners
  <2>2. Placed(o)' BY <1>5, <1>7, <2>1, QuietChunks, PlacesStay
  <2> QED BY <1>3, <1>4, <2>2 DEF Seeking, Placed
<1>9. Handles(t, {})
  <2>1. InHand(t)' = objs /\ live' = live \ {p \in objs : p[1] \notin spoilt}
    BY <1>1, <1>3, <1>4 DEF InHand
  <2>2. live' \intersect InHand(t)' \intersect Sound' = {} BY <1>2, <2>1 DEF Sound, bitVars
  <2>3. taken' = taken BY <1>2 DEF bitVars
  <2> QED BY <2>1, <2>2, <2>3 DEF Handles
<1> QED BY <1>2, <1>5, <1>6, <1>7, <1>8, <1>9, QuietStep

-----------------------------------------------------------------------------
(* The steps inside the calls.                                             *)

\* A call that enters a chunk has to do with no construction of its own.
LEMMA EntersQuietly ==
  ASSUME ClassInv, NEW t \in Threads,
         TakeOne(t) \/ TakeNone(t) \/ AskActive(t) \/ TakeMany(t) \/ VisitChunk(t)
  PROVE  Quiet(t) /\ Spoiling /\ Grows
<1>1. at[t] \in {"take", "ask", "many", "visit"} /\ UNCHANGED chunkVars
  BY DEF TakeOne, TakeNone, AskActive, TakeMany, VisitChunk
<1>2. \E p \in {"idle", "take", "many", "visit", "publish", "check"} : \E l : Go(t, p, l)
  <2>1. ASSUME NEW got, Return(t, got) PROVE Go(t, "idle", Blank) BY <2>1 DEF Return
  <2>2. CASE TakeOne(t) BY <2>1, <2>2 DEF TakeOne, Continue
  <2>3. CASE TakeNone(t) BY <2>1, <2>3 DEF TakeNone, Continue
  <2>4. CASE AskActive(t) BY <2>4 DEF AskActive, Continue
  <2>5. CASE TakeMany(t) BY <2>1, <2>5 DEF TakeMany, Continue
  <2>6. CASE VisitChunk(t) BY <2>1, <2>6 DEF VisitChunk, Continue
  <2> QED BY <2>2, <2>3, <2>4, <2>5, <2>6
<1>3. PICK p \in {"idle", "take", "many", "visit", "publish", "check"} : \E l : Go(t, p, l)
  BY <1>2
<1>4. at'[t] = p /\ OthersKeep(t) BY <1>3, Moves DEF ClassInv
<1>5. Quiet(t) BY <1>1, <1>4 DEF Quiet, Making
<1>6. Spoiling BY StepSpoils DEF Acts, ClassStep
<1> QED BY <1>5, <1>6, QuietChunks DEF ClassInv

\* The object comes from a chunk that claims to be finished; it is, unless it is spoilt by
\* the very call that takes the object.
LEMMA RoomFit ==
  ASSUME ClassInv, Types', NEW t \in Threads, Quiet(t), Spoiling, Grows,
         NEW c \in Chunks, Enter(c), NEW o \in Room(c)
  PROVE  c \in 1 .. len /\ Fit(c)' /\ o \in Objects /\ o \notin taken /\ Placed(o)'
<1>1. ready[c] /\ o \in Objects /\ Contains(c, o) /\ o \notin taken
  BY DEF Room
<1>2. c \in 1 .. len /\ Claimed(c) BY <1>1, ReadyClaimed DEF ClassInv
<1>3. len' = len /\ base' = base BY DEF Quiet, chunkVars
<1>4. Fit(c)'
  <2>1. CASE Unsure(c)
    <3>1. base[c] \in spoilt' BY <2>1 DEF Enter
    <3> QED BY <1>2, <1>3, <3>1 DEF Fit, Claimed
  <2>2. CASE ~Unsure(c)
    <3>1. Fit(c) BY <1>1, <1>2, <2>2 DEF Unsure, Fit, Built, Claimed
    <3> QED BY <3>1, FitStays
  <2> QED BY <2>1, <2>2
<1>5. Placed(o)' BY <1>1, <1>2, <1>3, <1>4 DEF Placed, Holds, Contains
<1> QED BY <1>1, <1>2, <1>4, <1>5

\* A call takes the objects G, if any, and goes on.
LEMMA CallGoesOn ==
  ASSUME ClassInv, Types', Spoiling, NEW t \in Threads, at[t] \notin Making,
         NEW G \in SUBSET Objects, taken' = taken \union {o \in G : o[1] \notin spoilt'},
         G \intersect taken = {}, \A o \in G : Placed(o)',
         NEW p, p \notin Making, NEW l, Go(t, p, l),
         l.got \union l.obj \union l.todo \subseteq InHand(t) \union G,
         Cursor(t)', Seeking(t)',
         UNCHANGED <<chunkVars, active, inited, live>>
  PROVE  ClassInv'
<1>1. at'[t] = p /\ loc'[t] = l /\ OthersKeep(t)
  BY Moves DEF ClassInv
<1>2. Quiet(t) BY <1>1 DEF Quiet
<1>3. InHand(t)' \subseteq InHand(t) \union G BY <1>1 DEF InHand
<1>4. live \intersect Sound \subseteq taken /\ live \intersect InHand(t) \intersect Sound = {}
  BY DEF ClassInv, Owners
<1>5. Sound' \subseteq Sound BY DEF Sound, Spoiling
<1>6. Handles(t, G) BY <1>3, <1>4, <1>5 DEF Handles
<1> QED BY <1>2, <1>6, QuietStep

\* A call takes the objects G, if any, and returns.
LEMMA CallReturns ==
  ASSUME ClassInv, Types', Spoiling, NEW t \in Threads, at[t] \notin Making,
         NEW G \in SUBSET Objects, taken' = taken \union {o \in G : o[1] \notin spoilt'},
         G \intersect taken = {}, \A o \in G : Placed(o)',
         NEW got, got \subseteq InHand(t) \union G, Return(t, got),
         UNCHANGED <<chunkVars, active, inited>>
  PROVE  ClassInv'
<1>1. at'[t] = "idle" /\ loc'[t] = Blank /\ OthersKeep(t) /\ live' = live \union got
  BY Moves DEF ClassInv, Return
<1>2. Quiet(t) BY <1>1 DEF Quiet, Making
<1>3. InHand(t)' = {} BY <1>1, BlankFields DEF InHand
<1>4. Handles(t, G) BY <1>1, <1>3 DEF Handles
<1>5. Cursor(t)' BY <1>1 DEF Cursor, Creating, Building
<1>6. Seeking(t)' BY <1>1, BlankFields DEF Seeking
<1> QED BY <1>2, <1>4, <1>5, <1>6, QuietStep

\* A call returns at most what it has.
LEMMA CallEnds ==
  ASSUME ClassInv, Types', Spoiling, NEW t \in Threads, at[t] \notin Making,
         NEW got, got \subseteq InHand(t), Return(t, got),
         UNCHANGED <<chunkVars, taken, active, inited>>
  PROVE  ClassInv'
<1>1. {} \in SUBSET Objects /\ taken' = taken \union {o \in {} : o[1] \notin spoilt'}
      /\ {} \intersect taken = {} /\ got \subseteq InHand(t) \union {}
      /\ \A o \in {} : Placed(o)'
  OBVIOUS
<1>2. UNCHANGED <<chunkVars, active, inited>> OBVIOUS
<1> QED BY ONLY <1>1, <1>2, ClassInv, Types', Spoiling, t \in Threads, at[t] \notin Making,
               Return(t, got), CallReturns

\* A call goes on with what it has.
LEMMA CallMoves ==
  ASSUME ClassInv, Types', Spoiling, NEW t \in Threads, at[t] \notin Making,
         NEW p, p \notin Making, NEW l, Go(t, p, l),
         l.got \union l.obj \union l.todo \subseteq InHand(t),
         Cursor(t)', Seeking(t)',
         UNCHANGED <<chunkVars, taken, active, inited, live>>
  PROVE  ClassInv'
<1>1. {} \in SUBSET Objects /\ taken' = taken \union {o \in {} : o[1] \notin spoilt'}
      /\ {} \intersect taken = {}
      /\ l.got \union l.obj \union l.todo \subseteq InHand(t) \union {}
      /\ \A o \in {} : Placed(o)'
  OBVIOUS
<1>2. UNCHANGED <<chunkVars, active, inited, live>> OBVIOUS
<1> QED BY ONLY <1>1, <1>2, ClassInv, Types', Spoiling, t \in Threads, at[t] \notin Making,
               p \notin Making, Go(t, p, l), Cursor(t)', Seeking(t)', CallGoesOn

\* The fields of the locals after an update.
LEMMA LocalsFields ==
  ASSUME NEW l \in Locals
  PROVE  /\ \A objs : LET m == [l EXCEPT !.got = objs]
                      IN  m.got = objs /\ m.obj = l.obj /\ m.todo = l.todo /\ m.cur = l.cur
         /\ \A c : LET m == [l EXCEPT !.cur = c]
                   IN  /\ m.got = l.got /\ m.obj = l.obj /\ m.todo = l.todo /\ m.cur = c
                       /\ m.op = l.op /\ m.try = l.try /\ m.want = l.want
                       /\ m.region = l.region
         /\ \A c, try : LET m == [l EXCEPT !.cur = c, !.try = try]
                        IN  /\ m.got = l.got /\ m.obj = l.obj /\ m.todo = l.todo /\ m.cur = c
                            /\ m.op = l.op /\ m.try = try /\ m.want = l.want
         /\ \A r : LET m == [l EXCEPT !.region = r]
                   IN  /\ m.got = l.got /\ m.obj = l.obj /\ m.todo = l.todo /\ m.cur = l.cur
                       /\ m.op = l.op /\ m.try = l.try /\ m.region = r
BY DEF Locals

LEMMA TakeOneStep ==
  ASSUME ClassInv, Types', NEW t \in Threads, TakeOne(t)
  PROVE  ClassInv'
<1>a. loc[t] \in Locals /\ at[t] = "take" /\ loc[t].cur \in Chunks
  BY SizeClassAssumption DEF ClassInv, Types, TakeOne, Cursor, Chunks
<1>b. loc[t].obj = {} /\ loc[t].todo = {} BY <1>a DEF ClassInv, Seeking
<1>1. PICK o \in Room(loc[t].cur) :
        /\ taken' = taken \union {p \in {o} : p[1] \notin spoilt'}
        /\ IF loc[t].try = "found"
           THEN Continue(t, "publish", [loc[t] EXCEPT !.got = {o}])
           ELSE Return(t, {o})
  BY DEF TakeOne, SetBits
<1>c. Quiet(t) /\ Spoiling /\ Grows BY EntersQuietly
<1>n. PICK n \in Chunks : n = loc[t].cur BY <1>a
<1>2. /\ n \in 1 .. len /\ Fit(n)'
      /\ o \in Objects /\ o \notin taken /\ Placed(o)'
  <2>1. Enter(n) /\ o \in Room(n) BY <1>n DEF TakeOne
  <2> QED BY <1>c, <2>1, RoomFit
<1>3. UNCHANGED <<chunkVars, active, inited>> BY DEF TakeOne
<1>4. {o} \in SUBSET Objects /\ {o} \intersect taken = {} /\ \A x \in {o} : Placed(x)'
  BY <1>2
<1>5. CASE loc[t].try = "found"
  <2> DEFINE l == [loc[t] EXCEPT !.got = {o}]
  <2>1. Go(t, "publish", l) /\ live' = live BY <1>1, <1>5 DEF Continue
  <2>2. l.got = {o} /\ l.obj = {} /\ l.todo = {} /\ l.cur = loc[t].cur
    BY <1>a, <1>b, LocalsFields
  <2> HIDE DEF l
  <2>3. at'[t] = "publish" /\ loc'[t] = l BY <2>1, Moves DEF ClassInv
  <2>4. Cursor(t)'
    BY <1>n, <1>2, <1>3, <2>2, <2>3 DEF Cursor, Creating, Building, chunkVars
  <2>5. Seeking(t)' BY <2>2, <2>3 DEF Seeking
  <2> QED BY <1>a, <1>c, <1>1, <1>3, <1>4, <2>1, <2>2, <2>4, <2>5, CallGoesOn DEF Making
<1>6. CASE loc[t].try # "found"
  BY <1>a, <1>c, <1>1, <1>3, <1>4, <1>6, CallReturns DEF Making
<1> QED BY <1>5, <1>6

LEMMA TakeNoneStep ==
  ASSUME ClassInv, Types', NEW t \in Threads, TakeNone(t)
  PROVE  ClassInv'
<1>a. loc[t] \in Locals /\ at[t] = "take" BY DEF ClassInv, Types, TakeNone
<1>b. loc[t].obj = {} /\ loc[t].todo = {} BY <1>a DEF ClassInv, Seeking
<1>s. Spoiling BY StepSpoils DEF Acts, ClassStep
<1>1. UNCHANGED <<chunkVars, taken, active, inited>> BY DEF TakeNone, Continue
<1>2. len' = len /\ len \in Nat BY <1>1, SizeClassAssumption DEF chunkVars, ClassInv, Types
<1>3. CASE /\ loc[t].try = "active" /\ live' = live
           /\ Go(t, "visit", [loc[t] EXCEPT !.cur = 1, !.try = "found"])
  <2> DEFINE l == [loc[t] EXCEPT !.cur = 1, !.try = "found"]
  <2>1. l.got = loc[t].got /\ l.obj = {} /\ l.todo = {} /\ l.cur = 1 /\ l.op = loc[t].op
    BY <1>a, <1>b, LocalsFields
  <2>2. l.op # "batch" BY <1>a, <2>1 DEF ClassInv, Cursor
  <2>3. Go(t, "visit", l) BY <1>3
  <2> HIDE DEF l
  <2>4. at'[t] = "visit" /\ loc'[t] = l BY <2>3, Moves DEF ClassInv
  <2>5. 1 \in 1 .. len' + 1 BY <1>2
  <2>6. Cursor(t)' BY <2>1, <2>2, <2>4, <2>5 DEF Cursor, Creating, Building
  <2>7. Seeking(t)' BY <2>1, <2>4 DEF Seeking
  <2>8. l.got \union l.obj \union l.todo \subseteq InHand(t) BY <2>1 DEF InHand
  <2> QED BY <1>a, <1>s, <1>1, <1>3, <2>3, <2>6, <2>7, <2>8, CallMoves DEF Making
<1>4. CASE /\ live' = live
           /\ Go(t, "check", [loc[t] EXCEPT !.cur = 0, !.try = "new"])
  <2> DEFINE l == [loc[t] EXCEPT !.cur = 0, !.try = "new"]
  <2>1. l.got = loc[t].got /\ l.obj = {} /\ l.todo = {} /\ l.try = "new"
    BY <1>a, <1>b, LocalsFields
  <2>2. Go(t, "check", l) BY <1>4
  <2> HIDE DEF l
  <2>3. at'[t] = "check" /\ loc'[t] = l BY <2>2, Moves DEF ClassInv
  <2>4. Cursor(t)' BY <2>1, <2>3 DEF Cursor
  <2>5. Seeking(t)' BY <2>1, <2>3 DEF Seeking
  <2>6. l.got \union l.obj \union l.todo \subseteq InHand(t) BY <2>1 DEF InHand
  <2> QED BY <1>a, <1>s, <1>1, <1>4, <2>2, <2>4, <2>5, <2>6, CallMoves DEF Making
<1>5. CASE Return(t, {})
  BY <1>a, <1>s, <1>1, <1>5, CallEnds DEF Making
<1> QED BY <1>3, <1>4, <1>5 DEF TakeNone, Continue

LEMMA AskActiveStep ==
  ASSUME ClassInv, Types', NEW t \in Threads, AskActive(t)
  PROVE  ClassInv'
<1>a. loc[t] \in Locals /\ at[t] = "ask" BY DEF ClassInv, Types, AskActive
<1>b. loc[t].obj = {} /\ loc[t].todo = {} BY <1>a DEF ClassInv, Seeking
<1>c. Cardinality(loc[t].got) # loc[t].want /\ loc[t].try = "active" /\ loc[t].cur \in 1 .. len
  BY <1>a DEF ClassInv, Cursor
<1>s. Spoiling BY StepSpoils DEF Acts, ClassStep
<1>1. UNCHANGED <<chunkVars, taken, active, inited, live>> BY DEF AskActive, Continue
<1>2. len' \in Nat /\ len' = len BY <1>1, SizeClassAssumption DEF Types, chunkVars
<1>3. CASE Go(t, "visit", [loc[t] EXCEPT !.cur = 1, !.try = "found"])
  <2> DEFINE l == [loc[t] EXCEPT !.cur = 1, !.try = "found"]
  <2>1. /\ l.got = loc[t].got /\ l.obj = {} /\ l.todo = {} /\ l.cur = 1
        /\ l.try = "found" /\ l.want = loc[t].want
    BY <1>a, <1>b, LocalsFields
  <2>2. Go(t, "visit", l) BY <1>3
  <2> HIDE DEF l
  <2>3. at'[t] = "visit" /\ loc'[t] = l BY <2>2, Moves DEF ClassInv
  <2>4. 1 \in 1 .. len' + 1 BY <1>2
  <2>5. Cursor(t)' BY <1>c, <2>1, <2>3, <2>4 DEF Cursor, Creating, Building
  <2>6. Seeking(t)' BY <2>1, <2>3 DEF Seeking
  <2>7. l.got \union l.obj \union l.todo \subseteq InHand(t) BY <2>1 DEF InHand
  <2> QED BY <1>a, <1>s, <1>1, <2>2, <2>5, <2>6, <2>7, CallMoves DEF Making
<1>4. CASE Go(t, "many", loc[t])
  <2>1. at'[t] = "many" /\ loc'[t] = loc[t] BY <1>4, Moves DEF ClassInv
  <2>2. Cursor(t)' BY <1>c, <1>2, <2>1 DEF Cursor, Creating, Building
  <2>3. Seeking(t)' BY <1>b, <2>1 DEF Seeking
  <2>4. loc[t].got \union loc[t].obj \union loc[t].todo \subseteq InHand(t)
    BY DEF InHand
  <2> QED BY <1>a, <1>s, <1>1, <1>4, <2>2, <2>3, <2>4, CallMoves DEF Making
<1> QED BY <1>3, <1>4 DEF AskActive, Continue

\* The locals of a batch call that has got more objects.
LEMMA GotFields ==
  ASSUME NEW l \in Locals, NEW objs \in SUBSET Objects
  PROVE  /\ \A try \in Tries :
              LET m == [[l EXCEPT !.got = @ \union objs] EXCEPT !.try = try]
              IN  /\ m.got = l.got \union objs /\ m.obj = l.obj /\ m.todo = l.todo
                  /\ m.cur = l.cur
         /\ LET m == [[l EXCEPT !.got = @ \union objs] EXCEPT !.cur = 1, !.try = "found"]
            IN  /\ m.got = l.got \union objs /\ m.obj = l.obj /\ m.todo = l.todo
                /\ m.cur = 1 /\ m.try = "found" /\ m.want = l.want
BY DEF Locals

LEMMA TakeManyStep ==
  ASSUME ClassInv, Types', NEW t \in Threads, TakeMany(t)
  PROVE  ClassInv'
<1>a. /\ loc[t] \in Locals /\ at[t] = "many"
      /\ loc[t].cur \in 1 .. len /\ loc[t].cur \in Chunks
  BY SizeClassAssumption DEF ClassInv, Types, TakeMany, Cursor, Chunks
<1>b. loc[t].obj = {} /\ loc[t].todo = {} BY <1>a DEF ClassInv, Seeking
<1> DEFINE now(objs) == [loc[t] EXCEPT !.got = @ \union objs]
           done(objs) == Cardinality(now(objs).got) = loc[t].want
<1>c. Quiet(t) /\ Spoiling /\ Grows BY EntersQuietly
<1>n. PICK n \in Chunks : n = loc[t].cur BY <1>a
<1>1. PICK objs \in SUBSET Room(loc[t].cur) :
        /\ taken' = taken \union {o \in objs : o[1] \notin spoilt'}
        /\ \/ Return(t, now(objs).got)
           \/ /\ \/ loc[t].try = "found" /\ done(objs)
                 \/ loc[t].try = "new"
              /\ Go(t, "publish", [now(objs) EXCEPT !.try = IF objs = {} THEN "dry" ELSE @])
              /\ UNCHANGED live
           \/ /\ loc[t].try \in {"active", "found"} /\ ~done(objs)
              /\ Go(t, "visit", [now(objs) EXCEPT !.cur = 1, !.try = "found"])
              /\ UNCHANGED live
  BY DEF TakeMany, SetBits, Continue
<1>2. now(objs).got = loc[t].got \union objs BY <1>a DEF Locals
<1>3. UNCHANGED <<chunkVars, active, inited>> BY DEF TakeMany
<1>4. /\ objs \in SUBSET Objects /\ objs \intersect taken = {}
      /\ \A o \in objs : Placed(o)'
      /\ objs # {} => Fit(n)'
  <2>1. Enter(n) /\ \A o \in objs : o \in Room(n) BY <1>n DEF TakeMany
  <2>2. \A o \in objs : /\ o \in Objects /\ o \notin taken /\ Placed(o)'
                         /\ Fit(n)'
    BY <1>c, <2>1, RoomFit
  <2> QED BY <2>2
<1>5. len' = len /\ len \in Nat BY <1>3, SizeClassAssumption DEF chunkVars, ClassInv, Types
<1>6. CASE Return(t, now(objs).got)
  <2>1. now(objs).got \subseteq InHand(t) \union objs BY <1>2 DEF InHand
  <2> HIDE DEF now
  <2> QED BY <1>a, <1>c, <1>1, <1>3, <1>4, <1>6, <2>1, CallReturns DEF Making
<1>7. CASE /\ \/ loc[t].try = "found" /\ done(objs)
              \/ loc[t].try = "new"
           /\ Go(t, "publish", [now(objs) EXCEPT !.try = IF objs = {} THEN "dry" ELSE @])
           /\ UNCHANGED live
  <2> DEFINE try == IF objs = {} THEN "dry" ELSE loc[t].try
             l == [now(objs) EXCEPT !.try = try]
  <2>1. try \in Tries BY <1>a DEF Locals, Tries
  <2>2. l.got = loc[t].got \union objs /\ l.obj = {} /\ l.todo = {} /\ l.cur = loc[t].cur
    BY <1>a, <1>b, <1>4, <2>1, GotFields
  <2>3. Go(t, "publish", l)
    <3>1. now(objs).try = loc[t].try BY <1>a DEF Locals
    <3> QED BY <1>7, <3>1
  <2>4. Fit(n)'
    <3>1. CASE loc[t].try = "new"
      <4>1. Fit(n) BY <1>a, <1>n, <3>1 DEF ClassInv, Cursor
      <4> QED BY <1>c, <4>1, FitStays
    <3>2. CASE loc[t].try = "found" /\ done(objs)
      <4>1. Cardinality(loc[t].got) # loc[t].want BY <1>a, <3>2 DEF ClassInv, Cursor
      <4>2. objs # {}
        <5>1. objs = {} => loc[t].got \union objs = loc[t].got OBVIOUS
        <5> QED BY <1>2, <3>2, <4>1, <5>1
      <4> QED BY <1>4, <4>2
    <3> QED BY <1>7, <3>1, <3>2
  <2> HIDE DEF l, now, done
  <2>5. at'[t] = "publish" /\ loc'[t] = l BY <2>3, Moves DEF ClassInv
  <2>6. Cursor(t)'
    BY <1>a, <1>n, <1>3, <2>2, <2>4, <2>5 DEF Cursor, Creating, Building, chunkVars
  <2>7. Seeking(t)' BY <2>2, <2>5 DEF Seeking
  <2>8. l.got \union l.obj \union l.todo \subseteq InHand(t) \union objs BY <2>2 DEF InHand
  <2>9. "publish" \notin Making /\ at[t] \notin Making BY <1>a DEF Making
  <2> QED BY <1>c, <1>1, <1>3, <1>4, <1>7, <2>3, <2>6, <2>7, <2>8, <2>9, CallGoesOn
<1>8. CASE /\ loc[t].try \in {"active", "found"} /\ ~done(objs)
           /\ Go(t, "visit", [now(objs) EXCEPT !.cur = 1, !.try = "found"])
           /\ UNCHANGED live
  <2> DEFINE l == [now(objs) EXCEPT !.cur = 1, !.try = "found"]
  <2>1. /\ l.got = loc[t].got \union objs /\ l.obj = {} /\ l.todo = {} /\ l.cur = 1
        /\ l.try = "found" /\ l.want = loc[t].want
    BY <1>a, <1>b, <1>4, GotFields
  <2>2. Go(t, "visit", l) BY <1>8
  <2>3. Cardinality(l.got) # l.want BY <1>2, <1>8, <2>1
  <2> HIDE DEF l, now, done
  <2>4. at'[t] = "visit" /\ loc'[t] = l BY <2>2, Moves DEF ClassInv
  <2>5. 1 \in 1 .. len' + 1 BY <1>5
  <2>6. Cursor(t)' BY <2>1, <2>3, <2>4, <2>5 DEF Cursor, Creating, Building
  <2>7. Seeking(t)' BY <2>1, <2>4 DEF Seeking
  <2>8. l.got \union l.obj \union l.todo \subseteq InHand(t) \union objs BY <2>1 DEF InHand
  <2>9. "visit" \notin Making /\ at[t] \notin Making BY <1>a DEF Making
  <2> QED BY <1>c, <1>1, <1>3, <1>4, <1>8, <2>2, <2>6, <2>7, <2>8, <2>9, CallGoesOn
<1> QED BY <1>1, <1>6, <1>7, <1>8

LEMMA VisitChunkStep ==
  ASSUME ClassInv, Types', NEW t \in Threads, VisitChunk(t)
  PROVE  ClassInv'
<1>a. /\ loc[t] \in Locals /\ at[t] = "visit"
      /\ loc[t].cur \in 1 .. len + 1 /\ loc[t].cur <= len
  BY DEF ClassInv, Types, VisitChunk, Cursor
<1>b. loc[t].obj = {} /\ loc[t].todo = {} BY <1>a DEF ClassInv, Seeking
<1>c. loc[t].op = "batch" => loc[t].try = "found" /\ Cardinality(loc[t].got) # loc[t].want
  BY <1>a DEF ClassInv, Cursor
<1>s. Spoiling BY StepSpoils DEF Acts, ClassStep
<1>1. UNCHANGED <<chunkVars, taken, active, inited>> BY DEF VisitChunk, Continue
<1>2. len' = len /\ len \in Nat BY <1>1, SizeClassAssumption DEF chunkVars, ClassInv, Types
<1>3. CASE Go(t, "visit", [loc[t] EXCEPT !.cur = @ + 1]) /\ UNCHANGED live
  <2> DEFINE l == [loc[t] EXCEPT !.cur = loc[t].cur + 1]
  <2>1. /\ l.got = loc[t].got /\ l.obj = {} /\ l.todo = {} /\ l.cur = loc[t].cur + 1
        /\ l.op = loc[t].op /\ l.try = loc[t].try /\ l.want = loc[t].want
    BY <1>a, <1>b, LocalsFields
  <2>2. Go(t, "visit", l) BY <1>3
  <2> HIDE DEF l
  <2>3. at'[t] = "visit" /\ loc'[t] = l BY <2>2, Moves DEF ClassInv
  <2>4. loc[t].cur + 1 \in 1 .. len' + 1 BY <1>a, <1>2
  <2>5. Cursor(t)' BY <1>c, <2>1, <2>3, <2>4 DEF Cursor, Creating, Building
  <2>6. Seeking(t)' BY <2>1, <2>3 DEF Seeking
  <2>7. l.got \union l.obj \union l.todo \subseteq InHand(t) BY <2>1 DEF InHand
  <2> QED BY <1>a, <1>s, <1>1, <1>3, <2>2, <2>5, <2>6, <2>7, CallMoves DEF Making
<1>4. CASE Go(t, IF loc[t].op = "batch" THEN "many" ELSE "take", loc[t]) /\ UNCHANGED live
  <2> DEFINE p == IF loc[t].op = "batch" THEN "many" ELSE "take"
  <2>1. at'[t] = p /\ loc'[t] = loc[t] BY <1>4, Moves DEF ClassInv
  <2>2. loc[t].cur \in 1 .. len' BY <1>a, <1>2
  <2>3. Cursor(t)'
    BY <1>c, <2>1, <2>2 DEF Cursor, Creating, Building
  <2>4. Seeking(t)' BY <1>b, <2>1 DEF Seeking
  <2>5. p \notin Making BY DEF Making
  <2>6. loc[t].got \union loc[t].obj \union loc[t].todo \subseteq InHand(t) BY DEF InHand
  <2> QED BY <1>a, <1>s, <1>1, <1>4, <2>3, <2>4, <2>5, <2>6, CallMoves DEF Making
<1>5. CASE Return(t, {})
  BY <1>a, <1>s, <1>1, <1>5, CallEnds DEF Making
<1> QED BY <1>3, <1>4, <1>5 DEF VisitChunk, Continue

LEMMA VisitEndsStep ==
  ASSUME ClassInv, Types', NEW t \in Threads, VisitEnds(t)
  PROVE  ClassInv'
<1>a. loc[t] \in Locals /\ at[t] = "visit" BY DEF ClassInv, Types, VisitEnds
<1>b. loc[t].obj = {} /\ loc[t].todo = {} BY <1>a DEF ClassInv, Seeking
<1>s. Spoiling BY StepSpoils DEF Acts, ClassStep
<1>1. UNCHANGED <<chunkVars, taken, active, inited>> BY DEF VisitEnds, bitVars
<1>2. CASE Continue(t, "check", [loc[t] EXCEPT !.cur = 0, !.try = "new"])
  <2> DEFINE l == [loc[t] EXCEPT !.cur = 0, !.try = "new"]
  <2>1. l.got = loc[t].got /\ l.obj = {} /\ l.todo = {} /\ l.try = "new"
    BY <1>a, <1>b, LocalsFields
  <2>2. Go(t, "check", l) /\ live' = live BY <1>2 DEF Continue
  <2> HIDE DEF l
  <2>3. at'[t] = "check" /\ loc'[t] = l BY <2>2, Moves DEF ClassInv
  <2>4. Cursor(t)' BY <2>1, <2>3 DEF Cursor
  <2>5. Seeking(t)' BY <2>1, <2>3 DEF Seeking
  <2>6. l.got \union l.obj \union l.todo \subseteq InHand(t) BY <2>1 DEF InHand
  <2> QED BY <1>a, <1>s, <1>1, <2>2, <2>4, <2>5, <2>6, CallMoves DEF Making
<1>3. CASE Return(t, {})
  BY <1>a, <1>s, <1>1, <1>3, CallEnds DEF Making
<1> QED BY <1>2, <1>3 DEF VisitEnds

LEMMA CheckCountStep ==
  ASSUME ClassInv, Types', NEW t \in Threads, CheckCount(t)
  PROVE  ClassInv'
<1>a. /\ loc[t] \in Locals /\ at[t] = "check" /\ loc[t].try = "new"
      /\ loc[t].obj = {} /\ loc[t].todo = {}
  BY DEF ClassInv, Types, CheckCount, Cursor, Creating, Seeking
<1>s. Spoiling BY StepSpoils DEF Acts, ClassStep, CreateChunk
<1>1. UNCHANGED <<chunkVars, taken, active, inited>> BY DEF CheckCount, bitVars
<1>2. loc[t].got \union loc[t].obj \union loc[t].todo \subseteq InHand(t) BY DEF InHand
<1>3. CASE Return(t, loc[t].got)
  BY <1>a, <1>s, <1>1, <1>2, <1>3, CallEnds DEF Making
<1>4. CASE Continue(t, "extent", loc[t])
  <2>1. Go(t, "extent", loc[t]) /\ live' = live BY <1>4 DEF Continue
  <2>2. at'[t] = "extent" /\ loc'[t] = loc[t] BY <2>1, Moves DEF ClassInv
  <2>3. Cursor(t)' BY <1>a, <2>2 DEF Cursor
  <2>4. Seeking(t)' BY <1>a, <2>2 DEF Seeking
  <2> QED BY <1>a, <1>s, <1>1, <1>2, <2>1, <2>3, <2>4, CallMoves DEF Making
<1> QED BY <1>3, <1>4 DEF CheckCount, NoChunk

\* Only chunks that are finished are published.
LEMMA PublishStep ==
  ASSUME ClassInv, Types', NEW t \in Threads, Publish(t)
  PROVE  ClassInv'
<1> USE DEF ClassInv
<1>a. /\ loc[t] \in Locals /\ at[t] = "publish"
      /\ loc[t].cur \in 1 .. len /\ Fit(loc[t].cur)
      /\ loc[t].obj = {} /\ loc[t].todo = {}
  BY DEF Types, Publish, Cursor, Seeking
<1>1. UNCHANGED <<chunkVars, taken, spoilt>> /\ active' = loc[t].cur /\ inited' = TRUE
  BY DEF Publish, bitVars
<1>s. Spoiling BY <1>1 DEF Spoiling, Sound
<1>2. len' = len /\ flag' = flag /\ base' = base /\ ready' = ready BY <1>1 DEF chunkVars
<1> DEFINE Passes == /\ OthersKeep(t) /\ at'[t] \notin Making /\ Cursor(t)' /\ Seeking(t)'
                     /\ live' \union InHand(t)' \subseteq live \union InHand(t)
                     /\ live' \intersect InHand(t)' \intersect Sound = {}
<1>4. Passes
  <2>a. live \intersect InHand(t) \intersect Sound = {} BY DEF Owners
  <2>1. ASSUME NEW got \in SUBSET loc[t].got, Return(t, got)
        PROVE  Passes
    <3>1. at'[t] = "idle" /\ loc'[t] = Blank /\ OthersKeep(t) /\ live' = live \union got
      BY <2>1, Moves DEF Return
    <3>2. Cursor(t)' /\ Seeking(t)'
      BY <3>1, BlankFields DEF Cursor, Creating, Building, Seeking
    <3>3. InHand(t)' = {} BY <3>1, BlankFields DEF InHand
    <3> QED BY <3>1, <3>2, <3>3 DEF InHand, Making
  <2>2. CASE loc[t].op = "allocate" /\ loc[t].try = "new" /\ Continue(t, "take", loc[t])
    <3>1. at'[t] = "take" /\ loc'[t] = loc[t] /\ OthersKeep(t) /\ live' = live
      BY <2>2, Moves DEF Continue
    <3>2. Cursor(t)' /\ Seeking(t)'
      BY <1>a, <1>2, <2>2, <3>1 DEF Cursor, Creating, Building, Seeking
    <3>3. InHand(t)' = InHand(t) BY <3>1 DEF InHand
    <3> QED BY <2>a, <3>1, <3>2, <3>3 DEF Making
  <2>3. CASE loc[t].try = "new" /\ Continue(t, "check", [loc[t] EXCEPT !.cur = 0])
    <3> DEFINE l == [loc[t] EXCEPT !.cur = 0]
    <3>1. l.got = loc[t].got /\ l.obj = {} /\ l.todo = {} /\ l.try = "new"
      BY <1>a, <2>3, LocalsFields
    <3>2. Continue(t, "check", l) BY <2>3
    <3> HIDE DEF l
    <3>3. at'[t] = "check" /\ loc'[t] = l /\ OthersKeep(t) /\ live' = live
      BY <3>2, Moves DEF Continue
    <3>4. Cursor(t)' /\ Seeking(t)' BY <3>1, <3>3 DEF Cursor, Seeking
    <3>5. InHand(t)' = InHand(t) BY <1>a, <3>1, <3>3 DEF InHand
    <3> QED BY <2>a, <3>3, <3>4, <3>5 DEF Making
  <2>4. \/ \E got \in SUBSET loc[t].got : Return(t, got)
        \/ loc[t].op = "allocate" /\ loc[t].try = "new" /\ Continue(t, "take", loc[t])
        \/ loc[t].try = "new" /\ Continue(t, "check", [loc[t] EXCEPT !.cur = 0])
    BY DEF Publish
  <2> QED BY <2>1, <2>2, <2>3, <2>4
<1>5. Quiet(t) BY <1>a, <1>1, <1>4 DEF Quiet, Making
<1>6. Construction' /\ Regional' /\ Grows BY <1>s, <1>5, QuietChunks
<1>7. Owners'
  <2>1. Handles(t, {}) BY <1>1, <1>4 DEF Handles, Sound
  <2> QED BY <1>s, <1>4, <1>6, <2>1, OwnersAfterHandling
<1>8. ASSUME NEW u \in Threads, u # t PROVE Cursor(u)' /\ Seeking(u)'
  <2>1. at'[u] = at[u] /\ loc'[u] = loc[u] BY <1>4, <1>8 DEF OthersKeep
  <2> QED BY <1>s, <1>6, <2>1, OthersKnow
<1>9. ActiveReady' /\ active' \in 1 .. len'
  <2>1. PICK n \in Chunks : n = loc[t].cur BY <1>a, SizeClassAssumption DEF Types, Chunks
  <2>2. Fit(n)' /\ n # 0 BY <1>a, <1>s, <1>6, <2>1, FitStays, SizeClassAssumption DEF Chunks
  <2> QED BY <1>a, <1>1, <1>2, <2>1, <2>2 DEF ActiveReady, Fit, Built
<1> QED BY <1>9, <1>4, <1>6, <1>7, <1>8

\* An object that is given back leaves its call, and becomes free.
LEMMA OwnersAfterFree ==
  ASSUME Types, Types', Owners, Grows, NEW t \in Threads, OthersKeep(t),
         UNCHANGED <<spoilt, live>>,
         NEW o \in InHand(t), taken' = taken \ {o}, InHand(t)' \subseteq InHand(t) \ {o}
  PROVE  Owners'
<1>s. Spoiling /\ Sound' = Sound BY DEF Spoiling, Sound
<1>1. \A u \in Threads \ {t} : /\ InHand(u)' = InHand(u)
                               /\ o \in Sound => o \notin InHand(u)
  BY DEF OthersKeep, InHand, Owners
<1>2. o \in Sound => o \notin live BY DEF Owners
<1>3. \A p : Placed(p) => Placed(p)' BY <1>s, PlacesStay
<1>4. taken' \subseteq Sound' /\ live' \intersect Sound' \subseteq taken'
  BY <1>s, <1>2 DEF Owners
<1>5. \A p \in taken' \union live' : Placed(p)' BY <1>3 DEF Owners
<1>6. \A u \in Threads : /\ \A p \in InHand(u)' : Placed(p)'
                         /\ InHand(u)' \intersect Sound' \subseteq taken'
                         /\ InHand(u)' \intersect Sound' \intersect live' = {}
  <2>1. /\ \A p \in InHand(t)' : Placed(p)'
        /\ InHand(t)' \intersect Sound' \subseteq taken'
        /\ InHand(t)' \intersect Sound' \intersect live' = {}
    BY <1>s, <1>3 DEF Owners
  <2>2. ASSUME NEW u \in Threads \ {t}
        PROVE  /\ \A p \in InHand(u)' : Placed(p)'
               /\ InHand(u)' \intersect Sound' \subseteq taken'
               /\ InHand(u)' \intersect Sound' \intersect live' = {}
    BY <1>s, <1>1, <1>3 DEF Owners
  <2> QED BY <2>1, <2>2
<1>7. \A u, v \in Threads : u # v => InHand(u)' \intersect InHand(v)' \intersect Sound' = {}
  BY <1>s, <1>1 DEF Owners
<1> QED BY <1>4, <1>5, <1>6, <1>7 DEF Owners

\* A deallocation that is done with an object has the next one in its hands, or returns.
LEMMA NextStep ==
  ASSUME ClassInv, Types', NEW t \in Threads, at[t] \in {"seek", "lower"}, loc[t].got = {},
         NextObject(t), UNCHANGED <<chunkVars, spoilt>>
  PROVE  /\ Quiet(t) /\ Spoiling /\ Grows /\ Cursor(t)' /\ Seeking(t)'
         /\ live' = live /\ InHand(t)' \subseteq loc[t].todo
<1> USE DEF ClassInv
<1>a. loc[t] \in Locals /\ len \in Nat /\ len' = len
  BY SizeClassAssumption DEF Types, chunkVars
<1>s. Spoiling BY DEF Spoiling, Sound
<1>1. CASE \E p \in loc[t].todo :
             Continue(t, "seek", [loc[t] EXCEPT !.cur = Restart(@), !.obj = {p}, !.todo = @ \ {p}])
  <2>1. PICK p \in loc[t].todo :
          Continue(t, "seek", [loc[t] EXCEPT !.cur = 1, !.obj = {p}, !.todo = @ \ {p}])
    BY <1>1 DEF Restart
  <2> DEFINE l == [loc[t] EXCEPT !.cur = 1, !.obj = {p}, !.todo = @ \ {p}]
  <2>2. p \in Objects /\ p \in InHand(t) BY <1>a DEF Locals, InHand
  <2>3. l.got = {} /\ l.obj = {p} /\ l.todo = loc[t].todo \ {p} /\ l.cur = 1
    BY <1>a DEF Locals
  <2>4. Go(t, "seek", l) /\ live' = live BY <2>1 DEF Continue
  <2> HIDE DEF l
  <2>5. at'[t] = "seek" /\ loc'[t] = l /\ OthersKeep(t) BY <2>4, Moves
  <2>6. Quiet(t) BY <2>5 DEF Quiet, Making
  <2>7. Grows BY <1>s, <2>6, QuietChunks
  <2>8. 1 \in 1 .. len' + 1 BY <1>a
  <2>9. Cursor(t)' BY <2>3, <2>5, <2>8 DEF Cursor, Creating, Building
  <2>10. Placed(p)'
    <3>1. Placed(p) BY <2>2 DEF Owners
    <3> QED BY <1>s, <2>7, <3>1, PlacesStay
  <2>11. Seeking(t)' BY <2>2, <2>3, <2>5, <2>10 DEF Seeking, Placed
  <2>12. InHand(t)' \subseteq loc[t].todo BY <2>3, <2>5 DEF InHand
  <2> QED BY <1>s, <2>4, <2>6, <2>7, <2>9, <2>11, <2>12
<1>2. CASE Return(t, {})
  <2>1. at'[t] = "idle" /\ loc'[t] = Blank /\ OthersKeep(t) /\ live' = live
    BY <1>2, Moves DEF Return
  <2>2. Cursor(t)' /\ Seeking(t)'
    BY <2>1, BlankFields DEF Cursor, Creating, Building, Seeking
  <2>3. InHand(t)' = {} BY <2>1, BlankFields DEF InHand
  <2>4. Quiet(t) BY <2>1 DEF Quiet, Making
  <2> QED BY <1>s, <2>1, <2>2, <2>3, <2>4, QuietChunks
<1> QED BY <1>1, <1>2 DEF NextObject

\* What it does with the objects that are still to come.
LEMMA PassesOn ==
  ASSUME ClassInv, Types', NEW t \in Threads, at[t] \in {"seek", "lower"}, loc[t].got = {},
         NextObject(t), UNCHANGED <<chunkVars, spoilt, taken, active, inited>>
  PROVE  ClassInv'
<1>1. /\ Quiet(t) /\ Spoiling /\ Cursor(t)' /\ Seeking(t)'
      /\ live' = live /\ InHand(t)' \subseteq InHand(t)
  BY NextStep DEF InHand
<1>2. live \intersect InHand(t) \intersect Sound = {} /\ Sound' = Sound
  BY DEF ClassInv, Owners, Sound
<1>3. Handles(t, {}) BY <1>1, <1>2 DEF Handles
<1> QED BY <1>1, <1>3, QuietStep

\* deallocate() does not come past the chunk of its object.
LEMMA SeekStep ==
  ASSUME ClassInv, Types', NEW t \in Threads, Seek(t)
  PROVE  ClassInv'
<1> USE DEF ClassInv
<1>a. /\ loc[t] \in Locals /\ at[t] = "seek" /\ loc[t].cur \in 1 .. len + 1
      /\ len \in 0 .. ChunkMaxCount
  BY DEF Types, Seek, Cursor
<1>b. PICK o \in Objects : /\ loc[t].obj = {o} /\ o \notin loc[t].todo /\ loc[t].got = {}
                           /\ \E c \in loc[t].cur .. len : Holds(c, o)
  BY <1>a DEF Seeking
<1>c. PICK c \in loc[t].cur .. len : Holds(c, o) BY <1>b
<1>d. UNCHANGED <<chunkVars, spoilt, active, inited>> /\ len' = len
  BY DEF Seek, chunkVars
<1>s. Spoiling BY <1>d DEF Spoiling, Sound
<1>1. CASE /\ ~Contains(loc[t].cur, o) /\ taken' = taken
           /\ Continue(t, "seek", [loc[t] EXCEPT !.cur = loc[t].cur + 1])
  <2> DEFINE l == [loc[t] EXCEPT !.cur = loc[t].cur + 1]
  <2>1. l.got = {} /\ l.obj = {o} /\ l.todo = loc[t].todo /\ l.cur = loc[t].cur + 1
    BY <1>a, <1>b, LocalsFields
  <2>2. Go(t, "seek", l) /\ live' = live BY <1>1 DEF Continue
  <2> HIDE DEF l
  <2>3. at'[t] = "seek" /\ loc'[t] = l /\ OthersKeep(t) BY <2>2, Moves
  <2>4. c # loc[t].cur BY <1>c, <1>1 DEF Holds
  <2>5. c \in loc[t].cur + 1 .. len' /\ loc[t].cur + 1 \in 1 .. len' + 1 /\ c \in Chunks
    BY <1>a, <1>c, <1>d, <2>4, SizeClassAssumption DEF Chunks
  <2>6. Cursor(t)' BY <2>1, <2>3, <2>5 DEF Cursor, Creating, Building
  <2>7. Holds(c, o)'
    <3>1. Quiet(t) BY <1>a, <1>d, <2>3 DEF Quiet, Making
    <3>2. Grows BY <1>s, <3>1, QuietChunks
    <3> QED BY <1>c, <1>s, <2>5, <3>2, FitStays DEF Holds, Contains
  <2>8. Seeking(t)' BY <1>b, <2>1, <2>3, <2>5, <2>7 DEF Seeking
  <2>9. l.got \union l.obj \union l.todo \subseteq InHand(t) BY <1>b, <2>1 DEF InHand
  <2> QED BY <1>a, <1>d, <1>s, <1>1, <2>2, <2>6, <2>8, <2>9, CallMoves DEF Making
<1>2. CASE taken' = taken \ {o} /\ Continue(t, "lower", [loc[t] EXCEPT !.obj = {}])
  <2> DEFINE l == [loc[t] EXCEPT !.obj = {}]
  <2>1. l.got = {} /\ l.obj = {} /\ l.todo = loc[t].todo BY <1>a, <1>b DEF Locals
  <2>2. Go(t, "lower", l) /\ live' = live BY <1>2 DEF Continue
  <2> HIDE DEF l
  <2>3. at'[t] = "lower" /\ loc'[t] = l /\ OthersKeep(t) BY <2>2, Moves
  <2>4. Quiet(t) BY <1>a, <1>d, <2>3 DEF Quiet, Making
  <2>5. Construction' /\ Regional' /\ Grows BY <1>s, <2>4, QuietChunks
  <2>6. Cursor(t)' /\ Seeking(t)' BY <2>1, <2>3 DEF Cursor, Creating, Building, Seeking
  <2>7. Owners'
    <3>1. o \in InHand(t) /\ InHand(t)' \subseteq InHand(t) \ {o}
      BY <1>b, <2>1, <2>3 DEF InHand
    <3> QED BY <1>d, <1>2, <2>2, <2>3, <2>5, <3>1, OwnersAfterFree
  <2>8. ASSUME NEW u \in Threads, u # t PROVE Cursor(u)' /\ Seeking(u)'
    <3>1. at'[u] = at[u] /\ loc'[u] = loc[u] BY <2>3, <2>8 DEF OthersKeep
    <3> QED BY <1>s, <2>5, <3>1, OthersKnow
  <2>9. ActiveReady' /\ (inited' => active' \in 1 .. len')
    BY <1>d, <1>s, <2>5, ActiveStays
  <2> QED BY <2>5, <2>6, <2>7, <2>8, <2>9
<1>3. CASE NextObject(t) /\ taken' = taken
  BY <1>a, <1>b, <1>d, <1>3, PassesOn
<1>4. PICK p \in loc[t].obj :
        \/ /\ ~Contains(loc[t].cur, p) /\ taken' = taken
           /\ Continue(t, "seek", [loc[t] EXCEPT !.cur = loc[t].cur + 1])
        \/ taken' = taken \ {p} /\ Continue(t, "lower", [loc[t] EXCEPT !.obj = {}])
        \/ NextObject(t) /\ taken' = taken
  BY DEF Seek, Clear
<1>5. p = o BY <1>b, <1>4
<1> QED BY <1>1, <1>2, <1>3, <1>4, <1>5

LEMMA LowerStep ==
  ASSUME ClassInv, Types', NEW t \in Threads, Lower(t)
  PROVE  ClassInv'
<1>1. at[t] = "lower" /\ loc[t].got = {} BY DEF Lower, ClassInv, Seeking
<1>2. NextObject(t) /\ UNCHANGED <<chunkVars, spoilt, taken, active, inited>> BY DEF Lower
<1> QED BY <1>1, <1>2, PassesOn

-----------------------------------------------------------------------------
(* The steps that create a chunk.                                          *)

\* What such a step leaves to show.
LEMMA CreateStep ==
  ASSUME ClassInv, Types', NEW t \in Threads, OthersKeep(t), Grows,
         Construction', Regional', Cursor(t)', Seeking(t)',
         UNCHANGED <<spoilt, taken, active, inited>>,
         live' \union InHand(t)' \subseteq live \union InHand(t),
         live' \intersect InHand(t)' \intersect Sound = {}
  PROVE  ClassInv'
<1> USE DEF ClassInv
<1>s. Spoiling /\ Sound' = Sound BY DEF Spoiling, Sound
<1>1. {} \in SUBSET Objects /\ Handles(t, {})
  <2>1. taken' = taken \union {o \in {} : o[1] \notin spoilt'} /\ {} \intersect taken = {}
    OBVIOUS
  <2>2. live' \union InHand(t)' \subseteq live \union InHand(t) \union {} OBVIOUS
  <2> QED BY <1>s, <2>1, <2>2 DEF Handles
<1>2. Owners' BY <1>s, <1>1, OwnersAfterHandling
<1>3. ASSUME NEW u \in Threads, u # t PROVE Cursor(u)' /\ Seeking(u)'
  <2>1. at'[u] = at[u] /\ loc'[u] = loc[u] BY <1>3 DEF OthersKeep
  <2> QED BY <1>s, <2>1, OthersKnow
<1>4. ActiveReady' /\ (inited' => active' \in 1 .. len')
  BY <1>s, ActiveStays
<1> QED BY <1>2, <1>3, <1>4

\* create_new_chunk() fails, and with it the call.
LEMMA GivesUp ==
  ASSUME ClassInv, NEW t \in Threads, NoChunk(t)
  PROVE  /\ at'[t] = "idle" /\ OthersKeep(t) /\ Cursor(t)' /\ Seeking(t)'
         /\ live' \union InHand(t)' \subseteq live \union InHand(t)
         /\ live' \intersect InHand(t)' \intersect Sound = {}
<1>1. at'[t] = "idle" /\ loc'[t] = Blank /\ OthersKeep(t) /\ live' = live \union loc[t].got
  BY Moves DEF ClassInv, NoChunk, Return
<1>2. Cursor(t)' /\ Seeking(t)'
  BY <1>1, BlankFields DEF Cursor, Creating, Building, Seeking
<1>3. InHand(t)' = {} BY <1>1, BlankFields DEF InHand
<1> QED BY <1>1, <1>2, <1>3 DEF InHand

\* It goes on, with the same objects.
LEMMA GoesOn ==
  ASSUME ClassInv, NEW t \in Threads, Creating(t), NEW p,
         p \in {"extent", "emplace", "setFlag", "setBase", "group", "build", "giveBack", "count"},
         NEW l, Continue(t, p, l),
         l.got = loc[t].got, l.obj = loc[t].obj, l.todo = loc[t].todo, l.try = loc[t].try
  PROVE  /\ at'[t] = p /\ loc'[t] = l /\ OthersKeep(t) /\ Cursor(t)' /\ Seeking(t)'
         /\ live' \union InHand(t)' \subseteq live \union InHand(t)
         /\ live' \intersect InHand(t)' \intersect Sound = {}
<1>1. at'[t] = p /\ loc'[t] = l /\ OthersKeep(t) /\ live' = live
  BY Moves DEF ClassInv, Continue
<1>2. l.try = "new" /\ l.obj = {} /\ l.todo = {}
  BY DEF ClassInv, Cursor, Seeking, Creating, Building
<1>3. Cursor(t)' /\ Seeking(t)'
  BY <1>1, <1>2 DEF Cursor, Seeking
<1>4. InHand(t)' = InHand(t) BY <1>1 DEF InHand
<1> QED BY <1>1, <1>3, <1>4 DEF ClassInv, Owners

\* Where all chunks stay as they are and no construction starts or ends.
LEMMA SameChunks ==
  ASSUME Types, Construction, NEW t \in Threads, ~Building(t), OthersKeep(t), ~Building(t)',
         UNCHANGED <<len, flag, base, ready, spoilt>>
  PROVE  Construction' /\ Grows
<1>1. \A u \in Threads : /\ Building(u)' <=> Building(u)
                         /\ Building(u) => at'[u] = at[u] /\ loc'[u] = loc[u]
                         /\ at'[u] = "build" <=> at[u] = "build"
  BY DEF OthersKeep, Building
<1>2. Construction'
  <2>1. \A u \in Threads : \A c : Building(u) => (Stage(u, c)' <=> Stage(u, c))
    BY <1>1 DEF Stage, Claimed
  <2>2. \A c \in 1 .. len : \/ Claimed(c)' \/ Dead(c)'
                            \/ \E u \in Threads : Building(u)' /\ loc'[u].cur = c
    BY <1>1 DEF Construction, Claimed, Dead, Failed
  <2>3. /\ \A u \in Threads : Building(u)' => loc'[u].cur \in 1 .. len' /\ Stage(u, loc[u].cur)'
        /\ \A u, v \in Threads :
             u # v /\ Building(u)' /\ Building(v)' => loc'[u].cur # loc'[v].cur
        /\ \A c \in Chunks : c > len' => ~flag'[c] /\ base'[c] = None /\ ~ready'[c]
    BY <1>1, <2>1 DEF Construction
  <2> QED BY <2>2, <2>3 DEF Construction
<1>3. \A c : HalfBuilt(c)' <=> HalfBuilt(c)
  BY <1>1 DEF HalfBuilt, Building
<1>4. Grows BY <1>3, SizeClassAssumption DEF Grows, Types, Built
<1> QED BY <1>2, <1>4

LEMMA AllocateRegionStep ==
  ASSUME ClassInv, Types', NEW t \in Threads, AllocateRegion(t)
  PROVE  ClassInv'
<1> USE DEF ClassInv
<1>a. loc[t] \in Locals /\ at[t] = "extent" /\ Creating(t)
  BY DEF Types, AllocateRegion, Creating
<1>b. ~Building(t) /\ ~Carrying(t) /\ at[t] \notin {"group", "build"}
  BY <1>a DEF Building, Carrying
<1>1. len' = len /\ flag' = flag /\ base' = base /\ ready' = ready
      /\ UNCHANGED <<spoilt, taken, active, inited>>
  BY DEF AllocateRegion, bitVars
<1>3. CASE extents = {}
  <2>1. NoChunk(t) /\ extents' = extents BY <1>3 DEF AllocateRegion
  <2>2. at'[t] = "idle" /\ OthersKeep(t) BY <2>1, GivesUp
  <2>3. Quiet(t) /\ Spoiling
    BY <1>a, <1>1, <2>1, <2>2 DEF Quiet, Making, chunkVars, Spoiling, Sound
  <2>4. Construction' /\ Regional' /\ Grows BY <2>3, QuietChunks
  <2> QED BY <1>1, <2>1, <2>4, GivesUp, CreateStep
<1>4. CASE extents # {}
  <2>1. PICK r \in extents : /\ extents' = extents \ {r}
                             /\ Continue(t, "emplace", [loc[t] EXCEPT !.region = r])
    BY <1>4 DEF AllocateRegion
  <2> DEFINE l == [loc[t] EXCEPT !.region = r]
  <2>2. /\ l.got = loc[t].got /\ l.obj = loc[t].obj /\ l.todo = loc[t].todo
        /\ l.try = loc[t].try /\ l.region = r
    BY <1>a, LocalsFields
  <2>3. Continue(t, "emplace", l) BY <2>1
  <2> HIDE DEF l
  <2>4. /\ at'[t] = "emplace" /\ loc'[t] = l /\ OthersKeep(t) /\ Cursor(t)' /\ Seeking(t)'
        /\ live' \union InHand(t)' \subseteq live \union InHand(t)
        /\ live' \intersect InHand(t)' \intersect Sound = {}
    BY <1>a, <2>2, <2>3, GoesOn
  <2>5. ~Building(t)' /\ Carrying(t)' /\ loc'[t].region = r
    BY <2>2, <2>4 DEF Building, Carrying
  <2>6. Construction' /\ Grows BY <1>b, <1>1, <2>4, <2>5, SameChunks
  <2>7. Regional'
    <3>1. \A u \in Threads \ {t} : (Carrying(u)' <=> Carrying(u)) /\ loc'[u] = loc[u]
      BY <2>4 DEF OthersKeep, Carrying
    <3>2. r \in Regions BY <2>1 DEF Types
    <3>3. /\ \A u \in Threads \ {t} : Carrying(u) => loc[u].region # r
          /\ \A c \in Chunks : flag[c] => base[c] # r
      BY <2>1 DEF Regional
    <3>4. \A u \in Threads : at'[u] \in {"group", "build"} => loc'[u].region \in Regions
      BY <2>4 DEF Regional, OthersKeep
    <3>5. \A u \in Threads : Carrying(u)' => loc'[u].region \in Regions \ extents'
      BY <2>1, <2>5, <3>1, <3>2 DEF Regional
    <3>6. \A u, v \in Threads :
            u # v /\ Carrying(u)' /\ Carrying(v)' => loc'[u].region # loc'[v].region
      BY <2>5, <3>1, <3>3 DEF Regional
    <3>7. \A u \in Threads, c \in Chunks : Carrying(u)' /\ flag'[c] => base'[c] # loc'[u].region
      BY <1>1, <2>5, <3>1, <3>3 DEF Regional
    <3>8. \A q \in Regions : \/ q \in extents'
                             \/ \E c \in Chunks : flag'[c] /\ base'[c] = q
                             \/ \E u \in Threads : Carrying(u)' /\ loc'[u].region = q
      BY <1>b, <1>1, <2>1, <2>5, <3>1 DEF Regional
    <3> QED BY <1>1, <2>1, <3>4, <3>5, <3>6, <3>7, <3>8 DEF Regional
  <2> QED BY <1>1, <2>4, <2>6, <2>7, CreateStep
<1> QED BY <1>3, <1>4

LEMMA EmplaceStep ==
  ASSUME ClassInv, Types', NEW t \in Threads, Emplace(t)
  PROVE  ClassInv'
<1> USE DEF ClassInv
<1>a. loc[t] \in Locals /\ at[t] = "emplace" /\ Creating(t)
  BY DEF Types, Emplace, Creating
<1>b. ~Building(t) /\ Carrying(t) /\ at[t] \notin {"group", "build"}
  BY <1>a DEF Building, Carrying
<1>1. /\ extents' = extents /\ len' = len + 1 /\ flag' = flag /\ base' = base /\ ready' = ready
      /\ UNCHANGED <<spoilt, taken, active, inited>>
      /\ Continue(t, "setFlag", [loc[t] EXCEPT !.cur = len'])
  BY DEF Emplace, bitVars
<1>2. len \in Nat /\ len' \in Chunks /\ len < ChunkMaxCount
  BY <1>1, SizeClassAssumption DEF Types, Emplace, Chunks
<1> DEFINE l == [loc[t] EXCEPT !.cur = len']
<1>4. /\ l.got = loc[t].got /\ l.obj = loc[t].obj /\ l.todo = loc[t].todo
      /\ l.try = loc[t].try /\ l.region = loc[t].region /\ l.cur = len'
  BY <1>a, LocalsFields
<1>5. Continue(t, "setFlag", l) BY <1>1
<1> HIDE DEF l
<1>6. /\ at'[t] = "setFlag" /\ loc'[t] = l /\ OthersKeep(t) /\ Cursor(t)' /\ Seeking(t)'
      /\ live' \union InHand(t)' \subseteq live \union InHand(t)
      /\ live' \intersect InHand(t)' \intersect Sound = {}
  BY <1>a, <1>4, <1>5, GoesOn
<1>7. \A u \in Threads \ {t} : /\ Building(u)' <=> Building(u)
                               /\ at'[u] = at[u] /\ loc'[u] = loc[u]
  BY <1>6 DEF OthersKeep, Building
<1>8. \A u \in Threads : /\ Carrying(u)' <=> Carrying(u)
                         /\ loc'[u].region = loc[u].region
                         /\ at'[u] \in {"group", "build"} <=> at[u] \in {"group", "build"}
                         /\ at'[u] = "build" <=> at[u] = "build"
  BY <1>a, <1>4, <1>6, <1>7 DEF Carrying
<1>3. Grows
  <2>1. \A c : HalfBuilt(c)' <=> HalfBuilt(c)
    BY <1>6, <1>7, <1>8 DEF HalfBuilt
  <2> QED BY <1>1, <1>2, <2>1 DEF Grows, Built
<1>9. Construction'
  <2>1. PICK n \in Chunks : n = len' BY <1>2
  <2>2. Building(t)' /\ loc'[t].cur = n /\ n \in 1 .. len'
    BY <1>1, <1>2, <1>4, <1>6, <2>1 DEF Building
  <2>3. Stage(t, n)'
    <3>1. ~flag[n] /\ base[n] = None /\ ~ready[n]
      BY <1>1, <1>2, <2>1 DEF Construction
    <3> QED BY <1>1, <1>6, <3>1 DEF Stage
  <2>4. ASSUME NEW u \in Threads, u # t, Building(u)
        PROVE  /\ loc'[u].cur = loc[u].cur /\ loc[u].cur \in 1 .. len' /\ loc[u].cur # n
               /\ Stage(u, loc[u].cur)'
    <3>1. at'[u] = at[u] /\ loc'[u] = loc[u] BY <1>7, <2>4
    <3>2. loc[u].cur \in 1 .. len /\ Stage(u, loc[u].cur) BY <2>4 DEF Construction
    <3>3. loc[u].cur \in 1 .. len' /\ loc[u].cur # n BY <1>1, <1>2, <2>1, <3>2
    <3> QED BY <1>1, <3>1, <3>2, <3>3 DEF Stage, Claimed
  <2>5. \A u \in Threads : Building(u)' => loc'[u].cur \in 1 .. len' /\ Stage(u, loc[u].cur)'
    <3>1. ASSUME NEW u \in Threads, u # t, Building(u)'
          PROVE  loc'[u].cur \in 1 .. len' /\ Stage(u, loc[u].cur)'
      <4>1. Building(u) /\ loc'[u] = loc[u] /\ at'[u] = at[u] BY <1>7, <3>1
      <4> QED BY <2>4, <3>1, <4>1 DEF Stage
    <3>2. loc'[t].cur \in 1 .. len' /\ Stage(t, loc[t].cur)' BY <2>2, <2>3 DEF Stage
    <3> QED BY <3>1, <3>2
  <2>6. \A u, v \in Threads : u # v /\ Building(u)' /\ Building(v)' => loc'[u].cur # loc'[v].cur
    BY <1>7, <2>2, <2>4 DEF Construction
  <2>7. \A c \in Chunks : c > len' => ~flag'[c] /\ base'[c] = None /\ ~ready'[c]
    <3>1. \A c \in Chunks : c > len' => c > len BY <1>1, <1>2, SizeClassAssumption DEF Chunks
    <3> QED BY <1>1, <3>1 DEF Construction
  <2>8. \A c \in 1 .. len' : \/ Claimed(c)' \/ Dead(c)'
                             \/ \E u \in Threads : Building(u)' /\ loc'[u].cur = c
    <3>1. ASSUME NEW c \in 1 .. len', c # n
          PROVE  \/ Claimed(c)' \/ Dead(c)'
                 \/ \E u \in Threads : Building(u)' /\ loc'[u].cur = c
      <4>1. c \in 1 .. len BY <1>1, <1>2, <2>1, <3>1
      <4>2. Claimed(c) \/ Dead(c) \/ \E u \in Threads : Building(u) /\ loc[u].cur = c
        BY <4>1 DEF Construction
      <4>3. CASE Claimed(c) \/ Dead(c) BY <1>1, <4>3 DEF Claimed, Dead, Failed
      <4>4. CASE \E u \in Threads : Building(u) /\ loc[u].cur = c
        BY <1>b, <1>7, <4>4
      <4> QED BY <4>2, <4>3, <4>4
    <3> QED BY <2>2, <3>1
  <2> QED BY <2>5, <2>6, <2>7, <2>8 DEF Construction
<1>10. Regional'
  BY <1>1, <1>8 DEF Regional
<1> QED BY <1>1, <1>3, <1>6, <1>9, <1>10, CreateStep

\* The region goes back, because there is no node for the chunk, or because its slab group
\* could not be initialized.
LEMMA RegionReturns ==
  ASSUME ClassInv, Types', NEW t \in Threads, EmplaceFails(t) \/ GiveBack(t)
  PROVE  ClassInv'
<1> USE DEF ClassInv
<1>a. at[t] \in {"emplace", "giveBack"} BY DEF EmplaceFails, GiveBack
<1>b. ~Building(t) /\ Carrying(t) BY <1>a DEF Building, Carrying
<1>1. /\ len' = len /\ flag' = flag /\ base' = base /\ ready' = ready
      /\ extents' = extents \union {loc[t].region}
      /\ UNCHANGED <<spoilt, taken, active, inited>> /\ NoChunk(t)
  BY DEF EmplaceFails, GiveBack, bitVars
<1>2. at'[t] = "idle" /\ OthersKeep(t) BY <1>1, GivesUp
<1>3. ~Building(t)' /\ ~Carrying(t)' BY <1>2 DEF Building, Carrying
<1>4. Construction' /\ Grows BY <1>b, <1>1, <1>2, <1>3, SameChunks
<1>5. Regional'
  <2>1. \A u \in Threads \ {t} : /\ Carrying(u)' <=> Carrying(u)
                                 /\ at'[u] = at[u] /\ loc'[u] = loc[u]
    BY <1>2 DEF OthersKeep, Carrying
  <2>2. \A u \in Threads \ {t} : Carrying(u) => loc[u].region # loc[t].region
    BY <1>b DEF Regional
  <2>3. \A c \in Chunks : flag[c] => base[c] # loc[t].region BY <1>b DEF Regional
  <2>4. at'[t] \notin {"group", "build"} BY <1>2
  <2> QED BY <1>1, <1>3, <2>1, <2>2, <2>3, <2>4 DEF Regional
<1> QED BY <1>1, <1>4, <1>5, GivesUp, CreateStep

\* A step of the creator of a chunk changes this chunk only.
LEMMA BuildStep ==
  ASSUME Types, Construction, NEW t \in Threads, Building(t), OthersKeep(t), len' = len,
         spoilt' = spoilt, NEW n \in Chunks, loc[t].cur = n,
         \A c \in Chunks \ {n} : /\ flag'[c] = flag[c] /\ base'[c] = base[c]
                                 /\ ready'[c] = ready[c],
         \/ Building(t)' /\ loc'[t].cur = n /\ Stage(t, n)'
         \/ ~Building(t)' /\ (Claimed(n)' \/ Dead(n)'),
         base[n] = None \/ (base'[n] = base[n] /\ (Built(n) => Built(n)'))
  PROVE  Construction' /\ Grows
<1> USE SizeClassAssumption
<1>1. \A u \in Threads \ {t} : /\ at'[u] = at[u] /\ loc'[u] = loc[u]
                               /\ Building(u)' <=> Building(u)
  BY DEF OthersKeep, Building
<1>2. n \in 1 .. len BY DEF Construction
<1>3. ASSUME NEW u \in Threads \ {t}, Building(u)
      PROVE  loc[u].cur \in 1 .. len /\ loc[u].cur # n /\ Stage(u, loc[u].cur)'
  <2>1. loc[u].cur \in 1 .. len /\ loc[u].cur # n /\ Stage(u, loc[u].cur)
    BY <1>3 DEF Construction
  <2>2. loc[u].cur \in Chunks \ {n} BY <2>1 DEF Types, Chunks
  <2>3. at'[u] = at[u] /\ loc'[u] = loc[u] BY <1>1
  <2> QED BY <2>1, <2>2, <2>3 DEF Stage, Claimed
<1>4. \A u \in Threads : Building(u)' => loc'[u].cur \in 1 .. len' /\ Stage(u, loc[u].cur)'
  <2>1. ASSUME NEW u \in Threads, u # t, Building(u)'
        PROVE  loc'[u].cur \in 1 .. len' /\ Stage(u, loc[u].cur)'
    BY <1>1, <1>3, <2>1
  <2>2. Building(t)' => loc'[t].cur \in 1 .. len' /\ Stage(t, loc[t].cur)'
    BY <1>2 DEF Stage
  <2> QED BY <2>1, <2>2
<1>5. \A u, v \in Threads : u # v /\ Building(u)' /\ Building(v)' => loc'[u].cur # loc'[v].cur
  BY <1>1, <1>3 DEF Construction
<1>6. \A c \in Chunks : c > len' => ~flag'[c] /\ base'[c] = None /\ ~ready'[c]
  <2>1. ASSUME NEW c \in Chunks, c > len' PROVE c # n
    BY <1>2, <2>1 DEF Types, Chunks
  <2> QED BY <2>1 DEF Construction
<1>7. \A c \in 1 .. len' : \/ Claimed(c)' \/ Dead(c)'
                           \/ \E u \in Threads : Building(u)' /\ loc'[u].cur = c
  <2>1. ASSUME NEW c \in 1 .. len', c # n
        PROVE  \/ Claimed(c)' \/ Dead(c)'
               \/ \E u \in Threads : Building(u)' /\ loc'[u].cur = c
    <3>1. c \in 1 .. len /\ c \in Chunks \ {n} BY <2>1 DEF Types, Chunks
    <3>2. Claimed(c) \/ Dead(c) \/ \E u \in Threads : Building(u) /\ loc[u].cur = c
      BY <3>1 DEF Construction
    <3>3. CASE Claimed(c) \/ Dead(c) BY <3>1, <3>3 DEF Claimed, Dead, Failed
    <3>4. CASE \E u \in Threads : Building(u) /\ loc[u].cur = c
      BY <1>1, <2>1, <3>4
    <3> QED BY <3>2, <3>3, <3>4
  <2> QED BY <2>1
<1>8. Grows
  <2>1. \A c \in Chunks \ {n} : HalfBuilt(c)' => HalfBuilt(c)
    <3>1. at'[t] = "build" => loc'[t].cur = n BY DEF Building
    <3> QED BY <1>1, <3>1 DEF HalfBuilt
  <2>2. \A c \in Chunks \ {n} : base'[c] = base[c] /\ (Built(c) => Built(c)')
    BY <2>1 DEF Built
  <2> QED BY <2>2 DEF Grows, Types
<1> QED BY <1>4, <1>5, <1>6, <1>7, <1>8 DEF Construction

\* A chunk that is being built is not built.
LEMMA NotBuilt ==
  ASSUME NEW t \in Threads, at[t] = "build"
  PROVE  ~Built(loc[t].cur)
BY DEF Built, HalfBuilt

\* Where its creator is says how far the chunk is.
LEMMA CreatorKnows ==
  ASSUME ClassInv, NEW t \in Threads, Building(t)
  PROVE  /\ loc[t] \in Locals /\ loc[t].cur \in Chunks /\ loc[t].cur \in 1 .. len
         /\ Stage(t, loc[t].cur) /\ Creating(t)
BY SizeClassAssumption DEF ClassInv, Types, Construction, Creating, Chunks

LEMMA SetFlagStep ==
  ASSUME ClassInv, Types', NEW t \in Threads, SetFlag(t)
  PROVE  ClassInv'
<1> USE DEF ClassInv
<1>a. at[t] = "setFlag" /\ Building(t) /\ Carrying(t) BY DEF SetFlag, Building, Carrying
<1>b. PICK n \in Chunks : n = loc[t].cur BY <1>a, CreatorKnows
<1>1. /\ extents' = extents /\ len' = len /\ base' = base /\ ready' = ready
      /\ flag' = [flag EXCEPT ![n] = TRUE] /\ UNCHANGED <<spoilt, taken, active, inited>>
      /\ Continue(t, "setBase", loc[t])
  BY <1>b DEF SetFlag, bitVars
<1>2. flag'[n] = TRUE /\ \A c \in Chunks \ {n} : flag'[c] = flag[c]
  BY <1>1 DEF Types
<1>3. Stage(t, n) /\ base[n] = None BY <1>a, <1>b, CreatorKnows DEF Stage
<1>4. /\ at'[t] = "setBase" /\ loc'[t] = loc[t] /\ OthersKeep(t) /\ Cursor(t)' /\ Seeking(t)'
      /\ live' \union InHand(t)' \subseteq live \union InHand(t)
      /\ live' \intersect InHand(t)' \intersect Sound = {}
  BY <1>a, <1>1, CreatorKnows, GoesOn
<1>5. Construction' /\ Grows
  <2>1. Stage(t, n)' BY <1>a, <1>1, <1>2, <1>3, <1>4 DEF Stage
  <2>2. Building(t)' BY <1>4 DEF Building
  <2> QED BY <1>a, <1>b, <1>1, <1>2, <1>3, <1>4, <2>1, <2>2, BuildStep
<1>6. Regional'
  <2>1. \A u \in Threads : /\ Carrying(u)' <=> Carrying(u)
                           /\ loc'[u].region = loc[u].region
                           /\ at'[u] \in {"group", "build"} <=> at[u] \in {"group", "build"}
    BY <1>a, <1>4 DEF Carrying, OthersKeep
  <2>2. None \notin Regions /\ extents \subseteq Regions
    BY SizeClassAssumption DEF Types
  <2>3. \A u \in Threads, c \in Chunks : Carrying(u)' /\ flag'[c] => base'[c] # loc'[u].region
    BY <1>1, <1>2, <1>3, <2>1, <2>2 DEF Regional
  <2>4. \A c \in Chunks : flag'[c] => base'[c] \notin extents'
    BY <1>1, <1>2, <1>3, <2>2 DEF Regional
  <2>5. \A c, d \in Chunks :
          flag'[c] /\ flag'[d] /\ base'[c] = base'[d] /\ base'[c] # None => c = d
    BY <1>1, <1>2, <1>3 DEF Regional
  <2>6. \A q \in Regions : \/ q \in extents'
                           \/ \E c \in Chunks : flag'[c] /\ base'[c] = q
                           \/ \E u \in Threads : Carrying(u)' /\ loc'[u].region = q
    <3>1. \A c \in Chunks : flag[c] => flag'[c] BY <1>2
    <3> QED BY <1>1, <2>1, <3>1 DEF Regional
  <2> QED BY <1>1, <2>1, <2>3, <2>4, <2>5, <2>6 DEF Regional
<1> QED BY <1>1, <1>4, <1>5, <1>6, CreateStep

LEMMA SetBaseStep ==
  ASSUME ClassInv, Types', NEW t \in Threads, SetBase(t)
  PROVE  ClassInv'
<1> USE DEF ClassInv
<1>a. at[t] = "setBase" /\ Building(t) /\ Carrying(t) BY DEF SetBase, Building, Carrying
<1>b. PICK n \in Chunks : n = loc[t].cur BY <1>a, CreatorKnows
<1>c. PICK r \in Regions : r = loc[t].region /\ r \notin extents BY <1>a DEF Regional
<1>1. /\ extents' = extents /\ len' = len /\ flag' = flag /\ ready' = ready
      /\ base' = [base EXCEPT ![n] = r] /\ UNCHANGED <<spoilt, taken, active, inited>>
      /\ Continue(t, "group", loc[t])
  BY <1>b, <1>c DEF SetBase, bitVars
<1>2. base'[n] = r /\ \A c \in Chunks \ {n} : base'[c] = base[c]
  BY <1>1 DEF Types
<1>3. Stage(t, n) /\ flag[n] /\ base[n] = None BY <1>a, <1>b, CreatorKnows DEF Stage
<1>4. /\ at'[t] = "group" /\ loc'[t] = loc[t] /\ OthersKeep(t) /\ Cursor(t)' /\ Seeking(t)'
      /\ live' \union InHand(t)' \subseteq live \union InHand(t)
      /\ live' \intersect InHand(t)' \intersect Sound = {}
  BY <1>a, <1>1, CreatorKnows, GoesOn
<1>5. Construction' /\ Grows
  <2>1. Stage(t, n)' BY <1>a, <1>c, <1>1, <1>2, <1>3, <1>4 DEF Stage
  <2>2. Building(t)' BY <1>4 DEF Building
  <2> QED BY <1>a, <1>b, <1>1, <1>2, <1>3, <1>4, <2>1, <2>2, BuildStep
<1>6. Regional'
  <2>1. /\ ~Carrying(t)'
        /\ \A u \in Threads \ {t} : /\ Carrying(u)' <=> Carrying(u)
                                    /\ at'[u] = at[u] /\ loc'[u] = loc[u]
    BY <1>4 DEF Carrying, OthersKeep
  <2>2. \A u \in Threads \ {t} : Carrying(u) => loc[u].region # r
    BY <1>a, <1>c DEF Regional
  <2>3. \A c \in Chunks : flag[c] => base[c] # r BY <1>a, <1>c DEF Regional
  <2>4. \A u \in Threads : Carrying(u)' => loc'[u].region \in Regions \ extents'
    BY <1>1, <2>1 DEF Regional
  <2>5. \A u \in Threads : at'[u] \in {"group", "build"} => loc'[u].region \in Regions
    BY <1>c, <1>4, <2>1 DEF Regional
  <2>6. \A u, v \in Threads :
          u # v /\ Carrying(u)' /\ Carrying(v)' => loc'[u].region # loc'[v].region
    BY <2>1 DEF Regional
  <2>7. \A u \in Threads, c \in Chunks : Carrying(u)' /\ flag'[c] => base'[c] # loc'[u].region
    BY <1>1, <1>2, <2>1, <2>2 DEF Regional
  <2>8. \A c \in Chunks : flag'[c] => base'[c] \notin extents'
    BY <1>c, <1>1, <1>2 DEF Regional
  <2>9. \A c, d \in Chunks :
          flag'[c] /\ flag'[d] /\ base'[c] = base'[d] /\ base'[c] # None => c = d
    BY <1>1, <1>2, <2>3 DEF Regional
  <2>10. ASSUME NEW q \in Regions
         PROVE  \/ q \in extents' \/ \E c \in Chunks : flag'[c] /\ base'[c] = q
                \/ \E u \in Threads : Carrying(u)' /\ loc'[u].region = q
    <3>1. CASE q = r BY <1>1, <1>2, <1>3, <3>1
    <3>2. CASE q # r
      <4>1. CASE q \in extents BY <1>1, <4>1
      <4>2. CASE \E c \in Chunks : flag[c] /\ base[c] = q
        <5>1. PICK c \in Chunks : flag[c] /\ base[c] = q BY <4>2
        <5>2. c # n BY <1>3, <5>1, SizeClassAssumption
        <5> QED BY <1>1, <1>2, <5>1, <5>2
      <4>3. CASE \E u \in Threads : Carrying(u) /\ loc[u].region = q
        BY <1>c, <2>1, <3>2, <4>3
      <4> QED BY <4>1, <4>2, <4>3 DEF Regional
    <3> QED BY <3>1, <3>2
  <2> QED BY <2>4, <2>5, <2>6, <2>7, <2>8, <2>9, <2>10 DEF Regional
<1> QED BY <1>1, <1>4, <1>5, <1>6, CreateStep

LEMMA InitGroupStep ==
  ASSUME ClassInv, Types', NEW t \in Threads, InitGroup(t)
  PROVE  ClassInv'
<1> USE DEF ClassInv
<1>a. at[t] = "group" /\ Building(t) /\ ~Carrying(t) BY DEF InitGroup, Building, Carrying
<1>b. PICK n \in Chunks : n = loc[t].cur BY <1>a, CreatorKnows
<1>1. /\ extents' = extents /\ len' = len /\ flag' = flag /\ base' = base
      /\ ready' = [ready EXCEPT ![n] = TRUE] /\ UNCHANGED <<spoilt, taken, active, inited>>
      /\ Continue(t, "build", loc[t])
  BY <1>b DEF InitGroup, bitVars
<1>2. ready'[n] = TRUE /\ \A c \in Chunks \ {n} : ready'[c] = ready[c]
  BY <1>1 DEF Types
<1>3. /\ Stage(t, n) /\ flag[n] /\ ~ready[n] /\ base[n] = loc[t].region /\ base[n] # None
      /\ loc[t].region \in Regions
  BY <1>a, <1>b, CreatorKnows, SizeClassAssumption DEF Stage, Regional
<1>4. /\ at'[t] = "build" /\ loc'[t] = loc[t] /\ OthersKeep(t) /\ Cursor(t)' /\ Seeking(t)'
      /\ live' \union InHand(t)' \subseteq live \union InHand(t)
      /\ live' \intersect InHand(t)' \intersect Sound = {}
  BY <1>a, <1>1, CreatorKnows, GoesOn
<1>5. Construction' /\ Grows
  <2>1. Stage(t, n)' BY <1>1, <1>2, <1>3, <1>4 DEF Stage, Claimed
  <2>2. Building(t)' BY <1>4 DEF Building
  <2>3. ~Built(n) BY <1>3 DEF Built
  <2> QED BY <1>a, <1>b, <1>1, <1>2, <1>4, <2>1, <2>2, <2>3, BuildStep
<1>6. Regional'
  <2>1. \A u \in Threads : /\ Carrying(u)' <=> Carrying(u)
                           /\ loc'[u].region = loc[u].region
                           /\ at'[u] \in {"group", "build"} <=> at[u] \in {"group", "build"}
    BY <1>a, <1>4 DEF Carrying, OthersKeep
  <2> QED BY <1>1, <2>1 DEF Regional
<1> QED BY <1>1, <1>4, <1>5, <1>6, CreateStep

\* No object of a region is followed as taken while its slab group is being built: whoever
\* took one has spoilt the region.
LEMMA BuildGroupStep ==
  ASSUME ClassInv, Types', NEW t \in Threads, BuildGroup(t)
  PROVE  ClassInv' /\ taken' = taken
<1> USE DEF ClassInv
<1>a. at[t] = "build" /\ Building(t) /\ ~Carrying(t) BY DEF BuildGroup, Building, Carrying
<1>b. PICK n \in Chunks : n = loc[t].cur BY <1>a, CreatorKnows
<1>1. /\ extents' = extents /\ len' = len /\ flag' = flag /\ base' = base /\ ready' = ready
      /\ UNCHANGED <<spoilt, active, inited>>
      /\ taken' = {o \in taken : ~Contains(n, o)}
      /\ Continue(t, "count", [loc[t] EXCEPT !.region = None])
  BY <1>b DEF BuildGroup, chunkVars
<1>2. Stage(t, n) /\ Claimed(n) BY <1>a, <1>b, CreatorKnows DEF Stage
<1>3. taken' = taken
  <2>1. ASSUME NEW o \in taken, Contains(n, o) PROVE FALSE
    <3>1. PICK c \in 1 .. len : Holds(c, o) BY DEF Owners, Placed
    <3>2. c \in Chunks /\ base[c] = o[1] /\ base[c] # None /\ base[c] \notin spoilt
      BY <3>1, SizeClassAssumption DEF Types, Chunks, Holds, Contains, Fit, Owners, Sound
    <3>3. c = n BY <2>1, <3>2, OneSoundChunk DEF Contains
    <3> QED BY <1>a, <1>b, <3>1, <3>2, <3>3, NotBuilt DEF Holds, Fit
  <2> QED BY <1>1, <2>1
<1> DEFINE l == [loc[t] EXCEPT !.region = None]
<1>4. /\ l.got = loc[t].got /\ l.obj = loc[t].obj /\ l.todo = loc[t].todo
      /\ l.try = loc[t].try /\ l.cur = n
  BY <1>a, <1>b, CreatorKnows, LocalsFields
<1>5. Continue(t, "count", l) BY <1>1
<1> HIDE DEF l
<1>6. /\ at'[t] = "count" /\ loc'[t] = l /\ OthersKeep(t) /\ Cursor(t)' /\ Seeking(t)'
      /\ live' \union InHand(t)' \subseteq live \union InHand(t)
      /\ live' \intersect InHand(t)' \intersect Sound = {}
  BY <1>a, <1>4, <1>5, CreatorKnows, GoesOn
<1>7. Construction' /\ Grows
  <2>1. Stage(t, n)' BY <1>1, <1>2, <1>6 DEF Stage, Claimed
  <2>2. Building(t)' BY <1>6 DEF Building
  <2>3. ~Built(n) BY <1>a, <1>b, NotBuilt
  <2> QED BY <1>a, <1>b, <1>1, <1>4, <1>6, <2>1, <2>2, <2>3, BuildStep
<1>8. Regional'
  <2>1. \A u \in Threads : /\ Carrying(u)' <=> Carrying(u)
                           /\ Carrying(u) => loc'[u].region = loc[u].region
                           /\ at'[u] \in {"group", "build"} =>
                                at[u] \in {"group", "build"} /\ loc'[u] = loc[u]
    BY <1>a, <1>6 DEF Carrying, OthersKeep
  <2> QED BY <1>1, <2>1 DEF Regional
<1>9. ClassInv' BY <1>1, <1>3, <1>6, <1>7, <1>8, CreateStep
<1> QED BY <1>3, <1>9

\* A chunk whose construction fails leaves its region to its creator.
LEMMA BuildFailsStep ==
  ASSUME ClassInv, Types', NEW t \in Threads, BuildFails(t)
  PROVE  ClassInv'
<1> USE DEF ClassInv
<1>a. at[t] = "build" /\ Building(t) /\ ~Carrying(t) BY DEF BuildFails, Building, Carrying
<1>b. PICK n \in Chunks : n = loc[t].cur BY <1>a, CreatorKnows
<1>1. /\ extents' = extents /\ len' = len /\ base' = base /\ base[n] \in spoilt
      /\ flag' = [flag EXCEPT ![n] = FALSE] /\ ready' = [ready EXCEPT ![n] = FALSE]
      /\ UNCHANGED <<spoilt, taken, active, inited>>
      /\ Continue(t, "giveBack", loc[t])
  BY <1>b DEF BuildFails, bitVars
<1>2. /\ flag'[n] = FALSE /\ ready'[n] = FALSE
      /\ \A c \in Chunks \ {n} : flag'[c] = flag[c] /\ ready'[c] = ready[c]
  BY <1>1 DEF Types
<1>3. /\ flag[n] /\ base[n] = loc[t].region /\ base[n] # None /\ loc[t].region \in Regions
  BY <1>a, <1>b, CreatorKnows DEF Stage, Claimed, Regional
<1>4. /\ at'[t] = "giveBack" /\ loc'[t] = loc[t] /\ OthersKeep(t) /\ Cursor(t)' /\ Seeking(t)'
      /\ live' \union InHand(t)' \subseteq live \union InHand(t)
      /\ live' \intersect InHand(t)' \intersect Sound = {}
  BY <1>a, <1>1, CreatorKnows, GoesOn
<1>5. Construction' /\ Grows
  <2>1. ~Building(t)' BY <1>4 DEF Building
  <2>2. Dead(n)' BY <1>1, <1>2, <1>3 DEF Dead, Failed
  <2>3. ~Built(n) BY <1>a, <1>b, NotBuilt
  <2> QED BY <1>a, <1>b, <1>1, <1>2, <1>4, <2>1, <2>2, <2>3, BuildStep
<1>6. Regional'
  <2>1. /\ Carrying(t)' /\ loc'[t].region = base[n]
        /\ \A u \in Threads \ {t} : /\ Carrying(u)' <=> Carrying(u)
                                    /\ at'[u] = at[u] /\ loc'[u] = loc[u]
    BY <1>3, <1>4 DEF Carrying, OthersKeep
  <2>2. /\ base[n] \notin extents
        /\ \A u \in Threads : Carrying(u) => loc[u].region # base[n]
        /\ \A c \in Chunks \ {n} : flag[c] => base[c] # base[n]
    BY <1>3 DEF Regional
  <2>3. \A u \in Threads : Carrying(u)' => loc'[u].region \in Regions \ extents'
    BY <1>1, <1>3, <2>1, <2>2 DEF Regional
  <2>4. \A u \in Threads : at'[u] \in {"group", "build"} => loc'[u].region \in Regions
    BY <1>4, <2>1 DEF Regional
  <2>5. \A u, v \in Threads :
          u # v /\ Carrying(u)' /\ Carrying(v)' => loc'[u].region # loc'[v].region
    BY <2>1, <2>2 DEF Regional
  <2>6. \A u \in Threads, c \in Chunks : Carrying(u)' /\ flag'[c] => base'[c] # loc'[u].region
    BY <1>1, <1>2, <2>1, <2>2 DEF Regional
  <2>7. \A c \in Chunks : flag'[c] => base'[c] \notin extents'
    BY <1>1, <1>2 DEF Regional
  <2>8. \A c, d \in Chunks :
          flag'[c] /\ flag'[d] /\ base'[c] = base'[d] /\ base'[c] # None => c = d
    BY <1>1, <1>2 DEF Regional
  <2>9. ASSUME NEW q \in Regions
        PROVE  \/ q \in extents' \/ \E c \in Chunks : flag'[c] /\ base'[c] = q
               \/ \E u \in Threads : Carrying(u)' /\ loc'[u].region = q
    <3>1. CASE q = base[n] BY <2>1, <3>1
    <3>2. CASE q # base[n]
      <4>1. CASE q \in extents BY <1>1, <4>1
      <4>2. CASE \E c \in Chunks : flag[c] /\ base[c] = q
        <5>1. PICK c \in Chunks : flag[c] /\ base[c] = q BY <4>2
        <5>2. c # n BY <3>2, <5>1
        <5> QED BY <1>1, <1>2, <5>1, <5>2
      <4>3. CASE \E u \in Threads : Carrying(u) /\ loc[u].region = q
        BY <1>a, <2>1, <4>3
      <4> QED BY <4>1, <4>2, <4>3 DEF Regional
    <3> QED BY <3>1, <3>2
  <2> QED BY <2>3, <2>4, <2>5, <2>6, <2>7, <2>8, <2>9 DEF Regional
<1> QED BY <1>1, <1>4, <1>5, <1>6, CreateStep

LEMMA CountChunkStep ==
  ASSUME ClassInv, Types', NEW t \in Threads, CountChunk(t)
  PROVE  ClassInv'
<1> USE DEF ClassInv
<1>a. at[t] = "count" /\ Building(t) /\ ~Carrying(t) BY DEF CountChunk, Building, Carrying
<1>b. PICK n \in Chunks : n = loc[t].cur BY <1>a, CreatorKnows
<1>c. /\ loc[t] \in Locals /\ n \in 1 .. len /\ Claimed(n) /\ loc[t].try = "new"
      /\ loc[t].obj = {} /\ loc[t].todo = {}
  BY <1>a, <1>b, CreatorKnows DEF Stage, Cursor, Seeking
<1>1. /\ extents' = extents /\ len' = len /\ flag' = flag /\ base' = base /\ ready' = ready
      /\ UNCHANGED <<spoilt, taken, active, inited>>
      /\ Continue(t, IF loc[t].op = "batch" THEN "many" ELSE "publish", loc[t])
  BY DEF CountChunk, chunkVars, bitVars
<1>2. /\ at'[t] \in {"many", "publish"} /\ loc'[t] = loc[t] /\ OthersKeep(t) /\ live' = live
  BY <1>1, Moves DEF Continue
<1>3. ~HalfBuilt(n)'
  <2>1. ASSUME NEW u \in Threads, at'[u] = "build", loc'[u].cur = n PROVE FALSE
    <3>1. u # t /\ at[u] = "build" /\ loc[u].cur = n BY <1>2, <2>1 DEF OthersKeep
    <3> QED BY <1>a, <1>b, <3>1 DEF Construction, Building
  <2> QED BY <2>1 DEF HalfBuilt
<1>4. Fit(n)' BY <1>c, <1>1, <1>3 DEF Fit, Built, Claimed
<1>5. Cursor(t)' /\ Seeking(t)'
  BY <1>b, <1>c, <1>1, <1>2, <1>4 DEF Cursor, Creating, Building, Seeking
<1>6. InHand(t)' = InHand(t) /\ live \intersect InHand(t) \intersect Sound = {}
  BY <1>2 DEF InHand, Owners
<1>7. Construction' /\ Grows
  <2>1. ~Building(t)' BY <1>2 DEF Building
  <2>2. Claimed(n)' BY <1>c, <1>1 DEF Claimed
  <2>3. Built(n)' BY <1>c, <1>1, <1>3 DEF Claimed, Built
  <2> QED BY <1>a, <1>b, <1>1, <1>2, <2>1, <2>2, <2>3, BuildStep
<1>8. Regional'
  <2>1. \A u \in Threads : /\ Carrying(u)' <=> Carrying(u)
                           /\ loc'[u] = loc[u]
                           /\ at'[u] \in {"group", "build"} <=> at[u] \in {"group", "build"}
    BY <1>a, <1>2 DEF Carrying, OthersKeep
  <2> QED BY <1>1, <2>1 DEF Regional
<1> QED BY <1>1, <1>2, <1>5, <1>6, <1>7, <1>8, CreateStep

-----------------------------------------------------------------------------
(* The count of the chunks, for finitely many threads.                     *)

Counting == {"setFlag", "setBase", "group", "build", "count"}
FailedOnes == {c \in Chunks : Failed(c)}

\* Only three steps have to do with the count: the one that puts a chunk into the list, the
\* one that counts it, and the one that fails to build it.
LEMMA CountAlone ==
  ASSUME ClassInv, NEW t \in Threads, Acts(t), ~Emplace(t), ~CountChunk(t), ~BuildFails(t)
  PROVE  UNCHANGED <<count, len>> /\ Uncounted' = Uncounted /\ FailedOnes' = FailedOnes
<1>1. SUFFICES /\ UNCHANGED <<count, len>> /\ FailedOnes' = FailedOnes
               /\ \A u \in Threads : at'[u] \in Counting <=> at[u] \in Counting
  BY DEF Uncounted, Counting
<1>2. at \in [Threads -> Places] BY DEF ClassInv, Types
<1>3. ASSUME NEW p, NEW l, Go(t, p, l), p \in Counting <=> at[t] \in Counting
      PROVE  \A u \in Threads : at'[u] \in Counting <=> at[u] \in Counting
  BY <1>2, <1>3 DEF Go
<1>4. CASE at[t] \in Counting
  <2>1. SetFlag(t) \/ SetBase(t) \/ InitGroup(t) \/ BuildGroup(t)
    BY <1>4 DEF Acts, CallStep, ClassStep, CreateChunk, Initialize, Allocate, AllocateBatch,
       Deallocate, Query, TakeOne, TakeNone, AskActive, TakeMany, VisitChunk, VisitEnds,
       Publish, CheckCount, AllocateRegion, Emplace, EmplaceFails, GiveBack, Seek, Lower,
       Counting
  <2>2. \A c \in Chunks : loc[t].cur = c => Building(t) /\ Stage(t, c)
    BY <1>4 DEF ClassInv, Construction, Counting, Building
  <2>3. CASE SetFlag(t)
    <3>1. \A c \in Chunks : loc[t].cur = c => base[c] = None
      BY <2>2, <2>3 DEF SetFlag, Stage
    <3>2. \A c \in Chunks : loc[t].cur # c => flag'[c] = flag[c]
      BY <2>3 DEF SetFlag, ClassInv, Types
    <3>3. FailedOnes' = FailedOnes BY <2>3, <3>1, <3>2 DEF SetFlag, FailedOnes, Failed
    <3> QED BY <1>3, <1>4, <2>3, <3>3 DEF SetFlag, Continue, Counting
  <2>4. CASE SetBase(t)
    <3>1. \A c \in Chunks : loc[t].cur = c => flag[c] /\ flag'[c]
      BY <2>2, <2>4 DEF SetBase, Stage
    <3>2. \A c \in Chunks : loc[t].cur # c => base'[c] = base[c]
      BY <2>4 DEF SetBase, ClassInv, Types
    <3>3. FailedOnes' = FailedOnes BY <2>4, <3>1, <3>2 DEF SetBase, FailedOnes, Failed
    <3> QED BY <1>3, <1>4, <2>4, <3>3 DEF SetBase, Continue, Counting
  <2>5. CASE InitGroup(t)
    BY <1>3, <1>4, <2>5 DEF InitGroup, Continue, Counting, FailedOnes, Failed
  <2>6. CASE BuildGroup(t)
    BY <1>3, <1>4, <2>6 DEF BuildGroup, Continue, Counting, FailedOnes, Failed, chunkVars
  <2> QED BY <2>1, <2>3, <2>4, <2>5, <2>6
<1>5. CASE at[t] \notin Counting
  <2>1. ASSUME NEW p, NEW l, Go(t, p, l), p \notin Counting
        PROVE  \A u \in Threads : at'[u] \in Counting <=> at[u] \in Counting
    BY <1>3, <1>5, <2>1
  <2>2. ASSUME NEW got, Return(t, got)
        PROVE  \A u \in Threads : at'[u] \in Counting <=> at[u] \in Counting
    BY <2>1, <2>2 DEF Return, Counting
  <2>3. {"idle", "take", "ask", "many", "visit", "publish", "check", "extent", "emplace", "seek",
         "lower"} \intersect Counting = {}
    BY DEF Counting
  <2>f. UNCHANGED <<flag, base>> => FailedOnes' = FailedOnes BY DEF FailedOnes, Failed
  <2>4. CASE CallStep(t)
    BY <2>1, <2>3, <2>4, <2>f DEF CallStep, Initialize, Allocate, AllocateBatch, Deallocate, Query,
       Continue, chunkVars
  <2>5. CASE CheckCount(t) \/ AllocateRegion(t) \/ EmplaceFails(t) \/ GiveBack(t)
    BY <2>1, <2>2, <2>3, <2>5, <2>f DEF CheckCount, AllocateRegion, EmplaceFails, GiveBack,
       NoChunk, Continue, chunkVars
  <2>6. CASE TakeOne(t) \/ TakeNone(t) \/ AskActive(t)
    BY <2>1, <2>2, <2>3, <2>6, <2>f DEF TakeOne, TakeNone, AskActive, Continue, chunkVars
  <2>7. CASE TakeMany(t) \/ VisitChunk(t) \/ VisitEnds(t)
    BY <2>1, <2>2, <2>3, <2>7, <2>f DEF TakeMany, VisitChunk, VisitEnds, Continue, chunkVars
  <2>8. CASE Publish(t)
    BY <2>1, <2>2, <2>3, <2>8, <2>f DEF Publish, Continue, chunkVars
  <2>9. CASE Seek(t) \/ Lower(t)
    BY <2>1, <2>2, <2>3, <2>9, <2>f DEF Seek, Lower, NextObject, Continue, chunkVars
  <2>10. ~SetFlag(t) /\ ~SetBase(t) /\ ~InitGroup(t) /\ ~BuildGroup(t)
    BY <1>5 DEF SetFlag, SetBase, InitGroup, BuildGroup, Counting
  <2> QED BY <2>4, <2>5, <2>6, <2>7, <2>8, <2>9, <2>10 DEF Acts, ClassStep, CreateChunk
<1> QED BY <1>4, <1>5

CountInv == count \in Nat /\ count + Cardinality(Uncounted) + Cardinality(FailedOnes) = len

LEMMA CountStep ==
  ASSUME IsFiniteSet(Threads), ClassInv, CountInv, [ClassNext]_classVars
  PROVE  CountInv'
<1>a. /\ IsFiniteSet(Uncounted) /\ Cardinality(Uncounted) \in Nat /\ len \in Nat
      /\ IsFiniteSet(FailedOnes) /\ Cardinality(FailedOnes) \in Nat
  <2>1. IsFiniteSet(Chunks) BY FS_Interval, SizeClassAssumption DEF Chunks
  <2>2. Uncounted \subseteq Threads /\ FailedOnes \subseteq Chunks
    BY DEF Uncounted, FailedOnes
  <2>3. IsFiniteSet(Uncounted) /\ IsFiniteSet(FailedOnes) BY <2>1, <2>2, FS_Subset
  <2> QED BY <2>3, FS_CardinalityType, SizeClassAssumption DEF ClassInv, Types
<1>1. ASSUME NEW t \in Threads, Acts(t), ~Emplace(t), ~CountChunk(t), ~BuildFails(t)
      PROVE  CountInv'
  BY <1>1, CountAlone DEF CountInv
<1>2. ASSUME NEW t \in Threads, Emplace(t) PROVE CountInv'
  <2>1. t \notin Uncounted /\ Uncounted' = Uncounted \union {t}
    BY <1>2 DEF Emplace, Continue, Go, Uncounted, ClassInv, Types
  <2>2. Cardinality(Uncounted') = Cardinality(Uncounted) + 1
    BY <1>a, <2>1, FS_AddElement
  <2>3. FailedOnes' = FailedOnes BY <1>2 DEF Emplace, FailedOnes, Failed
  <2>4. len' = len + 1 /\ count' = count BY <1>2 DEF Emplace
  <2> QED BY <1>a, <2>2, <2>3, <2>4 DEF CountInv
<1>3. ASSUME NEW t \in Threads, CountChunk(t) PROVE CountInv'
  <2>1. t \in Uncounted /\ Uncounted' = Uncounted \ {t}
    BY <1>3 DEF CountChunk, Continue, Go, Uncounted, ClassInv, Types
  <2>2. Cardinality(Uncounted') = Cardinality(Uncounted) - 1
    BY <1>a, <2>1, FS_RemoveElement
  <2>3. len' = len /\ count' = count + 1 /\ FailedOnes' = FailedOnes
    BY <1>3 DEF CountChunk, OneMore, chunkVars, FailedOnes, Failed
  <2> QED BY <1>a, <2>2, <2>3 DEF CountInv
<1>4. ASSUME NEW t \in Threads, BuildFails(t) PROVE CountInv'
  <2>1. t \in Uncounted /\ Uncounted' = Uncounted \ {t}
    BY <1>4 DEF BuildFails, Continue, Go, Uncounted, ClassInv, Types
  <2>2. Cardinality(Uncounted') = Cardinality(Uncounted) - 1
    BY <1>a, <2>1, FS_RemoveElement
  <2>3. PICK n \in Chunks : n = loc[t].cur /\ Claimed(n)
    BY <1>4, CreatorKnows DEF BuildFails, Building, Stage
  <2>4. /\ base' = base /\ flag'[n] = FALSE
        /\ \A c \in Chunks \ {n} : flag'[c] = flag[c]
    BY <1>4, <2>3 DEF BuildFails, ClassInv, Types
  <2>5. n \notin FailedOnes /\ FailedOnes' = FailedOnes \union {n}
    BY <2>3, <2>4 DEF FailedOnes, Failed, Claimed
  <2>6. Cardinality(FailedOnes') = Cardinality(FailedOnes) + 1
    BY <1>a, <2>5, FS_AddElement
  <2>7. len' = len /\ count' = count BY <1>4 DEF BuildFails
  <2> QED BY <1>a, <2>2, <2>6, <2>7 DEF CountInv
<1>5. CASE UNCHANGED classVars
  BY <1>5 DEF classVars, chunkVars, CountInv, Uncounted, FailedOnes, Failed
<1>6. CASE \E t \in Threads : Acts(t)
  BY <1>1, <1>2, <1>3, <1>4, <1>6
<1> QED BY <1>5, <1>6 DEF ClassNext, Acts, CallStep

-----------------------------------------------------------------------------
(* The theorems.                                                           *)

LEMMA ClassInitially == ClassInit => ClassInv
<1> SUFFICES ASSUME ClassInit PROVE ClassInv
  OBVIOUS
<1> USE SizeClassAssumption DEF ClassInit
<1>1. Types
  <2>1. Blank \in Locals BY BlankTyped
  <2>2. loc \in [Threads -> Locals] BY <2>1
  <2>3. at \in [Threads -> Places] BY DEF Places
  <2>4. /\ flag \in [Chunks -> BOOLEAN] /\ ready \in [Chunks -> BOOLEAN]
        /\ base \in [Chunks -> Regions \union {None}]
    OBVIOUS
  <2>5. len \in 0 .. ChunkMaxCount /\ active \in 0 .. ChunkMaxCount
    OBVIOUS
  <2> QED BY <2>2, <2>3, <2>4, <2>5 DEF Types
<1>2. Construction BY DEF Construction, Building
<1>3. Regional BY DEF Regional, Carrying
<1>4. \A t \in Threads : Cursor(t) BY DEF Cursor, Creating, Building
<1>5. \A t \in Threads : loc[t] = Blank OBVIOUS
<1>6. \A t \in Threads : Seeking(t) BY <1>5, BlankFields DEF Seeking
<1>7. \A t \in Threads : InHand(t) = {} BY <1>5, BlankFields DEF InHand
<1>8. Owners BY <1>7 DEF Owners
<1> QED BY <1>1, <1>2, <1>3, <1>4, <1>6, <1>8 DEF ClassInv, ActiveReady

\* What one step does to the objects that are taken, and to those in callers' hands: it
\* takes and hands out, or gives back and frees; only the former spoils a region.
OneWay == \/ taken \subseteq taken' /\ live \subseteq live' /\ Spoiling
          \/ taken' \subseteq taken /\ live' \subseteq live /\ spoilt' = spoilt

LEMMA ClassInductive ==
  ASSUME ClassInv, [ClassNext]_classVars
  PROVE  ClassInv' /\ OneWay
<1>1. ASSUME NEW t \in Threads, Acts(t) PROVE ClassInv' /\ OneWay
  <2>a. Types' /\ Spoiling BY <1>1, TypesStep, StepSpoils
  <2>1. CASE CallStep(t)
    <3>1. ClassInv'
      BY <2>a, <2>1, InitializeStep, AllocateStep, AllocateBatchStep, DeallocateStep, QueryStep
      DEF CallStep
    <3>2. OneWay
      BY <2>1 DEF CallStep, Initialize, Allocate, AllocateBatch, Deallocate, Query, Continue,
                  bitVars, OneWay
    <3> QED BY <3>1, <3>2
  <2>2. CASE CreateChunk(t)
    <3>1. CASE BuildGroup(t)
      <4>1. ClassInv' /\ taken' = taken BY <2>a, <3>1, BuildGroupStep
      <4>2. live' = live BY <3>1 DEF BuildGroup, Continue
      <4> QED BY <2>a, <4>1, <4>2 DEF OneWay
    <3>2. CASE ~BuildGroup(t)
      <4>1. ClassInv'
        BY <2>a, <2>2, <3>2, CheckCountStep, AllocateRegionStep, EmplaceStep, RegionReturns,
           SetFlagStep, SetBaseStep, InitGroupStep, BuildFailsStep, CountChunkStep
        DEF CreateChunk
      <4>2. taken' = taken /\ live \subseteq live'
        BY <2>2, <3>2
        DEF CreateChunk, CheckCount, AllocateRegion, Emplace, EmplaceFails, SetFlag, SetBase,
            InitGroup, BuildFails, GiveBack, CountChunk, NoChunk, Return, Continue, bitVars
      <4> QED BY <2>a, <4>1, <4>2 DEF OneWay
    <3> QED BY <3>1, <3>2
  <2>3. CASE Seek(t) \/ Lower(t)
    <3>1. ClassInv' BY <2>a, <2>3, SeekStep, LowerStep
    <3>2. taken' \subseteq taken /\ spoilt' = spoilt BY <2>3 DEF Seek, Lower
    <3>3. live' = live BY <2>3 DEF Seek, Lower, NextObject, Return, Continue
    <3> QED BY <3>1, <3>2, <3>3 DEF OneWay
  <2>4. CASE TakeMany(t)
    <3>1. ClassInv' BY <2>a, <2>4, TakeManyStep
    <3>2. taken \subseteq taken' /\ live \subseteq live'
      BY <2>4 DEF TakeMany, Return, Continue, SetBits
    <3> QED BY <2>a, <3>1, <3>2 DEF OneWay
  <2>5. CASE \/ TakeOne(t) \/ TakeNone(t) \/ AskActive(t)
             \/ VisitChunk(t) \/ VisitEnds(t) \/ Publish(t)
    <3>1. ClassInv'
      BY <2>a, <2>5, TakeOneStep, TakeNoneStep, AskActiveStep, VisitChunkStep, VisitEndsStep,
         PublishStep
    <3>2. taken \subseteq taken' /\ live \subseteq live'
      BY <2>5 DEF TakeOne, TakeNone, AskActive, VisitChunk, VisitEnds, Publish, Return, Continue,
                  SetBits, bitVars
    <3> QED BY <2>a, <3>1, <3>2 DEF OneWay
  <2> QED BY <1>1, <2>1, <2>2, <2>3, <2>4, <2>5 DEF Acts, ClassStep
<1>2. CASE UNCHANGED classVars
  <2>1. ClassInv'
    BY <1>2 DEF classVars, chunkVars, bitVars, ClassInv, Types, Construction, Regional,
                ActiveReady, Cursor, Seeking, Owners, Building, Creating, Carrying, Stage, Claimed,
                Dead, Failed, Fit, Built, HalfBuilt, Holds, Contains, Placed, InHand, Sound
  <2>2. OneWay BY <1>2 DEF classVars, bitVars, OneWay
  <2> QED BY <2>1, <2>2
<1>3. CASE \E t \in Threads : Acts(t)
  BY <1>1, <1>3
<1> QED BY <1>2, <1>3 DEF ClassNext, Acts, CallStep

\* No step takes away from ClassInv, which the other theorems read off.
LEMMA ClassInvariant == ClassSpec => []ClassInv
<1>1. ClassInv /\ [ClassNext]_classVars => ClassInv' BY ClassInductive
<1> QED BY <1>1, ClassInitially, PTL DEF ClassSpec

\* Whatever check of chunk_count_ the threads pass together, and wherever the creation of a
\* chunk fails, no region of the extent manager is lost, and no two chunks that are
\* initialized cut objects out of the same one.
THEOREM ClassKeepsRegions == ClassSpec => []RegionsAccounted
<1>1. ClassInv => RegionsAccounted
  BY SizeClassAssumption DEF ClassInv, Types, Regional, RegionsAccounted
<1> QED BY <1>1, ClassInvariant, PTL

\* The walk of a deallocation is never past the chunk of its object, and unless the region
\* is spoilt, that chunk takes the object back.
THEOREM ClassFindsChunk == ClassSpec => []FreeFindsChunk
<1>1. ASSUME ClassInv PROVE FreeFindsChunk
  <2>1. SUFFICES ASSUME NEW t \in Threads, at[t] = "seek", NEW o \in loc[t].obj
                 PROVE  \E c \in loc[t].cur .. len :
                          /\ Contains(c, o)
                          /\ o[1] \notin spoilt => flag[c] /\ ready[c] /\ ~HalfBuilt(c)
    BY DEF FreeFindsChunk
  <2>2. PICK c \in loc[t].cur .. len : Holds(c, o)
    BY <1>1, <2>1 DEF ClassInv, Seeking
  <2>3. Contains(c, o) /\ (o[1] \notin spoilt => Built(c))
    BY <2>2 DEF Holds, Fit, Contains
  <2> QED BY <2>2, <2>3 DEF Built
<1> QED BY <1>1, ClassInvariant, PTL

\* The active chunk is finished, unless another thread has disturbed its construction.
THEOREM ClassActiveReady == ClassSpec => []ActiveReady
<1>1. ClassInv => ActiveReady BY DEF ClassInv
<1> QED BY <1>1, ClassInvariant, PTL

\* The size class implements the object allocator for the regions whose construction was
\* not disturbed: of those it hands out no object that is in the hands of a caller or of
\* another call, whatever full() answers, however threads that meet in a chunk miss
\* objects, and whatever the disturbed chunks do.
THEOREM ClassImplementsAllocator == ClassSpec => ImplementsAllocator
<1>1. ClassInit => Allocator!AllocInit
  BY DEF ClassInit, Allocator!AllocInit, Sound
<1>2. ClassInv /\ [ClassNext]_classVars
        => [Allocator!AllocNext]_<<Sound \ taken, Sound \intersect live>>
  <2> SUFFICES ASSUME ClassInv, [ClassNext]_classVars
               PROVE  Allocator!AllocNext
    OBVIOUS
  <2>1. ClassInv' /\ OneWay BY ClassInductive
  <2>2. /\ live \intersect Sound \subseteq taken /\ Sound \subseteq Objects
        /\ live' \intersect Sound' \subseteq taken' /\ Sound' \subseteq Objects
        /\ \A o \in taken : Placed(o)
    BY <2>1 DEF ClassInv, Owners, Sound
  <2>3. CASE taken \subseteq taken' /\ live \subseteq live' /\ Spoiling
    <3>1. Sound' \subseteq Sound BY <2>3 DEF Sound, Spoiling
    <3>2. Sound \intersect live \subseteq Sound' BY <2>2, <2>3 DEF Spoiling
    <3> QED BY <2>2, <2>3, <3>1, <3>2 DEF Allocator!AllocNext, Allocator!Allocate
  <2>4. CASE taken' \subseteq taken /\ live' \subseteq live /\ spoilt' = spoilt
    <3>1. Sound' = Sound BY <2>4 DEF Sound
    <3> QED BY <2>2, <2>4, <3>1 DEF Allocator!AllocNext, Allocator!Free
  <2> QED BY <2>1, <2>3, <2>4 DEF OneWay
<1> QED
  BY <1>1, <1>2, ClassInvariant, PTL
  DEF ClassSpec, ImplementsAllocator, Allocator!AllocSpec, Allocator!allocVars

\* chunk_count_ is behind the list exactly by the chunks under construction and by those
\* that failed, so that it never passes the number of nodes.
THEOREM ClassCountsChunks ==
  ASSUME IsFiniteSet(Threads) PROVE ClassSpec => []CountBehindList
<1>1. ClassInit => CountInv
  <2>1. ClassInit => Uncounted = {} /\ FailedOnes = {}
    BY DEF ClassInit, Uncounted, FailedOnes, Failed
  <2> QED BY <2>1, FS_EmptySet DEF ClassInit, CountInv
<1>2. ClassInv /\ CountInv /\ [ClassNext]_classVars => CountInv'
  BY CountStep
<1>3. CountInv => CountBehindList BY DEF CountInv, CountBehindList, FailedOnes
<1> QED BY <1>1, <1>2, <1>3, ClassInvariant, PTL DEF ClassSpec
=============================================================================
