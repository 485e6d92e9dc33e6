--------------------------- MODULE ExtentManager ---------------------------
(***************************************************************************)
(* extent_manager with its four trees, the recycler thread (a timed_task),  *)
(* and the operating system's memory calls (compiler.h).                    *)
(*                                                                          *)
(* A caller of allocate() looks into one tree after the other, each under   *)
(* that tree's mutex, and so does the recycler: one visit to a tree is one  *)
(* action.  retained_tree::insert takes no lock in the code and races with  *)
(* allocate() on a std::map; what that may do to the map is not modelled.   *)
(* reclaim() called from other threads, which would share reclaim_extents_, *)
(* is left out too.  Which extents have expired is chosen freely, so the    *)
(* pressure, the byte totals and the expiry indices are not needed.         *)
(*                                                                          *)
(* Addresses and sizes are in pages.  `Posix` chooses between munmap, which *)
(* gives back any part of a mapping, and VirtualFree, which gives back a    *)
(* whole reservation named by its first address and refuses any other; and  *)
(* between madvise, after which memory can still be used, and MEM_DECOMMIT. *)
(***************************************************************************)
EXTENDS Extents, Sequences

CONSTANTS
  Threads,    \* the callers of allocate()
  Prealloc,   \* sizes that the constructor allocates: a sequence
  MaxBlock,   \* MAX_BLOCK_SIZE
  Requests,   \* sizes that are asked for
  Posix,      \* mmap and munmap, or VirtualAlloc and VirtualFree?
  Failing     \* the memory calls that may fail: allocate, commit, decommit

ASSUME ExtentAssumption ==
  /\ PageCount \in Nat \ {0}
  /\ MaxBlock \in Nat \ {0}
  /\ Prealloc \in Seq(1 .. MaxBlock)
  /\ Requests \subseteq Nat \ {0}
  /\ Posix \in BOOLEAN
  /\ Failing \subseteq {"allocate", "commit", "decommit"}

VARIABLES
  base,       \* for each page the first page of its reservation, or NoAddr
  committed,  \* the pages that can be used
  inUse, dirty, muzzy, retained,  \* the trees
  held,       \* memory that callers got and have not given back
  pc,         \* where each caller is: the tree it looks into next
  request,    \* the size it asked for, 0 outside a call
  muzzyStuck, \* has a thread locked muzzy_mutex_ twice?
  rec,        \* where the recycler is
  batch,      \* reclaim_extents_, without those passed on
  stopping,   \* stop_requested_
  closer      \* where the destructor is

osVars     == <<base, committed>>
treeVars   == <<inUse, dirty, muzzy, retained>>
callerVars == <<held, pc, request>>
taskVars   == <<rec, batch, stopping, closer>>
extentVars == <<osVars, treeVars, callerVars, muzzyStuck, taskVars>>

Page   == 0 .. (PageCount - 1)
NoAddr == PageCount   \* nullptr, or MAP_FAILED

-----------------------------------------------------------------------------
(* The operating system *)

\* Where n pages can go.
Places(n) == {lo \in Page : \A p \in lo .. (lo + n - 1) : p \in Page /\ base[p] = NoAddr}

MayFail(n) == Places(n) = {} \/ "allocate" \in Failing

MappedAt(lo, n) ==
  /\ base' = [p \in Page |-> IF p \in lo .. (lo + n - 1) THEN lo ELSE base[p]]
  /\ committed' = committed \cup (lo .. (lo + n - 1))

\* release_memory(): the pages that are gone afterwards, none if it fails.
Released(e) ==
  IF Posix THEN Span(e) ELSE {p \in Page : base[p] = e.lo}

Unmapped(pages) == [p \in Page |-> IF p \in pages THEN NoAddr ELSE base[p]]

\* Mutant: the type is not looked at.
DestroyedAny(extents) == UNION {Released(e) : e \in extents}

\* ~extent()
Destroyed(extents) == UNION {Released(e) : e \in {f \in extents : f.type = "split"}}

-----------------------------------------------------------------------------
(* allocate() *)

\* in_use_tree::insert(): the compare-exchange of an extent that nobody else
\* knows succeeds, and then the extent is refused.
CasFails(e) == FALSE

InUseInsert(e) == IF e.state # "in_use" /\ CasFails(e) THEN {e} ELSE {}

Finish(t) ==
  /\ pc' = [pc EXCEPT ![t] = "idle"]
  /\ request' = [request EXCEPT ![t] = 0]

Goto(t, tree) == pc' = [pc EXCEPT ![t] = tree] /\ UNCHANGED request

\* allocate() hands an extent of a tree to in_use_tree, which stores or
\* destroys it, and returns its address.
HandOut(t, e, usable) ==
  LET gone == Destroyed({e} \ InUseInsert(e)) IN
  /\ inUse' = inUse \cup {[f EXCEPT !.state = "in_use"] : f \in InUseInsert(e)}
  /\ base' = Unmapped(gone)
  /\ committed' = usable \ gone
  /\ held' = held \cup {[lo |-> e.lo, size |-> request[t]]}
  /\ Finish(t)

\* An allocation by the operating system failed: VirtualAlloc says nullptr,
\* but the code takes MAP_FAILED for an address.
GotNothing(t) ==
  held' = IF Posix THEN held \cup {[lo |-> NoAddr, size |-> request[t]]} ELSE held

Call(t, n) ==
  /\ pc[t] = "idle" /\ closer = "open"
  /\ request' = [request EXCEPT ![t] = n]
  /\ pc' = [pc EXCEPT ![t] = IF n > MaxBlock THEN "large" ELSE "dirty"]
  /\ UNCHANGED <<osVars, treeVars, held, muzzyStuck, taskVars>>

VisitDirty(t) ==
  /\ pc[t] = "dirty"
  /\ IF Fits(dirty, request[t]) = {}
     THEN Goto(t, "muzzy") /\ UNCHANGED <<osVars, inUse, dirty, held>>
     ELSE /\ dirty' = Left(dirty, request[t])
          /\ HandOut(t, [Taken(dirty, request[t]) EXCEPT !.state = "in_use"], committed)
  /\ UNCHANGED <<muzzy, retained, muzzyStuck, taskVars>>

MuzzyMiss(t) ==
  /\ pc[t] = "muzzy" /\ ~muzzyStuck
  /\ Fits(muzzy, request[t]) = {}
  /\ Goto(t, "retained")
  /\ UNCHANGED <<osVars, treeVars, held, muzzyStuck, taskVars>>

MuzzyHit(t) ==
  /\ pc[t] = "muzzy" /\ ~muzzyStuck
  /\ Fits(muzzy, request[t]) # {}
  /\ muzzy' = Left(muzzy, request[t])
  /\ LET e == Taken(muzzy, request[t])
     IN  HandOut(t, [e EXCEPT !.state = "in_use"], committed \cup Span(e))
  /\ UNCHANGED <<dirty, retained, muzzyStuck, taskVars>>

\* Committing fails.  insert() refuses a piece, which is in state in_use, and
\* it is destroyed; a whole extent is muzzy, and insert() locks again the mutex
\* that its caller has locked.
MuzzyFails(t) ==
  /\ pc[t] = "muzzy" /\ ~muzzyStuck /\ "commit" \in Failing
  /\ Fits(muzzy, request[t]) # {}
  /\ muzzy' = Left(muzzy, request[t])
  /\ LET e    == Taken(muzzy, request[t])
         gone == Destroyed({e})
     IN  /\ base' = Unmapped(gone)
         /\ committed' = committed \ gone
         /\ muzzyStuck' = (e.state = "muzzy")
         /\ Goto(t, IF e.state = "muzzy" THEN "stuck" ELSE "retained")
  /\ UNCHANGED <<inUse, dirty, retained, held, taskVars>>

RetainedMiss(t) ==
  /\ pc[t] = "retained"
  /\ Fits(retained, request[t]) = {}
  /\ Goto(t, "system")
  /\ UNCHANGED <<osVars, treeVars, held, muzzyStuck, taskVars>>

\* Mutant: the old address is used though the memory may be someone else's.
RetainedHitBlindly(t) ==
  /\ pc[t] = "retained"
  /\ \E e \in Fits(retained, request[t]) :
       /\ retained' = retained \ {e}
       /\ MappedAt(e.lo, request[t])
       /\ held' = held \cup {[lo |-> e.lo, size |-> request[t]]}
  /\ Finish(t)
  /\ UNCHANGED <<inUse, dirty, muzzy, muzzyStuck, taskVars>>

\* Memory at the extent's old address if that is free, else anywhere, else
\* none.  The extent is destroyed in any case; it is never a split one.
RetainedHit(t) ==
  /\ pc[t] = "retained"
  /\ \E e \in Fits(retained, request[t]) :
       /\ retained' = retained \ {e}
       /\ \/ \E lo \in Places(request[t]) :
               /\ lo = e.lo \/ e.lo \notin Places(request[t]) \/ "allocate" \in Failing
               /\ MappedAt(lo, request[t])
               /\ held' = held \cup {[lo |-> lo, size |-> request[t]]}
          \/ /\ MayFail(request[t])
             /\ GotNothing(t)
             /\ UNCHANGED <<osVars>>
  /\ Finish(t)
  /\ UNCHANGED <<inUse, dirty, muzzy, muzzyStuck, taskVars>>

\* allocate_system(): its extent is refused by in_use_tree as well.
SystemGives(t) ==
  /\ pc[t] \in {"large", "system"}
  /\ \E lo \in Places(request[t]) :
       LET e == NewExtent(lo, request[t], "dirty", "original")
       IN  /\ MappedAt(lo, request[t])
           /\ inUse' = inUse \cup {[f EXCEPT !.state = "in_use"] : f \in InUseInsert(e)}
           /\ held' = held \cup {[lo |-> lo, size |-> request[t]]}
  /\ Finish(t)
  /\ UNCHANGED <<dirty, muzzy, retained, muzzyStuck, taskVars>>

\* Mutant: a request that was refused is tried again.
SystemRetries(t) ==
  /\ pc[t] \in {"large", "system"}
  /\ MayFail(request[t])
  /\ GotNothing(t)
  /\ Goto(t, "dirty")
  /\ UNCHANGED <<osVars, treeVars, muzzyStuck, taskVars>>

\* A large request then tries the trees, and the system once more.
SystemRefuses(t) ==
  /\ pc[t] \in {"large", "system"}
  /\ MayFail(request[t])
  /\ GotNothing(t)
  /\ IF pc[t] = "large" /\ ~Posix THEN Goto(t, "dirty") ELSE Finish(t)
  /\ UNCHANGED <<osVars, treeVars, muzzyStuck, taskVars>>

Allocate(t) ==
  \/ VisitDirty(t) \/ MuzzyMiss(t) \/ MuzzyHit(t) \/ MuzzyFails(t)
  \/ RetainedMiss(t) \/ RetainedHit(t) \/ SystemGives(t) \/ SystemRefuses(t)

\* deallocate(): only an extent found in in_use_tree, and of the size that the
\* caller names, goes to dirty_tree or back to the system.
Deallocate(r) ==
  LET found == {e \in inUse : e.lo = r.lo}
      back  == {e \in found : e.size = r.size}
      large == {e \in back : e.size >= MaxBlock}
      gone  == UNION {Released(e) : e \in large} \cup Destroyed(found \ back)
  IN  /\ closer = "open"
      /\ inUse' = inUse \ found
      /\ dirty' = dirty \cup {[e EXCEPT !.state = "dirty"] : e \in back \ large}
      /\ base' = Unmapped(gone)
      /\ committed' = committed \ gone
      /\ held' = held \ {r}
      /\ UNCHANGED <<muzzy, retained, pc, request, muzzyStuck, taskVars>>

-----------------------------------------------------------------------------
(* The recycler: reclaim() in the loop of timed_task *)

RecGoto(l) == rec' = l

RecUnchanged == UNCHANGED <<inUse, callerVars, muzzyStuck, stopping, closer>>

LoopTest ==
  /\ rec = "loop"
  /\ RecGoto(IF stopping THEN "done" ELSE "mergeDirty")
  /\ UNCHANGED <<osVars, dirty, muzzy, retained, batch>> /\ RecUnchanged

DirtyMerge ==
  /\ rec = "mergeDirty"
  /\ LET gone == Destroyed(Erased(dirty))
     IN  base' = Unmapped(gone) /\ committed' = committed \ gone
  /\ dirty' = Merge(dirty)
  /\ RecGoto("reclaimDirty")
  /\ UNCHANGED <<muzzy, retained, batch>> /\ RecUnchanged

\* Mutant: the expired extents stay in the tree.
DirtyReclaimKeeps ==
  /\ rec = "reclaimDirty"
  /\ \E expired \in SUBSET dirty : batch' = expired
  /\ RecGoto("toMuzzy")
  /\ UNCHANGED <<osVars, dirty, muzzy, retained>> /\ RecUnchanged

DirtyReclaim ==
  /\ rec = "reclaimDirty"
  /\ \E expired \in SUBSET dirty : dirty' = dirty \ expired /\ batch' = expired
  /\ RecGoto("toMuzzy")
  /\ UNCHANGED <<osVars, muzzy, retained>> /\ RecUnchanged

\* muzzy_tree::insert().  An extent that cannot be decommitted is dropped.
MuzzyInsert ==
  /\ rec = "toMuzzy" /\ batch # {} /\ ~muzzyStuck
  /\ \E e \in batch :
       /\ batch' = batch \ {e}
       /\ \/ /\ muzzy' = muzzy \cup {[e EXCEPT !.state = "muzzy"]}
             /\ committed' = IF Posix THEN committed ELSE committed \ Span(e)
             /\ UNCHANGED base
          \/ /\ "decommit" \in Failing
             /\ base' = Unmapped(Destroyed({e}))
             /\ committed' = committed \ Destroyed({e})
             /\ UNCHANGED muzzy
  /\ UNCHANGED <<rec, dirty, retained>> /\ RecUnchanged

DirtyDone ==
  /\ rec = "toMuzzy" /\ batch = {}
  /\ RecGoto("mergeMuzzy")
  /\ UNCHANGED <<osVars, dirty, muzzy, retained, batch>> /\ RecUnchanged

MuzzyMerge ==
  /\ rec = "mergeMuzzy" /\ ~muzzyStuck
  /\ LET gone == Destroyed(Erased(muzzy))
     IN  base' = Unmapped(gone) /\ committed' = committed \ gone
  /\ muzzy' = Merge(muzzy)
  /\ RecGoto("reclaimMuzzy")
  /\ UNCHANGED <<dirty, retained, batch>> /\ RecUnchanged

\* Mutant: reclaim() takes extents that are not whole.
ReclaimableAny(e) == TRUE

Reclaimable(e) == e.type = "original"

\* reclaim() erases from the set that it iterates over: it may miss some.
MuzzyReclaim ==
  /\ rec = "reclaimMuzzy" /\ ~muzzyStuck
  /\ \E expired \in SUBSET {e \in muzzy : Reclaimable(e)} :
       muzzy' = muzzy \ expired /\ batch' = expired
  /\ RecGoto("toRetained")
  /\ UNCHANGED <<osVars, dirty, retained>> /\ RecUnchanged

\* retained_tree::insert().  An extent that cannot be released is dropped.
RetainedInsert ==
  /\ rec = "toRetained" /\ batch # {}
  /\ \E e \in batch :
       /\ batch' = batch \ {e}
       /\ base' = Unmapped(Released(e))
       /\ committed' = committed \ Released(e)
       /\ retained' = retained \cup
            (IF Released(e) = {} THEN {} ELSE {[e EXCEPT !.state = "retained"]})
  /\ UNCHANGED <<rec, dirty, muzzy>> /\ RecUnchanged

MuzzyDone ==
  /\ rec = "toRetained" /\ batch = {}
  /\ RecGoto("reclaimRetained")
  /\ UNCHANGED <<osVars, dirty, muzzy, retained, batch>> /\ RecUnchanged

RetainedReclaim ==
  /\ rec = "reclaimRetained"
  /\ \E expired \in SUBSET retained : retained' = retained \ expired
  /\ RecGoto("test")
  /\ UNCHANGED <<osVars, dirty, muzzy, batch>> /\ RecUnchanged

\* wait_until(): the predicate is tested, and then the thread waits.  stop()
\* does not take the mutex, so it may come in between.
WaitTest ==
  /\ rec = "test"
  /\ RecGoto(IF stopping THEN "loop" ELSE "wait")
  /\ UNCHANGED <<osVars, dirty, muzzy, retained, batch>> /\ RecUnchanged

Wait ==
  /\ rec = "wait"
  /\ RecGoto("waiting")
  /\ UNCHANGED <<osVars, dirty, muzzy, retained, batch>> /\ RecUnchanged

\* Mutant: wait() in the place of wait_until().
NoTimeout == FALSE /\ UNCHANGED extentVars

\* The interval is over.
Timeout ==
  /\ rec = "waiting"
  /\ RecGoto("loop")
  /\ UNCHANGED <<osVars, dirty, muzzy, retained, batch>> /\ RecUnchanged

Recycler ==
  \/ LoopTest \/ DirtyMerge \/ DirtyReclaim \/ MuzzyInsert \/ DirtyDone
  \/ MuzzyMerge \/ MuzzyReclaim \/ RetainedInsert \/ MuzzyDone \/ RetainedReclaim
  \/ WaitTest \/ Wait \/ Timeout

-----------------------------------------------------------------------------
(* ~extent_manager(): clears the trees, then stops the recycler *)

CloserUnchanged == UNCHANGED <<retained, callerVars, muzzyStuck, batch>>

\* The manager is a static object: no call is running any more.
ClearInUse ==
  /\ closer = "open"
  /\ \A t \in Threads : pc[t] \in {"idle", "stuck"}
  /\ inUse' = {}
  /\ LET gone == Destroyed(inUse)
     IN  base' = Unmapped(gone) /\ committed' = committed \ gone
  /\ closer' = "clearDirty"
  /\ UNCHANGED <<dirty, muzzy, rec, stopping>> /\ CloserUnchanged

ClearDirty ==
  /\ closer = "clearDirty"
  /\ dirty' = {}
  /\ LET gone == Destroyed(dirty)
     IN  base' = Unmapped(gone) /\ committed' = committed \ gone
  /\ closer' = "clearMuzzy"
  /\ UNCHANGED <<inUse, muzzy, rec, stopping>> /\ CloserUnchanged

ClearMuzzy ==
  /\ closer = "clearMuzzy" /\ ~muzzyStuck
  /\ muzzy' = {}
  /\ LET gone == Destroyed(muzzy)
     IN  base' = Unmapped(gone) /\ committed' = committed \ gone
  /\ closer' = "clearRetained"
  /\ UNCHANGED <<inUse, dirty, rec, stopping>> /\ CloserUnchanged

ClearRetained ==
  /\ closer = "clearRetained"
  /\ retained' = {}
  /\ closer' = "stop"
  /\ UNCHANGED <<osVars, inUse, dirty, muzzy, callerVars, muzzyStuck, rec, batch, stopping>>

StopFlag ==
  /\ closer = "stop"
  /\ stopping' = TRUE
  /\ closer' = "notify"
  /\ UNCHANGED <<osVars, inUse, dirty, muzzy, rec>> /\ CloserUnchanged

\* Only a thread that waits already is woken.
Notify ==
  /\ closer = "notify"
  /\ rec' = IF rec = "waiting" THEN "test" ELSE rec
  /\ closer' = "join"
  /\ UNCHANGED <<osVars, inUse, dirty, muzzy, stopping>> /\ CloserUnchanged

JoinRecycler ==
  /\ closer = "join" /\ rec = "done"
  /\ closer' = "closed"
  /\ UNCHANGED <<osVars, inUse, dirty, muzzy, rec, stopping>> /\ CloserUnchanged

Closing ==
  ClearDirty \/ ClearMuzzy \/ ClearRetained \/ StopFlag \/ Notify \/ JoinRecycler

-----------------------------------------------------------------------------
(* The constructor, and the specification *)

\* Where the system puts the preallocated blocks.
Placements ==
  {f \in [DOMAIN Prealloc -> Page] :
     /\ \A i \in DOMAIN Prealloc : f[i] + Prealloc[i] <= PageCount
     /\ \A i, j \in DOMAIN Prealloc :
          i # j => f[i] + Prealloc[i] <= f[j] \/ f[j] + Prealloc[j] <= f[i]}

ExtentInit ==
  /\ \E f \in Placements :
       dirty = {NewExtent(f[i], Prealloc[i], "dirty", "original") : i \in DOMAIN Prealloc}
  /\ committed = Pages(dirty)
  /\ base = [p \in Page |->
       IF p \in committed THEN (CHOOSE e \in dirty : p \in Span(e)).lo ELSE NoAddr]
  /\ inUse = {} /\ muzzy = {} /\ retained = {}
  /\ held = {}
  /\ pc = [t \in Threads |-> "idle"]
  /\ request = [t \in Threads |-> 0]
  /\ muzzyStuck = FALSE
  /\ rec = "loop" /\ batch = {}
  /\ stopping = FALSE /\ closer = "open"

ExtentNext ==
  \/ \E t \in Threads : Allocate(t) \/ \E n \in Requests : Call(t, n)
  \/ \E r \in held : Deallocate(r)
  \/ Recycler
  \/ ClearInUse \/ Closing

ExtentSpec == ExtentInit /\ [][ExtentNext]_extentVars

\* Threads that can run do run; wait_until() returns when the time has come; a
\* destructor that has begun goes on.  Nobody has to call anything.
FairExtentSpec ==
  /\ ExtentSpec
  /\ \A t \in Threads : WF_extentVars(Allocate(t))
  /\ WF_extentVars(Recycler)
  /\ WF_extentVars(Closing)

-----------------------------------------------------------------------------
(* Properties *)

ExtentRecord ==
  [lo : Page, size : 1 .. PageCount, orig : 0 .. PageCount,
   state : {"in_use", "dirty", "muzzy", "retained"},
   type : {"original", "primary", "split"}]

\* What the variables of extent_manager and its trees can hold; the extents of a
\* tree are in the state of that tree.
ExtentTypeOK ==
  /\ base \in [Page -> 0 .. PageCount] /\ committed \subseteq Page
  /\ inUse \cup dirty \cup muzzy \cup retained \cup batch \subseteq ExtentRecord
  /\ \A e \in dirty : e.state = "dirty"
  /\ \A e \in muzzy : e.state = "muzzy"
  /\ \A e \in retained : e.state = "retained"
  /\ held \subseteq [lo : 0 .. PageCount, size : Requests]
  /\ pc \in [Threads -> {"idle", "large", "dirty", "muzzy", "retained", "system", "stuck"}]
  /\ request \in [Threads -> Requests \cup {0}]
  /\ muzzyStuck = (\E t \in Threads : pc[t] = "stuck")

\* Memory that allocate() returned (extent_manager.cc:207-230) can be used until
\* it is given back: neither the recycler, which decommits and releases what it
\* finds in the trees, nor the destructor of an extent takes its pages away.
HandedOutUsable == \A r \in held : Span(r) \subseteq committed

\* No page is handed out twice, or handed out and in a tree that allocate() may
\* take it from, or in two extents, even while the recycler moves extents from
\* tree to tree (extent_manager.cc:33-52).
PagesDisjoint ==
  LET idle == dirty \cup muzzy \cup (IF rec = "toMuzzy" THEN batch ELSE {})
      parts == idle \cup held
  IN  \A x, y \in parts : x # y => Span(x) \cap Span(y) = {}

\* What waits in a tree to be handed out is memory: dirty extents are committed,
\* muzzy ones still have their addresses (dirty_tree.cc:116, muzzy_tree.cc:157).
TreesBacked ==
  /\ Pages(dirty) \subseteq committed
  /\ \A p \in Pages(muzzy) : base[p] # NoAddr

\* Memory goes back to the system only when it is nobody's, and step by step: what
\* disappears was muzzy, and the whole of what had been allocated
\* (muzzy_tree.cc:231, retained_tree.cc:86).
ReleasedWhole ==
  [][\A p \in Page : base[p] # NoAddr /\ base'[p] = NoAddr =>
       \E e \in batch : e.state = "muzzy" /\ p \in Span(e)]_extentVars

\* A call of allocate() returns, unless the thread that failed to commit a muzzy
\* extent has locked up muzzy_mutex_ (muzzy_tree.cc:158).
AllocateReturns ==
  \A t \in Threads : pc[t] # "idle" ~> (pc[t] = "idle" \/ muzzyStuck)

\* stop() (timed_task.h:130) returns though it may notify a recycler that has
\* tested the flag but does not wait yet; same exception.
StopReturns == closer # "open" ~> (closer = "closed" \/ muzzyStuck)
=============================================================================
