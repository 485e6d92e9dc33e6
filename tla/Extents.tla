------------------------------ MODULE Extents ------------------------------
(***************************************************************************)
(* The extents and what dirty_tree and muzzy_tree, whose code is the same   *)
(* in this, do with them: first fit, split and merge.  Addresses and sizes  *)
(* are in pages; a tree is the set of its extents, and its order is that of *)
(* their addresses.  The expiry time of an extent is left out: when it      *)
(* expires is for the users of this module to choose.                       *)
(***************************************************************************)
EXTENDS Naturals

CONSTANT PageCount   \* pages of the address space

NewExtent(lo, size, state, type) ==
  [lo |-> lo, size |-> size, state |-> state, type |-> type, orig |-> 0]

\* The pages of an extent, or of memory that a caller holds.
Span(e) == e.lo .. (e.lo + e.size - 1)

Pages(extents) == UNION {Span(e) : e \in extents}

-----------------------------------------------------------------------------
(* Allocation from a tree *)

Fits(tree, n) == {e \in tree : e.size >= n}

FirstFit(tree, n) ==
  CHOOSE e \in Fits(tree, n) : \A f \in Fits(tree, n) : e.lo <= f.lo

\* Mutant: an extent of the very size asked for is split too.
MustSplitAlways(e, n) == e.size >= n

\* At least a page must stay.
MustSplit(e, n) == e.size >= n + 1

\* split_extent(): what stays in the tree, and the pages cut off its end.
Remainder(e, n) ==
  IF e.type = "original" /\ e.orig = 0
  THEN [e EXCEPT !.type = "primary", !.orig = e.size, !.size = @ - n]
  ELSE [e EXCEPT !.size = @ - n]

Piece(e, n) == NewExtent(e.lo + e.size - n, n, "in_use", "split")

\* What an allocation of n pages takes out of `tree`, and what it leaves.
Taken(tree, n) ==
  LET e == FirstFit(tree, n) IN IF MustSplit(e, n) THEN Piece(e, n) ELSE e

Left(tree, n) ==
  LET e == FirstFit(tree, n)
  IN  (tree \ {e}) \cup (IF MustSplit(e, n) THEN {Remainder(e, n)} ELSE {})

-----------------------------------------------------------------------------
(* Merging *)

CheckMerge(e, next) ==
  /\ e.type # "original"
  /\ next.lo = e.lo + e.size
  /\ ~(e.type = "primary" /\ next.type = "primary")

\* The pages of `next` join `e`, which is original again when it is whole.
Join(e, next) ==
  LET size == e.size + next.size
  IN  [e EXCEPT !.size = size,
                !.type = IF @ = "primary" /\ size = e.orig THEN "original" ELSE @]

\* The extent `next` is reached when those before it have been merged to `done`.
MergeInto(done, next) ==
  LET before == {e \in done : CheckMerge(e, next)}
  IN  IF before = {} THEN done \cup {next}
      ELSE (done \ before) \cup {Join(e, next) : e \in before}

\* merge() goes once through the extents in the order of their addresses.
Merge(tree) ==
  LET upTo[p \in 0 .. PageCount] ==
        IF p = 0 THEN {}
        ELSE LET starts == {e \in tree : e.lo = p - 1}
             IN  IF starts = {} THEN upTo[p - 1]
                 ELSE MergeInto(upTo[p - 1], CHOOSE e \in starts : TRUE)
  IN  upTo[PageCount]

\* The extents that merge() erases; their destructors run.
Erased(tree) == {e \in tree : \A f \in Merge(tree) : f.lo # e.lo}
=============================================================================
