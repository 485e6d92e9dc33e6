--------------------------- MODULE ObjectAllocator ---------------------------
(***************************************************************************)
(* What every layer of the allocator promises, in the terms of its callers: *)
(* an object is free, or set aside by the allocator, or held by a caller.   *)
(* It passes between `free` and `held` only through the allocator, so it is *)
(* never handed out while a caller holds it, and never becomes free while   *)
(* it is held.                                                              *)
(*                                                                          *)
(* The objects that are neither free nor held are set aside: by a call that *)
(* has taken them and not returned yet, by a call that has been given them  *)
(* back and has not freed them yet, or by a thread cache that keeps them.   *)
(***************************************************************************)
CONSTANT Everything       \* all objects

VARIABLES free, held

allocVars == <<free, held>>

AllocInit == free = Everything /\ held = {}

\* Objects are set aside, or handed out, or both at once.
Allocate ==
  /\ free' \in SUBSET free
  /\ held \subseteq held'
  /\ held' \in SUBSET (Everything \ free')

\* Objects are given back, or become free, or both at once.
Free ==
  /\ held' \in SUBSET held
  /\ free \subseteq free'
  /\ free' \in SUBSET (Everything \ held')

AllocNext == Allocate \/ Free

AllocSpec == AllocInit /\ [][AllocNext]_allocVars
=============================================================================
