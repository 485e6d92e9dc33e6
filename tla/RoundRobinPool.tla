--------------------------- MODULE RoundRobinPool ---------------------------
(***************************************************************************)
(* lock_free_pool<T, N, pool_strategy::ROUND_ROBIN>: N slots, each with an  *)
(* atomic in-use flag, and an index that every acquire() advances to choose *)
(* where its scan of the flags begins.  The scan is not atomic: other       *)
(* threads take and give back slots between two probes.                     *)
(*                                                                          *)
(* The module serves twice: its Spec is the pool with clients that release  *)
(* each slot exactly once; SlabGroup EXTENDS it and drives the same steps   *)
(* with the calls slab_group really makes.                                  *)
(*                                                                          *)
(* Abstracted: round_robin_index_ is kept modulo N (a 64-bit counter wraps  *)
(* in no run of interest); size_ is a statistic that no caller in the       *)
(* product reads and is left out.                                           *)
(***************************************************************************)
EXTENDS Naturals, FiniteSets

CONSTANTS Threads,      \* the threads that use the pool
          N,            \* the number of slots
          WeakFailure   \* may compare_exchange_weak fail although the values match?

ASSUME PoolAssumption == N \in Nat \ {0} /\ WeakFailure \in BOOLEAN

Slots == 0 .. N - 1

VARIABLES inUse,   \* in_use_: the flag of every slot
          rr,      \* round_robin_index_ % N
          at,      \* where each thread is: outside, scanning, holding a slot, refused
          start,   \* start_idx of the thread's acquire()
          probe,   \* the loop counter of its scan
          slot     \* the slot its last successful acquire() returned

poolVars == <<inUse, rr, at, start, probe, slot>>

PoolTypeOK ==
  /\ inUse \in [Slots -> BOOLEAN]
  /\ rr \in Slots
  /\ at \in [Threads -> {"out", "scan", "held", "null"}]
  /\ start \in [Threads -> Slots]
  /\ probe \in [Threads -> Slots]
  /\ slot \in [Threads -> Slots]

PoolInit ==
  /\ inUse = [s \in Slots |-> FALSE]
  /\ rr = 0
  /\ at = [t \in Threads |-> "out"]
  /\ start = [t \in Threads |-> 0]
  /\ probe = [t \in Threads |-> 0]
  /\ slot = [t \in Threads |-> 0]

-----------------------------------------------------------------------------
NextIndex(i) == (i + 1) % N

\* acquire(): fetch_add on the index fixes where this scan starts.  (Locals that
\* are dead are set to 0, here and below, to keep the state space small.)
StartScan(t) ==
  /\ at[t] # "scan"
  /\ start' = [start EXCEPT ![t] = rr]
  /\ rr' = NextIndex(rr)
  /\ probe' = [probe EXCEPT ![t] = 0]
  /\ slot' = [slot EXCEPT ![t] = 0]
  /\ at' = [at EXCEPT ![t] = "scan"]
  /\ UNCHANGED inUse

Probed(t) == (start[t] + probe[t]) % N

ScanOver(t) ==
  /\ start' = [start EXCEPT ![t] = 0]
  /\ probe' = [probe EXCEPT ![t] = 0]

\* Mutant: the slot is marked without comparing its flag.
ProbeHitStore(t) ==
  /\ at[t] = "scan"
  /\ inUse' = [inUse EXCEPT ![Probed(t)] = TRUE]
  /\ slot' = [slot EXCEPT ![t] = Probed(t)]
  /\ at' = [at EXCEPT ![t] = "held"]
  /\ ScanOver(t)
  /\ UNCHANGED rr

\* One probe whose CAS false -> true succeeds: the thread holds the slot.
ProbeHit(t) ==
  /\ at[t] = "scan"
  /\ ~inUse[Probed(t)]
  /\ inUse' = [inUse EXCEPT ![Probed(t)] = TRUE]
  /\ slot' = [slot EXCEPT ![t] = Probed(t)]
  /\ at' = [at EXCEPT ![t] = "held"]
  /\ ScanOver(t)
  /\ UNCHANGED rr

\* One probe whose CAS fails: the next slot, or nullptr after the N-th.
ProbeMiss(t) ==
  /\ at[t] = "scan"
  /\ inUse[Probed(t)] \/ WeakFailure
  /\ IF probe[t] + 1 < N
       THEN probe' = [probe EXCEPT ![t] = @ + 1] /\ UNCHANGED <<at, start>>
       ELSE at' = [at EXCEPT ![t] = "null"] /\ ScanOver(t)
  /\ UNCHANGED <<inUse, rr, slot>>

\* release(ptr): CAS true -> false on the slot's flag, without a retry.  On a
\* flag that is already false the CAS fails and nothing changes; a spurious
\* failure leaves the flag set.  The caller ignores the result either way.
Release(t, s) ==
  /\ \/ inUse' = [inUse EXCEPT ![s] = FALSE]
     \/ WeakFailure /\ UNCHANGED inUse
  /\ at' = [at EXCEPT ![t] = "out"]
  /\ UNCHANGED <<rr, start, probe, slot>>

-----------------------------------------------------------------------------
\* Clients that release what they hold, once.
Acquire(t) == at[t] \in {"out", "null"} /\ StartScan(t)
GiveBack(t) == at[t] = "held" /\ Release(t, slot[t])

PoolNext == \E t \in Threads :
              Acquire(t) \/ ProbeHit(t) \/ ProbeMiss(t) \/ GiveBack(t)

PoolSpec == PoolInit /\ [][PoolNext]_poolVars

-----------------------------------------------------------------------------
\* Two threads never hold the same slot: what slab_group relies on when it
\* writes a slab's plain counters between acquire() and release().
Exclusive ==
  \A t, u \in Threads :
    t # u /\ at[t] = "held" /\ at[u] = "held" => slot[t] # slot[u]

\* A slot marked in use is held by some thread: release() never loses one.
NoSlotLost ==
  \A s \in Slots : inUse[s] => \E t \in Threads : at[t] = "held" /\ slot[t] = s

\* acquire() answers nullptr only when every slot is in use at that moment
\* (the comment on its last return statement).
NullOnlyWhenAllUsed ==
  [][\A t \in Threads :
       at[t] = "scan" /\ at'[t] = "null" => \A s \in Slots : inUse[s]]_poolVars
=============================================================================
