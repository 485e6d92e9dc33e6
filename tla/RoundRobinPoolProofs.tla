------------------------ MODULE RoundRobinPoolProofs ------------------------
(***************************************************************************)
(* For any number of threads and slots, and even if compare_exchange_weak   *)
(* fails spuriously, two threads never hold the same slot; if it does not,  *)
(* no slot is ever lost.  The argument is that a thread that holds a slot   *)
(* has set its flag, and that only a holder's release clears it.            *)
(***************************************************************************)
EXTENDS RoundRobinPool, TLAPS

\* A held slot is marked, and by one thread.
Marked == \A t \in Threads : at[t] = "held" => inUse[slot[t]]

PoolInv == PoolTypeOK /\ Marked /\ Exclusive

LEMMA NextIndexInSlots == ASSUME NEW i \in Nat PROVE NextIndex(i) \in Slots
BY PoolAssumption DEF NextIndex, Slots

LEMMA ProbedInSlots ==
  ASSUME PoolTypeOK, NEW t \in Threads PROVE Probed(t) \in Slots
BY PoolAssumption DEF PoolTypeOK, Probed, Slots

\* The four steps of the pool preserve the types, for whatever client drives them.
LEMMA StepTypes ==
  ASSUME PoolTypeOK, NEW t \in Threads,
         StartScan(t) \/ ProbeHit(t) \/ ProbeMiss(t) \/ \E s \in Slots : Release(t, s)
  PROVE  PoolTypeOK'
<1>0. 0 \in Slots
  BY PoolAssumption DEF Slots
<1>1. CASE StartScan(t)
  <2>1. NextIndex(rr) \in Slots
    BY NextIndexInSlots DEF PoolTypeOK, Slots
  <2> QED BY <1>0, <1>1, <2>1 DEF StartScan, PoolTypeOK
<1>2. CASE ProbeHit(t)
  BY <1>0, <1>2, ProbedInSlots DEF ProbeHit, ScanOver, PoolTypeOK
<1>3. CASE ProbeMiss(t)
  <2>1. CASE probe[t] + 1 < N
    <3>1. probe[t] + 1 \in Slots
      BY <2>1, PoolAssumption DEF PoolTypeOK, Slots
    <3> QED BY <1>3, <2>1, <3>1 DEF ProbeMiss, PoolTypeOK
  <2>2. CASE ~(probe[t] + 1 < N)
    BY <1>0, <1>3, <2>2 DEF ProbeMiss, ScanOver, PoolTypeOK
  <2> QED BY <2>1, <2>2
<1>4. CASE \E s \in Slots : Release(t, s)
  BY <1>4 DEF Release, PoolTypeOK
<1> QED BY <1>1, <1>2, <1>3, <1>4

\* PoolInv is inductive.
LEMMA PoolInvInductive == PoolInv /\ [PoolNext]_poolVars => PoolInv'
<1> SUFFICES ASSUME PoolInv, [PoolNext]_poolVars PROVE PoolInv'
  OBVIOUS
<1> USE DEF PoolInv
<1>1. ASSUME NEW t \in Threads, Acquire(t) PROVE PoolInv'
  <2>1. PoolTypeOK' BY <1>1, StepTypes DEF Acquire
  <2>2. Marked' /\ Exclusive'
    BY <1>1 DEF Acquire, StartScan, Marked, Exclusive, PoolTypeOK
  <2> QED BY <2>1, <2>2
<1>2. ASSUME NEW t \in Threads, ProbeHit(t) PROVE PoolInv'
  <2>1. PoolTypeOK' BY <1>2, StepTypes
  <2>2. Probed(t) \in Slots BY ProbedInSlots
  <2>3. Marked' BY <1>2, <2>2 DEF ProbeHit, ScanOver, Marked, PoolTypeOK
  <2>4. Exclusive'
    BY <1>2, <2>2 DEF ProbeHit, ScanOver, Marked, Exclusive, PoolTypeOK
  <2> QED BY <2>1, <2>3, <2>4
<1>3. ASSUME NEW t \in Threads, ProbeMiss(t) PROVE PoolInv'
  <2>1. PoolTypeOK' BY <1>3, StepTypes
  <2>2. Marked' /\ Exclusive'
    BY <1>3 DEF ProbeMiss, ScanOver, Marked, Exclusive, PoolTypeOK
  <2> QED BY <2>1, <2>2
<1>4. ASSUME NEW t \in Threads, GiveBack(t) PROVE PoolInv'
  <2>1. slot[t] \in Slots BY DEF PoolTypeOK
  <2>2. PoolTypeOK' BY <1>4, <2>1, StepTypes DEF GiveBack
  <2>3. Marked'
    BY <1>4, <2>1 DEF GiveBack, Release, Marked, Exclusive, PoolTypeOK
  <2>4. Exclusive'
    BY <1>4 DEF GiveBack, Release, Exclusive, PoolTypeOK
  <2> QED BY <2>2, <2>3, <2>4
<1>5. CASE UNCHANGED poolVars
  BY <1>5 DEF poolVars, PoolTypeOK, Marked, Exclusive
<1> QED BY <1>1, <1>2, <1>3, <1>4, <1>5 DEF PoolNext

LEMMA PoolInitially == PoolInit => PoolInv
BY PoolAssumption DEF PoolInit, PoolInv, PoolTypeOK, Marked, Exclusive, Slots

\* No two threads hold one slot, in any reachable state of any pool.
THEOREM PoolExclusive == PoolSpec => []Exclusive
<1>1. PoolInv => Exclusive BY DEF PoolInv
<1> QED BY <1>1, PoolInitially, PoolInvInductive, PTL DEF PoolSpec

\* Every variable of the pool keeps its type; in particular no scan probes a slot that
\* does not exist, wherever the index stands.
THEOREM PoolTypeCorrect == PoolSpec => []PoolTypeOK
<1>1. PoolInv => PoolTypeOK BY DEF PoolInv
<1> QED BY <1>1, PoolInitially, PoolInvInductive, PTL DEF PoolSpec

\* A step that leaves the flags alone, and every holder with its slot, loses none.
LEMMA HoldersStay ==
  ASSUME NoSlotLost, UNCHANGED inUse,
         \A t \in Threads : at[t] = "held" => at'[t] = "held" /\ slot'[t] = slot[t]
  PROVE  NoSlotLost'
BY DEF NoSlotLost

\* Without spurious failures a flag is set by the thread that becomes the holder, and
\* cleared by the holder, so that NoSlotLost is inductive beside PoolInv.
LEMMA SlotsKeepHolders ==
  ASSUME ~WeakFailure, PoolInv, NoSlotLost, [PoolNext]_poolVars
  PROVE  NoSlotLost'
<1> USE DEF PoolInv
<1>1. ASSUME NEW t \in Threads, Acquire(t) PROVE NoSlotLost'
  BY <1>1, HoldersStay DEF Acquire, StartScan, PoolTypeOK
<1>2. ASSUME NEW t \in Threads, ProbeHit(t) PROVE NoSlotLost'
  <2>1. Probed(t) \in Slots BY ProbedInSlots
  <2>2. /\ at' = [at EXCEPT ![t] = "held"]
        /\ slot' = [slot EXCEPT ![t] = Probed(t)]
        /\ inUse' = [inUse EXCEPT ![Probed(t)] = TRUE]
        /\ at[t] = "scan"
    BY <1>2 DEF ProbeHit
  <2>3. at'[t] = "held" /\ slot'[t] = Probed(t)
    BY <2>2 DEF PoolTypeOK
  <2>4. ASSUME NEW s \in Slots, inUse'[s]
        PROVE  \E u \in Threads : at'[u] = "held" /\ slot'[u] = s
    <3>1. CASE s = Probed(t) BY <2>3, <3>1
    <3>2. CASE s # Probed(t)
      <4>1. PICK u \in Threads : at[u] = "held" /\ slot[u] = s
        BY <2>2, <2>4, <3>2 DEF NoSlotLost, PoolTypeOK
      <4>2. at'[u] = "held" /\ slot'[u] = s
        BY <2>2, <4>1 DEF PoolTypeOK
      <4> QED BY <4>2
    <3> QED BY <3>1, <3>2
  <2> QED BY <2>4 DEF NoSlotLost
<1>3. ASSUME NEW t \in Threads, ProbeMiss(t) PROVE NoSlotLost'
  <2>1. \A u \in Threads : at[u] = "held" => at'[u] = "held" /\ slot'[u] = slot[u]
    BY <1>3 DEF ProbeMiss, ScanOver, PoolTypeOK
  <2> QED BY <1>3, <2>1, HoldersStay DEF ProbeMiss
<1>4. ASSUME NEW t \in Threads, GiveBack(t) PROVE NoSlotLost'
  <2>1. /\ inUse' = [inUse EXCEPT ![slot[t]] = FALSE]
        /\ at' = [at EXCEPT ![t] = "out"]
        /\ slot' = slot
    BY <1>4 DEF GiveBack, Release
  <2>2. ASSUME NEW s \in Slots, inUse'[s]
        PROVE  \E u \in Threads : at'[u] = "held" /\ slot'[u] = s
    <3>1. s # slot[t] /\ inUse[s] BY <2>1, <2>2 DEF PoolTypeOK
    <3>2. PICK u \in Threads : at[u] = "held" /\ slot[u] = s
      BY <3>1 DEF NoSlotLost
    <3> QED BY <2>1, <3>1, <3>2 DEF PoolTypeOK
  <2> QED BY <2>2 DEF NoSlotLost
<1>5. CASE UNCHANGED poolVars
  BY <1>5 DEF poolVars, NoSlotLost
<1> QED BY <1>1, <1>2, <1>3, <1>4, <1>5 DEF PoolNext

\* If compare_exchange_weak does not fail spuriously, a slot that is marked in use has a
\* holder in every reachable state: clients that release what they hold lose no slot.
THEOREM PoolLosesNoSlot == ASSUME ~WeakFailure PROVE PoolSpec => []NoSlotLost
<1>1. PoolInit => NoSlotLost BY DEF PoolInit, NoSlotLost
<1>2. PoolInv /\ NoSlotLost /\ [PoolNext]_poolVars => NoSlotLost'
  BY SlotsKeepHolders
<1> QED BY <1>1, <1>2, PoolInitially, PoolInvInductive, PTL DEF PoolSpec
=============================================================================
