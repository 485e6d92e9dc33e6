--------------------------- MODULE SlabGroupProofs ---------------------------
(***************************************************************************)
(* An initialized slab group never hands one object to two owners, and the  *)
(* bitmaps say exactly which objects are owned: for any number of threads,  *)
(* slabs, words and bits.  The proof uses neither the exclusiveness of the  *)
(* slab pool, which the second release in slab_group::allocate breaks, nor  *)
(* the counts, which lose updates: only the CAS on a bitmap word, the rule  *)
(* that slab s manages region s, and callers that free what they own once.  *)
(* The last part is about a group that one thread creates and whose callers *)
(* only allocate: there no slab is lost and the rules of the pool are kept. *)
(***************************************************************************)
EXTENDS SlabGroup, RoundRobinPoolProofs, FiniteSetTheorems

InitLabels == {"init", "clear_slab", "set_region", "init_release"}
FreeLabels == {"free", "cleared", "count_down"}
SearchLabels == {"cas", "claimed", "count_up"}
InSlabLabels == SearchLabels \cup {"check_full", "enter", "load", "release_last"}
LoopLabels == InSlabLabels \cup {"scan", "no_slab", "release", "query"}

\* The group is initialized, region s to slab s, and nobody initializes it again.
Settled ==
  /\ ready = TRUE
  /\ region = [s \in Slots |-> s]
  /\ \A t \in Threads : op[t] # "init" /\ pc[t] \notin InitLabels

\* What a thread's place says of its locals.
Phase(t) ==
  /\ pc[t] \in InSlabLabels \cup {"release"} => op[t] \in {"allocate", "batch"}
  /\ pc[t] \in {"next", "scan", "no_slab"} \cup InSlabLabels /\ op[t] # "batch" => got[t] = {}
  /\ pc[t] \in FreeLabels \cup {"idle", "query"} => got[t] = {}
  /\ pc[t] \notin FreeLabels => todo[t] = {}
  /\ pc[t] \in LoopLabels => tries[t] < N
  /\ pc[t] \in SearchLabels => word[t] < Words

Phases == \A t \in Threads : Phase(t)

Owners == NoDoubleHandout /\ BitsMatchOwners

SlabInv == SlabTypeOK /\ Settled /\ Phases /\ Owners

-----------------------------------------------------------------------------
LEMMA ConstantsInRange ==
  /\ 0 \in Slots /\ 0 \in Objects /\ 0 \in 0 .. N /\ 0 \in 0 .. Words /\ 0 \in 0 .. Words - 1
  /\ 0 \in 0 .. CountMod - 1 /\ 1 \in 1 .. MaxBatch
BY PoolAssumption, SlabAssumption DEF Slots, Objects

LEMMA WordIndexInRange ==
  ASSUME SlabTypeOK, NEW t \in Threads PROVE WordIndex(t) \in 0 .. Words - 1
BY SlabAssumption DEF SlabTypeOK, WordIndex

LEMMA CountsInRange ==
  ASSUME NEW n \in 0 .. CountMod - 1
  PROVE  /\ CountUp(n) \in 0 .. CountMod - 1
         /\ (n + CountMod - 1) % CountMod \in 0 .. CountMod - 1
BY SlabAssumption DEF CountUp

\* The initial state of an initialized group satisfies the invariant.
LEMMA SlabInitially == ReadyInit => SlabInv
<1> SUFFICES ASSUME ReadyInit PROVE SlabInv
  OBVIOUS
<1> USE DEF ReadyInit, InitIdle
<1>1. PoolTypeOK BY PoolInitially DEF PoolInv
<1>2. SlabTypeOK
  BY <1>1, ConstantsInRange DEF SlabTypeOK, Labels, Ops
<1>3. Settled /\ Phases
  BY DEF Settled, Phases, Phase, InitLabels, FreeLabels, SearchLabels, InSlabLabels, LoopLabels
<1>4. Owners
  BY DEF Owners, NoDoubleHandout, BitsMatchOwners, InFlight, Pending
<1> QED BY <1>2, <1>3, <1>4 DEF SlabInv

-----------------------------------------------------------------------------
\* A step after which every call has the objects it had.
LEMMA SameClaims ==
  ASSUME Owners, UNCHANGED <<bits, live>>,
         \A u \in Threads : InFlight(u)' = InFlight(u) /\ Pending(u)' \cap got'[u] = {}
  PROVE  Owners'
BY DEF Owners, NoDoubleHandout, BitsMatchOwners

\* The claims of a thread that takes no step, in a group whose regions are fixed.
LEMMA OthersPending ==
  ASSUME Settled, Settled', SlabTypeOK, NEW u \in Threads,
         pc'[u] = pc[u], op'[u] = op[u], slot'[u] = slot[u], bit'[u] = bit[u]
  PROVE  Pending(u)' = Pending(u)
BY DEF Pending, Claimed, Held, Settled

\* What Return does to the objects: the call's become the caller's.
LEMMA ReturnStep ==
  ASSUME SlabTypeOK, Owners, NEW t \in Threads, Return(t), UNCHANGED <<bits, todo>>,
         todo[t] = {}, Pending(t) = {}, Pending(t)' = {},
         \A u \in Threads \ {t} : Pending(u)' = Pending(u)
  PROVE  Owners'
<1>1. InFlight(t) = got[t] /\ InFlight(t)' = {} /\ live' = live \cup got[t]
  BY DEF InFlight, Return, SlabTypeOK
<1>2. \A u \in Threads \ {t} : InFlight(u)' = InFlight(u) /\ got'[u] = got[u]
  BY DEF InFlight, Return, SlabTypeOK
<1>3. NoDoubleHandout'
  BY <1>1, <1>2 DEF Owners, NoDoubleHandout
<1>4. ASSUME NEW s \in Slots, NEW b \in Objects
      PROVE  (<<s, b>> \in live \/ \E u \in Threads : <<s, b>> \in InFlight(u))
             <=> (<<s, b>> \in live' \/ \E u \in Threads : <<s, b>> \in InFlight(u)')
  BY <1>1, <1>2
<1>5. BitsMatchOwners'
  BY <1>4 DEF Owners, BitsMatchOwners
<1> QED BY <1>3, <1>5 DEF Owners

-----------------------------------------------------------------------------
\* A step of t that leaves the locals of the other threads alone.
OthersKeep(t) ==
  \A u \in Threads \ {t} :
    /\ pc'[u] = pc[u] /\ op'[u] = op[u] /\ tries'[u] = tries[u]
    /\ word'[u] = word[u] /\ got'[u] = got[u] /\ todo'[u] = todo[u]

LEMMA PhasesFrom ==
  ASSUME Settled, Phases, NEW t \in Threads, OthersKeep(t), UNCHANGED <<ready, region>>,
         op'[t] # "init", pc'[t] \notin InitLabels, Phase(t)'
  PROVE  Settled' /\ Phases'
<1>1. \A u \in Threads \ {t} : Phase(u)'
  BY DEF OthersKeep, Phases, Phase
<1>2. Settled' BY DEF OthersKeep, Settled
<1> QED BY <1>1, <1>2 DEF Phases

-----------------------------------------------------------------------------
\* Types, the fixed regions and the phases are preserved by every step.
LEMMA PhasesStep ==
  ASSUME SlabInv, NEW t \in Threads, Step(t)
  PROVE  SlabTypeOK' /\ Settled' /\ Phases'
<1> USE DEF SlabInv, Goto, poolVars, slabVars, callVars, searchVars, freeVars
<1>a. SlabTypeOK /\ PoolTypeOK /\ Settled /\ Phases
  BY DEF SlabTypeOK
<1>b. Held(t) = slot[t] /\ slot[t] \in Slots
  BY <1>a DEF Held, PoolTypeOK
<1>c. Phase(t)
  BY <1>a DEF Phases
<1>d. Claimed(t) \in Pointers
  BY <1>a, <1>b DEF Claimed, Pointers, Settled, SlabTypeOK
<1>e. pc[t] \in LoopLabels => tries[t] + 1 \in 0 .. N
  <2>1. tries[t] \in 0 .. N BY <1>a DEF SlabTypeOK
  <2>2. pc[t] \in LoopLabels => tries[t] < N BY <1>c DEF Phase
  <2> QED BY <2>1, <2>2, PoolAssumption
<1>1. CASE Call(t)
  <2>1. PoolTypeOK' BY <1>a, <1>1 DEF Call, PoolTypeOK
  <2>2. PICK o \in Calls, n \in 1 .. MaxBatch :
          op' = [op EXCEPT ![t] = o] /\ want' = [want EXCEPT ![t] = n]
    BY <1>1 DEF Call
  <2>3. o \in Ops /\ o # "init" BY SlabAssumption DEF Ops
  <2>4. SlabTypeOK'
    BY <1>a, <1>1, <2>1, <2>2, <2>3, ConstantsInRange DEF Call, SlabTypeOK, Labels
  <2>5. Settled' /\ Phases'
    BY <1>a, <1>1, <2>2, <2>3
    DEF Call, Settled, Phases, Phase, SlabTypeOK, InitLabels, FreeLabels,
            SearchLabels, InSlabLabels, LoopLabels
  <2> QED BY <2>4, <2>5
<1>2. CASE CallRefused(t)
  <2>1. PoolTypeOK' BY <1>a, <1>2 DEF CallRefused, vars, PoolTypeOK
  <2>2. SlabTypeOK'
    BY <1>a, <1>b, <1>2, <2>1
    DEF CallRefused, vars, SlabTypeOK, Labels, Ops
  <2>3. Settled' /\ Phases'
    BY <1>a, <1>2
    DEF CallRefused, vars, Settled, Phases, Phase, SlabTypeOK, InitLabels, FreeLabels,
            SearchLabels, InSlabLabels, LoopLabels
  <2> QED BY <2>2, <2>3
<1>3. CASE NextSlab(t)
  <2>1. PoolTypeOK' BY <1>a, <1>b, <1>3, StepTypes DEF NextSlab
  <2>2. SlabTypeOK'
    BY <1>a, <1>b, <1>3, <2>1
    DEF NextSlab, SlabTypeOK, Labels, Ops
  <2>3. Settled' /\ Phases'
    BY <1>a, <1>3
    DEF NextSlab, Settled, Phases, Phase, SlabTypeOK, InitLabels, FreeLabels,
            SearchLabels, InSlabLabels, LoopLabels
  <2> QED BY <2>2, <2>3
<1>4. CASE LoopEnds(t)
  <2>1. PoolTypeOK' BY <1>a, <1>4 DEF LoopEnds, Return, PoolTypeOK
  <2>2. SlabTypeOK'
    BY <1>a, <1>b, <1>4, <2>1, ConstantsInRange
    DEF LoopEnds, Return, SlabTypeOK, Labels, Ops
  <2>3. Settled' /\ Phases'
    BY <1>a, <1>4
    DEF LoopEnds, Return, Settled, Phases, Phase, SlabTypeOK, InitLabels, FreeLabels,
            SearchLabels, InSlabLabels, LoopLabels
  <2> QED BY <2>2, <2>3
<1>5. CASE Scan(t)
  <2>1. PoolTypeOK' BY <1>a, <1>5, StepTypes DEF Scan
  <2>2. PICK l \in {"check_full", "enter", "query", "no_slab", "scan"} :
          pc' = [pc EXCEPT ![t] = l]
             /\ (l = "check_full" => op[t] = "allocate") /\ (l = "enter" => op[t] = "batch")
             /\ (l = "query" => op[t] # "batch")
    BY <1>a, <1>5 DEF Scan, Settled
  <2>3. SlabTypeOK' BY <1>a, <1>5, <2>1, <2>2 DEF Scan, SlabTypeOK, Labels
  <2>4. OthersKeep(t) BY <1>5, <1>a, <2>2 DEF Scan, OthersKeep, SlabTypeOK
  <2>5. pc[t] = "scan" /\ pc'[t] = l /\ op'[t] = op[t] /\ tries'[t] = tries[t] /\ got'[t] = got[t]
          /\ todo'[t] = todo[t]
    BY <1>5, <1>a, <2>2 DEF Scan, SlabTypeOK
  <2>6. Phase(t)'
    BY <1>c, <2>2, <2>5
    DEF Phase, FreeLabels, SearchLabels, InSlabLabels, LoopLabels
  <2>7. op'[t] # "init" /\ pc'[t] \notin InitLabels
    BY <1>a, <2>2, <2>5 DEF Settled, InitLabels
  <2>8. Settled' /\ Phases'
    BY <1>a, <1>5, <2>4, <2>6, <2>7, PhasesFrom DEF Scan
  <2> QED BY <2>3, <2>8
<1>6. CASE NoSlab(t)
  <2>1. PoolTypeOK' BY <1>a, <1>6 DEF NoSlab, Return, PoolTypeOK
  <2>2. SlabTypeOK'
    BY <1>a, <1>b, <1>6, <2>1, ConstantsInRange
    DEF NoSlab, Return, SlabTypeOK, Labels, Ops
  <2>3. Settled' /\ Phases'
    BY <1>a, <1>6
    DEF NoSlab, Return, Settled, Phases, Phase, SlabTypeOK, InitLabels, FreeLabels,
            SearchLabels, InSlabLabels, LoopLabels
  <2> QED BY <2>2, <2>3
<1>7. CASE CheckFull(t)
  <2>1. PoolTypeOK' BY <1>a, <1>7 DEF CheckFull, PoolTypeOK
  <2>2. SlabTypeOK'
    BY <1>a, <1>b, <1>7, <2>1
    DEF CheckFull, SlabTypeOK, Labels, Ops
  <2>3. Settled' /\ Phases'
    BY <1>a, <1>7
    DEF CheckFull, Settled, Phases, Phase, SlabTypeOK, InitLabels, FreeLabels,
            SearchLabels, InSlabLabels, LoopLabels
  <2> QED BY <2>2, <2>3
<1>8. CASE EnterSlab(t)
  <2>1. PoolTypeOK' BY <1>a, <1>8 DEF EnterSlab, PoolTypeOK
  <2>2. SlabTypeOK'
    BY <1>a, <1>b, <1>8, <2>1, ConstantsInRange
    DEF EnterSlab, SlabTypeOK, Labels, Ops
  <2>3. Settled' /\ Phases'
    BY <1>a, <1>8
    DEF EnterSlab, Settled, Phases, Phase, SlabTypeOK, InitLabels, FreeLabels,
            SearchLabels, InSlabLabels, LoopLabels
  <2> QED BY <2>2, <2>3
<1>9. CASE LoadWord(t)
  <2>1. PoolTypeOK' BY <1>a, <1>9 DEF LoadWord, PoolTypeOK
  <2>2. CASE word[t] = Words
    <3>1. SlabTypeOK'
      BY <1>a, <1>9, <2>1, <2>2, ConstantsInRange DEF LoadWord, SearchOver, SlabTypeOK, Labels
    <3>2. Settled' /\ Phases'
      BY <1>a, <1>9, <2>2
      DEF LoadWord, SearchOver, Settled, Phases, Phase, SlabTypeOK, InitLabels, FreeLabels,
            SearchLabels, InSlabLabels, LoopLabels
    <3> QED BY <3>1, <3>2
  <2>3. CASE word[t] # Words
    <3>1. word[t] < Words /\ word[t] + 1 \in 0 .. Words
      BY <1>a, <2>3, SlabAssumption DEF SlabTypeOK
    <3>2. bits[Held(t)] \cap WordOf(WordIndex(t)) \in SUBSET Objects
      BY <1>a, <1>b DEF SlabTypeOK
    <3>3. SlabTypeOK'
      BY <1>a, <1>9, <2>1, <2>3, <3>1, <3>2 DEF LoadWord, SlabTypeOK, Labels
    <3>4. Settled' /\ Phases'
      BY <1>a, <1>9, <2>3, <3>1
      DEF LoadWord, Settled, Phases, Phase, SlabTypeOK, InitLabels, FreeLabels,
            SearchLabels, InSlabLabels, LoopLabels
    <3> QED BY <3>3, <3>4
  <2> QED BY <2>2, <2>3
<1>10. CASE ClaimBit(t)
  <2>1. PoolTypeOK' BY <1>a, <1>10 DEF ClaimBit, casFrame, PoolTypeOK
  <2>2. CASE SetBit(t)
    <3>1. PICK b \in Objects : /\ bits' = [bits EXCEPT ![Held(t)] = @ \cup {b}]
                               /\ bit' = [bit EXCEPT ![t] = b]
                               /\ seen' = [seen EXCEPT ![t] = @ \cup {b}]
      BY <2>2 DEF SetBit
    <3>2. SlabTypeOK'
      BY <1>a, <1>b, <1>10, <2>1, <2>2, <3>1 DEF ClaimBit, casFrame, SetBit, SlabTypeOK, Labels
    <3>3. pc' = [pc EXCEPT ![t] = "claimed"] BY <2>2 DEF SetBit
    <3>4. Settled' /\ Phases'
      BY <1>a, <1>10, <3>3
      DEF ClaimBit, casFrame, Settled, Phases, Phase, SlabTypeOK, InitLabels, FreeLabels,
            SearchLabels, InSlabLabels, LoopLabels
    <3> QED BY <3>2, <3>4
  <2>3. CASE CasFails(t)
    <3>1. SlabTypeOK'
      BY <1>a, <1>10, <2>1, <2>3 DEF ClaimBit, casFrame, CasFails, SlabTypeOK, Labels
    <3>2. Settled' /\ Phases'
      BY <1>a, <1>10, <2>3
      DEF ClaimBit, casFrame, CasFails, Settled, Phases, Phase, SlabTypeOK, InitLabels, FreeLabels,
            SearchLabels, InSlabLabels, LoopLabels
    <3> QED BY <3>1, <3>2
  <2> QED BY <1>10, <2>2, <2>3 DEF ClaimBit
<1>11. CASE CountUpRead(t)
  <2>1. PoolTypeOK' BY <1>a, <1>11 DEF CountUpRead, PoolTypeOK
  <2>2. SlabTypeOK'
    BY <1>a, <1>b, <1>11, <2>1, <1>d
    DEF CountUpRead, SlabTypeOK, Labels, Ops
  <2>3. Settled' /\ Phases'
    BY <1>a, <1>11
    DEF CountUpRead, Settled, Phases, Phase, SlabTypeOK, InitLabels, FreeLabels,
            SearchLabels, InSlabLabels, LoopLabels
  <2> QED BY <2>2, <2>3
<1>12. CASE CountUpWrite(t)
  <2>1. PoolTypeOK' BY <1>a, <1>12 DEF CountUpWrite, PoolTypeOK
  <2>2. CountUp(tmp[t]) \in 0 .. CountMod - 1 /\ WordIndex(t) \in 0 .. Words - 1
    BY <1>a, CountsInRange, WordIndexInRange DEF SlabTypeOK
  <2>3. word[t] + 1 \in 0 .. Words
    BY <1>a, <1>c, <1>12, SlabAssumption DEF CountUpWrite, Phase, SearchLabels, SlabTypeOK
  <2>a. count' \in [Slots -> 0 .. CountMod - 1] /\ hint' \in [Slots -> 0 .. Words - 1]
        /\ tmp' \in [Threads -> 0 .. CountMod - 1]
    BY <1>a, <1>12, <2>2, ConstantsInRange DEF CountUpWrite, SlabTypeOK
  <2>b. got' \in [Threads -> SUBSET Pointers] /\ pc' \in [Threads -> Labels]
    BY <1>a, <1>d, <1>12 DEF CountUpWrite, SlabTypeOK, Labels
  <2>c. /\ from' \in [Threads -> 0 .. Words - 1] /\ word' \in [Threads -> 0 .. Words]
        /\ seen' \in [Threads -> SUBSET Objects] /\ bit' \in [Threads -> Objects]
    <3>1. CASE SearchOver(t)
      BY <1>a, <3>1, ConstantsInRange DEF SearchOver, SlabTypeOK
    <3>2. CASE ~SearchOver(t)
      <4>1. word' = word \/ word' = [word EXCEPT ![t] = @ + 1]
        BY <1>12, <3>2 DEF CountUpWrite
      <4>2. from' = from /\ bit' = [bit EXCEPT ![t] = 0]
            /\ (seen' = seen \/ seen' = [seen EXCEPT ![t] = {}])
        BY <1>a, <1>12, <3>2 DEF CountUpWrite, SlabTypeOK
      <4> QED BY <1>a, <2>3, <4>1, <4>2, ConstantsInRange DEF SlabTypeOK
    <3> QED BY <3>1, <3>2
  <2>4. SlabTypeOK'
    BY <1>a, <1>12, <2>1, <2>a, <2>b, <2>c DEF CountUpWrite, SlabTypeOK
  <2>5. CASE op[t] = "allocate" \/ Cardinality(got[t]) >= want[t]
    BY <1>a, <1>12, <2>4, <2>5
    DEF CountUpWrite, SearchOver, Settled, Phases, Phase, SlabTypeOK, InitLabels, FreeLabels,
            SearchLabels, InSlabLabels, LoopLabels
  <2>6. CASE ~(op[t] = "allocate" \/ Cardinality(got[t]) >= want[t])
    <3>1. OthersKeep(t) BY <1>a, <1>12, <2>6 DEF CountUpWrite, OthersKeep, SlabTypeOK
    <3>2. /\ pc'[t] \in {"cas", "load"} /\ op'[t] = "batch" /\ tries'[t] = tries[t]
          /\ got'[t] = got[t] /\ todo'[t] = todo[t]
          /\ pc'[t] = "cas" => word'[t] = word[t]
      BY <1>a, <1>12, <2>6 DEF CountUpWrite, SlabTypeOK
    <3>3. Phase(t)'
      BY <1>c, <1>12, <3>2
      DEF CountUpWrite, Phase, FreeLabels, SearchLabels, InSlabLabels, LoopLabels
    <3>4. pc'[t] \notin InitLabels BY <3>2 DEF InitLabels
    <3> QED BY <1>a, <1>12, <2>4, <3>1, <3>2, <3>3, <3>4, PhasesFrom DEF CountUpWrite
  <2> QED BY <1>12, <2>5, <2>6 DEF CountUpWrite
<1>13. CASE ReleaseSlab(t)
  <2>1. PoolTypeOK' BY <1>a, <1>b, <1>13, StepTypes DEF ReleaseSlab
  <2>2. tries[t] + 1 \in 0 .. N BY <1>e, <1>13 DEF ReleaseSlab, LoopLabels
  <2>3. CASE op[t] = "batch"
    BY <1>a, <1>13, <2>1, <2>2, <2>3
    DEF ReleaseSlab, Labels, Settled, Phases, Phase, SlabTypeOK, InitLabels, FreeLabels,
            SearchLabels, InSlabLabels, LoopLabels
  <2>4. CASE op[t] = "allocate" /\ got[t] # {}
    BY <1>a, <1>13, <2>1, <2>4, ConstantsInRange
    DEF ReleaseSlab, Return, Labels, Ops, Settled, Phases, Phase, SlabTypeOK, InitLabels,
            FreeLabels, SearchLabels, InSlabLabels, LoopLabels
  <2>5. CASE op[t] = "allocate" /\ got[t] = {}
    BY <1>a, <1>13, <2>1, <2>5
    DEF ReleaseSlab, Labels, Settled, Phases, Phase, SlabTypeOK, InitLabels, FreeLabels,
            SearchLabels, InSlabLabels, LoopLabels
  <2> QED BY <1>13, <2>3, <2>4, <2>5 DEF ReleaseSlab
<1>14. CASE ReleaseLast(t)
  <2>1. PoolTypeOK' BY <1>a, <1>b, <1>14, StepTypes DEF ReleaseLast
  <2>2. SlabTypeOK'
    BY <1>a, <1>b, <1>14, <2>1, <1>e
    DEF ReleaseLast, LoopLabels, InSlabLabels, SlabTypeOK, Labels, Ops
  <2>3. Settled' /\ Phases'
    BY <1>a, <1>14
    DEF ReleaseLast, Settled, Phases, Phase, SlabTypeOK, InitLabels, FreeLabels,
            SearchLabels, InSlabLabels, LoopLabels
  <2> QED BY <2>2, <2>3
<1>15. CASE Query(t)
  <2>1. PoolTypeOK' BY <1>a, <1>b, <1>15, StepTypes DEF Query
  <2>2. tries[t] + 1 \in 0 .. N BY <1>e, <1>15 DEF Query, LoopLabels
  <2>3. CASE Return(t)
    BY <1>a, <1>15, <2>1, <2>3, ConstantsInRange
    DEF Query, Return, Labels, Ops, Settled, Phases, Phase, SlabTypeOK, InitLabels, FreeLabels,
            SearchLabels, InSlabLabels, LoopLabels
  <2>4. CASE /\ tries' = [tries EXCEPT ![t] = @ + 1] /\ Goto(t, "next")
             /\ UNCHANGED <<live, got, op, want>>
    BY <1>a, <1>15, <2>1, <2>2, <2>4
    DEF Query, Labels, Settled, Phases, Phase, SlabTypeOK, InitLabels, FreeLabels,
            SearchLabels, InSlabLabels, LoopLabels
  <2> QED BY <1>15, <2>3, <2>4 DEF Query
<1>16. CASE CallDeallocate(t)
  <2>1. PoolTypeOK' BY <1>a, <1>16 DEF CallDeallocate, PoolTypeOK
  <2>2. PICK ps \in SUBSET live :
          todo' = [todo EXCEPT ![t] = ps] /\ live' = live \ ps
    BY <1>a, <1>16 DEF CallDeallocate, Settled
  <2>3. SlabTypeOK'
    BY <1>a, <1>16, <2>1, <2>2 DEF CallDeallocate, SlabTypeOK, Labels, Ops
  <2>4. Settled' /\ Phases'
    BY <1>a, <1>16, <2>2
    DEF CallDeallocate, Settled, Phases, Phase, SlabTypeOK, InitLabels, FreeLabels,
            SearchLabels, InSlabLabels, LoopLabels
  <2> QED BY <2>3, <2>4
<1>17. CASE ClearBit(t)
  <2>1. PoolTypeOK' BY <1>a, <1>17 DEF ClearBit, PoolTypeOK
  <2>2. PICK p \in todo[t] :
          /\ todo' = [todo EXCEPT ![t] = @ \ {p}]
          /\ IF region[p[1]] = p[1]
               THEN /\ bits' = [bits EXCEPT ![p[1]] = Cleared(p[1], p[2])]
                    /\ target' = [target EXCEPT ![t] = p[1]]
                    /\ Goto(t, "cleared")
               ELSE UNCHANGED <<bits, target, pc>>
    BY <1>17 DEF ClearBit
  <2>3. p[1] \in Slots BY <1>a DEF SlabTypeOK, Pointers
  <2>4. region[p[1]] = p[1] BY <1>a, <2>3 DEF Settled
  <2>5. SlabTypeOK'
    BY <1>a, <1>17, <2>1, <2>2, <2>3, <2>4 DEF ClearBit, Cleared, SlabTypeOK, Labels
  <2>6. Settled' /\ Phases'
    BY <1>a, <1>17, <2>2, <2>4
    DEF ClearBit, Settled, Phases, Phase, SlabTypeOK, InitLabels, FreeLabels,
            SearchLabels, InSlabLabels, LoopLabels
  <2> QED BY <2>5, <2>6
<1>18. CASE CountDownRead(t)
  <2>1. PoolTypeOK' BY <1>a, <1>18 DEF CountDownRead, PoolTypeOK
  <2>2. SlabTypeOK'
    BY <1>a, <1>b, <1>18, <2>1
    DEF CountDownRead, SlabTypeOK, Labels, Ops
  <2>3. Settled' /\ Phases'
    BY <1>a, <1>18
    DEF CountDownRead, Settled, Phases, Phase, SlabTypeOK, InitLabels, FreeLabels,
            SearchLabels, InSlabLabels, LoopLabels
  <2> QED BY <2>2, <2>3
<1>19. CASE CountDownWrite(t)
  <2>1. PoolTypeOK' BY <1>a, <1>19 DEF CountDownWrite, PoolTypeOK
  <2>2. SlabTypeOK'
    BY <1>a, <1>b, <1>19, <2>1, CountsInRange, ConstantsInRange
    DEF CountDownWrite, SlabTypeOK, Labels, Ops
  <2>3. Settled' /\ Phases'
    BY <1>a, <1>19
    DEF CountDownWrite, Settled, Phases, Phase, SlabTypeOK, InitLabels, FreeLabels,
            SearchLabels, InSlabLabels, LoopLabels
  <2> QED BY <2>2, <2>3
<1>20. CASE DeallocateReturns(t)
  <2>1. PoolTypeOK' BY <1>a, <1>20 DEF DeallocateReturns, Return, PoolTypeOK
  <2>2. SlabTypeOK'
    BY <1>a, <1>b, <1>20, <2>1, ConstantsInRange
    DEF DeallocateReturns, Return, SlabTypeOK, Labels, Ops
  <2>3. Settled' /\ Phases'
    BY <1>a, <1>20
    DEF DeallocateReturns, Return, Settled, Phases, Phase, SlabTypeOK, InitLabels, FreeLabels,
            SearchLabels, InSlabLabels, LoopLabels
  <2> QED BY <2>2, <2>3
<1>21. CASE InitPublish(t) \/ InitClear(t) \/ InitRegion(t) \/ InitRelease(t)
  BY <1>a, <1>21 DEF InitPublish, InitClear, InitRegion, InitRelease, Settled, InitLabels
<1> QED
  BY <1>1, <1>2, <1>3, <1>4, <1>5, <1>6, <1>7, <1>8, <1>9, <1>10, <1>11,
     <1>12, <1>13, <1>14, <1>15, <1>16, <1>17, <1>18, <1>19, <1>20, <1>21 DEF Step

-----------------------------------------------------------------------------
\* A step of one thread leaves the locals of the others alone.
LEMMA StepFrame ==
  ASSUME SlabInv, NEW t \in Threads, Step(t), NEW u \in Threads \ {t}
  PROVE  /\ pc'[u] = pc[u] /\ op'[u] = op[u] /\ slot'[u] = slot[u] /\ bit'[u] = bit[u]
         /\ got'[u] = got[u] /\ todo'[u] = todo[u]
<1> USE DEF Goto, poolVars, slabVars, callVars, searchVars, freeVars
<1>a. SlabTypeOK /\ PoolTypeOK /\ Settled
  BY DEF SlabInv, SlabTypeOK
<1>1. CASE Call(t) \/ CallRefused(t) \/ CallDeallocate(t)
  BY <1>a, <1>1
  DEF Call, CallRefused, vars, CallDeallocate, SlabTypeOK, PoolTypeOK
<1>2. CASE NextSlab(t) \/ LoopEnds(t) \/ Scan(t) \/ NoSlab(t)
  BY <1>a, <1>2
  DEF NextSlab, StartScan, LoopEnds, Scan, ProbeHit, ProbeMiss, NoSlab, Return, SlabTypeOK,
      PoolTypeOK
<1>3. CASE CheckFull(t) \/ EnterSlab(t) \/ LoadWord(t)
  BY <1>a, <1>3
  DEF CheckFull, EnterSlab, LoadWord, SearchOver, SlabTypeOK, PoolTypeOK
<1>4. CASE ClaimBit(t)
  BY <1>a, <1>4
  DEF ClaimBit, casFrame, SetBit, CasFails, SlabTypeOK, PoolTypeOK
<1>5. CASE CountUpRead(t) \/ CountUpWrite(t)
  BY <1>a, <1>5
  DEF CountUpRead, CountUpWrite, SearchOver, SlabTypeOK, PoolTypeOK
<1>6. CASE ReleaseSlab(t) \/ ReleaseLast(t) \/ Query(t)
  BY <1>a, <1>6
  DEF ReleaseSlab, ReleaseLast, Query, Release, Return, SlabTypeOK, PoolTypeOK
<1>7. CASE ClearBit(t) \/ CountDownRead(t) \/ CountDownWrite(t) \/ DeallocateReturns(t)
  BY <1>a, <1>7
  DEF ClearBit, CountDownRead, CountDownWrite, DeallocateReturns, Return, SlabTypeOK, PoolTypeOK
<1>8. CASE InitPublish(t) \/ InitClear(t) \/ InitRegion(t) \/ InitRelease(t)
  BY <1>a, <1>8
  DEF InitPublish, InitClear, InitRegion, InitRelease, Settled, InitLabels, SlabTypeOK, PoolTypeOK
<1> QED
  BY <1>1, <1>2, <1>3, <1>4, <1>5, <1>6, <1>7, <1>8 DEF Step

\* Every step preserves the ownership of objects.
LEMMA OwnersStep ==
  ASSUME SlabInv, NEW t \in Threads, Step(t), SlabTypeOK', Settled', Phases'
  PROVE  Owners'
<1> USE DEF Goto, poolVars, slabVars, callVars, searchVars, freeVars
<1>a. SlabTypeOK /\ PoolTypeOK /\ Settled /\ Phase(t) /\ Phase(t)' /\ Owners
  BY DEF SlabInv, SlabTypeOK, Phases
<1>b. Held(t) = slot[t] /\ slot[t] \in Slots /\ Claimed(t) = <<slot[t], bit[t]>>
  BY <1>a DEF Held, PoolTypeOK, Claimed, Settled
<1>c. \A u \in Threads \ {t} : Pending(u)' = Pending(u) /\ InFlight(u)' = InFlight(u)
                              /\ got'[u] = got[u] /\ todo'[u] = todo[u]
  BY <1>a, StepFrame, OthersPending DEF InFlight
<1>d. \A u \in Threads : Pending(u) \cap got[u] = {}
  BY <1>a DEF Owners, NoDoubleHandout
<1>e. ASSUME Pending(t) = {}, Pending(t)' = {}, UNCHANGED <<bits, live, got, todo>>
      PROVE  Owners'
  BY <1>a, <1>c, <1>d, <1>e, SameClaims DEF InFlight
<1>f. ASSUME Return(t), UNCHANGED <<bits, todo>>, pc[t] \notin SearchLabels \cup FreeLabels
                                                  \/ (pc[t] = "free" /\ todo[t] = {})
      PROVE  Owners'
  <2>1. todo[t] = {} BY <1>a, <1>f DEF Phase
  <2>2. Pending(t) = {} /\ Pending(t)' = {}
    BY <1>a, <1>f DEF Pending, Return, SlabTypeOK, SearchLabels
  <2> QED BY <1>a, <1>c, <1>f, <2>1, <2>2, ReturnStep
<1>1. CASE Call(t) \/ CallRefused(t) \/ NextSlab(t) \/ Scan(t)
  BY <1>1, <1>a, <1>e DEF Call, CallRefused, vars, NextSlab, Scan, Pending, SlabTypeOK
<1>2. CASE CheckFull(t) \/ EnterSlab(t) \/ LoadWord(t)
  BY <1>2, <1>a, <1>e DEF CheckFull, EnterSlab, LoadWord, Pending, SlabTypeOK
<1>3. CASE ReleaseLast(t) \/ CountDownRead(t) \/ CountDownWrite(t)
  BY <1>3, <1>a, <1>e DEF ReleaseLast, CountDownRead, CountDownWrite, Pending, SlabTypeOK
<1>4. CASE LoopEnds(t) \/ NoSlab(t) \/ DeallocateReturns(t)
  BY <1>4, <1>f DEF LoopEnds, NoSlab, DeallocateReturns, SearchLabels, FreeLabels
<1>5. CASE ReleaseSlab(t)
  <2>1. CASE Return(t)
    BY <1>5, <2>1, <1>f DEF ReleaseSlab, SearchLabels, FreeLabels
  <2>2. CASE ~Return(t)
    BY <1>5, <2>2, <1>a, <1>e DEF ReleaseSlab, Pending, SlabTypeOK
  <2> QED BY <2>1, <2>2
<1>6. CASE Query(t)
  <2>1. CASE Return(t)
    BY <1>6, <2>1, <1>f DEF Query, SearchLabels, FreeLabels
  <2>2. CASE ~Return(t)
    BY <1>6, <2>2, <1>a, <1>e DEF Query, Pending, SlabTypeOK
  <2> QED BY <2>1, <2>2
<1>7. CASE ClaimBit(t)
  <2>1. CASE CasFails(t)
    BY <1>7, <2>1, <1>a, <1>e DEF ClaimBit, casFrame, CasFails, Pending, SlabTypeOK
  <2>2. CASE bits[Held(t)] \cap WordOf(WordIndex(t)) = seen[t] /\ SetBit(t)
    <3>1. PICK b \in Objects : /\ IsLowest(b, Zeros(t))
                               /\ bits' = [bits EXCEPT ![Held(t)] = @ \cup {b}]
                               /\ bit' = [bit EXCEPT ![t] = b]
                               /\ pc' = [pc EXCEPT ![t] = "claimed"]
      BY <2>2 DEF SetBit
    <3>2. b \notin bits[slot[t]]
      BY <2>2, <3>1, <1>b DEF IsLowest, Zeros
    <3>3. <<slot[t], b>> \notin live /\ \A u \in Threads : <<slot[t], b>> \notin InFlight(u)
      BY <1>a, <1>b, <3>2 DEF Owners, BitsMatchOwners
    <3>4. Pending(t) = {} /\ Pending(t)' = {<<slot[t], b>>}
      BY <1>7, <1>a, <1>b, <3>1 DEF ClaimBit, casFrame, Pending, Claimed, Held, Settled, SlabTypeOK
    <3>5. InFlight(t)' = InFlight(t) \cup {<<slot[t], b>>} /\ got' = got /\ live' = live
      BY <1>7, <3>4 DEF ClaimBit, casFrame, InFlight
    <3>6. NoDoubleHandout'
      BY <1>a, <1>c, <3>3, <3>4, <3>5 DEF Owners, NoDoubleHandout, InFlight
    <3>7. ASSUME NEW s \in Slots, NEW c \in Objects
          PROVE  c \in bits'[s] <=> c \in bits[s] \/ <<s, c>> = <<slot[t], b>>
      BY <1>a, <1>b, <3>1 DEF SlabTypeOK
    <3>8. ASSUME NEW s \in Slots, NEW c \in Objects
          PROVE  (<<s, c>> \in live' \/ \E u \in Threads : <<s, c>> \in InFlight(u)')
                 <=> \/ <<s, c>> \in live \/ \E u \in Threads : <<s, c>> \in InFlight(u)
                     \/ <<s, c>> = <<slot[t], b>>
      BY <1>c, <3>5
    <3>9. BitsMatchOwners'
      BY <1>a, <3>7, <3>8 DEF Owners, BitsMatchOwners
    <3> QED BY <3>6, <3>9 DEF Owners
  <2> QED BY <1>7, <2>1, <2>2 DEF ClaimBit
<1>8. CASE CountUpRead(t)
  <2>1. CASE op[t] = "batch"
    <3>1. /\ got'[t] = got[t] \cup {Claimed(t)} /\ todo'[t] = todo[t]
          /\ Pending(t) = {Claimed(t)} /\ Pending(t)' = {}
      BY <1>8, <2>1, <1>a DEF CountUpRead, Pending, SlabTypeOK
    <3> QED BY <1>8, <3>1, <1>a, <1>c, <1>d, SameClaims DEF CountUpRead, InFlight
  <2>2. CASE op[t] = "allocate"
    <3>1. got' = got /\ todo' = todo
      BY <1>8, <2>2, <1>a DEF CountUpRead, SlabTypeOK
    <3>2. Pending(t)' = Pending(t)
      BY <1>8, <2>2, <1>a, <1>b DEF CountUpRead, Pending, Claimed, Held, SlabTypeOK
    <3> QED BY <1>8, <3>1, <3>2, <1>a, <1>c, <1>d, SameClaims DEF CountUpRead, InFlight
  <2> QED BY <1>8, <1>a, <2>1, <2>2 DEF CountUpRead, Phase, InSlabLabels, SearchLabels
<1>9. CASE CountUpWrite(t)
  <2>1. CASE op[t] = "allocate"
    <3>1. got[t] = {} BY <1>9, <2>1, <1>a DEF CountUpWrite, Phase, InSlabLabels, SearchLabels
    <3>2. /\ got'[t] = {Claimed(t)} /\ todo'[t] = todo[t]
          /\ Pending(t) = {Claimed(t)} /\ Pending(t)' = {}
      BY <1>9, <2>1, <1>a DEF CountUpWrite, Pending, SlabTypeOK
    <3> QED BY <1>9, <3>1, <3>2, <1>a, <1>c, <1>d, SameClaims DEF CountUpWrite, InFlight
  <2>2. CASE op[t] = "batch"
    BY <1>9, <2>2, <1>a, <1>e DEF CountUpWrite, Pending, SlabTypeOK
  <2> QED BY <1>9, <2>1, <2>2 DEF CountUpWrite
<1>10. CASE CallDeallocate(t)
  <2>1. PICK ps \in SUBSET live : todo' = [todo EXCEPT ![t] = ps] /\ live' = live \ ps
    BY <1>10, <1>a DEF CallDeallocate, Settled
  <2>2. Pending(t)' = {} /\ InFlight(t) = {} /\ InFlight(t)' = ps /\ got' = got /\ bits' = bits
    BY <1>10, <2>1, <1>a DEF CallDeallocate, Pending, InFlight, Phase, FreeLabels, SlabTypeOK
  <2>3. NoDoubleHandout'
    BY <1>a, <1>c, <2>1, <2>2 DEF Owners, NoDoubleHandout
  <2>4. ASSUME NEW s \in Slots, NEW b \in Objects
        PROVE  (<<s, b>> \in live \/ \E u \in Threads : <<s, b>> \in InFlight(u))
               <=> (<<s, b>> \in live' \/ \E u \in Threads : <<s, b>> \in InFlight(u)')
    BY <1>c, <2>1, <2>2
  <2>5. BitsMatchOwners' BY <1>a, <2>2, <2>4 DEF Owners, BitsMatchOwners
  <2> QED BY <2>3, <2>5 DEF Owners
<1>11. CASE ClearBit(t)
  <2>1. PICK p \in todo[t] :
          /\ todo' = [todo EXCEPT ![t] = @ \ {p}]
          /\ IF region[p[1]] = p[1]
               THEN /\ bits' = [bits EXCEPT ![p[1]] = Cleared(p[1], p[2])]
                    /\ target' = [target EXCEPT ![t] = p[1]]
                    /\ Goto(t, "cleared")
               ELSE UNCHANGED <<bits, target, pc>>
    BY <1>11 DEF ClearBit
  <2>2. p \in Pointers BY <1>a DEF SlabTypeOK
  <2>3. p[1] \in Slots /\ p[2] \in Objects /\ p = <<p[1], p[2]>> BY <2>2 DEF Pointers
  <2>4. /\ bits' = [bits EXCEPT ![p[1]] = @ \ {p[2]}] /\ pc' = [pc EXCEPT ![t] = "cleared"]
    BY <1>a, <2>1, <2>3 DEF Settled, Cleared, SlabTypeOK
  <2>5. /\ InFlight(t) = todo[t] /\ InFlight(t)' = todo[t] \ {p} /\ Pending(t)' = {}
        /\ got' = got /\ live' = live
    BY <1>11, <1>a, <2>1, <2>4 DEF ClearBit, InFlight, Pending, Phase, FreeLabels, SlabTypeOK
  <2>6. NoDoubleHandout' BY <1>a, <1>c, <2>5 DEF Owners, NoDoubleHandout
  <2>7. p \notin live /\ \A u \in Threads \ {t} : p \notin InFlight(u)
    BY <1>a, <2>1, <2>5 DEF Owners, NoDoubleHandout
  <2>8. ASSUME NEW s \in Slots, NEW b \in Objects
        PROVE  b \in bits'[s] <=> b \in bits[s] /\ <<s, b>> # p
    BY <1>a, <2>3, <2>4 DEF SlabTypeOK
  <2>9. ASSUME NEW s \in Slots, NEW b \in Objects
        PROVE  (<<s, b>> \in live' \/ \E u \in Threads : <<s, b>> \in InFlight(u)')
               <=> /\ <<s, b>> \in live \/ \E u \in Threads : <<s, b>> \in InFlight(u)
                   /\ <<s, b>> # p
    BY <1>c, <2>5, <2>7
  <2>10. BitsMatchOwners' BY <1>a, <2>8, <2>9 DEF Owners, BitsMatchOwners
  <2> QED BY <2>6, <2>10 DEF Owners
<1>12. CASE InitPublish(t) \/ InitClear(t) \/ InitRegion(t) \/ InitRelease(t)
  BY <1>12, <1>a DEF InitPublish, InitClear, InitRegion, InitRelease, Settled, InitLabels
<1> QED
  BY <1>1, <1>2, <1>3, <1>4, <1>5, <1>6, <1>7, <1>8, <1>9, <1>10, <1>11, <1>12 DEF Step

-----------------------------------------------------------------------------
\* SlabInv is inductive.
LEMMA SlabInvInductive == SlabInv /\ [Next]_vars => SlabInv'
<1>1. ASSUME SlabInv, NEW t \in Threads, Step(t) PROVE SlabInv'
  <2>1. SlabTypeOK' /\ Settled' /\ Phases' BY <1>1, PhasesStep
  <2>2. Owners' BY <1>1, <2>1, OwnersStep
  <2> QED BY <2>1, <2>2 DEF SlabInv
<1>2. ASSUME SlabInv, UNCHANGED vars PROVE SlabInv'
  <2> USE DEF vars, poolVars, slabVars, callVars, searchVars, freeVars
  <2>1. SlabTypeOK' BY <1>2 DEF SlabInv, SlabTypeOK, PoolTypeOK
  <2>2. Settled' /\ Phases' BY <1>2 DEF SlabInv, Settled, Phases, Phase
  <2>3. \A u \in Threads : InFlight(u)' = InFlight(u) /\ Pending(u)' = Pending(u)
    BY <1>2 DEF InFlight, Pending, Claimed, Held
  <2>4. Owners'
    BY <1>2, <2>3, SameClaims DEF SlabInv, Owners, NoDoubleHandout
  <2> QED BY <2>1, <2>2, <2>4 DEF SlabInv
<1> QED BY <1>1, <1>2 DEF Next

\* Every reachable state of an initialized group is well typed.
THEOREM SlabTypeCorrect == Spec => []SlabTypeOK
<1>1. SlabInv => SlabTypeOK BY DEF SlabInv
<1> QED BY <1>1, SlabInitially, SlabInvInductive, PTL DEF Spec

\* No object is ever in the hands of two owners.
THEOREM NoObjectHandedOutTwice == Spec => []NoDoubleHandout
<1>1. SlabInv => NoDoubleHandout BY DEF SlabInv, Owners
<1> QED BY <1>1, SlabInitially, SlabInvInductive, PTL DEF Spec

\* The bitmaps always tell the owned objects from the free ones: no object is
\* lost and none is free while it is in use.
THEOREM BitmapsTellOwners == Spec => []BitsMatchOwners
<1>1. SlabInv => BitsMatchOwners BY DEF SlabInv, Owners
<1> QED BY <1>1, SlabInitially, SlabInvInductive, PTL DEF Spec

-----------------------------------------------------------------------------
(* The refinement: what a step does to the free and to the held objects. *)

\* What the callers hold is not free.
LEMMA LiveNotFree ==
  ASSUME SlabInv
  PROVE  live \in SUBSET (Pointers \ FreeObjects)
<1>1. live \in SUBSET Pointers BY DEF SlabInv, SlabTypeOK
<1>2. ASSUME NEW p \in live PROVE p \notin FreeObjects
  <2>1. p[1] \in Slots /\ p[2] \in Objects /\ p = <<p[1], p[2]>>
    BY <1>1 DEF Pointers
  <2> QED BY <2>1 DEF SlabInv, Owners, BitsMatchOwners, FreeObjects
<1> QED BY <1>1, <1>2

\* A return hands out objects that are neither free nor held.
LEMMA ReturnHandsOut ==
  ASSUME SlabInv, NEW t \in Threads, Return(t), bits' = bits
  PROVE  Allocator!Allocate
<1>1. got[t] \in SUBSET Pointers /\ got[t] \cap live = {}
  BY DEF SlabInv, Owners, NoDoubleHandout, InFlight, SlabTypeOK
<1>2. got[t] \cap FreeObjects = {}
  <2>1. SUFFICES ASSUME NEW p \in got[t] PROVE p \notin FreeObjects
    OBVIOUS
  <2>2. p[1] \in Slots /\ p[2] \in Objects /\ p = <<p[1], p[2]>>
    BY <1>1 DEF Pointers
  <2>3. p[2] \in bits[p[1]]
    BY <2>2 DEF SlabInv, Owners, BitsMatchOwners, InFlight
  <2> QED BY <2>3 DEF FreeObjects
<1>3. live' = live \cup got[t] /\ FreeObjects' = FreeObjects
  BY DEF Return, FreeObjects
<1>4. live \in SUBSET (Pointers \ FreeObjects)
  BY LiveNotFree
<1> QED BY <1>1, <1>2, <1>3, <1>4 DEF Allocator!Allocate

\* Setting a bit takes one object from the free ones.
LEMMA SetBitReserves ==
  ASSUME SlabInv, NEW t \in Threads, ClaimBit(t),
         bits[Held(t)] \cap WordOf(WordIndex(t)) = seen[t] /\ SetBit(t)
  PROVE  Allocator!Allocate
<1>1. slot[t] \in Slots /\ bits \in [Slots -> SUBSET Objects] /\ Held(t) = slot[t]
  BY DEF SlabInv, SlabTypeOK, PoolTypeOK, Held
<1>2. PICK b \in Objects : IsLowest(b, Zeros(t)) /\ bits' = [bits EXCEPT ![slot[t]] = @ \cup {b}]
  BY <1>1 DEF SetBit
<1>3. DEFINE o == <<slot[t], b>>
<1>4. o \in Pointers /\ b \notin bits[slot[t]]
  BY <1>1, <1>2 DEF Pointers, IsLowest, Zeros
<1>5. o \in FreeObjects
  BY <1>4 DEF FreeObjects
<1>6. FreeObjects' = FreeObjects \ {o}
  <2>1. ASSUME NEW p \in Pointers PROVE p[2] \notin bits'[p[1]] <=> p[2] \notin bits[p[1]] /\ p # o
    <3>1. p[1] \in Slots /\ p[2] \in Objects /\ p = <<p[1], p[2]>> BY DEF Pointers
    <3> QED BY <1>1, <1>2, <3>1
  <2> QED BY <2>1 DEF FreeObjects
<1>7. live' = live BY DEF ClaimBit, casFrame
<1> QED BY <1>5, <1>6, <1>7, LiveNotFree DEF Allocator!Allocate

\* Clearing a bit frees one object whose owner has given it back.
LEMMA ClearBitReclaims ==
  ASSUME SlabInv, NEW t \in Threads, ClearBit(t)
  PROVE  Allocator!Free
<1>1. bits \in [Slots -> SUBSET Objects] /\ todo[t] \in SUBSET Pointers /\ Settled /\ Owners
  BY DEF SlabInv, SlabTypeOK
<1>2. PICK p \in todo[t] :
        /\ todo' = [todo EXCEPT ![t] = @ \ {p}]
        /\ IF region[p[1]] = p[1]
             THEN /\ bits' = [bits EXCEPT ![p[1]] = Cleared(p[1], p[2])]
                  /\ target' = [target EXCEPT ![t] = p[1]]
                  /\ Goto(t, "cleared")
             ELSE UNCHANGED <<bits, target, pc>>
  BY DEF ClearBit
<1>3. p \in Pointers /\ p[1] \in Slots /\ p[2] \in Objects /\ p = <<p[1], p[2]>>
  BY <1>1 DEF Pointers
<1>4. bits' = [bits EXCEPT ![p[1]] = @ \ {p[2]}] /\ live' = live
  BY <1>1, <1>2, <1>3 DEF Settled, Cleared, ClearBit
<1>5. p \in InFlight(t) BY DEF InFlight
<1>6. p \notin live /\ p[2] \in bits[p[1]]
  BY <1>1, <1>3, <1>5 DEF Owners, NoDoubleHandout, BitsMatchOwners
<1>7. FreeObjects' = FreeObjects \cup {p}
  <2>1. ASSUME NEW q \in Pointers PROVE q[2] \notin bits'[q[1]] <=> q[2] \notin bits[q[1]] \/ q = p
    <3>1. q[1] \in Slots /\ q[2] \in Objects /\ q = <<q[1], q[2]>> BY DEF Pointers
    <3> QED BY <1>1, <1>3, <1>4, <3>1
  <2> QED BY <1>3, <2>1 DEF FreeObjects
<1>8. FreeObjects \in SUBSET Pointers BY DEF FreeObjects
<1> QED BY <1>3, <1>4, <1>6, <1>7, <1>8, LiveNotFree DEF Allocator!Free

\* Every step of a thread is a step of the abstract allocator or a stutter.
LEMMA StepRefines ==
  ASSUME SlabInv, NEW t \in Threads, Step(t)
  PROVE  [Allocator!AllocNext]_<<FreeObjects, live>>
<1> USE DEF slabVars
<1>a. Settled BY DEF SlabInv
<1>b. ASSUME bits' = bits, live' = live PROVE UNCHANGED <<FreeObjects, live>>
  BY <1>b DEF FreeObjects
<1>c. ASSUME bits' = bits, Return(t) PROVE Allocator!AllocNext
  BY <1>c, ReturnHandsOut DEF Allocator!AllocNext
<1>1. CASE Call(t) \/ CallRefused(t) \/ NextSlab(t) \/ Scan(t) \/ CheckFull(t)
  BY <1>1, <1>b DEF Call, CallRefused, vars, NextSlab, Scan, CheckFull
<1>2. CASE EnterSlab(t) \/ LoadWord(t) \/ CountUpRead(t) \/ CountUpWrite(t)
  BY <1>2, <1>b DEF EnterSlab, LoadWord, CountUpRead, CountUpWrite
<1>3. CASE ReleaseLast(t) \/ CountDownRead(t) \/ CountDownWrite(t)
  BY <1>3, <1>b DEF ReleaseLast, CountDownRead, CountDownWrite
<1>4. CASE LoopEnds(t) \/ NoSlab(t) \/ DeallocateReturns(t)
  BY <1>4, <1>c DEF LoopEnds, NoSlab, DeallocateReturns
<1>5. CASE ReleaseSlab(t)
  BY <1>5, <1>b, <1>c DEF ReleaseSlab
<1>6. CASE Query(t)
  BY <1>6, <1>b, <1>c DEF Query
<1>7. CASE ClaimBit(t)
  <2>1. CASE CasFails(t) BY <1>7, <2>1, <1>b DEF ClaimBit, casFrame, CasFails
  <2>2. CASE bits[Held(t)] \cap WordOf(WordIndex(t)) = seen[t] /\ SetBit(t)
    BY <1>7, <2>2, SetBitReserves DEF Allocator!AllocNext
  <2> QED BY <1>7, <2>1, <2>2 DEF ClaimBit
<1>8. CASE CallDeallocate(t)
  <2>1. PICK ps \in SUBSET live : live' = live \ ps BY <1>8 DEF CallDeallocate
  <2>2. FreeObjects' = FreeObjects BY <1>8 DEF CallDeallocate, FreeObjects
  <2>3. FreeObjects \in SUBSET (Pointers \ live) BY LiveNotFree DEF FreeObjects
  <2> QED BY <2>1, <2>2, <2>3 DEF Allocator!AllocNext, Allocator!Free
<1>9. CASE ClearBit(t)
  BY <1>9, ClearBitReclaims DEF Allocator!AllocNext
<1>10. CASE InitPublish(t) \/ InitClear(t) \/ InitRegion(t) \/ InitRelease(t)
  BY <1>10, <1>a DEF InitPublish, InitClear, InitRegion, InitRelease, Settled, InitLabels
<1> QED
  BY <1>1, <1>2, <1>3, <1>4, <1>5, <1>6, <1>7, <1>8, <1>9, <1>10 DEF Step

\* An initialized slab group implements the abstract object allocator.
THEOREM GroupImplementsAllocator == Spec => ImplementsAllocator
<1>1. ReadyInit => Allocator!AllocInit
  BY DEF ReadyInit, InitIdle, Allocator!AllocInit, FreeObjects, Pointers
<1>2. SlabInv /\ [Next]_vars => [Allocator!AllocNext]_<<FreeObjects, live>>
  BY StepRefines DEF Next, vars, slabVars, FreeObjects
<1> QED
  BY <1>1, <1>2, SlabInitially, SlabInvInductive, PTL
  DEF Spec, ImplementsAllocator, Allocator!AllocSpec, Allocator!allocVars

-----------------------------------------------------------------------------
(***************************************************************************)
(* A slab group that one thread creates and then shares, whose callers only *)
(* allocate: its counts are exact, a thread has its slab to itself and no   *)
(* slab is lost, for any number of threads, slabs, words and bits.  The     *)
(* danger is the second release at the end of slab_group::allocate, which   *)
(* would free the slab under another thread.  It is not reached as long as  *)
(* slab::allocate finds a bit in every slab that full() called not full;    *)
(* that rests on the count being exact, and the count on the thread having  *)
(* the slab to itself: one invariant for all three.                         *)
(***************************************************************************)

\* The places of a call between acquire() and release() of a slab.
Holding == InSlabLabels \cup {"release", "query"}

\* A bit is set and not counted yet.
Uncounted(t) == pc[t] \in {"claimed", "count_up"}

\* What an allocating thread knows of the slab that it holds.
Tenant(t) ==
  /\ pc[t] \notin FreeLabels
  /\ at[t] = "held" <=> pc[t] \in Holding
  /\ Uncounted(t) => count[slot[t]] + 1 = Cardinality(bits[slot[t]])
  /\ pc[t] = "count_up" => tmp[t] = count[slot[t]]
  /\ pc[t] \in {"enter", "load", "cas"} /\ op[t] = "allocate" => count[slot[t]] < Regions
  /\ pc[t] \in {"load", "cas"} /\ op[t] = "allocate" =>
       \A k \in 0 .. word[t] - 1 : WordOf((from[t] + k) % Words) \subseteq bits[slot[t]]
  /\ pc[t] = "release" /\ op[t] = "allocate" => got[t] # {}

Tenants == \A t \in Threads : Tenant(t)

Counted ==
  \A s \in Slots : \/ count[s] = Cardinality(bits[s])
                   \/ \E t \in Threads : Uncounted(t) /\ slot[t] = s

Tenancy == PoolInv /\ NoSlotLost /\ Tenants /\ Counted

-----------------------------------------------------------------------------
LEMMA ModWords ==
  ASSUME NEW x \in 0 .. Words - 1
  PROVE  x % Words = x /\ (x + Words) % Words = x
BY SlabAssumption, SMT

\* Every object has a word.
LEMMA DivWords ==
  ASSUME NEW b \in Objects
  PROVE  b \div WordBits \in 0 .. Words - 1
<1>1. b \in Nat /\ b < Words * WordBits BY SlabAssumption DEF Objects
<1>2. b \div WordBits \in Nat BY <1>1, SlabAssumption
<1>3. WordBits * (b \div WordBits) <= b BY <1>1, <1>2, SlabAssumption
<1>4. ASSUME b \div WordBits >= Words PROVE FALSE
  <2>1. WordBits * (b \div WordBits) >= WordBits * Words BY <1>2, <1>4, SlabAssumption
  <2> QED BY <1>1, <1>3, <2>1, SlabAssumption
<1> QED BY <1>2, <1>4, SlabAssumption

\* A search of Words words from any of them has seen every object.
LEMMA SearchSeesAll ==
  ASSUME NEW f \in 0 .. Words - 1, NEW S \in SUBSET Objects,
         \A k \in 0 .. Words - 1 : WordOf((f + k) % Words) \subseteq S
  PROVE  S = Objects
<1> SUFFICES ASSUME NEW b \in Objects PROVE b \in S
  OBVIOUS
<1> DEFINE w == b \div WordBits
<1>1. w \in 0 .. Words - 1 BY DivWords
<1>2. \E k \in 0 .. Words - 1 : (f + k) % Words = w
  <2> HIDE DEF w
  <2>1. CASE w >= f
    <3>1. w - f \in 0 .. Words - 1 /\ f + (w - f) = w BY <1>1, <2>1, SlabAssumption
    <3> QED BY <1>1, <3>1, ModWords
  <2>2. CASE w < f
    <3>1. w - f + Words \in 0 .. Words - 1 /\ f + (w - f + Words) = w + Words
      BY <1>1, <2>2, SlabAssumption
    <3> QED BY <1>1, <3>1, ModWords
  <2> QED BY <1>1, <2>1, <2>2
<1> QED BY <1>2 DEF WordOf

\* The bits of a slab can be counted.
LEMMA BitsFinite ==
  ASSUME NEW S \in SUBSET Objects
  PROVE  /\ IsFiniteSet(S) /\ Cardinality(S) \in 0 .. Regions
         /\ Cardinality(S) = Regions <=> S = Objects
<1>1. IsFiniteSet(Objects) /\ Cardinality(Objects) = Regions
  BY FS_Interval, SlabAssumption DEF Objects
<1>2. IsFiniteSet(S) /\ Cardinality(S) <= Regions /\ (Cardinality(S) = Regions => S = Objects)
  BY <1>1, FS_Subset
<1> QED BY <1>1, <1>2, FS_CardinalityType, SlabAssumption

-----------------------------------------------------------------------------
(* The group is a client that releases each slab once. *)

LEMMA StepUsesPool ==
  ASSUME SlabInv, Tenants, ~MayFree, NEW t \in Threads, Step(t)
  PROVE  [PoolNext]_poolVars
<1> USE DEF slabVars, callVars, searchVars, freeVars
<1>a. SlabTypeOK /\ PoolTypeOK /\ Settled /\ Tenant(t) /\ Phase(t)
  BY DEF SlabInv, SlabTypeOK, Tenants, Phases
<1>1. CASE Call(t) \/ CallRefused(t) \/ LoopEnds(t) \/ NoSlab(t)
  BY <1>1 DEF Call, CallRefused, vars, LoopEnds, NoSlab
<1>2. CASE NextSlab(t)
  <2>1. at[t] # "held" BY <1>a, <1>2 DEF NextSlab, Tenant, Holding, InSlabLabels, SearchLabels
  <2>2. Acquire(t) BY <1>a, <1>2, <2>1 DEF NextSlab, StartScan, Acquire, PoolTypeOK
  <2> QED BY <2>2 DEF PoolNext
<1>3. CASE Scan(t) BY <1>3 DEF Scan, PoolNext
<1>4. CASE CheckFull(t) \/ EnterSlab(t) \/ LoadWord(t)
  BY <1>4 DEF CheckFull, EnterSlab, LoadWord
<1>5. CASE ClaimBit(t) \/ CountUpRead(t) \/ CountUpWrite(t)
  BY <1>5 DEF ClaimBit, casFrame, CountUpRead, CountUpWrite
<1>6. CASE ReleaseSlab(t) \/ ReleaseLast(t) \/ Query(t)
  <2>1. at[t] = "held" /\ Release(t, slot[t])
    BY <1>a, <1>6
    DEF ReleaseSlab, ReleaseLast, Query, Held, Tenant, Holding, InSlabLabels, SearchLabels
  <2> QED BY <2>1 DEF GiveBack, PoolNext
<1>7. CASE CallDeallocate(t) \/ ClearBit(t) \/ CountDownRead(t) \/ CountDownWrite(t)
           \/ DeallocateReturns(t)
  BY <1>a, <1>7
  DEF CallDeallocate, ClearBit, CountDownRead, CountDownWrite, DeallocateReturns, Tenant, FreeLabels
<1>8. CASE InitPublish(t) \/ InitClear(t) \/ InitRegion(t) \/ InitRelease(t)
  BY <1>a, <1>8 DEF InitPublish, InitClear, InitRegion, InitRelease, Settled, InitLabels
<1> QED BY <1>1, <1>2, <1>3, <1>4, <1>5, <1>6, <1>7, <1>8 DEF Step

\* Two threads are never in one slab.
LEMMA SlabsApart ==
  ASSUME SlabInv, Tenancy, NEW t \in Threads, NEW u \in Threads \ {t},
         pc[t] \in Holding, pc[u] \in Holding
  PROVE  slot[u] # slot[t]
BY DEF Tenancy, Tenants, Tenant, PoolInv, Exclusive

-----------------------------------------------------------------------------
\* The remaining locals of the other threads.
LEMMA StepFrameMore ==
  ASSUME SlabInv, NEW t \in Threads, Step(t), NEW u \in Threads \ {t}
  PROVE  at'[u] = at[u] /\ tmp'[u] = tmp[u] /\ from'[u] = from[u] /\ word'[u] = word[u]
<1> USE DEF poolVars, slabVars, callVars, searchVars, freeVars
<1>a. SlabTypeOK /\ PoolTypeOK /\ Settled
  BY DEF SlabInv, SlabTypeOK
<1>1. CASE Call(t) \/ CallRefused(t) \/ CallDeallocate(t)
  BY <1>a, <1>1
  DEF Call, CallRefused, vars, CallDeallocate, SlabTypeOK, PoolTypeOK
<1>2. CASE NextSlab(t) \/ LoopEnds(t) \/ Scan(t) \/ NoSlab(t)
  BY <1>a, <1>2
  DEF NextSlab, StartScan, LoopEnds, Scan, ProbeHit, ProbeMiss, NoSlab, SlabTypeOK, PoolTypeOK
<1>3. CASE CheckFull(t) \/ EnterSlab(t) \/ LoadWord(t)
  BY <1>a, <1>3
  DEF CheckFull, EnterSlab, LoadWord, SearchOver, SlabTypeOK, PoolTypeOK
<1>4. CASE ClaimBit(t)
  BY <1>a, <1>4 DEF ClaimBit, casFrame, SlabTypeOK, PoolTypeOK
<1>5. CASE CountUpRead(t) \/ CountUpWrite(t)
  BY <1>a, <1>5
  DEF CountUpRead, CountUpWrite, SearchOver, SlabTypeOK, PoolTypeOK
<1>6. CASE ReleaseSlab(t) \/ ReleaseLast(t) \/ Query(t)
  BY <1>a, <1>6
  DEF ReleaseSlab, ReleaseLast, Query, Release, SlabTypeOK, PoolTypeOK
<1>7. CASE ClearBit(t) \/ CountDownRead(t) \/ CountDownWrite(t) \/ DeallocateReturns(t)
  BY <1>a, <1>7
  DEF ClearBit, CountDownRead, CountDownWrite, DeallocateReturns, SlabTypeOK, PoolTypeOK
<1>8. CASE InitPublish(t) \/ InitClear(t) \/ InitRegion(t) \/ InitRelease(t)
  BY <1>a, <1>8
  DEF InitPublish, InitClear, InitRegion, InitRelease, Settled, InitLabels
<1> QED
  BY <1>1, <1>2, <1>3, <1>4, <1>5, <1>6, <1>7, <1>8 DEF Step

\* A step of t that leaves the slabs of the others alone leaves their knowledge true.
LEMMA OthersTenants ==
  ASSUME SlabInv, Tenancy, NEW t \in Threads, Step(t), Tenant(t)',
         \A s \in Slots : \/ pc[t] \in Holding /\ s = slot[t]
                          \/ bits'[s] = bits[s] /\ count'[s] = count[s]
  PROVE  Tenants'
<1> SUFFICES ASSUME NEW u \in Threads \ {t} PROVE Tenant(u)'
  BY DEF Tenants
<1>1. /\ pc'[u] = pc[u] /\ op'[u] = op[u] /\ slot'[u] = slot[u] /\ got'[u] = got[u]
      /\ at'[u] = at[u] /\ tmp'[u] = tmp[u] /\ from'[u] = from[u] /\ word'[u] = word[u]
  BY StepFrame, StepFrameMore
<1>2. Tenant(u) BY DEF Tenancy, Tenants
<1>3. pc[u] \in Holding => bits'[slot[u]] = bits[slot[u]] /\ count'[slot[u]] = count[slot[u]]
  <2>1. slot[u] \in Slots BY DEF SlabInv, SlabTypeOK, PoolTypeOK
  <2> QED BY <2>1, SlabsApart
<1> QED
  BY <1>1, <1>2, <1>3 DEF Tenant, Uncounted, Holding, InSlabLabels, SearchLabels

\* A step that changes no bitmap and no count.
LEMMA QuietStep ==
  ASSUME SlabInv, Tenancy, NEW t \in Threads, Step(t), Tenant(t)', UNCHANGED <<bits, count>>,
         Uncounted(t) => Uncounted(t)' /\ slot'[t] = slot[t]
  PROVE  Tenants' /\ Counted'
<1>1. Tenants' BY OthersTenants
<1>2. \A u \in Threads : Uncounted(u) => Uncounted(u)' /\ slot'[u] = slot[u]
  BY StepFrame DEF Uncounted
<1>3. Counted' BY <1>2 DEF Tenancy, Counted
<1> QED BY <1>1, <1>3

-----------------------------------------------------------------------------
LEMMA TenancyStep ==
  ASSUME SlabInv, Tenancy, ~MayFree, ~WeakFailure, NEW t \in Threads, Step(t)
  PROVE  Tenants' /\ Counted'
<1> USE DEF Goto, poolVars, slabVars, callVars, searchVars, freeVars
<1>a. SlabTypeOK /\ PoolTypeOK /\ Settled /\ Phase(t) /\ Tenant(t)
  BY DEF SlabInv, SlabTypeOK, Phases, Tenancy, Tenants
<1>b. /\ Held(t) = slot[t] /\ slot[t] \in Slots
      /\ bits[slot[t]] \in SUBSET Objects /\ count[slot[t]] \in 0 .. CountMod - 1
  BY <1>a DEF Held, PoolTypeOK, SlabTypeOK
<1>c. /\ IsFiniteSet(bits[slot[t]]) /\ Cardinality(bits[slot[t]]) \in 0 .. Regions
      /\ Cardinality(bits[slot[t]]) = Regions <=> bits[slot[t]] = Objects
  BY <1>b, BitsFinite
<1>d. ASSUME pc[t] \in Holding, ~Uncounted(t)
      PROVE  count[slot[t]] = Cardinality(bits[slot[t]])
  <2>1. \A u \in Threads : ~(Uncounted(u) /\ slot[u] = slot[t])
    BY <1>d, SlabsApart DEF Uncounted, Holding, InSlabLabels, SearchLabels
  <2> QED BY <1>b, <2>1 DEF Tenancy, Counted
<1>1. CASE Call(t)
  <2>1. Tenant(t)'
    BY <1>a, <1>1
    DEF Call, Tenant, Uncounted, Holding, InSlabLabels, SearchLabels, FreeLabels, SlabTypeOK
  <2> QED BY <1>1, <2>1, QuietStep DEF Call, Uncounted
<1>2. CASE CallRefused(t)
  <2>1. Tenant(t)'
    BY <1>a, <1>2 DEF CallRefused, vars, Tenant, Uncounted, Held
  <2> QED BY <1>2, <2>1, QuietStep DEF CallRefused, vars, Uncounted
<1>3. CASE NextSlab(t)
  <2>1. Tenant(t)'
    BY <1>a, <1>3
    DEF NextSlab, StartScan, Tenant, Uncounted, Holding, InSlabLabels, SearchLabels, FreeLabels,
        SlabTypeOK, PoolTypeOK
  <2> QED BY <1>3, <2>1, QuietStep DEF NextSlab, Uncounted
<1>4. CASE LoopEnds(t) \/ NoSlab(t)
  <2>1. Tenant(t)'
    BY <1>a, <1>4
    DEF LoopEnds, NoSlab, Return, Tenant, Uncounted, Holding, InSlabLabels, SearchLabels,
        FreeLabels, SlabTypeOK, PoolTypeOK
  <2> QED BY <1>4, <2>1, QuietStep DEF LoopEnds, NoSlab, Uncounted
<1>5. CASE Scan(t)
  <2>1. CASE ProbeHit(t) /\ pc' = [pc EXCEPT ![t] = CASE op[t] = "allocate" -> "check_full"
                                 [] op[t] = "batch"    -> "enter"
                                 [] op[t] = "init"     -> "clear_slab"
                                 [] OTHER              -> "query"]
    <3>1. at'[t] = "held" /\ op' = op BY <1>a, <1>5, <2>1 DEF Scan, ProbeHit, PoolTypeOK
    <3>2. \/ pc'[t] \in {"check_full", "query"}
          \/ pc'[t] = "enter" /\ op[t] = "batch"
      BY <1>a, <2>1 DEF SlabTypeOK, Settled
    <3>3. Tenant(t)'
      BY <3>1, <3>2 DEF Tenant, Uncounted, Holding, InSlabLabels, SearchLabels, FreeLabels
    <3> QED BY <1>5, <3>3, QuietStep DEF Scan, Uncounted
  <2>2. CASE ProbeMiss(t) /\ pc' = [pc EXCEPT ![t] = IF at'[t] = "null" THEN "no_slab" ELSE "scan"]
    <3>1. at'[t] # "held" BY <1>a, <2>2 DEF ProbeMiss, PoolTypeOK
    <3>2. pc'[t] \in {"no_slab", "scan"} BY <1>a, <2>2 DEF SlabTypeOK
    <3>3. Tenant(t)'
      BY <3>1, <3>2 DEF Tenant, Uncounted, Holding, InSlabLabels, SearchLabels, FreeLabels
    <3> QED BY <1>5, <3>3, QuietStep DEF Scan, Uncounted
  <2> QED BY <1>5, <2>1, <2>2 DEF Scan
<1>6. CASE CheckFull(t)
  <2>1. Tenant(t)'
    BY <1>a, <1>b, <1>6, SlabAssumption
    DEF CheckFull, Tenant, Uncounted, Holding, InSlabLabels, SearchLabels, FreeLabels, SlabTypeOK
  <2> QED BY <1>6, <2>1, QuietStep DEF CheckFull, Uncounted
<1>7. CASE EnterSlab(t)
  <2>1. ~(op[t] = "allocate" /\ Refused(t))
    <3>1. region[slot[t]] # NoRegion
      BY <1>a, <1>b, PoolAssumption DEF Settled, NoRegion, Slots
    <3> QED BY <1>a, <1>b, <1>7, <3>1, SlabAssumption DEF EnterSlab, Tenant, Refused
  <2>2. Tenant(t)'
    <3>1. CASE Refused(t)
      BY <1>a, <1>7, <2>1, <3>1
      DEF EnterSlab, Tenant, Uncounted, Holding, InSlabLabels, SearchLabels, FreeLabels, SlabTypeOK
    <3>2. CASE ~Refused(t)
      <4>1. word'[t] = 0 /\ pc'[t] = "load" /\ pc[t] = "enter"
        BY <1>a, <1>7, <3>2 DEF EnterSlab, SlabTypeOK
      <4> QED
        BY <1>a, <1>7, <4>1
        DEF EnterSlab, Tenant, Uncounted, Holding, InSlabLabels, SearchLabels, FreeLabels
    <3> QED BY <3>1, <3>2
  <2> QED BY <1>7, <2>2, QuietStep DEF EnterSlab, Uncounted
<1>8. CASE LoadWord(t)
  <2>1. Tenant(t)'
    <3>1. CASE word[t] = Words
      <4>1. op[t] # "allocate"
        <5> SUFFICES ASSUME op[t] = "allocate" PROVE FALSE
          OBVIOUS
        <5>1. \A k \in 0 .. Words - 1 : WordOf((from[t] + k) % Words) \subseteq bits[slot[t]]
          BY <1>a, <1>8, <3>1 DEF LoadWord, Tenant
        <5>2. from[t] \in 0 .. Words - 1 BY <1>a DEF SlabTypeOK
        <5>3. bits[slot[t]] = Objects BY <1>b, <5>1, <5>2, SearchSeesAll
        <5>4. count[slot[t]] < Regions BY <1>a, <1>8 DEF LoadWord, Tenant
        <5>5. count[slot[t]] = Cardinality(bits[slot[t]])
          BY <1>8, <1>d DEF LoadWord, Uncounted, Holding, InSlabLabels, SearchLabels
        <5> QED BY <1>c, <5>3, <5>4, <5>5, SlabAssumption
      <4>2. pc'[t] = "release" /\ at'[t] = at[t] /\ op'[t] = op[t] /\ pc[t] = "load"
        BY <1>a, <1>8, <3>1 DEF LoadWord, SlabTypeOK
      <4> QED
        BY <1>a, <4>1, <4>2
        DEF Tenant, Uncounted, Holding, InSlabLabels, SearchLabels, FreeLabels
    <3>2. CASE word[t] # Words
      <4>1. /\ pc[t] = "load" /\ UNCHANGED <<at, op, bits, count, slot, from, tmp, got>>
        BY <1>8, <3>2 DEF LoadWord
      <4>2. \/ pc'[t] = "cas" /\ word'[t] = word[t]
            \/ /\ pc'[t] = "load" /\ word'[t] = word[t] + 1
               /\ WordOf((from[t] + word[t]) % Words) \subseteq bits[slot[t]]
        BY <1>a, <1>b, <1>8, <3>2 DEF LoadWord, WordIndex, SlabTypeOK
      <4>3. word[t] \in Nat BY <1>a, SlabAssumption DEF SlabTypeOK
      <4>4. op[t] = "allocate" => \A k \in 0 .. word'[t] - 1 :
              WordOf((from[t] + k) % Words) \subseteq bits[slot[t]]
        <5> SUFFICES ASSUME op[t] = "allocate", NEW k \in 0 .. word'[t] - 1
                     PROVE  WordOf((from[t] + k) % Words) \subseteq bits[slot[t]]
          OBVIOUS
        <5>1. k \in 0 .. word[t] - 1 \/ (k = word[t] /\ pc'[t] = "load") BY <4>2, <4>3
        <5> QED BY <1>a, <4>1, <4>2, <5>1 DEF Tenant
      <4> QED
        BY <1>a, <4>1, <4>2, <4>4
        DEF Tenant, Uncounted, Holding, InSlabLabels, SearchLabels, FreeLabels
    <3> QED BY <3>1, <3>2
  <2> QED BY <1>8, <2>1, QuietStep DEF LoadWord, Uncounted
<1>9. CASE ClaimBit(t)
  <2>0. pc[t] = "cas" /\ UNCHANGED <<at, op, count, slot, from, word, tmp, got>>
    BY <1>9 DEF ClaimBit, casFrame
  <2>1. CASE CasFails(t)
    <3>1. pc'[t] = "load" /\ bits' = bits
      BY <1>a, <2>1 DEF CasFails, SlabTypeOK
    <3>2. Tenant(t)'
      BY <1>a, <2>0, <3>1
      DEF Tenant, Uncounted, Holding, InSlabLabels, SearchLabels, FreeLabels
    <3> QED BY <2>0, <3>1, <3>2, QuietStep DEF Uncounted
  <2>2. CASE bits[Held(t)] \cap WordOf(WordIndex(t)) = seen[t] /\ SetBit(t)
    <3>1. PICK b \in Objects : /\ IsLowest(b, Zeros(t))
                               /\ bits' = [bits EXCEPT ![slot[t]] = @ \cup {b}]
                               /\ pc' = [pc EXCEPT ![t] = "claimed"]
      BY <1>b, <2>2 DEF SetBit
    <3>2. b \notin bits[slot[t]]
      BY <1>b, <2>2, <3>1 DEF IsLowest, Zeros
    <3>3. bits'[slot[t]] = bits[slot[t]] \cup {b} /\ pc'[t] = "claimed"
          /\ \A s \in Slots : s # slot[t] => bits'[s] = bits[s]
      BY <1>a, <1>b, <3>1 DEF SlabTypeOK
    <3>4. Cardinality(bits'[slot[t]]) = Cardinality(bits[slot[t]]) + 1
      BY <1>c, <3>2, <3>3, FS_AddElement
    <3>5. count[slot[t]] = Cardinality(bits[slot[t]])
      BY <2>0, <1>d DEF Uncounted, Holding, InSlabLabels, SearchLabels
    <3>6. Tenant(t)'
      BY <1>a, <2>0, <3>3, <3>4, <3>5
      DEF Tenant, Uncounted, Holding, InSlabLabels, SearchLabels, FreeLabels
    <3>7. Tenants'
      BY <2>0, <3>3, <3>6, OthersTenants DEF Holding, InSlabLabels, SearchLabels
    <3>8. \A u \in Threads : Uncounted(u) => Uncounted(u)'
      BY <3>3, StepFrame DEF Uncounted
    <3>9. Counted'
      BY <2>0, <3>3, <3>8 DEF Tenancy, Counted, Uncounted
    <3> QED BY <3>7, <3>9
  <2> QED BY <1>9, <2>1, <2>2 DEF ClaimBit
<1>10. CASE CountUpRead(t)
  <2>1. Tenant(t)'
    BY <1>a, <1>b, <1>10
    DEF CountUpRead, Tenant, Uncounted, Holding, InSlabLabels, SearchLabels, FreeLabels, SlabTypeOK
  <2> QED BY <1>a, <1>10, <2>1, QuietStep DEF CountUpRead, Uncounted, SlabTypeOK
<1>11. CASE CountUpWrite(t)
  <2>0. pc[t] = "count_up" /\ UNCHANGED <<at, op, bits, slot>>
    BY <1>11 DEF CountUpWrite
  <2>1. tmp[t] = count[slot[t]] /\ count[slot[t]] + 1 = Cardinality(bits[slot[t]])
    BY <1>a, <2>0 DEF Tenant, Uncounted
  <2>2. CountUp(tmp[t]) = Cardinality(bits[slot[t]])
    BY <1>b, <1>c, <2>1, SlabAssumption DEF CountUp
  <2>3. count'[slot[t]] = Cardinality(bits[slot[t]])
        /\ \A s \in Slots : s # slot[t] => count'[s] = count[s]
    BY <1>a, <1>b, <1>11, <2>2 DEF CountUpWrite, SlabTypeOK
  <2>4. \/ pc'[t] = "release" /\ got'[t] # {}
        \/ op[t] = "batch" /\ pc'[t] \in {"release", "cas", "load"}
    BY <1>a, <1>11 DEF CountUpWrite, SlabTypeOK
  <2>5. Tenant(t)'
    BY <1>a, <2>0, <2>4
    DEF Tenant, Uncounted, Holding, InSlabLabels, SearchLabels, FreeLabels
  <2>6. Tenants'
    BY <2>0, <2>3, <2>5, OthersTenants DEF Holding, InSlabLabels, SearchLabels
  <2>7. \A u \in Threads \ {t} : Uncounted(u) => Uncounted(u)'
    BY StepFrame DEF Uncounted
  <2>8. Counted'
    BY <2>0, <2>3, <2>7 DEF Tenancy, Counted
  <2> QED BY <2>6, <2>8
<1>12. CASE ReleaseSlab(t)
  <2>1. pc[t] = "release" /\ at'[t] = "out" /\ UNCHANGED <<bits, count>>
    BY <1>a, <1>12 DEF ReleaseSlab, Release, PoolTypeOK
  <2>2. pc'[t] \in {"next", "idle"}
    BY <1>a, <1>12 DEF ReleaseSlab, Return, Tenant, SlabTypeOK
  <2>3. Tenant(t)'
    BY <2>1, <2>2 DEF Tenant, Uncounted, Holding, InSlabLabels, SearchLabels, FreeLabels
  <2> QED BY <2>1, <2>3, QuietStep DEF Uncounted
<1>13. CASE ReleaseLast(t) \/ Query(t)
  <2>1. pc[t] \in {"release_last", "query"} /\ at'[t] = "out" /\ UNCHANGED <<bits, count>>
    BY <1>a, <1>13 DEF ReleaseLast, Query, Release, PoolTypeOK
  <2>2. pc'[t] \in {"next", "idle"}
    BY <1>a, <1>13 DEF ReleaseLast, Query, Return, SlabTypeOK
  <2>3. Tenant(t)'
    BY <2>1, <2>2 DEF Tenant, Uncounted, Holding, InSlabLabels, SearchLabels, FreeLabels
  <2> QED BY <2>1, <2>3, QuietStep DEF Uncounted
<1>14. CASE CallDeallocate(t) \/ ClearBit(t) \/ CountDownRead(t) \/ CountDownWrite(t)
           \/ DeallocateReturns(t)
  BY <1>a, <1>14
  DEF CallDeallocate, ClearBit, CountDownRead, CountDownWrite, DeallocateReturns, Tenant, FreeLabels
<1>15. CASE InitPublish(t) \/ InitClear(t) \/ InitRegion(t) \/ InitRelease(t)
  BY <1>a, <1>15 DEF InitPublish, InitClear, InitRegion, InitRelease, Settled, InitLabels
<1> QED
  BY <1>1, <1>2, <1>3, <1>4, <1>5, <1>6, <1>7, <1>8, <1>9, <1>10, <1>11, <1>12, <1>13, <1>14,
     <1>15 DEF Step

LEMMA TenancyInductive ==
  ASSUME ~MayFree, ~WeakFailure
  PROVE  SlabInv /\ Tenancy /\ [Next]_vars => SlabInv' /\ Tenancy'
<1> SUFFICES ASSUME SlabInv, Tenancy, [Next]_vars PROVE SlabInv' /\ Tenancy'
  OBVIOUS
<1>1. SlabInv' BY SlabInvInductive
<1>2. CASE UNCHANGED vars
  <2>1. UNCHANGED <<inUse, rr, at, start, probe, slot, bits, count, pc, op, from, word, got, tmp>>
    BY <1>2 DEF vars, poolVars, slabVars, callVars, searchVars
  <2>2. PoolInv' /\ NoSlotLost'
    BY <2>1, PoolInvInductive, SlotsKeepHolders DEF Tenancy, poolVars
  <2>3. Tenants' BY <2>1 DEF Tenancy, Tenants, Tenant, Uncounted
  <2>4. Counted' BY <2>1 DEF Tenancy, Counted, Uncounted
  <2> QED BY <1>1, <2>2, <2>3, <2>4 DEF Tenancy
<1>3. ASSUME NEW t \in Threads, Step(t) PROVE Tenancy'
  <2>1. [PoolNext]_poolVars BY <1>3, StepUsesPool DEF Tenancy
  <2>2. PoolInv' /\ NoSlotLost' BY <2>1, PoolInvInductive, SlotsKeepHolders DEF Tenancy
  <2> QED BY <1>3, <2>2, TenancyStep DEF Tenancy
<1> QED BY <1>1, <1>2, <1>3 DEF Next

-----------------------------------------------------------------------------
(* The group while its creator initializes it: nobody else is in a call. *)

InitHolding == {"clear_slab", "set_region", "init_release"}

\* The variables that initialize() does not touch, or sets to what they are.
Untouched ==
  /\ bits = [s \in Slots |-> {}] /\ count = [s \in Slots |-> 0] /\ hint = [s \in Slots |-> 0]
  /\ live = {}
  /\ want \in [Threads -> 1 .. MaxBatch]
  /\ from = [t \in Threads |-> 0] /\ word = [t \in Threads |-> 0]
  /\ seen = [t \in Threads |-> {}] /\ bit = [t \in Threads |-> 0]
  /\ got = [t \in Threads |-> {}] /\ todo = [t \in Threads |-> {}]
  /\ target = [t \in Threads |-> 0] /\ tmp = [t \in Threads |-> 0]

\* How far the creator c has come: the slabs before tries[c] have their regions, and the
\* pool hands out its slabs in their order.
OpeningBy(c) ==
  /\ pc \in [Threads -> Labels] /\ op \in [Threads -> Ops] /\ tries \in [Threads -> 0 .. N]
  /\ region \in [Slots -> Slots \cup {NoRegion}]
  /\ pc[c] \in {"init", "next", "scan"} \cup InitHolding /\ op[c] = "init"
  /\ \A t \in Threads \ {c} : pc[t] = "idle" /\ op[t] = "none" /\ at[t] = "out"
  /\ ready = (pc[c] # "init")
  /\ pc[c] = "init" => tries[c] = 0
  /\ pc[c] # "next" => tries[c] < N
  /\ at[c] = "held" <=> pc[c] \in InitHolding
  /\ at[c] = "scan" <=> pc[c] = "scan"
  /\ pc[c] = "scan" => start[c] = tries[c] /\ probe[c] = 0
  /\ pc[c] \in InitHolding => slot[c] = tries[c]
  /\ rr = (IF pc[c] \in {"init", "next"} THEN tries[c] ELSE tries[c] + 1) % N
  /\ \A s \in Slots : s < tries[c] \/ (s = tries[c] /\ pc[c] = "init_release") => region[s] = s

Opening == PoolInv /\ NoSlotLost /\ Untouched /\ \E c \in Threads : OpeningBy(c)

LEMMA ModSlots ==
  ASSUME NEW k \in Nat, k < N
  PROVE  k % N = k /\ k \in Slots
BY PoolAssumption DEF Slots

LEMMA FreshOpens == FreshInit => Opening
<1> SUFFICES ASSUME FreshInit PROVE Opening
  OBVIOUS
<1> USE DEF FreshInit, InitIdle
<1>1. PoolInv /\ NoSlotLost BY PoolInitially DEF PoolInit, NoSlotLost
<1>2. Untouched BY ConstantsInRange DEF Untouched
<1>3. PICK c \in Threads :
        /\ pc = [t \in Threads |-> IF t = c THEN "init" ELSE "idle"]
        /\ op = [t \in Threads |-> IF t = c THEN "init" ELSE "none"]
  OBVIOUS
<1>4. /\ pc \in [Threads -> Labels] /\ op \in [Threads -> Ops] /\ tries \in [Threads -> 0 .. N]
      /\ region \in [Slots -> Slots \cup {NoRegion}]
  BY <1>3, ConstantsInRange DEF Labels, Ops
<1>5. pc[c] = "init" /\ op[c] = "init" /\ tries[c] = 0 /\ at[c] = "out" /\ rr = 0 % N
  BY <1>3, ModSlots, PoolAssumption DEF PoolInit
<1>6. \A t \in Threads \ {c} : pc[t] = "idle" /\ op[t] = "none" /\ at[t] = "out"
  BY <1>3 DEF PoolInit
<1>7. \A s \in Slots : ~(s < 0) BY PoolAssumption DEF Slots
<1>8. ready = (pc[c] # "init") BY <1>5
<1>9. rr = (IF pc[c] \in {"init", "next"} THEN tries[c] ELSE tries[c] + 1) % N
  BY <1>5
<1>10. OpeningBy(c)
  <2> HIDE DEF FreshInit, InitIdle
  <2> QED BY <1>4, <1>5, <1>6, <1>7, <1>8, <1>9, PoolAssumption DEF OpeningBy, InitHolding
<1> QED BY <1>1, <1>2, <1>10 DEF Opening

\* The steps of the creator, and what the pool sees of them.
LEMMA OpeningStep ==
  ASSUME Opening, ~Shared, ~MayFree, ~WeakFailure, NEW t \in Threads, Step(t)
  PROVE  /\ [PoolNext]_poolVars
         /\ Opening' \/ (SlabInv' /\ Tenancy')
<1> USE DEF Goto, Held, poolVars, slabVars, callVars, searchVars, freeVars
<1>a. PICK c \in Threads : OpeningBy(c)
  BY DEF Opening
<1>b. PoolInv /\ PoolTypeOK /\ NoSlotLost /\ Untouched BY DEF Opening, PoolInv
<1>p. ASSUME [PoolNext]_poolVars PROVE PoolInv' /\ NoSlotLost'
  BY <1>b, <1>p, PoolInvInductive, SlotsKeepHolders
<1>1. CASE t # c
  <2>1. pc[t] = "idle" /\ Initializing BY <1>1, <1>a DEF OpeningBy, Initializing
  <2>2. UNCHANGED vars
    <3> USE <2>1
    <3>1. CASE Call(t) \/ CallRefused(t) \/ CallDeallocate(t)
      BY <3>1 DEF Call, CallRefused, CallDeallocate
    <3>2. CASE NextSlab(t) \/ LoopEnds(t) \/ Scan(t) \/ NoSlab(t) \/ CheckFull(t) \/ EnterSlab(t)
               \/ LoadWord(t) \/ ClaimBit(t) \/ CountUpRead(t) \/ CountUpWrite(t)
      BY <3>2 DEF NextSlab, LoopEnds, Scan, NoSlab, CheckFull, EnterSlab, LoadWord, ClaimBit,
                  CountUpRead, CountUpWrite
    <3>3. CASE ReleaseSlab(t) \/ ReleaseLast(t) \/ Query(t) \/ ClearBit(t) \/ CountDownRead(t)
               \/ CountDownWrite(t) \/ DeallocateReturns(t) \/ InitPublish(t) \/ InitClear(t)
               \/ InitRegion(t) \/ InitRelease(t)
      BY <3>3 DEF ReleaseSlab, ReleaseLast, Query, ClearBit, CountDownRead, CountDownWrite,
                  DeallocateReturns, InitPublish, InitClear, InitRegion, InitRelease
    <3> QED BY <3>1, <3>2, <3>3 DEF Step
  <2>3. UNCHANGED poolVars BY <2>2 DEF vars
  <2>4. Untouched' BY <1>b, <2>2 DEF vars, Untouched
  <2>5. OpeningBy(c)' BY <1>a, <2>2 DEF vars, OpeningBy
  <2> QED BY <1>p, <2>3, <2>4, <2>5 DEF Opening
<1>2. CASE t = c
  <2> USE <1>2
  <2>a. pc[t] \in {"init", "next", "scan"} \cup InitHolding BY <1>a DEF OpeningBy
  <2>b. /\ pc \in [Threads -> Labels] /\ op \in [Threads -> Ops] /\ tries \in [Threads -> 0 .. N]
        /\ region \in [Slots -> Slots \cup {NoRegion}] /\ tries[t] \in 0 .. N
    BY <1>a DEF OpeningBy
  <2>c. pc[t] # "next" => tries[t] < N /\ tries[t] \in Slots /\ tries[t] + 1 \in 0 .. N
    BY <1>a, <2>b, ModSlots, PoolAssumption DEF OpeningBy
  <2>1. CASE InitPublish(t)
    <3>1. Untouched' BY <1>b, <2>1 DEF InitPublish, Untouched
    <3>2. OpeningBy(t)'
      BY <1>a, <2>b, <2>1, ConstantsInRange DEF InitPublish, OpeningBy, InitHolding, Labels
    <3>3. UNCHANGED poolVars BY <2>1 DEF InitPublish
    <3> QED BY <1>p, <3>1, <3>2, <3>3 DEF Opening
  <2>2. CASE NextSlab(t)
    <3>1. Untouched' BY <1>b, <2>2 DEF NextSlab, Untouched
    <3>2. tries[t] < N /\ pc[t] = "next" /\ StartScan(t) BY <2>2 DEF NextSlab
    <3>3. rr = tries[t] /\ NextIndex(rr) = (tries[t] + 1) % N
      BY <1>a, <2>b, <3>2, ModSlots DEF OpeningBy, NextIndex
    <3>4. OpeningBy(t)'
      BY <1>a, <1>b, <2>b, <2>2, <3>2, <3>3
      DEF NextSlab, StartScan, OpeningBy, InitHolding, Labels, PoolTypeOK
    <3>5. Acquire(t)
      BY <1>a, <1>b, <3>2 DEF OpeningBy, InitHolding, Acquire, StartScan, PoolTypeOK
    <3> QED BY <1>p, <3>1, <3>4, <3>5 DEF Opening, PoolNext
  <2>3. CASE Scan(t)
    <3>1. Untouched' BY <1>b, <2>3 DEF Scan, Untouched
    <3>2. pc[t] = "scan" BY <2>3 DEF Scan
    <3>3. Probed(t) = tries[t] /\ tries[t] \in Slots
      BY <1>a, <2>b, <2>c, <3>2, ModSlots DEF OpeningBy, Probed
    <3>4. ~inUse[Probed(t)]
      BY <1>a, <1>b, <3>2, <3>3 DEF NoSlotLost, OpeningBy, InitHolding
    <3>5. ~ProbeMiss(t) BY <3>4 DEF ProbeMiss
    <3>6. ProbeHit(t) /\ pc' = [pc EXCEPT ![t] = "clear_slab"]
      BY <1>a, <2>3, <3>5 DEF Scan, OpeningBy
    <3>7. /\ at'[t] = "held" /\ slot'[t] = tries[t] /\ rr' = rr /\ pc'[t] = "clear_slab"
          /\ \A u \in Threads \ {t} : at'[u] = at[u] /\ pc'[u] = pc[u]
      BY <1>b, <2>b, <3>3, <3>6 DEF ProbeHit, PoolTypeOK
    <3>8. UNCHANGED <<op, tries, region, ready>> /\ pc' \in [Threads -> Labels]
      BY <2>b, <2>3, <3>6 DEF Scan, Labels
    <3>9. OpeningBy(t)'
      BY <1>a, <2>b, <3>2, <3>7, <3>8 DEF OpeningBy, InitHolding
    <3> QED BY <1>p, <3>1, <3>6, <3>9 DEF Opening, PoolNext
  <2>4. CASE InitClear(t)
    <3>1. pc[t] = "clear_slab" /\ slot[t] \in Slots /\ UNCHANGED poolVars
      BY <1>b, <2>4 DEF InitClear, PoolTypeOK
    <3>2. Untouched' BY <1>b, <2>4, <3>1 DEF InitClear, Untouched
    <3>3. OpeningBy(t)'
      BY <1>a, <2>b, <2>4, <3>1 DEF InitClear, OpeningBy, InitHolding, Labels
    <3> QED BY <1>p, <3>1, <3>2, <3>3 DEF Opening
  <2>5. CASE InitRegion(t)
    <3>1. pc[t] = "set_region" /\ slot[t] = tries[t] /\ tries[t] \in Slots /\ UNCHANGED poolVars
      BY <1>a, <2>c, <2>5 DEF InitRegion, OpeningBy, InitHolding
    <3>2. Untouched' BY <1>b, <2>5 DEF InitRegion, Untouched
    <3>3. region' = [region EXCEPT ![tries[t]] = tries[t]]
      BY <2>5, <3>1 DEF InitRegion, RegionAt
    <3>4. OpeningBy(t)'
      BY <1>a, <2>b, <2>5, <3>1, <3>3 DEF InitRegion, OpeningBy, InitHolding, Labels
    <3> QED BY <1>p, <3>1, <3>2, <3>4 DEF Opening
  <2>6. CASE InitRelease(t)
    <3>1. pc[t] = "init_release" /\ at[t] = "held" /\ Release(t, slot[t])
      BY <1>a, <2>6 DEF InitRelease, OpeningBy, InitHolding
    <3>2. Untouched' BY <1>b, <2>6 DEF InitRelease, Untouched
    <3>3. /\ at'[t] = "out" /\ rr' = rr /\ pc'[t] = "next" /\ tries'[t] = tries[t] + 1
          /\ \A u \in Threads \ {t} : at'[u] = at[u] /\ pc'[u] = pc[u]
          /\ UNCHANGED <<op, region, ready>>
          /\ pc' \in [Threads -> Labels] /\ tries' \in [Threads -> 0 .. N]
      BY <1>b, <2>b, <2>c, <2>6, <3>1 DEF InitRelease, Release, PoolTypeOK, Labels
    <3>4. \A s \in Slots : s < tries[t] + 1 => s < tries[t] \/ s = tries[t]
      BY <2>b, PoolAssumption DEF Slots
    <3>5. OpeningBy(t)'
      BY <1>a, <2>b, <3>1, <3>3, <3>4 DEF OpeningBy, InitHolding
    <3>6. GiveBack(t) BY <3>1 DEF GiveBack
    <3> QED BY <1>p, <3>2, <3>5, <3>6 DEF Opening, PoolNext
  <2>7. CASE LoopEnds(t)
    <3>1. pc[t] = "next" /\ tries[t] = N /\ Return(t)
      BY <1>a, <2>7 DEF LoopEnds, OpeningBy
    <3>2. UNCHANGED poolVars BY <2>7 DEF LoopEnds
    <3>3. /\ \A u \in Threads : pc'[u] = "idle" /\ op'[u] = "none"
          /\ \A u \in Threads : at'[u] # "held"
          /\ UNCHANGED <<bits, count, hint, from, word, seen, bit, todo, target, tmp>>
          /\ UNCHANGED <<region, ready>>
          /\ live' = {} /\ got' = got /\ \A u \in Threads : got[u] = {} /\ todo[u] = {}
      <4>1. \A u \in Threads : pc'[u] = "idle" /\ op'[u] = "none"
        BY <1>a, <2>b, <3>1 DEF Return, OpeningBy
      <4>2. \A u \in Threads : at'[u] # "held"
        BY <1>a, <3>1, <3>2 DEF OpeningBy, InitHolding
      <4>3. \A u \in Threads : got[u] = {} /\ todo[u] = {} BY <1>b DEF Untouched
      <4>4. live' = {} /\ got' = got
        BY <1>b, <3>1, <4>3 DEF Return, Untouched
      <4>5. UNCHANGED <<bits, count, hint, from, word, seen, bit, todo, target, tmp, region,
                        ready>>
        BY <2>7 DEF LoopEnds
      <4> QED BY <4>1, <4>2, <4>3, <4>4, <4>5
    <3>4. region = [s \in Slots |-> s] /\ ready = TRUE
      <4>1. \A s \in Slots : region[s] = s
        BY <1>a, <3>1, PoolAssumption DEF OpeningBy, Slots
      <4> QED BY <1>a, <2>b, <3>1, <4>1 DEF OpeningBy
    <3>5. PoolInv' /\ NoSlotLost' /\ PoolTypeOK' BY <1>p, <3>2 DEF PoolInv
    <3>6. SlabTypeOK'
      <4>1. live' \in SUBSET Pointers /\ pc' \in [Threads -> Labels] /\ op' \in [Threads -> Ops]
            /\ tries' \in [Threads -> 0 .. N] /\ want' \in [Threads -> 1 .. MaxBatch]
        BY <1>b, <2>b, <3>1, <3>3, ConstantsInRange DEF Return, Untouched, Labels, Ops
      <4>2. /\ bits' \in [Slots -> SUBSET Objects] /\ count' \in [Slots -> 0 .. CountMod - 1]
            /\ hint' \in [Slots -> 0 .. Words - 1] /\ from' \in [Threads -> 0 .. Words - 1]
            /\ word' \in [Threads -> 0 .. Words] /\ seen' \in [Threads -> SUBSET Objects]
            /\ bit' \in [Threads -> Objects] /\ got' \in [Threads -> SUBSET Pointers]
            /\ todo' \in [Threads -> SUBSET Pointers] /\ target' \in [Threads -> Slots]
            /\ tmp' \in [Threads -> 0 .. CountMod - 1]
        BY <1>b, <3>3, ConstantsInRange DEF Untouched
      <4>3. ready' \in BOOLEAN /\ region' \in [Slots -> Slots \cup {NoRegion}]
        BY <2>b, <3>3, <3>4
      <4> QED BY <3>5, <4>1, <4>2, <4>3 DEF SlabTypeOK
    <3>7. Settled' BY <3>3, <3>4 DEF Settled, InitLabels
    <3>8. Phases'
      BY <3>3 DEF Phases, Phase, FreeLabels, SearchLabels, InSlabLabels, LoopLabels
    <3>9. Owners'
      <4>1. \A u \in Threads : InFlight(u)' = {} /\ Pending(u)' = {}
        BY <3>3 DEF InFlight, Pending
      <4>2. \A s \in Slots : bits'[s] = {} BY <1>b, <3>3 DEF Untouched
      <4> QED BY <3>3, <4>1, <4>2 DEF Owners, NoDoubleHandout, BitsMatchOwners
    <3>10. Tenants'
      BY <3>3
      DEF Tenants, Tenant, Uncounted, Holding, InSlabLabels, SearchLabels, FreeLabels
    <3>11. Counted'
      <4>1. \A s \in Slots : bits'[s] = {} /\ count'[s] = 0 BY <1>b, <3>3 DEF Untouched
      <4> QED BY <4>1, FS_EmptySet DEF Counted
    <3> QED BY <3>2, <3>5, <3>6, <3>7, <3>8, <3>9, <3>10, <3>11 DEF SlabInv, Tenancy
  <2>8. CASE Call(t) \/ CallRefused(t) \/ NoSlab(t) \/ CheckFull(t) \/ EnterSlab(t) \/ LoadWord(t)
             \/ ClaimBit(t) \/ CountUpRead(t) \/ CountUpWrite(t)
    BY <2>a, <2>8
    DEF Call, CallRefused, NoSlab, CheckFull, EnterSlab, LoadWord, ClaimBit, CountUpRead,
        CountUpWrite, InitHolding
  <2>9. CASE ReleaseSlab(t) \/ ReleaseLast(t) \/ Query(t) \/ CallDeallocate(t) \/ ClearBit(t)
             \/ CountDownRead(t) \/ CountDownWrite(t) \/ DeallocateReturns(t)
    BY <2>a, <2>9
    DEF ReleaseSlab, ReleaseLast, Query, CallDeallocate, ClearBit, CountDownRead, CountDownWrite,
        DeallocateReturns, InitHolding
  <2> QED BY <2>1, <2>2, <2>3, <2>4, <2>5, <2>6, <2>7, <2>8, <2>9 DEF Step
<1> QED BY <1>1, <1>2

-----------------------------------------------------------------------------
FreshInv == Opening \/ (SlabInv /\ Tenancy)

LEMMA FreshInvariant ==
  ASSUME ~Shared, ~MayFree, ~WeakFailure
  PROVE  FreshSpec => []FreshInv
<1>1. FreshInit => FreshInv BY FreshOpens DEF FreshInv
<1>2. FreshInv /\ [Next]_vars => FreshInv'
  <2> SUFFICES ASSUME FreshInv, [Next]_vars PROVE FreshInv'
    OBVIOUS
  <2>1. CASE SlabInv /\ Tenancy BY <2>1, TenancyInductive DEF FreshInv
  <2>2. ASSUME Opening, NEW t \in Threads, Step(t) PROVE FreshInv'
    BY <2>2, OpeningStep DEF FreshInv
  <2>3. ASSUME Opening, UNCHANGED vars PROVE Opening'
    <3> USE DEF vars, poolVars, slabVars, callVars, searchVars, freeVars
    <3>1. PoolInv' /\ NoSlotLost'
      BY <2>3, PoolInvInductive, SlotsKeepHolders DEF Opening
    <3>2. Untouched' BY <2>3 DEF Opening, Untouched
    <3>3. \A c \in Threads : OpeningBy(c) => OpeningBy(c)' BY <2>3 DEF OpeningBy
    <3> QED BY <2>3, <3>1, <3>2, <3>3 DEF Opening
  <2> QED BY <2>1, <2>2, <2>3 DEF FreshInv, Next
<1> QED BY <1>1, <1>2, PTL DEF FreshSpec

\* slab_group::allocate: no slab stays marked in use when no thread has it.
THEOREM GroupLosesNoSlab ==
  ASSUME ~Shared, ~MayFree, ~WeakFailure
  PROVE  FreshSpec => []NoSlotLost
<1>1. FreshInv => NoSlotLost BY DEF FreshInv, Opening, Tenancy
<1> QED BY <1>1, FreshInvariant, PTL

\* The group is a client that keeps to the rules of the pool: it acquires and releases as
\* PoolSpec says, and what was proved of the pool holds for it.
THEOREM GroupKeepsPoolRules ==
  ASSUME ~Shared, ~MayFree, ~WeakFailure
  PROVE  FreshSpec => PoolSpec
<1>1. FreshInit => PoolInit BY DEF FreshInit, InitIdle
<1>2. FreshInv /\ [Next]_vars => [PoolNext]_poolVars
  <2> SUFFICES ASSUME FreshInv, [Next]_vars PROVE [PoolNext]_poolVars
    OBVIOUS
  <2>1. CASE UNCHANGED vars BY <2>1 DEF vars, poolVars
  <2>2. ASSUME NEW t \in Threads, Step(t) PROVE [PoolNext]_poolVars
    BY <2>2, StepUsesPool, OpeningStep DEF FreshInv, Tenancy
  <2> QED BY <2>1, <2>2 DEF Next
<1> QED BY <1>1, <1>2, FreshInvariant, PTL DEF FreshSpec, PoolSpec

\* A chunk that is initialized before other threads reach it, as the first of a class is
\* (size_class::initialize): no object gets two owners, during initialize() or later.
THEOREM CreatedGroupIsSafe ==
  ASSUME ~Shared, ~MayFree, ~WeakFailure
  PROVE  FreshSpec => []NoDoubleHandout
<1>1. Opening => NoDoubleHandout
  <2> SUFFICES ASSUME Opening PROVE NoDoubleHandout
    OBVIOUS
  <2>1. \A t \in Threads : InFlight(t) = {} /\ Pending(t) = {}
    BY DEF Opening, Untouched, OpeningBy, InitHolding, InFlight, Pending
  <2> QED BY <2>1 DEF NoDoubleHandout
<1>2. SlabInv => NoDoubleHandout BY DEF SlabInv, Owners
<1> QED BY <1>1, <1>2, FreshInvariant, PTL DEF FreshInv
=============================================================================
