------------------------------ MODULE RunnerProofs ------------------------------
(***************************************************************************)
(* The safety of the job registry, for any keys, slot counts and           *)
(* goroutines: RunnerInv is inductive, and implies the invariants of       *)
(* Runner that its run checks.                                             *)
(***************************************************************************)
EXTENDS Runner, FiniteSetTheorems, TLAPS

RunnerInv == /\ RunnerTypeOK
             /\ RegistryMatches
             /\ SlotsBalance
             /\ RegisteredIsMarked
             /\ ClosedIsQuiet

Pools == {"file", "live"}

-----------------------------------------------------------------------------
\* Every key has a pool, and every pool a token to give.
LEMMA PoolFacts ==
  /\ \A k : PoolOf(k) \in Pools
  /\ \A pool \in Pools : Capacity(pool) \in Nat
BY RunnerAssumption DEF PoolOf, Pools, Capacity

\* The goroutines that hold a slot of a pool are finitely many.
LEMMA HoldersFinite ==
  ASSUME NEW pool
  PROVE  /\ IsFiniteSet(Holders(pool))
         /\ Cardinality(Holders(pool)) \in Nat
<1>1. Holders(pool) \subseteq Goroutines
  BY DEF Holders
<1>2. IsFiniteSet(Holders(pool))
  BY <1>1, FS_Subset, RunnerAssumption
<1> QED BY <1>2, FS_CardinalityType

\* A step of goroutines that neither take nor return slots keeps the balance.
LEMMA BalanceKept ==
  ASSUME SlotsBalance, UNCHANGED slots,
         \A g \in Goroutines :
           /\ at'[g] \in HoldsSlot <=> at[g] \in HoldsSlot
           /\ at[g] \in HoldsSlot => keyOf'[g] = keyOf[g]
  PROVE  SlotsBalance'
<1> SUFFICES ASSUME NEW pool \in {"file", "live"}
             PROVE  /\ slots'[pool] = Cardinality(Holders(pool)')
                    /\ slots'[pool] <= Capacity(pool)
  BY DEF SlotsBalance, Capacity
<1>1. Holders(pool)' = Holders(pool)
  BY DEF Holders, PoolOf
<1> QED BY <1>1 DEF SlotsBalance

-----------------------------------------------------------------------------
\* The initial state: nothing is registered and no slot is taken.
LEMMA RunnerInitInv == RunnerInit => RunnerInv
<1> SUFFICES ASSUME RunnerInit PROVE RunnerInv
  OBVIOUS
<1>1. RunnerTypeOK /\ RegistryMatches /\ RegisteredIsMarked /\ ClosedIsQuiet
  BY RunnerAssumption DEF RunnerInit, RunnerTypeOK, RegistryMatches, Registered,
     RegisteredIsMarked, ClosedIsQuiet
<1>2. SlotsBalance
  <2> SUFFICES ASSUME NEW pool \in {"file", "live"}
               PROVE  slots[pool] = Cardinality(Holders(pool)) /\ slots[pool] <= Capacity(pool)
    BY DEF SlotsBalance
  <2>1. Holders(pool) = {}
    BY DEF RunnerInit, Holders, HoldsSlot
  <2> QED BY <2>1, FS_EmptySet, PoolFacts DEF RunnerInit, Pools
<1> QED BY <1>1, <1>2 DEF RunnerInv

\* Ensure registers a key that has no entry for a goroutine that is free.
LEMMA EnsureInv ==
  ASSUME RunnerInv, NEW k \in Keys, NEW g \in Goroutines, Ensure(k, g)
  PROVE  RunnerInv'
<1> USE DEF RunnerInv, registry, Ensure, Goto, Accepts, Closed, Seeded
<1>1. RunnerTypeOK'
  BY DEF RunnerTypeOK, Registered
<1>2. RegistryMatches'
  BY RunnerAssumption DEF RunnerTypeOK, RegistryMatches, Registered
<1>3. SlotsBalance'
  BY BalanceKept DEF RunnerTypeOK, HoldsSlot
<1>4. RegisteredIsMarked'
  BY DEF RunnerTypeOK, RegisteredIsMarked
<1>5. ClosedIsQuiet'
  BY DEF ClosedIsQuiet
<1> QED BY <1>1, <1>2, <1>3, <1>4, <1>5

\* Taking a slot adds the goroutine to the holders of its pool.
LEMMA TakeSlotInv ==
  ASSUME RunnerInv, NEW g \in Goroutines, TakeSlot(g)
  PROVE  RunnerInv'
<1> DEFINE mine == PoolOf(keyOf[g])
<1> USE DEF RunnerInv, registry, TakeSlot, Goto
<1>1. RunnerTypeOK'
  BY PoolFacts DEF RunnerTypeOK, Registered, Pools
<1>2. RegistryMatches'
  BY DEF RunnerTypeOK, RegistryMatches, Registered
<1>3. SlotsBalance'
  <2> SUFFICES ASSUME NEW pool \in {"file", "live"}
               PROVE  /\ slots'[pool] = Cardinality(Holders(pool)')
                      /\ slots'[pool] <= Capacity(pool)
    BY DEF SlotsBalance, Capacity
  <2>0. slots \in [{"file", "live"} -> Nat] /\ slots[pool] = Cardinality(Holders(pool))
    BY DEF RunnerTypeOK, SlotsBalance
  <2>1. CASE pool = mine
    <3>1. Holders(pool)' = Holders(pool) \cup {g} /\ g \notin Holders(pool)
      BY <2>1 DEF RunnerTypeOK, Holders, HoldsSlot, PoolOf
    <3>2. Cardinality(Holders(pool)') = Cardinality(Holders(pool)) + 1
      BY <3>1, HoldersFinite, FS_AddElement
    <3> QED BY <3>2, <2>0, <2>1, PoolFacts DEF Pools
  <2>2. CASE pool # mine
    <3>1. Holders(pool)' = Holders(pool)
      BY <2>2 DEF RunnerTypeOK, Holders, HoldsSlot, PoolOf
    <3> QED BY <3>1, <2>0, <2>2, PoolFacts DEF SlotsBalance, Pools
  <2> QED BY <2>1, <2>2
<1>4. RegisteredIsMarked'
  BY DEF RegisteredIsMarked
<1>5. ClosedIsQuiet'
  BY DEF ClosedIsQuiet, Drained
<1> QED BY <1>1, <1>2, <1>3, <1>4, <1>5

\* A job whose queue is cancelled leaves without a slot.
LEMMA QueueCancelledInv ==
  ASSUME RunnerInv, NEW g \in Goroutines, QueueCancelled(g)
  PROVE  RunnerInv'
<1> USE DEF RunnerInv, registry, QueueCancelled, Goto
<1>1. RunnerTypeOK' /\ RegistryMatches'
  BY DEF RunnerTypeOK, RegistryMatches, Registered
<1>2. SlotsBalance'
  BY BalanceKept DEF RunnerTypeOK, HoldsSlot
<1>3. RegisteredIsMarked' /\ ClosedIsQuiet'
  BY DEF RegisteredIsMarked, ClosedIsQuiet, Drained
<1> QED BY <1>1, <1>2, <1>3

\* A job that ends still holds its slot.
LEMMA EndWorkInv ==
  ASSUME RunnerInv, NEW g \in Goroutines, EndWork(g)
  PROVE  RunnerInv'
<1> USE DEF RunnerInv, registry, EndWork, AfterWork, Goto
<1>0. over' \in [Keys -> BOOLEAN]
  BY DEF RunnerTypeOK
<1>1. at' = [at EXCEPT ![g] = "release"]
  OBVIOUS
<1>2. RunnerTypeOK'
  BY <1>0, <1>1 DEF RunnerTypeOK, Registered
<1>3. RegistryMatches'
  BY <1>1 DEF RunnerTypeOK, RegistryMatches, Registered
<1>4. SlotsBalance'
  BY BalanceKept DEF RunnerTypeOK, HoldsSlot
<1>5. RegisteredIsMarked' /\ ClosedIsQuiet'
  BY DEF RegisteredIsMarked, ClosedIsQuiet, Drained
<1> QED BY <1>2, <1>3, <1>4, <1>5

\* Giving the slot back removes the goroutine from the holders of its pool.
LEMMA ReleaseSlotInv ==
  ASSUME RunnerInv, NEW g \in Goroutines, ReleaseSlot(g)
  PROVE  RunnerInv'
<1> DEFINE mine == PoolOf(keyOf[g])
<1> USE DEF RunnerInv, registry, ReleaseSlot, Goto
<1>0. /\ slots \in [{"file", "live"} -> Nat] /\ mine \in {"file", "live"}
      /\ \A pool \in {"file", "live"} : slots[pool] = Cardinality(Holders(pool))
  BY PoolFacts DEF RunnerTypeOK, SlotsBalance, Pools
<1>1. /\ Holders(mine)' = Holders(mine) \ {g}
      /\ g \in Holders(mine)
  BY DEF RunnerTypeOK, Holders, HoldsSlot, PoolOf
<1>2. Cardinality(Holders(mine)') = Cardinality(Holders(mine)) - 1
  BY <1>1, HoldersFinite, FS_RemoveElement
<1>3. Cardinality(Holders(mine)') \in Nat
  <2>1. IsFiniteSet(Holders(mine)')
    BY <1>1, HoldersFinite, FS_RemoveElement
  <2> QED BY <2>1, FS_CardinalityType
<1>4. RunnerTypeOK'
  BY <1>0, <1>2, <1>3 DEF RunnerTypeOK, Registered
<1>5. RegistryMatches'
  BY DEF RunnerTypeOK, RegistryMatches, Registered
<1>6. SlotsBalance'
  <2> SUFFICES ASSUME NEW pool \in {"file", "live"}
               PROVE  /\ slots'[pool] = Cardinality(Holders(pool)')
                      /\ slots'[pool] <= Capacity(pool)
    BY DEF SlotsBalance, Capacity
  <2>1. CASE pool = mine
    BY <2>1, <1>0, <1>2, PoolFacts DEF SlotsBalance, Pools
  <2>2. CASE pool # mine
    <3>1. Holders(pool)' = Holders(pool)
      BY <2>2 DEF RunnerTypeOK, Holders, HoldsSlot, PoolOf
    <3> QED BY <3>1, <1>0, <2>2, PoolFacts DEF SlotsBalance, Pools
  <2> QED BY <2>1, <2>2
<1>7. RegisteredIsMarked' /\ ClosedIsQuiet'
  BY DEF RegisteredIsMarked, ClosedIsQuiet, Drained
<1> QED BY <1>4, <1>5, <1>6, <1>7

\* The entry goes with its mark, and it is the goroutine's own.
LEMMA UnregisterInv ==
  ASSUME RunnerInv, NEW g \in Goroutines, Unregister(g)
  PROVE  RunnerInv'
<1> USE DEF RunnerInv, registry, Unregister, Forget, ForgetsAt, Goto
<1>1. RunnerTypeOK'
  BY DEF RunnerTypeOK, Registered
<1>2. RegistryMatches'
  BY RunnerAssumption DEF RunnerTypeOK, RegistryMatches, Registered
<1>3. SlotsBalance'
  BY BalanceKept DEF RunnerTypeOK, HoldsSlot
<1>4. RegisteredIsMarked' /\ ClosedIsQuiet'
  BY RunnerAssumption DEF RunnerTypeOK, RegisteredIsMarked, ClosedIsQuiet, Drained, Registered
<1> QED BY <1>1, <1>2, <1>3, <1>4

\* A goroutine that exits owns no entry, so no mark is dropped under a new job.
LEMMA ExitInv ==
  ASSUME RunnerInv, NEW g \in Goroutines, Exit(g)
  PROVE  RunnerInv'
<1> USE DEF RunnerInv, registry, Exit, Forget, ForgetsAt, Goto
<1>1. RunnerTypeOK'
  BY DEF RunnerTypeOK, Registered
<1>2. RegistryMatches'
  BY DEF RunnerTypeOK, RegistryMatches, Registered
<1>3. SlotsBalance'
  BY BalanceKept DEF RunnerTypeOK, HoldsSlot
<1>4. RegisteredIsMarked' /\ ClosedIsQuiet'
  BY DEF RunnerTypeOK, RegisteredIsMarked, ClosedIsQuiet, Drained
<1> QED BY <1>1, <1>2, <1>3, <1>4

\* Polls, the clock, new runs and the steps of Close.
LEMMA OutsideInv ==
  ASSUME RunnerInv,
         \/ \E k \in LiveKeys : Touch(k) \/ NewRun(k)
         \/ \E k \in Keys : Ages(k)
         \/ CloseBegins \/ Cancel \/ CloseReturns
  PROVE  RunnerInv'
<1> USE DEF RunnerInv, registry, Touch, NewRun, Ages, CloseBegins, Cancel, CloseReturns
<1>0. UNCHANGED <<running, slots, at, keyOf>>
  BY DEF registry
<1>1. RunnerTypeOK'
  BY <1>0 DEF RunnerTypeOK, Registered, registry, Keys
<1>2. RegistryMatches'
  BY <1>0 DEF RegistryMatches
<1>3. SlotsBalance'
  BY <1>0, BalanceKept
<1>4. RegisteredIsMarked'
  BY <1>0 DEF RunnerTypeOK, RegisteredIsMarked, registry, Keys
<1>5. ClosedIsQuiet'
  <2>1. CASE CloseReturns
    BY <2>1, <1>0 DEF RunnerTypeOK, RegistryMatches, ClosedIsQuiet, Drained, Registered
  <2>2. CASE ~CloseReturns
    BY <2>2, <1>0 DEF ClosedIsQuiet, Drained, CancelAllowed
  <2> QED BY <2>1, <2>2
<1> QED BY <1>1, <1>2, <1>3, <1>4, <1>5

\* A step that changes nothing.
LEMMA StutterInv == RunnerInv /\ UNCHANGED runnerVars => RunnerInv'
<1> SUFFICES ASSUME RunnerInv, UNCHANGED runnerVars PROVE RunnerInv'
  OBVIOUS
<1>1. SlotsBalance'
  BY BalanceKept DEF RunnerInv, runnerVars
<1> QED BY <1>1 DEF RunnerInv, runnerVars, registry, RunnerTypeOK, RegistryMatches,
           RegisteredIsMarked, ClosedIsQuiet, Drained

-----------------------------------------------------------------------------
\* The registry of one replica is consistent in every reachable state.
THEOREM RunnerSafe == RunnerSpec => []RunnerInv
<1>1. RunnerInv /\ [RunnerNext]_runnerVars => RunnerInv'
  BY EnsureInv, TakeSlotInv, QueueCancelledInv, EndWorkInv, ReleaseSlotInv,
     UnregisterInv, ExitInv, OutsideInv, StutterInv DEF RunnerNext, JobStep
<1> QED BY RunnerInitInv, <1>1, PTL DEF RunnerSpec

\* Every reachable state of the registry is well typed.
THEOREM RunnerTyped == RunnerSpec => []RunnerTypeOK
<1>1. RunnerInv => RunnerTypeOK
  BY DEF RunnerInv
<1> QED BY <1>1, RunnerSafe, PTL

\* A key is worked on by one goroutine, and its entry lives as long.
THEOREM OneJobPerKey == RunnerSpec => []RegistryMatches
<1>1. RunnerInv => RegistryMatches
  BY DEF RunnerInv
<1> QED BY <1>1, RunnerSafe, PTL

\* No slot is lost, none is returned twice, no pool is overrun.
THEOREM NoSlotLost == RunnerSpec => []SlotsBalance
<1>1. RunnerInv => SlotsBalance
  BY DEF RunnerInv
<1> QED BY <1>1, RunnerSafe, PTL

\* A registered job can always read how long ago its key was asked for.
THEOREM JobsAreMarked == RunnerSpec => []RegisteredIsMarked
<1>1. RunnerInv => RegisteredIsMarked
  BY DEF RunnerInv
<1> QED BY <1>1, RunnerSafe, PTL

\* Nothing runs in a replica whose Close has returned.
THEOREM QuietAfterClose == RunnerSpec => []ClosedIsQuiet
<1>1. RunnerInv => ClosedIsQuiet
  BY DEF RunnerInv
<1> QED BY <1>1, RunnerSafe, PTL

=============================================================================
