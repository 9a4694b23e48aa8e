----------------------------- MODULE Kynx_proof -----------------------------
(***************************************************************************)
(* Proofs about Kynx: the pressure tiers and the leases, for every pool,   *)
(* every number of workers and of concurrent updates; the token buckets of *)
(* a route and of the addresses, for every rate, burst and window.         *)
(***************************************************************************)
EXTENDS KynxTiers, KynxAdmission, KynxRoute, Lemmas

(* The levels are ordered whatever the configured pool, as the comment on  *)
(* kynx_pool_thresholds says ("tiny pools clamp ... so tiers stay          *)
(* ordered").                                                              *)
LEMMA LevelsOrdered ==
  /\ Shaped \in Nat /\ Guarded \in Nat /\ Siege \in Nat
  /\ 1 <= Shaped /\ Shaped < Guarded /\ Guarded < Siege
BY LeasesAssumption DEF Shaped, Guarded, Siege, Pool

(* A tier is entered from above its level or from the tier above it. *)
LEMMA NextTierAllowed ==
  ASSUME NEW tier \in Tiers, NEW n \in Int, NEW top \in Int, n <= top,
         tier = "GUARDED" => top > Guarded,
         tier = "SIEGE" => top > Siege
  PROVE  /\ NextTier(tier, n) \in Tiers
         /\ NextTier(tier, n) = "GUARDED" => top > Guarded
         /\ NextTier(tier, n) = "SIEGE" => top > Siege
<1>1. CASE tier = "STABLE"
  BY <1>1 DEF NextTier, Tiers
<1>2. CASE tier = "SHAPED"
  BY <1>2, LevelsOrdered DEF NextTier, Tiers
<1>3. CASE tier = "GUARDED"
  BY <1>3, LevelsOrdered DEF NextTier, Tiers
<1>4. CASE tier = "SIEGE"
  BY <1>4, LevelsOrdered DEF NextTier, Tiers
<1> QED
  BY <1>1, <1>2, <1>3, <1>4 DEF Tiers

(* The movers at work, and those creating, are finite sets. *)
LEMMA MoversFinite ==
  /\ IsFiniteSet(Busy) /\ IsFiniteSet(Creating)
  /\ Cardinality(Busy) \in Nat /\ Cardinality(Creating) \in Nat
  /\ Cardinality(Creating) <= Cardinality(Busy)
<1>1. Busy \subseteq Movers /\ Creating \subseteq Busy
  BY DEF Busy, Creating
<1>2. IsFiniteSet(Busy)
  BY <1>1, FS_Subset, LeasesAssumption
<1> QED
  BY <1>1, <1>2, FS_Subset, FS_CardinalityType

(* A mover that starts joins the busy ones, and the creating ones when it  *)
(* creates.                                                                *)
LEMMA MoverStarts ==
  ASSUME TypeOK, NEW m \in Movers, pc[m] = "idle",
         NEW kind \in {"create", "destroy"}, op' = [op EXCEPT ![m] = kind],
         pc' = [pc EXCEPT ![m] = "active"]
  PROVE  /\ Cardinality(Busy') = Cardinality(Busy) + 1
         /\ kind = "create" => Cardinality(Creating') = Cardinality(Creating) + 1
         /\ kind = "destroy" => Cardinality(Creating') = Cardinality(Creating)
<1>1. m \notin Busy /\ m \notin Creating
  BY DEF Busy, Creating
<1>2. Busy' = Busy \cup {m}
  BY DEF Busy, TypeOK
<1>3. Creating' = IF kind = "create" THEN Creating \cup {m} ELSE Creating
  BY DEF Creating, TypeOK
<1>4. Cardinality(Busy \cup {m}) = Cardinality(Busy) + 1
  BY <1>1, MoversFinite, FS_AddElement
<1>5. Cardinality(Creating \cup {m}) = Cardinality(Creating) + 1
  BY <1>1, MoversFinite, FS_AddElement
<1> QED
  BY <1>2, <1>3, <1>4, <1>5, MoversFinite

(* A mover that ends leaves both. *)
LEMMA MoverEnds ==
  ASSUME TypeOK, NEW m \in Movers, pc[m] # "idle", op' = op,
         pc' = [pc EXCEPT ![m] = "idle"]
  PROVE  /\ Cardinality(Busy') = Cardinality(Busy) - 1
         /\ Cardinality(Busy') \in Nat
         /\ op[m] = "create" => Cardinality(Creating') = Cardinality(Creating) - 1
         /\ op[m] = "destroy" => Cardinality(Creating') = Cardinality(Creating)
<1>1. m \in Busy /\ (m \in Creating <=> op[m] = "create")
  BY DEF Busy, Creating
<1>2. Busy' = Busy \ {m}
  BY DEF Busy, TypeOK
<1>3. Creating' = Creating \ {m}
  BY DEF Creating, TypeOK
<1>4. Cardinality(Busy \ {m}) = Cardinality(Busy) - 1 /\ Cardinality(Busy \ {m}) \in Nat
  BY <1>1, MoversFinite, FS_RemoveElement, FS_CardinalityType
<1>5. CASE op[m] = "create"
  <2>1. Cardinality(Creating \ {m}) = Cardinality(Creating) - 1
    BY <1>1, <1>5, MoversFinite, FS_RemoveElement
  <2> QED
    BY <1>2, <1>3, <1>4, <1>5, <2>1
<1>6. CASE op[m] # "create"
  <2>1. Creating \ {m} = Creating
    BY <1>1, <1>6
  <2> QED
    BY <1>2, <1>3, <1>4, <1>6, <2>1, MoversFinite
<1> QED
  BY <1>5, <1>6

(* A mover that goes on stays where it is. *)
LEMMA MoverGoesOn ==
  ASSUME TypeOK, NEW m \in Movers, pc[m] # "idle", op' = op,
         NEW next, next # "idle", pc' = [pc EXCEPT ![m] = next]
  PROVE  Busy' = Busy /\ Creating' = Creating
BY DEF Busy, Creating, TypeOK

(* The counter never shows more leases than there are workers and losses. *)
LEMMA ActiveBounded ==
  ASSUME LeasesInv
  PROVE  active <= NumWorkers + lost
BY MoversFinite, LeasesAssumption DEF LeasesInv, ActiveExact, TypeOK

(* No lease and no update under way. *)
LEMMA LeasesInit == Init => LeasesInv
<1> SUFFICES ASSUME Init PROVE LeasesInv
  OBVIOUS
<1>1. Busy = {} /\ Creating = {}
  BY DEF Init, Busy, Creating
<1>2. TypeOK
  <2>1. siegeFlag \in BOOLEAN
    BY Zenon DEF Init
  <2>2. pc \in [Movers -> {"idle", "active", "state", "compare", "store", "flag", "end"}]
    BY DEF Init
  <2>3. op \in [Movers -> {"create", "destroy"}] /\ seen \in [Movers -> Int]
    BY DEF Init
  <2>4. seenState \in [Movers -> Tiers] /\ state \in Tiers
    BY DEF Init, Tiers
  <2>5. active \in Int /\ parked \in 0 .. NumWorkers /\ lost \in 0 .. MaxLost
    BY LeasesAssumption DEF Init
  <2> QED
    BY <2>1, <2>2, <2>3, <2>4, <2>5 DEF TypeOK
<1> QED
  BY <1>1, <1>2, FS_EmptySet, LeasesAssumption
     DEF Init, LeasesInv, ActiveExact, TierNeedsLeases, TierAllowed

(* Every atomic access of an update keeps the invariant. *)
LEMMA LeasesStep == LeasesInv /\ [Next]_vars => LeasesInv'
<1> SUFFICES ASSUME LeasesInv, [Next]_vars PROVE LeasesInv'
  OBVIOUS
<1> USE LeasesAssumption, MoversFinite
<1>1. ASSUME NEW m \in Movers, StartCreate(m) PROVE LeasesInv'
  <2>1. /\ Cardinality(Busy') = Cardinality(Busy) + 1
        /\ Cardinality(Creating') = Cardinality(Creating) + 1
    BY <1>1, MoverStarts DEF StartCreate, LeasesInv
  <2> QED
    BY <1>1, <2>1 DEF StartCreate, LeasesInv, TypeOK, ActiveExact, TierNeedsLeases, TierAllowed
<1>2. ASSUME NEW m \in Movers, StartDestroy(m) PROVE LeasesInv'
  <2>1. /\ Cardinality(Busy') = Cardinality(Busy) + 1
        /\ Cardinality(Creating') = Cardinality(Creating)
    <3>1. op' = [op EXCEPT ![m] = "destroy"] /\ pc' = [pc EXCEPT ![m] = "active"] /\ pc[m] = "idle"
      BY <1>2 DEF StartDestroy
    <3> QED
      BY <3>1, MoverStarts DEF LeasesInv
  <2> QED
    BY <1>2, <2>1 DEF StartDestroy, LeasesInv, TypeOK, ActiveExact, TierNeedsLeases, TierAllowed
<1>3. ASSUME NEW m \in Movers, LoadActive(m) PROVE LeasesInv'
  <2>1. Busy' = Busy /\ Creating' = Creating
    BY <1>3, MoverGoesOn DEF LoadActive, LeasesInv
  <2> QED
    BY <1>3, <2>1, ActiveBounded
       DEF LoadActive, LeasesInv, TypeOK, ActiveExact, TierNeedsLeases, TierAllowed
<1>4. ASSUME NEW m \in Movers, LoadState(m) PROVE LeasesInv'
  <2>1. Busy' = Busy /\ Creating' = Creating
    BY <1>4, MoverGoesOn DEF LoadState, LeasesInv
  <2>2. /\ NextTier(state, seen[m]) \in Tiers
        /\ NextTier(state, seen[m]) = "GUARDED" => NumWorkers + lost > Guarded
        /\ NextTier(state, seen[m]) = "SIEGE" => NumWorkers + lost > Siege
    BY NextTierAllowed DEF LeasesInv, TypeOK, TierNeedsLeases, TierAllowed
  <2> QED
    BY <1>4, <2>1, <2>2
       DEF LoadState, LeasesInv, TypeOK, ActiveExact, TierNeedsLeases, TierAllowed
<1>5. ASSUME NEW m \in Movers, Compare(m) PROVE LeasesInv'
  <2>1. Busy' = Busy /\ Creating' = Creating
    BY <1>5, MoverGoesOn DEF Compare, LeasesInv
  <2> QED
    BY <1>5, <2>1 DEF Compare, LeasesInv, TypeOK, ActiveExact, TierNeedsLeases, TierAllowed
<1>6. ASSUME NEW m \in Movers, StoreState(m) PROVE LeasesInv'
  <2>1. Busy' = Busy /\ Creating' = Creating
    BY <1>6, MoverGoesOn DEF StoreState, LeasesInv
  <2> QED
    BY <1>6, <2>1 DEF StoreState, LeasesInv, TypeOK, ActiveExact, TierNeedsLeases, TierAllowed
<1>7. ASSUME NEW m \in Movers, StoreFlag(m) PROVE LeasesInv'
  <2>1. Busy' = Busy /\ Creating' = Creating
    BY <1>7, MoverGoesOn DEF StoreFlag, LeasesInv
  <2> QED
    BY <1>7, <2>1 DEF StoreFlag, LeasesInv, TypeOK, ActiveExact, TierNeedsLeases, TierAllowed
<1>8. ASSUME NEW m \in Movers, Grant(m) PROVE LeasesInv'
  <2>1. /\ Cardinality(Busy') = Cardinality(Busy) - 1 /\ Cardinality(Busy') \in Nat
        /\ Cardinality(Creating') = Cardinality(Creating) - 1
    BY <1>8, MoverEnds DEF Grant, LeasesInv
  <2> QED
    BY <1>8, <2>1 DEF Grant, LeasesInv, TypeOK, ActiveExact, TierNeedsLeases, TierAllowed
<1>9. ASSUME NEW m \in Movers, GrantRefused(m) PROVE LeasesInv'
  <2>1. /\ Cardinality(Busy') = Cardinality(Busy) - 1 /\ Cardinality(Busy') \in Nat
        /\ Cardinality(Creating') = Cardinality(Creating) - 1
    BY <1>9, MoverEnds DEF GrantRefused, LeasesInv
  <2>2. TypeOK' /\ ActiveExact' /\ (parked + Cardinality(Busy) <= NumWorkers)'
    BY <1>9, <2>1 DEF GrantRefused, LeasesInv, TypeOK, ActiveExact
  <2>3. TierNeedsLeases' /\ \A n \in Movers : (seen[n] <= NumWorkers + lost)' /\ TierAllowed(seenState[n])'
    BY <1>9, LevelsOrdered DEF GrantRefused, LeasesInv, TypeOK, TierNeedsLeases, TierAllowed
  <2> QED
    BY <2>2, <2>3 DEF LeasesInv
<1>10. ASSUME NEW m \in Movers, Returned(m) PROVE LeasesInv'
  <2>1. /\ Cardinality(Busy') = Cardinality(Busy) - 1 /\ Cardinality(Busy') \in Nat
        /\ Cardinality(Creating') = Cardinality(Creating)
    BY <1>10, MoverEnds DEF Returned, LeasesInv
  <2> QED
    BY <1>10, <2>1 DEF Returned, LeasesInv, TypeOK, ActiveExact, TierNeedsLeases, TierAllowed
<1>11. CASE UNCHANGED vars
  <2>1. Busy' = Busy /\ Creating' = Creating
    BY <1>11 DEF vars, moverVars, Busy, Creating
  <2> QED
    BY <1>11, <2>1 DEF vars, moverVars, LeasesInv, TypeOK, ActiveExact, TierNeedsLeases, TierAllowed
<1> QED
  BY <1>1, <1>2, <1>3, <1>4, <1>5, <1>6, <1>7, <1>8, <1>9, <1>10, <1>11 DEF Next, Step

(* The lease counter stays exact and the tiers stay within what the        *)
(* workers can hold, however the updates of kynx_update_admission_state    *)
(* interleave.                                                             *)
THEOREM LeasesInvariant == Spec => []LeasesInv
<1> QED
  BY LeasesInit, LeasesStep, PTL DEF Spec

(* GUARDED and SIEGE need more workers (and lost leases) than their level. *)
THEOREM TiersNeedLeases == Spec => []TierNeedsLeases
<1>1. LeasesInv => TierNeedsLeases
  BY DEF LeasesInv
<1> QED
  BY <1>1, LeasesInvariant, PTL

(* With the generated defaults, a pool of 512 and at most 64 workers, and  *)
(* no more than 64 leases lost to refused allocations, the tier is STABLE  *)
(* or SHAPED for ever: the budgets of GUARDED and SIEGE are never applied. *)
THEOREM GeneratedServersStayShaped ==
  ASSUME PoolSize = 512, NumWorkers <= 64, MaxLost <= 64
  PROVE  Spec => [](state \in {"STABLE", "SHAPED"})
<1>1. Guarded = 128 /\ Siege = 512
  BY DEF Guarded, Siege, Pool, Shaped
<1>2. LeasesInv => state \in {"STABLE", "SHAPED"}
  BY <1>1, LeasesAssumption DEF LeasesInv, TypeOK, TierNeedsLeases, TierAllowed, Tiers
<1> QED
  BY <1>2, LeasesInvariant, PTL

-----------------------------------------------------------------------------
(* The release levels are ordered too. *)
LEMMA ReleasesOrdered ==
  /\ Release(Shaped) \in Nat /\ Release(Guarded) \in Nat /\ Release(Siege) \in Nat
  /\ Release(Shaped) < Release(Guarded) /\ Release(Guarded) < Release(Siege)
  /\ Release(Shaped) < Shaped /\ Release(Guarded) < Guarded /\ Release(Siege) < Siege
<1> USE LeasesAssumption
<1>1. Pool \in Nat /\ Pool >= 16 BY DEF Pool
<1>2. Shaped = Pool \div 16 /\ Guarded = Pool \div 4 /\ Siege = Pool
  BY <1>1 DEF Shaped, Guarded, Siege
<1> QED BY <1>1, <1>2 DEF Release

(* How far k undisturbed updates have brought tier s to n active leases:   *)
(* to its neighbours, to the right half, to the band.                      *)
Near(k, s, n) ==
  /\ k >= 1 => (n > Shaped => s # "STABLE") /\ (n <= Release(Siege) => s # "SIEGE")
  /\ k >= 2 => (n > Guarded => s \in {"GUARDED", "SIEGE"})
               /\ (n <= Release(Guarded) => s \in {"STABLE", "SHAPED"})
  /\ k >= 3 => (n > Siege => s = "SIEGE") /\ (n <= Release(Shaped) => s = "STABLE")

(* The same of a tier that the k-th update has not recomputed yet. *)
Before(k, s, n) ==
  /\ k >= 2 => (n > Guarded => s # "STABLE") /\ (n <= Release(Guarded) => s # "SIEGE")
  /\ k >= 3 => (n > Siege => s \in {"GUARDED", "SIEGE"})
               /\ (n <= Release(Shaped) => s \in {"STABLE", "SHAPED"})

(* One lease more or less: the next update has the last one's work. *)
LEMMA NextUpdate ==
  ASSUME NEW k \in 0 .. 3, NEW s \in Tiers, NEW n \in Int, NEW m \in {n - 1, n + 1}, Near(k, s, n)
  PROVE  Before(k + 1, s, m) /\ Before(k, s, m)
BY LevelsOrdered, ReleasesOrdered DEF Near, Before, Tiers

(* An update that nobody disturbs brings the tier a step nearer. *)
LEMMA UpdateNears ==
  ASSUME NEW k \in 0 .. 3, NEW s \in Tiers, NEW n \in Int, Before(k, s, n)
  PROVE  NextTier(s, n) \in Tiers /\ Near(k, NextTier(s, n), n)
<1> USE LevelsOrdered, ReleasesOrdered DEF Near, Before, NextTier
<1>1. CASE s = "STABLE" BY <1>1 DEF Tiers
<1>2. CASE s = "SHAPED" BY <1>2 DEF Tiers
<1>3. CASE s = "GUARDED" BY <1>3 DEF Tiers
<1>4. CASE s = "SIEGE" BY <1>4 DEF Tiers
<1> QED BY <1>1, <1>2, <1>3, <1>4 DEF Tiers

(* After three it is in its band. *)
LEMMA NearIsBand == ASSUME TypeOK, Near(3, state, active) PROVE InBand
BY LevelsOrdered, ReleasesOrdered DEF TypeOK, Tiers, Near, InBand

(* Where an undisturbed update is. *)
Place(m) ==
  /\ pc[m] = "active" => Before(alone, state, active)
  /\ pc[m] = "state" => seen[m] = active /\ Before(alone, state, active)
  /\ pc[m] \in {"compare", "store"} => Near(alone, seenState[m], active)
  /\ pc[m] = "flag" => state = seenState[m] /\ Near(alone, seenState[m], active)
  /\ pc[m] = "end" => Near(alone, state, active)

(* At most one update is under way, and it is where the number of updates  *)
(* that nobody disturbed says; the flag agrees with the tier, except       *)
(* between the two stores of the one update, unless two have raced.        *)
OneBusy == \A m, n \in Busy : m = n
Undisturbed ==
  alone >= 1 => /\ OneBusy
                /\ Busy = {} => Near(alone, state, active)
                /\ \A m \in Busy : Place(m)
FlagAgrees ==
  ~raced => /\ OneBusy
            /\ \A m \in Movers : pc[m] = "flag" => state = seenState[m]
            /\ (\A m \in Movers : pc[m] # "flag") => (siegeFlag <=> state = "SIEGE")
TiersInductive == raced \in BOOLEAN /\ alone \in 0 .. 3 /\ Undisturbed /\ FlagAgrees

(* No lease and no update: the first tier, the flag down.                  *)
LEMMA TiersInitInductive == TiersInit => TiersInductive
<1> SUFFICES ASSUME TiersInit PROVE TiersInductive OBVIOUS
<1>1. Busy = {} BY DEF TiersInit, Init, Busy
<1>2. Near(alone, state, active)
  BY LevelsOrdered, ReleasesOrdered DEF TiersInit, Init, Near
<1>3. raced \in BOOLEAN BY Zenon DEF TiersInit
<1>4. alone \in 0 .. 3 BY DEF TiersInit
<1>5. FlagAgrees BY <1>1, Zenon DEF FlagAgrees, TiersInit, Init, OneBusy
<1> QED BY <1>1, <1>2, <1>3, <1>4, <1>5 DEF TiersInductive, Undisturbed, OneBusy

(* A lease is counted or given back: the update begins. *)
LEMMA StartInductive ==
  ASSUME TypeOK, TiersInductive, History, NEW m \in Movers, pc[m] = "idle",
         NEW kind \in {"create", "destroy"}, op' = [op EXCEPT ![m] = kind],
         pc' = [pc EXCEPT ![m] = "active"], active' \in {active - 1, active + 1},
         UNCHANGED <<state, siegeFlag, seen, seenState>>
  PROVE  TiersInductive'
<1>1. Starts
  <2>1. Cardinality(Busy') = Cardinality(Busy) + 1 BY MoverStarts
  <2> QED BY <2>1, MoversFinite DEF Starts
<1>2. Busy' = Busy \cup {m} BY DEF Busy, TypeOK
<1>3. CASE Busy # {}
  <2>1. raced' = TRUE /\ alone' = 0 BY <1>1, <1>3 DEF History, Overlaps
  <2> QED BY <2>1 DEF TiersInductive, Undisturbed, FlagAgrees
<1>4. CASE Busy = {}
  <2>1. raced' = raced /\ alone' = IF alone < 3 THEN alone + 1 ELSE alone
    BY <1>1, <1>4 DEF History, Overlaps, TiersInductive
  <2>2. alone \in 0 .. 3 /\ alone' \in 0 .. 3 BY <2>1 DEF TiersInductive
  <2>3. Busy' = {m} BY <1>2, <1>4
  <2>4. Near(alone, state, active)
    BY <1>4, <2>2 DEF TiersInductive, Undisturbed, Near
  <2>5. Before(alone + 1, state, active') /\ Before(alone, state, active')
    BY <2>2, <2>4, NextUpdate DEF TypeOK
  <2>6. Before(alone', state, active') BY <2>1, <2>2, <2>5
  <2>7. Undisturbed'
    BY <2>3, <2>6 DEF Undisturbed, OneBusy, Place, TypeOK
  <2>8. FlagAgrees'
    <3>1. \A n \in Movers : pc[n] # "flag" BY <1>4 DEF Busy
    <3>2. \A n \in Movers : pc'[n] # "flag" BY <3>1 DEF TypeOK
    <3>3. OneBusy' BY <2>3 DEF OneBusy
    <3> QED BY <2>1, <3>1, <3>2, <3>3 DEF TiersInductive, FlagAgrees
  <2> QED BY <2>1, <2>2, <2>7, <2>8 DEF TiersInductive
<1> QED BY <1>3, <1>4

(* Steps that do not start an update leave the history alone. *)
LEMMA HistoryStays ==
  ASSUME TypeOK, TiersInductive, History, Cardinality(Busy') <= Cardinality(Busy),
         Cardinality(Busy') \in Nat
  PROVE  raced' = raced /\ alone' = alone
BY MoversFinite DEF History, Overlaps, Starts, TiersInductive

(* An update goes on. *)
LEMMA GoesOnInductive ==
  ASSUME TypeOK, TiersInductive, History, NEW m \in Movers,
         LoadActive(m) \/ LoadState(m) \/ Compare(m) \/ StoreState(m) \/ StoreFlag(m)
  PROVE  TiersInductive'
<1>1. /\ pc[m] # "idle" /\ op' = op /\ active' = active
      /\ \E next \in {"state", "end", "compare", "store", "flag"} : pc' = [pc EXCEPT ![m] = next]
  BY DEF LoadActive, LoadState, Compare, StoreState, StoreFlag
<1>2. Busy' = Busy BY <1>1, MoverGoesOn
<1>3. raced' = raced /\ alone' = alone BY <1>2, HistoryStays, MoversFinite
<1>4. alone \in 0 .. 3 /\ m \in Busy BY <1>1 DEF TiersInductive, Busy
<1>5. alone >= 1 => Place(m)'
  <2> SUFFICES ASSUME alone >= 1 PROVE Place(m)' OBVIOUS
  <2>1. Place(m) BY <1>4 DEF TiersInductive, Undisturbed
  <2>2. CASE LoadActive(m) BY <1>3, <2>1, <2>2 DEF LoadActive, Place, TypeOK
  <2>3. CASE LoadState(m)
    <3>1. Near(alone, NextTier(state, active), active)
      BY <1>4, <2>1, <2>3, UpdateNears DEF LoadState, Place, TypeOK
    <3>2. seen[m] = active BY <2>1, <2>3 DEF LoadState, Place
    <3> QED BY <1>3, <2>3, <3>1, <3>2 DEF LoadState, Place, TypeOK
  <2>4. CASE Compare(m) BY <1>3, <2>1, <2>4 DEF Compare, Place, TypeOK
  <2>5. CASE StoreState(m) BY <1>3, <2>1, <2>5 DEF StoreState, Place, TypeOK
  <2>6. CASE StoreFlag(m) BY <1>3, <2>1, <2>6 DEF StoreFlag, Place, TypeOK
  <2> QED BY <2>2, <2>3, <2>4, <2>5, <2>6
<1>6. Undisturbed'
  BY <1>2, <1>3, <1>4, <1>5 DEF TiersInductive, Undisturbed, OneBusy
<1>7. FlagAgrees'
  <2> SUFFICES ASSUME ~raced PROVE FlagAgrees' BY <1>3 DEF FlagAgrees
  <2>1. OneBusy /\ OneBusy' BY <1>2 DEF TiersInductive, FlagAgrees, OneBusy
  <2>2. \A n \in Movers : n # m => pc[n] = "idle" /\ pc'[n] = "idle"
    <3>1. \A n \in Movers : n # m => pc[n] = "idle" BY <1>4, <2>1 DEF OneBusy, Busy
    <3> QED BY <1>1, <3>1 DEF TypeOK
  <2>3. /\ \A n \in Movers : pc[n] = "flag" => state = seenState[n]
        /\ (\A n \in Movers : pc[n] # "flag") => (siegeFlag <=> state = "SIEGE")
    BY DEF TiersInductive, FlagAgrees
  <2>4. pc[m] # "flag" => (siegeFlag <=> state = "SIEGE") BY <2>2, <2>3
  <2>5. /\ pc'[m] = "flag" => state' = seenState'[m]
        /\ pc'[m] # "flag" => (siegeFlag' <=> state' = "SIEGE")
    <3>1. CASE LoadActive(m) \/ LoadState(m) \/ Compare(m)
      <4>1. pc[m] # "flag" /\ pc'[m] # "flag" /\ UNCHANGED <<state, siegeFlag>>
        BY <3>1 DEF LoadActive, LoadState, Compare, TypeOK
      <4> QED BY <2>4, <4>1
    <3>2. CASE StoreState(m)
      <4>1. pc'[m] = "flag" /\ state' = seenState'[m] BY <3>2 DEF StoreState, TypeOK
      <4> QED BY <4>1
    <3>3. CASE StoreFlag(m)
      <4>1. pc[m] = "flag" /\ pc'[m] = "end" /\ state' = state /\ siegeFlag' = (seenState[m] = "SIEGE")
        BY <3>3 DEF StoreFlag, TypeOK
      <4> QED BY <2>3, <4>1, Zenon
    <3> QED BY <3>1, <3>2, <3>3
  <2> QED BY <2>1, <2>2, <2>5 DEF FlagAgrees
<1> QED BY <1>3, <1>6, <1>7 DEF TiersInductive

(* An update ends. *)
LEMMA EndInductive ==
  ASSUME TypeOK, TiersInductive, History, NEW m \in Movers,
         Grant(m) \/ GrantRefused(m) \/ Returned(m)
  PROVE  TiersInductive'
<1>1. /\ pc[m] = "end" /\ pc' = [pc EXCEPT ![m] = "idle"]
      /\ UNCHANGED <<op, active, state, siegeFlag, seen, seenState>>
  BY DEF Grant, GrantRefused, Returned
<1>2. Cardinality(Busy') = Cardinality(Busy) - 1 /\ Cardinality(Busy') \in Nat
  BY <1>1, MoverEnds
<1>3. raced' = raced /\ alone' = alone BY <1>2, HistoryStays, MoversFinite
<1>4. Busy' = Busy \ {m} /\ m \in Busy BY <1>1 DEF Busy, TypeOK
<1>5. Undisturbed'
  BY <1>1, <1>3, <1>4 DEF TiersInductive, Undisturbed, OneBusy, Place
<1>6. FlagAgrees'
  <2>1. \A n \in Movers : (pc'[n] = "flag") = (pc[n] = "flag") BY <1>1 DEF TypeOK
  <2>2. OneBusy => OneBusy' BY <1>4 DEF OneBusy
  <2> QED BY <1>1, <1>3, <2>1, <2>2 DEF TiersInductive, FlagAgrees
<1> QED BY <1>3, <1>5, <1>6 DEF TiersInductive

(* Every step of an update keeps it: one that begins while another is      *)
(* under way resets the count, one that ends alone adds to it.             *)
LEMMA TiersNextInductive ==
  ASSUME LeasesInv, TiersInductive, [TiersNext]_tiersVars
  PROVE  TiersInductive'
<1>0. TypeOK BY DEF LeasesInv
<1>1. CASE UNCHANGED tiersVars
  BY <1>1 DEF tiersVars, vars, moverVars, TiersInductive, Undisturbed, FlagAgrees, OneBusy, Busy, Place
<1>2. CASE TiersNext
  <2>1. PICK m \in Movers : Step(m) BY <1>2 DEF TiersNext, Next
  <2>2. History BY <1>2 DEF TiersNext
  <2>3. CASE StartCreate(m) \/ StartDestroy(m)
    <3>1. /\ pc[m] = "idle" /\ pc' = [pc EXCEPT ![m] = "active"] /\ active' \in {active - 1, active + 1}
          /\ \E kind \in {"create", "destroy"} : op' = [op EXCEPT ![m] = kind]
          /\ UNCHANGED <<state, siegeFlag, seen, seenState>>
      BY <2>3 DEF StartCreate, StartDestroy
    <3> QED BY <1>0, <2>2, <3>1, StartInductive
  <2>4. CASE LoadActive(m) \/ LoadState(m) \/ Compare(m) \/ StoreState(m) \/ StoreFlag(m)
    BY <1>0, <2>2, <2>4, GoesOnInductive
  <2>5. CASE Grant(m) \/ GrantRefused(m) \/ Returned(m)
    BY <1>0, <2>2, <2>5, EndInductive
  <2> QED BY <2>1, <2>3, <2>4, <2>5 DEF Step
<1> QED BY <1>1, <1>2

(* QuiescentTier in every reachable state: whatever two racing updates of  *)
(* the tier in kynx_update_admission_state left behind, three updates that *)
(* nobody disturbs put it into the band of the number of active leases,    *)
(* and without a race of the two stores the siege flag says what the tier  *)
(* is.                                                                     *)
THEOREM TierComesRight == TiersSpec => []QuiescentTier
<1>1. TiersInit => Init BY DEF TiersInit
<1>2. [TiersNext]_tiersVars => [Next]_vars BY DEF TiersNext, tiersVars
<1>3. TiersSpec => []LeasesInv BY <1>1, <1>2, LeasesInit, LeasesStep, PTL DEF TiersSpec
<1>4. TiersSpec => []TiersInductive
  BY <1>3, TiersInitInductive, TiersNextInductive, PTL DEF TiersSpec
<1>5. LeasesInv /\ TiersInductive => QuiescentTier
  <2> SUFFICES ASSUME LeasesInv, TiersInductive, Busy = {}
               PROVE  (alone = 3 => InBand) /\ (~raced => (siegeFlag <=> state = "SIEGE"))
    BY DEF QuiescentTier, Quiescent
  <2>1. alone = 3 => InBand
    BY NearIsBand DEF LeasesInv, TiersInductive, Undisturbed
  <2>2. \A m \in Movers : pc[m] # "flag" BY DEF Busy
  <2> QED BY <2>1, <2>2 DEF TiersInductive, FlagAgrees
<1> QED BY <1>3, <1>4, <1>5, PTL

-----------------------------------------------------------------------------
(* What a refill adds is no more than the rate allows for the time, and no *)
(* less than whole tk of it as long as the product does not wrap.      *)
LEMMA GainedBounds ==
  ASSUME NEW el \in Nat, NEW rate \in Nat \ {0}, NEW win \in Nat \ {0}
  PROVE  /\ Gained(el, rate, win) \in Nat
         /\ Gained(el, rate, win) * (win * NsPerMs) <= el * (rate * Milli)
         /\ \A q \in Nat :
              /\ 10 * win * NsPerMs * rate * Milli < Word
              /\ q * (win * NsPerMs) <= el * (rate * Milli)
              /\ q * (win * NsPerMs) <= 10 * win * NsPerMs * rate * Milli
              => q <= Gained(el, rate, win)
<1> USE BucketAssumption
<1> DEFINE n == win * NsPerMs
           m == rate * Milli
           top == 10 * win * NsPerMs
           s == Smaller(el, top)
           x == s * rate * Milli
<1>1. n \in Nat \ {0} /\ m \in Nat \ {0} /\ top \in Nat OBVIOUS
<1>2. s \in Nat /\ s <= el /\ s <= top /\ (s = el \/ s = top) BY <1>1 DEF Smaller
<1>3. x = s * m /\ top * rate * Milli = top * m BY <1>1, <1>2
<1>4. Gained(el, rate, win) = (x % Word) \div n BY DEF Gained
<1> HIDE DEF n, m, top, s, x
<1>5. x \in Nat /\ x <= el * m /\ el * m \in Nat BY <1>1, <1>2, <1>3, TimesMonotone
<1>6. x % Word \in Nat /\ x % Word <= x
  <2>1. x % Word \in 0 .. Word - 1 BY <1>5
  <2>2. CASE x < Word
    <3>1. x % Word = x BY <1>5, <2>2
    <3> QED BY <1>5, <3>1
  <2>3. CASE x >= Word BY <1>5, <2>1, <2>3
  <2> QED BY <1>5, <2>2, <2>3
<1>7. /\ (x % Word) \div n \in Nat /\ ((x % Word) \div n) * n <= x % Word
      /\ \A q \in Nat : q * n <= x % Word => q <= (x % Word) \div n
  BY <1>1, <1>6, QuotientIs
<1>8. Gained(el, rate, win) \in Nat /\ Gained(el, rate, win) * n <= el * m
  <2>1. ((x % Word) \div n) * n \in Nat BY <1>1, <1>7
  <2> QED BY <1>4, <1>5, <1>6, <1>7, <2>1
<1>9. ASSUME NEW q \in Nat, top * m < Word, q * n <= el * m, q * n <= top * m
      PROVE  q <= Gained(el, rate, win)
  <2>1. q * n <= x BY <1>2, <1>3, <1>9
  <2>2. x <= top * m /\ top * m \in Nat BY <1>1, <1>2, <1>3, TimesMonotone
  <2>3. x % Word = x BY <1>5, <1>9, <2>2
  <2> QED BY <1>4, <1>7, <2>1, <2>3
<1> QED BY <1>3, <1>8, <1>9 DEF n, m, top

(* The time since an earlier moment. *)
LEMMA SinceIs ==
  ASSUME NEW time \in Nat, NEW then \in Nat, then <= time, time < Word
  PROVE  Since(time, then) = time - then
<1>1. Word \in Nat \ {0} BY BucketAssumption
<1>2. Word + time - then \in Nat /\ time - then \in 0 .. Word - 1 BY <1>1
<1>3. Word + time - then = 1 * Word + (time - then) BY <1>1
<1>4. (Word + time - then) % Word = time - then BY <1>1, <1>2, <1>3, RemainderIs
<1> QED BY <1>4 DEF Since

(* A refill keeps the bucket within its capacity, or within what was in    *)
(* it, and adds no more than the rate allows for the time since the last.  *)
LEMMA RefillBounds ==
  ASSUME NEW tk \in Nat, NEW from \in Nat, NEW time \in Nat,
         NEW rate \in Nat \ {0}, NEW win \in Nat \ {0}, NEW cap \in Nat
  PROVE  LET r == Refill(tk, from, time, rate, win, cap)
         IN  /\ r \in Nat
             /\ tk <= cap => tk <= r /\ r <= cap
             /\ r <= cap \/ r = tk
             /\ from <= time =>
                  r * (win * NsPerMs) <= tk * (win * NsPerMs) + (time - from) * (rate * Milli)
<1> USE BucketAssumption
<1> DEFINE r == Refill(tk, from, time, rate, win, cap)
           n == win * NsPerMs
           m == rate * Milli
           g == Gained(time - from, rate, win)
<1>1. n \in Nat \ {0} /\ m \in Nat \ {0} OBVIOUS
<1>2. CASE from = 0 \/ time <= from
  <2>1. r = tk BY <1>2 DEF Refill
  <2> HIDE DEF n, m, r
  <2>2. r * n \in Nat BY <1>1, <2>1
  <2>3. from <= time => (time - from) * m \in Nat
    <3>1. from <= time => time - from \in Nat OBVIOUS
    <3> QED BY <1>1, <3>1
  <2>4. from <= time => r * n <= tk * n + (time - from) * m BY <2>1, <2>2, <2>3
  <2> QED BY <2>1, <2>4 DEF r, n, m
<1>3. CASE ~(from = 0 \/ time <= from)
  <2>1. time - from \in Nat BY <1>3
  <2>2. g \in Nat /\ g * n <= (time - from) * m BY <2>1, GainedBounds
  <2>3. r = Smaller(tk + g, cap) BY <1>3 DEF Refill
  <2> HIDE DEF g, n, m, r
  <2>4. r \in Nat /\ r <= tk + g /\ r <= cap BY <2>2, <2>3 DEF Smaller
  <2>5. tk <= cap => tk <= r BY <2>2, <2>3 DEF Smaller
  <2>6. r * n <= (tk + g) * n /\ r * n \in Nat BY <1>1, <2>2, <2>4, TimesMonotone
  <2>7. (tk + g) * n = tk * n + g * n BY <1>1, <2>2
  <2>8. tk * n \in Nat /\ g * n \in Nat /\ (time - from) * m \in Nat BY <1>1, <2>1, <2>2
  <2>9. r * n <= tk * n + (time - from) * m BY <2>2, <2>6, <2>7, <2>8
  <2> QED BY <2>4, <2>5, <2>9 DEF r, n, m
<1> QED BY <1>2, <1>3

-----------------------------------------------------------------------------
(* The product of the refill stays below the word for the ten windows it   *)
(* is capped at.                                                           *)
NoWrap == 10 * Win * NsPerMs * Rate * Milli < Word

(* A used bucket was filled at a time that is not 0, and who was denied    *)
(* last was told what is missing from a token.                             *)
Advised ==
  verdict = "deny" => used /\ tokens < Milli /\ retry = RetryMs(tokens, Rate, Win)
(* The inductive invariant of the route bucket.                            *)
RouteInductive == RouteTypeOK /\ (used => last > 0) /\ Advised

(* A bucket that was used gains q milli-tokens, or fills up, in a time     *)
(* that the rate allows them for.                                          *)
LEMMA RefillReaches ==
  ASSUME NoWrap, NEW tk \in Nat, NEW from \in Nat \ {0}, NEW el \in Nat \ {0}, NEW q \in Nat,
         q <= Rate * Milli, q * (Win * NsPerMs) <= el * (Rate * Milli)
  PROVE  Refill(tk, from, from + el, Rate, Win, RouteCap) >= Smaller(tk + q, RouteCap)
<1> USE BucketAssumption, RouteAssumption
<1> DEFINE n == Win * NsPerMs
           m == Rate * Milli
<1>1. n \in Nat \ {0} /\ m \in Nat \ {0} OBVIOUS
<1>2. 10 * Win * NsPerMs * Rate * Milli = 10 * (n * m) OBVIOUS
<1> DEFINE g == Gained(el, Rate, Win)
<1>3. q <= g /\ g \in Nat
  <2>1. /\ g \in Nat
        /\ 10 * (n * m) < Word /\ q * n <= el * m /\ q * n <= 10 * (n * m) => q <= g
    BY <1>2, GainedBounds
  <2>2. q * n <= m * n BY <1>1, TimesMonotone
  <2>3. q * n \in Nat /\ n * m \in Nat /\ m * n = n * m BY <1>1
  <2>4. q * n <= 10 * (n * m) BY <2>2, <2>3
  <2> QED BY <1>2, <2>1, <2>4 DEF NoWrap
<1>4. (from + el) - from = el /\ ~(from = 0 \/ from + el <= from) OBVIOUS
<1>5. Refill(tk, from, from + el, Rate, Win, RouteCap) = Smaller(tk + g, RouteCap)
  BY <1>4 DEF Refill
<1> HIDE DEF g, n, m
<1>6. RouteCap \in Nat BY DEF RouteCap
<1> QED BY <1>3, <1>5, <1>6 DEF Smaller

(* The advice is a time within the window. *)
LEMMA RetryBounds ==
  ASSUME NEW tk \in Nat, tk < Milli
  PROVE  /\ RetryMs(tk, Rate, Win) \in 1 .. Win
         /\ \/ RetryMs(tk, Rate, Win) = Win
            \/ (Milli - tk) * Win <= (RetryMs(tk, Rate, Win) + 1) * (Rate * Milli)
<1> USE BucketAssumption, RouteAssumption
<1> DEFINE x == (Milli - tk) * Win
           m == Rate * Milli
           ms == x \div m
           r == RetryMs(tk, Rate, Win)
<1>1. x \in Nat /\ m \in Nat \ {0} OBVIOUS
<1>2. r = IF ms < 1 THEN 1 ELSE Smaller(ms, Win) BY DEF RetryMs
<1> HIDE DEF x, m, r
<1>3. ms \in Nat /\ x < (ms + 1) * m BY <1>1, QuotientIs
<1> HIDE DEF ms
<1>4. r \in 1 .. Win /\ (r = Win \/ ms <= r) BY <1>2, <1>3 DEF Smaller
<1>5. ASSUME ms <= r PROVE x <= (r + 1) * m
  <2>1. (ms + 1) * m <= (r + 1) * m /\ (ms + 1) * m \in Nat /\ (r + 1) * m \in Nat
    <3>1. ms + 1 \in Nat /\ r + 1 \in Nat /\ ms + 1 <= r + 1 BY <1>3, <1>4, <1>5
    <3> QED BY <1>1, <3>1, TimesMonotone
  <2> QED BY <1>1, <1>3, <2>1
<1> QED BY <1>4, <1>5 DEF x, m, r

(* Who waits a millisecond longer than it was told finds a token.          *)
LEMMA AdviceSuffices ==
  ASSUME NoWrap, NEW tk \in Nat, tk < Milli, NEW from \in Nat \ {0}
  PROVE  Refill(tk, from, from + (RetryMs(tk, Rate, Win) + 1) * NsPerMs, Rate, Win, RouteCap) >= Milli
<1> USE BucketAssumption, RouteAssumption
<1> DEFINE r == RetryMs(tk, Rate, Win)
           m == Rate * Milli
           q == Milli - tk
           el == (r + 1) * NsPerMs
<1>1. r \in 1 .. Win /\ (r = Win \/ q * Win <= (r + 1) * m) BY RetryBounds
<1>2. m \in Nat \ {0} /\ Milli <= m /\ q \in Nat /\ q <= Milli
  <2>1. 1 * Milli <= Rate * Milli BY TimesMonotone
  <2> QED BY <2>1
<1> HIDE DEF r, m, q
<1>3. q * Win <= (r + 1) * m
  <2> SUFFICES ASSUME r = Win PROVE q * Win <= (r + 1) * m BY <1>1
  <2>1. q * Win <= m * Win BY <1>2, TimesMonotone
  <2>2. (Win + 1) * m = m * Win + m BY <1>2
  <2>3. q * Win \in Nat /\ m * Win \in Nat BY <1>2
  <2> QED BY <1>2, <2>1, <2>2, <2>3
<1>4. (q * Win) * NsPerMs <= ((r + 1) * m) * NsPerMs
  <2>1. q * Win \in Nat /\ (r + 1) * m \in Nat BY <1>1, <1>2
  <2> QED BY <1>3, <2>1, TimesMonotone
<1>5. (q * Win) * NsPerMs = q * (Win * NsPerMs) /\ ((r + 1) * m) * NsPerMs = el * m
  BY <1>1, <1>2
<1>6. el \in Nat \ {0} BY <1>1
<1>7. q * (Win * NsPerMs) <= el * m BY <1>4, <1>5
<1> HIDE DEF el
<1>8. Refill(tk, from, from + el, Rate, Win, RouteCap) >= Smaller(tk + q, RouteCap)
  <2>1. q <= m BY <1>2
  <2>2. q <= Rate * Milli /\ q * (Win * NsPerMs) <= el * (Rate * Milli) BY <1>7, <2>1, Zenon DEF m
  <2> QED BY <1>2, <1>6, <2>2, RefillReaches, Zenon
<1>9. Smaller(tk + q, RouteCap) = Milli
  <2>1. tk + q = Milli BY DEF q
  <2>2. RouteCap = m BY DEF m, RouteCap
  <2>3. Milli < m \/ m = Milli BY <1>2
  <2> QED BY <2>1, <2>2, <2>3 DEF Smaller
<1> QED BY <1>8, <1>9 DEF el, r

(* Capacities. *)
LEMMA RouteLimits ==
  LET top == Larger(Rate, RouteBurst) * Milli
  IN  /\ RouteBurst \in Nat \ {0} /\ RouteCap \in Nat /\ top \in Nat /\ RouteCap <= top /\ Milli <= RouteCap
      /\ (RouteBurst - 1) * Milli \in 0 .. top
<1> USE BucketAssumption, RouteAssumption
<1> DEFINE l == Larger(Rate, RouteBurst)
<1>1. RouteBurst \in Nat \ {0} BY DEF RouteBurst
<1>2. l \in Nat /\ Rate <= l /\ RouteBurst - 1 <= l /\ RouteBurst - 1 \in Nat BY <1>1 DEF Larger
<1> HIDE DEF l
<1>3. Rate * Milli <= l * Milli /\ l * Milli \in Nat /\ Rate * Milli \in Nat BY <1>2, TimesMonotone
<1>4. (RouteBurst - 1) * Milli <= l * Milli /\ (RouteBurst - 1) * Milli \in Nat
  BY <1>2, TimesMonotone
<1>5. 1 * Milli <= Rate * Milli BY TimesMonotone
<1> QED BY <1>1, <1>3, <1>4, <1>5 DEF l, RouteCap

(* The route gate starts with no bucket. *)
LEMMA RouteInitInductive == RouteInit => RouteInductive
<1> SUFFICES ASSUME RouteInit PROVE RouteInductive
  OBVIOUS
<1>1. used \in BOOLEAN /\ ~used /\ verdict # "deny" BY Zenon DEF RouteInit
<1>2. tokens \in 0 .. Larger(Rate, RouteBurst) * Milli BY RouteLimits DEF RouteInit
<1>3. now \in 1 .. MaxTime /\ last \in 0 .. MaxTime /\ readAt \in [Threads -> 0 .. MaxTime]
  BY BucketAssumption DEF RouteInit
<1>4. verdict \in {"admit", "global", "deny", "none"} /\ retry \in 0 .. Win
  BY RouteAssumption DEF RouteInit
<1> QED BY <1>1, <1>2, <1>3, <1>4 DEF RouteInductive, RouteTypeOK, Advised

(* A check leaves a bucket within its limits. *)
LEMMA CheckedTokens ==
  ASSUME RouteInductive, NEW t \in Threads
  PROVE  RefilledTo(t) \in 0 .. Larger(Rate, RouteBurst) * Milli
<1>1. tokens \in Nat /\ last \in Nat /\ readAt[t] \in Nat BY DEF RouteInductive, RouteTypeOK
<1>2. RefilledTo(t) \in Nat /\ (RefilledTo(t) <= RouteCap \/ RefilledTo(t) = tokens)
  BY <1>1, RefillBounds, RouteLimits, RouteAssumption DEF RefilledTo
<1>3. tokens <= Larger(Rate, RouteBurst) * Milli BY DEF RouteInductive, RouteTypeOK
<1> QED BY <1>2, <1>3, RouteLimits

(* Every step of the route gate keeps its bucket and its advice.           *)
LEMMA RouteNextInductive ==
  ASSUME RouteInductive, [RouteNext]_routeVars
  PROVE  RouteInductive'
<1> USE BucketAssumption, RouteAssumption DEF RouteInductive, RouteTypeOK, Advised
<1>1. CASE RouteTick
  <2>1. now' \in 1 .. MaxTime BY <1>1 DEF RouteTick
  <2>2. UNCHANGED <<used, last, tokens, readAt, verdict, retry>> BY <1>1 DEF RouteTick
  <2> HIDE DEF RouteTypeOK, Advised
  <2>3. RouteTypeOK' BY <2>1, <2>2 DEF RouteTypeOK
  <2>4. Advised' BY <2>2 DEF Advised
  <2> QED BY <2>2, <2>3, <2>4
<1>2. CASE Evict
  <2>1. 0 \in 0 .. Larger(Rate, RouteBurst) * Milli BY RouteLimits
  <2>2. 0 \in 0 .. MaxTime /\ 0 \in 0 .. Win OBVIOUS
  <2>3. verdict' # "deny" /\ verdict' \in {"admit", "global", "deny", "none"} BY <1>2 DEF Evict
  <2> QED BY <1>2, <2>1, <2>2, <2>3, Zenon DEF Evict
<1>3. ASSUME NEW t \in Threads, RouteBegin(t) PROVE RouteInductive'
  BY <1>3 DEF RouteBegin
<1>4. ASSUME NEW t \in Threads, CheckInsert(t) PROVE RouteInductive'
  BY <1>4, RouteLimits DEF CheckInsert, CheckGlobal
<1>5. ASSUME NEW t \in Threads, CheckSpend(t) PROVE RouteInductive'
  <2>1. RefilledTo(t) - Milli \in 0 .. Larger(Rate, RouteBurst) * Milli
    BY <1>5, CheckedTokens, RouteLimits DEF CheckSpend
  <2> QED BY <1>5, <2>1 DEF CheckSpend, CheckGlobal
<1>6. ASSUME NEW t \in Threads, CheckDeny(t) PROVE RouteInductive'
  <2>1. RefilledTo(t) \in 0 .. Larger(Rate, RouteBurst) * Milli BY CheckedTokens
  <2>2. RetryMs(RefilledTo(t), Rate, Win) \in 1 .. Win
    BY <1>6, <2>1, RouteLimits, RetryBounds DEF CheckDeny
  <2> QED BY <1>6, <2>1, <2>2 DEF CheckDeny
<1>7. CASE UNCHANGED routeVars BY <1>7 DEF routeVars
<1> QED BY <1>1, <1>2, <1>3, <1>4, <1>5, <1>6, <1>7 DEF RouteNext

(* The invariant holds in every reachable state. *)
LEMMA RouteInductiveHolds == RouteSpec => []RouteInductive
BY RouteInitInductive, RouteNextInductive, PTL DEF RouteSpec

(* RouteInv in every reachable state, for every rate, burst and window     *)
(* whose refill product fits the word: who waits a millisecond longer than *)
(* the answer of kynx_route_retry_ms finds a token in the bucket.          *)
THEOREM RetryAdviceHolds == ASSUME NoWrap PROVE RouteSpec => []RouteInv
<1>1. RouteInductive => RouteInv
  <2> SUFFICES ASSUME RouteInductive, verdict = "deny" PROVE TokenAfter(retry + 1)
    BY DEF RouteInv, RouteInductive, RetryWithinOneMs
  <2>1. tokens \in Nat /\ tokens < Milli /\ last \in Nat \ {0} /\ retry = RetryMs(tokens, Rate, Win)
    BY DEF RouteInductive, RouteTypeOK, Advised
  <2> QED BY <2>1, AdviceSuffices DEF TokenAfter
<1> QED BY <1>1, RouteInductiveHolds, PTL

(* For the same configurations no step denies a pair that was idle for a   *)
(* window: the refill of the check, cut to ten windows and rounded down,   *)
(* is at least one token.                                                  *)
THEOREM IdlePairsPass == ASSUME NoWrap PROVE RouteSpec => IdleWindowAdmits
<1> USE BucketAssumption, RouteAssumption
<1> DEFINE A == \A t \in Threads :
       used /\ readAt[t] >= last + Win * NsPerMs /\ readAt'[t] = 0 => verdict' # "deny"
<1>1. ASSUME RouteInductive, [RouteNext]_routeVars PROVE [A]_routeVars
  <2> SUFFICES ASSUME RouteNext, NEW t \in Threads, used, readAt[t] >= last + Win * NsPerMs,
                      readAt'[t] = 0, verdict' = "deny"
               PROVE  FALSE
    BY <1>1
  <2>1. /\ readAt \in [Threads -> Nat] /\ last \in Nat \ {0} /\ now \in Nat \ {0} /\ tokens \in Nat
    BY <1>1 DEF RouteInductive, RouteTypeOK
  <2>2. Win * NsPerMs \in Nat \ {0} OBVIOUS
  <2>3. readAt[t] > 0 /\ readAt'[t] # readAt[t] BY <2>1, <2>2
  <2>4. CheckDeny(t)
    <3>1. ~RouteTick /\ ~Evict BY <2>3 DEF RouteTick, Evict
    <3>2. PICK u \in Threads : RouteBegin(u) \/ CheckInsert(u) \/ CheckSpend(u) \/ CheckDeny(u)
      BY <3>1 DEF RouteNext
    <3>3. ~RouteBegin(u)
      BY <2>1, <2>3 DEF RouteBegin
    <3>4. ~CheckInsert(u) /\ ~CheckSpend(u) BY DEF CheckInsert, CheckSpend, CheckGlobal
    <3>5. CheckDeny(u) BY <3>2, <3>3, <3>4
    <3>6. u = t BY <2>1, <2>3, <3>5 DEF CheckDeny
    <3> QED BY <3>5, <3>6
  <2> DEFINE el == readAt[t] - last
             q == Rate * Milli
  <2>5. el \in Nat \ {0} /\ last + el = readAt[t] /\ q \in Nat /\ Win * NsPerMs <= el BY <2>1, <2>2
  <2>6. q * (Win * NsPerMs) <= el * q
    <3>1. (Win * NsPerMs) * q <= el * q BY <2>2, <2>5, TimesMonotone
    <3> QED BY <2>2, <2>5, <3>1
  <2> HIDE DEF el
  <2>7. Refill(tokens, last, last + el, Rate, Win, RouteCap) >= Smaller(tokens + q, RouteCap)
    <3>1. q <= q BY <2>5
    <3>2. q <= Rate * Milli /\ q * (Win * NsPerMs) <= el * (Rate * Milli) BY <2>6, <3>1, Zenon
    <3> HIDE DEF q
    <3> QED BY <2>1, <2>5, <3>2, RefillReaches, Zenon
  <2>8. Smaller(tokens + q, RouteCap) >= Milli
    <3>1. RouteCap = q BY DEF RouteCap
    <3> HIDE DEF q
    <3> QED BY <2>1, <2>5, <3>1, RouteLimits DEF Smaller
  <2>9. RefilledTo(t) >= Smaller(tokens + q, RouteCap) BY <2>5, <2>7 DEF RefilledTo
  <2>10. RefilledTo(t) < Milli BY <2>4 DEF CheckDeny
  <2>11. RefilledTo(t) \in Nat BY <1>1, CheckedTokens, RouteLimits
  <2>12. Smaller(tokens + q, RouteCap) \in Nat BY <2>1, <2>5, RouteLimits DEF Smaller
  <2> QED BY <2>8, <2>9, <2>10, <2>11, <2>12
<1>2. RouteSpec => [][A]_routeVars
  BY <1>1, RouteInductiveHolds, PTL DEF RouteSpec
<1> QED BY <1>2 DEF IdleWindowAdmits

-----------------------------------------------------------------------------
(* The entries a slot may hold. *)
Entries == [ip : IPs \cup {NoIP}, last : Times, viol : Times, decay : Times, tokens : 0 .. Cap,
            score : Nat, banned : BOOLEAN, banAt : Times]

(* One violation does not take a score to twice the threshold.             *)
Gradual == ScoreIncrement <= BanThreshold

(* Of every entry, at any time: its clocks are not ahead of it, a ban was  *)
(* given by the last check that touched it, and the score is below the     *)
(* threshold, or one increment above it while the ban lasts.               *)
EntrySane(e, time) ==
  /\ e.last <= time /\ e.viol <= time /\ e.decay <= time /\ e.banAt <= time
  /\ e.banned => e.banAt = e.last /\ e.ip # NoIP
  /\ Gradual => e.score < (IF e.banned THEN BanThreshold + ScoreIncrement ELSE BanThreshold)

(* Of an entry that no late check has touched, inserted at f, admitted n   *)
(* times, banned last at b.  Each part is what one of the properties needs *)
(* of the past: what was admitted and what is left in the bucket came with *)
(* the burst or from the rate; each increment of the score took a window;  *)
(* a ban that is over has run its time.                                    *)
Budgeted(e, f, n) ==
  (n * Milli) * WindowNs + e.tokens * WindowNs
    <= Cap * WindowNs + (e.last - f) * (RateLimit * Milli)
Earned(e, f) ==
  /\ \A k \in Nat : k * ScoreIncrement < e.score => f + k * WindowNs <= e.viol
  /\ e.banned => e.banAt >= f + (WindowsToBan - 1) * WindowNs
Served(e, b, time) == IF e.banned THEN b = e.banAt ELSE b = 0 \/ time > b + BanNs
EntryFair(e, f, n, b, time) ==
  /\ f <= e.last /\ e.viol <= e.last
  /\ Budgeted(e, f, n)
  /\ Earned(e, f)
  /\ Served(e, b, time)

(* The parameters of the gate. *)
LEMMA GateLimits ==
  /\ WindowNs \in Nat \ {0} /\ Cap \in Nat /\ Milli <= Cap
  /\ RateLimit \in Nat \ {0} /\ WindowMs \in Nat \ {0} /\ Burst \in Nat \ {0}
  /\ BanThreshold \in Nat \ {0} /\ ScoreIncrement \in Nat \ {0} /\ ScoreDecay \in Nat /\ BanNs \in Nat
  /\ Milli \in Nat \ {0} /\ NsPerMs \in Nat \ {0} /\ Word \in Nat \ {0} /\ MaxTime \in Nat \ {0}
  /\ MaxTime < Word
<1> USE BucketAssumption, AdmissionAssumption
<1>1. RateLimit \in Nat \ {0} /\ WindowMs \in Nat \ {0} /\ Burst \in Nat \ {0}
  OBVIOUS
<1>2. BanThreshold \in Nat \ {0} /\ ScoreIncrement \in Nat \ {0} OBVIOUS
<1>3. WindowNs \in Nat \ {0} BY <1>1 DEF WindowNs
<1>4. Cap \in Nat /\ Milli <= Cap
  <2>1. 1 * Milli <= Burst * Milli BY <1>1, TimesMonotone
  <2> QED BY <1>1, <2>1 DEF Cap
<1> QED BY <1>1, <1>2, <1>3, <1>4

(* As many windows as it takes to reach the threshold, less one, do not.   *)
LEMMA WindowsBelow ==
  WindowsToBan - 1 \in Nat /\ (WindowsToBan - 1) * ScoreIncrement < BanThreshold
<1> USE GateLimits
<1> DEFINE x == BanThreshold + ScoreIncrement - 1
           w == x \div ScoreIncrement
<1>1. x \in Nat OBVIOUS
<1>2. /\ w \in Nat /\ w * ScoreIncrement <= x
      /\ \A q \in Nat : q * ScoreIncrement <= x => q <= w
  BY <1>1, QuotientIs
<1>3. WindowsToBan = w BY DEF WindowsToBan
<1> HIDE DEF w
<1>4. 1 <= w
  <2>1. 1 * ScoreIncrement <= x OBVIOUS
  <2> QED BY <1>2, <2>1
<1>5. w * ScoreIncrement = (w - 1) * ScoreIncrement + ScoreIncrement BY <1>2
<1>6. (w - 1) * ScoreIncrement \in Nat BY <1>2, <1>4
<1> QED BY <1>2, <1>3, <1>4, <1>5, <1>6

(* A new entry is sane and fair. *)
LEMMA InsertedSane ==
  ASSUME NEW ip \in IPs, NEW at \in Times, NEW time \in Times, at <= time
  PROVE  /\ Inserted(ip, at) \in Entries
         /\ Inserted(ip, at).ip = ip
         /\ EntrySane(Inserted(ip, at), time)
         /\ EntryFair(Inserted(ip, at), at, 1, 0, time)
<1> USE GateLimits
<1> DEFINE e == Inserted(ip, at)
<1>1. /\ e.ip = ip /\ e.last = at /\ e.viol = 0 /\ e.decay = at /\ e.tokens = Cap - Milli
      /\ e.score = 0 /\ e.banned = FALSE /\ e.banAt = 0
  BY DEF Inserted, Free
<1>2. e \in Entries
  <2>1. Free \in Entries BY DEF Free, Entries, Times
  <2>2. Cap - Milli \in 0 .. Cap OBVIOUS
  <2> QED BY <2>1, <2>2 DEF Inserted, Entries
<1>3. EntrySane(e, time) BY <1>1 DEF EntrySane, Times
<1>4. Budgeted(e, at, 1)
  <2>1. (1 * Milli) * WindowNs + (Cap - Milli) * WindowNs = Cap * WindowNs OBVIOUS
  <2>2. (at - at) * (RateLimit * Milli) = 0 BY DEF Times
  <2>3. e.tokens = Cap - Milli /\ e.last = at BY <1>1
  <2>4. Cap * WindowNs \in Nat OBVIOUS
  <2> HIDE DEF e
  <2> QED BY <2>1, <2>2, <2>3, <2>4 DEF Budgeted
<1>5. Earned(e, at)
  <2>1. \A k \in Nat : ~(k * ScoreIncrement < 0) OBVIOUS
  <2> QED BY <1>1, <2>1 DEF Earned
<1>6. Served(e, 0, time) BY <1>1 DEF Served
<1>7. at <= e.last /\ e.viol <= e.last BY <1>1 DEF Times
<1> HIDE DEF e
<1>8. EntryFair(e, at, 1, 0, time) BY <1>4, <1>5, <1>6, <1>7 DEF EntryFair
<1> QED BY <1>1, <1>2, <1>3, <1>8 DEF e

(* A check that is not blocked finds the ban lifted and half of the score, *)
(* or an entry that is not banned.                                         *)
LEMMA UnbannedIs ==
  ASSUME NEW e \in Entries, NEW at \in Times, NEW time \in Times, EntrySane(e, time),
         ~Blocked(e, at)
  PROVE  LET u == Unbanned(e, at)
         IN  /\ u \in Entries
             /\ u.ip = e.ip /\ u.last = e.last /\ u.viol = e.viol /\ u.decay = e.decay
             /\ u.tokens = e.tokens /\ u.banAt = e.banAt /\ u.banned = FALSE
             /\ u.score <= e.score /\ (Gradual => u.score < BanThreshold)
<1> USE GateLimits
<1>1. CASE e.banned /\ BanExpired(e, at)
  <2>1. Unbanned(e, at) = [e EXCEPT !.banned = FALSE, !.score = e.score \div 2] BY <1>1 DEF Unbanned
  <2>2. e.score \div 2 \in Nat /\ e.score \div 2 <= e.score /\ (Gradual => e.score \div 2 < BanThreshold)
    <3>1. e.score \in Nat /\ (Gradual => e.score < BanThreshold + ScoreIncrement)
      BY <1>1 DEF Entries, EntrySane
    <3> QED BY <3>1 DEF Gradual
  <2> QED BY <2>1, <2>2 DEF Entries
<1>2. CASE ~(e.banned /\ BanExpired(e, at))
  <2>1. e.banned = FALSE BY <1>2 DEF Blocked, Entries
  <2> QED BY <1>2, <2>1 DEF Unbanned, Entries, EntrySane
<1> QED BY <1>1, <1>2

(* The refill sets the clock of the entry. *)
LEMMA RefilledIs ==
  ASSUME NEW e \in Entries, NEW at \in Times
  PROVE  LET r == Refilled(e, at)
         IN  /\ r \in Entries
             /\ r.ip = e.ip /\ r.last = at /\ r.viol = e.viol /\ r.decay = e.decay
             /\ r.tokens = Refill(e.tokens, e.last, at, RateLimit, WindowMs, Cap)
             /\ r.banAt = e.banAt /\ r.banned = e.banned /\ r.score = e.score
<1> USE GateLimits
<1> DEFINE g == Refill(e.tokens, e.last, at, RateLimit, WindowMs, Cap)
<1>1. g \in 0 .. Cap
  <2>1. e.tokens \in Nat /\ e.tokens <= Cap /\ e.last \in Nat /\ at \in Nat BY DEF Entries, Times
  <2>2. g \in Nat /\ g <= Cap BY <2>1, RefillBounds
  <2> QED BY <2>2
<1>2. Refilled(e, at) = [e EXCEPT !.tokens = g, !.last = at] BY DEF Refilled
<1> HIDE DEF g
<1>3. /\ Refilled(e, at) \in Entries
      /\ Refilled(e, at).tokens = g
  BY <1>1, <1>2 DEF Entries
<1>4. LET r == Refilled(e, at)
      IN  /\ r.ip = e.ip /\ r.last = at /\ r.viol = e.viol /\ r.decay = e.decay
          /\ r.banAt = e.banAt /\ r.banned = e.banned /\ r.score = e.score
  BY <1>2 DEF Entries
<1> QED BY <1>3, <1>4 DEF g

(* An admission spends a token and lowers the score, if anything. *)
LEMMA AdmittedIs ==
  ASSUME NEW e \in Entries, NEW at \in Times, e.tokens >= Milli
  PROVE  LET r == Admitted(e, at)
         IN  /\ r \in Entries
             /\ r.ip = e.ip /\ r.last = e.last /\ r.viol = e.viol /\ r.decay \in {e.decay, at}
             /\ r.tokens = e.tokens - Milli
             /\ r.banAt = e.banAt /\ r.banned = e.banned /\ r.score <= e.score
<1> USE GateLimits
<1> DEFINE decays == e.score > 0 /\ Since(at, e.decay) >= WindowNs
           sc == IF decays THEN IF e.score > ScoreDecay THEN e.score - ScoreDecay ELSE 0 ELSE e.score
           dc == IF decays THEN at ELSE e.decay
<1>1. Admitted(e, at) = [e EXCEPT !.tokens = e.tokens - Milli, !.score = sc, !.decay = dc]
  BY DEF Admitted
<1>2. sc \in Nat /\ sc <= e.score /\ dc \in {e.decay, at} /\ dc \in Times
  BY DEF Entries
<1>3. e.tokens - Milli \in 0 .. Cap BY DEF Entries
<1> HIDE DEF sc, dc
<1> QED BY <1>1, <1>2, <1>3 DEF Entries

(* A denial changes nothing, or it is a violation at least a window after  *)
(* the one before, raises the score and bans at the threshold.             *)
LEMMA DeniedIs ==
  ASSUME NEW e \in Entries, NEW at \in Times
  PROVE  LET r == Denied(e, at)
         IN  /\ r \in Entries
             /\ r.ip = e.ip /\ r.last = e.last /\ r.decay = e.decay /\ r.tokens = e.tokens
             /\ \/ r = e /\ Since(at, e.viol) < WindowNs
                \/ /\ Since(at, e.viol) >= WindowNs
                   /\ r.score = e.score + ScoreIncrement /\ r.viol = at
                   /\ r.banned = (r.score >= BanThreshold)
                   /\ r.banAt = IF r.banned THEN at ELSE e.banAt
<1> USE GateLimits
<1>1. Since(at, e.viol) \in Nat BY DEF Since, Entries, Times
<1>2. CASE Since(at, e.viol) >= WindowNs
  <2> DEFINE sc == e.score + ScoreIncrement
             bn == sc >= BanThreshold
             ba == IF bn THEN at ELSE e.banAt
  <2>1. Denied(e, at) = [e EXCEPT !.score = sc, !.viol = at, !.banned = bn, !.banAt = ba]
    BY <1>2 DEF Denied
  <2>2. sc \in Nat /\ bn \in BOOLEAN /\ ba \in Times BY DEF Entries
  <2> HIDE DEF sc, bn, ba
  <2>3. Denied(e, at) \in Entries BY <2>1, <2>2 DEF Entries
  <2>4. LET r == Denied(e, at)
        IN  /\ r.ip = e.ip /\ r.last = e.last /\ r.decay = e.decay /\ r.tokens = e.tokens
            /\ r.score = sc /\ r.viol = at /\ r.banned = bn /\ r.banAt = ba
    BY <2>1 DEF Entries
  <2> QED BY <1>2, <2>3, <2>4 DEF sc, bn, ba
<1>3. CASE ~(Since(at, e.viol) >= WindowNs)
  <2>1. Denied(e, at) = e BY <1>3 DEF Denied
  <2> QED BY <1>1, <1>3, <2>1
<1> QED BY <1>2, <1>3

(* The critical section of a check of a known address, on its entry. *)
Seen(e, at) == Refilled(Unbanned(e, at), at)
Admits(e, at) == Seen(e, at).tokens >= Milli
After(e, at) == IF Admits(e, at) THEN Admitted(Seen(e, at), at) ELSE Denied(Seen(e, at), at)

(* What the check sees before it decides. *)
LEMMA SeenIs ==
  ASSUME NEW e \in Entries, NEW at \in Times, NEW time \in Times, EntrySane(e, time),
         ~Blocked(e, at)
  PROVE  LET r == Seen(e, at)
         IN  /\ r \in Entries
             /\ r.ip = e.ip /\ r.last = at /\ r.viol = e.viol /\ r.decay = e.decay
             /\ r.tokens = Refill(e.tokens, e.last, at, RateLimit, WindowMs, Cap)
             /\ r.banAt = e.banAt /\ r.banned = FALSE
             /\ r.score <= e.score /\ (Gradual => r.score < BanThreshold)
<1> DEFINE u == Unbanned(e, at)
<1>1. /\ u \in Entries
      /\ u.ip = e.ip /\ u.last = e.last /\ u.viol = e.viol /\ u.decay = e.decay
      /\ u.tokens = e.tokens /\ u.banAt = e.banAt /\ u.banned = FALSE
      /\ u.score <= e.score /\ (Gradual => u.score < BanThreshold)
  BY UnbannedIs
<1> HIDE DEF u
<1>2. LET r == Refilled(u, at)
      IN  /\ r \in Entries
          /\ r.ip = u.ip /\ r.last = at /\ r.viol = u.viol /\ r.decay = u.decay
          /\ r.tokens = Refill(u.tokens, u.last, at, RateLimit, WindowMs, Cap)
          /\ r.banAt = u.banAt /\ r.banned = u.banned /\ r.score = u.score
  BY <1>1, RefilledIs
<1>3. Seen(e, at) = Refilled(u, at) BY DEF Seen, u
<1> QED BY <1>1, <1>2, <1>3

(* A check leaves a sane entry of the same address, whatever its clock.    *)
LEMMA AfterSane ==
  ASSUME NEW e \in Entries, NEW at \in Times, NEW time \in Times, at <= time,
         EntrySane(e, time), ~Blocked(e, at), e.ip # NoIP
  PROVE  After(e, at) \in Entries /\ After(e, at).ip = e.ip /\ EntrySane(After(e, at), time)
<1> USE GateLimits
<1> DEFINE s == Seen(e, at)
<1>1. /\ s \in Entries
      /\ s.ip = e.ip /\ s.last = at /\ s.viol = e.viol /\ s.decay = e.decay
      /\ s.banAt = e.banAt /\ s.banned = FALSE /\ (Gradual => s.score < BanThreshold)
  BY SeenIs
<1>2. e.viol <= time /\ e.decay <= time /\ e.banAt <= time BY DEF EntrySane
<1>3. CASE Admits(e, at)
  <2> DEFINE r == Admitted(s, at)
  <2>1. After(e, at) = r /\ s.tokens >= Milli BY <1>3 DEF After, Admits
  <2> HIDE DEF s
  <2>2. /\ r \in Entries
        /\ r.ip = s.ip /\ r.last = s.last /\ r.viol = s.viol /\ r.decay \in {s.decay, at}
        /\ r.banAt = s.banAt /\ r.banned = s.banned /\ r.score <= s.score
    BY <1>1, <2>1, AdmittedIs
  <2> HIDE DEF r
  <2>3. Gradual => r.score < BanThreshold BY <1>1, <2>2 DEF Entries
  <2>4. EntrySane(r, time) BY <1>1, <1>2, <2>2, <2>3 DEF EntrySane
  <2> QED BY <1>1, <2>1, <2>2, <2>4
<1>4. CASE ~Admits(e, at)
  <2> DEFINE r == Denied(s, at)
  <2>1. After(e, at) = r BY <1>4 DEF After
  <2> HIDE DEF s
  <2>2. /\ r \in Entries
        /\ r.ip = s.ip /\ r.last = s.last /\ r.decay = s.decay
        /\ \/ r = s
           \/ /\ r.score = s.score + ScoreIncrement /\ r.viol = at
              /\ r.banned = (r.score >= BanThreshold)
              /\ r.banAt = IF r.banned THEN at ELSE s.banAt
    BY <1>1, DeniedIs
  <2> HIDE DEF r
  <2>3. Gradual => r.score < (IF r.banned THEN BanThreshold + ScoreIncrement ELSE BanThreshold)
    <3> SUFFICES ASSUME Gradual
                 PROVE  r.score < (IF r.banned THEN BanThreshold + ScoreIncrement ELSE BanThreshold)
      OBVIOUS
    <3>1. r.score \in Nat /\ s.score \in Nat BY <1>1, <2>2 DEF Entries
    <3>2. CASE r = s BY <1>1, <3>2
    <3>3. CASE r.banned = (r.score >= BanThreshold) /\ r.score = s.score + ScoreIncrement
      <4>1. r.score < BanThreshold + ScoreIncrement BY <1>1, <3>1, <3>3
      <4>2. CASE r.score >= BanThreshold BY <3>3, <4>1, <4>2
      <4>3. CASE ~(r.score >= BanThreshold) BY <3>1, <3>3, <4>3
      <4> QED BY <4>2, <4>3
    <3> QED BY <2>2, <3>2, <3>3
  <2>4. r.banned => r.banAt = r.last BY <1>1, <2>2
  <2>5. r.last <= time /\ r.viol <= time /\ r.decay <= time /\ r.banAt <= time BY <1>1, <1>2, <2>2
  <2>6. EntrySane(r, time) BY <1>1, <2>2, <2>3, <2>4, <2>5 DEF EntrySane
  <2> QED BY <1>1, <2>1, <2>2, <2>6
<1> QED BY <1>3, <1>4

(* What the bucket holds and what was admitted stay within the budget. *)
LEMMA AfterBudgeted ==
  ASSUME NEW tk \in Nat, NEW from \in Nat, NEW at \in Nat, NEW f \in Nat, NEW n \in Nat,
         f <= from, from <= at,
         (n * Milli) * WindowNs + tk * WindowNs <= Cap * WindowNs + (from - f) * (RateLimit * Milli)
  PROVE  LET r == Refill(tk, from, at, RateLimit, WindowMs, Cap)
         IN  /\ (n * Milli) * WindowNs + r * WindowNs
                  <= Cap * WindowNs + (at - f) * (RateLimit * Milli)
             /\ r >= Milli =>
                  ((n + 1) * Milli) * WindowNs + (r - Milli) * WindowNs
                    <= Cap * WindowNs + (at - f) * (RateLimit * Milli)
<1> USE GateLimits
<1> DEFINE r == Refill(tk, from, at, RateLimit, WindowMs, Cap)
           m == RateLimit * Milli
<1>1. m \in Nat /\ from - f \in Nat /\ at - from \in Nat /\ at - f \in Nat OBVIOUS
<1>2. r \in Nat /\ r * (WindowMs * NsPerMs) <= tk * (WindowMs * NsPerMs) + (at - from) * m
  BY RefillBounds
<1>3. r * WindowNs <= tk * WindowNs + (at - from) * m BY <1>2, Zenon DEF WindowNs
<1> HIDE DEF r, m
<1>4. (at - f) * m = (from - f) * m + (at - from) * m
  <2>1. at - f = (from - f) + (at - from) OBVIOUS
  <2> HIDE <2>1
  <2> DEFINE x == from - f
             y == at - from
  <2>2. (x + y) * m = x * m + y * m BY <1>1
  <2> QED BY <2>1, <2>2
<1>5. /\ (n * Milli) * WindowNs \in Nat /\ tk * WindowNs \in Nat /\ r * WindowNs \in Nat
      /\ Cap * WindowNs \in Nat /\ (from - f) * m \in Nat /\ (at - from) * m \in Nat
  BY <1>1, <1>2
<1>6. (n * Milli) * WindowNs + tk * WindowNs <= Cap * WindowNs + (from - f) * m BY Zenon DEF m
<1>7. (n * Milli) * WindowNs + r * WindowNs <= Cap * WindowNs + (at - f) * m
  BY <1>3, <1>4, <1>5, <1>6
<1>8. ((n + 1) * Milli) * WindowNs + (r - Milli) * WindowNs = (n * Milli) * WindowNs + r * WindowNs
  BY <1>2
<1> QED BY <1>7, <1>8, Zenon DEF r, m

(* The score and a ban stay earned, window by window. *)
LEMMA AfterEarned ==
  ASSUME NEW e \in Entries, NEW at \in Times, NEW time \in Times, at <= time,
         EntrySane(e, time), ~Blocked(e, at),
         NEW f \in Nat, f <= e.last, e.viol <= e.last, e.last <= at, Earned(e, f)
  PROVE  Earned(After(e, at), f) /\ After(e, at).viol <= at
<1> USE GateLimits
<1> DEFINE s == Seen(e, at)
<1>1. /\ s \in Entries
      /\ s.last = at /\ s.viol = e.viol /\ s.banned = FALSE /\ s.score <= e.score
  BY SeenIs
<1>2. /\ e.viol \in Nat /\ e.last \in Nat /\ e.score \in Nat /\ s.score \in Nat /\ at \in Nat
      /\ at < Word
  BY <1>1 DEF Entries, Times
<1>3. \A k \in Nat : k * ScoreIncrement < e.score => f + k * WindowNs <= e.viol BY DEF Earned
<1>4. ASSUME NEW sc \in Nat, sc <= e.score, NEW k \in Nat, k * ScoreIncrement < sc
      PROVE  f + k * WindowNs <= e.viol
  <2>1. k * ScoreIncrement \in Nat OBVIOUS
  <2>2. k * ScoreIncrement < e.score BY <1>2, <1>4, <2>1
  <2> QED BY <1>3, <2>2
<1>5. CASE Admits(e, at)
  <2> DEFINE r == Admitted(s, at)
  <2>1. After(e, at) = r /\ s.tokens >= Milli BY <1>5 DEF After, Admits
  <2> HIDE DEF s
  <2>2. r \in Entries /\ r.viol = s.viol /\ r.banned = s.banned /\ r.score <= s.score
    BY <1>1, <2>1, AdmittedIs
  <2> HIDE DEF r
  <2>3. r.score \in Nat /\ r.score <= e.score BY <1>1, <1>2, <2>2 DEF Entries
  <2>4. \A k \in Nat : k * ScoreIncrement < r.score => f + k * WindowNs <= r.viol
    BY <1>1, <1>4, <2>2, <2>3
  <2> QED BY <1>1, <1>2, <2>1, <2>2, <2>4 DEF Earned
<1>6. CASE ~Admits(e, at)
  <2> DEFINE r == Denied(s, at)
  <2>1. After(e, at) = r BY <1>6 DEF After
  <2> HIDE DEF s
  <2>2. \/ r = s
        \/ /\ Since(at, s.viol) >= WindowNs
           /\ r.score = s.score + ScoreIncrement /\ r.viol = at
           /\ r.banned = (r.score >= BanThreshold)
           /\ r.banAt = IF r.banned THEN at ELSE s.banAt
    BY <1>1, DeniedIs
  <2> HIDE DEF r
  <2>3. CASE r = s
    <3>1. \A k \in Nat : k * ScoreIncrement < r.score => f + k * WindowNs <= r.viol
      BY <1>1, <1>2, <1>4, <2>3
    <3> QED BY <1>1, <1>2, <2>1, <2>3, <3>1 DEF Earned
  <2>4. CASE /\ Since(at, s.viol) >= WindowNs
             /\ r.score = s.score + ScoreIncrement /\ r.viol = at
             /\ r.banned = (r.score >= BanThreshold)
             /\ r.banAt = IF r.banned THEN at ELSE s.banAt
    <3>1. at - e.viol >= WindowNs
      <4>1. e.viol <= at BY <1>2
      <4>2. Since(at, e.viol) = at - e.viol BY <1>2, <4>1, SinceIs
      <4> QED BY <1>1, <2>4, <4>2
    <3>2. ASSUME NEW k \in Nat, k * ScoreIncrement < r.score PROVE f + k * WindowNs <= at
      <4>1. CASE k = 0
        <5>1. k * WindowNs = 0 BY <4>1
        <5> QED BY <1>2, <5>1
      <4>2. CASE k # 0
        <5> DEFINE j == k - 1
        <5>1. j \in Nat /\ k = j + 1 BY <4>2
        <5> HIDE DEF j
        <5>2. (j + 1) * ScoreIncrement = j * ScoreIncrement + ScoreIncrement
              /\ (j + 1) * WindowNs = j * WindowNs + WindowNs
          BY <5>1
        <5>3. j * ScoreIncrement \in Nat /\ j * WindowNs \in Nat BY <5>1
        <5>4. j * ScoreIncrement < s.score BY <1>2, <2>4, <3>2, <5>1, <5>2, <5>3
        <5>5. f + j * WindowNs <= e.viol BY <1>1, <1>2, <1>4, <5>1, <5>4
        <5> QED BY <1>2, <3>1, <5>1, <5>2, <5>3, <5>5
      <4> QED BY <4>1, <4>2
    <3>3. r.banned => f + (WindowsToBan - 1) * WindowNs <= at
      <4> SUFFICES ASSUME r.banned PROVE f + (WindowsToBan - 1) * WindowNs <= at
        OBVIOUS
      <4>1. r.score >= BanThreshold /\ r.score \in Nat
        <5>1. r.score >= BanThreshold BY <2>4
        <5> QED BY <1>2, <2>4, <5>1
      <4> DEFINE k == WindowsToBan - 1
      <4>2. k \in Nat /\ k * ScoreIncrement < BanThreshold BY WindowsBelow
      <4> HIDE DEF k
      <4>3. k * ScoreIncrement \in Nat BY <4>2
      <4>4. k * ScoreIncrement < r.score BY <4>1, <4>2, <4>3
      <4>5. f + k * WindowNs <= at BY <3>2, <4>2, <4>4
      <4> QED BY <4>5 DEF k
    <3>4. r.banned => r.banAt >= f + (WindowsToBan - 1) * WindowNs
      <4>1. (WindowsToBan - 1) * WindowNs \in Nat BY WindowsBelow
      <4> QED BY <1>2, <2>4, <3>3, <4>1
    <3>5. \A k \in Nat : k * ScoreIncrement < r.score => f + k * WindowNs <= r.viol
      BY <2>4, <3>2
    <3>6. Earned(r, f) BY <3>4, <3>5 DEF Earned
    <3> QED BY <1>2, <2>1, <2>4, <3>6
  <2> QED BY <2>2, <2>3, <2>4
<1> QED BY <1>5, <1>6

(* Who is checked and not blocked has served the last ban. *)
LEMMA BanServed ==
  ASSUME NEW e \in Entries, NEW at \in Times, NEW time \in Times, at <= time,
         EntrySane(e, time), ~Blocked(e, at), e.last <= at, NEW b \in Nat, Served(e, b, time)
  PROVE  b = 0 \/ time > b + BanNs
<1> USE GateLimits
<1>1. CASE e.banned
  <2>1. b = e.banAt /\ e.banAt <= at BY <1>1 DEF Served, EntrySane
  <2>2. e.banAt \in Nat /\ at \in Nat /\ at < Word /\ time \in Nat BY DEF Entries, Times
  <2>3. Since(at, e.banAt) = at - e.banAt BY <2>1, <2>2, SinceIs
  <2>4. at - e.banAt > BanNs BY <1>1, <2>3 DEF Blocked, BanExpired
  <2> QED BY <2>1, <2>2, <2>4
<1>2. CASE ~e.banned BY <1>2 DEF Served
<1> QED BY <1>1, <1>2

(* A check that is not late leaves a fair entry. *)
LEMMA AfterFair ==
  ASSUME NEW e \in Entries, NEW at \in Times, NEW time \in Times, at <= time,
         EntrySane(e, time), ~Blocked(e, at), e.last <= at,
         NEW f \in Nat, NEW n \in Nat, NEW b \in Nat, EntryFair(e, f, n, b, time)
  PROVE  EntryFair(After(e, at), f, IF Admits(e, at) THEN n + 1 ELSE n,
                   IF After(e, at).banned THEN at ELSE b, time)
<1> USE GateLimits
<1> DEFINE s == Seen(e, at)
           a == After(e, at)
           g == Refill(e.tokens, e.last, at, RateLimit, WindowMs, Cap)
           x == IF Admits(e, at) THEN n + 1 ELSE n
<1>1. s \in Entries /\ s.last = at /\ s.tokens = g /\ s.banned = FALSE
  BY SeenIs
<1>2. /\ e.tokens \in Nat /\ e.last \in Nat /\ at \in Nat /\ f <= e.last /\ e.viol <= e.last
      /\ Budgeted(e, f, n) /\ Earned(e, f) /\ Served(e, b, time)
  BY DEF Entries, Times, EntryFair
<1>3. Earned(a, f) /\ a.viol <= at BY <1>2, AfterEarned
<1>4. b = 0 \/ time > b + BanNs BY <1>2, BanServed
<1>5. /\ (n * Milli) * WindowNs + g * WindowNs <= Cap * WindowNs + (at - f) * (RateLimit * Milli)
      /\ g >= Milli => ((n + 1) * Milli) * WindowNs + (g - Milli) * WindowNs
                         <= Cap * WindowNs + (at - f) * (RateLimit * Milli)
  <2>1. (n * Milli) * WindowNs + e.tokens * WindowNs
          <= Cap * WindowNs + (e.last - f) * (RateLimit * Milli)
    BY <1>2 DEF Budgeted
  <2> QED BY <1>2, <2>1, AfterBudgeted
<1>6. a.last = at /\ Budgeted(a, f, x) /\ (a.banned => a.banAt = at)
  <2>1. CASE Admits(e, at)
    <3>1. a = Admitted(s, at) /\ s.tokens >= Milli BY <2>1 DEF After, Admits
    <3> HIDE DEF s, a
    <3>2. a.last = s.last /\ a.tokens = s.tokens - Milli /\ a.banned = s.banned
      BY <1>1, <3>1, AdmittedIs
    <3>3. a.tokens = g - Milli /\ a.last = at /\ g >= Milli BY <1>1, <3>1, <3>2
    <3>4. Budgeted(a, f, n + 1) BY <1>5, <3>3, Zenon DEF Budgeted
    <3> QED BY <1>1, <2>1, <3>2, <3>3, <3>4
  <2>2. CASE ~Admits(e, at)
    <3>1. a = Denied(s, at) BY <2>2 DEF After
    <3> HIDE DEF s, a
    <3>2. a.last = s.last /\ a.tokens = s.tokens /\ (a.banned => a.banAt = at)
      BY <1>1, <3>1, DeniedIs
    <3>3. a.tokens = g /\ a.last = at BY <1>1, <3>2
    <3>4. Budgeted(a, f, n) BY <1>5, <3>3, Zenon DEF Budgeted
    <3> QED BY <2>2, <3>2, <3>3, <3>4
  <2> QED BY <2>1, <2>2
<1>7. f <= at BY <1>2
<1> HIDE DEF a, x
<1>8. Served(a, IF a.banned THEN at ELSE b, time) BY <1>4, <1>6 DEF Served
<1>9. EntryFair(a, f, x, IF a.banned THEN at ELSE b, time)
  BY <1>3, <1>6, <1>7, <1>8 DEF EntryFair
<1> QED BY <1>9 DEF a, x

(* The inductive invariant of the gate: no clock is ahead of the time, an  *)
(* address has one slot, every entry is sane, and every entry that no late *)
(* check touched is fair.                                                  *)
ClocksPast == \A t \in Threads : pending[t].at <= now
(* What the other parts of the invariant say of the whole table.           *)
OneSlot == \A i, j \in SlotIds : table[i].ip = table[j].ip /\ table[i].ip # NoIP => i = j
AllSane == \A i \in SlotIds : EntrySane(table[i], now)
AllFair ==
  \A i \in SlotIds : table[i].ip # NoIP /\ ~late[table[i].ip] =>
    EntryFair(table[i], first[table[i].ip], admits[table[i].ip], bannedAt[table[i].ip], now)
OutKnown == out.ok => out.ip # NoIP
GateInductive ==
  GateTypeOK /\ ClocksPast /\ OneSlot /\ AllSane /\ AllFair /\ OutKnown /\ BanHolds

(* The table starts empty. *)
LEMMA GateInitInductive == GateInit => GateInductive
<1> USE GateLimits, AdmissionAssumption
<1> SUFFICES ASSUME GateInit PROVE GateInductive
  OBVIOUS
<1>1. /\ Free \in Entries /\ Free.ip = NoIP /\ Free.last = 0 /\ Free.viol = 0 /\ Free.decay = 0
      /\ Free.banned = FALSE /\ Free.score = 0 /\ Free.banAt = 0
  BY DEF Free, Entries, Times
<1>2. \A i \in SlotIds : table[i] = Free BY DEF GateInit
<1>3. GateTypeOK
  <2>1. table \in [SlotIds -> Entries] BY <1>1 DEF GateInit
  <2>2. pending \in [Threads -> [ip : IPs \cup {NoIP}, at : Times]]
    BY DEF GateInit, Idle, Times
  <2>3. out \in [ip : IPs \cup {NoIP}, ok : BOOLEAN] BY DEF GateInit
  <2>4. now \in Times /\ first \in [IPs -> Times] /\ admits \in [IPs -> Nat] /\ bannedAt \in [IPs -> Times]
    BY DEF GateInit, Times
  <2>5. late \in [IPs -> BOOLEAN] BY DEF GateInit
  <2> QED BY <2>1, <2>2, <2>3, <2>4, <2>5 DEF GateTypeOK, Entries
<1>4. ClocksPast BY DEF GateInit, Idle, ClocksPast
<1>5. OneSlot /\ AllFair BY <1>1, <1>2 DEF OneSlot, AllFair
<1>6. AllSane BY <1>1, <1>2 DEF AllSane, EntrySane, GateInit
<1>7. OutKnown /\ BanHolds BY DEF OutKnown, BanHolds, GateInit
<1> QED BY <1>3, <1>4, <1>5, <1>6, <1>7 DEF GateInductive

(* Time passes for a sane and fair entry. *)
LEMMA EntryAges ==
  ASSUME NEW e \in Entries, NEW time \in Nat, NEW next \in Nat, time <= next
  PROVE  /\ EntrySane(e, time) => EntrySane(e, next)
         /\ \A f \in Nat, n \in Nat, b \in Nat :
              EntryFair(e, f, n, b, time) => EntryFair(e, f, n, b, next)
<1> USE GateLimits
<1>1. EntrySane(e, time) => EntrySane(e, next) BY DEF EntrySane, Entries, Times
<1>2. ASSUME NEW b \in Nat, Served(e, b, time) PROVE Served(e, b, next)
  BY <1>2 DEF Served
<1> QED BY <1>1, <1>2 DEF EntryFair

(* A slot is chosen inside the shard. *)
LEMMA TargetInside ==
  ASSUME GateTypeOK, NEW at PROVE TargetSlot(at) \in SlotIds
<1> DEFINE free == Holding(NoIP)
           older == {i \in SlotIds : table[i].last < at}
           oldest == {i \in older : \A j \in older : table[i].last <= table[j].last}
<1>1. free \in SUBSET SlotIds /\ SlotIds \in SUBSET Nat /\ 1 \in SlotIds
  BY AdmissionAssumption DEF Holding, SlotIds
<1>2. free # {} => Min(free) \in SlotIds BY <1>1, MinIsLeast
<1>3. ASSUME older # {} PROVE Min(oldest) \in SlotIds
  <2> DEFINE L == {table[i].last : i \in older}
  <2>1. \A i \in older : table[i].last \in Nat BY DEF GateTypeOK, Times
  <2>2. L \in SUBSET Nat /\ L # {} BY <1>3, <2>1
  <2>3. PICK x \in L : \A y \in L : x <= y
    <3> HIDE DEF L
    <3> QED BY <2>2, LeastNumber
  <2>4. oldest # {} BY <2>3
  <2>5. oldest \in SUBSET SlotIds OBVIOUS
  <2> HIDE DEF oldest
  <2> QED BY <1>1, <2>4, <2>5, MinIsLeast
<1>4. TargetSlot(at) = CASE free # {} -> Min(free)
                         [] free = {} /\ older # {} -> Min(oldest)
                         [] OTHER -> 1
  BY DEF TargetSlot
<1> HIDE DEF free, older, oldest
<1> QED BY <1>1, <1>2, <1>3, <1>4

(* An address in the table is found in its slot. *)
LEMMA SlotFound ==
  ASSUME NEW ip, Holding(ip) # {}
  PROVE  Min(Holding(ip)) \in SlotIds /\ table[Min(Holding(ip))].ip = ip
<1>1. Holding(ip) \in SUBSET Nat BY DEF Holding, SlotIds
<1>2. Min(Holding(ip)) \in Holding(ip) BY <1>1, MinIsLeast
<1> QED BY <1>2 DEF Holding

(* The clock moves. *)
LEMMA TickInductive == ASSUME GateInductive, Tick PROVE GateInductive'
<1> USE GateLimits
<1>1. now \in Nat /\ now' = now + 1 /\ now' \in Times /\ now <= now' /\ now' \in Nat
  BY DEF GateInductive, GateTypeOK, Tick, Times
<1>2. UNCHANGED <<table, pending, out, first, admits, bannedAt, late>> BY DEF Tick
<1>3. GateTypeOK' BY <1>1, <1>2 DEF GateInductive, GateTypeOK
<1>4. ClocksPast'
  <2>1. \A t \in Threads : pending[t].at \in Nat BY DEF GateInductive, GateTypeOK, Times
  <2> QED BY <1>1, <1>2, <2>1 DEF GateInductive, ClocksPast
<1>5. OneSlot' BY <1>2 DEF GateInductive, OneSlot
<1>6. table \in [SlotIds -> Entries] BY DEF GateInductive, GateTypeOK, Entries
<1>7. AllSane'
  <2> SUFFICES ASSUME NEW i \in SlotIds PROVE EntrySane(table[i], now')
    BY <1>2 DEF AllSane
  <2> QED BY <1>1, <1>6, EntryAges DEF GateInductive, AllSane
<1>8. AllFair'
  <2> SUFFICES ASSUME NEW i \in SlotIds, table[i].ip # NoIP, ~late[table[i].ip]
               PROVE  EntryFair(table[i], first[table[i].ip], admits[table[i].ip],
                                bannedAt[table[i].ip], now')
    BY <1>2 DEF AllFair
  <2> DEFINE f == first[table[i].ip]
             n == admits[table[i].ip]
             b == bannedAt[table[i].ip]
  <2>1. table[i] \in Entries /\ table[i].ip \in IPs BY <1>6 DEF Entries
  <2>2. f \in Nat /\ n \in Nat /\ b \in Nat BY <2>1 DEF GateInductive, GateTypeOK, Times
  <2>3. EntryFair(table[i], f, n, b, now) BY DEF GateInductive, AllFair
  <2> HIDE DEF f, n, b
  <2>4. EntryFair(table[i], f, n, b, now') BY <1>1, <2>1, <2>2, <2>3, EntryAges
  <2> QED BY <2>4 DEF f, n, b
<1>9. OutKnown' BY <1>2 DEF GateInductive, OutKnown
<1>10. BanHolds'
  <2> SUFFICES ASSUME out.ok, ~late[out.ip] PROVE bannedAt[out.ip] = 0 \/ now' > bannedAt[out.ip] + BanNs
    BY <1>2 DEF BanHolds
  <2>1. bannedAt[out.ip] = 0 \/ now > bannedAt[out.ip] + BanNs BY DEF GateInductive, BanHolds
  <2>2. bannedAt[out.ip] \in Nat BY DEF GateInductive, OutKnown, GateTypeOK, Times
  <2> QED BY <1>1, <2>1, <2>2
<1> QED BY <1>3, <1>4, <1>5, <1>7, <1>8, <1>9, <1>10 DEF GateInductive

(* A check begins with the time it is. *)
LEMMA BeginInductive ==
  ASSUME GateInductive, NEW t \in Threads, NEW ip \in IPs, Begin(t, ip) PROVE GateInductive'
<1> USE GateLimits
<1>1. UNCHANGED <<now, table, out, first, admits, bannedAt, late>> BY DEF Begin
<1>2. pending' = [pending EXCEPT ![t] = [ip |-> ip, at |-> now]] BY DEF Begin
<1>3. now \in Times /\ now \in Nat BY DEF GateInductive, GateTypeOK, Times
<1>4. GateTypeOK'
  <2>1. pending' \in [Threads -> [ip : IPs \cup {NoIP}, at : Times]]
    BY <1>2, <1>3 DEF GateInductive, GateTypeOK
  <2> QED BY <1>1, <2>1 DEF GateInductive, GateTypeOK
<1>5. ClocksPast' BY <1>1, <1>2, <1>3 DEF GateInductive, GateTypeOK, ClocksPast
<1> QED BY <1>1, <1>4, <1>5 DEF GateInductive, OneSlot, AllSane, AllFair, OutKnown, BanHolds

(* A blocked check changes nothing but its thread. *)
LEMMA BannedInductive ==
  ASSUME GateInductive, NEW t \in Threads, CheckBanned(t) PROVE GateInductive'
<1> USE GateLimits
<1> DEFINE ip == pending[t].ip
<1>1. /\ UNCHANGED <<now, table, first, admits, bannedAt, late>>
      /\ out' = [ip |-> ip, ok |-> FALSE] /\ pending' = [pending EXCEPT ![t] = Idle]
  BY DEF CheckBanned
<1>2. ip \in IPs \cup {NoIP} BY DEF GateInductive, GateTypeOK
<1>3. Idle \in [ip : IPs \cup {NoIP}, at : Times] /\ Idle.at = 0 BY DEF Idle, Times
<1>4. GateTypeOK'
  <2>1. pending' \in [Threads -> [ip : IPs \cup {NoIP}, at : Times]]
    BY <1>1, <1>3 DEF GateInductive, GateTypeOK
  <2>2. out' \in [ip : IPs \cup {NoIP}, ok : BOOLEAN] BY <1>1, <1>2
  <2> QED BY <1>1, <2>1, <2>2 DEF GateInductive, GateTypeOK
<1>5. ClocksPast' BY <1>1, <1>3 DEF GateInductive, GateTypeOK, ClocksPast, Times
<1>6. OutKnown' /\ BanHolds' BY <1>1 DEF OutKnown, BanHolds
<1> QED BY <1>1, <1>4, <1>5, <1>6 DEF GateInductive, OneSlot, AllSane, AllFair

(* A new address takes a slot and starts its history anew. *)
LEMMA NewInductive ==
  ASSUME GateInductive, NEW t \in Threads, CheckNew(t) PROVE GateInductive'
<1> USE GateLimits
<1> DEFINE ip == pending[t].ip
           at == pending[t].at
           slot == TargetSlot(at)
<1>1. /\ ip # NoIP /\ Holding(ip) = {}
      /\ table' = [table EXCEPT ![slot] = Inserted(ip, at)]
      /\ out' = [ip |-> ip, ok |-> TRUE]
      /\ first' = [first EXCEPT ![ip] = at]
      /\ admits' = [admits EXCEPT ![ip] = 1]
      /\ bannedAt' = [bannedAt EXCEPT ![ip] = 0]
      /\ late' = [late EXCEPT ![ip] = FALSE]
      /\ pending' = [pending EXCEPT ![t] = Idle]
      /\ UNCHANGED now
  BY DEF CheckNew
<1>2. ip \in IPs /\ at \in Times /\ at <= now /\ now \in Times
  BY <1>1 DEF GateInductive, GateTypeOK, ClocksPast
<1>3. slot \in SlotIds BY TargetInside DEF GateInductive
<1>4. table \in [SlotIds -> Entries] BY DEF GateInductive, GateTypeOK, Entries
<1>5. /\ first \in [IPs -> Times] /\ admits \in [IPs -> Nat] /\ bannedAt \in [IPs -> Times]
      /\ late \in [IPs -> BOOLEAN]
  BY DEF GateInductive, GateTypeOK
<1>6. pending \in [Threads -> [ip : IPs \cup {NoIP}, at : Times]] BY DEF GateInductive, GateTypeOK
<1>7. \A t2 \in Threads : pending[t2].at <= now BY DEF GateInductive, ClocksPast
<1> HIDE DEF ip, at, slot
<1> DEFINE e == Inserted(ip, at)
<1>8. e \in Entries /\ e.ip = ip /\ EntrySane(e, now) /\ EntryFair(e, at, 1, 0, now)
  BY <1>2, InsertedSane
<1> HIDE DEF e
<1>9. \A i \in SlotIds : table'[i] = IF i = slot THEN e ELSE table[i]
  BY <1>1, <1>3, <1>4 DEF e
<1>10. \A i \in SlotIds : table[i].ip # ip BY <1>1 DEF Holding
<1>11. Idle \in [ip : IPs \cup {NoIP}, at : Times] /\ Idle.at = 0 BY DEF Idle, Times
<1>12. GateTypeOK'
  <2>1. table' \in [SlotIds -> Entries] BY <1>1, <1>3, <1>4, <1>8 DEF e
  <2>2. pending' \in [Threads -> [ip : IPs \cup {NoIP}, at : Times]] BY <1>1, <1>6, <1>11
  <2>3. out' \in [ip : IPs \cup {NoIP}, ok : BOOLEAN] BY <1>1, <1>2
  <2>4. 0 \in Times /\ 1 \in Nat BY DEF Times
  <2>5. first' \in [IPs -> Times] /\ admits' \in [IPs -> Nat] /\ bannedAt' \in [IPs -> Times]
    BY <1>1, <1>2, <1>5, <2>4
  <2>6. late' \in [IPs -> BOOLEAN] BY <1>1, <1>5
  <2> QED BY <1>1, <1>2, <2>1, <2>2, <2>3, <2>5, <2>6 DEF GateTypeOK, Entries
<1>13. ClocksPast'
  <2>1. now \in Nat BY <1>2 DEF Times
  <2> QED BY <1>1, <1>6, <1>7, <1>11, <2>1 DEF ClocksPast
<1>14. OneSlot' BY <1>8, <1>9, <1>10 DEF GateInductive, OneSlot
<1>15. AllSane' BY <1>1, <1>8, <1>9 DEF GateInductive, AllSane
<1>16. AllFair'
  <2> SUFFICES ASSUME NEW i \in SlotIds, table'[i].ip # NoIP, ~late'[table'[i].ip]
               PROVE  EntryFair(table'[i], first'[table'[i].ip], admits'[table'[i].ip],
                                bannedAt'[table'[i].ip], now)
    BY <1>1 DEF AllFair
  <2>1. CASE i = slot
    <3>1. table'[i] = e BY <1>9, <2>1
    <3>2. first'[ip] = at /\ admits'[ip] = 1 /\ bannedAt'[ip] = 0 BY <1>1, <1>2, <1>5
    <3> QED BY <1>8, <3>1, <3>2
  <2>2. CASE i # slot
    <3> DEFINE p == table[i].ip
    <3>1. table'[i] = table[i] /\ p # ip /\ p \in IPs BY <1>4, <1>9, <1>10, <2>2 DEF Entries
    <3>2. first'[p] = first[p] /\ admits'[p] = admits[p] /\ bannedAt'[p] = bannedAt[p]
          /\ late'[p] = late[p]
      BY <1>1, <1>5, <3>1
    <3> QED BY <3>1, <3>2 DEF GateInductive, AllFair
  <2> QED BY <2>1, <2>2
<1>17. OutKnown' BY <1>1 DEF OutKnown
<1>18. BanHolds' BY <1>1, <1>2, <1>5 DEF BanHolds
<1> QED BY <1>12, <1>13, <1>14, <1>15, <1>16, <1>17, <1>18 DEF GateInductive

(* A check of a known address goes through its entry. *)
LEMMA KnownInductive ==
  ASSUME GateInductive, NEW t \in Threads, CheckKnown(t) PROVE GateInductive'
<1> USE GateLimits
<1> DEFINE ip == pending[t].ip
           at == pending[t].at
           slot == Min(Holding(ip))
           old == table[slot]
           e == After(old, at)
           admit == Admits(old, at)
<1>1. /\ ip # NoIP /\ Holding(ip) # {}
      /\ ~Blocked(old, at)
      /\ table' = [table EXCEPT ![slot] = e]
      /\ out' = [ip |-> ip, ok |-> admit]
      /\ admits' = [admits EXCEPT ![ip] = IF admit THEN admits[ip] + 1 ELSE admits[ip]]
      /\ bannedAt' = [bannedAt EXCEPT ![ip] = IF e.banned THEN at ELSE bannedAt[ip]]
      /\ late' = [late EXCEPT ![ip] = late[ip] \/ at < old.last]
      /\ pending' = [pending EXCEPT ![t] = Idle]
      /\ UNCHANGED <<now, first>>
  BY DEF CheckKnown, After, Admits, Seen
<1>2. ip \in IPs /\ at \in Times /\ at <= now /\ now \in Times
  BY <1>1 DEF GateInductive, GateTypeOK, ClocksPast
<1>3. slot \in SlotIds /\ old.ip = ip BY <1>1, SlotFound
<1>4. table \in [SlotIds -> Entries] BY DEF GateInductive, GateTypeOK, Entries
<1>5. /\ first \in [IPs -> Times] /\ admits \in [IPs -> Nat] /\ bannedAt \in [IPs -> Times]
      /\ late \in [IPs -> BOOLEAN]
  BY DEF GateInductive, GateTypeOK
<1>6. pending \in [Threads -> [ip : IPs \cup {NoIP}, at : Times]] BY DEF GateInductive, GateTypeOK
<1>7. \A t2 \in Threads : pending[t2].at <= now BY DEF GateInductive, ClocksPast
<1>8. old \in Entries /\ EntrySane(old, now) BY <1>3, <1>4 DEF GateInductive, AllSane
<1>9. ~late[ip] => EntryFair(old, first[ip], admits[ip], bannedAt[ip], now)
  BY <1>1, <1>3 DEF GateInductive, AllFair
<1>10. \A i \in SlotIds : i # slot => table[i].ip # ip BY <1>1, <1>3 DEF GateInductive, OneSlot
<1> HIDE DEF ip, at, slot, old
<1>11. e \in Entries /\ e.ip = ip /\ EntrySane(e, now)
  BY <1>1, <1>2, <1>3, <1>8, AfterSane
<1>12. ~late'[ip] => old.last <= at /\ ~late[ip]
  <2>1. late'[ip] = (late[ip] \/ at < old.last) BY <1>1, <1>2, <1>5
  <2>2. old.last \in Nat /\ at \in Nat BY <1>2, <1>8 DEF Entries, Times
  <2>3. at < old.last \/ old.last <= at BY <2>2
  <2> QED BY <2>1, <2>3, Zenon
<1>13. first[ip] \in Nat /\ admits[ip] \in Nat /\ bannedAt[ip] \in Nat BY <1>2, <1>5 DEF Times
<1>14. ~late'[ip] => EntryFair(e, first[ip], IF admit THEN admits[ip] + 1 ELSE admits[ip],
                               IF e.banned THEN at ELSE bannedAt[ip], now)
  BY <1>1, <1>2, <1>8, <1>9, <1>12, <1>13, AfterFair
<1>15. admit /\ ~late'[ip] => ~e.banned /\ (bannedAt[ip] = 0 \/ now > bannedAt[ip] + BanNs)
  <2> SUFFICES ASSUME admit, ~late'[ip]
               PROVE  ~e.banned /\ (bannedAt[ip] = 0 \/ now > bannedAt[ip] + BanNs)
    OBVIOUS
  <2>1. bannedAt[ip] = 0 \/ now > bannedAt[ip] + BanNs
    <3>1. Served(old, bannedAt[ip], now) BY <1>9, <1>12 DEF EntryFair
    <3> QED BY <1>1, <1>2, <1>8, <1>12, <1>13, <3>1, BanServed
  <2>2. ~e.banned
    <3> DEFINE s == Seen(old, at)
    <3>1. s \in Entries /\ s.banned = FALSE BY <1>1, <1>2, <1>8, SeenIs
    <3>2. e = Admitted(s, at) /\ s.tokens >= Milli BY DEF After, Admits
    <3> HIDE DEF s, e
    <3>3. e.banned = s.banned BY <1>2, <3>1, <3>2, AdmittedIs
    <3> QED BY <3>1, <3>3
  <2> QED BY <2>1, <2>2
<1>16. admit \in BOOLEAN BY DEF Admits
<1> HIDE DEF e, admit
<1>17. \A i \in SlotIds : table'[i] = IF i = slot THEN e ELSE table[i] BY <1>1, <1>3, <1>4
<1>18. Idle \in [ip : IPs \cup {NoIP}, at : Times] /\ Idle.at = 0 BY DEF Idle, Times
<1>19. GateTypeOK'
  <2>1. table' \in [SlotIds -> Entries] BY <1>1, <1>3, <1>4, <1>11
  <2>2. pending' \in [Threads -> [ip : IPs \cup {NoIP}, at : Times]] BY <1>1, <1>6, <1>18
  <2>3. out' \in [ip : IPs \cup {NoIP}, ok : BOOLEAN] BY <1>1, <1>2, <1>16
  <2>4. admits' \in [IPs -> Nat]
    <3>1. (IF admit THEN admits[ip] + 1 ELSE admits[ip]) \in Nat BY <1>13
    <3> QED BY <1>1, <1>2, <1>5, <3>1
  <2>5. bannedAt' \in [IPs -> Times]
    <3>1. (IF e.banned THEN at ELSE bannedAt[ip]) \in Times BY <1>2, <1>5
    <3> QED BY <1>1, <1>2, <1>5, <3>1
  <2>6. late' \in [IPs -> BOOLEAN]
    <3>1. (late[ip] \/ at < old.last) \in BOOLEAN OBVIOUS
    <3> QED BY <1>1, <1>2, <1>5, <3>1
  <2> QED BY <1>1, <1>2, <1>5, <2>1, <2>2, <2>3, <2>4, <2>5, <2>6 DEF GateTypeOK, Entries
<1>20. ClocksPast'
  <2>1. now \in Nat BY <1>2 DEF Times
  <2> QED BY <1>1, <1>6, <1>7, <1>18, <2>1 DEF ClocksPast
<1>21. OneSlot' BY <1>3, <1>10, <1>11, <1>17 DEF GateInductive, OneSlot
<1>22. AllSane' BY <1>1, <1>11, <1>17 DEF GateInductive, AllSane
<1>23. AllFair'
  <2> SUFFICES ASSUME NEW i \in SlotIds, table'[i].ip # NoIP, ~late'[table'[i].ip]
               PROVE  EntryFair(table'[i], first[table'[i].ip], admits'[table'[i].ip],
                                bannedAt'[table'[i].ip], now)
    BY <1>1 DEF AllFair
  <2>1. CASE i = slot
    <3>1. table'[i] = e BY <1>17, <2>1
    <3>2. /\ admits'[ip] = IF admit THEN admits[ip] + 1 ELSE admits[ip]
          /\ bannedAt'[ip] = IF e.banned THEN at ELSE bannedAt[ip]
      BY <1>1, <1>2, <1>5
    <3> QED BY <1>11, <1>14, <3>1, <3>2
  <2>2. CASE i # slot
    <3> DEFINE p == table[i].ip
    <3>1. table'[i] = table[i] /\ p # ip /\ p \in IPs BY <1>4, <1>10, <1>17, <2>2 DEF Entries
    <3>2. admits'[p] = admits[p] /\ bannedAt'[p] = bannedAt[p] /\ late'[p] = late[p]
      BY <1>1, <1>5, <3>1
    <3> QED BY <3>1, <3>2 DEF GateInductive, AllFair
  <2> QED BY <2>1, <2>2
<1>24. OutKnown' BY <1>1 DEF OutKnown
<1>25. BanHolds'
  <2>1. out'.ok = admit /\ out'.ip = ip BY <1>1
  <2>2. bannedAt'[ip] = IF e.banned THEN at ELSE bannedAt[ip] BY <1>1, <1>2, <1>5
  <2> QED BY <1>1, <1>15, <2>1, <2>2 DEF BanHolds
<1> QED BY <1>19, <1>20, <1>21, <1>22, <1>23, <1>24, <1>25 DEF GateInductive

(* Every step of the gate keeps the invariant. *)
LEMMA GateNextInductive == ASSUME GateInductive, [GateNext]_gateVars PROVE GateInductive'
<1>1. CASE UNCHANGED gateVars
  BY <1>1 DEF gateVars, GateInductive, GateTypeOK, ClocksPast, OneSlot, AllSane, AllFair, OutKnown,
              BanHolds
<1>2. CASE GateNext
  BY <1>2, TickInductive, BeginInductive, NewInductive, KnownInductive, BannedInductive
     DEF GateNext, Check
<1> QED BY <1>1, <1>2

(* The invariant holds in every reachable state. *)
LEMMA GateInductiveHolds == GateSpec => []GateInductive
BY GateInitInductive, GateNextInductive, PTL DEF GateSpec

(* AdmissionInv in every reachable state: buckets within their capacity,   *)
(* and, when one increment is at most the threshold, no unbanned score at  *)
(* it; the halving of orbit_kynx_check at the end of a ban is then enough. *)
THEOREM BucketsBounded == ASSUME Gradual PROVE GateSpec => []AdmissionInv
<1>1. GateInductive => AdmissionInv
  BY DEF GateInductive, AllSane, EntrySane, AdmissionInv, UnbannedBelowThreshold
<1> QED BY <1>1, GateInductiveHolds, PTL

(* RateBound in every reachable state: the token bucket of                 *)
(* orbit_kynx_check, with all its rounding, never admits more than the     *)
(* burst and the rate, whatever the interleaving of checks, as long as     *)
(* none was late.                                                          *)
THEOREM AdmissionsWithinRate == GateSpec => []RateBound
<1> USE GateLimits
<1>1. GateInductive => RateBound
  <2> SUFFICES ASSUME GateInductive, NEW ip \in IPs, Holding(ip) # {}, ~late[ip]
               PROVE  admits[ip] * WindowNs <= Burst * WindowNs + (now - first[ip]) * RateLimit
    BY DEF RateBound
  <2>1. PICK i \in SlotIds : table[i].ip = ip BY DEF Holding
  <2> DEFINE e == table[i]
             n == admits[ip]
             f == first[ip]
  <2>2. ip # NoIP BY AdmissionAssumption
  <2>3. EntryFair(e, f, n, bannedAt[ip], now) /\ e.last <= now
    BY <2>1, <2>2 DEF GateInductive, AllFair, AllSane, EntrySane
  <2>4. n \in Nat /\ f \in Nat /\ e.tokens \in Nat /\ e.last \in Nat /\ now \in Nat
    <3>1. e \in Entries BY DEF GateInductive, GateTypeOK, Entries
    <3> QED BY <3>1 DEF GateInductive, GateTypeOK, Entries, Times
  <2> HIDE DEF e, n, f
  <2>5. f <= e.last /\ Budgeted(e, f, n) BY <2>3 DEF EntryFair
  <2>6. (n * Milli) * WindowNs + e.tokens * WindowNs
          <= (Burst * Milli) * WindowNs + (e.last - f) * (RateLimit * Milli)
    BY <2>5 DEF Budgeted, Cap
  <2> DEFINE d == now - f
             c == e.last - f
  <2>7. d \in Nat /\ c \in Nat /\ c <= d BY <2>3, <2>4, <2>5
  <2> HIDE DEF d, c
  <2>8. c * (RateLimit * Milli) <= d * (RateLimit * Milli)
        /\ c * (RateLimit * Milli) \in Nat /\ d * (RateLimit * Milli) \in Nat
    BY <2>7, TimesMonotone
  <2>9. /\ (n * Milli) * WindowNs = (n * WindowNs) * Milli
        /\ (Burst * Milli) * WindowNs = (Burst * WindowNs) * Milli
        /\ d * (RateLimit * Milli) = (d * RateLimit) * Milli
    BY <2>4, <2>7
  <2>10. /\ n * WindowNs \in Nat /\ Burst * WindowNs \in Nat /\ d * RateLimit \in Nat
         /\ e.tokens * WindowNs \in Nat /\ (n * WindowNs) * Milli \in Nat
         /\ (Burst * WindowNs) * Milli \in Nat /\ (d * RateLimit) * Milli \in Nat
    BY <2>4, <2>7
  <2>11. (n * WindowNs) * Milli <= (Burst * WindowNs) * Milli + (d * RateLimit) * Milli
    BY <2>6, <2>8, <2>9, <2>10 DEF c
  <2>12. (Burst * WindowNs) * Milli + (d * RateLimit) * Milli = (Burst * WindowNs + d * RateLimit) * Milli
    BY <2>10
  <2>13. n * WindowNs <= Burst * WindowNs + d * RateLimit BY <2>10, <2>11, <2>12, TimesCancel
  <2> QED BY <2>13 DEF n, d, f
<1> QED BY <1>1, GateInductiveHolds, PTL

(* BanIsSustained in every reachable state: no ban before as many windows  *)
(* as the increments up to the threshold take.                             *)
THEOREM BansAreSustained == GateSpec => []BanIsSustained
<1>1. GateInductive => BanIsSustained
  BY DEF GateInductive, AllSane, EntrySane, AllFair, EntryFair, Earned, BanIsSustained
<1> QED BY <1>1, GateInductiveHolds, PTL

(* BanHolds in every reachable state: no address is admitted while its ban *)
(* lasts.                                                                  *)
THEOREM BansAreServed == GateSpec => []BanHolds
<1>1. GateInductive => BanHolds BY DEF GateInductive
<1> QED BY <1>1, GateInductiveHolds, PTL

=============================================================================
