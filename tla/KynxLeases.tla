----------------------------- MODULE KynxLeases -----------------------------
(***************************************************************************)
(* Admission tiers of Kynx (runtime/kynx.c, orbit_kynx_lease_create_for_   *)
(* route, orbit_kynx_lease_destroy and kynx_update_admission_state).       *)
(*                                                                         *)
(* Every worker takes a lease for the request it serves, so at most        *)
(* NumWorkers leases are held at once.  Taking and returning one moves the *)
(* shared counter and then recomputes the shared tier without a lock: each *)
(* load and store of it is a step.  Workers that are inside a handler are  *)
(* interchangeable and are counted in `parked'; the ones that are creating *)
(* or destroying a lease are the Movers.                                   *)
(***************************************************************************)
EXTENDS Integers, FiniteSets

CONSTANTS PoolSize,    \* OrbitKynxConfig.pool_size, possibly zero or negative
          NumWorkers,  \* worker threads of the server
          Movers,      \* bound: workers creating or destroying a lease at once
          MaxLost      \* bound: leases whose allocation is refused

ASSUME LeasesAssumption ==
  /\ PoolSize \in Int
  /\ NumWorkers \in Nat \ {0}
  /\ IsFiniteSet(Movers)
  /\ MaxLost \in Nat

VARIABLES
  active,     \* orbit_kynx_active_leases
  state,      \* orbit_kynx_state
  siegeFlag,  \* kynx_siege_active
  parked,     \* workers that hold a lease and run their handler
  lost,       \* leases counted in active that no worker holds any more
  pc,         \* mover: the next step of create or destroy
  op,         \* mover: "create" or "destroy"
  seen,       \* mover: the local `active' of kynx_update_admission_state
  seenState   \* mover: its local `state', then the `new_state' it computed

moverVars == <<pc, op, seen, seenState>>
vars == <<active, state, siegeFlag, parked, lost, moverVars>>

Tiers == {"STABLE", "SHAPED", "GUARDED", "SIEGE"}

-----------------------------------------------------------------------------
(* kynx_pool_thresholds. *)

Pool == IF PoolSize <= 0 THEN 512 ELSE IF PoolSize < 16 THEN 16 ELSE PoolSize
Shaped == IF Pool \div 16 < 1 THEN 1 ELSE Pool \div 16
Guarded == IF Pool \div 4 <= Shaped THEN Shaped + 1 ELSE Pool \div 4
Siege == IF Pool <= Guarded THEN Guarded + 1 ELSE Pool

Release(level) == (level * 3) \div 4

(* Mutant: release compares with < instead of <=. *)
NextTierLateRelease(tier, n) ==
  CASE tier = "STABLE"  -> IF n > Shaped THEN "SHAPED" ELSE "STABLE"
    [] tier = "SHAPED"  -> IF n > Guarded THEN "GUARDED"
                           ELSE IF n < Release(Shaped) THEN "STABLE" ELSE "SHAPED"
    [] tier = "GUARDED" -> IF n > Siege THEN "SIEGE"
                           ELSE IF n < Release(Guarded) THEN "SHAPED" ELSE "GUARDED"
    [] tier = "SIEGE"   -> IF n < Release(Siege) THEN "GUARDED" ELSE "SIEGE"

(* The tier kynx_update_admission_state asks for: one tier at a time, with *)
(* release at three quarters of the level that was entered.                *)
NextTier(tier, n) ==
  CASE tier = "STABLE"  -> IF n > Shaped THEN "SHAPED" ELSE "STABLE"
    [] tier = "SHAPED"  -> IF n > Guarded THEN "GUARDED"
                           ELSE IF n <= Release(Shaped) THEN "STABLE" ELSE "SHAPED"
    [] tier = "GUARDED" -> IF n > Siege THEN "SIEGE"
                           ELSE IF n <= Release(Guarded) THEN "SHAPED" ELSE "GUARDED"
    [] tier = "SIEGE"   -> IF n <= Release(Siege) THEN "GUARDED" ELSE "SIEGE"

-----------------------------------------------------------------------------
Busy == {m \in Movers : pc[m] # "idle"}
Creating == {m \in Movers : pc[m] # "idle" /\ op[m] = "create"}

TypeOK ==
  /\ active \in Int
  /\ state \in Tiers /\ siegeFlag \in BOOLEAN
  /\ parked \in 0 .. NumWorkers /\ lost \in 0 .. MaxLost
  /\ pc \in [Movers -> {"idle", "active", "state", "compare", "store", "flag", "end"}]
  /\ op \in [Movers -> {"create", "destroy"}]
  /\ seen \in [Movers -> Int]
  /\ seenState \in [Movers -> Tiers]

Init ==
  /\ active = 0 /\ state = "STABLE" /\ siegeFlag = FALSE
  /\ parked = 0 /\ lost = 0
  /\ pc = [m \in Movers |-> "idle"]
  /\ op = [m \in Movers |-> "create"]
  /\ seen = [m \in Movers |-> 0]
  /\ seenState = [m \in Movers |-> "STABLE"]

(* A worker that serves no request yet takes the counter's share. *)
StartCreate(m) ==
  /\ pc[m] = "idle"
  /\ parked + Cardinality(Busy) < NumWorkers
  /\ active' = active + 1
  /\ op' = [op EXCEPT ![m] = "create"]
  /\ pc' = [pc EXCEPT ![m] = "active"]
  /\ UNCHANGED <<state, siegeFlag, parked, lost, seen, seenState>>

(* Mutant: the counter moves only after the tier was recomputed. *)
StartDestroyKeepsCount(m) ==
  /\ pc[m] = "idle"
  /\ parked > 0
  /\ parked' = parked - 1
  /\ op' = [op EXCEPT ![m] = "destroy"]
  /\ pc' = [pc EXCEPT ![m] = "active"]
  /\ UNCHANGED <<active, state, siegeFlag, lost, seen, seenState>>

(* A handler returned, or the boundary abandoned the lease. *)
StartDestroy(m) ==
  /\ pc[m] = "idle"
  /\ parked > 0
  /\ parked' = parked - 1
  /\ active' = active - 1
  /\ op' = [op EXCEPT ![m] = "destroy"]
  /\ pc' = [pc EXCEPT ![m] = "active"]
  /\ UNCHANGED <<state, siegeFlag, lost, seen, seenState>>

LoadActive(m) ==
  /\ pc[m] = "active"
  /\ seen' = [seen EXCEPT ![m] = active]
  /\ pc' = [pc EXCEPT ![m] = "state"]
  /\ UNCHANGED <<active, state, siegeFlag, parked, lost, op, seenState>>

(* From here on seenState is the tier asked for; with no change asked for, *)
(* kynx_transition_state is not called.                                    *)
LoadState(m) ==
  /\ pc[m] = "state"
  /\ seenState' = [seenState EXCEPT ![m] = NextTier(state, seen[m])]
  /\ pc' = [pc EXCEPT ![m] = IF NextTier(state, seen[m]) = state THEN "end" ELSE "compare"]
  /\ UNCHANGED <<active, state, siegeFlag, parked, lost, op, seen>>

(* kynx_transition_state: cur != new_state. *)
Compare(m) ==
  /\ pc[m] = "compare"
  /\ pc' = [pc EXCEPT ![m] = IF state # seenState[m] THEN "store" ELSE "end"]
  /\ UNCHANGED <<active, state, siegeFlag, parked, lost, op, seen, seenState>>

StoreState(m) ==
  /\ pc[m] = "store"
  /\ state' = seenState[m]
  /\ pc' = [pc EXCEPT ![m] = "flag"]
  /\ UNCHANGED <<active, siegeFlag, parked, lost, op, seen, seenState>>

StoreFlag(m) ==
  /\ pc[m] = "flag"
  /\ siegeFlag' = (seenState[m] = "SIEGE")
  /\ pc' = [pc EXCEPT ![m] = "end"]
  /\ UNCHANGED <<active, state, parked, lost, op, seen, seenState>>

(* The lease is allocated and becomes current_lease. *)
Grant(m) ==
  /\ pc[m] = "end" /\ op[m] = "create"
  /\ parked' = parked + 1
  /\ pc' = [pc EXCEPT ![m] = "idle"]
  /\ UNCHANGED <<active, state, siegeFlag, lost, op, seen, seenState>>

(* The arena refuses the lease itself: orbit_alloc longjmps to the request *)
(* boundary, where orbit_kynx_lease_abandon finds no current_lease.        *)
GrantRefused(m) ==
  /\ pc[m] = "end" /\ op[m] = "create"
  /\ lost < MaxLost
  /\ lost' = lost + 1
  /\ pc' = [pc EXCEPT ![m] = "idle"]
  /\ UNCHANGED <<active, state, siegeFlag, parked, op, seen, seenState>>

Returned(m) ==
  /\ pc[m] = "end" /\ op[m] = "destroy"
  /\ pc' = [pc EXCEPT ![m] = "idle"]
  /\ UNCHANGED <<active, state, siegeFlag, parked, lost, op, seen, seenState>>

Step(m) ==
  \/ StartCreate(m) \/ StartDestroy(m)
  \/ LoadActive(m) \/ LoadState(m) \/ Compare(m) \/ StoreState(m) \/ StoreFlag(m)
  \/ Grant(m) \/ GrantRefused(m) \/ Returned(m)

Next == \E m \in Movers : Step(m)

Spec == Init /\ [][Next]_vars

-----------------------------------------------------------------------------
(* The counter is exact whatever the interleaving: it is the leases held,  *)
(* the ones being created, and the ones whose allocation was refused after *)
(* the counter had moved.                                                  *)
ActiveExact == active = parked + lost + Cardinality(Creating)

(* The level a tier is entered above, against what the workers can hold. *)
TierAllowed(tier) ==
  /\ tier = "GUARDED" => NumWorkers + lost > Guarded
  /\ tier = "SIEGE" => NumWorkers + lost > Siege

(* A tier needs as many leases as its level, and a lease needs a worker:   *)
(* however updates interleave, GUARDED and SIEGE are out of reach of a     *)
(* server whose workers, and the leases it lost count of, do not exceed    *)
(* the level.                                                              *)
TierNeedsLeases == TierAllowed(state)

(* The inductive form: the counter is exact, what a mover has loaded is    *)
(* bounded too, and a tier it is about to store is one the bound allows.   *)
LeasesInv ==
  /\ TypeOK
  /\ ActiveExact
  /\ parked + Cardinality(Busy) <= NumWorkers
  /\ TierNeedsLeases
  /\ \A m \in Movers :
       /\ seen[m] <= NumWorkers + lost
       /\ TierAllowed(seenState[m])
=============================================================================
