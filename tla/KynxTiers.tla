----------------------------- MODULE KynxTiers -----------------------------
(***************************************************************************)
(* KynxLeases with a history of how its updates overlapped.                *)
(***************************************************************************)
EXTENDS KynxLeases

VARIABLES
  raced,  \* two workers have recomputed the tier at once
  alone   \* updates since then, up to three, that nobody overlapped

tiersVars == <<vars, raced, alone>>

Starts == Cardinality(Busy') > Cardinality(Busy)
Overlaps == Starts /\ Busy # {}

History ==
  /\ raced' = (raced \/ Overlaps)
  /\ alone' = CASE Overlaps -> 0
                [] Starts /\ Busy = {} /\ alone < 3 -> alone + 1
                [] OTHER -> alone

TiersInit == Init /\ raced = FALSE /\ alone = 3
TiersNext == Next /\ History
TiersSpec == TiersInit /\ [][TiersNext]_tiersVars

Quiescent == Busy = {}

(* The hysteresis band of the tier. *)
InBand ==
  /\ state = "STABLE"  => active <= Shaped
  /\ state = "SHAPED"  => active > Release(Shaped) /\ active <= Guarded
  /\ state = "GUARDED" => active > Release(Guarded) /\ active <= Siege
  /\ state = "SIEGE"   => active > Release(Siege)

(* Between updates the tier is the one the number of active leases calls   *)
(* for, within the hysteresis band; when two workers have recomputed it at *)
(* once it may be any tier, but three updates that nobody disturbs put it  *)
(* right whatever the race left behind: they move it a tier at a time.     *)
(* What orbit_kynx_is_siege_mode tells agrees with the tier as long as no  *)
(* two transitions have stored tier and flag at once.                      *)
QuiescentTier ==
  Quiescent => (alone = 3 => InBand) /\ (~raced => (siegeFlag <=> state = "SIEGE"))
=============================================================================
