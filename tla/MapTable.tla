------------------------------ MODULE MapTable ------------------------------
(***************************************************************************)
(* OrbitMap (runtime/collections.c): open addressing with linear probing,  *)
(* doubled at 75% load, and deletion without tombstones, which takes the   *)
(* entries that follow the deleted one out and inserts them again one by   *)
(* one.  A resize and a deletion take one step per bucket, so that what    *)
(* the loops rely on can be seen half way.  An allocation may be refused.  *)
(***************************************************************************)
EXTENDS Naturals, FiniteSets, FiniteSetsExt

CONSTANTS Keys, NoKey, Values, NoValue,
          Deleted,         \* orbit_result_ok(NULL), of a deletion
          Hash,            \* orbit_map_hash: [Keys -> Nat]
          InitialBuckets,  \* ORBIT_MAP_INITIAL_BUCKETS (16), a power of two
          MaxBuckets       \* bound: the table does not grow past this

ASSUME MapAssumption ==
  /\ NoKey \notin Keys /\ NoValue \notin Values
  /\ Hash \in [Keys -> Nat]
  /\ InitialBuckets \in Nat /\ InitialBuckets >= 4  \* below, 75% and one more is full
  /\ MaxBuckets \in Nat /\ InitialBuckets <= MaxBuckets

VARIABLES
  buckets,    \* map->buckets, indexed from 0
  entries,    \* map->count
  mapPc,      \* "idle", "resize", "insert", "rehash"
  call,       \* the set or delete under way: [key, value]
  fresh,      \* new_buckets of the resize
  at,         \* i of the resize, next of the deletion
  mapAnswer   \* of the last call; NoValue for an error

mapVars == <<buckets, entries, mapPc, call, fresh, at, mapAnswer>>

Vacant == [key |-> NoKey, value |-> NoValue]
Empty(n) == [i \in 0 .. n - 1 |-> Vacant]
Size(b) == Cardinality(DOMAIN b)
NoCall == [key |-> NoKey, value |-> NoValue]

MapTypeOK ==
  /\ Size(buckets) \in InitialBuckets .. MaxBuckets
  /\ buckets \in [0 .. Size(buckets) - 1 -> {Vacant} \cup [key : Keys, value : Values]]
  /\ entries \in 0 .. Size(buckets)
  /\ mapPc \in {"idle", "resize", "insert", "rehash"}
  /\ at \in 0 .. Size(buckets) /\ (mapPc = "rehash" => at < Size(buckets))

MapInit ==
  /\ buckets = Empty(InitialBuckets) /\ entries = 0
  /\ mapPc = "idle" /\ call = NoCall /\ fresh = Empty(0) /\ at = 0
  /\ mapAnswer = NoValue

-----------------------------------------------------------------------------
Occupied(b) == {i \in DOMAIN b : b[i] # Vacant}

(* The buckets in the order a search that begins at the hash visits them.  *)
Probe(b, h, d) == (h + d) % Size(b)

(* Where a search for the key ends: at its bucket or at the first vacant   *)
(* one.  Without either it would not end; ProbeEnds says there is one.     *)
Search(b, k) ==
  Probe(b, Hash[k], Min({d \in 0 .. Size(b) - 1 :
    b[Probe(b, Hash[k], d)] = Vacant \/ b[Probe(b, Hash[k], d)].key = k}))

(* The loops that insert an entry again look at vacancy only. *)
Insert(b, e) ==
  [b EXCEPT ![Probe(b, Hash[e.key], Min({d \in 0 .. Size(b) - 1 :
     b[Probe(b, Hash[e.key], d)] = Vacant}))] = e]

(* Mutant: the table is resized when it is full. *)
OverloadedWhenFull == entries > Size(buckets)

Overloaded == entries * 100 >= Size(buckets) * 75

-----------------------------------------------------------------------------
(* orbit_map_set up to the resize it may need; a table at MaxBuckets is    *)
(* not asked to grow, a bound of the model.                                *)
SetBegin(k, v) ==
  /\ mapPc = "idle"
  /\ Overloaded => Size(buckets) * 2 <= MaxBuckets
  /\ call' = [key |-> k, value |-> v]
  /\ IF Overloaded
     THEN mapPc' = "resize" /\ fresh' = Empty(Size(buckets) * 2) /\ at' = 0
     ELSE mapPc' = "insert" /\ UNCHANGED <<fresh, at>>
  /\ UNCHANGED <<buckets, entries, mapAnswer>>

(* orbit_map_resize: one old bucket. *)
ResizeStep ==
  /\ mapPc = "resize" /\ at < Size(buckets)
  /\ fresh' = IF buckets[at] = Vacant THEN fresh ELSE Insert(fresh, buckets[at])
  /\ at' = at + 1
  /\ UNCHANGED <<buckets, entries, mapPc, call, mapAnswer>>

ResizeDone ==
  /\ mapPc = "resize" /\ at = Size(buckets)
  /\ buckets' = fresh /\ fresh' = Empty(0) /\ at' = 0
  /\ mapPc' = "insert"
  /\ UNCHANGED <<entries, call, mapAnswer>>

CountedIfNew(i) == IF buckets[i] = Vacant THEN entries + 1 ELSE entries

(* The value is stored in the key's bucket, or in the vacant one found. *)
SetStore ==
  LET i == Search(buckets, call.key)
  IN  /\ mapPc = "insert"
      /\ buckets' = [buckets EXCEPT ![i] = call]
      /\ entries' = CountedIfNew(i)
      /\ mapAnswer' = call.value
      /\ mapPc' = "idle" /\ call' = NoCall
      /\ UNCHANGED <<fresh, at>>

(* An allocation is refused: of the new buckets before anything moved, or  *)
(* of the value; the call ends and a finished resize stays.                *)
SetRefused ==
  /\ \/ mapPc = "resize" /\ at = 0
     \/ mapPc = "insert"
  /\ mapAnswer' = NoValue
  /\ mapPc' = "idle" /\ call' = NoCall /\ fresh' = Empty(0)
  /\ UNCHANGED <<buckets, entries, at>>

(* orbit_map_get and orbit_map_has. *)
MapGet(k) ==
  /\ mapPc = "idle"
  /\ mapAnswer' = buckets[Search(buckets, k)].value
  /\ UNCHANGED <<buckets, entries, mapPc, call, fresh, at>>

(* Mutant: the entries behind the deleted one stay where they are. *)
RehashNothing(i) == mapPc' = "idle"

RehashFrom(i) == mapPc' = "rehash"

NextBucket(i) == (i + 1) % Size(buckets)

(* orbit_map_delete: the entry is dropped, the cluster behind it follows. *)
DeleteBegin(k) ==
  LET i == Search(buckets, k)
  IN  /\ mapPc = "idle"
      /\ mapAnswer' = IF buckets[i] = Vacant THEN NoValue ELSE Deleted
      /\ IF buckets[i] = Vacant
         THEN UNCHANGED <<buckets, entries, mapPc, at>>
         ELSE /\ buckets' = [buckets EXCEPT ![i] = Vacant]
              /\ entries' = entries - 1
              /\ RehashFrom(i)
              /\ at' = NextBucket(i)
      /\ UNCHANGED <<call, fresh>>

(* Mutant: the loop does not move on. *)
RehashStays ==
  /\ mapPc = "rehash" /\ buckets[at] # Vacant
  /\ buckets' = Insert([buckets EXCEPT ![at] = Vacant], buckets[at])
  /\ UNCHANGED <<entries, mapPc, call, fresh, at, mapAnswer>>

(* The entry at `next' is taken out and inserted again. *)
RehashStep ==
  /\ mapPc = "rehash" /\ buckets[at] # Vacant
  /\ buckets' = Insert([buckets EXCEPT ![at] = Vacant], buckets[at])
  /\ at' = NextBucket(at)
  /\ UNCHANGED <<entries, mapPc, call, fresh, mapAnswer>>

RehashDone ==
  /\ mapPc = "rehash" /\ buckets[at] = Vacant
  /\ mapPc' = "idle" /\ at' = 0
  /\ UNCHANGED <<buckets, entries, call, fresh, mapAnswer>>

(* The steps of a call that was begun. *)
MapLoop == ResizeStep \/ ResizeDone \/ SetStore \/ SetRefused \/ RehashStep \/ RehashDone

MapNext ==
  \/ \E k \in Keys : MapGet(k) \/ DeleteBegin(k) \/ \E v \in Values : SetBegin(k, v)
  \/ MapLoop

MapSpec == MapInit /\ [][MapNext]_mapVars

-----------------------------------------------------------------------------
(* Every search meets a vacant bucket: no probe loop runs for ever, not    *)
(* even in the table a resize or a deletion is half way through.           *)
ProbeEnds ==
  /\ Occupied(buckets) # DOMAIN buckets
  /\ mapPc = "resize" => Occupied(fresh) # DOMAIN fresh

(* No key is in two buckets, and the count that decides about the next     *)
(* resize is the number of occupied buckets.                               *)
KeyedOnce ==
  /\ \A i, j \in Occupied(buckets) : buckets[i].key = buckets[j].key => i = j
  /\ entries = Cardinality(Occupied(buckets))

(* What every loop over the table relies on, between any two of its steps. *)
MapInv == MapTypeOK /\ ProbeEnds /\ KeyedOnce

(* Every set and every deletion ends: the loop that inserts the entries of *)
(* a cluster again comes to a vacant bucket, though it moves entries into  *)
(* buckets ahead of itself.                                                *)
MapCallsEnd == mapPc # "idle" ~> mapPc = "idle"

(* The table as the function it stands for: a key is looked for in every   *)
(* bucket, where the code looks along its probe sequence only.             *)
Content ==
  [k \in Keys |->
     LET at_k == {i \in DOMAIN buckets : buckets[i].key = k}
     IN  IF at_k = {} THEN NoValue ELSE buckets[Min(at_k)].value]

(* Seen from outside, the table is the map of AbstractMap: what was set is *)
(* found until it is deleted or set anew, across collisions, wrap-around,  *)
(* resizes, deletions out of the middle of a cluster and refused memory.   *)
Abstract == INSTANCE AbstractMap WITH content <- Content, answer <- mapAnswer, Done <- Deleted
ImplementsMap == Abstract!Spec
=============================================================================
