------------------------------- MODULE Arena -------------------------------
(***************************************************************************)
(* One arena (runtime/arena.c, arena_alloc.c, arena_reset.c,               *)
(* arena_checkpoint.c, string_pool.c): a bump allocator over a reserved    *)
(* segment that commits pages on demand, chains a fresh segment when the   *)
(* active one is exhausted, and is emptied by a reset that keeps some      *)
(* pages.  Addresses are pairs of a segment and an offset, in units; a     *)
(* call may be charged to a Kynx lease; the system may refuse memory.      *)
(***************************************************************************)
EXTENDS Naturals, FiniteSets, FiniteSetsExt

CONSTANTS Align, Page,      \* ORBIT_ARENA_ALIGN and the page size
          DefReserve, DefCommit,  \* ORBIT_ARENA_DEFAULT_RESERVE and _COMMIT
          Initial,          \* initial_capacity of orbit_arena_create
          MaxRule,          \* max_rule, 0 for no ceiling
          HotLimit, HotCeiling,   \* ORBIT_ARENA_HOT_RETENTION_LIMIT, _CEILING
          SizeMax,          \* the largest size_t
          Sizes,            \* sizes callers ask for
          Strings,          \* strings callers intern
          LeaseLimit,       \* arena_limit of a request's lease
          MaxSegs, MaxAllocs, MaxResets, MaxCps  \* bounds of the model

Larger(a, b) == IF a > b THEN a ELSE b
Smaller(a, b) == IF a < b THEN a ELSE b

(* orbit_align_up: zero stands for an overflow. *)
AlignUp(n, a) == IF n > SizeMax - (a - 1) THEN 0 ELSE ((n + a - 1) \div a) * a

ASSUME ArenaAssumption ==
  /\ {Align, Page, DefReserve, DefCommit} \subseteq Nat \ {0}
  /\ Page % Align = 0 /\ DefReserve % Page = 0 /\ DefCommit % Page = 0
  /\ DefCommit <= DefReserve
  /\ {Initial, MaxRule, HotLimit, HotCeiling, SizeMax, LeaseLimit} \subseteq Nat
  /\ Sizes \subseteq 1 .. SizeMax
  /\ MaxSegs \in Nat \ {0} /\ {MaxAllocs, MaxResets, MaxCps} \subseteq Nat

VARIABLES
  seg,        \* the active segment; segments are numbered as they are reserved
  cursor, committedEnd, reservedEnd,  \* offsets into it
  retired,    \* overflow_list: [id, size, committed] of the chained segments
  committedBytes, reservedBytes, peakUsed, ceilingHit, generation, allocCount,
  pool,       \* the interning table: string -> block, or no entry
  charged,    \* arena_bytes of the current lease, NoLease without one
  live,       \* history: blocks callers may use
  leaseFrom,  \* history: allocations made before the current lease
  cps,        \* checkpoints callers hold
  reused,     \* history: interning handed out a block a rewind had given back
  refused     \* the last call asked for memory and got none

segVars == <<seg, cursor, committedEnd, reservedEnd, retired, committedBytes, reservedBytes>>
vars == <<segVars, peakUsed, ceilingHit, generation, allocCount, pool, charged,
          leaseFrom, live, cps, reused, refused>>

NoLease == SizeMax + 1
Block == [seg : 1 .. MaxSegs, off : Nat, len : Nat, nth : Nat]  \* nth: its rank since the reset
NoBlock == [seg |-> 0, off |-> 0, len |-> 0, nth |-> 0]
NoEntry == [block |-> NoBlock, dirty |-> FALSE]

TypeOK ==
  /\ seg \in 1 .. MaxSegs
  /\ {cursor, committedEnd, reservedEnd, committedBytes, reservedBytes} \subseteq Nat
  /\ retired \subseteq [id : 1 .. MaxSegs, size : Nat, committed : Nat]
  /\ {peakUsed, leaseFrom, generation, allocCount} \subseteq Nat
  /\ {ceilingHit, refused, reused} \subseteq BOOLEAN
  /\ pool \in [Strings -> [block : Block \cup {NoBlock}, dirty : BOOLEAN]]
  /\ charged \in 0 .. LeaseLimit \cup {NoLease}
  /\ live \subseteq Block
  /\ cps \subseteq [offset : Nat, generation : Nat, nth : Nat]

FirstCommit == AlignUp(IF Initial > 0 THEN Initial ELSE DefCommit, Page)
FirstReserve == Larger(AlignUp(Larger(DefReserve, Initial), Page), FirstCommit)

(* orbit_arena_create, when the system grants the memory. *)
Init ==
  /\ seg = 1 /\ cursor = 0
  /\ committedEnd = FirstCommit /\ reservedEnd = FirstReserve
  /\ committedBytes = FirstCommit /\ reservedBytes = FirstReserve
  /\ retired = {}
  /\ peakUsed = 0 /\ leaseFrom = 0 /\ ceilingHit = FALSE
  /\ generation = 1 /\ allocCount = 0
  /\ pool = [s \in Strings |-> NoEntry]
  /\ charged = NoLease
  /\ live = {} /\ cps = {} /\ reused = FALSE /\ refused = FALSE

-----------------------------------------------------------------------------
(* orbit_alloc_try.  A call that is refused leaves the arena as it was,    *)
(* except for the ceiling flag and for what the lease was charged.         *)

Overlap(a, b) == a.seg = b.seg /\ a.off < b.off + b.len /\ b.off < a.off + a.len

CeilingReached(more) ==
  MaxRule > 0 /\ (more > MaxRule \/ committedBytes > MaxRule - more)

LeaseRefuses(aligned) == charged # NoLease /\ (charged > LeaseLimit \/ aligned > LeaseLimit - charged)

Charge(aligned) == charged' = IF charged = NoLease THEN NoLease ELSE charged + aligned

(* The caller gets `aligned' units at the offset and writes to them. *)
Hand(sg, off, aligned) ==
  live' = live \cup {[seg |-> sg, off |-> off, len |-> aligned, nth |-> allocCount + 1]}

(* The interning table after a write to block b. *)
Overwritten(b) ==
  [s \in Strings |->
     [pool[s] EXCEPT !.dirty = @ \/ Overlap(pool[s].block, b)]]

(* Mutant: the comparison with the committed end forgets the request. *)
FitsCommittedLoose(aligned) == aligned <= reservedEnd - cursor /\ cursor < committedEnd

FitsReserved(aligned) == aligned <= reservedEnd - cursor
FitsCommitted(aligned) == FitsReserved(aligned) /\ cursor + aligned <= committedEnd

Bump(aligned) ==
  /\ cursor' = cursor + aligned
  /\ peakUsed' = Larger(peakUsed, cursor + aligned)
  /\ Hand(seg, cursor, aligned)

AllocFast(aligned) ==
  /\ FitsCommitted(aligned)
  /\ Bump(aligned)
  /\ ceilingHit' = FALSE
  /\ UNCHANGED <<seg, committedEnd, reservedEnd, retired, committedBytes, reservedBytes>>

NeededPages(aligned) == AlignUp(cursor + aligned - committedEnd, Page)

AllocCommit(aligned) ==
  LET more == NeededPages(aligned)
  IN  /\ FitsReserved(aligned) /\ ~FitsCommitted(aligned)
      /\ more > 0 /\ ~CeilingReached(more)
      /\ committedEnd' = committedEnd + more
      /\ committedBytes' = committedBytes + more
      /\ Bump(aligned)
      /\ ceilingHit' = FALSE
      /\ UNCHANGED <<seg, reservedEnd, retired, reservedBytes>>

NewReserve(aligned) == AlignUp(Larger(aligned, DefReserve), Page)
NewCommit(aligned) == AlignUp(Larger(aligned, DefCommit), Page)

(* Mutant: the retired segment's pages no longer count as committed. *)
AllocOverflowForgets(aligned) ==
  /\ ~FitsReserved(aligned) /\ seg < MaxSegs
  /\ NewReserve(aligned) > 0 /\ NewCommit(aligned) > 0
  /\ ~CeilingReached(NewCommit(aligned))
  /\ retired' = retired \cup {[id |-> seg, size |-> reservedEnd, committed |-> committedEnd]}
  /\ seg' = seg + 1
  /\ cursor' = aligned
  /\ committedEnd' = NewCommit(aligned) /\ reservedEnd' = NewReserve(aligned)
  /\ committedBytes' = NewCommit(aligned)
  /\ reservedBytes' = reservedBytes + NewReserve(aligned)
  /\ ceilingHit' = FALSE
  /\ Hand(seg + 1, 0, aligned)
  /\ UNCHANGED peakUsed

(* The new segment serves the request; the high-water mark is not updated. *)
AllocOverflow(aligned) ==
  /\ ~FitsReserved(aligned) /\ seg < MaxSegs
  /\ NewReserve(aligned) > 0 /\ NewCommit(aligned) > 0
  /\ ~CeilingReached(NewCommit(aligned))
  /\ retired' = retired \cup {[id |-> seg, size |-> reservedEnd, committed |-> committedEnd]}
  /\ seg' = seg + 1
  /\ cursor' = aligned
  /\ committedEnd' = NewCommit(aligned) /\ reservedEnd' = NewReserve(aligned)
  /\ committedBytes' = committedBytes + NewCommit(aligned)
  /\ reservedBytes' = reservedBytes + NewReserve(aligned)
  /\ ceilingHit' = FALSE
  /\ Hand(seg + 1, 0, aligned)
  /\ UNCHANGED peakUsed

(* The block served last. *)
Newest == CHOOSE b \in live' : b.nth = allocCount + 1

Granted(aligned) ==
  /\ allocCount < MaxAllocs
  /\ aligned > 0 /\ ~LeaseRefuses(aligned)
  /\ AllocFast(aligned) \/ AllocCommit(aligned) \/ AllocOverflow(aligned)
  /\ allocCount' = allocCount + 1
  /\ Charge(aligned)
  /\ refused' = FALSE
  /\ UNCHANGED <<generation, leaseFrom, cps, reused>>

Alloc(bytes) ==
  /\ Granted(AlignUp(bytes, Align))
  /\ pool' = Overwritten(Newest)

Refused ==
  /\ refused' = TRUE
  /\ UNCHANGED <<segVars, peakUsed, generation, allocCount, pool, leaseFrom, live, cps,
                 reused>>

(* The size cannot be rounded up, or the lease has no room for it. *)
RefuseSize(bytes) ==
  LET aligned == AlignUp(bytes, Align)
  IN  /\ aligned = 0 \/ LeaseRefuses(aligned)
      /\ ceilingHit' = FALSE /\ UNCHANGED charged
      /\ Refused

(* The lease has been charged when the ceiling refuses the pages. *)
RefuseCeiling(bytes) ==
  LET aligned == AlignUp(bytes, Align)
  IN  /\ aligned > 0 /\ ~LeaseRefuses(aligned) /\ ~FitsCommitted(aligned)
      /\ IF FitsReserved(aligned)
         THEN NeededPages(aligned) > 0 /\ CeilingReached(NeededPages(aligned))
         ELSE NewReserve(aligned) > 0 /\ NewCommit(aligned) > 0 /\ CeilingReached(NewCommit(aligned))
      /\ ceilingHit' = TRUE /\ Charge(aligned)
      /\ Refused

(* The system refuses to reserve or to commit, or the size has no page-    *)
(* aligned form.                                                           *)
RefuseSystem(bytes) ==
  LET aligned == AlignUp(bytes, Align)
  IN  /\ aligned > 0 /\ ~LeaseRefuses(aligned) /\ ~FitsCommitted(aligned)
      /\ IF FitsReserved(aligned)
         THEN NeededPages(aligned) = 0 \/ ~CeilingReached(NeededPages(aligned))
         ELSE NewReserve(aligned) = 0 \/ NewCommit(aligned) = 0 \/ ~CeilingReached(NewCommit(aligned))
      /\ ceilingHit' = FALSE /\ Charge(aligned)
      /\ Refused

-----------------------------------------------------------------------------
(* orbit_string_intern: a string of one alignment unit.  An entry whose    *)
(* bytes were overwritten no longer compares equal.                        *)

InternHit(s) ==
  /\ pool[s].block # NoBlock /\ ~pool[s].dirty
  /\ live' = live \cup {pool[s].block}
  /\ reused' = (reused \/ pool[s].block \notin live)
  /\ refused' = FALSE
  /\ UNCHANGED <<segVars, peakUsed, ceilingHit, generation, allocCount, pool, charged,
                 leaseFrom, cps>>

InternMiss(s) ==
  /\ pool[s].block = NoBlock \/ pool[s].dirty
  /\ Granted(Align)
  /\ pool' = [Overwritten(Newest) EXCEPT ![s] = [block |-> Newest, dirty |-> FALSE]]

-----------------------------------------------------------------------------
(* orbit_kynx_lease_create_for_route and _destroy, as the allocator sees   *)
(* them: the request's allocations are charged from here on, or no more.   *)

LeaseBegin ==
  /\ charged = NoLease
  /\ charged' = 0 /\ leaseFrom' = allocCount
  /\ UNCHANGED <<segVars, peakUsed, ceilingHit, generation, allocCount, pool, live, cps,
                 reused, refused>>

LeaseEnd ==
  /\ charged # NoLease
  /\ charged' = NoLease
  /\ UNCHANGED <<segVars, peakUsed, ceilingHit, generation, allocCount, pool, leaseFrom, live,
                 cps, reused, refused>>

-----------------------------------------------------------------------------
Checkpoint ==
  /\ Cardinality(cps) < MaxCps
  /\ cps' = cps \cup {[offset |-> cursor, generation |-> generation, nth |-> allocCount]}
  /\ UNCHANGED <<segVars, peakUsed, ceilingHit, generation, allocCount, pool, charged,
                 leaseFrom, live, reused, refused>>

(* Mutant: the generation of the checkpoint is not looked at. *)
RewindableAnyEpoch(cp) == cp.offset <= cursor

(* A checkpoint of an earlier epoch, or ahead of the cursor, is refused. *)
Rewindable(cp) == cp.generation = generation /\ cp.offset <= cursor

(* What was allocated after the checkpoint is no longer the callers'. *)
Rewind(cp) ==
  /\ Rewindable(cp)
  /\ cursor' = cp.offset
  /\ live' = {b \in live : b.nth <= cp.nth}
  /\ UNCHANGED <<seg, committedEnd, reservedEnd, retired, committedBytes, reservedBytes,
                 peakUsed, ceilingHit, generation, allocCount, pool, charged, leaseFrom,
                 cps, reused, refused>>

(* What a reset leaves committed. *)
KeepSize ==
  Smaller(AlignUp(Smaller(Larger(HotLimit, cursor), HotCeiling), Page), reservedEnd)

(* orbit_arena_reset, between requests: no lease is current. *)
Reset ==
  /\ charged = NoLease /\ generation <= MaxResets
  /\ retired' = {}
  /\ committedEnd' = Smaller(committedEnd, KeepSize)
  /\ committedBytes' = Smaller(committedEnd, KeepSize)
  /\ reservedBytes' = reservedEnd
  /\ cursor' = 0 /\ allocCount' = 0 /\ generation' = generation + 1
  /\ pool' = [s \in Strings |-> NoEntry]
  /\ live' = {} /\ leaseFrom' = 0 /\ reused' = FALSE
  /\ UNCHANGED <<seg, reservedEnd, peakUsed, ceilingHit, charged, cps, refused>>

Next ==
  \/ \E n \in Sizes : Alloc(n) \/ RefuseSize(n) \/ RefuseCeiling(n) \/ RefuseSystem(n)
  \/ \E s \in Strings : InternHit(s) \/ InternMiss(s)
  \/ LeaseBegin \/ LeaseEnd
  \/ Checkpoint \/ (\E cp \in cps : Rewind(cp))
  \/ Reset

Spec == Init /\ [][Next]_vars

-----------------------------------------------------------------------------
(* The committed part of a segment the arena owns, 0 of one it does not. *)
CommittedOf(id) ==
  IF id = seg THEN committedEnd
  ELSE LET rs == {r \in retired : r.id = id}
       IN  IF rs = {} THEN 0 ELSE (CHOOSE r \in rs : TRUE).committed

(* Two blocks callers hold never share a unit, whatever sequence of        *)
(* allocations, chained segments, rewinds and resets produced them; unless *)
(* an interned string was asked for again after a rewind past it, which    *)
(* the interning table does not notice.                                    *)
LiveDisjoint == ~reused => \A a, b \in live : a # b => ~Overlap(a, b)

(* Every block a caller holds lies in the committed part of a segment the  *)
(* arena still owns, after segments were chained and the cursor rewound.   *)
LiveMapped == \A b \in live : b.off + b.len <= CommittedOf(b.seg)

(* The sum of the values of f. *)
Total(f) == MapThenSumSet(LAMBDA x : f[x], DOMAIN f)

CommittedSum == committedEnd + Total([r \in retired |-> r.committed])

(* The cursor stays within the committed part, that within the             *)
(* reservation, and the byte counters agree with the segments.             *)
BytesExact ==
  /\ cursor <= committedEnd /\ committedEnd <= reservedEnd
  /\ committedBytes = CommittedSum
  /\ reservedBytes = reservedEnd + Total([r \in retired |-> r.size])

SinceLease == {b \in live : b.nth > leaseFrom}

(* Every byte a request was handed since its lease began is charged to the *)
(* lease, and the lease is never charged past its limit.                   *)
LeaseHeld ==
  charged # NoLease =>
    /\ Total([b \in SinceLease |-> b.len]) <= charged
    /\ charged <= LeaseLimit

(* The ceiling bounds what the arena has committed over all its segments,  *)
(* except for what its creation committed at once.                         *)
CeilingHeld == MaxRule > 0 => CommittedSum <= Larger(MaxRule, FirstCommit)

(* The accounts of the arena: types, byte counters, lease and ceiling. *)
AccountsExact == TypeOK /\ BytesExact /\ LeaseHeld /\ CeilingHeld
=============================================================================
