# Orbit: a TLA+ model of the generated server and its runtime

Orbit is a language whose compiler (written in Orbit, `compiler/`) translates
programs to C and links them with a runtime (`runtime/`). A program with routes
becomes an HTTP server: the compiler emits the router, the worker loop and
`main` (`compiler/emit/route_runtime.orb`) around the runtime's accept queues,
arenas, admission control ("Kynx"), cost ledger, HTTP parser and SQLite layer;
`orbit cluster` runs several such processes. This directory models that server
and what it stands on: the part of Orbit in which threads share memory, clients
misbehave, memory runs out in the middle of a request, processes die in the
middle of a migration and a stop has to end everything.

Paths below are relative to the repository root. `PROJECT.json` maps every
definition to the lines it models and lists the runs, hazards and findings.

## 1. Inventory

| Component | State | Operations | Interacts with | What is hard |
|---|---|---|---|---|
| Accept ring (`runtime/thread_pool.c:91-127`) | slots, head, tail | push, pop, empty test | acceptor pushes, one worker pops, no lock | stale index reads, full versus empty, publication order |
| Server threads (`thread_pool.c:129-246`, `route_runtime.orb:390-830`) | stop flag, listener, rings, wake sockets; per worker: slots, receive buffers, peer strings, free stacks, readfds | accept and dispatch; select, adopt, receive, run the request loop, drop; stop, close, join | clients and kernel; the router | round-robin over full rings, lost wake-ups, swap-remove over parallel arrays, drain, termination |
| Kynx tiers and leases (`runtime/kynx.c:780-1030`) | active count, tier, siege flag, current lease | create, destroy, recompute, transition | router; `orbit_alloc` charges the lease | unlocked read-modify-write, hysteresis, leases lost to a longjmp |
| Kynx gates (`kynx.c:380-780`) | sharded table of token buckets with scores and bans; table of route buckets | check, refill, violate, ban, unban, evict, advise a wait | router asks before every request | clock read before the lock, unsigned differences, eviction, rounding, overflow |
| Request arena (`runtime/arena*.c`, `string_pool.c`) | current segment, retired segments, counters, generation, interning table | create, alloc (three paths), intern, checkpoint, rewind, reset | every allocation of a request; lease and ceiling | stale checkpoints, wrapping sizes, several refusals with different side effects |
| Request path (`route_runtime.orb:225-330, 540-600`, `arena_oom.c`) | lease, boundary, response, place in the router | parse, gate, lease, handle, send, release, refuse, boundary answer | all of the above | a longjmp out of any depth; answering when memory is refused |
| Cost ledger (`runtime/ledger.c`) | 64 rows: used, key, count, cost | enter, exit | handlers of all workers | lock-free search and claim; a key visible before it is written |
| HTTP framing (`runtime/http.c:120-420`, `route_runtime.orb:540-600`) | receive buffer, bytes parsed of it | parse, refuse by limit, consume, shift | the worker loop; the router behind it | a stream cut anywhere, limits judged on partial data, zeros written in place into a buffer that holds the next request |
| Database (`runtime/database.c:195-940`) | one SQLite connection; a buffer per read | get, all, where, order, add, set, del | handlers of all workers | one connection for all threads, rows cut to buffers, JSON by text search |
| Start-up: seed and migrations (`database.c:70-190`) | marks, seed rows, SQLite's write lock | open, seed, check, execute, mark, commit | all processes of a cluster open one file | a crash at any step, two processes at the same step, a statement that fails |
| Map (`runtime/collections.c:130-330`) | buckets, count | set with resize, get, has, delete | programs | unbounded probe loops, re-insertion after a deletion, refused memory half way |
| Cluster tool (`compiler/host/cluster.orb`) | `.orbit/cluster.json`, processes | up, drain, restart, down | nodes; other commands | no lock on the file, a write that truncates first, bounded waits, one of several spawns failing |
| Outgoing HTTP client | none | fetch | programs | one blocking exchange |
| Arena pool, child and global arenas | free list, counters | acquire, release | not used by the generated server | lost counts |
| Energy, pulse, perf | sampler thread, counters | start, stop, read | ledger, console | start/stop races |
| Rest of the library (strings, lists, JSON, files, OS, crypto, auth) | none | pure or system calls | programs | sequential |
| Compiler, driver | files | compile | | sequential; correctness speaks of all programs |

What makes each modelled component correct is stated with it in section 3.
The hazards (`PROJECT.json`, "hazards") are the places where a test would hardly
reach; each names the properties that watch it or says why none does.

## 2. Modules

    BoundedFIFO <---refines--- AcceptQueue <--- AcceptQueue_proof
         ^ (its actions are the ring operations of)
       Server      <--- Server_proof       threads, pools, drain, stop
    KynxLeases <--- KynxTiers <-+- Kynx_proof      leases and tiers
    KynxBucket <--- KynxAdmission, KynxRoute <-+   gates
    AbstractMap <---refines--- MapTable <-+- Storage_proof   the map of the language
    Arena                               <-+                  memory of one worker
    Migrations     <-+- Process_proof      start-up of several processes on one file
    Request        <-+                     one worker's path through the router
    Database       <-+                     queries of several workers on one connection
    HttpFraming    <-+                     a connection's bytes, cut into requests
    Ledger         <--- Ledger_proof       cost table
    Cluster        <--- Cluster_proof      commands, state file, nodes
    Lemmas         facts about least numbers, finite sums, products, quotients and
                   rings that the proof modules share

Each `MC*` module extends one of these and gives its structured constants
(functions, symmetry). `MCParts` extends five modules that
share no variable (`Request`, `HttpFraming`, `MapTable`, `Database`, `Migrations`):
its variable `part` picks one of them in the initial state, and only that one
takes steps, so its state graph is the five graphs side by side. Definitions marked
"Mutant" in the modules are plausible mistakes in the code they stand next to;
they are never part of a specification and serve to show that a property can
fail (`PROJECT.json`, "mutants").

An invariant that only collects the type invariant of a module and the facts
that belong to it is named `...Inv` (or `AccountsExact`); its parts are named definitions of
their own, and their comments say what each is about.

| Module | Models | Correspondence |
|---|---|---|
| `BoundedFIFO` | what the ring promises | a sequence; offer (accepted, or refused when full) and take |
| `AcceptQueue` | `OrbitAcceptQ` | one action per shared access: check, fill, publish; check, take, release. The acquire/release pairs order what one producer and one consumer see, so the steps are interleaved sequentially consistently |
| `Server` | `orbit_acceptor_loop`, the worker loop, the tail of `main` | `clients[w]` is the five parallel arrays as one sequence of slots; `AccDispatch` is one iteration of the dispatch loop; `WorkerServe` is the head of an iteration over the clients, down to recv; `HandleRequest` is one pass of the inner request loop (`turn[w]` holds its `drop`, `parsed` and `keep_alive`), with what the router may answer in `Outcomes`; `FinishTurn` is what follows the loop, to the end of the iteration. `owed` records the connections of which a whole request was received and not answered yet |
| `KynxLeases` | `kynx_create_lease`, `kynx_destroy_lease`, `kynx_update_admission_state`, `kynx_transition_state` | each atomic load and store is a step of a mover (a worker inside the functions); other workers are counted: `parked` holding a lease, `lost` leases |
| `KynxTiers` | the same | `KynxLeases` with a history of which updates overlapped, which `QuiescentTier` speaks of |
| `KynxBucket` | `kynx_refill`, `kynx_route_refill` and unsigned time differences | arithmetic modulo `Word` |
| `KynxAdmission` | `kynx_admission_check` on one shard | `Begin` reads the clock, `Check*` is everything under the shard's lock |
| `KynxRoute` | the route bucket of `kynx_route_admission_check` | same split; the global gate's answer is a free choice here |
| `Arena` | `orbit_arena_create/alloc/reset/checkpoint/rewind`, `orbit_string_intern` | blocks are records (segment, offset, length); each refusal keeps exactly the side effects that precede it in the code |
| `Request` | the emitted router and the out-of-memory boundary | `pc` is the place in the router; the parser, handlers and gates are their outcomes; an allocation is `Build`, a refusal `Refuse` |
| `Ledger` | `orbit_ledger_enter`, `orbit_ledger_exit` | one action per row looked at; the key is written in a step after the claim and may be read half-written |
| `HttpFraming` | `orbit_http_parse_request_ex` and the receive loop | a byte is a symbol, a header field is one symbol; `Recv` returns any part of what has arrived; `Parse` gives the parser's answer on the buffer, `Zeroed` the places it writes NUL into; `RefuseRequest`, `HandleRequest`, `OutOfMemory` and `ShiftBuffer` are the ways through the request loop |
| `AbstractMap` | what a map promises | a partial function and the answer to the last call |
| `MapTable` | `orbit_map_set/get/has/delete`, `orbit_map_resize` | one step per bucket of a resize and of the re-insertion after a deletion; `Search` is the probe loop, the content during a loop is what is in the old, new and held buckets together |
| `Database` | `orbit_db_get/all/where/order/add/set/del`, `orbit_row_to_json`, `orbit_json_get_value` | a call is begun, runs its statement, and reads `changes` in a further step; a write that fails (`WriteFails`, a duplicate `Add`) changes no row and sets `changes` to 0; a scan takes one step per row; text is symbols, encoded and decoded as the code does |
| `Migrations` | `orbit_db_init`, `orbit_run_migrations` | one step per SQL statement; `Misread` is a look at a mark that fails; `lock` is SQLite's write lock; `Die` at any step undoes the open transaction |
| `Cluster` | `cluster.orb`, with `file.c`'s truncate-then-write | one step per truncation, write, wait and spawn of a command; processes end when they like. What a command does between two of them is one step: a restart's read of the file, its probe and its signal (`RestartNode`), a drain's or a down's signals. The file is read once in it, a pid it holds is never used again, and a process that ends in between is told in vain, so nothing another command does in between is told apart |

## 3. Runs

Eleven runs hold (`pass`); one shows where the code does not do what its comments
say (`violation`, section 6).

| Run | Instance | States | Shows |
|---|---|---|---|
| accept_ring | 4 slots, 3 sockets | 43 000 | `NoSlotRace`: a slot is never written while it may be read; `ImplementsFifo`: the ring is a FIFO of 3, and 0 is returned only by a push on a full or a pop on an empty ring |
| server_pools | 1 worker with 2 slots, ring of 1; one client whose requests exceed the buffer, two that pipeline | 3.0 million (view) | `PoolInv`: a socket is in one place only, every buffer and peer string has one owner and none is lost; `NoneIgnored`: a whole request is owed its answer only while its worker is in the request loop of that connection: the loop is not left, nor the connection closed, over one |
| server_threads | 2 workers, 3 connections, rings of 1, clients that only hang up | 203 000 | `Ownership` through dispatch, full rings, adoption, drain and stop |
| server_live | 1 worker with 1 slot, 2 connections | 177 000 | `RingsDrain`, `RequestsServed`, `StopEnds`, with wake datagrams lost at will |
| server_stop_hangs | 2 workers, 1 connection | violation | `StopAlwaysEnds` fails |
| leases_tiers | pool 16 (levels 1, 4, 16), 18 workers, 2 of them in an update, 1 lost lease | 850 000 | `LeasesInv`: the count is exact; `QuiescentTier`: a tier that a race left wrong is right again after three undisturbed updates, never wrong without races, and then agrees with the siege flag |
| admission_gate | 2 addresses, 2 threads, 1 slot, rate 1 per window of 2, burst 2, threshold 2, time to 6 | 790 000 | `AdmissionInv`: bounds of every bucket, and who is not banned is below the threshold, always; `RateBound`, `BanIsSustained`, `BanHolds` where no thread came late |
| route_gate | rate 2, window 6, burst 3, 2 threads, evictions, time to 18 | 344 000 | `RouteInv`: bounds, and a wait as advised is short by less than a millisecond; `IdleWindowAdmits` |
| arena_blocks | alignment 2, page 4, reservation 8, 3 segments, 4 allocations, 1 string, 1 checkpoint, 1 reset | 520 000 | `LiveDisjoint`, `LiveMapped`; `AccountsExact`: counters agree with segments, lease and ceiling are held |
| ledger_rows | 3 threads, 4 rows, 5 calls, 2 keys, one a prefix of the other | 145 000 | `OwnRow`, `CallsAccounted`; `LedgerInv`: a key has at most one row per thread |
| runtime_parts | request: budgets 0 to 3, asks to 3. Framing: buffer 18, 2 pipelined requests, line 6, header block 7 bytes and 2 fields, body 4. Map: 4 buckets growing to 8, 5 keys, 2 values. Database: 2 workers, 3 rows, 4 calls, buffers 38, 23, 22. Start-up: 3 processes, 2 migrations, 2 seed rows, 4 starts | 417 000 | see below |
| cluster_tool | 2 commands at a time, 4 in all, 2 nodes, 4 processes | 1.07 million | `ClusterInv`: no running node is unknown to the file and to every command, and after a `down` that reported success every process was told to stop and no file is left; `DrainedStay`; `OneAtATime`: a rolling restart takes a second node out only after the first is back |

runtime_parts, by part:

* Request path. `OneAnswer`: a complete request is answered, once (with two
  exceptions, section 6), wherever memory is refused. `NoLeaseAcrossReset`.
* Framing. `FramedAsSent`: the requests handled are the requests sent, byte for
  byte, however the stream is cut and whatever the parser wrote into the
  buffer. `AnsweredByLimits`: the answer to a request is the one its size calls
  for, independent of how it arrived. `HttpInv`: nothing whole is left waiting.
* Map. `ImplementsMap`: every call answers, and changes the content, as a map
  does. `MapInv`: there is always a vacant bucket to end a probe, and no key is
  there twice, also half way through a deletion. `MapCallsEnd`.
* Database. `DbInv`: no write passes its buffer. `RowsWhole`: a row that fits is
  returned whole and an array holds whole rows. `TrueIffChanged`: set and del
  say whether they changed a row, unless another worker's write, done or failed,
  came in between. `PayloadFound`: the value of a column is read back from a payload
  as it was written, with the exceptions of section 6.
* Start-up. `RunOnce`: a migration is committed once unless two processes were
  at the same one, its mark was not inserted, or a look at the mark failed. `ServesMigrated`: a process that
  serves has every migration behind it. `BootInv`: marked means applied, and a
  seed is whole unless it was interrupted.

Why the bounds are enough. Ring: head and tail pass the end of the array in every
position relative to each other. Server: one connection more than slots makes
refusal and reuse happen, two slots are the least for which a swap-remove moves
another slot, and a ring of one with three connections makes the dispatch loop
try the next worker and give up; the ring's own order and capacity are the
business of `AcceptQueue`. Leases: with a pool of 16 every tier is entered and left.
Gates: time reaches past two windows and a ban, so refills, violations in
different windows, a ban and its expiry all happen; a milli-token is a third or a
quarter of a token instead of a thousandth, so the remainders of the divisions,
which are what matters, occur. Arena: sizes include one that needs a segment of its
own and the largest machine size, so every wrap-around test is exercised. Request:
every budget class, with asks below, at and above its budget. Ledger: two rows for
one key, a full table and a half-written key all occur. Framing: the requests are
at, below and above each limit, and a buffer of 18 holds two short
requests or less than one long one; a third request meets the same buffer states
as the second. Map: five keys in eight buckets with colliding hashes cross the load
threshold, wrap around the end of the table and form clusters of entries with
different homes. Database: 38, 23 and 22 are one row's text more or
less, so that arrays grow, rows fit exactly and rows are cut. Start-up: three
processes let one overtake a second while a third has died; migration 1 fails
when it is run twice, migration 2 does not. Cluster: two commands are
the least that can overwrite each other; four commands cover an up, two operations
on its nodes and a down; four pids allow both nodes to be replaced once.

server_pools identifies states by `PoolsView`, which leaves out `answered` and what a
closed connection left unread: no guard looks at them, and of that run's
invariants only the ranges in `TypeOK` do.
cluster_tool does not follow a behaviour past the first command that was killed, could
not write, or wrote over another's content (`Undisturbed`): from then on `ClusterInv` and
`DrainedStay` promise nothing. `OneAtATime` has no such condition; there it is the theorem
`RollsOneByOne` that holds in all states. Symmetry is used among connections that send requests of the same length, among
movers, among addresses, among threads and among commands, in runs without liveness properties;
the specifications do not distinguish them.

Deadlock is not checked (`CHECK_DEADLOCK FALSE`) where a bound ends the behaviour
(time, allocations, calls, starts, commands) or where the system really stops (`main` has returned;
the process exits on an unarmed refusal).

## 4. Fairness

`Server` and `MapTable` have liveness properties. `Server`'s `Fairness` is weak fairness of the
acceptor, of each worker and of `main`: they are threads of a preemptive system,
their selects are bounded (1 s, modelled by a select that may always return), and
no step of theirs waits for another thread except the join, which is enabled only
when the joined thread has left. Clients, the operator's signal and the loss of
wake datagrams are not fair. `StopEnds` states as its own hypothesis that connected
clients eventually hang up or are dropped; `StopAlwaysEnds` without it is violated.

`MapCallsEnd` assumes weak fairness of the steps inside a call (`MapRuns`): it is
sequential code that waits for nothing. Starting a call is not fair.

## 5. Proofs

TLAPS checks the following for all values of the constants, from the named
assumptions of the modules only.

* `AcceptQueue_proof`, from `CapAssumption` (at least 2 slots) and
  `NoSockAssumption`. `RingInv` adds to "published slots hold sockets" what each
  side remembers between its check and its publication: the slot at `tail` is
  outside the published ones while a push is under way, the one at `head` inside
  while a pop is. Without these the conclusion is not inductive, because the other
  index may move in between; they are stable because each index only moves away
  from the other side's test. `RingInvariant`, `SlotsNeverRace` and
  `RingImplementsFifo` (the initial state and every step map to the FIFO; publish
  and release are the linearisation points) follow.
* `Kynx_proof`, leases, from `LeasesAssumption`. `LeasesInv`: the count is `parked` +
  `lost` + the movers creating, and not only the stored tier but every tier a mover
  has loaded or is about to store is within reach; the last part makes it
  inductive under unlocked recomputation. `TiersNeedLeases` follows, and
  `GeneratedServersStayShaped`: with the pool of 512 that the generated `main`
  configures and at most 64 workers, GUARDED and SIEGE cannot be entered
  until more than 64 leases are lost.
* `Kynx_proof`, tiers. `TierComesRight` (`QuiescentTier`) needs `Undisturbed`: with k updates
  since the last overlap the tier is at most 3 - k moves from its band (`Near`), and a mover
  that is alone is at a place (`Place`) from which its move brings it one closer, for the
  count it has loaded; and `FlagAgrees`: without a race only the mover that has just
  stored the tier may see the flag differ from it.
* `Kynx_proof`, route gate, from `BucketAssumption` and `RouteAssumption`. The lemmas on
  `Refill` bound it from below and above by the exact quotient. `RetryAdviceHolds`
  (`RouteInv`) and `IdlePairsPass` (`IdleWindowAdmits`) carry the hypothesis `NoWrap`: the
  product of the refill over ten windows is below `Word`. It is stated because the code
  does not ensure it (section 6: rates above 30 744 per minute) and the theorems
  are false without it; every instance of section 3 and the defaults satisfy it.
* `Kynx_proof`, global gate, from `AdmissionAssumption`. `GateInductive` says of every entry
  (`EntrySane`) that its clocks are not in the future and that its score is below
  the threshold, or below one increment more while it is banned; and of an entry that no
  late check has touched (`EntryFair`): tokens spent and tokens left are together what the
  burst and the time since insertion allow, in cross-multiplied form so that rounding
  only loses (`Budgeted`), every increment of the score took a window (`Earned`), and a
  ban that is lifted has run its time (`Served`). Theorems: `AdmissionsWithinRate` (`RateBound`),
  `BansAreSustained`, `BansAreServed` (`BanHolds`), and `BucketsBounded` (`AdmissionInv`) under
  `Gradual`: an increment is at most the threshold. Otherwise half of a score at the end
  of a ban can still be above the threshold; the generated `main`
  sets 10 and 200 (`route_runtime.orb:666-667`), but nothing checks them.
* `Process_proof`, request path, from `RequestAssumption`. `RequestInv` says by place
  in the router whether a lease is held, the boundary armed and an answer sent.
  `RequestsAnsweredOnce`, `LeasesEndWithTheirRequest` and `BudgetsAreNotFatal` follow.
* `Process_proof`, start-up, from `MigrationsAssumption` (finitely many processes).
  `ServesMigrated` is not inductive: what makes it so is `PrefixApplied` (a process has
  every migration behind it that comes before its own, and no version is applied
  before an earlier one) with `MarksApplied`. `RunOnce` needs `RerunExcused`: as soon as a
  process is past its look at the mark while another may commit, the version is
  counted as overtaken, and one that ran it because it could not read the mark as
  misread. `BootsCount` bounds how often a version can be applied by
  the starts made, through the set of processes that may still commit it. Theorems:
  `AppliedOnce`, `ServesOnAll`, `FileAgrees`.
* `Ledger_proof`, from `LedgerAssumption` (finitely many threads). `DuplicatesBounded`
  alone says nothing of threads that are still searching; `RowsAndCandidates` bounds the
  rows of a key together with the threads that may yet claim one. `Writers` says that
  a half-written key belongs to the thread that claimed the row. `CallsAccounted` is a
  sum over rows; the lemmas on `SumOver` say how it changes when one row does.
  Theorems: `ChargesOwnRow`, `NothingLost`, `LedgerBounded`.
* `Cluster_proof`, from `ClusterAssumption`. To "no running process is unknown" the
  invariant adds who knows it: `AllHeld` (a process not on the file is held by a command
  that will write it or stop it), `OneWriter` (of commands that did not write over
  each other only one is between truncation and write), `TellsFirst` (a process is told to
  stop before its pid is replaced). `ByItself` and `RestartAlone` carry what a restart
  that runs alone found when it began. Theorems: `NoneLost`, `DrainedStayDown`,
  `RollsOneByOne`.
* `Server_proof`, from `ServerAssumption`. `Ownership` counts places; inductive is the
  pairwise form `Apart` (backlog, acceptor, ring positions, slots and closed sockets are
  all different), with `AcceptorHand`: the acceptor has a socket exactly while it
  dispatches. `Pools` says of each worker that free and used buffers, and free and used
  peer strings, are together what it was created with; the lemmas `Swapped` and
  `SwappedBack` say where each slot goes in a swap-remove. `NoneIgnored` needs `Turns`: in the
  request loop, an owed answer means that the loop has not been left and that a whole request is
  still ahead of `parsed`, so the loop's condition holds and `FinishTurn` cannot be next. Theorems:
  `SocketsOwned`, `PoolsWhole`, `WholeRequestsAnswered`.
* `Storage_proof`, map, from `MapAssumption` (4 buckets or more: below that 75% load and one
  more entry is a full table, and the proof fails where the probe loop would run for
  ever; the code starts at 16). The heart is `Traced`: between an entry's home and the
  entry there is no vacant bucket, except that while a deletion is at bucket `at`, the
  entries of the run that begins at `at` may have vacant buckets before `at`. Taking
  out the entry at `at` and inserting it again moves the exception on by one, and
  at a vacant bucket nothing is left of it. `HalfWay` says of a resize that the new
  table holds exactly what was moved. `ProbesEnd` (`MapInv`) and `TableIsMap` (the table
  implements `AbstractMap`; store, deletion and get are the visible steps, a resize and a
  re-insertion change nothing) follow.
* `Storage_proof`, arena, from `ArenaAssumption`. `AlignUpIs`: rounding up is 0
  where the sum would pass the machine word, and the least multiple otherwise. `ArenaInductive` adds to disjointness that live blocks of the
  active segment end below the cursor, that a checkpoint of this epoch lies above
  the blocks older than it (else a rewind would hand out held memory), and that the
  sums over retired segments are the counters. That what was handed out under a
  lease fits into its charge is stated with a set `H` of everything handed out, rewound
  blocks included: the live blocks alone shrink at a rewind while the charge does not.
  Theorems: `BlocksApart`, `BlocksMapped`, `AccountsHold`.
* `Process_proof`, database, from `DbAssumption` (the alphabet holds what the code writes;
  a buffer has room for brackets and zero). The text loops of `database.c` are folds in
  the model. `FoldGoes` and `FlattenGoes` name the sequence of intermediate results of a fold,
  and facts about it come from a smallest index at which they fail, so no induction
  theorem is needed: `PutIs`, `AppendEscapedIs`, `RowToJsonIs` bound what each writes by the size it
  was given, for texts of any length. `DbInductive` is `DbTypes`, `KeysUnique`, `CallsMatch`,
  `RoomLeft` (while a scan goes on there is room for the closing bracket as well as
  the zero: that is what makes the end of a scan safe after the last row filled
  the buffer) and `AnswersTrue`. Theorems: `BuffersHold` (`DbInv`), `ChangesReported` (`TrueIffChanged`).
  That rows come out whole compares two computations of one text: the writers of
  `database.c`, which stop where the room ends, and the JSON of the row with no end in
  sight. Each is a fold or a `FlattenSeq`, and the two sequences of intermediate results agree
  as long as what is still to come fits: `EscapesWhole`, `AppendWhole`, `PutColumnWhole` and `ListsWhole`, one
  loop around the other, up to `RowWhole`. `ReadsWhole` then says of each worker that the buffer of a
  scan holds the array of the rows passed, open at its end (`ArrayOf`); it does not speak of the
  table, which is why writes of other workers cannot disturb it. The three bytes of
  `AllFit` are one for the comma and two that `orbit_db_row_to_json` leaves free (`RoomAfterComma`).
  Theorem: `RowsComeWhole` (`RowsWhole`).
* `Process_proof`, framing, from `HttpAssumption` (a line and a header field hold no CR or
  LF, and a body is as long as its request declares unless it declares two lengths: a
  client that miscounts has not sent the request it meant). `Layout` says where
  everything stands in a request. `Receives(raw, r)`, that `raw` agrees with `r` as far as both go,
  is all that is known of a cut stream, and is enough for what the parser finds:
  `HeadEndIs` (the terminator once all of it has come, and not before), `FieldsAre` (the fields of
  the head, and none of what follows), `TakenWhole` (a request taken is consumed to its last
  byte), `ZeroedIs` (zeros only in the request line), `ParseSays` and `FullSays` (the answer,
  from part of the head, from a whole one and from a full buffer). `InStep` ties the
  connection to the stream: from the end of the last request taken, the unparsed bytes of
  the buffer and then the wire are what was sent. It is kept by a receive, by the shift to the
  front and by the zeros of the parser (`StepsReceived`, `StepsMoved`, `StepsTaken`). The properties
  speak of histories only, so `HttpInductive` adds `Followed` (`InStep` holds, with one answer for
  each request taken, as long as the connection looks for requests), `Waits` (it goes back to
  receive only when the parser asked for more) and `Closing` (it is told to close only with
  bytes consumed or after a 503, which accounts for the second answer a full
  buffer can get). Theorems: `NoRequestWaits` (`HttpInv`), `RequestsFramed` (`FramedAsSent`) and
  `LimitsDecide` (`AnsweredByLimits`). The last has the hypothesis `LinesFit`: a line of the allowed
  length fits the receive buffer, as it does by default (8192 of 16 383 bytes), but the
  limit can be configured and nothing compares the two (section 6).

The inductive invariants of start-up, ledger, cluster, server, map, database and framing were checked by
TLC on the instances of section 3 before they were proved.

`Lemmas` proves what the library only offers as induction theorems with an
operator parameter, by a smallest counterexample: the strict subset ordering of
finite sets is well founded, so a set of numbers has a least one, and a sum over
a finite set can be taken apart at any member. `TurnMeets` says that a walk around a
ring of n places meets each once; `QuotientIs` and the `Times...` lemmas are what the
gates need of products and `\div`, which the SMT solver does not find by itself.

Only model-checked:

* all liveness (under fairness, out of the prover's reach);
* `PayloadFound` of `Database`: where `strstr` first finds a quoted name depends on every name and
  text of the payload, and the property is stated for names as the compiler writes
  them, without quotes or backslashes, which `DbAssumption` does not ask for;
* the composition of the parts in `MCParts`, which shares no variable and adds nothing to prove.

## 6. Where the code and its documents differ

One disagreement is a run of its own:

* `server_stop_hangs`: part of a request from a silent client keeps its worker, and
  the process, from ending. `route_runtime.orb:622-623` promises that the process
  exits. The receive timeout set at `thread_pool.c:217-218` ("idle/headers deadline per
  connection") never runs, because recv is only called on readable sockets.

Others are visible in the model as conditions the properties need, or as a
comment at the definition:

| The code | Said by | Where in the model |
|---|---|---|
| after a stop the acceptor can push to the ring of a worker that has left (`thread_pool.c:230`) | `thread_pool.c:129-130` | `RingsDrain` excepts workers that have left |
| a queued connection adopted while draining is dropped unread (`route_runtime.orb:529`) | `route_runtime.orb:440-441` | `RequestsServed` promises nothing after a stop |
| unlocked recomputation leaves the tier outside its band, or the flag against the tier (`kynx.c:829`, `:807`) | `docs/KYNX.md:53-57`, `kynx.c:1022` | the histories `alone` and `raced` of `KynxTiers` |
| a late thread makes an interval count twice, or one burst count as two violations (`kynx.c:625`, `:745`) | `kynx.h:73`, `kynx.h:93-95` | `~late` in `RateBound` and `BanIsSustained` |
| a thread that read the clock before it waited for the shard's lock sees a ban younger than "now"; the unsigned age wraps and the ban is lifted (`kynx.c:710`) | `docs/KYNX.md:19` (five minutes) | `~late` in `BanHolds` |
| a banned entry is not refilled and so is evicted first (`kynx.c:765`) | `docs/KYNX.md:19` | the histories start again at insertion |
| the advised wait is rounded down (`kynx.c:436`, `:650`) | `kynx.c:642` | `RetryWithinOneMs` waits one millisecond longer |
| a route's refill clamps to the rate, not to the burst (`kynx.c:427`) | `docs/LANGUAGE_REFERENCE.md:715-716` | `RouteCap` |
| the capped product still wraps above rate * window_ms of about 1.8e9, 30 744 per minute (`kynx.c:424`) | `kynx.c:630-631` | `Gained` with a small `Word` |
| an allocation from a fresh segment does not raise the peak (`arena_alloc.c:264`) | `arena_stats.c:39` | `AllocOverflow` |
| the interning table hands out a string that a rewind gave back (`string_pool.c:63`; no caller in the runtime combines the two) | | `~reused` in `LiveDisjoint` |
| the SIEGE answer is charged to the rejected lease and refused; the client gets the boundary's 503 (`kynx.c:901`) | `kynx.c:899`, `docs/KYNX.md:51` | `SiegeReply` |
| over-budget requests are answered 503 or 500 (`route_runtime.orb:561`, `http.c:650-653`) | `docs/ARCHITECTURE.md:322` | `Answer`, `Send` |
| a refused request that fills the buffer gets two answers (`route_runtime.orb:579`) | `route_runtime.orb:580-581` | the first exception in `OneAnswer` |
| a response whose headers exceed 512 bytes is not sent, and nobody is told, when malloc has no room for them (`http.c:708-709`); the connection stays open | | `SendNothing`, the second exception in `OneAnswer` |
| two first calls of a key claim two rows; a half-written key matches a shorter one (`ledger.c:77`, `:48`) | `ledger.h:15-17` | `DuplicatesBounded`, `OwnRow` |
| the ledger is keyed by the path of the request, not by the route template (`c_backend.orb:2185`) | `ledger.h:15-17` | `Enter` |
| the part of a head terminator that has arrived counts towards the header limit (`http.c:160-165`) | | `NearHeaderLimit` in `AnsweredByLimits` |
| a line limit not below the size of the receive buffer (`http.c:77`, from the environment) never comes to bear: the buffer is full first, and the line is answered 431 and not 414 (`route_runtime.orb:579`) | | `LinesFit` in `LimitsDecide` |
| a request line without two spaces is searched for them past its head (`http.c:297`, `:306`) | | `WellFormed` in `FramedAsSent` |
| `Connection: close` is looked for in a line the parser has already ended with a NUL (`http.c:302`, `route_runtime.orb:251`), so it is never honoured | | `AsksToClose` |
| set and del read `sqlite3_changes` of the shared connection after their statement (`database.c:725`, `:751`): another worker's write in between decides the answer, also one that fails, as it sets the count to 0 | `database.c:661` ("true iff a row actually changed") | `~raced` in `TrueIffChanged` |
| a value that ends in the quoted name of a later column hides that column (`database.c:529`) | | `Hidden` in `PayloadFound` |
| `\uXXXX` is not decoded (`database.c:543`, `:563`), so a control character grows on every read and write back | | `"ctl"` in `PayloadFound` |
| an escape that fits exactly is ended by snprintf's NUL (`database.c:203`), which ends the text; a row that fills its buffer lacks its `}` | `database.c:219` | `CString`, `RowToJson` |
| rows above about 2 KB (in arrays) or 4 KB are cut (`database.c:219`) | `database.c:23` ("No fixed-size query or result buffers") | `RowsWhole` speaks of rows that fit |
| an error in the middle of a scan is returned as a complete array | | `ScanEnd` |
| where charges the query budget twice (`database.c:857`, `:446`) | | not modelled |
| a refused allocation longjmps past `sqlite3_finalize` | | `Refused` |
| two processes that start together can run one migration twice, and so can one whose mark was not inserted (`database.c:157`, `:169`) | `database.c:140-143` ("exactly once") | `overtaken`, `unmarked` in `RunOnce` |
| only a row counts as a mark: when the step of the look fails (busy, out of memory, I/O error) the migration is taken for one not done, and is run and committed again although it is marked (`database.c:157`) | `database.c:140-143` ("Reruns are no-ops") | `Misread`, `misread` in `RunOnce` |
| a count of the rows that fails is taken for 0, and the seed is put into a database that is not empty (`database.c:102-106`) | | `Open` |
| a seed cut short is never completed (`database.c:106`) | | `SeedWhole` |
| nodes share `.orbit/data/app.db` | `docs/CLUSTER.md:5-7` ("no shared state between nodes") | `Procs` of `Migrations` |
| the state file is not locked and is truncated before it is written (`file.c:108`): an `up` that reads it empty starts a second set of nodes on the same ports, and a command killed in between leaves nodes nobody records | | `~stale`, `~faulted` in `NoOrphans`, `DownClears` and `DrainedStay` |
| a rolling restart writes back what it read at its start, and so undoes a drain given meanwhile (`cluster.orb:652`) | `docs/CLUSTER.md:41` | `WritesOver` |
| a restart given again after one that aborted stops node 1 while a later node is down | `docs/CLUSTER.md:45` | `OneAtATime` excepts nodes that were down when the command began |
| a rolling restart skips drained nodes | `docs/CLUSTER.md:41-43` says both that it skips and that it replaces them | `Skips` |
| `down` removes the state file although nodes may still run (`cluster.orb:713`); it reports them | | `DownClears` |

## 7. Assumptions and limits

* Sending to a client that is gone has no effect, and a response is sent whole, or
  not at all when its long headers find no memory (`SendNothing` in `Request`; `Server` and
  `HttpFraming` take every response for sent).
  The code ignores the result of `send` (`http.c:723`), does not ignore SIGPIPE
  and sets no send timeout; what follows from that is listed as hazards.
* The listener is non-blocking (`route_runtime.orb:703-706`), so the accept loop ends
  when the backlog is empty.
* In `Server` a request is so many units; what is in it is `Request`'s business.
  `Request` follows one worker: workers share only the gates, leases and ledger,
  each of which has its own module.
* `KynxAdmission` models one shard and `KynxRoute` one bucket: shards and buckets
  share nothing but the lock-protected slot they evict from.
* `HttpFraming` has one connection: buffers are not shared (`PoolInv`). In `Request` the
  parser is its outcome.
* `Server` leaves out what the worker does when select fails other than by a signal
  (`route_runtime.orb:461-501`): it prunes slots whose socket is closed, and by `Ownership` there are none.
* `Database`: all values are texts; SQLite is external, with atomic steps and
  scans in the order of rowids; a write that fails leaves no change and the count at 0, or,
  if it did not get to run, as it was (`Refused`). `Migrations` takes from SQLite that one process
  writes at a time and that an unfinished transaction leaves nothing.
* `Cluster`: pids are not used again by the system (the tool would take a foreign
  process for its node), and the two waits around a forced kill are one. The
  history variables (`stale`, `faulted`, `overtaken`, `unmarked`, `misread`, `raced`, `owed`, `late`)
  only record; no guard reads them.
* Of 200 860 lines of C and Orbit that count as implementation, 184 739 are
  `compiler/selfhost/stage3.exe.c`, the compiler translated by itself into one C
  file, and `runtime/gen/*.c` is generated as well. They are output, not source:
  what they do is what the compiler's `.orb` files say. The map therefore covers
  a small share of all lines and a large one of the files that hold the server.
* Not modelled: the outgoing HTTP client, response formatting, authentication (hashing and
  session rows), `count`, the checks of SQL fragments and identifiers, the arena pool
  (unused by the server), the energy sampler and pulse, JSON, strings and
  lists as data, address parsing and trusted proxies, the bloom filter (its result is
  never used), statistics, the rendering of the ledger, growth of the interning
  table, and the components marked so in `PROJECT.json` (compiler: its
  correctness speaks of all programs; library: sequential data code; vendored and
  generated code).

## 8. Plan

1. Done: ring, threads, leases, gates, arena, request path, ledger, framing, map,
   database, start-up and the cluster tool are modelled; every safety invariant and action
   property that a run checks is also proved, except those listed at the end of section 5.
2. Proof still open: `PayloadFound`, which needs an assumption on names and a lemma on where
   `strstr` can find them.
3. Models still open: partial and blocking sends, `ArenaPool`, start and stop of the
   energy sampler, `Request` composed with the lease counter for several workers.
