# Verification of the C# documentation samples

TLA+ models, model-checking runs and TLAPS proofs for the parts of this
repository that have logic of their own.  Most of its 1800 files are small
programs that make one call to a Google Cloud service and print the answer; a
few are real distributed applications, and those are what is modelled here.

Paths are relative to the repository.  Line numbers of every definition are in
`PROJECT.json` under `map`.

## 1. Inventory

### 1.1 ASP.NET session store (`sessionstate/`), modelled

*State.*  Two Datastore entities per session id: `SessionLock` (lock count,
date locked, expiration date) and `Session` (items, release count).  A session
is locked when the lock count is ahead of the release count, so that taking a
session writes only the first entity and giving it back only the second.  One
`SweepLock` entity for all web servers.

*Operations.*  `GetItem`, `GetItemExclusive`, `SetAndReleaseItemExclusive` (old
and new item), `ReleaseItemExclusive`, `RemoveItem`, `CreateUninitializedItem`,
and `SweepTaskMain`, a background task in each process that deletes expired
sessions.

*Interaction.*  ASP.NET's SessionStateModule calls the provider in a fixed
order, polls while a session is locked, and breaks a lock that is older than
the execution timeout by releasing it in the name of its holder.

*What is hard.*  Concurrent requests of one session on several servers,
optimistic transactions that cover only some of the entities, commits whose
answer is lost, processes that die with a lock, locks that are broken while the
holder is still at work, a sweep that races with use of the session.

*Correct means.*  At most one request is the holder of a lock count; the two
counts never drift apart; saved items are not lost; only expired sessions are
swept; a dead holder's lock ends.

### 1.2 Sudokumb solver (`applications/sudokumb/WebLib`, `WebSolver`), modelled

*State.*  A Pub/Sub topic of messages, each a stack of boards to be explored;
the `Solution` entity of the solve request; a memory cache of the solve state
in each server; the stack each message handler is working on.

*Operations.*  `Publish` (the web application), `ProcessOneMessage` (the
handler, in a "dumb" and a "smart" mode chosen by the admin settings),
`ExamineGameBoard`, `SolveStateStore.GetAsync/GetCachedAsync/SetAsync`,
`InMemoryGameBoardStack`.

*What is hard.*  Messages delivered twice, handlers that die between publishing
and acknowledging, one of several publish calls failing, stale cache entries,
the change from branching to linear search at `MaxParallelBranches`.

*Correct means.*  No part of the game tree is lost as long as the puzzle is
unsolved, none is in one message twice, each message leads to smaller ones,
only real solutions are stored, a solvable puzzle is solved, the search ends.

### 1.3 Sudokumb counters in Datastore (`WebLib/DatastoreCounter.cs`), partly modelled

*State.*  `_localCounters` and a snapshot of them in each process; one counter
entity per (id, process) with a timestamp.

*Operations.*  Counting, saving once a second, condensing the keys that nobody
has written for some time, reading a total.

*What is hard.*  Failing upserts, two processes condensing the same keys, a key
that is written again after it was condensed, reading during condensation.

*Correct means.*  The entities add up to what was saved; a count is saved; a
reader never counts twice.

### 1.4 Sudokumb admin settings (`WebLib/AdminSettings.cs`), modelled

*State.*  One entity with the time until which the solvers are "dumb"; in each
server a cached *task* of its lookup and when that expires.

*Operations.*  `IsDumbAsync`, `GetDumbExpiresAsync` (both through
`LookupEntityAsync`), `SetDumbExpiresAsync`.

*What is hard.*  Slow and failing lookups whose task is cached, a value set
while a lookup is under way, upserts that fail or arrive in another order.

*Correct means.*  A cached value is not older than the expiration, a server
sees what it has set, all servers agree with Datastore in the end.

### 1.5 Sudokumb in-memory counters (`sudokumb/Counters/Counters.cs`), partly modelled

*State.*  `ShardedCounter`: a shard per thread in a thread slot, the list of
shards, `_deadShardSum`, a lock.

*Operations.*  `Increase`, the getter of `Count`, the end of a thread.

*What is hard.*  `_deadShardSum` is read outside the lock under which shards of
ended threads are moved into it.

*Correct means.*  Each thread's count is in one place only, a reading is right,
shards of ended threads go away.

### 1.6 Planet auction (`applications/planetAuction`), modelled

*State.*  Spanner tables `Planets`, `Players`, `Transactions`; the counter of
failed transactions and the local variables of the tasks.

*Operations.*  `RunPlanetAuction` with its parallel tasks, the form of the web
page (insert a player, buy a share).

*What is hard.*  Lookups that are not part of the transaction that writes,
failing calls and lost answers, an unsynchronised counter.

*Correct means.*  Shares and dollars that are gone are in `Transactions`, the
books balance where nobody overwrote anybody, the printed number is a bound.

### 1.7 Sudokumb user store (`sudokumb/DatastoreUserStore`), partly modelled

*State.*  A `webuser` entity per user, a `webuser-nnindex` entity per name, the
user objects in the requests.

*Operations.*  `CreateAsync`, `FindByIdAsync`, `FindByNameAsync`, `UpdateAsync`
with and without a new name, `DeleteAsync`.

*What is hard.*  Entities written from objects that other requests have
overtaken, commits whose answer is lost.

*Correct means.*  A user is found by the name he has, and by no other.

### 1.8 The other components

| component | state and operations | status and reason |
|---|---|---|
| Game board, `sudokumb/GameLib/GameBoard.cs` | pure: rows, columns, groups, `FillNextEmptyCell` | planned; `GameBoardQueue` takes the facts it needs as `TreeAssumption` |
| KMS data protection, `sudokumb/KmsDataProtectionProvider` | a concurrent dictionary of keys by purpose | not modelled: a hash and calls of a service |
| Google Home sample, `googlehome-meets-dotnetcontainers` | buffers of long polls, conversations by id | planned: the long poll and the dropping of full buffers |
| Pet shop orders, `liftAndShiftPetshop` | cart, order, queue, inventory | not modelled: another vendor's sample, kept unchanged, with synchronous orders that are one distributed transaction each; its order processor increments a readonly counter and so does not compile |
| Test utilities, `testutil`, `BuildTools.psm1` | loops around the code under test | not modelled: no state of their own |
| Session store clients, `sessionstate/WebClient` | none | partly: the environment of `SessionStore` |
| Web application, `sudokumb/WebApp` | solve requests; accounts are ASP.NET Identity boilerplate | partly: posting a puzzle is `StartSolving` |
| Storage, Datastore, Firestore, Spanner, Bigtable, BigQuery, ML, Pub/Sub, IoT, jobs, App Engine, monitoring, KMS, IAM, auth samples | none but the service's | not modelled: single calls, no logic of their own |

The program's own code is C#.  The 42 000 lines of JavaScript in the repository
are vendored libraries (jQuery, Bootstrap, Modernizr, the Web Forms scripts),
CasperJS tests and a few lines that attach a library to a page; nothing of them
is modelled.  Generated
code, the Oracle membership provider and the unmodified Pet Shop pages are left
out as well.

## 2. The modules and the code

| module | models |
|---|---|
| `SessionDatastore` | external: Datastore as the provider uses it (lookups in a transaction, optimistic commit, blind upsert) |
| `SessionStore` | `DatastoreSessionStateStoreProvider`, the calls of a request |
| `SessionSweeper` | `SweepTaskMain` |
| `SessionState` | composes the three; properties |
| `SessionLease` | abstract: a session that is free or held under a number |
| `GameBoardQueue` | `PubsubGameBoardQueue`, `InMemoryGameBoardStack`, `Solver`, `SolveStateStore`; properties |
| `TreeSearch` | abstract: a region of the game tree that shrinks |
| `DatastoreCounter` | `DatastoreCounter`, `DatastoreCounterSingleton`; properties |
| `ShardedCounter` | `ShardedCounter`; properties |
| `CountReadings` | abstract: what a reading of a counter may return |
| `PlanetAuction` | the console application and the web page; properties |
| `UserDirectory` | `DatastoreUserStore` and what `UserManager` asks of it; properties |
| `AdminSettings` | `AdminSettings`; properties |
| `...Proofs` | theorems about the module of that name |
| `MC...` | small instances |

### 2.1 Session store

`lock[id]` and `session[id]` are the two entities (`NoEntity` when missing),
`tx[c]` the transaction of a request or a task, `now` the time.  A transaction
remembers the kinds it looked up; a commit of another client that writes one of
them makes it `"stale"`, and then it can only fail.  A transaction that looks
nothing up, such as the one of `SetAndReleaseItemExclusive` with a new item,
never conflicts.

A request goes through `pc`: `poll` (`GetItemImpl`), `locking` (between its
lookup and its commit), `own`, and then one of the three releasing calls, each
in two steps, because another client can commit between the lookup and the
commit.  `GetLostAck` is a commit that is applied and whose answer does not
arrive; the catch block then reports "locked", and the session stays locked
with no holder.  `Die` is an exception that ends the request or the death of
its process.  `GetLocked` is the poll after which ASP.NET breaks the lock;
polls that change nothing are not steps.

A session's timeout is positive (`StoreAssumption`): readers take a session as
expired when its date is before now, the sweeper's query when it is not after
the moment the sweep began, so that with a timeout of zero a sweep would delete
a session of this very moment.

The items of a session are the set of requests whose update they contain, which
is what losing an update means.  `incarnation` is a ghost that counts how often
the session of an id was created.  `SetAndReleaseItemExclusive` with clean
items writes what `ReleaseItemExclusive` writes and is not modelled twice.

### 2.2 Solver queue

`topic` is the bag of messages to be delivered.  `handler[h]` is one execution
of `ProcessOneMessage`: `read` (it asks for the cached solve state), `solve`,
`save` (a solution was found), `publish`.  `leased` says that Pub/Sub still
waits for the acknowledgement; a message that is delivered again while its
handler is at work loses its lease (`Redeliver`), and `Ack` may come too late.
`outbox` holds the messages whose publication is under way: `PublishAsync` was
called for all of them, they finish in any order, and one that fails gives the
message back (`Nack`) while the others may or may not be sent.  `Crash(s)`
ends all handlers of a process and its cache; the cancellation of the callbacks
when a host stops has the same effect.  `SettingsFail` is `IsDumbAsync`
failing; which mode it answers is left open.

Boards are abstract.  The game tree is a constant, with the facts
`FillNextEmptyCell` gives: the moves of a board differ in the cell that was
empty, so what is below them is disjoint, and no board is below itself
(`TreeAssumption`).  The smart mode explores everything below the stack in an
order left open.  The counting of examined boards is left to
`DatastoreCounter`.

### 2.3 Counters

`entity[key]` for keys `<<id, shard>>`, `local`, `snapshot`, and per process
the place in `HostedServiceMainAsync`.  `Collect` is the comparison with the
snapshot, `Upsert` and `UpsertFails` the write, `Query` the query for old keys
and their grouping, `CondenseGroup` one transaction.  Datastore transactions
are serializable, so the look up, sum, delete and upsert of a group are one
step.  The loop that cuts the sorted list of old keys into groups is stated as
what it yields: `Rank` counts the old keys of the same counter before a key, a
group is the keys whose ranks have the same quotient by `GroupSize`, and the
last group is never condensed because only the next key ends it.  `KeyOrder` is
the order of the names, `Position` a key's place in it, and sums go along it.
`OrderAssumption` says that it has each key once and that the keys of a counter
follow one another: a name begins with the id, and ids are `Guid`s, all of one
length.  A reader passes the keys one at a time while processes save and
condense.

Two things in the code have no effect and so have no action.
`DatastoreCounterSingleton` makes a new `DatastoreCounter` after half the
condense frequency, but `AddDatastoreCounter` evaluates its getter once, for
the singleton `SolveStateStore`: a process counts under one shard.  And
`StopAsync` calls `StartAsync` where it means the base class' `StopAsync`; the
counts of the last second are not saved, which `Gone` stands for.

### 2.4 Refinements

`SessionState` implements `SessionLease`: `LeaseOf(id)` makes one object of the
two entities, and `TokenOf(r)` is the lock id a request was told.  The lease
says what the entities, snapshots and optimistic commits amount to.  That giving
back does not ask whether the session is held is part of the promise, since the
number does not tell; `session_late_write` shows what follows.

`GameBoardQueue` implements `TreeSearch`.  `Region` is everything below the
topic's messages, the handlers' stacks and their outboxes.  Nobody remembers
which boards were examined and messages come twice, and still no board comes
back that nobody had to explore any more.

`ShardedCounter` implements `CountReadings`, with `Busy` as the readings under
way.  A reading sees of each thread what it had counted at some moment of the
call.  The exception is part of the abstract module: when two readings overlap,
one of them may miss a thread that ended, because the other moved its shard
after `_deadShardSum` had been read and before the lock was taken.

### 2.5 In-memory counter

`shards` is `_shards` (as the threads that own the shards), `slot` the threads
whose shard is in `_slot`, `lock` the reader inside the lock.  `reader[r]` has
the local variables of the getter: `ReadDeadShardSum` is the read outside the
lock, `Enter` takes the lock, `AddShard`, `KeepShard` and `RetireShard` are the
loop, `Leave` replaces the list and returns.  A sum is kept as its summands, a
function of the threads, so that "counted twice" can be told from "counted".

### 2.6 Planet auction

A buyer is a task of the console or a form of the web page; `buyer[b]` has its
place and what it has read.  `SelectPlanet` and `SelectPlayer` are the lookups,
`Commit` is the transaction: since the commands that look up are not part of it
(the assignment is commented out), it overwrites whatever is there and conflicts
with nobody.  `CallFails` is a call that throws, done or not; with
`MaxTryCount = 0` `RetryRobot` does not try again, and the exception is neither
counted nor retried.  The random sample of ten percent of the rows may be
empty, which is why both lookups may find nothing.

### 2.7 User store

`object[r]` is the user object of a request: the id, the normalized name, and
the name it was found under.  `Create` inserts both entities and so fails when
the name is taken; `Update` and `Delete` write with what the object says.  The
look up of `UserManager` before a registration or a renaming is a step of its
own.  `stale` and `disordered` are auxiliary: requests whose object is not what
is stored any more, and the users they touched.

### 2.8 Admin settings

`cached[s]` is `_cachedEntity`: `Lookup` while the task is under way, then its
answer or `Failed`.  It is the task that is kept, so a lookup that has been
replaced settles without effect.  Times are ages up to one more than the
expiration, so that the clock needs no bound.

## 3. The runs

Sizes are of the instance in the `.cfg`.

| run | asks | answer |
|---|---|---|
| `session_locks` | three requests that write one session, with lost answers, deaths, breaking and expiry: `TypeOK`, `CountsAgree`, `OneHolderPerCount`, `SavedItemsSurvive`, `BreakOnlyOldLocks`, `LocksEnd`, `ImplementsLease` | hold, 108 000 states |
| `session_sweep` | two sweep tasks, a writing and a reading request: `OnlyExpiredAreSwept`, `SweepsAreSpaced` | hold, also when sweeps overlap, 562 000 states |
| `session_late_write` | a comment: the `Session` entity is "written to unlock the session" (`WrittenToUnlock`) | violated |
| `session_recreated` | a comment: the releasing calls return when something else locked the session (`OthersLocksAreKept`) | violated |
| `queue_search` | two processes, both modes, a failure or crash and a redelivery: `TypeOK`, `NothingLost`, `StacksDisjoint`, `SolutionsAreReal`, `SearchAdvances`, `PuzzleIsSolved`, `SearchEnds`, `ImplementsSearch` | hold, 84 000 states |
| `queue_stuck` | a test: it should eventually find a solution, also after one failed lookup (`EventuallyFindsASolution`) | violated |
| `counter_condense` | two processes save, condense, fail, die; one reads: `TypeOK`, `CountsAddUp`, `NoDoubleReads`, `CountsAreSaved` | hold, 168 000 states |
| `sharded_count` | two threads count and end while two others read: `TypeOK`, `ShardsAddUp`, `ImplementsReadings`, `DeadShardsAreRemoved` | hold, 281 000 states |
| `auction_books` | two auctions and two visitors, two planets, one failing call: `TypeOK`, `NothingDisappears`, `BooksBalance`, `ReportIsAnUpperBound` | hold, 556 000 states |
| `auction_overwrites` | a comment: "Subtract 1 from planet's shares available" (`SubtractsOneShare`) | violated |
| `user_directory` | three requests, two names, one commit that fails or loses its answer: `TypeOK`, `FoundByTheirNames` | hold, 88 000 states |
| `settings` | two servers, two values, two failures: `TypeOK`, `CachedIsRecent`, `ServerSeesItsOwn`, `SettingsSettle` | hold, 248 000 states |

What the violated properties mean for the code is under `findings`.  In short:

* Breaking a lock compares only lock counts.  When the holder gives the session
  back at the same time, the breaking call overwrites its items with older ones.
* Lock counts begin again when an expired session is created again under the
  same id, so a request that outlived its session can release another's lock.
* A failed lookup of the solve state is cached like an answer, with a sliding
  expiration that each redelivery renews.
* Two auctions that looked up the same planet both sell a share and subtract
  one between them; a player's dollars likewise.

### 3.1 Divergences without a run

They were seen while modelling; the properties above say what holds in spite of
them.

* When a board in a stack branches out, each branch carries all boards below it
  and one more message carries them alone.  The work is correct
  (`NothingLost`, `ImplementsSearch`) but is done several times, and more
  branches than `MaxParallelBranches` are explored in parallel.
  `AdminSettings.cs:71-72` says that every next possible move gets its own
  message, which is not so once the branches are too wide (`Linear`).
* A count whose upsert failed is in the snapshot as if it had been saved, and is
  not tried again until the counter changes.  `CountsAreSaved` says that the next
  change then saves what had failed as well; a counter that does not change any
  more keeps lacking it.
* A condensed key may be written again, with its whole count a second time.
  `DatastoreCounter.cs:38-40` says of the roll over that it "prevents race
  condition when a counter key gets cleaned up during condensation, and later
  counter gets written again"; it has no effect (2.3).  `CountsAddUp` and
  `NoDoubleReads` except counters of which a condensed key was written again.
* `_deadShardSum` is read before the lock is taken, although the comment at
  `Counters.cs:104` says of the lock: "Protects _deadShardSum and _shards."  When
  two readings overlap, one may miss a thread that has ended; `CountReadings`
  has this as an exception (2.4), and nothing else goes wrong.
* `SetAndReleaseItemExclusive` with a new item replaces both entities without
  looking.  Two requests that found no session both create it, and the items the
  first has saved, or a holder has saved meanwhile, are lost.  The two entities
  stay consistent (`CountsAgree`); `SavedItemsSurvive`, `OneHolderPerCount` and
  `BreakOnlyOldLocks` speak of an id, or a holder, before it is created again.
* Two sweeps can overlap when one takes longer than an hour, against the comment
  at `DatastoreSessionStateStoreProvider.cs:527-528`; `session_sweep` checks
  that this does no harm.
* Concurrency stamps of users are stored and never compared: the last writer
  wins, and `FoundByTheirNames` excepts users written with overtaken objects.
  An object is overtaken also by a commit of its own whose answer was lost.
* `DatastoreRoleStore.EntityToRole` leaves the id out, so a role that was found
  is updated and deleted under another key.
* Exceptions of auctions are not in the printed number of failures, and
  unsynchronised increments get lost: `ReportIsAnUpperBound` says only that the
  printed number of purchases is never too small.
* The expiration of the settings is in local time.

### 3.2 Bounds

| bound | value | why it is enough |
|---|---|---|
| `Requests` of a session | 2 or 3 | a holder, one that breaks its lock, one that takes the session next; a fourth repeats a role |
| `MaxTime` | 2 or 3 | long enough for an execution timeout and a session timeout to pass one after the other, in both orders |
| `MaxLostAcks` | 1 | one lost answer leaves a lock without a holder; the request can lose no other before that lock is broken |
| `SweepTasks` | 2 | two tasks race for the sweep lock |
| game tree | 4 boards, two levels | a branch, a dead end and a solution; stacks of one and two boards; widths on both sides of `MaxParallelBranches = 2` |
| `Handlers`, `Servers` | 2 in 2 | one per process, so that caches differ; the theorems have any number |
| `MaxFailures`, `MaxRedeliveries` of the queue | 1 and 1 | any call or a crash fails at any place, with a duplicate at any place |
| `DatastoreCounter` | 2 ids, 2 processes, limits 2, 1, 1, 0 | a group needs two old keys and a key of the next id that ends it; one count changes twice |
| `CondenseFrequency` | 0 | every saved key of an earlier second is old, so that condensing meets all interleavings |
| `Threads`, `Readers`, `MaxCount` | 2, 2, 2 | a thread that ends while two readings overlap, another that goes on; a count before and one during a reading |
| auction | 2 auctions, 2 visits, 2 planets of 2 shares, 3 dollars, 1 failure | two buyers of one planet, two of one player, a newcomer, a price that rises, a planet that is sold out |
| user store | 3 requests, 2 names, 1 failure | one registers or renames, one finds in between, one takes the name that has become free |
| settings | 2 servers, 2 values, `Ttl` 2, 2 failures | a value set while a lookup is under way and one set elsewhere; a failed lookup and a failed upsert |

`CHECK_DEADLOCK FALSE` stands in all `.cfg` files but `Settings.cfg`: bounded
clocks stop, requests and auctions end, a search is over; a state without a
successor is no error.  In `AdminSettings` time always goes on.

### 3.3 Fairness

* *Session store.*  The clock ticks and web servers run the calls of requests
  they have accepted (`WF` for `Get` and `Release` of each request, and for the
  failing of a commit that conflicts).  Nothing is assumed of arrivals, deaths
  and sweeps.
* *Solver.*  Pub/Sub delivers while a handler is free, and each handler's code
  runs.  A message given back is delivered again, at once or later.  There is no
  fairness for `Expire`: `SlidingExpiration` is put off by each reading, and
  redelivery can be faster than five seconds for ever.  This is what
  `queue_stuck` shows.  `PuzzleIsSolved` therefore speaks of behaviours in which
  no failed lookup stays in a cache.
* *Counters in Datastore.*  The loop of a process that runs goes on.  No
  fairness for the query or the end of a process.
* *In-memory counter.*  A thread in the getter goes on (`WF`), and one that
  waits for the lock gets it when it is free again and again (`SF` of `Enter`):
  .NET's monitors queue their waiters.
* *Settings.*  Only time passes (`WF` of `Tick`): callers may stop calling and
  lookups may hang.
* *Auction, user store.*  No liveness, no fairness.

## 4. The proofs

Each proof module has an inductive invariant, type correctness as its first
part, one lemma per action or group of actions, and theorems that follow from
it.  The assumptions are the named ones of the modules about their constants.

### 4.1 `SessionStateProofs`

For any sets of ids, requests and sweep tasks and any timeouts, under the named
assumptions of the modules (`NoEntity` is not an entity, requests are not sweep
tasks, times are natural numbers, both timeouts are positive):

* `TypeCorrect`: `Spec => []TypeOK`.
* `SessionSafety`: `Spec => []SessionInv`, and from it `CountsAlwaysAgree` and
  `HoldersAreDistinct`.

`SessionInv` is stated in `SessionState`.  `CountsAgree` alone is not inductive:
a commit writes values that the request computed when it looked the entities up.
`LookupsStand` says that these are still right as long as its transaction is
open, which is what optimistic concurrency gives.  `OneHolderPerCount` needs
that the next count is new: `HoldersBehind` says that no holder of this
incarnation has a count above the lock's, and an unlocked session gets the next
one.

The proof has a lemma per group of calls (`Get`, the releasing calls, removal,
new items, the sweep's delete), each of which shows the parts of `SessionInv`
it can disturb.

### 4.2 `SessionLeaseProofs`

What the session store promises over time, from `SessionInv` and three more
invariants:

* `SweepersAreSafe`: `SweeperInv`.  A commit on the `SweepLock` that can still
  succeed belongs to a task that began more than the interval after the sweep
  before (`Spaced`), and a task that is about to delete looked up a lock that
  had expired before the sweep began (`TaskOK`).  What is still to be deleted
  may have been written since, but then it expires later than the sweep began;
  this is where a timeout of zero would fail.  From it follow `SweepsStaySpaced`
  (`SweepsAreSpaced`) and `OnlyExpiredDisappear` (`OnlyExpiredAreSwept`).
* `LockIdsAreSound`: `LockIdsStand`.  A lock id names a lock taken since the
  session was created, and no later one; the lock a request is about to break
  is old if it is still there.  From it follows `OnlyOldLocksBreak`
  (`BreakOnlyOldLocks`).
* `ItemsAreSound`: `ItemsStand`.  What a holder works on is what the session had
  when it took it, what a breaker would put back is part of that.  From it
  follows `SavedItemsAreKept` (`SavedItemsSurvive`).
* `StoreImplementsLease`: `ImplementsLease`.  Each action that writes an entity
  is one step of `SessionLease` (`StepIsLease`), the others change nothing it
  speaks of.  That a commit may compute with what was looked up earlier is
  `LookupsStand` again.

### 4.3 `GameBoardQueueProofs`

For every game tree that satisfies `TreeAssumption`, finite or not, any finite
set of handlers, any servers, and any bounds on failures, crashes and
redeliveries:

* `QueueTypeCorrect`, with the width of a message within
  `1..MaxParallelBranches`;
* `NothingIsLost`, `NoStackRepeats`, `OnlyRealSolutions`: the invariants of
  `queue_search`;
* `SearchAlwaysAdvances`: its action property;
* `QueueImplementsSearch`: `ImplementsSearch`, the refinement of `TreeSearch`.

They follow from `SearchIsSafe`, that `SearchInv` holds in every reachable
state.  `SearchInv` has two halves.  *What is there* (`Holds`): every message
and every stack in a handler is `Good`, that is part of the puzzle's tree
without repetition, and everything in an outbox leads to strictly less than the
stack it answers.  *What is not missing* (`Covers`): `NothingLost`, and
`AnswersPublished`, which makes it inductive.  It says that a solution below a
stack whose answers are being published is in the outbox still, or below an
outstanding message that leads to *strictly less*.  "Strictly" is the point:
the same message may be outstanding twice and handled by several handlers at
once, and an acknowledgement takes all of one stack out of the count at once;
with "less or equal" two handlers could each name the other's message as the
one that has taken over.

The lemmas below it are about what the operators do: bags (`WithBag`,
`WithoutBag`, `UnionBag`), stacks (`ReachSplit`, `ReachAppend`, `ReachConcat`)
and answers (`PushedMove`, `DroppedTop`, `LinearIsGood`, and from them
`AnswersAreGood`: the messages that answer a stack lead to all of it but its top
board).  `StillCovered` says once and for all when a step keeps `Covers`: every
message stays or is replaced by smaller ones, and every handler keeps what it
has to publish.

The refinement needs besides that there are no messages before the puzzle is
submitted (`Quiet`), and that the region shrinks: a step replaces messages and
handlers' stacks by ones that lead to part of what they led to, solutions leave
only by being stored, and for the rest `Covers` says where they still are.

### 4.4 `DatastoreCounterProofs`

For any processes, counters and keys in an order as `OrderAssumption` says, any
`GroupSize`, `CondenseFrequency` and number of failures: `CounterTypeCorrect`
(`TypeOK`), `CondensingKeepsCounts` (`CountsAddUp`), `ReadersNeverCountTwice`
(`NoDoubleReads`).

`CounterInv` holds what they need: an upsert under way writes what the snapshot
has, under keys of its own process (`PendingIsSnapshot`); a running process has
saved no more than that, so that what is written only grows
(`WrittenWasTaken`); a key that was never condensed holds what its process saved
(`UncondensedIsWritten`); a group belongs to one counter (`GroupsHaveOneId`).
`NoDoubleReads` is not inductive, because it says nothing of the keys the reader
has not reached.  `ReadsAreWritten` adds them: what was read *and what is
`Ahead`* is no more than what was written.  Three lemmas carry it: a
condensation moves counts to the first key of a group, so that what is ahead can
only get less (`CondensingMoves`), a save adds no more ahead than it writes
(`SavingAdds`), and a reader takes what is no longer ahead (`ReadingTakes`).

Sums are recursive functions along `KeyOrder`.  The library's induction theorems
cannot be used, since they take a predicate as a parameter; `NaturalsInSet`
states induction for a set instead, proved from the well-foundedness of `<` on
the naturals, and `SumsInduction` from it.  With these, `SumPlus`, `SumMono` and
`SumSingle` are proved for all functions of the keys.  `GroupsAreSound` proves
that what the grouping yields has two to `GroupSize` keys: ranks of one counter
increase (`RanksIncrease`), and a group's ranks lie within one interval of that
length.

### 4.5 `ShardedCounterProofs`

For any threads, readers and counts: `CounterTypeCorrect`, `ShardsAlwaysAddUp`,
and `CounterImplementsReadings`, that every step of `ShardedCounter` is a step
of `CountReadings` or changes nothing it speaks of.

`CounterInv` says where the shards are while a reader is in the loop
(`LoopsAreInOrder`: still to be visited, at hand, kept, or moved) and that a
thread's count is in `_deadShardSum` exactly when its shard is `Retired`
(`ThreadsAreInOrder`).  `ReadingsInv` says what a sum under way is worth: until
the lock is taken it equals `_deadShardSum` for each thread, or the thread was
`Missed`; in the loop it is zero for shards still to be visited and lies between
the begin of the call and now for the others, or the thread was `Missed`.  A
reader that is `alone` is the only one in the getter, so nobody can have moved a
shard between its two readings.

### 4.6 `PlanetAuctionProofs`

For any planets, players, prices, buyers and failures: `AuctionTypeCorrect`,
`NothingEverDisappears`, `BooksAlwaysBalance`, `ReportNeverUnderstates`.

`BooksInv` adds to the properties what a buyer remembers: the shares and dollars
it has read, with what was sold and paid since, are at least the initial ones
(`BuyerRemembers`), because the sums in `Transactions` only grow.  This is what
makes a commit with old values harmless for `NothingDisappears`.  `ReportInv`
bounds `_failedTransactions` by the number of tasks that have failed: a lost
increment makes it smaller.

### 4.7 `UserDirectoryProofs`

For any requests, names and failures: `DirectoryTypeCorrect` and
`UsersAreFoundByTheirNames`.  `DirectoryInv` adds that an object nobody has
overtaken says what is stored, and that the name it is about to take belongs to
nobody or to a disordered user (`ObjectsAreTrue`), and that the id of a user who
is not created yet occurs nowhere (`NewIdsAreUnused`).

### 4.8 `AdminSettingsProofs`

For any servers, values, failures and expiration: `SettingsTypeCorrect`,
`CacheIsRecent`, `OwnValueIsSeen`.  `CachedIsRecent` is not inductive: an answer
becomes cached when it arrives, after it was read.  `LookupsAreRecent` says the
same of the answers that have been read and have not arrived.

### 4.9 What is only model-checked

* Liveness: `LocksEnd`, `PuzzleIsSolved`, `SearchEnds`, `CountsAreSaved`,
  `DeadShardsAreRemoved`, `SettingsSettle`.  The prover does not deal with
  fairness and `ENABLED`.
* The violated properties.

Every invariant and action property and each of the three refinements that a
passing run checks is a theorem.

## 5. Plan

Done: the session store with its lease, the solver queue with its search, the
counters in Datastore and in memory, the planet auction, the user store, the
admin settings, and proofs of all their safety properties.

1. Further theorems about the safety half of what the runs say of liveness: that
   the measure by which `SearchEnds` and `DeadShardsAreRemoved` come to an end
   goes down with each step that counts.
2. `LongPoll` of the Google Home sample, `GameBoard` on a smaller board against
   the rules of Sudoku, the key ids of `KmsDataProtectionProvider`, the role
   store.  They need runs of their own; each would take the place of one that
   shows less.
