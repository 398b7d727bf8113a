-------------------------- MODULE DatastoreCounter --------------------------
(***************************************************************************)
(* The counters of Sudokumb: each solver process counts in memory and its  *)
(* DatastoreCounter saves its counts to Datastore once per second, under   *)
(* keys of its own (id:shard).  Now and then a process condenses the keys  *)
(* nobody has written for CondenseFrequency into one per counter.  Readers *)
(* add up the keys of a counter.                                           *)
(***************************************************************************)
EXTENDS Naturals, Sequences, FiniteSets

CONSTANTS
    Shards,             \* solver processes; a process never comes back
    Ids,                \* counters: solve requests
    KeyOrder,           \* the keys <<id, shard>> in the order of their names
    Limit,              \* bound: how far each key is counted
    CondenseFrequency,
    GroupSize,          \* 10: keys condensed in one transaction
    MaxTime,            \* bound: the clock stops here
    MaxFailures,        \* bound: upserts and commits that fail
    NoEntity

Keys == Ids \X Shards
IdOf(key) == key[1]
ShardOf(key) == key[2]
KeysOf(id) == {key \in Keys : IdOf(key) = id}

ASSUME CounterAssumption ==
    /\ Limit \in [Keys -> Nat]
    /\ CondenseFrequency \in Nat /\ GroupSize \in Nat \ {0}
    /\ MaxTime \in Nat /\ MaxFailures \in Nat

\* The name of a key begins with the id of its counter, so that the keys of
\* a counter follow one another.
ASSUME OrderAssumption ==
    /\ KeyOrder \in Seq(Keys)
    /\ \A key \in Keys : \E i \in 1..Len(KeyOrder) : KeyOrder[i] = key
    /\ \A i, j \in 1..Len(KeyOrder) :
         /\ KeyOrder[i] = KeyOrder[j] => i = j
         /\ IdOf(KeyOrder[i]) = IdOf(KeyOrder[j]) =>
              \A n \in i..j : IdOf(KeyOrder[n]) = IdOf(KeyOrder[i])

ASSUME NoEntityAssumption == NoEntity \notin [count : Nat, timestamp : Nat]

Position(key) == CHOOSE i \in 1..Len(KeyOrder) : KeyOrder[i] = key

\* The key of S whose name comes first.
First(S) == CHOOSE key \in S : \A k \in S : Position(key) <= Position(k)

\* The sums of what f gives the first n keys, and of all.
Sums(f) ==
    LET s[n \in 0..Len(KeyOrder)] == IF n = 0 THEN 0 ELSE s[n - 1] + f[KeyOrder[n]]
    IN  s

Sum(f) == Sums(f)[Len(KeyOrder)]

VARIABLES
    entity,    \* Datastore: per key the saved count and its timestamp
    now,
    local,     \* _localCounters
    snapshot,  \* localCountersSnapshot: what was last given to an upsert
    pc,        \* per process: where HostedServiceMainAsync is
    pending,   \* per process: the entities of an upsert under way
    groups,    \* per process: groups of old keys to be condensed
    reader,    \* a GetCountAsync under way: id, keys passed and their sum
    failures,
    written,   \* auxiliary: per key the count last saved by its process
    condensed, \* auxiliary: keys that were part of a condensation
    rewritten  \* auxiliary: condensed keys saved again by their process

stored == <<entity, written, condensed, rewritten>>
counting == <<local, snapshot, pc, pending, groups>>
vars == <<stored, counting, now, reader, failures>>

NoRead == [id |-> "none", at |-> 0, sum |-> 0]

Init ==
    /\ entity = [key \in Keys |-> NoEntity]
    /\ now = 0
    /\ local = [key \in Keys |-> 0]
    /\ snapshot = [key \in Keys |-> 0]
    /\ pc = [p \in Shards |-> "unborn"]
    /\ pending = [p \in Shards |-> {}]
    /\ groups = [p \in Shards |-> {}]
    /\ reader = NoRead
    /\ failures = 0
    /\ written = [key \in Keys |-> 0]
    /\ condensed = {} /\ rewritten = {}

Tick ==
    /\ now < MaxTime
    /\ now' = now + 1
    /\ UNCHANGED <<stored, counting, reader, failures>>

Goto(p, place) == pc' = [pc EXCEPT ![p] = place]

\* A host starts: DatastoreCounterSingleton.StartAsync.  SolveStateStore got
\* its DatastoreCounter when it was created, so the roll over in the getter
\* of DaCounter never reaches it: a process counts under one shard.
Start(p) ==
    /\ pc[p] = "unborn"
    /\ Goto(p, "delay")
    /\ UNCHANGED <<stored, local, snapshot, pending, groups, now, reader, failures>>

\* The process dies, or its host stops: DatastoreCounterSingleton.StopAsync
\* calls StartAsync, which returns at once.  Either way the counts it has not
\* saved are gone with it.
Gone(p) ==
    /\ pc[p] \notin {"unborn", "dead"}
    /\ Goto(p, "dead")
    /\ local' = [key \in Keys |-> IF ShardOf(key) = p THEN 0 ELSE local[key]]
    /\ snapshot' = [key \in Keys |-> IF ShardOf(key) = p THEN 0 ELSE snapshot[key]]
    /\ pending' = [pending EXCEPT ![p] = {}]
    /\ groups' = [groups EXCEPT ![p] = {}]
    /\ UNCHANGED <<stored, now, reader, failures>>

\* IncreaseExaminedBoardCount.
Increase(key) ==
    /\ pc[ShardOf(key)] \notin {"unborn", "dead"}
    /\ local[key] < Limit[key]
    /\ local' = [local EXCEPT ![key] = @ + 1]
    /\ UNCHANGED <<stored, snapshot, pc, pending, groups, now, reader, failures>>

\* Variant with a defect: a count that was saved once is not saved again.
HasChanged_Once(key) == snapshot[key] = 0 /\ local[key] # 0
HasChanged(key) == local[key] # snapshot[key]

\* UpdateDatastoreFromLocalCountersAsync: the counts that changed go into
\* the snapshot and into the entities of one upsert.
Collect(p) ==
    LET changed == {key \in Keys : ShardOf(key) = p /\ HasChanged(key)} IN
    /\ pc[p] = "delay"
    /\ snapshot' = [key \in Keys |->
                      IF key \in changed THEN local[key] ELSE snapshot[key]]
    /\ pending' = [pending EXCEPT ![p] =
                     {[key |-> key, count |-> local[key], timestamp |-> now] :
                        key \in changed}]
    /\ Goto(p, IF changed = {} THEN "saved" ELSE "upsert")
    /\ UNCHANGED <<stored, local, groups, now, reader, failures>>

\* Upsert overwrites what the keys hold.
Saved(p) ==
    LET keys == {e.key : e \in pending[p]}
        Of(key) == CHOOSE e \in pending[p] : e.key = key IN
    /\ entity' = [key \in Keys |->
                    IF key \in keys
                    THEN [count |-> Of(key).count, timestamp |-> Of(key).timestamp]
                    ELSE entity[key]]
    /\ written' = [key \in Keys |->
                     IF key \in keys THEN Of(key).count ELSE written[key]]
    /\ rewritten' = rewritten \cup (condensed \cap keys)
    /\ UNCHANGED condensed

Upsert(p) ==
    /\ pc[p] = "upsert"
    /\ Saved(p)
    /\ pending' = [pending EXCEPT ![p] = {}]
    /\ Goto(p, "saved")
    /\ UNCHANGED <<local, snapshot, groups, now, reader, failures>>

\* An exception of the upsert, done or not, is logged and the loop goes on.
UpsertFails(p) ==
    /\ pc[p] = "upsert"
    /\ failures < MaxFailures
    /\ failures' = failures + 1
    /\ Saved(p) \/ UNCHANGED stored
    /\ pending' = [pending EXCEPT ![p] = {}]
    /\ Goto(p, "delay")
    /\ UNCHANGED <<local, snapshot, groups, now, reader>>

NotYetCondense(p) ==
    /\ pc[p] = "saved"
    /\ Goto(p, "delay")
    /\ UNCHANGED <<stored, local, snapshot, pending, groups, now, reader, failures>>

\* The keys whose timestamp is older than CondenseFrequency.
OldKeys ==
    {key \in Keys : /\ entity[key] # NoEntity
                    /\ entity[key].timestamp + CondenseFrequency < now}

\* Where a key comes among those keys of S that belong to the same counter.
Rank(S, key) ==
    Cardinality({k \in S : IdOf(k) = IdOf(key) /\ Position(k) < Position(key)})

\* The keys of a counter in the order of their names, GroupSize at a time.
GroupOf(S, key) ==
    {k \in S : /\ IdOf(k) = IdOf(key)
               /\ Rank(S, k) \div GroupSize = Rank(S, key) \div GroupSize}

\* Variant with a defect: a group of one is condensed.
IsGroup_Any(size) == size > 0
IsGroup(size) == size > 1

\* A group is condensed when the next one begins, so the last one never is.
Groups(S) ==
    {G \in {GroupOf(S, key) : key \in S} :
       /\ IsGroup(Cardinality(G))
       /\ \E next \in S : \A key \in G : Position(key) < Position(next)}

\* Some time between one condensation and twice CondenseFrequency later,
\* the process queries for old keys.
Query(p) ==
    /\ pc[p] = "saved"
    /\ groups' = [groups EXCEPT ![p] = Groups(OldKeys)]
    /\ Goto(p, "condense")
    /\ UNCHANGED <<stored, local, snapshot, pending, now, reader, failures>>

Total(S) == Sum([key \in Keys |-> IF key \in S THEN entity[key].count ELSE 0])

\* Variant with a defect: the sum goes to the last of the keys.
Survivor_Last(present) ==
    CHOOSE key \in present : \A k \in present : Position(k) <= Position(key)
Survivor(present) == First(present)

\* Variant with a defect: the key that has the sum is deleted as well.
Deleted_All(present) == present
Deleted(present) == present \ {Survivor(present)}

\* The transaction of CondenseOldCounters: the keys that are still there are
\* looked up, however young they are by now.  The first gets the sum.
Condense(present) ==
    IF Cardinality(present) < 2 THEN UNCHANGED <<entity, condensed>>
    ELSE /\ entity' = [key \in Keys |->
              IF key \in Deleted(present) THEN NoEntity
              ELSE IF key = Survivor(present)
              THEN [count |-> Total(present), timestamp |-> now]
              ELSE entity[key]]
         /\ condensed' = condensed \cup present

\* One group after the other, in the order of their names.
CondenseGroup(p) ==
    /\ pc[p] = "condense"
    /\ \E group \in groups[p] :
         /\ \A g \in groups[p] : Position(First(group)) <= Position(First(g))
         /\ Condense({key \in group : entity[key] # NoEntity})
         /\ groups' = [groups EXCEPT ![p] = @ \ {group}]
    /\ UNCHANGED <<local, snapshot, pc, pending, now, reader, failures,
                   written, rewritten>>

\* A conflict or an error ends the condensation for this time.
CondenseFails(p) ==
    /\ pc[p] = "condense" /\ groups[p] # {}
    /\ failures < MaxFailures
    /\ failures' = failures + 1
    /\ groups' = [groups EXCEPT ![p] = {}]
    /\ Goto(p, "delay")
    /\ UNCHANGED <<stored, local, snapshot, pending, now, reader>>

CondenseDone(p) ==
    /\ pc[p] = "condense" /\ groups[p] = {}
    /\ Goto(p, "delay")
    /\ UNCHANGED <<stored, local, snapshot, pending, groups, now, reader, failures>>

\* GetCountAsync: a query in the order of the keys, read one at a time while
\* processes save and condense.
ReadBegin(id) ==
    /\ reader = NoRead
    /\ reader' = [id |-> id, at |-> 0, sum |-> 0]
    /\ UNCHANGED <<stored, counting, now, failures>>

ReadNext ==
    LET rest == {key \in KeysOf(reader.id) :
                   Position(key) > reader.at /\ entity[key] # NoEntity} IN
    /\ reader # NoRead
    /\ reader' = IF rest = {} THEN NoRead
                 ELSE [id |-> reader.id, at |-> Position(First(rest)),
                       sum |-> reader.sum + entity[First(rest)].count]
    /\ UNCHANGED <<stored, counting, now, failures>>

HostedService(p) ==
    \/ Collect(p) \/ Upsert(p) \/ UpsertFails(p) \/ NotYetCondense(p)
    \/ Query(p) \/ CondenseGroup(p) \/ CondenseFails(p) \/ CondenseDone(p)

Next ==
    \/ Tick
    \/ \E p \in Shards : Start(p) \/ Gone(p) \/ HostedService(p)
    \/ \E key \in Keys : Increase(key)
    \/ \E id \in Ids : ReadBegin(id)
    \/ ReadNext

Spec == Init /\ [][Next]_vars

\* The loop of a process that runs goes on.
FairSpec == Spec /\ \A p \in Shards : WF_vars(HostedService(p))

-----------------------------------------------------------------------------
Entity == [count : Nat, timestamp : 0..MaxTime]

Upserts == [key : Keys, count : Nat, timestamp : 0..MaxTime]

PC == {"unborn", "delay", "upsert", "saved", "condense", "dead"}

TypeOK ==
    /\ entity \in [Keys -> Entity \cup {NoEntity}]
    /\ now \in 0..MaxTime
    /\ local \in [Keys -> Nat] /\ \A key \in Keys : local[key] <= Limit[key]
    /\ snapshot \in [Keys -> Nat] /\ written \in [Keys -> Nat]
    /\ pc \in [Shards -> PC]
    /\ pending \in [Shards -> SUBSET Upserts]
    /\ groups \in [Shards -> SUBSET SUBSET Keys]
    /\ \A p \in Shards :
         /\ \A e \in pending[p] : e.count \in 1..Limit[e.key] /\ e.timestamp <= now
         /\ \A group \in groups[p] : Cardinality(group) \in 2..GroupSize
    /\ \/ reader = NoRead
       \/ reader \in [id : Ids, at : 0..Len(KeyOrder), sum : Nat]
    /\ failures \in 0..MaxFailures
    /\ condensed \subseteq Keys /\ rewritten \subseteq condensed

Present(id) == {key \in KeysOf(id) : entity[key] # NoEntity}
Written(id) ==
    Sum([key \in Keys |-> IF key \in KeysOf(id) THEN written[key] ELSE 0])
IsRewritten(id) == \E key \in rewritten : IdOf(key) = id

\* Whatever is condensed, by whom and how often, and whichever processes
\* die: the keys of a counter add up to what its processes saved, unless one
\* of them saves a key again that was condensed.
CountsAddUp ==
    \A id \in Ids : ~IsRewritten(id) => Total(Present(id)) = Written(id)

\* A reader that passes the keys while they are condensed may miss counts,
\* but does not count twice: counts only move to keys it has passed.
NoDoubleReads ==
    reader # NoRead /\ ~IsRewritten(reader.id) => reader.sum <= Written(reader.id)

\* Between two failures the loop of a process catches up.  Once the bounded
\* failures are over, what a process has counted and not yet given to an
\* upsert is saved, unless the process ends.  A count whose upsert failed is
\* in the snapshot and so not due: it waits for the next change of the
\* counter, which saves all of it, what failed before included.
IsDue(key) ==
    local[key] # snapshot[key] \/ \E e \in pending[ShardOf(key)] : e.key = key

IsSaved(key, n) == written[key] >= n \/ pc[ShardOf(key)] = "dead"

CountsAreSaved ==
    \A key \in Keys : \A n \in 1..Limit[key] :
        failures = MaxFailures /\ local[key] >= n /\ IsDue(key)
            ~> IsSaved(key, n)

=============================================================================
