--------------------------- MODULE ShardedCounter ---------------------------
(***************************************************************************)
(* Sudokumb's ShardedCounter: each thread counts in a shard of its own,    *)
(* and whoever asks for the count adds the shards up, and moves those of   *)
(* threads that have ended into one sum.  The list of shards is read and   *)
(* replaced under a lock; that sum is first read before the lock is taken. *)
(* A sum is represented by its summands, a function of the threads.        *)
(***************************************************************************)
EXTENDS Naturals, FiniteSets

CONSTANTS
    Threads,   \* threads that count
    Readers,   \* threads that ask for the count
    MaxCount,  \* bound: how far a thread counts
    None

ASSUME NoneAssumption == None \notin Readers \cup Threads

ASSUME BoundAssumption == MaxCount \in Nat

VARIABLES
    count,         \* Shard.Count of each thread, 0 before it has one
    slot,          \* threads that have their shard in _slot
    alive,         \* Thread.IsAlive
    shards,        \* _shards, as the threads that own them
    deadShardSum,  \* _deadShardSum
    lock,          \* the reader that has _thisLock
    reader,        \* per reader: where the getter of Count is
    began,         \* auxiliary: the counts when its call began
    alone,         \* auxiliary: no other call has overlapped it
    result         \* auxiliary: what a call returned last

threadVars == <<count, slot, alive>>
auxVars == <<began, alone, result>>
vars == <<threadVars, shards, deadShardSum, lock, reader, auxVars>>

Nothing == [t \in Threads |-> 0]

\* The local variables of the getter: the sum, the shards the loop has yet to
\* visit, the one it is at, and livingShards_.
NotReading ==
    [pc |-> "idle", sum |-> Nothing, todo |-> {}, at |-> None, living |-> {}]

\* The readers that are in the getter.
Busy == {r \in Readers : reader[r].pc # "idle"}

Plus(sum, t) == [sum EXCEPT ![t] = @ + count[t]]

Init ==
    /\ count = Nothing
    /\ slot = {}
    /\ alive = Threads
    /\ shards = {}
    /\ deadShardSum = Nothing
    /\ lock = None
    /\ reader = [r \in Readers |-> NotReading]
    /\ began = [r \in Readers |-> Nothing]
    /\ alone = [r \in Readers |-> TRUE]
    /\ result = Nothing

\* Variant with a defect: Thread.SetData is forgotten.
NewShard_NoSlot(t) ==
    /\ t \in alive \ slot
    /\ lock = None
    /\ shards' = shards \cup {t}
    /\ UNCHANGED <<count, slot, alive, deadShardSum, lock, reader, auxVars>>

\* The first Increase of a thread: lock (_thisLock) _shards.Add(counter).
NewShard(t) ==
    /\ t \in alive \ slot
    /\ lock = None
    /\ slot' = slot \cup {t}
    /\ shards' = shards \cup {t}
    /\ UNCHANGED <<count, alive, deadShardSum, lock, reader, auxVars>>

\* Shard.Increase is an Interlocked.Add.
Increase(t) ==
    /\ t \in alive \cap slot
    /\ count[t] < MaxCount
    /\ count' = [count EXCEPT ![t] = @ + 1]
    /\ UNCHANGED <<slot, alive, shards, deadShardSum, lock, reader, auxVars>>

End(t) ==
    /\ t \in alive
    /\ alive' = alive \ {t}
    /\ UNCHANGED <<count, slot, shards, deadShardSum, lock, reader, auxVars>>

\* long sum = _deadShardSum, without the lock.
ReadDeadShardSum(r) ==
    /\ reader[r].pc = "idle"
    /\ reader' = [reader EXCEPT ![r].pc = "enter", ![r].sum = deadShardSum]
    /\ began' = [began EXCEPT ![r] = count]
    /\ alone' = [q \in Readers |->
                   IF q = r THEN Busy = {} ELSE q \notin Busy]
    /\ UNCHANGED <<threadVars, shards, deadShardSum, lock, result>>

\* Variant with a defect: nobody waits for the lock.
Enter_Unlocked(r) ==
    /\ reader[r].pc = "enter"
    /\ lock' = r
    /\ reader' = [reader EXCEPT ![r].pc = "loop", ![r].todo = shards,
                                ![r].living = {}]
    /\ UNCHANGED <<threadVars, shards, deadShardSum, auxVars>>

Enter(r) ==
    /\ reader[r].pc = "enter"
    /\ lock = None
    /\ lock' = r
    /\ reader' = [reader EXCEPT ![r].pc = "loop", ![r].todo = shards,
                                ![r].living = {}]
    /\ UNCHANGED <<threadVars, shards, deadShardSum, auxVars>>

\* foreach: sum += shard.Count.
AddShard(r) ==
    /\ reader[r].pc = "loop"
    /\ \E t \in reader[r].todo :
         reader' = [reader EXCEPT ![r].pc = "added", ![r].todo = @ \ {t},
                                  ![r].sum = Plus(@, t), ![r].at = t]
    /\ UNCHANGED <<threadVars, shards, deadShardSum, lock, auxVars>>

\* shard.Owner.IsAlive.
KeepShard(r) ==
    /\ reader[r].pc = "added" /\ reader[r].at \in alive
    /\ reader' = [reader EXCEPT ![r].pc = "loop",
                                ![r].living = @ \cup {reader[r].at}]
    /\ UNCHANGED <<threadVars, shards, deadShardSum, lock, auxVars>>

\* Variant with a defect: the count is taken from the sum of this reading.
RetireShard_Sum(r) ==
    /\ reader[r].pc = "added" /\ reader[r].at \notin alive
    /\ deadShardSum' =
         [deadShardSum EXCEPT ![reader[r].at] = @ + reader[r].sum[reader[r].at]]
    /\ reader' = [reader EXCEPT ![r].pc = "loop"]
    /\ UNCHANGED <<threadVars, shards, lock, auxVars>>

\* Its thread has ended: _deadShardSum += shard.Count.
RetireShard(r) ==
    /\ reader[r].pc = "added" /\ reader[r].at \notin alive
    /\ deadShardSum' = Plus(deadShardSum, reader[r].at)
    /\ reader' = [reader EXCEPT ![r].pc = "loop"]
    /\ UNCHANGED <<threadVars, shards, lock, auxVars>>

\* Variant with a defect: _shards is not replaced.
Leave_KeepsAll(r) ==
    /\ reader[r].pc = "loop" /\ reader[r].todo = {}
    /\ lock' = None
    /\ reader' = [reader EXCEPT ![r] = NotReading]
    /\ began' = [began EXCEPT ![r] = Nothing]
    /\ alone' = [alone EXCEPT ![r] = TRUE]
    /\ result' = reader[r].sum
    /\ UNCHANGED <<threadVars, shards, deadShardSum>>

\* The lock is released and the sum returned.
Leave(r) ==
    /\ reader[r].pc = "loop" /\ reader[r].todo = {}
    /\ shards' = reader[r].living
    /\ lock' = None
    /\ reader' = [reader EXCEPT ![r] = NotReading]
    /\ began' = [began EXCEPT ![r] = Nothing]
    /\ alone' = [alone EXCEPT ![r] = TRUE]
    /\ result' = reader[r].sum
    /\ UNCHANGED <<threadVars, deadShardSum>>

Count(r) ==
    \/ ReadDeadShardSum(r) \/ Enter(r) \/ AddShard(r)
    \/ KeepShard(r) \/ RetireShard(r) \/ Leave(r)

Next ==
    \/ \E t \in Threads : NewShard(t) \/ Increase(t) \/ End(t)
    \/ \E r \in Readers : Count(r)

Spec == Init /\ [][Next]_vars

\* Threads that are in a call go on with it; a thread that waits for the lock
\* gets it when it is free again and again.
Fairness ==
    \A r \in Readers :
        /\ SF_vars(Enter(r))
        /\ WF_vars(AddShard(r) \/ KeepShard(r) \/ RetireShard(r) \/ Leave(r))

FairSpec == Spec /\ Fairness

-----------------------------------------------------------------------------
Sums == [Threads -> Nat]

TypeOK ==
    /\ count \in Sums /\ deadShardSum \in Sums
    /\ shards \subseteq slot /\ slot \subseteq Threads /\ alive \subseteq Threads
    /\ lock \in Readers \cup {None}
    /\ reader \in [Readers ->
         [pc : {"idle", "enter", "loop", "added"}, sum : Sums,
          todo : SUBSET Threads, at : Threads \cup {None}, living : SUBSET Threads]]
    /\ began \in [Readers -> Sums]
    /\ alone \in [Readers -> BOOLEAN]
    /\ result \in Sums

\* Shards the reader that has the lock has already moved to _deadShardSum.
Moved(t) ==
    \E r \in Readers :
        /\ reader[r].pc \in {"loop", "added"} /\ t \in shards
        /\ t \notin reader[r].todo \cup reader[r].living
        /\ reader[r].pc = "added" => t # reader[r].at

\* However many threads have ended and readers have cleaned up after them,
\* each thread is counted once: in its shard, or in _deadShardSum.
ShardsAddUp ==
    \A t \in Threads :
        deadShardSum[t] + (IF t \in shards /\ ~Moved(t) THEN count[t] ELSE 0)
            = count[t]

\* A reading is right for each thread at some moment between its begin and
\* its end; only when another reading overlaps it can it miss a thread, one
\* that ended and whose shard that other reading moved.
Readings == INSTANCE CountReadings WITH
    reading <- Busy

ImplementsReadings == Readings!Spec

\* The shards of threads that have ended do not pile up: whoever asks for the
\* count removes those whose thread had ended before it took the lock.
DeadShardsAreRemoved ==
    \A t \in Threads, r \in Readers :
        t \notin alive /\ reader[r].pc = "enter" ~> t \notin shards

=============================================================================
