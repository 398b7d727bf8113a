------------------------ MODULE ShardedCounterProofs ------------------------
(***************************************************************************)
(* Proofs about ShardedCounter for any threads and readers and any counts: *)
(* its shards add up, and it implements CountReadings.                     *)
(***************************************************************************)
EXTENDS ShardedCounter, TLAPS

InLoop(r) == reader[r].pc \in {"loop", "added"}

\* The loop goes through the shards: they are still to be visited, at hand,
\* kept, or those of threads that have ended.
LoopsAreInOrder ==
    \A r \in Readers :
        /\ InLoop(r) <=> lock = r
        /\ InLoop(r) =>
             /\ reader[r].todo \subseteq shards /\ reader[r].living \subseteq shards
             /\ reader[r].todo \cap reader[r].living = {}
        /\ reader[r].pc = "added" =>
             reader[r].at \in shards \ (reader[r].todo \cup reader[r].living)

\* Threads whose counts are in _deadShardSum: their shards are not in the
\* list any more, or will not be when the reader in the loop leaves it.
Retired == {t \in slot : t \notin shards \/ Moved(t)}

\* A thread counts in its shard only, and a shard is moved only when its
\* thread has ended.
ThreadsAreInOrder ==
    \A t \in Threads :
        /\ t \notin slot => count[t] = 0
        /\ t \in Retired => t \notin alive
        /\ deadShardSum[t] = IF t \in Retired THEN count[t] ELSE 0

CounterInv ==
    /\ TypeOK
    /\ LoopsAreInOrder
    /\ ThreadsAreInOrder

USE NoneAssumption, BoundAssumption DEF Nothing, NotReading

-----------------------------------------------------------------------------
LEMMA InitCounter == Init => CounterInv
BY DEF Init, CounterInv, TypeOK, Sums, LoopsAreInOrder, ThreadsAreInOrder, Retired, InLoop, Moved

PCs == {"idle", "enter", "loop", "added"}
ThreadSets == SUBSET Threads
ThreadOrNone == Threads \cup {None}

ReaderType ==
    [pc : PCs, sum : Sums, todo : ThreadSets, at : ThreadOrNone, living : ThreadSets]

\* What the getter of Count does to its local variables.
LEMMA ReaderTypes ==
    ASSUME TypeOK, NEW r \in Readers, Count(r)
    PROVE  reader' \in [Readers -> ReaderType]
<1> DEFINE f == reader[r]
<1>1. reader \in [Readers -> ReaderType]
  BY DEF TypeOK, ReaderType, PCs, ThreadSets, ThreadOrNone
<1>2. "enter" \in PCs /\ "loop" \in PCs /\ "added" \in PCs
  BY DEF PCs
<1>3. /\ shards \in ThreadSets /\ {} \in ThreadSets /\ deadShardSum \in Sums
      /\ \A S \in ThreadSets, t \in Threads : S \ {t} \in ThreadSets /\ S \cup {t} \in ThreadSets
      /\ alive \subseteq Threads /\ (\A S \in ThreadSets : S \subseteq Threads)
      /\ Threads \subseteq ThreadOrNone
  BY DEF TypeOK, ThreadSets, ThreadOrNone
<1>4. CASE ReadDeadShardSum(r)
  BY <1>1, <1>2, <1>3, <1>4 DEF ReadDeadShardSum, ReaderType
<1>5. CASE Enter(r)
  BY <1>1, <1>2, <1>3, <1>5 DEF Enter, ReaderType
<1>6. CASE AddShard(r)
  <2>1. \A sum \in Sums, t \in Threads : Plus(sum, t) \in Sums
    BY DEF Plus, TypeOK, Sums
  <2>2. PICK t \in f.todo :
          reader' = [reader EXCEPT ![r].pc = "added", ![r].todo = @ \ {t},
                                   ![r].sum = Plus(@, t), ![r].at = t]
    BY <1>6 DEF AddShard
  <2>3. t \in Threads /\ t \in ThreadOrNone
    BY <1>1, <1>3, <2>2 DEF ReaderType
  <2>4. QED
    BY <1>1, <1>2, <1>3, <2>1, <2>2, <2>3 DEF ReaderType
<1>7. CASE KeepShard(r)
  BY <1>1, <1>2, <1>3, <1>7 DEF KeepShard, ReaderType
<1>8. CASE RetireShard(r)
  BY <1>1, <1>2, <1>8 DEF RetireShard, ReaderType
<1>9. CASE Leave(r)
  <2>1. NotReading \in ReaderType
    BY DEF ReaderType, PCs, ThreadSets, ThreadOrNone, Sums
  <2>2. QED
    BY <1>1, <1>9, <2>1 DEF Leave
<1>10. QED
  BY <1>4, <1>5, <1>6, <1>7, <1>8, <1>9 DEF Count

LEMMA NextType == CounterInv /\ [Next]_vars => TypeOK'
<1> SUFFICES ASSUME CounterInv, [Next]_vars PROVE TypeOK'
  OBVIOUS
<1>t. TypeOK
  BY DEF CounterInv
<1>1. ASSUME NEW t \in Threads, NewShard(t) \/ Increase(t) \/ End(t) PROVE TypeOK'
  <2>1. UNCHANGED <<deadShardSum, lock, reader, began, alone, result>>
    BY <1>1 DEF NewShard, Increase, End, auxVars
  <2>2. shards' \subseteq slot' /\ slot' \subseteq Threads /\ alive' \subseteq Threads
    BY <1>t, <1>1 DEF TypeOK, NewShard, Increase, End
  <2>3. count' \in Sums
    <3>1. count \in [Threads -> Nat]
      BY <1>t DEF TypeOK, Sums
    <3>2. [count EXCEPT ![t] = @ + 1] \in [Threads -> Nat]
      BY <3>1
    <3>3. QED
      BY <1>1, <3>1, <3>2 DEF Sums, NewShard, Increase, End
  <2>4. QED
    BY <1>t, <2>1, <2>2, <2>3 DEF TypeOK
<1>2. ASSUME NEW r \in Readers, Count(r) PROVE TypeOK'
  <2>1. reader' \in [Readers -> ReaderType]
    BY <1>t, <1>2, ReaderTypes
  <2>2. UNCHANGED threadVars
    BY <1>2 DEF Count, ReadDeadShardSum, Enter, AddShard, KeepShard,
                RetireShard, Leave
  <2>3. lock' \in Readers \cup {None} /\ shards' \subseteq slot
    <3>1. shards \subseteq slot /\ lock \in Readers \cup {None}
      BY <1>t DEF TypeOK
    <3>2. reader[r].pc = "loop" => reader[r].living \subseteq shards
      BY DEF CounterInv, LoopsAreInOrder, InLoop
    <3>3. QED
      BY <1>2, <3>1, <3>2 DEF Count, ReadDeadShardSum, Enter, AddShard, KeepShard,
                  RetireShard, Leave
  <2>4. deadShardSum' \in Sums /\ result' \in Sums
    <3>1. count \in Sums /\ deadShardSum \in Sums /\ result \in Sums
          /\ reader \in [Readers -> ReaderType]
      BY <1>t DEF TypeOK, ReaderType, PCs, ThreadSets, ThreadOrNone
    <3>2. \A t \in Threads : Plus(deadShardSum, t) \in Sums
      BY <3>1 DEF Plus, Sums
    <3>5. reader[r].pc = "added" => reader[r].at \in Threads
      BY <1>t DEF CounterInv, LoopsAreInOrder, TypeOK
    <3>3. reader[r].sum \in Sums
      BY <3>1 DEF ReaderType
    <3>4. QED
      BY <1>2, <3>1, <3>2, <3>3, <3>5 DEF Count, ReadDeadShardSum, Enter,
                 AddShard, KeepShard, RetireShard, Leave, auxVars
  <2>5. began' \in [Readers -> Sums]
    <3>1. began \in [Readers -> Sums] /\ count \in Sums /\ [t \in Threads |-> 0] \in Sums
      BY <1>t DEF TypeOK, Sums
    <3>2. QED
      BY <1>2, <3>1 DEF Count, ReadDeadShardSum, Enter, AddShard,
                 KeepShard, RetireShard, Leave, auxVars
  <2>6. alone' \in [Readers -> BOOLEAN]
    <3>1. alone \in [Readers -> BOOLEAN]
      BY <1>t DEF TypeOK
    <3>2. CASE ReadDeadShardSum(r)
      BY <3>2 DEF ReadDeadShardSum
    <3>3. CASE Leave(r)
      BY <3>1, <3>3 DEF Leave
    <3>4. CASE UNCHANGED auxVars
      BY <3>1, <3>4 DEF auxVars
    <3>5. QED
      BY <1>2, <3>2, <3>3, <3>4 DEF Count, Enter, AddShard, KeepShard, RetireShard
  <2>7. QED
    BY <1>t, <2>1, <2>2, <2>3, <2>4, <2>5, <2>6
       DEF TypeOK, threadVars, ReaderType, PCs, ThreadSets, ThreadOrNone
<1>3. CASE UNCHANGED vars
  BY <1>t, <1>3 DEF vars, threadVars, auxVars, TypeOK
<1>4. QED
  BY <1>1, <1>2, <1>3 DEF Next

-----------------------------------------------------------------------------
(* The shards add up.                                                      *)

\* What a step of a thread changes of shards nobody can tell in the loop.
LEMMA ThreadStep ==
    ASSUME CounterInv, NEW t \in Threads, NewShard(t) \/ Increase(t) \/ End(t)
    PROVE  LoopsAreInOrder' /\ ThreadsAreInOrder'
<1> USE DEF CounterInv, TypeOK, Sums
<1>1. UNCHANGED <<reader, lock, deadShardSum>> /\ count \in [Threads -> Nat]
      /\ (shards' = shards \/ (lock = None /\ shards' = shards \cup {t}))
      /\ slot \subseteq slot'
  BY DEF NewShard, Increase, End
<1>2. lock = None => \A r \in Readers : ~InLoop(r)
  BY DEF LoopsAreInOrder
<1>3. LoopsAreInOrder'
  BY <1>1, <1>2 DEF LoopsAreInOrder, InLoop
<1>4. Retired' = Retired
  <2>1. CASE UNCHANGED <<slot, shards>>
    BY <1>1, <2>1 DEF Retired, Moved
  <2>2. CASE NewShard(t)
    <3>1. t \notin slot /\ slot' = slot \cup {t} /\ shards' = shards \cup {t}
          /\ lock = None
      BY <2>2 DEF NewShard
    <3>2. \A u : ~Moved(u) /\ ~Moved(u)'
      BY <1>1, <1>2, <3>1 DEF Moved, InLoop
    <3>3. QED
      BY <3>1, <3>2 DEF Retired
  <2>3. QED
    BY <2>1, <2>2 DEF Increase, End
<1> SUFFICES ThreadsAreInOrder'
  BY <1>3
<1>o. \A u \in Threads :
        /\ u \notin slot => count[u] = 0
        /\ u \in Retired => u \notin alive
        /\ deadShardSum[u] = IF u \in Retired THEN count[u] ELSE 0
  BY DEF ThreadsAreInOrder
<1>5. CASE NewShard(t)
  <2>1. UNCHANGED <<count, alive>>
    BY <1>5 DEF NewShard
  <2>2. QED
    BY <1>1, <1>4, <1>o, <2>1 DEF ThreadsAreInOrder
<1>6. CASE Increase(t)
  <2>1. t \in alive /\ t \in slot /\ UNCHANGED <<slot, alive>>
        /\ \A u \in Threads \ {t} : count'[u] = count[u]
    BY <1>1, <1>6 DEF Increase
  <2>2. t \notin Retired
    BY <2>1, <1>o
  <2>3. QED
    BY <1>1, <1>4, <1>o, <2>1, <2>2 DEF ThreadsAreInOrder
<1>7. CASE End(t)
  <2>1. alive' \subseteq alive /\ UNCHANGED <<slot, count>>
    BY <1>7 DEF End
  <2>2. QED
    BY <1>1, <1>4, <1>o, <2>1 DEF ThreadsAreInOrder
<1>8. QED
  BY <1>5, <1>6, <1>7

\* What readers do to the shards.
LEMMA ReaderStep ==
    ASSUME CounterInv, NEW r \in Readers, Count(r), TypeOK'
    PROVE  LoopsAreInOrder' /\ ThreadsAreInOrder'
<1> USE DEF CounterInv, TypeOK, Sums
<1>1. UNCHANGED <<count, slot, alive>>
  BY DEF Count, ReadDeadShardSum, Enter, AddShard, KeepShard, RetireShard,
         Leave, threadVars
<1>2. \A q \in Readers \ {r} : reader'[q] = reader[q]
  BY DEF Count, ReadDeadShardSum, Enter, AddShard, KeepShard, RetireShard, Leave
<1>3. InLoop(r) => \A q \in Readers \ {r} : ~InLoop(q)
  BY DEF LoopsAreInOrder
<1>4. LoopsAreInOrder
  OBVIOUS
<1>5. CASE ReadDeadShardSum(r)
  <2>1. ~InLoop(r) /\ ~InLoop(r)' /\ UNCHANGED <<shards, lock, deadShardSum>>
        /\ reader'[r].pc = "enter"
    BY <1>5 DEF ReadDeadShardSum, InLoop
  <2>2. LoopsAreInOrder'
    BY <1>2, <1>4, <2>1 DEF LoopsAreInOrder, InLoop
  <2>3. \A q \in Readers : InLoop(q)' <=> InLoop(q)
    BY <1>2, <2>1 DEF InLoop
  <2>4. Retired' = Retired
    BY <1>1, <1>2, <2>1 DEF Retired, Moved, InLoop
  <2>5. QED
    BY <1>1, <2>1, <2>2, <2>4 DEF ThreadsAreInOrder
<1>6. CASE Enter(r)
  <2>1. /\ lock = None /\ lock' = r /\ UNCHANGED <<shards, deadShardSum>>
        /\ reader'[r].pc = "loop" /\ reader'[r].todo = shards
        /\ reader'[r].living = {}
    BY <1>6 DEF Enter
  <2>2. \A q \in Readers : ~InLoop(q)
    BY <1>4, <2>1 DEF LoopsAreInOrder
  <2>3. LoopsAreInOrder'
    BY <1>2, <2>1, <2>2 DEF LoopsAreInOrder, InLoop
  <2>4. \A t : ~Moved(t) /\ ~Moved(t)'
    BY <1>2, <2>1, <2>2 DEF Moved, InLoop
  <2>5. Retired' = Retired
    BY <1>1, <2>1, <2>4 DEF Retired
  <2>6. QED
    BY <1>1, <2>1, <2>3, <2>5 DEF ThreadsAreInOrder
<1>7. CASE AddShard(r)
  <2>1. PICK t \in reader[r].todo :
          reader' = [reader EXCEPT ![r].pc = "added", ![r].todo = @ \ {t},
                                   ![r].sum = Plus(@, t), ![r].at = t]
    BY <1>7 DEF AddShard
  <2>2. /\ reader[r].pc = "loop" /\ UNCHANGED <<shards, lock, deadShardSum>>
        /\ reader'[r].pc = "added" /\ reader'[r].todo = reader[r].todo \ {t}
        /\ reader'[r].at = t /\ reader'[r].living = reader[r].living
    BY <1>7, <2>1 DEF AddShard
  <2>3. LoopsAreInOrder'
    BY <1>2, <1>4, <2>2 DEF LoopsAreInOrder, InLoop
  <2>4. \A u : Moved(u)' <=> Moved(u)
    BY <1>2, <1>3, <1>4, <2>2 DEF Moved, InLoop, LoopsAreInOrder
  <2>5. Retired' = Retired
    BY <1>1, <2>2, <2>4 DEF Retired
  <2>6. QED
    BY <1>1, <2>2, <2>3, <2>5 DEF ThreadsAreInOrder
<1>8. CASE KeepShard(r)
  <2>1. /\ reader[r].pc = "added" /\ UNCHANGED <<shards, lock, deadShardSum>>
        /\ reader'[r].pc = "loop" /\ reader'[r].todo = reader[r].todo
        /\ reader'[r].living = reader[r].living \cup {reader[r].at}
    BY <1>8 DEF KeepShard
  <2>2. LoopsAreInOrder'
    BY <1>2, <1>4, <2>1 DEF LoopsAreInOrder, InLoop
  <2>3. \A u : Moved(u)' <=> Moved(u)
    BY <1>2, <1>3, <1>4, <2>1 DEF Moved, InLoop, LoopsAreInOrder
  <2>4. Retired' = Retired
    BY <1>1, <2>1, <2>3 DEF Retired
  <2>5. QED
    BY <1>1, <2>1, <2>2, <2>4 DEF ThreadsAreInOrder
<1>9. CASE RetireShard(r)
  <2>1. /\ reader[r].pc = "added" /\ UNCHANGED <<shards, lock>>
        /\ reader'[r].pc = "loop" /\ reader'[r].todo = reader[r].todo
        /\ reader'[r].living = reader[r].living /\ reader[r].at \notin alive
        /\ deadShardSum' = Plus(deadShardSum, reader[r].at)
    BY <1>9 DEF RetireShard
  <2>2. LoopsAreInOrder'
    BY <1>2, <1>4, <2>1 DEF LoopsAreInOrder, InLoop
  <2>3. reader[r].at \in shards \ (reader[r].todo \cup reader[r].living)
        /\ shards \subseteq slot /\ slot \subseteq Threads
    BY <1>4, <2>1 DEF LoopsAreInOrder
  <2>4. \A u : Moved(u)' <=> Moved(u) \/ u = reader[r].at
    BY <1>2, <1>3, <2>1, <2>3 DEF Moved, InLoop
  <2>5. Retired' = Retired \cup {reader[r].at}
    BY <1>1, <2>1, <2>3, <2>4 DEF Retired
  <2>6. ~Moved(reader[r].at)
    BY <1>3, <2>1, <2>3 DEF Moved, InLoop
  <2>7. reader[r].at \notin Retired
    BY <2>3, <2>6 DEF Retired
  <2>8. \A t \in Threads : deadShardSum'[t] =
          IF t = reader[r].at THEN deadShardSum[t] + count[t] ELSE deadShardSum[t]
    BY <2>1, <2>3 DEF Plus
  <2>9. QED
    BY <1>1, <2>1, <2>2, <2>5, <2>7, <2>8 DEF ThreadsAreInOrder
<1>10. CASE Leave(r)
  <2>1. /\ reader[r].pc = "loop" /\ reader[r].todo = {} /\ lock' = None
        /\ shards' = reader[r].living /\ UNCHANGED deadShardSum
        /\ reader'[r].pc = "idle"
    BY <1>10 DEF Leave
  <2>2. LoopsAreInOrder' /\ \A q \in Readers : ~InLoop(q)'
    BY <1>2, <1>3, <1>4, <2>1 DEF LoopsAreInOrder, InLoop
  <2>3. \A t : Moved(t) <=> t \in shards /\ t \notin reader[r].living
    BY <1>3, <2>1 DEF Moved, InLoop
  <2>4. \A t : ~Moved(t)'
    BY <2>2 DEF Moved, InLoop
  <2>5. reader[r].living \subseteq shards
    BY <1>4, <2>1 DEF LoopsAreInOrder, InLoop
  <2>6. Retired' = Retired
    BY <1>1, <2>1, <2>3, <2>4, <2>5 DEF Retired
  <2>7. QED
    BY <1>1, <2>1, <2>2, <2>6 DEF ThreadsAreInOrder
<1>11. QED
  BY <1>5, <1>6, <1>7, <1>8, <1>9, <1>10 DEF Count

LEMMA NextCounter == CounterInv /\ [Next]_vars => CounterInv'
<1> SUFFICES ASSUME CounterInv, [Next]_vars PROVE CounterInv'
  OBVIOUS
<1>1. TypeOK'
  BY NextType
<1>2. ASSUME NEW t \in Threads, NewShard(t) \/ Increase(t) \/ End(t)
      PROVE  LoopsAreInOrder' /\ ThreadsAreInOrder'
  BY <1>2, ThreadStep
<1>3. ASSUME NEW r \in Readers, Count(r)
      PROVE  LoopsAreInOrder' /\ ThreadsAreInOrder'
  BY <1>1, <1>3, ReaderStep
<1>4. CASE UNCHANGED vars
  <2>1. UNCHANGED <<count, slot, alive, shards, deadShardSum, lock, reader>>
    BY <1>4 DEF vars, threadVars
  <2>2. LoopsAreInOrder'
    BY <2>1 DEF CounterInv, LoopsAreInOrder, InLoop
  <2>3. Retired' = Retired
    BY <2>1 DEF Retired, Moved
  <2>4. ThreadsAreInOrder'
    BY <2>1, <2>3 DEF CounterInv, ThreadsAreInOrder
  <2>5. QED
    BY <1>1, <2>2, <2>4 DEF CounterInv
<1>5. QED
  BY <1>1, <1>2, <1>3, <1>4 DEF Next, CounterInv

\* The inductive invariant holds always.
THEOREM CounterIsSafe == Spec => []CounterInv
BY InitCounter, NextCounter, PTL DEF Spec

\* Every variable has its type, and only threads with a slot have a shard.
THEOREM CounterTypeCorrect == Spec => []TypeOK
<1>1. CounterInv => TypeOK
  BY DEF CounterInv
<1>2. QED
  BY <1>1, CounterIsSafe, PTL

\* However readings and the ends of threads interleave, each thread is counted
\* once: in its shard or, when a reader has moved it, in _deadShardSum.
THEOREM ShardsAlwaysAddUp == Spec => []ShardsAddUp
<1>1. CounterInv => ShardsAddUp
  <2> SUFFICES ASSUME CounterInv, NEW t \in Threads
               PROVE  deadShardSum[t]
                        + (IF t \in shards /\ ~Moved(t) THEN count[t] ELSE 0)
                        = count[t]
    BY DEF ShardsAddUp
  <2>1. count[t] \in Nat /\ shards \subseteq slot
    BY DEF CounterInv, TypeOK, Sums
  <2>2. /\ t \notin slot => count[t] = 0
        /\ deadShardSum[t] = IF t \in Retired THEN count[t] ELSE 0
    BY DEF CounterInv, ThreadsAreInOrder
  <2>3. t \in Retired <=> t \in slot /\ (t \notin shards \/ Moved(t))
    BY DEF Retired
  <2>4. QED
    BY <2>1, <2>2, <2>3
<1>2. QED
  BY <1>1, CounterIsSafe, PTL

-----------------------------------------------------------------------------
(* The readings.                                                           *)

\* Another reading has moved the shard of t to _deadShardSum after this one
\* had read _deadShardSum.
Missed(r, t) == ~alone[r] /\ t \notin alive /\ reader[r].sum[t] = 0

WaitingIsRight(r) ==
    \A t \in Threads : reader[r].sum[t] = deadShardSum[t] \/ Missed(r, t)

LoopIsRight(r) ==
    \A t \in Threads :
        IF t \in reader[r].todo THEN reader[r].sum[t] = 0
        ELSE \/ began[r][t] <= reader[r].sum[t] /\ reader[r].sum[t] <= count[t]
             \/ Missed(r, t)

\* What the sum of each reading under way is worth.
ReadingsInv ==
    \A r \in Readers :
        /\ r \in Busy => \A t \in Threads : began[r][t] <= count[t]
        /\ r \in Busy /\ alone[r] => Busy = {r}
        /\ reader[r].pc = "enter" => WaitingIsRight(r)
        /\ InLoop(r) => LoopIsRight(r)

LEMMA InitReadings == Init => ReadingsInv
BY DEF Init, ReadingsInv, Busy, InLoop

\* The values the comparisons below are about are numbers.
LEMMA Numbers ==
    ASSUME TypeOK, NEW r \in Readers, NEW t \in Threads
    PROVE  /\ count[t] \in Nat /\ deadShardSum[t] \in Nat /\ began[r][t] \in Nat
           /\ reader[r].sum[t] \in Nat
BY DEF TypeOK, Sums

\* Threads count up, and one that has ended counts no more: no reading is
\* worth less for it.
LEMMA ThreadReadings ==
    ASSUME CounterInv, ReadingsInv, TypeOK',
           NEW t \in Threads, NewShard(t) \/ Increase(t) \/ End(t)
    PROVE  ReadingsInv'
<1>1. UNCHANGED <<reader, began, alone, deadShardSum>> /\ alive' \subseteq alive
  BY DEF NewShard, Increase, End, auxVars
<1>2. \A u \in Threads : count[u] <= count'[u]
  BY DEF CounterInv, TypeOK, Sums, NewShard, Increase, End
<1>3. Busy' = Busy /\ \A r \in Readers : InLoop(r)' <=> InLoop(r)
  BY <1>1 DEF Busy, InLoop
<1>4. \A r \in Readers, u \in Threads : Missed(r, u) => Missed(r, u)'
  BY <1>1 DEF Missed
<1>5. ASSUME NEW r \in Readers, NEW u \in Threads, began[r][u] <= count[u]
      PROVE  began'[r][u] <= count'[u]
  BY <1>1, <1>2, <1>5, Numbers, TypeOK' DEF CounterInv, TypeOK, Sums
<1>6. ASSUME NEW r \in Readers, WaitingIsRight(r) PROVE WaitingIsRight(r)'
  BY <1>1, <1>4, <1>6 DEF WaitingIsRight
<1>7. ASSUME NEW r \in Readers, LoopIsRight(r) PROVE LoopIsRight(r)'
  <2>1. ASSUME NEW u \in Threads, reader[r].sum[u] <= count[u]
        PROVE  reader'[r].sum[u] <= count'[u]
    BY <1>1, <1>2, <2>1, Numbers DEF CounterInv, TypeOK, Sums
  <2>2. QED
    BY <1>1, <1>4, <1>7, <2>1 DEF LoopIsRight
<1>8. QED
  BY <1>1, <1>3, <1>5, <1>6, <1>7 DEF ReadingsInv

\* The other readings when r takes a step.
LEMMA OtherReadings ==
    ASSUME CounterInv, ReadingsInv, TypeOK', NEW r \in Readers, Count(r),
           NEW q \in Readers \ {r}
    PROVE  /\ q \in Busy => \A t \in Threads : began'[q][t] <= count'[t]
           /\ q \in Busy /\ alone'[q] => Busy' = {q}
           /\ reader[q].pc = "enter" => WaitingIsRight(q)'
           /\ InLoop(q) => LoopIsRight(q)'
<1> USE DEF CounterInv
<1>1. /\ UNCHANGED threadVars /\ reader'[q] = reader[q] /\ began'[q] = began[q]
      /\ (alone'[q] = alone[q]
           \/ (ReadDeadShardSum(r) /\ alone'[q] = (q \notin Busy)))
  BY DEF TypeOK, Count, ReadDeadShardSum, Enter, AddShard, KeepShard, RetireShard,
         Leave, auxVars
<1>2. q \in Busy /\ alone'[q] => alone[q] /\ Busy = {q} /\ r \notin Busy
  BY <1>1 DEF ReadingsInv
<1>3. q \in Busy /\ alone'[q] => Busy' = {q}
  <2> SUFFICES ASSUME q \in Busy, alone'[q] PROVE Busy' = {q}
    OBVIOUS
  <2>1. reader[r].pc = "idle" /\ ~ReadDeadShardSum(r)
    BY <1>1, <1>2 DEF Busy, ReadDeadShardSum
  <2>2. QED
    BY <2>1 DEF Count, Enter, AddShard, KeepShard, RetireShard, Leave
<1>4. q \in Busy => \A t \in Threads : began'[q][t] <= count'[t]
  BY <1>1 DEF ReadingsInv, threadVars
<1>5. \A t \in Threads : q \in Busy /\ Missed(q, t) => Missed(q, t)'
  BY <1>1 DEF Missed, threadVars
<1>6. InLoop(q) => LoopIsRight(q)'
  <2>1. InLoop(q) => q \in Busy /\ LoopIsRight(q)
    BY DEF InLoop, Busy, ReadingsInv
  <2>2. QED
    BY <1>1, <1>5, <2>1 DEF LoopIsRight, threadVars
<1>7. reader[q].pc = "enter" => WaitingIsRight(q)'
  <2> SUFFICES ASSUME reader[q].pc = "enter", NEW t \in Threads
               PROVE  reader'[q].sum[t] = deadShardSum'[t] \/ Missed(q, t)'
    BY DEF WaitingIsRight
  <2>1. q \in Busy /\ (reader[q].sum[t] = deadShardSum[t] \/ Missed(q, t))
    BY DEF Busy, ReadingsInv, WaitingIsRight
  <2>2. CASE deadShardSum'[t] = deadShardSum[t]
    BY <1>1, <1>5, <2>1, <2>2
  <2>3. CASE deadShardSum'[t] # deadShardSum[t]
    <3>1. RetireShard(r)
      BY <2>3 DEF Count, ReadDeadShardSum, Enter, AddShard, KeepShard, Leave
    <3>2. /\ reader[r].pc = "added" /\ reader[r].at \notin alive
          /\ deadShardSum' = Plus(deadShardSum, reader[r].at)
          /\ UNCHANGED auxVars
      BY <3>1 DEF RetireShard
    <3>3. t = reader[r].at
      BY <2>3, <3>2 DEF Plus, TypeOK, Sums
    <3>4. deadShardSum[t] = 0
      <4>1. t \in shards \ (reader[r].todo \cup reader[r].living)
        BY <3>2, <3>3 DEF LoopsAreInOrder
      <4>2. \A p \in Readers : InLoop(p) => p = r
        BY <3>2 DEF LoopsAreInOrder, InLoop
      <4>3. t \notin Retired
        BY <3>2, <3>3, <4>1, <4>2 DEF Retired, Moved, InLoop
      <4>4. QED
        BY <4>3 DEF ThreadsAreInOrder
    <3>5. ~alone[q]
      BY <2>1, <3>2 DEF ReadingsInv, Busy
    <3>6. reader[q].sum[t] = 0
      BY <2>1, <3>4 DEF Missed
    <3>7. QED
      BY <1>1, <3>2, <3>3, <3>5, <3>6 DEF Missed, threadVars, auxVars
  <2>4. QED
    BY <2>2, <2>3
<1>8. QED
  BY <1>3, <1>4, <1>6, <1>7

\* Only the begin and the end of a call change who is in one.
LEMMA BusyChanges ==
    ASSUME CounterInv, NEW r \in Readers, Count(r)
    PROVE  /\ ReadDeadShardSum(r) => r \notin Busy /\ Busy' = Busy \cup {r}
           /\ Leave(r) => r \in Busy /\ Busy' = Busy \ {r}
           /\ ~ReadDeadShardSum(r) /\ ~Leave(r) => r \in Busy /\ Busy' = Busy
<1> USE DEF CounterInv
<1>1. \A q \in Readers \ {r} : reader'[q] = reader[q]
  BY DEF TypeOK, Count, ReadDeadShardSum, Enter, AddShard, KeepShard, RetireShard, Leave
<1>2. \A q \in Readers \ {r} : q \in Busy' <=> q \in Busy
  BY <1>1 DEF Busy
<1>3. ReadDeadShardSum(r) => r \notin Busy /\ r \in Busy'
  BY DEF TypeOK, ReadDeadShardSum, Busy
<1>4. Leave(r) => r \in Busy /\ r \notin Busy'
  BY DEF TypeOK, Leave, Busy
<1>5. ~ReadDeadShardSum(r) /\ ~Leave(r) => r \in Busy /\ r \in Busy'
  <2>1. Enter(r) => r \in Busy /\ r \in Busy'
    BY DEF TypeOK, Enter, Busy
  <2>2. AddShard(r) => r \in Busy /\ r \in Busy'
    BY DEF TypeOK, AddShard, Busy
  <2>3. KeepShard(r) => r \in Busy /\ r \in Busy'
    BY DEF TypeOK, KeepShard, Busy
  <2>4. RetireShard(r) => r \in Busy /\ r \in Busy'
    BY DEF TypeOK, RetireShard, Busy
  <2>5. QED
    BY <2>1, <2>2, <2>3, <2>4 DEF Count
<1>6. Busy \subseteq Readers /\ Busy' \subseteq Readers
  BY DEF Busy
<1>7. QED
  BY <1>2, <1>3, <1>4, <1>5, <1>6

\* The reading of r while it waits and loops.
LEMMA OwnLoop ==
    ASSUME CounterInv, ReadingsInv, NEW r \in Readers, Count(r),
           ~ReadDeadShardSum(r), ~Leave(r)
    PROVE  InLoop(r)' => LoopIsRight(r)'
<1> USE DEF CounterInv
<1>3. r \in Busy /\ \A t \in Threads : began[r][t] <= count[t]
  BY BusyChanges DEF ReadingsInv
<1>4. UNCHANGED <<count, slot, alive, shards, began, alone>>
  BY DEF Count, Enter, AddShard, KeepShard, RetireShard, threadVars, auxVars
<1>5. CASE Enter(r)
  <2>1. /\ reader[r].pc = "enter" /\ lock = None
        /\ reader'[r].todo = shards /\ reader'[r].sum = reader[r].sum
    BY <1>5 DEF TypeOK, Enter
  <2>2. WaitingIsRight(r)
    BY <2>1 DEF ReadingsInv
  <2>3. \A q \in Readers : ~InLoop(q)
    BY <2>1 DEF LoopsAreInOrder
  <2>4. \A t \in Threads : t \in Retired <=> t \in slot /\ t \notin shards
    BY <2>3 DEF Retired, Moved, InLoop
  <2>5. ASSUME NEW t \in Threads, t \in shards PROVE reader[r].sum[t] = 0
    <3>1. deadShardSum[t] = 0
      BY <2>4, <2>5 DEF ThreadsAreInOrder
    <3>2. QED
      BY <2>2, <3>1 DEF WaitingIsRight, Missed
  <2>6. ASSUME NEW t \in Threads, t \notin shards, ~Missed(r, t)
        PROVE  began[r][t] <= reader[r].sum[t] /\ reader[r].sum[t] <= count[t]
    <3>1. deadShardSum[t] = count[t]
      BY <2>4, <2>6 DEF ThreadsAreInOrder
    <3>2. reader[r].sum[t] = count[t]
      BY <2>2, <2>6, <3>1 DEF WaitingIsRight
    <3>3. QED
      BY <1>3, <3>2, Numbers
  <2>7. \A t \in Threads : Missed(r, t) => Missed(r, t)'
    BY <1>4, <2>1 DEF Missed
  <2>8. QED
    BY <1>4, <2>1, <2>5, <2>6, <2>7 DEF LoopIsRight
<1>6. CASE AddShard(r)
  <2>1. PICK u \in reader[r].todo :
          reader' = [reader EXCEPT ![r].pc = "added", ![r].todo = @ \ {u},
                                   ![r].sum = Plus(@, u), ![r].at = u]
    BY <1>6 DEF AddShard
  <2>2. reader[r].pc = "loop" /\ reader[r].todo \subseteq Threads
        /\ reader[r].sum \in Sums
    BY <1>6 DEF TypeOK, AddShard
  <2>3. /\ reader'[r].todo = reader[r].todo \ {u}
        /\ reader'[r].sum = Plus(reader[r].sum, u)
    BY <2>1 DEF TypeOK
  <2>4. \A t \in Threads : reader'[r].sum[t] =
          IF t = u THEN reader[r].sum[t] + count[t] ELSE reader[r].sum[t]
    BY <2>2, <2>3 DEF Plus, Sums
  <2>5. LoopIsRight(r)
    BY <2>2 DEF ReadingsInv, InLoop
  <2>6. reader'[r].sum[u] = count[u]
    BY <2>2, <2>4, <2>5, Numbers DEF LoopIsRight
  <2>7. began[r][u] <= reader'[r].sum[u] /\ reader'[r].sum[u] <= count[u]
    BY <1>3, <2>2, <2>6, Numbers
  <2>8. \A t \in Threads \ {u} : Missed(r, t) => Missed(r, t)'
    BY <1>4, <2>4 DEF Missed
  <2>9. QED
    BY <1>4, <2>3, <2>4, <2>5, <2>7, <2>8 DEF LoopIsRight
<1>7. CASE KeepShard(r) \/ RetireShard(r)
  <2>1. /\ reader[r].pc = "added" /\ reader'[r].todo = reader[r].todo
        /\ reader'[r].sum = reader[r].sum
    BY <1>7 DEF TypeOK, KeepShard, RetireShard
  <2>2. LoopIsRight(r)
    BY <2>1 DEF ReadingsInv, InLoop
  <2>3. \A t \in Threads : Missed(r, t) => Missed(r, t)'
    BY <1>4, <2>1 DEF Missed
  <2>4. QED
    BY <1>4, <2>1, <2>2, <2>3 DEF LoopIsRight
<1>8. QED
  BY <1>5, <1>6, <1>7 DEF Count

\* The reading that takes a step.
LEMMA OwnReading ==
    ASSUME CounterInv, ReadingsInv, NEW r \in Readers, Count(r)
    PROVE  /\ r \in Busy' => \A t \in Threads : began'[r][t] <= count'[t]
           /\ r \in Busy' /\ alone'[r] => Busy' = {r}
           /\ reader'[r].pc = "enter" => WaitingIsRight(r)'
           /\ InLoop(r)' => LoopIsRight(r)'
<1> USE DEF CounterInv
<1>1. CASE ReadDeadShardSum(r)
  <2>1. /\ reader'[r].pc = "enter" /\ reader'[r].sum = deadShardSum
        /\ UNCHANGED <<count, deadShardSum>>
    BY <1>1 DEF TypeOK, ReadDeadShardSum, threadVars
  <2>2. \A t \in Threads : began'[r][t] <= count'[t]
    <3>1. began'[r] = count /\ \A t \in Threads : count[t] \in Nat
      BY <1>1 DEF TypeOK, Sums, ReadDeadShardSum
    <3>2. QED
      BY <2>1, <3>1
  <2>3. alone'[r] => Busy' = {r}
    <3>1. alone'[r] => Busy = {}
      BY <1>1, Zenon DEF ReadDeadShardSum
    <3>2. QED
      BY <1>1, <3>1, BusyChanges
  <2>4. QED
    BY <2>1, <2>2, <2>3 DEF WaitingIsRight, InLoop
<1>2. CASE Leave(r)
  <2>1. reader'[r].pc = "idle" /\ r \notin Busy'
    BY <1>2 DEF TypeOK, Leave, Busy
  <2>2. QED
    BY <2>1 DEF InLoop
<1>3. CASE ~ReadDeadShardSum(r) /\ ~Leave(r)
  <2>1. r \in Busy /\ Busy' = Busy
    BY <1>3, BusyChanges
  <2>2. UNCHANGED <<count, began, alone>>
    BY <1>3 DEF Count, Enter, AddShard, KeepShard, RetireShard, threadVars, auxVars
  <2>3. reader'[r].pc # "enter"
    <3>1. Enter(r) => reader'[r].pc = "loop"
      BY DEF TypeOK, Enter
    <3>2. AddShard(r) => reader'[r].pc = "added"
      BY DEF TypeOK, AddShard
    <3>3. KeepShard(r) \/ RetireShard(r) => reader'[r].pc = "loop"
      BY DEF TypeOK, KeepShard, RetireShard
    <3>4. QED
      BY <1>3, <3>1, <3>2, <3>3 DEF Count
  <2>4. InLoop(r)' => LoopIsRight(r)'
    BY <1>3, OwnLoop
  <2>5. QED
    BY <2>1, <2>2, <2>3, <2>4 DEF ReadingsInv
<1>4. QED
  BY <1>1, <1>2, <1>3

LEMMA NextReadings ==
    CounterInv /\ ReadingsInv /\ [Next]_vars => ReadingsInv'
<1> SUFFICES ASSUME CounterInv, ReadingsInv, [Next]_vars PROVE ReadingsInv'
  OBVIOUS
<1>1. CounterInv' /\ TypeOK'
  BY NextCounter DEF CounterInv
<1>2. ASSUME NEW t \in Threads, NewShard(t) \/ Increase(t) \/ End(t)
      PROVE  ReadingsInv'
  BY <1>1, <1>2, ThreadReadings
<1>3. ASSUME NEW r \in Readers, Count(r) PROVE ReadingsInv'
  <2>1. \A q \in Readers \ {r} : reader'[q] = reader[q] /\ (q \in Busy' <=> q \in Busy)
    BY <1>3 DEF CounterInv, TypeOK, Busy, Count, ReadDeadShardSum, Enter, AddShard,
                KeepShard, RetireShard, Leave
  <2>2. ASSUME NEW q \in Readers \ {r}
        PROVE  /\ q \in Busy' => \A t \in Threads : began'[q][t] <= count'[t]
               /\ q \in Busy' /\ alone'[q] => Busy' = {q}
               /\ reader'[q].pc = "enter" => WaitingIsRight(q)'
               /\ InLoop(q)' => LoopIsRight(q)'
    BY <1>1, <1>3, <2>1, OtherReadings DEF InLoop
  <2>3. QED
    BY <1>1, <1>3, <2>2, OwnReading DEF ReadingsInv
<1>4. CASE UNCHANGED vars
  BY <1>4 DEF vars, threadVars, auxVars, ReadingsInv, WaitingIsRight,
              LoopIsRight, Missed, Busy, InLoop
<1>5. QED
  BY <1>2, <1>3, <1>4 DEF Next

-----------------------------------------------------------------------------
(* ShardedCounter implements CountReadings.                                *)

LEMMA InitMaps == Init => Readings!Init
BY DEF Init, Readings!Init, Readings!Nothing, Busy

LEMMA StepMaps ==
    ASSUME CounterInv, ReadingsInv, CounterInv', [Next]_vars
    PROVE  [Readings!Next]_(Readings!readingVars)
<1> USE DEF CounterInv
<1>1. ASSUME NEW t \in Threads, NewShard(t) \/ Increase(t) \/ End(t)
      PROVE  Readings!Work
  <2>1. UNCHANGED <<Busy, began, alone, result>> /\ alive' \subseteq alive
    BY <1>1 DEF NewShard, Increase, End, auxVars, Busy
  <2>2. \A u \in Threads : count'[u] >= count[u] /\ (u \notin alive => count'[u] = count[u])
    BY <1>1 DEF TypeOK, Sums, NewShard, Increase, End
  <2>3. QED
    BY <2>1, <2>2 DEF Readings!Work
<1>2. ASSUME NEW r \in Readers, ReadDeadShardSum(r) PROVE Readings!Begin(r)
  <2>1. r \notin Busy /\ Busy' = Busy \cup {r}
    BY <1>2, BusyChanges DEF Count
  <2>2. QED
    BY <1>2, <2>1 DEF ReadDeadShardSum, Readings!Begin, threadVars
<1>3. ASSUME NEW r \in Readers, Leave(r) PROVE Readings!Return(r)
  <2>1. r \in Busy /\ Busy' = Busy \ {r}
    BY <1>3, BusyChanges DEF Count
  <2>2. /\ result' = reader[r].sum /\ reader[r].todo = {} /\ InLoop(r)
        /\ UNCHANGED <<count, alive>>
        /\ began' = [began EXCEPT ![r] = Nothing]
        /\ alone' = [alone EXCEPT ![r] = TRUE]
    BY <1>3 DEF Leave, InLoop, threadVars
  <2>3. reader[r].sum \in [Threads -> Nat]
    BY DEF TypeOK, Sums
  <2>4. LoopIsRight(r)
    BY <2>2 DEF ReadingsInv
  <2>5. ASSUME NEW t \in Threads PROVE Readings!Sees(r, t, result'[t])
    BY <2>2, <2>4, Numbers DEF LoopIsRight, Missed, Readings!Sees
  <2>6. QED
    BY <2>1, <2>2, <2>3, <2>5 DEF Readings!Return, Readings!Nothing
<1>4. ASSUME NEW r \in Readers,
             Enter(r) \/ AddShard(r) \/ KeepShard(r) \/ RetireShard(r)
      PROVE  UNCHANGED Readings!readingVars
  <2>1. ~ReadDeadShardSum(r) /\ ~Leave(r)
    BY <1>4 DEF TypeOK, ReadDeadShardSum, Leave, Enter, AddShard, KeepShard, RetireShard
  <2>2. Busy' = Busy
    BY <1>4, <2>1, BusyChanges DEF Count
  <2>3. QED
    BY <1>4, <2>2 DEF Enter, AddShard, KeepShard, RetireShard, threadVars,
                      auxVars, Readings!readingVars
<1>5. CASE UNCHANGED vars
  BY <1>5 DEF vars, threadVars, auxVars, Busy, Readings!readingVars
<1>6. QED
  BY <1>1, <1>2, <1>3, <1>4, <1>5 DEF Next, Count, Readings!Next

\* A reading sees of each thread what it had counted at some moment between
\* the begin and the end of the call, or, when another reading overlaps it,
\* may miss a thread that has ended.
THEOREM CounterImplementsReadings == Spec => ImplementsReadings
<1>1. Spec => [](CounterInv /\ ReadingsInv)
  BY InitCounter, InitReadings, NextCounter, NextReadings, PTL DEF Spec
<1>2. CounterInv /\ ReadingsInv /\ CounterInv' /\ [Next]_vars
        => [Readings!Next]_(Readings!readingVars)
  BY StepMaps
<1>3. QED
  BY <1>1, <1>2, InitMaps, PTL DEF Spec, ImplementsReadings, Readings!Spec

=============================================================================
