------------------------- MODULE SessionLeaseProofs -------------------------
(***************************************************************************)
(* What the steps of SessionState may never do, and that they implement    *)
(* the lease of SessionLease, for any number of sessions, requests and     *)
(* sweep tasks, and any timeouts.                                          *)
(***************************************************************************)
EXTENDS SessionStateProofs

-----------------------------------------------------------------------------
(* What steps do to the entities and to the transactions of others.        *)

\* Lock entities are written by commits that other transactions notice.
LockWritten(id) ==
    \/ lock'[id] = NoEntity
    \/ \E n \in Nat : lock'[id] = NewLock(n)

LEMMA LockChanges ==
    ASSUME TypeOK, TargetOK, [Next]_vars, NEW id \in Ids
    PROVE  \/ lock'[id] = lock[id]
           \/ /\ LockWritten(id)
              /\ \E c \in Clients, kinds \in SUBSET Kinds :
                   "SessionLock" \in kinds /\ Committed(c, id, kinds)
<1>k. Kinds \in SUBSET Kinds /\ {"SessionLock"} \in SUBSET Kinds
      /\ "SessionLock" \in Kinds
    BY DEF Kinds
<1>t. /\ lock \in [Ids -> LockEntity \cup {NoEntity}]
      /\ lockId \in [Requests -> LockId]
    BY DEF TypeOK, DatastoreTypeOK, RequestTypeOK
<1> DEFINE Goal == \/ lock'[id] = lock[id]
                   \/ /\ LockWritten(id)
                      /\ \E c \in Clients, kinds \in SUBSET Kinds :
                           "SessionLock" \in kinds /\ Committed(c, id, kinds)
<1>1. CASE UNCHANGED lock
    BY <1>1
<1>2. ASSUME NEW c \in Clients, NEW i \in Ids, NEW L, PutLock(i, L),
             NEW kinds \in SUBSET Kinds, "SessionLock" \in kinds, Committed(c, i, kinds),
             L = NoEntity \/ \E n \in Nat : L = NewLock(n)
      PROVE  Goal
  <2>1. i # id => lock'[id] = lock[id]
      BY <1>2, <1>t DEF PutLock
  <2>2. i = id => lock'[id] = L
      BY <1>2, <1>t DEF PutLock
  <2>3. i = id => LockWritten(id)
      BY <1>2, <2>2 DEF LockWritten
  <2> QED  BY <1>2, <2>1, <2>3
<1>3. ASSUME NEW r \in Requests, RequestStep(r), ~UNCHANGED lock
      PROVE  Goal
  <2>i. SessionId[r] \in Ids /\ r \in Clients /\ lockId[r].lockCount \in Nat
      BY <1>t, StoreAssumption DEF Clients, LockId
  <2> HIDE DEF Goal
  <2>1. CASE WriteLock(r)
      BY <1>2, <1>k, <2>i, <2>1 DEF WriteLock
  <2>2. CASE SetNewItem(r) \/ CreateUninitializedItem(r)
      BY <1>2, <1>k, <2>i, <2>2 DEF SetNewItem, CreateUninitializedItem
  <2>3. CASE RemoveCommit(r)
      BY <1>2, <1>k, <2>i, <2>3 DEF RemoveCommit
  <2> QED  BY <1>3, <2>1, <2>2, <2>3 DEF RequestStep, Get, Release, Start, GetMissing,
           GetLocked, GetShared, GetUnlocked, GetCommit, GetLostAck, GetAbort, storeVars,
           CallSetAndRelease, CallRelease, CallRemove, CallBreak, CallStep, SetCommit,
           ReleaseCommit, BreakCommit, Die
<1>4. ASSUME NEW w \in SweepTasks, SweepStep(w), ~UNCHANGED lock
      PROVE  Goal
  <2>1. SweepDelete(w)
      BY <1>4 DEF SweepStep, Initialize, CheckSweepLock, AcquireSweepLock, AcquireFails,
         QueryExpired, SweepLookup, SweepDeleteFails, SweepDone, SweepCrash, storeVars
  <2>2. w \in Clients /\ target[w] \in Ids
      BY <2>1 DEF Clients, SweepDelete, TargetOK
  <2> HIDE DEF Goal
  <2> QED  BY <1>2, <1>k, <2>1, <2>2 DEF SweepDelete
<1> QED  BY <1>1, <1>3, <1>4 DEF Next, Tick, vars, storeVars

\* A step leaves the transactions of others alone or makes them stale.
LEMMA OthersTx ==
    ASSUME TypeOK, [Next]_vars, NEW k \in Clients, tx'[k].state = "open",
           ~(k \in Requests /\ RequestStep(k)), ~(k \in SweepTasks /\ SweepStep(k))
    PROVE  tx'[k] = tx[k]
<1>t. tx \in [Clients -> Transaction]
    BY DEF TypeOK, DatastoreTypeOK
<1>1. ASSUME NEW c \in Clients, c # k,
             \/ UNCHANGED tx
             \/ Rollback(c)
             \/ \E id, kinds : Lookup(c, id, kinds) \/ Committed(c, id, kinds)
      PROVE  tx'[k] = tx[k]
  <2>1. CASE Rollback(c) \/ \E id, kinds : Lookup(c, id, kinds)
      BY <1>1, <1>t, <2>1 DEF Rollback, Lookup
  <2>2. CASE \E id, kinds : Committed(c, id, kinds)
      BY <1>1, <1>t, <2>2 DEF Committed, Transaction
  <2> QED  BY <1>1, <2>1, <2>2
<1>2. ASSUME NEW r \in Requests, RequestStep(r), r # k PROVE tx'[k] = tx[k]
  <2>1. \/ UNCHANGED tx
        \/ Rollback(r)
        \/ \E id, kinds : Lookup(r, id, kinds) \/ Committed(r, id, kinds)
      BY <1>2 DEF RequestStep, Get, Release, Start, CreateUninitializedItem, GetMissing,
         GetLocked, GetShared, GetUnlocked, GetCommit, GetLostAck, GetAbort, WriteLock,
         WriteSession, CallSetAndRelease, CallRelease, CallRemove, CallBreak, CallStep,
         SetCommit, ReleaseCommit, BreakCommit, RemoveCommit, SetNewItem, Die
  <2> QED  BY <1>1, <1>2, <2>1 DEF Clients
<1>3. ASSUME NEW w \in SweepTasks, SweepStep(w), w # k PROVE tx'[k] = tx[k]
  <2>1. \/ UNCHANGED tx
        \/ Rollback(w)
        \/ \E id, kinds : Lookup(w, id, kinds) \/ Committed(w, id, kinds)
      BY <1>3 DEF SweepStep, Initialize, CheckSweepLock, AcquireSweepLock, AcquireFails,
         QueryExpired, SweepLookup, SweepDelete, SweepDeleteFails, SweepDone, SweepCrash
  <2> QED  BY <1>1, <1>3, <2>1 DEF Clients
<1> QED  BY <1>2, <1>3 DEF Next, Tick, vars

\* What an open transaction looked up is still what it was.
LEMMA OpenSees ==
    ASSUME TypeOK, TargetOK, [Next]_vars, NEW k \in Clients,
           tx'[k].state = "open", tx'[k] = tx[k],
           tx[k].id \in Ids, "SessionLock" \in tx[k].kinds
    PROVE  lock'[tx[k].id] = lock[tx[k].id]
<1> SUFFICES ASSUME lock'[tx[k].id] # lock[tx[k].id] PROVE FALSE
    OBVIOUS
<1>1. PICK c \in Clients, kinds \in SUBSET Kinds :
        "SessionLock" \in kinds /\ Committed(c, tx[k].id, kinds)
    BY LockChanges
<1> QED  BY <1>1, CommitInvalidates DEF TypeOK

-----------------------------------------------------------------------------
(* The sweep tasks.                                                        *)

\* Whose commit on the SweepLock can succeed looked at the entity that is
\* still there.
Spaced ==
    \A w \in sweepTx :
        /\ task[w] = "acquire"
        /\ sweepLock # NoEntity => begun[w] > sweepLock + SweepInterval

\* What a task has still to delete had expired when it asked for it or was
\* written later, so that it is never just as old as the moment the task
\* compares it with; and what it deletes is the lock it looked up.
TaskOK(w) ==
    /\ begun[w] <= now
    /\ task[w] \notin {"sweep", "delete"} => todo[w] = {}
    /\ \A id \in todo[w] :
         lock[id] # NoEntity => lock[id].expirationDate # begun[w]
    /\ task[w] = "delete" /\ tx[w].state = "open" =>
         /\ target[w] \in Ids /\ tx[w].id = target[w]
         /\ tx[w].kinds = {"SessionLock"}
         /\ lock[target[w]] # NoEntity
         /\ lock[target[w]].expirationDate < begun[w]

SweeperInv == Spaced /\ \A w \in SweepTasks : TaskOK(w)

\* A lock entity written now expires later than anything a task has begun.
LEMMA WrittenLater ==
    ASSUME TypeOK, NEW id \in Ids, LockWritten(id), lock'[id] # NoEntity,
           NEW b \in Nat, b <= now
    PROVE  lock'[id].expirationDate # b
<1>1. now \in Nat /\ Timeout \in Nat \ {0}
    BY StoreAssumption DEF TypeOK, DatastoreTypeOK
<1>2. PICK n \in Nat : lock'[id] = NewLock(n)
    BY DEF LockWritten
<1>3. lock'[id].expirationDate = now + Timeout
    BY <1>2 DEF NewLock
<1> QED  BY <1>1, <1>3

\* A task that takes no step is as it was.
LEMMA TaskStays ==
    ASSUME TypeOK, TargetOK, [Next]_vars, NEW w \in SweepTasks, TaskOK(w),
           ~SweepStep(w),
           task'[w] = task[w], begun'[w] = begun[w], todo'[w] = todo[w],
           target'[w] = target[w], now' \in Nat, now <= now'
    PROVE  TaskOK(w)'
<1>w. w \in Clients /\ w \notin Requests
    BY ClientsAssumption DEF Clients
<1>t. /\ now \in Nat /\ begun[w] \in Nat /\ todo[w] \in SUBSET Ids
    BY DEF TypeOK, DatastoreTypeOK, SweepTypeOK
<1>1. begun'[w] <= now'
    BY <1>t DEF TaskOK
<1>2. ASSUME NEW id \in todo[w], lock'[id] # NoEntity
      PROVE  lock'[id].expirationDate # begun[w]
  <2>1. id \in Ids
      BY <1>t
  <2>2. CASE lock'[id] = lock[id]
      BY <1>2, <2>2 DEF TaskOK
  <2>3. CASE LockWritten(id)
      BY <1>2, <1>t, <2>1, <2>3, WrittenLater DEF TaskOK
  <2> QED  BY <2>1, <2>2, <2>3, LockChanges
<1>3. ASSUME task[w] = "delete", tx'[w].state = "open"
      PROVE  /\ tx'[w] = tx[w]
             /\ lock'[target[w]] = lock[target[w]]
  <2>1. tx'[w] = tx[w]
      BY <1>3, <1>w, OthersTx
  <2>2. target[w] \in Ids /\ tx[w].id = target[w] /\ tx[w].kinds = {"SessionLock"}
      BY <1>3, <2>1 DEF TaskOK
  <2> QED  BY <1>3, <1>w, <2>1, <2>2, OpenSees
<1> QED  BY <1>1, <1>2, <1>3 DEF TaskOK

LEMMA InitSweeper == Init => SweeperInv
BY DEF Init, SweepInit, RequestInit, SweeperInv, Spaced, TaskOK

\* The task's own steps.
LEMMA TaskSteps ==
    ASSUME TypeOK, TargetOK, SweeperInv, NEW w \in SweepTasks, SweepStep(w)
    PROVE  TaskOK(w)' /\ now' = now
<1>w. w \in Clients
    BY DEF Clients
<1>t. /\ now \in Nat /\ begun \in [SweepTasks -> Nat] /\ todo \in [SweepTasks -> SUBSET Ids]
      /\ task \in [SweepTasks -> TaskPC] /\ target \in [SweepTasks -> Ids \cup {NoEntity}]
      /\ tx \in [Clients -> Transaction] /\ lock \in [Ids -> LockEntity \cup {NoEntity}]
    BY DEF TypeOK, DatastoreTypeOK, SweepTypeOK
<1>o. TaskOK(w)
    BY DEF SweeperInv
<1>n. now' = now
    BY DEF SweepStep, Initialize, CheckSweepLock, AcquireSweepLock, AcquireFails,
       QueryExpired, SweepLookup, SweepDelete, SweepDeleteFails, SweepDone, SweepCrash
<1>1. CASE Initialize(w) \/ AcquireSweepLock(w) \/ AcquireFails(w)
  <2>1. /\ task[w] \notin {"sweep", "delete"} /\ task'[w] \notin {"sweep", "delete"}
        /\ begun' = begun /\ todo' = todo /\ lock' = lock
      BY <1>1, <1>t DEF Initialize, AcquireSweepLock, AcquireFails, TaskGoto, storeVars
  <2> QED  BY <1>n, <1>o, <2>1 DEF TaskOK
<1>2. CASE CheckSweepLock(w)
  <2>1. /\ task[w] = "delay" /\ task'[w] = "acquire"
        /\ begun'[w] = now /\ todo' = todo
      BY <1>2, <1>t DEF CheckSweepLock, TaskGoto
  <2> QED  BY <1>n, <1>o, <1>t, <2>1 DEF TaskOK
<1>3. CASE QueryExpired(w)
  <2>1. /\ task'[w] = "sweep" /\ begun'[w] = now /\ lock' = lock
        /\ todo'[w] = {id \in Ids : lock[id] # NoEntity /\ lock[id].expirationDate < now}
      BY <1>3, <1>t DEF QueryExpired, TaskGoto, storeVars
  <2>2. \A id \in todo'[w] : lock[id].expirationDate # now
    <3>1. \A id \in Ids : lock[id] # NoEntity => lock[id].expirationDate \in Nat
        BY <1>t DEF LockEntity
    <3> QED  BY <1>t, <2>1, <3>1
  <2> QED  BY <1>n, <1>t, <2>1, <2>2 DEF TaskOK
<1>4. CASE \E id \in Ids : SweepLookup(w, id)
  <2>1. PICK id \in Ids : SweepLookup(w, id)
      BY <1>4
  <2>2. /\ task[w] = "sweep" /\ id \in todo[w]
        /\ todo'[w] = todo[w] \ {id} /\ begun' = begun /\ lock' = lock
      BY <2>1, <1>t DEF SweepLookup, storeVars
  <2>3. CASE UNCHANGED <<tx, task, target>>
      BY <1>n, <1>o, <2>2, <2>3 DEF TaskOK
  <2>4. CASE /\ lock[id] # NoEntity /\ lock[id].expirationDate <= begun[w]
             /\ Lookup(w, id, {"SessionLock"})
             /\ target' = [target EXCEPT ![w] = id]
             /\ TaskGoto(w, "delete")
    <3>1. /\ task'[w] = "delete" /\ target'[w] = id
          /\ tx'[w].id = id /\ tx'[w].kinds = {"SessionLock"}
        BY <1>t, <1>w, <2>4 DEF Lookup, TaskGoto
    <3>2. lock[id].expirationDate \in Nat /\ begun[w] \in Nat
        BY <1>t, <2>4 DEF LockEntity
    <3>3. lock[id].expirationDate < begun[w]
        BY <1>o, <2>2, <2>4, <3>2 DEF TaskOK
    <3> QED  BY <1>n, <1>o, <2>2, <2>4, <3>1, <3>3 DEF TaskOK
  <2> QED  BY <2>1, <2>3, <2>4 DEF SweepLookup
<1>5. CASE SweepDelete(w)
  <2>1. /\ task[w] = "delete" /\ task'[w] = "sweep" /\ begun' = begun /\ todo' = todo
        /\ target[w] \in Ids
        /\ \A id \in Ids : lock'[id] = IF id = target[w] THEN NoEntity ELSE lock[id]
      BY <1>5, <1>t DEF SweepDelete, TaskGoto, PutLock, TargetOK
  <2> QED  BY <1>n, <1>o, <1>t, <2>1 DEF TaskOK
<1>6. CASE SweepDeleteFails(w)
  <2>1. task'[w] = "sweep" /\ begun' = begun /\ todo' = todo /\ lock' = lock
      BY <1>6, <1>t DEF SweepDeleteFails, TaskGoto, storeVars
  <2> QED  BY <1>n, <1>o, <2>1 DEF TaskOK
<1>7. CASE SweepDone(w) \/ SweepCrash(w)
  <2>1. /\ task'[w] \notin {"sweep", "delete"} /\ todo'[w] = {} /\ begun' = begun
      BY <1>7, <1>t DEF SweepDone, SweepCrash, TaskGoto
  <2> QED  BY <1>n, <1>o, <2>1 DEF TaskOK
<1> QED  BY <1>n, <1>1, <1>2, <1>3, <1>4, <1>5, <1>6, <1>7 DEF SweepStep

\* Whoever takes the SweepLock makes the other transactions on it fail.
LEMMA SpacedSteps ==
    ASSUME TypeOK, SweeperInv, NEW w \in SweepTasks, SweepStep(w)
    PROVE  /\ Spaced'
           /\ sweepLock' # sweepLock =>
                sweepLock = NoEntity \/ sweepLock' > sweepLock + SweepInterval
<1>t. /\ now \in Nat /\ begun \in [SweepTasks -> Nat] /\ sweepTx \subseteq SweepTasks
      /\ task \in [SweepTasks -> TaskPC] /\ sweepLock \in Nat \cup {NoEntity}
      /\ SweepInterval \in Nat
    BY SweepAssumption DEF TypeOK, DatastoreTypeOK, SweepTypeOK
<1>s. Spaced
    BY DEF SweeperInv
<1>1. CASE WriteSweepLock(w)
    BY <1>1, <1>s DEF WriteSweepLock, Spaced
<1>2. CASE CheckSweepLock(w)
  <2>1. /\ sweepLock' = sweepLock /\ sweepTx' = sweepTx \cup {w}
        /\ task'[w] = "acquire" /\ begun'[w] = now
        /\ \A v \in SweepTasks : v # w => task'[v] = task[v] /\ begun'[v] = begun[v]
      BY <1>2, <1>t DEF CheckSweepLock, TaskGoto
  <2>2. sweepLock # NoEntity => now > sweepLock + SweepInterval
      BY <1>2, <1>t DEF CheckSweepLock, TimeToSweep
  <2> QED  BY <1>s, <1>t, <2>1, <2>2 DEF Spaced
<1>3. CASE /\ sweepLock' = sweepLock
           /\ ~CheckSweepLock(w)
  <2>1. \A v \in SweepTasks : v # w => task'[v] = task[v] /\ begun'[v] = begun[v]
      BY <1>3, <1>t DEF SweepStep, Initialize, AcquireSweepLock, AcquireFails, QueryExpired,
         SweepLookup, SweepDelete, SweepDeleteFails, SweepDone, SweepCrash, TaskGoto
  <2>2. sweepTx' \subseteq sweepTx
      BY <1>3 DEF SweepStep, Initialize, AcquireSweepLock, AcquireFails, QueryExpired,
         SweepLookup, SweepDelete, SweepDeleteFails, SweepDone, SweepCrash, WriteSweepLock
  <2>3. w \notin sweepTx'
    <3>1. CASE w \notin sweepTx
        BY <2>2, <3>1
    <3>2. CASE w \in sweepTx
      <4>1. task[w] = "acquire"
          BY <1>s, <3>2 DEF Spaced
      <4>2. AcquireSweepLock(w) \/ AcquireFails(w) \/ SweepCrash(w)
          BY <1>3, <4>1 DEF SweepStep, Initialize, QueryExpired, SweepLookup, SweepDelete,
             SweepDeleteFails, SweepDone
      <4> QED  BY <4>2 DEF AcquireSweepLock, AcquireFails, SweepCrash, WriteSweepLock
    <3> QED  BY <3>1, <3>2
  <2> QED  BY <1>3, <1>s, <1>t, <2>1, <2>2, <2>3 DEF Spaced
<1> QED  BY <1>1, <1>2, <1>3 DEF SweepStep, Initialize, AcquireSweepLock, AcquireFails,
         QueryExpired, SweepLookup, SweepDelete, SweepDeleteFails, SweepDone, SweepCrash

LEMMA SweeperStep ==
    ASSUME TypeOK, TypeOK', TargetOK, SweeperInv, [Next]_vars
    PROVE  SweeperInv'
<1>t. now \in Nat /\ now' \in Nat
    BY DEF TypeOK, DatastoreTypeOK
<1>1. CASE UNCHANGED sweepVars
  <2>1. now <= now'
    <3>1. now' = now \/ now' = now + 1
        BY <1>1 DEF Next, vars, Tick, RequestStep, Get, Release, Start,
         CreateUninitializedItem, GetMissing, GetLocked, GetShared, GetUnlocked, GetCommit,
         GetLostAck, GetAbort, CallSetAndRelease, CallRelease, CallRemove, CallBreak,
         CallStep, SetCommit, ReleaseCommit, BreakCommit, RemoveCommit, SetNewItem, Die,
         SweepStep, Initialize, CheckSweepLock, AcquireSweepLock, AcquireFails,
         QueryExpired, SweepLookup, SweepDelete, SweepDeleteFails, SweepDone, SweepCrash
    <3> QED  BY <1>t, <3>1
  <2>2. ASSUME NEW w \in SweepTasks PROVE TaskOK(w)'
    <3>1. CASE SweepStep(w)
        BY <3>1, TaskSteps
    <3>2. CASE ~SweepStep(w)
        BY <1>1, <1>t, <2>1, <3>2, TaskStays DEF sweepVars, SweeperInv
    <3> QED  BY <3>1, <3>2
  <2>3. Spaced'
      BY <1>1 DEF sweepVars, SweeperInv, Spaced
  <2> QED  BY <2>2, <2>3 DEF SweeperInv
<1>2. CASE \E v \in SweepTasks : SweepStep(v)
  <2>1. PICK v \in SweepTasks : SweepStep(v)
      BY <1>2
  <2>2. now' = now /\ TaskOK(v)'
      BY <2>1, TaskSteps
  <2>3. Spaced'
      BY <2>1, SpacedSteps
  <2>4. ASSUME NEW w \in SweepTasks, w # v PROVE TaskOK(w)'
    <3>1. CASE SweepStep(w)
        BY <3>1, TaskSteps
    <3>2. CASE ~SweepStep(w)
      <4>t. /\ begun \in [SweepTasks -> Nat] /\ todo \in [SweepTasks -> SUBSET Ids]
            /\ task \in [SweepTasks -> TaskPC]
            /\ target \in [SweepTasks -> Ids \cup {NoEntity}]
          BY DEF TypeOK, SweepTypeOK
      <4>1. /\ task'[w] = task[w] /\ begun'[w] = begun[w]
            /\ todo'[w] = todo[w] /\ target'[w] = target[w]
          BY <2>1, <2>4, <4>t DEF SweepStep, Initialize, CheckSweepLock, AcquireSweepLock,
             AcquireFails, QueryExpired, SweepLookup, SweepDelete, SweepDeleteFails,
             SweepDone, SweepCrash, TaskGoto
      <4>2. TaskOK(w)
          BY DEF SweeperInv
      <4> QED  BY <1>t, <2>2, <3>2, <4>1, <4>2, TaskStays
    <3> QED  BY <3>1, <3>2
  <2> QED  BY <2>2, <2>3, <2>4 DEF SweeperInv
<1> QED  BY <1>1, <1>2 DEF Next, Tick, vars, sweepVars

\* The inductive invariant of the sweep tasks.
THEOREM SweepersAreSafe == Spec => []SweeperInv
<1>1. TypeOK /\ TypeOK' /\ TargetOK /\ SweeperInv /\ [Next]_vars => SweeperInv'
    BY SweeperStep
<1> QED  BY <1>1, InitSweeper, TypeCorrect, TargetsAreIds, PTL DEF Spec

\* For any number of server processes, whichever of their commits are lost:
\* the SweepLock is written again only after more than the interval.
THEOREM SweepsStaySpaced == Spec => SweepsAreSpaced
<1> DEFINE Apart == sweepLock' # sweepLock =>
                      \/ sweepLock = NoEntity
                      \/ sweepLock' > sweepLock + SweepInterval
<1>1. TypeOK /\ SweeperInv /\ [Next]_vars => [Apart]_vars
  <2> SUFFICES ASSUME TypeOK, SweeperInv, [Next]_vars PROVE Apart
      OBVIOUS
  <2>1. CASE UNCHANGED sweepVars
      BY <2>1 DEF sweepVars
  <2>2. CASE \E w \in SweepTasks : SweepStep(w)
      BY <2>2, SpacedSteps
  <2> QED  BY <2>1, <2>2 DEF Next, Tick, vars, sweepVars
<1> HIDE DEF Apart
<1>2. Spec => [][Apart]_vars
    BY <1>1, TypeCorrect, SweepersAreSafe, PTL DEF Spec
<1> QED  BY <1>2 DEF SweepsAreSpaced, Apart

\* For any number of sessions, requests and sweep tasks: a session disappears
\* only because its holder removes it or because it has expired.
THEOREM OnlyExpiredDisappear == Spec => OnlyExpiredAreSwept
<1> DEFINE Justified ==
             \A id \in Ids :
               lock[id] # NoEntity /\ lock'[id] = NoEntity =>
                 \/ NoSuchSession(lock[id])
                 \/ \E r \in Holders : SessionId[r] = id /\ pc[r] = "remove"
<1>1. TypeOK /\ TargetOK /\ SweeperInv /\ [Next]_vars => [Justified]_vars
  <2> SUFFICES ASSUME TypeOK, TargetOK, SweeperInv, [Next]_vars, NEW id \in Ids,
                      lock[id] # NoEntity, lock'[id] = NoEntity
               PROVE  \/ NoSuchSession(lock[id])
                      \/ \E r \in Holders : SessionId[r] = id /\ pc[r] = "remove"
      OBVIOUS
  <2>t. /\ lock \in [Ids -> LockEntity \cup {NoEntity}] /\ now \in Nat
        /\ lockId \in [Requests -> LockId] /\ begun \in [SweepTasks -> Nat]
      BY DEF TypeOK, DatastoreTypeOK, RequestTypeOK, SweepTypeOK
  <2>1. CASE \E w \in SweepTasks : SweepDelete(w)
    <3>1. PICK w \in SweepTasks : SweepDelete(w)
        BY <2>1
    <3>2. target[w] = id
        BY <3>1, <2>t DEF SweepDelete, PutLock
    <3>3. begun[w] <= now /\ lock[id].expirationDate < begun[w]
        BY <3>1, <3>2 DEF SweeperInv, TaskOK, SweepDelete, CanCommit
    <3>4. lock[id].expirationDate \in Nat
        BY <2>t DEF LockEntity
    <3> QED  BY <2>t, <3>3, <3>4 DEF NoSuchSession
  <2>2. CASE \E r \in Requests : RemoveCommit(r)
    <3>1. PICK r \in Requests : RemoveCommit(r)
        BY <2>2
    <3>2. SessionId[r] = id /\ pc[r] = "remove"
        BY <3>1, <2>t DEF RemoveCommit, PutLock
    <3> QED  BY <3>2 DEF Holders
  <2>3. \A r \in Requests : ~PutLock(SessionId[r], NewLock(0)) /\ ~WriteLock(r)
    <3> SUFFICES ASSUME NEW r \in Requests, NEW n \in Nat, PutLock(SessionId[r], NewLock(n))
                 PROVE  FALSE
      <4>1. \A r \in Requests : lockId[r].lockCount \in Nat
          BY <2>t DEF LockId
      <4> QED  BY <4>1 DEF WriteLock
    <3>1. NewLock(n) # NoEntity
        BY NewLockType, NoEntityAssumption DEF TypeOK
    <3>2. lock'[id] = lock[id] \/ lock'[id] = NewLock(n)
        BY <2>t DEF PutLock
    <3> QED  BY <3>1, <3>2
  <2>4. \A r \in Requests : RequestStep(r) => RemoveCommit(r) \/ UNCHANGED lock
      BY <2>3 DEF RequestStep, Get, Release, Start, CreateUninitializedItem, GetMissing,
         GetLocked, GetShared, GetUnlocked, GetCommit, GetLostAck, GetAbort, storeVars,
         CallSetAndRelease, CallRelease, CallRemove, CallBreak, CallStep, SetCommit,
         ReleaseCommit, BreakCommit, SetNewItem, Die
  <2>5. \A w \in SweepTasks : SweepStep(w) => SweepDelete(w) \/ UNCHANGED lock
      BY DEF SweepStep, Initialize, CheckSweepLock, AcquireSweepLock, AcquireFails,
         QueryExpired, SweepLookup, SweepDeleteFails, SweepDone, SweepCrash, storeVars
  <2> QED  BY <2>1, <2>2, <2>4, <2>5 DEF Next, Tick, vars, storeVars
<1> HIDE DEF Justified
<1>2. Spec => [][Justified]_vars
    BY <1>1, TypeCorrect, TargetsAreIds, SweepersAreSafe, PTL DEF Spec
<1> QED  BY <1>2 DEF OnlyExpiredAreSwept, Justified

-----------------------------------------------------------------------------
(* The steps of a request, by what they do to the entities.                *)

\* Requests that are about to break a lock.
Breakers == {r \in Requests : pc[r] \in {"break", "breaking"}}

\* Requests that were told a lock id and can still use it.
Known == Holders \cup Breakers

Others(r) ==
    \A q \in Requests \ {r} :
        /\ pc'[q] = pc[q] /\ lockId'[q] = lockId[q] /\ items'[q] = items[q]
        /\ tx'[q].state = "open" => tx'[q] = tx[q]

\* Neither entity is written.
Looks(r) ==
    /\ UNCHANGED <<lock, session, incarnation>>
    /\ \/ pc[r] # "breaking" /\ r \notin Known /\ r \notin Known' /\ pc'[r] # "locking"
       \/ r \in Known /\ r \notin Known' /\ pc'[r] # "locking"
       \/ /\ pc[r] = "poll" /\ pc'[r] = "break"
          /\ lock[SessionId[r]] # NoEntity
          /\ Locked(lock[SessionId[r]], session[SessionId[r]])
          /\ now - lock[SessionId[r]].dateLocked >= ExecutionTimeout
          /\ lockId'[r].lockCount = lock[SessionId[r]].lockCount
          /\ lockId'[r].items = Items(session[SessionId[r]])
          /\ lockId'[r].incarnation = incarnation[SessionId[r]]
       \/ /\ pc[r] = "poll" /\ pc'[r] = "locking"
          /\ lockId'[r].items = Items(session[SessionId[r]])
       \/ /\ r \in Known /\ r \in Known' /\ (r \in Breakers <=> r \in Breakers')
          /\ lockId'[r] = lockId[r] /\ items'[r] = items[r]

\* The SessionLock is written: the session is taken.
Takes(r) ==
    /\ pc[r] = "locking" /\ WriteLock(r) /\ UNCHANGED <<session, incarnation>>
    /\ \/ pc'[r] = "own" /\ lockId'[r] = lockId[r] /\ items'[r] = lockId[r].items
       \/ pc'[r] = "poll"

\* The Session is written: the session is given back.
GivesBack(r) ==
    /\ UNCHANGED <<lock, incarnation>>
    /\ \/ pc[r] = "set" /\ pc'[r] = "done" /\ WriteSession(r, items[r] \cup {r})
       \/ pc[r] = "release" /\ pc'[r] = "done" /\ WriteSession(r, lockId[r].items)
       \/ pc[r] = "breaking" /\ pc'[r] = "poll" /\ WriteSession(r, lockId[r].items)

\* Both are written, or deleted.
Creates(r) ==
    \E S \in SessionEntity \cup {NoEntity} :
        /\ PutLock(SessionId[r], NewLock(0)) /\ PutSession(SessionId[r], S)
        /\ ReleaseCount(S) = 0
        /\ Committed(r, SessionId[r], Kinds)
        /\ incarnation' = [incarnation EXCEPT ![SessionId[r]] = @ + 1]
        /\ pc[r] \in {"idle", "new"} /\ pc'[r] = "done"

Deletes(c, id) ==
    /\ PutLock(id, NoEntity) /\ PutSession(id, NoEntity)
    /\ Committed(c, id, Kinds) /\ UNCHANGED incarnation

LEMMA RequestKinds ==
    ASSUME TypeOK, NEW r \in Requests, RequestStep(r)
    PROVE  /\ Others(r) /\ now' = now
           /\ \/ Looks(r)
              \/ Takes(r)
              \/ GivesBack(r)
              \/ Creates(r)
              \/ /\ Deletes(r, SessionId[r]) /\ CanCommit(r)
                 /\ pc[r] = "remove" /\ pc'[r] = "done"
<1>t. /\ pc \in [Requests -> PC] /\ lockId \in [Requests -> LockId]
      /\ items \in [Requests -> SUBSET Requests]
      /\ tx \in [Clients -> Transaction] /\ Requests \subseteq Clients
    BY DEF TypeOK, RequestTypeOK, DatastoreTypeOK, Clients
<1>u. now' = now
    BY DEF RequestStep, Get, Release, Start, CreateUninitializedItem, GetMissing, GetLocked,
       GetShared, GetUnlocked, GetCommit, GetLostAck, GetAbort, CallSetAndRelease,
       CallRelease, CallRemove, CallBreak, CallStep, SetCommit, ReleaseCommit, BreakCommit,
       RemoveCommit, SetNewItem, Die
<1>o. Others(r)
  <2> SUFFICES ASSUME NEW q \in Requests \ {r}
               PROVE  /\ pc'[q] = pc[q] /\ lockId'[q] = lockId[q] /\ items'[q] = items[q]
                      /\ tx'[q].state = "open" => tx'[q] = tx[q]
      BY DEF Others
  <2>1. pc'[q] = pc[q] /\ lockId'[q] = lockId[q] /\ items'[q] = items[q]
      BY <1>t DEF RequestStep, Get, Release, Start, CreateUninitializedItem, GetMissing,
         GetLocked, GetShared, GetUnlocked, GetCommit, GetLostAck, GetAbort,
         CallSetAndRelease, CallRelease, CallRemove, CallBreak, CallStep, SetCommit,
         ReleaseCommit, BreakCommit, RemoveCommit, SetNewItem, Die, Goto
  <2>2. \/ UNCHANGED tx
        \/ Rollback(r)
        \/ \E id, kinds : Lookup(r, id, kinds) \/ Committed(r, id, kinds)
      BY DEF RequestStep, Get, Release, Start, CreateUninitializedItem, GetMissing,
         GetLocked, GetShared, GetUnlocked, GetCommit, GetLostAck, GetAbort, WriteLock,
         WriteSession, CallSetAndRelease, CallRelease, CallRemove, CallBreak, CallStep,
         SetCommit, ReleaseCommit, BreakCommit, RemoveCommit, SetNewItem, Die
  <2>3. CASE Rollback(r) \/ \E id, kinds : Lookup(r, id, kinds)
      BY <1>t, <2>1, <2>3 DEF Rollback, Lookup
  <2>4. CASE \E id, kinds : Committed(r, id, kinds)
      BY <1>t, <2>1, <2>4 DEF Committed, Transaction
  <2> QED  BY <2>1, <2>2, <2>3, <2>4
<1>k. /\ r \in Known <=> pc[r] \in {"own", "set", "release", "remove", "break", "breaking"}
      /\ r \in Known' <=> pc'[r] \in {"own", "set", "release", "remove", "break", "breaking"}
      /\ r \in Breakers <=> pc[r] \in {"break", "breaking"}
      /\ r \in Breakers' <=> pc'[r] \in {"break", "breaking"}
    BY DEF Known, Holders, Breakers
<1>1. CASE Start(r) \/ GetMissing(r) \/ GetShared(r) \/ GetAbort(r)
  <2>1. /\ UNCHANGED <<lock, session, incarnation>>
        /\ pc[r] \in {"idle", "poll", "locking"} /\ pc'[r] \in {"poll", "done", "new"}
      BY <1>1, <1>t DEF Start, GetMissing, GetShared, GetAbort, Goto, storeVars
  <2> QED  BY <1>o, <1>k, <1>u, <2>1 DEF Looks
<1>2. CASE GetLocked(r)
  <2>1. /\ UNCHANGED <<lock, session, incarnation>>
        /\ pc[r] = "poll" /\ pc'[r] = "break"
        /\ Locked(lock[SessionId[r]], session[SessionId[r]])
        /\ now - lock[SessionId[r]].dateLocked >= ExecutionTimeout
        /\ lockId'[r].lockCount = lock[SessionId[r]].lockCount
        /\ lockId'[r].items = Items(session[SessionId[r]])
        /\ lockId'[r].incarnation = incarnation[SessionId[r]]
      BY <1>2, <1>t DEF GetLocked, Goto, storeVars
  <2>2. lock[SessionId[r]] # NoEntity
      BY <1>2 DEF GetLocked, NoSuchSession
  <2> QED  BY <1>o, <1>u, <2>1, <2>2 DEF Looks
<1>3. CASE GetUnlocked(r)
  <2>1. /\ UNCHANGED <<lock, session, incarnation>>
        /\ pc[r] = "poll" /\ pc'[r] = "locking"
        /\ lockId'[r].items = Items(session[SessionId[r]])
      BY <1>3, <1>t DEF GetUnlocked, Goto, storeVars
  <2> QED  BY <1>o, <1>u, <2>1 DEF Looks
<1>4. CASE Die(r)
  <2>1. UNCHANGED <<lock, session, incarnation>> /\ pc'[r] = "done"
      BY <1>4, <1>t DEF Die, Goto, storeVars
  <2> QED  BY <1>o, <1>k, <1>u, <2>1 DEF Looks
<1>5. CASE CallSetAndRelease(r) \/ CallRelease(r) \/ CallRemove(r) \/ CallBreak(r)
  <2>1. /\ UNCHANGED <<lock, session, incarnation, lockId, items>>
        /\ \/ pc[r] = "own" /\ pc'[r] \in {"set", "release", "remove", "done"}
           \/ pc[r] = "break" /\ pc'[r] \in {"breaking", "poll"}
      BY <1>5, <1>t DEF CallSetAndRelease, CallRelease, CallRemove, CallBreak, CallStep,
         Goto, storeVars
  <2> QED  BY <1>o, <1>k, <1>u, <2>1 DEF Looks
<1>6. CASE GetCommit(r) \/ GetLostAck(r)
  <2>1. Takes(r)
      BY <1>6, <1>t DEF Takes, GetCommit, GetLostAck, Goto
  <2> QED  BY <1>o, <1>u, <2>1
<1>7. CASE SetCommit(r) \/ ReleaseCommit(r) \/ BreakCommit(r)
  <2>1. GivesBack(r)
      BY <1>7, <1>t DEF GivesBack, SetCommit, ReleaseCommit, BreakCommit, Goto
  <2> QED  BY <1>o, <1>u, <2>1
<1>8. CASE RemoveCommit(r)
  <2>1. /\ Deletes(r, SessionId[r]) /\ CanCommit(r)
        /\ pc[r] = "remove" /\ pc'[r] = "done"
      BY <1>8, <1>t DEF Deletes, RemoveCommit, Goto
  <2> QED  BY <1>o, <1>u, <2>1
<1>9. CASE SetNewItem(r) \/ CreateUninitializedItem(r)
  <2> DEFINE S == [items |-> items[r] \cup {r}, releaseCount |-> 0]
  <2>1. S \in SessionEntity /\ ReleaseCount(NoEntity) = 0 /\ ReleaseCount(S) = 0
      BY <1>t DEF SessionEntity, ReleaseCount
  <2>2. /\ PutLock(SessionId[r], NewLock(0))
        /\ PutSession(SessionId[r], S) \/ PutSession(SessionId[r], NoEntity)
        /\ Committed(r, SessionId[r], Kinds)
        /\ incarnation' = [incarnation EXCEPT ![SessionId[r]] = @ + 1]
        /\ pc[r] \in {"idle", "new"} /\ pc'[r] = "done"
      BY <1>9, <1>t DEF SetNewItem, CreateUninitializedItem, Goto
  <2> HIDE DEF S
  <2>3. Creates(r)
      BY <2>1, <2>2 DEF Creates
  <2> QED  BY <1>o, <1>u, <2>3
<1> QED  BY <1>1, <1>2, <1>3, <1>4, <1>5, <1>6, <1>7, <1>8, <1>9
         DEF RequestStep, Get, Release

LEMMA SweepKinds ==
    ASSUME TypeOK, TargetOK, NEW w \in SweepTasks, SweepStep(w), UNCHANGED requestVars
    PROVE  /\ UNCHANGED <<pc, lockId, items>> /\ now' = now
           /\ \A q \in Requests : tx'[q].state = "open" => tx'[q] = tx[q]
           /\ \/ UNCHANGED <<lock, session, incarnation>>
              \/ /\ Deletes(w, target[w]) /\ target[w] \in Ids /\ w \in Clients
<1>t. /\ tx \in [Clients -> Transaction] /\ Requests \subseteq Clients /\ w \in Clients
      /\ w \notin Requests
    BY ClientsAssumption DEF TypeOK, DatastoreTypeOK, Clients
<1>1. UNCHANGED <<pc, lockId, items, incarnation>>
    BY DEF requestVars
<1>2. now' = now
    BY DEF SweepStep, Initialize, CheckSweepLock, AcquireSweepLock, AcquireFails,
       QueryExpired, SweepLookup, SweepDelete, SweepDeleteFails, SweepDone, SweepCrash
<1>3. ASSUME NEW q \in Requests PROVE tx'[q].state = "open" => tx'[q] = tx[q]
  <2>1. \/ UNCHANGED tx
        \/ Rollback(w)
        \/ \E id, kinds : Lookup(w, id, kinds) \/ Committed(w, id, kinds)
      BY DEF SweepStep, Initialize, CheckSweepLock, AcquireSweepLock, AcquireFails,
         QueryExpired, SweepLookup, SweepDelete, SweepDeleteFails, SweepDone, SweepCrash
  <2>2. q \in Clients /\ q # w
      BY <1>t
  <2>3. CASE Rollback(w) \/ \E id, kinds : Lookup(w, id, kinds)
      BY <1>t, <2>2, <2>3 DEF Rollback, Lookup
  <2>4. CASE \E id, kinds : Committed(w, id, kinds)
      BY <1>t, <2>2, <2>4 DEF Committed, Transaction
  <2> QED  BY <2>1, <2>3, <2>4
<1>4. CASE SweepDelete(w)
  <2>1. Deletes(w, target[w]) /\ target[w] \in Ids
      BY <1>1, <1>4 DEF Deletes, SweepDelete, TargetOK
  <2> QED  BY <1>t, <1>1, <1>2, <1>3, <2>1
<1>5. CASE ~SweepDelete(w)
  <2>1. UNCHANGED <<lock, session>>
      BY <1>5 DEF SweepStep, Initialize, CheckSweepLock, AcquireSweepLock, AcquireFails,
         QueryExpired, SweepLookup, SweepDeleteFails, SweepDone, SweepCrash, storeVars
  <2> QED  BY <1>1, <1>2, <1>3, <2>1
<1> QED  BY <1>4, <1>5

\* What the facts below say of one request, its session and its lock id.
LEMMA RequestTypes ==
    ASSUME TypeOK, NEW r \in Requests
    PROVE  /\ SessionId[r] \in Ids
           /\ lockId[r].lockCount \in Nat /\ lockId[r].incarnation \in Nat
           /\ lockId[r].items \in SUBSET Requests /\ items[r] \in SUBSET Requests
           /\ incarnation[SessionId[r]] \in Nat
           /\ ReleaseCount(session[SessionId[r]]) \in Nat
           /\ Items(session[SessionId[r]]) \in SUBSET Requests
           /\ lock[SessionId[r]] # NoEntity =>
                /\ lock[SessionId[r]].lockCount \in Nat
                /\ lock[SessionId[r]].dateLocked \in Nat
<1>1. SessionId[r] \in Ids
    BY StoreAssumption
<1>2. /\ lock[SessionId[r]] \in LockEntity \cup {NoEntity}
      /\ session[SessionId[r]] \in SessionEntity \cup {NoEntity}
      /\ incarnation[SessionId[r]] \in Nat
    BY <1>1 DEF TypeOK, DatastoreTypeOK, RequestTypeOK
<1>3. lockId[r] \in LockId /\ items[r] \in SUBSET Requests
    BY DEF TypeOK, RequestTypeOK
<1> QED  BY <1>1, <1>2, <1>3 DEF LockEntity, SessionEntity, LockId, ReleaseCount, Items

\* A session is taken when it is free, under the number that comes next.
LEMMA TakenNext ==
    ASSUME TypeOK, SessionInv, NEW r \in Requests, Takes(r)
    PROVE  /\ lock[SessionId[r]] # NoEntity
           /\ ~Locked(lock[SessionId[r]], session[SessionId[r]])
           /\ lock[SessionId[r]].lockCount = ReleaseCount(session[SessionId[r]])
           /\ lockId[r].lockCount = lock[SessionId[r]].lockCount + 1
           /\ SameSession(r)
           /\ lock'[SessionId[r]] = NewLock(lockId[r].lockCount)
           /\ NewLock(lockId[r].lockCount) # NoEntity
           /\ \A i \in Ids \ {SessionId[r]} : lock'[i] = lock[i]
<1> DEFINE id == SessionId[r]
<1>t. /\ id \in Ids /\ lockId[r].lockCount \in Nat /\ ReleaseCount(session[id]) \in Nat
      /\ lock[id] # NoEntity => lock[id].lockCount \in Nat
    BY RequestTypes
<1>1. /\ lock[id] # NoEntity /\ ~Locked(lock[id], session[id]) /\ SameSession(r)
      /\ lockId[r].lockCount = ReleaseCount(session[id]) + 1
    BY DEF Takes, WriteLock, CanCommit, SessionInv, LookupsStand
<1>2. lock[id].lockCount = ReleaseCount(session[id])
    BY <1>t, <1>1 DEF SessionInv, CountsAgree, Locked
<1>3. /\ lock'[id] = NewLock(lockId[r].lockCount)
      /\ \A i \in Ids \ {id} : lock'[i] = lock[i]
    BY <1>t DEF Takes, WriteLock, PutLock, TypeOK, DatastoreTypeOK
<1>4. NewLock(lockId[r].lockCount) # NoEntity
    BY <1>t, NewLockType, NoEntityAssumption DEF TypeOK
<1> QED  BY <1>1, <1>2, <1>3, <1>4

\* A session is given back by a request that knows its number.
LEMMA GivenBack ==
    ASSUME TypeOK, SessionInv, NEW r \in Requests, GivesBack(r)
    PROVE  /\ r \in Known /\ pc'[r] \in {"done", "poll"}
           /\ HoldsCount(r)
           /\ \E given \in {items[r] \cup {r}, lockId[r].items} :
                /\ session'[SessionId[r]] =
                     [items |-> given, releaseCount |-> lockId[r].lockCount]
                /\ given = lockId[r].items \/ pc[r] = "set"
           /\ session'[SessionId[r]] # NoEntity
           /\ \A i \in Ids \ {SessionId[r]} : session'[i] = session[i]
           /\ Committed(r, SessionId[r], {"Session"})
<1> DEFINE id == SessionId[r]
<1>t. /\ id \in Ids /\ lockId[r].lockCount \in Nat
      /\ lockId[r].items \in SUBSET Requests /\ items[r] \in SUBSET Requests
    BY RequestTypes
<1>1. PICK given \in {items[r] \cup {r}, lockId[r].items} :
         WriteSession(r, given) /\ (given = lockId[r].items \/ pc[r] = "set")
    BY DEF GivesBack
<1>2. r \in Known /\ pc'[r] \in {"done", "poll"} /\ HoldsCount(r)
    BY <1>1 DEF GivesBack, Known, Holders, Breakers, WriteSession, CanCommit, SessionInv,
       LookupsStand
<1>3. [items |-> given, releaseCount |-> lockId[r].lockCount] # NoEntity
    BY <1>1, <1>t, NoEntityAssumption DEF SessionEntity
<1>4. /\ session'[id] = [items |-> given, releaseCount |-> lockId[r].lockCount]
      /\ \A i \in Ids \ {id} : session'[i] = session[i]
    BY <1>1, <1>t DEF WriteSession, PutSession, TypeOK, DatastoreTypeOK
<1> QED  BY <1>1, <1>2, <1>3, <1>4 DEF WriteSession

-----------------------------------------------------------------------------
(* The lock ids in the hands of requests.                                  *)

\* A lock id names a lock that was taken since the session was created, and
\* no later one; the one a request is about to break is old, if it is still
\* there.
LockIdsStand ==
    /\ \A id \in Ids : lock[id] # NoEntity => incarnation[id] >= 1
    /\ \A r \in Known :
         /\ lockId[r].incarnation >= 1
         /\ lockId[r].incarnation <= incarnation[SessionId[r]]
         /\ SameSession(r) /\ lock[SessionId[r]] # NoEntity =>
              lockId[r].lockCount <= lock[SessionId[r]].lockCount
    /\ \A r \in Breakers :
         SameSession(r) /\ HoldsCount(r) =>
           now - lock[SessionId[r]].dateLocked >= ExecutionTimeout

\* What LockIdsStand says of one request.
IdStands(r) ==
    /\ lockId[r].incarnation >= 1
    /\ lockId[r].incarnation <= incarnation[SessionId[r]]
    /\ SameSession(r) /\ lock[SessionId[r]] # NoEntity =>
         lockId[r].lockCount <= lock[SessionId[r]].lockCount
    /\ r \in Breakers /\ SameSession(r) /\ HoldsCount(r) =>
         now - lock[SessionId[r]].dateLocked >= ExecutionTimeout

LEMMA IdsStand ==
    LockIdsStand <=> /\ \A id \in Ids : lock[id] # NoEntity => incarnation[id] >= 1
                     /\ \A r \in Known : IdStands(r)
BY DEF LockIdsStand, IdStands, Known, Breakers

LEMMA InitLockIds == Init => LockIdsStand
<1> SUFFICES ASSUME Init PROVE LockIdsStand
    OBVIOUS
<1>1. Known = {}
    BY DEF Init, RequestInit, Known, Holders, Breakers
<1>2. \A id \in Ids : lock[id] # NoEntity => incarnation[id] >= 1
    BY DEF Init, RequestInit
<1> QED  BY <1>1, <1>2, IdsStand

LEMMA LockIdsStep ==
    ASSUME TypeOK, TypeOK', TargetOK, SessionInv, LockIdsStand, [Next]_vars
    PROVE  LockIdsStand'
<1>t. /\ lock \in [Ids -> LockEntity \cup {NoEntity}]
      /\ incarnation \in [Ids -> Nat] /\ now \in Nat /\ ExecutionTimeout \in Nat
    BY StoreAssumption DEF TypeOK, DatastoreTypeOK, RequestTypeOK
<1>k. /\ Known \subseteq Requests /\ Known' \subseteq Requests
      /\ \A q \in Requests : pc'[q] = pc[q] =>
           (q \in Known <=> q \in Known') /\ (q \in Breakers <=> q \in Breakers')
      /\ \A q \in Requests : pc'[q] \in {"done", "poll"} => q \notin Known'
    BY DEF Known, Holders, Breakers
<1>i. /\ \A id \in Ids : lock[id] # NoEntity => incarnation[id] >= 1
      /\ \A q \in Known : IdStands(q)
    BY IdsStand
\* A request that keeps its lock id, while its lock and incarnation stay.
<1>s. ASSUME NEW q \in Known, lockId'[q] = lockId[q],
             q \in Breakers' => q \in Breakers,
             lock'[SessionId[q]] = lock[SessionId[q]],
             incarnation'[SessionId[q]] = incarnation[SessionId[q]],
             now' = now \/ now' = now + 1
      PROVE  IdStands(q)'
  <2>1. /\ lock[SessionId[q]] # NoEntity => lock[SessionId[q]].dateLocked \in Nat
        /\ IdStands(q)
      BY <1>i, <1>k, RequestTypes
  <2> QED  BY <1>s, <1>t, <2>1 DEF IdStands, SameSession, HoldsCount
\* A request whose session is there no more, or is another one.
<1>g. ASSUME NEW q \in Known, lockId'[q] = lockId[q],
             \/ /\ lock'[SessionId[q]] = NoEntity
                /\ incarnation'[SessionId[q]] = incarnation[SessionId[q]]
             \/ incarnation'[SessionId[q]] = incarnation[SessionId[q]] + 1
      PROVE  IdStands(q)'
  <2>1. /\ lockId[q].incarnation \in Nat /\ incarnation[SessionId[q]] \in Nat
        /\ IdStands(q)
      BY <1>i, <1>k, RequestTypes
  <2>2. /\ lockId[q].incarnation >= 1
        /\ lockId[q].incarnation <= incarnation[SessionId[q]]
      BY <2>1 DEF IdStands
  <2>3. lockId[q].incarnation <= incarnation'[SessionId[q]]
      BY <1>g, <2>1, <2>2
  <2>4. lock'[SessionId[q]] = NoEntity \/ lockId[q].incarnation # incarnation'[SessionId[q]]
      BY <1>g, <2>1, <2>2
  <2> QED  BY <1>g, <2>2, <2>3, <2>4 DEF IdStands, SameSession, HoldsCount
<1>q. ASSUME \A id \in Ids : lock'[id] # NoEntity => incarnation'[id] >= 1,
             \A q \in Known' : IdStands(q)'
      PROVE  LockIdsStand'
    BY <1>q, <1>k DEF LockIdsStand, IdStands, Known, Breakers
<1>1. ASSUME NEW c \in Clients, NEW id \in Ids, Deletes(c, id), now' = now,
             \A q \in Known' : q \in Known /\ lockId'[q] = lockId[q]
                               /\ (q \in Breakers' => q \in Breakers)
      PROVE  LockIdsStand'
  <2>1. \A i \in Ids : lock'[i] = IF i = id THEN NoEntity ELSE lock[i]
      BY <1>1, <1>t DEF Deletes, PutLock
  <2>2. ASSUME NEW q \in Known' PROVE IdStands(q)'
    <3>1. SessionId[q] \in Ids /\ incarnation' = incarnation
        BY <1>1, <1>k, StoreAssumption DEF Deletes
    <3> QED  BY <1>1, <1>s, <1>g, <2>1, <2>2, <3>1
  <2>3. \A i \in Ids : lock'[i] # NoEntity => incarnation'[i] >= 1
      BY <1>1, <1>i, <2>1 DEF Deletes
  <2> QED  BY <1>q, <2>2, <2>3
<1>2. ASSUME NEW r \in Requests, RequestStep(r) PROVE LockIdsStand'
  <2> DEFINE id == SessionId[r]
  <2>t. id \in Ids /\ r \in Clients
      BY StoreAssumption DEF Clients
  <2>o. Others(r) /\ now' = now
      BY <1>2, RequestKinds
  <2>q. \A q \in Known' \ {r} : q \in Known /\ lockId'[q] = lockId[q] /\ q \in Requests
                                /\ (q \in Breakers' => q \in Breakers)
      BY <2>o, <1>k DEF Others
  <2>1. CASE Looks(r)
    <3>1. UNCHANGED <<lock, session, incarnation>>
        BY <2>1 DEF Looks
    <3>2. \A q \in Known' \ {r} : IdStands(q)'
        BY <1>s, <2>o, <2>q, <3>1
    <3>3. ASSUME r \in Known' PROVE IdStands(r)'
      <4>1. CASE /\ r \in Known /\ (r \in Breakers <=> r \in Breakers')
                 /\ lockId'[r] = lockId[r]
          BY <4>1, <1>s, <2>o, <3>1
      <4>2. CASE /\ lock[id] # NoEntity
                 /\ now - lock[id].dateLocked >= ExecutionTimeout
                 /\ lockId'[r].lockCount = lock[id].lockCount
                 /\ lockId'[r].incarnation = incarnation[id]
        <5>1. incarnation[id] >= 1 /\ incarnation[id] \in Nat /\ lock[id].lockCount \in Nat
            BY <4>2, <1>i, <2>t, RequestTypes
        <5> QED  BY <4>2, <5>1, <2>o, <3>1 DEF IdStands, SameSession, HoldsCount
      <4>3. pc'[r] # "locking"
          BY <3>3 DEF Known, Holders, Breakers
      <4> QED  BY <2>1, <3>3, <4>1, <4>2, <4>3 DEF Looks
    <3> QED  BY <1>i, <1>q, <3>1, <3>2, <3>3
  <2>2. CASE Takes(r)
    <3> DEFINE n == lockId[r].lockCount
    <3>0. /\ incarnation' = incarnation
          /\ pc'[r] = "poll" \/ (pc'[r] = "own" /\ lockId'[r] = lockId[r])
        BY <2>2 DEF Takes
    <3>1. /\ lock[id] # NoEntity /\ n = lock[id].lockCount + 1 /\ SameSession(r)
          /\ lock'[id] = NewLock(n) /\ NewLock(n) # NoEntity
          /\ \A i \in Ids \ {id} : lock'[i] = lock[i]
        BY <2>2, TakenNext
    <3>2. lock'[id].lockCount = n /\ lock[id].lockCount \in Nat /\ incarnation[id] \in Nat
          /\ incarnation[id] >= 1
        BY <3>1, <1>i, <2>t, RequestTypes DEF NewLock
    <3>3. ASSUME NEW q \in Known' \ {r} PROVE IdStands(q)'
      <4>1. CASE SessionId[q] # id
        <5>1. lock'[SessionId[q]] = lock[SessionId[q]]
            BY <4>1, <3>1, <2>q, StoreAssumption
        <5> QED  BY <5>1, <1>s, <2>o, <2>q, <3>0
      <4>2. CASE SessionId[q] = id
        <5>1. /\ IdStands(q) /\ lockId'[q] = lockId[q] /\ lockId[q].lockCount \in Nat
            BY <1>i, <2>q, RequestTypes
        <5>2. SameSession(q) => lockId[q].lockCount < n
            BY <4>2, <5>1, <3>1, <3>2 DEF IdStands
        <5>3. SameSession(q) => lockId[q].lockCount # n /\ lockId[q].lockCount <= n
            BY <5>1, <5>2, <3>1, <3>2
        <5> QED  BY <4>2, <5>1, <5>3, <3>0, <3>1, <3>2 DEF IdStands, SameSession, HoldsCount
      <4> QED  BY <4>1, <4>2
    <3>4. ASSUME r \in Known' PROVE IdStands(r)'
      <4>1. pc'[r] = "own" /\ lockId'[r] = lockId[r]
          BY <1>k, <3>0, <3>4
      <4>2. r \notin Breakers'
          BY <4>1 DEF Breakers
      <4> QED  BY <4>1, <4>2, <3>0, <3>1, <3>2 DEF IdStands, SameSession, HoldsCount
    <3>5. \A i \in Ids : lock'[i] # NoEntity => incarnation'[i] >= 1
        BY <1>i, <3>0, <3>1
    <3> QED  BY <1>q, <3>3, <3>4, <3>5
  <2>3. CASE GivesBack(r)
    <3>1. lock' = lock /\ incarnation' = incarnation /\ r \notin Known'
        BY <1>k, <2>3 DEF GivesBack
    <3>2. \A q \in Known' : IdStands(q)'
        BY <1>s, <2>o, <2>q, <3>1
    <3> QED  BY <1>i, <1>q, <3>1, <3>2
  <2>4. CASE Creates(r)
    <3>1. /\ PutLock(id, NewLock(0)) /\ r \notin Known'
          /\ incarnation' = [incarnation EXCEPT ![id] = @ + 1]
        BY <1>k, <2>4 DEF Creates
    <3>2. /\ incarnation'[id] = incarnation[id] + 1 /\ incarnation[id] \in Nat
          /\ \A i \in Ids \ {id} : incarnation'[i] = incarnation[i] /\ lock'[i] = lock[i]
        BY <1>t, <2>t, <3>1 DEF PutLock
    <3>3. ASSUME NEW q \in Known' PROVE IdStands(q)'
      <4>1. SessionId[q] \in Ids /\ q \in Known /\ lockId'[q] = lockId[q]
            /\ (q \in Breakers' => q \in Breakers)
          BY <2>q, <3>1, StoreAssumption
      <4> QED  BY <4>1, <1>s, <1>g, <2>o, <3>2
    <3>4. \A i \in Ids : lock'[i] # NoEntity => incarnation'[i] >= 1
        BY <1>i, <3>2
    <3> QED  BY <1>q, <3>3, <3>4
  <2>5. CASE Deletes(r, id) /\ pc'[r] = "done"
      BY <1>1, <1>k, <2>o, <2>q, <2>t, <2>5
  <2> QED  BY <1>2, RequestKinds, <2>1, <2>2, <2>3, <2>4, <2>5
<1>3. ASSUME UNCHANGED <<lock, session, incarnation, pc, lockId>>,
             now' = now \/ now' = now + 1
      PROVE  LockIdsStand'
  <2>1. \A q \in Known' : q \in Known /\ (q \in Breakers' => q \in Breakers)
      BY <1>3, <1>k
  <2>2. \A q \in Known' : IdStands(q)'
      BY <1>3, <1>s, <2>1
  <2> QED  BY <1>3, <1>i, <1>q, <2>2
<1>4. ASSUME NEW w \in SweepTasks, SweepStep(w), UNCHANGED requestVars
      PROVE  LockIdsStand'
  <2>1. /\ UNCHANGED <<pc, lockId, items>> /\ now' = now
        /\ \/ UNCHANGED <<lock, session, incarnation>>
           \/ /\ Deletes(w, target[w]) /\ target[w] \in Ids /\ w \in Clients
      BY <1>4, SweepKinds
  <2>2. \A q \in Known' : q \in Known /\ lockId'[q] = lockId[q]
                          /\ (q \in Breakers' => q \in Breakers)
      BY <1>k, <2>1
  <2> QED  BY <1>1, <1>3, <2>1, <2>2
<1>5. CASE Tick \/ UNCHANGED vars
    BY <1>3, <1>5 DEF Tick, vars, storeVars, requestVars
<1> QED  BY <1>2, <1>4, <1>5 DEF Next

\* The lock ids in the hands of requests name locks that were taken, and
\* whoever breaks a lock breaks an old one or none.
THEOREM LockIdsAreSound == Spec => []LockIdsStand
<1>1. TypeOK /\ TypeOK' /\ TargetOK /\ SessionInv /\ LockIdsStand /\ [Next]_vars
        => LockIdsStand'
    BY LockIdsStep
<1> QED  BY <1>1, InitLockIds, TypeCorrect, TargetsAreIds, SessionSafety, PTL DEF Spec

-----------------------------------------------------------------------------
(* The items in the hands of requests.                                     *)

\* The items a request works on are those of the session it holds, also when
\* its lock has been broken with the items it had when it was taken.
ItemsStand ==
    /\ \A r \in Requests :
         tx[r].state = "open" /\ pc[r] = "locking" =>
           lockId[r].items = Items(session[SessionId[r]])
    /\ \A r \in Holders :
         /\ items[r] = lockId[r].items
         /\ incarnation[SessionId[r]] <= 1 /\ HoldsCount(r) =>
              Items(session[SessionId[r]]) \subseteq items[r]
    /\ \A r \in Holders, q \in Breakers :
         /\ SessionId[q] = SessionId[r] /\ incarnation[SessionId[r]] <= 1
         /\ lockId[q].lockCount = lockId[r].lockCount
         => lockId[q].items \subseteq items[r]

LEMMA InitItems == Init => ItemsStand
<1> SUFFICES ASSUME Init PROVE ItemsStand
    OBVIOUS
<1>1. Holders = {} /\ \A r \in Requests : pc[r] # "locking"
    BY DEF Init, RequestInit, Holders
<1> QED  BY <1>1 DEF ItemsStand

\* A transaction in which a session is being locked ends when the Session is
\* written.
LEMMA LockingEnds ==
    ASSUME TypeOK, SessionInv, NEW c \in Clients, NEW id \in Ids,
           NEW kinds \in SUBSET Kinds, "Session" \in kinds, Committed(c, id, kinds),
           NEW q \in Requests, pc[q] = "locking", tx'[q].state = "open"
    PROVE  SessionId[q] # id
<1>1. q \in Clients /\ "Session" \in Kinds
    BY DEF Clients, Kinds
<1>2. tx'[q] = tx[q] /\ (tx[q].id = id => tx[q].kinds \cap kinds = {})
    BY <1>1, CommitInvalidates DEF TypeOK
<1>3. tx[q].id = SessionId[q] /\ tx[q].kinds = Kinds
    BY <1>2 DEF SessionInv, LookupsStand
<1> QED  BY <1>1, <1>2, <1>3

\* While a session is created only once, who knows a lock id of it knows one
\* of this session.
LEMMA KnownOnce ==
    ASSUME TypeOK, LockIdsStand, NEW q \in Known, incarnation[SessionId[q]] <= 1
    PROVE  /\ SameSession(q) /\ incarnation[SessionId[q]] = 1
           /\ lockId[q].incarnation = 1
           /\ lock[SessionId[q]] # NoEntity =>
                lockId[q].lockCount <= lock[SessionId[q]].lockCount
<1>1. q \in Requests
    BY DEF Known, Holders, Breakers
<1>2. lockId[q].incarnation \in Nat /\ incarnation[SessionId[q]] \in Nat
    BY <1>1, RequestTypes
<1>3. IdStands(q)
    BY IdsStand
<1> QED  BY <1>2, <1>3 DEF IdStands, SameSession

LEMMA ItemsStep ==
    ASSUME TypeOK, TypeOK', TargetOK, SessionInv, LockIdsStand, ItemsStand, [Next]_vars
    PROVE  ItemsStand'
<1>t. /\ lock \in [Ids -> LockEntity \cup {NoEntity}]
      /\ session \in [Ids -> SessionEntity \cup {NoEntity}]
      /\ incarnation \in [Ids -> Nat]
    BY DEF TypeOK, DatastoreTypeOK, RequestTypeOK
<1>k. /\ Holders \subseteq Requests /\ Holders' \subseteq Requests
      /\ Holders \subseteq Known /\ Breakers \subseteq Known
      /\ Breakers \subseteq Requests /\ Breakers' \subseteq Requests
      /\ \A q \in Requests : pc'[q] = pc[q] =>
           (q \in Holders <=> q \in Holders') /\ (q \in Breakers <=> q \in Breakers')
      /\ \A q \in Requests : pc'[q] \in {"done", "poll"} =>
           q \notin Holders' /\ q \notin Breakers' /\ pc'[q] # "locking"
      /\ \A q \in Holders' : q \notin Breakers' /\ pc'[q] # "locking"
      /\ \A q \in Breakers' : pc'[q] # "locking"
    BY DEF Known, Holders, Breakers
<1> DEFINE LockingStands(q) == tx'[q].state = "open" /\ pc'[q] = "locking" =>
                                 lockId'[q].items = Items(session'[SessionId[q]])
           HolderStands(q) ==
             /\ items'[q] = lockId'[q].items
             /\ incarnation'[SessionId[q]] <= 1 /\ HoldsCount(q)' =>
                  Items(session'[SessionId[q]]) \subseteq items'[q]
           PairStands(h, q) ==
             /\ SessionId[q] = SessionId[h] /\ incarnation'[SessionId[h]] <= 1
             /\ lockId'[q].lockCount = lockId'[h].lockCount
             => lockId'[q].items \subseteq items'[h]
           Kept(q) == /\ pc'[q] = pc[q] /\ lockId'[q] = lockId[q] /\ items'[q] = items[q]
                      /\ tx'[q].state = "open" => tx'[q] = tx[q]
<1>q. ASSUME \A q \in Requests : LockingStands(q), \A q \in Holders' : HolderStands(q),
             \A h \in Holders', q \in Breakers' : PairStands(h, q)
      PROVE  ItemsStand'
    BY <1>q DEF ItemsStand, Items
<1>l. ASSUME NEW q \in Requests, Kept(q), session'[SessionId[q]] = session[SessionId[q]]
      PROVE  LockingStands(q)
    BY <1>l DEF ItemsStand, Items
<1>c. ASSUME NEW c \in Clients, NEW id \in Ids, NEW kinds \in SUBSET Kinds,
             "Session" \in kinds, Committed(c, id, kinds),
             \A i \in Ids \ {id} : session'[i] = session[i],
             NEW q \in Requests, Kept(q)
      PROVE  LockingStands(q)
  <2>1. CASE tx'[q].state = "open" /\ pc'[q] = "locking"
    <3>1. SessionId[q] # id /\ SessionId[q] \in Ids
        BY <1>c, <2>1, LockingEnds, StoreAssumption
    <3> QED  BY <1>c, <1>l, <3>1
  <2> QED  BY <2>1
<1>h. ASSUME NEW q \in Holders, Kept(q), incarnation'[SessionId[q]] = incarnation[SessionId[q]],
             session'[SessionId[q]] = session[SessionId[q]],
             lock'[SessionId[q]] = lock[SessionId[q]]
      PROVE  HolderStands(q)
    BY <1>h DEF ItemsStand, HoldsCount, Items
<1>p. ASSUME NEW h \in Holders, NEW q \in Breakers, Kept(h), Kept(q),
             incarnation'[SessionId[h]] = incarnation[SessionId[h]]
      PROVE  PairStands(h, q)
    BY <1>p DEF ItemsStand
<1>1. ASSUME NEW c \in Clients, NEW id \in Ids, Deletes(c, id),
             \A q \in Requests : q # c => Kept(q),
             c \in Requests => pc'[c] = "done"
      PROVE  ItemsStand'
  <2>1. /\ \A i \in Ids : lock'[i] = IF i = id THEN NoEntity ELSE lock[i]
        /\ \A i \in Ids \ {id} : session'[i] = session[i]
        /\ incarnation' = incarnation
        /\ Committed(c, id, Kinds) /\ "Session" \in Kinds
      BY <1>1, <1>t DEF Deletes, PutLock, PutSession, Kinds
  <2>2. ASSUME NEW q \in Requests PROVE LockingStands(q)
      BY <1>1, <1>c, <1>k, <2>1
  <2>3. ASSUME NEW q \in Holders' PROVE HolderStands(q)
    <3>1. Kept(q) /\ q \in Holders /\ SessionId[q] \in Ids
        BY <1>1, <1>k, StoreAssumption
    <3>2. CASE SessionId[q] = id
      <4>1. ~HoldsCount(q)'
          BY <2>1, <3>1, <3>2 DEF HoldsCount
      <4> QED  BY <3>1, <4>1 DEF ItemsStand
    <3> QED  BY <1>h, <2>1, <3>1, <3>2
  <2>4. ASSUME NEW h \in Holders', NEW q \in Breakers' PROVE PairStands(h, q)
      BY <1>1, <1>k, <1>p, <2>1
  <2> QED  BY <1>q, <2>2, <2>3, <2>4
<1>2. ASSUME NEW r \in Requests, RequestStep(r) PROVE ItemsStand'
  <2> DEFINE id == SessionId[r]
  <2>t. id \in Ids /\ r \in Clients
      BY StoreAssumption DEF Clients
  <2>o. \A q \in Requests \ {r} : Kept(q)
      BY <1>2, RequestKinds DEF Others
  <2>q. /\ \A q \in Holders' \ {r} : q \in Holders /\ q \in Requests /\ Kept(q)
        /\ \A q \in Breakers' \ {r} : q \in Breakers /\ q \in Requests /\ Kept(q)
      BY <1>k, <2>o
  <2> HIDE DEF Kept, LockingStands, HolderStands, PairStands
  <2>1. CASE Looks(r)
    <3>0. UNCHANGED <<lock, session, incarnation>>
        BY <2>1 DEF Looks
    <3>1. \A q \in Requests \ {r} : LockingStands(q)
        BY <1>l, <2>o, <3>0
    <3>2. LockingStands(r)
      <4>1. pc'[r] = "locking" => lockId'[r].items = Items(session[id])
          BY <2>1, <1>k DEF Looks, Known, Holders, Breakers
      <4> QED  BY <3>0, <4>1 DEF LockingStands, Items
    <3>3. r \in Holders' => r \in Holders /\ lockId'[r] = lockId[r] /\ items'[r] = items[r]
        BY <2>1, <1>k DEF Looks, Known, Breakers, Holders
    <3>4. r \in Breakers' => \/ r \in Breakers /\ lockId'[r] = lockId[r]
                             \/ /\ lock[id] # NoEntity
                                /\ lockId'[r].lockCount = lock[id].lockCount
                                /\ lockId'[r].items = Items(session[id])
        BY <2>1, <1>k DEF Looks, Known, Breakers, Holders
    <3>5. ASSUME NEW q \in Holders' PROVE HolderStands(q)
      <4>1. q \in Holders /\ lockId'[q] = lockId[q] /\ items'[q] = items[q]
          BY <2>q, <3>3 DEF Kept
      <4> QED  BY <3>0, <4>1 DEF HolderStands, ItemsStand, HoldsCount, Items
    <3>6. ASSUME NEW h \in Holders', NEW q \in Breakers' PROVE PairStands(h, q)
      <4>1. h \in Holders /\ lockId'[h] = lockId[h] /\ items'[h] = items[h]
          BY <2>q, <3>3 DEF Kept
      <4>2. CASE q \in Breakers /\ lockId'[q] = lockId[q]
          BY <3>0, <4>1, <4>2 DEF PairStands, ItemsStand
      <4>3. CASE /\ q = r /\ lock[id] # NoEntity
                 /\ lockId'[r].lockCount = lock[id].lockCount
                 /\ lockId'[r].items = Items(session[id])
        <5> SUFFICES ASSUME id = SessionId[h], incarnation[id] <= 1,
                            lockId'[r].lockCount = lockId[h].lockCount
                     PROVE  lockId'[r].items \subseteq items[h]
            BY <3>0, <4>1, <4>3 DEF PairStands
        <5>1. HoldsCount(h)
            BY <4>3 DEF HoldsCount
        <5> QED  BY <4>1, <4>3, <5>1 DEF ItemsStand
      <4> QED  BY <2>q, <3>4, <4>2, <4>3 DEF Kept
    <3> QED  BY <1>q, <3>1, <3>2, <3>5, <3>6
  <2>2. CASE Takes(r)
    <3> DEFINE n == lockId[r].lockCount
    <3>0. /\ UNCHANGED <<session, incarnation>> /\ pc[r] = "locking"
          /\ tx[r].state = "open"
          /\ \/ pc'[r] = "poll"
             \/ /\ pc'[r] = "own" /\ lockId'[r] = lockId[r]
                /\ items'[r] = lockId[r].items
        BY <2>2 DEF Takes, WriteLock, CanCommit
    <3>1. /\ lock[id] # NoEntity /\ n = lock[id].lockCount + 1
          /\ lock'[id] = NewLock(n)
          /\ \A i \in Ids \ {id} : lock'[i] = lock[i]
        BY <2>2, TakenNext
    <3>2. lock'[id].lockCount = n /\ lock[id].lockCount \in Nat
        BY <3>1, <2>t, RequestTypes DEF NewLock
    <3>b. r \notin Breakers' /\ pc'[r] # "locking" /\ (r \in Holders' => pc'[r] = "own")
        BY <3>0, <1>k DEF Breakers
    <3>3. \A q \in Requests : LockingStands(q)
        BY <1>l, <2>o, <3>0, <3>b DEF LockingStands
    <3>4. ASSUME NEW q \in Known, SessionId[q] = id, incarnation[id] <= 1
          PROVE  lockId[q].lockCount # n
      <4>1. q \in Requests
          BY <1>k DEF Known
      <4>2. lockId[q].lockCount \in Nat /\ lockId[q].lockCount <= lock[id].lockCount
          BY <3>1, <3>4, <4>1, KnownOnce, RequestTypes
      <4> QED  BY <3>1, <3>2, <4>2
    <3>5. ASSUME NEW q \in Holders' PROVE HolderStands(q)
      <4>1. CASE q = r
          BY <4>1, <3>0, <3>b DEF HolderStands, ItemsStand, Items
      <4>2. CASE q # r
        <5>1. q \in Holders /\ Kept(q) /\ SessionId[q] \in Ids
            BY <2>q, <4>2, StoreAssumption
        <5>2. CASE SessionId[q] # id
            BY <1>h, <3>0, <3>1, <5>1, <5>2
        <5>3. CASE SessionId[q] = id
          <6>1. incarnation[id] <= 1 => ~HoldsCount(q)'
              BY <1>k, <3>2, <3>4, <5>1, <5>3 DEF HoldsCount, Kept
          <6> QED  BY <3>0, <5>1, <5>3, <6>1 DEF HolderStands, ItemsStand, Kept
        <5> QED  BY <5>2, <5>3
      <4> QED  BY <4>1, <4>2
    <3>6. ASSUME NEW h \in Holders', NEW q \in Breakers' PROVE PairStands(h, q)
      <4>1. q # r /\ q \in Breakers /\ Kept(q) /\ q \in Known
          BY <1>k, <2>q, <3>b
      <4>2. CASE h = r
          BY <3>0, <3>4, <3>b, <4>1, <4>2 DEF PairStands, Kept
      <4>3. CASE h # r
          BY <1>p, <2>q, <3>0, <4>1, <4>3
      <4> QED  BY <4>2, <4>3
    <3> QED  BY <1>q, <3>3, <3>5, <3>6
  <2>3. CASE GivesBack(r)
    <3>0. UNCHANGED <<lock, incarnation>>
        BY <2>3 DEF GivesBack
    <3>1. PICK given : /\ session'[id] = [items |-> given, releaseCount |-> lockId[r].lockCount]
                       /\ given = lockId[r].items \/ pc[r] = "set"
        BY <2>3, GivenBack
    <3>2. /\ r \in Known /\ pc'[r] \in {"done", "poll"} /\ HoldsCount(r)
          /\ session'[id] # NoEntity
          /\ \A i \in Ids \ {id} : session'[i] = session[i]
          /\ Committed(r, id, {"Session"})
          /\ {"Session"} \in SUBSET Kinds
        BY <2>3, GivenBack DEF Kinds
    <3>b. r \notin Holders' /\ r \notin Breakers' /\ pc'[r] # "locking"
        BY <1>k, <3>2
    <3>3. ASSUME NEW q \in Requests PROVE LockingStands(q)
      <4>1. CASE q = r
          BY <3>b, <4>1 DEF LockingStands
      <4>2. CASE q # r
          BY <1>c, <2>o, <2>t, <3>2, <4>2
      <4> QED  BY <4>1, <4>2
    <3>5. ASSUME NEW q \in Holders' PROVE HolderStands(q)
      <4>1. q # r /\ q \in Holders /\ Kept(q) /\ SessionId[q] \in Ids /\ q \in Known
          BY <1>k, <2>q, <3>b, StoreAssumption
      <4>2. CASE SessionId[q] # id
          BY <1>h, <3>0, <3>2, <4>1, <4>2
      <4>3. CASE SessionId[q] = id
        <5> SUFFICES ASSUME incarnation[id] <= 1, HoldsCount(q)
                     PROVE  given \subseteq items[q]
            BY <3>0, <3>1, <3>2, <4>1, <4>3 DEF HolderStands, ItemsStand, Kept, HoldsCount,
               Items
        <5>1. lockId[q].lockCount = lockId[r].lockCount
            BY <3>2, <4>3 DEF HoldsCount
        <5>2. lockId[q].incarnation = lockId[r].incarnation
            BY <3>2, <4>1, <4>3, KnownOnce
        <5>3. r \notin Holders
            BY <4>1, <4>3, <5>1, <5>2 DEF SessionInv, OneHolderPerCount
        <5>4. r \in Breakers /\ pc[r] # "set"
            BY <3>2, <5>3 DEF Known, Breakers
        <5> QED  BY <3>1, <4>1, <4>3, <5>1, <5>4 DEF ItemsStand
      <4> QED  BY <4>2, <4>3
    <3>6. ASSUME NEW h \in Holders', NEW q \in Breakers' PROVE PairStands(h, q)
        BY <1>p, <2>q, <3>0, <3>b
    <3> QED  BY <1>q, <3>3, <3>5, <3>6
  <2>4. CASE Creates(r)
    <3>1. PICK S \in SessionEntity \cup {NoEntity} :
               /\ PutLock(id, NewLock(0)) /\ PutSession(id, S)
               /\ Committed(r, id, Kinds)
               /\ incarnation' = [incarnation EXCEPT ![id] = @ + 1]
               /\ pc'[r] = "done"
        BY <2>4 DEF Creates
    <3>2. /\ incarnation'[id] = incarnation[id] + 1 /\ incarnation[id] \in Nat
          /\ \A i \in Ids \ {id} : /\ incarnation'[i] = incarnation[i] /\ lock'[i] = lock[i]
                                   /\ session'[i] = session[i]
          /\ "Session" \in Kinds
        BY <1>t, <2>t, <3>1 DEF PutLock, PutSession, Kinds
    <3>b. r \notin Holders' /\ r \notin Breakers' /\ pc'[r] # "locking"
        BY <1>k, <3>1
    <3>3. ASSUME NEW q \in Requests PROVE LockingStands(q)
      <4>1. CASE q = r
          BY <3>b, <4>1 DEF LockingStands
      <4>2. CASE q # r
          BY <1>c, <2>o, <2>t, <3>1, <3>2, <4>2
      <4> QED  BY <4>1, <4>2
    <3>4. ASSUME NEW q \in Holders', SessionId[q] = id PROVE ~(incarnation'[id] <= 1)
      <4>1. q \in Known
          BY <1>k, <2>q, <3>b
      <4> QED  BY <3>2, <3>4, <4>1, KnownOnce
    <3>5. ASSUME NEW q \in Holders' PROVE HolderStands(q)
      <4>1. q \in Holders /\ Kept(q) /\ SessionId[q] \in Ids
          BY <1>k, <2>q, <3>b, StoreAssumption
      <4>2. CASE SessionId[q] # id
          BY <1>h, <3>2, <4>1, <4>2
      <4>3. CASE SessionId[q] = id
          BY <3>4, <4>1, <4>3 DEF HolderStands, ItemsStand, Kept
      <4> QED  BY <4>2, <4>3
    <3>6. ASSUME NEW h \in Holders', NEW q \in Breakers' PROVE PairStands(h, q)
      <4>1. h \in Holders /\ q \in Breakers /\ Kept(h) /\ Kept(q) /\ SessionId[h] \in Ids
          BY <1>k, <2>q, <3>b, StoreAssumption
      <4>2. CASE SessionId[h] # id
          BY <1>p, <3>2, <4>1, <4>2
      <4>3. CASE SessionId[h] = id
          BY <3>4, <4>3 DEF PairStands
      <4> QED  BY <4>2, <4>3
    <3> QED  BY <1>q, <3>3, <3>5, <3>6
  <2>5. CASE Deletes(r, id) /\ pc'[r] = "done"
      BY <1>1, <2>o, <2>t, <2>5
  <2> QED  BY <1>2, RequestKinds, <2>1, <2>2, <2>3, <2>4, <2>5
<1>3. ASSUME UNCHANGED <<lock, session, incarnation, pc, lockId, items>>,
             \A q \in Requests : tx'[q].state = "open" => tx'[q] = tx[q]
      PROVE  ItemsStand'
  <2>1. \A q \in Requests : Kept(q)
      BY <1>3
  <2>2. Holders' = Holders /\ Breakers' = Breakers
      BY <1>3 DEF Holders, Breakers
  <2> HIDE DEF Kept, LockingStands, HolderStands, PairStands
  <2> QED  BY <1>3, <1>h, <1>k, <1>l, <1>p, <1>q, <2>1, <2>2
<1>4. ASSUME NEW w \in SweepTasks, SweepStep(w), UNCHANGED requestVars
      PROVE  ItemsStand'
  <2>1. /\ UNCHANGED <<pc, lockId, items>>
        /\ \A q \in Requests : tx'[q].state = "open" => tx'[q] = tx[q]
        /\ \/ UNCHANGED <<lock, session, incarnation>>
           \/ /\ Deletes(w, target[w]) /\ target[w] \in Ids /\ w \in Clients
      BY <1>4, SweepKinds
  <2>2. \A q \in Requests : Kept(q)
      BY <2>1
  <2>3. w \notin Requests
      BY ClientsAssumption
  <2> HIDE DEF Kept
  <2> QED  BY <1>1, <1>3, <2>1, <2>2, <2>3
<1>5. CASE Tick \/ UNCHANGED vars
    BY <1>3, <1>5 DEF Tick, vars, storeVars, requestVars
<1> QED  BY <1>2, <1>4, <1>5 DEF Next

\* What is in the hands of requests comes from the session they hold.
THEOREM ItemsAreSound == Spec => []ItemsStand
<1>1. /\ TypeOK /\ TypeOK' /\ TargetOK /\ SessionInv /\ LockIdsStand /\ ItemsStand
      /\ [Next]_vars
      => ItemsStand'
    BY ItemsStep
<1> QED  BY <1>1, InitItems, TypeCorrect, TargetsAreIds, SessionSafety, LockIdsAreSound,
         PTL DEF Spec

\* For any number of sessions and requests: the lock a breaking call releases
\* is older than the execution timeout, also when it is not the one ASP.NET
\* looked at.
THEOREM OnlyOldLocksBreak == Spec => BreakOnlyOldLocks
<1> DEFINE Old ==
             \A r \in Requests :
                /\ pc[r] = "breaking" /\ pc'[r] = "poll"
                /\ session'[SessionId[r]] # session[SessionId[r]]
                /\ incarnation[SessionId[r]] <= 1
                => now - lock[SessionId[r]].dateLocked >= ExecutionTimeout
<1>1. TypeOK /\ SessionInv /\ LockIdsStand /\ [Next]_vars => [Old]_vars
  <2> SUFFICES ASSUME TypeOK, SessionInv, LockIdsStand, [Next]_vars, NEW r \in Requests,
                      pc[r] = "breaking", pc'[r] = "poll",
                      session'[SessionId[r]] # session[SessionId[r]],
                      incarnation[SessionId[r]] <= 1
               PROVE  now - lock[SessionId[r]].dateLocked >= ExecutionTimeout
      OBVIOUS
  <2>1. \E q \in Requests : RequestStep(q)
      BY DEF Next, Tick, vars, requestVars
  <2>2. RequestStep(r)
      BY <2>1, RequestKinds DEF Others
  <2>3. GivesBack(r)
      BY <2>2, RequestKinds DEF Looks, Takes, Creates
  <2>4. r \in Breakers /\ r \in Known /\ HoldsCount(r)
      BY <2>3, GivenBack DEF Breakers
  <2>5. SameSession(r)
      BY <2>4, KnownOnce
  <2> QED  BY <2>4, <2>5 DEF LockIdsStand
<1> HIDE DEF Old
<1>2. Spec => [][Old]_vars
    BY <1>1, TypeCorrect, SessionSafety, LockIdsAreSound, PTL DEF Spec
<1> QED  BY <1>2 DEF BreakOnlyOldLocks, Old

\* For any number of sessions and requests: as long as an id is created once,
\* no commit of a request or of a sweep task loses what another one saved,
\* unless it breaks the lock or ends the session.
THEOREM SavedItemsAreKept == Spec => SavedItemsSurvive
<1> DEFINE Kept ==
             \A id \in Ids :
                \/ incarnation'[id] > 1
                \/ session[id] = NoEntity \/ session'[id] = NoEntity
                \/ \E r \in Requests : pc[r] = "breaking" /\ pc'[r] = "poll"
                \/ session[id].items \subseteq session'[id].items
<1>1. /\ TypeOK /\ TargetOK /\ SessionInv /\ LockIdsStand /\ ItemsStand
      /\ [Next]_vars
      => [Kept]_vars
  <2> SUFFICES ASSUME TypeOK, TargetOK, SessionInv, LockIdsStand, ItemsStand, [Next]_vars,
                      NEW id \in Ids, ~(incarnation'[id] > 1),
                      session[id] # NoEntity, session'[id] # NoEntity,
                      ~\E r \in Requests : pc[r] = "breaking" /\ pc'[r] = "poll"
               PROVE  session[id].items \subseteq session'[id].items
      OBVIOUS
  <2>t. /\ session \in [Ids -> SessionEntity \cup {NoEntity}] /\ incarnation \in [Ids -> Nat]
        /\ lock[id] # NoEntity
      BY DEF TypeOK, DatastoreTypeOK, RequestTypeOK, SessionInv, CountsAgree
  <2>1. CASE session'[id] = session[id]
      BY <2>1
  <2>2. ASSUME NEW r \in Requests, RequestStep(r), session'[id] # session[id]
        PROVE  session[id].items \subseteq session'[id].items
    <3>1. CASE GivesBack(r)
      <4>1. id = SessionId[r]
          BY <2>2, <3>1, GivenBack
      <4>2. r \in Holders
          BY <3>1 DEF GivesBack, Holders
      <4>3. PICK given \in {items[r] \cup {r}, lockId[r].items} :
              session'[id] = [items |-> given, releaseCount |-> lockId[r].lockCount]
          BY <3>1, <4>1, GivenBack
      <4>4. HoldsCount(r) /\ incarnation[id] \in Nat /\ incarnation'[id] = incarnation[id]
          BY <2>t, <3>1, GivenBack DEF GivesBack
      <4>5. items[r] = lockId[r].items /\ Items(session[id]) \subseteq items[r]
          BY <4>1, <4>2, <4>4 DEF ItemsStand
      <4> QED  BY <4>3, <4>5 DEF Items
    <3>2. CASE Creates(r)
      <4>1. id = SessionId[r]
          BY <2>2, <2>t, <3>2 DEF Creates, PutSession
      <4>2. incarnation'[id] = incarnation[id] + 1 /\ incarnation[id] \in Nat
          BY <2>t, <3>2, <4>1 DEF Creates
      <4>3. incarnation[id] >= 1
          BY <2>t DEF LockIdsStand
      <4> QED  BY <4>2, <4>3
    <3>3. CASE Deletes(r, SessionId[r])
        BY <2>2, <2>t, <3>3 DEF Deletes, PutSession
    <3> QED  BY <2>2, RequestKinds, <3>1, <3>2, <3>3 DEF Looks, Takes
  <2>3. ASSUME NEW w \in SweepTasks, SweepStep(w), UNCHANGED requestVars
        PROVE  session'[id] = session[id]
      BY <2>3, <2>t, SweepKinds DEF Deletes, PutSession
  <2> QED  BY <2>1, <2>2, <2>3 DEF Next, Tick, vars, storeVars
<1> HIDE DEF Kept
<1>2. Spec => [][Kept]_vars
    BY <1>1, TypeCorrect, TargetsAreIds, SessionSafety, LockIdsAreSound, ItemsAreSound,
       PTL DEF Spec
<1> QED  BY <1>2 DEF SavedItemsSurvive, Kept

-----------------------------------------------------------------------------
(* The lease the entities implement.                                       *)

\* The lease of a session that is there, and the token of a request.
LEMMA LeaseOfSession ==
    ASSUME TypeOK, NEW id \in Ids
    PROVE  /\ lock[id] # NoEntity =>
                /\ LeaseOf(id) # NoEntity
                /\ lock[id].lockCount > ReleaseCount(session[id]) =>
                     LeaseOf(id) = [number |-> lock[id].lockCount, held |-> TRUE,
                                    items |-> Items(session[id])]
                /\ ~(lock[id].lockCount > ReleaseCount(session[id])) =>
                     LeaseOf(id) = [number |-> lock[id].lockCount, held |-> FALSE,
                                    items |-> Items(session[id])]
           /\ lock[id] = NoEntity => LeaseOf(id) = NoEntity
<1>t. /\ lock[id] # NoEntity => lock[id].lockCount \in Nat
      /\ Items(session[id]) \in SUBSET Requests
    BY DEF TypeOK, DatastoreTypeOK, LockEntity, SessionEntity, Items
<1>h. lock[id] # NoEntity =>
        /\ lock[id].lockCount > ReleaseCount(session[id]) => IsLocked(id) = TRUE
        /\ ~(lock[id].lockCount > ReleaseCount(session[id])) => IsLocked(id) = FALSE
    BY DEF IsLocked, Locked
<1> DEFINE l(held) == [number |-> lock[id].lockCount, held |-> held,
                       items |-> Items(session[id])]
<1>1. lock[id] # NoEntity => LeaseOf(id) = l(IsLocked(id))
    BY DEF LeaseOf
<1>2. lock[id] # NoEntity =>
        \A held \in BOOLEAN : l(held) \in [number : Nat, held : BOOLEAN, items : SUBSET Requests]
    BY <1>t
<1>3. lock[id] # NoEntity =>
        /\ lock[id].lockCount > ReleaseCount(session[id]) => LeaseOf(id) = l(TRUE)
        /\ ~(lock[id].lockCount > ReleaseCount(session[id])) => LeaseOf(id) = l(FALSE)
  <2> HIDE DEF l
  <2> QED  BY <1>1, <1>h, Zenon
<1>4. lock[id] # NoEntity => LeaseOf(id) # NoEntity
    BY <1>2, <1>3, LeaseAssumption
<1>5. lock[id] = NoEntity => LeaseOf(id) = NoEntity
    BY DEF LeaseOf
<1> QED  BY <1>3, <1>4, <1>5

LEMMA TokenOfRequest ==
    ASSUME NEW r \in Requests
    PROVE  TokenOf(r) = IF r \in Known THEN lockId[r].lockCount ELSE 0
BY DEF TokenOf, Known, Breakers

\* A step of one request that writes at most the entities of one session.
Leases == [id \in Ids |-> LeaseOf(id)]

Tokens == [r \in Requests |-> TokenOf(r)]

LEMMA OneLease ==
    ASSUME NEW id \in Ids,
           \A i \in Ids \ {id} : lock'[i] = lock[i] /\ session'[i] = session[i]
    PROVE  Leases' = [Leases EXCEPT ![id] = LeaseOf(id)']
<1>1. \A i \in Ids \ {id} : LeaseOf(i)' = LeaseOf(i)
    BY DEF LeaseOf, IsLocked, Locked, Items, ReleaseCount
<1> QED  BY <1>1 DEF Leases

LEMMA OneToken ==
    ASSUME NEW r \in Requests, Others(r)
    PROVE  Tokens' = [Tokens EXCEPT ![r] = TokenOf(r)']
<1>1. \A q \in Requests \ {r} : TokenOf(q)' = TokenOf(q)
    BY DEF Others, TokenOf, Holders
<1> QED  BY <1>1 DEF Tokens

LEMMA InitLease == Init => Lease!Init
<1> SUFFICES ASSUME Init PROVE Lease!Init
    OBVIOUS
<1>1. \A id \in Ids : LeaseOf(id) \in {NoEntity, [number |-> 0, held |-> FALSE, items |-> {}]}
  <2> SUFFICES ASSUME NEW id \in Ids, lock[id] # NoEntity
               PROVE  LeaseOf(id) = [number |-> 0, held |-> FALSE, items |-> {}]
      BY DEF LeaseOf
  <2>1. lock[id] = NewLock(0) /\ session[id] = [items |-> {}, releaseCount |-> 0]
      BY DEF Init, RequestInit
  <2>2. TypeOK
      BY InitType
  <2>3. session[id] # NoEntity /\ ~(0 > 0)
      BY <2>1, NoEntityAssumption DEF SessionEntity
  <2>4. lock[id].lockCount = 0 /\ ReleaseCount(session[id]) = 0 /\ Items(session[id]) = {}
      BY <2>1, <2>3 DEF NewLock, ReleaseCount, Items
  <2> QED  BY <2>2, <2>3, <2>4, LeaseOfSession
<1>2. \A r \in Requests : TokenOf(r) = 0
    BY DEF Init, RequestInit, TokenOf, Holders
<1> QED  BY <1>1, <1>2 DEF Lease!Init

LEMMA StepIsLease ==
    ASSUME TypeOK, TypeOK', TargetOK, SessionInv, [Next]_vars
    PROVE  [Lease!Next]_(Lease!leaseVars)
<1> DEFINE Stutter == UNCHANGED <<Leases, Tokens>>
<1>t. /\ lock \in [Ids -> LockEntity \cup {NoEntity}]
      /\ session \in [Ids -> SessionEntity \cup {NoEntity}]
    BY DEF TypeOK, DatastoreTypeOK
<1>s. ASSUME Stutter PROVE [Lease!Next]_(Lease!leaseVars)
    BY <1>s DEF Leases, Tokens, Lease!leaseVars
<1>r. ASSUME NEW r \in Requests,
             \/ Lease!Create(r) \/ Lease!Take(r) \/ Lease!See(r) \/ Lease!GiveBack(r)
             \/ Lease!Remove(r) \/ Lease!Forget(r)
      PROVE  [Lease!Next]_(Lease!leaseVars)
    BY <1>r DEF Lease!Next
<1>e. ASSUME NEW id \in Ids, Lease!Expire(id)
      PROVE  [Lease!Next]_(Lease!leaseVars)
    BY <1>e DEF Lease!Next
\* What the steps below need of the session and the token of a request.
<1>v. ASSUME NEW r \in Requests
      PROVE  /\ SessionId[r] \in Ids
             /\ Leases[SessionId[r]] = LeaseOf(SessionId[r])
             /\ Tokens[r] = TokenOf(r)
             /\ TokenOf(r) = IF r \in Known THEN lockId[r].lockCount ELSE 0
             /\ TokenOf(r)' = IF r \in Known' THEN lockId'[r].lockCount ELSE 0
  <2>1. TokenOf(r)' = IF r \in Known' THEN lockId'[r].lockCount ELSE 0
      BY DEF TokenOf, Known, Breakers
  <2> QED  BY <2>1, StoreAssumption, TokenOfRequest DEF Leases, Tokens
<1>k. /\ Known \subseteq Requests /\ Known' \subseteq Requests
      /\ \A q \in Requests : pc[q] \in {"locking", "idle", "new"} => q \notin Known
      /\ \A q \in Requests : pc'[q] \in {"done", "poll", "locking"} => q \notin Known'
      /\ \A q \in Requests : pc[q] = "remove" => q \in Known
      /\ \A q \in Requests : pc'[q] \in {"own", "break"} => q \in Known'
      /\ \A q \in Requests : pc[q] = "poll" => q \notin Known
    BY DEF Known, Holders, Breakers
<1>n. ASSUME NEW id \in Ids
      PROVE  /\ lock'[id] # NoEntity =>
                  /\ lock'[id].lockCount > ReleaseCount(session'[id]) =>
                       LeaseOf(id)' = [number |-> lock'[id].lockCount, held |-> TRUE,
                                       items |-> Items(session'[id])]
                  /\ ~(lock'[id].lockCount > ReleaseCount(session'[id])) =>
                       LeaseOf(id)' = [number |-> lock'[id].lockCount, held |-> FALSE,
                                       items |-> Items(session'[id])]
             /\ lock'[id] = NoEntity => LeaseOf(id)' = NoEntity
  <2> DEFINE l(held) == [number |-> lock'[id].lockCount, held |-> held,
                         items |-> Items(session'[id])]
             taken == lock'[id].lockCount > ReleaseCount(session'[id])
  <2>1. lock'[id] # NoEntity => LeaseOf(id)' = l(IsLocked(id)')
      BY DEF LeaseOf, Items
  <2>2. lock'[id] # NoEntity => (taken => IsLocked(id)' = TRUE) /\ (~taken => IsLocked(id)' = FALSE)
      BY DEF IsLocked, Locked, ReleaseCount
  <2>3. lock'[id] # NoEntity => (taken => LeaseOf(id)' = l(TRUE))
                                /\ (~taken => LeaseOf(id)' = l(FALSE))
    <3> HIDE DEF l, taken
    <3> QED  BY <2>1, <2>2, Zenon
  <2>4. lock'[id] = NoEntity => LeaseOf(id)' = NoEntity
      BY DEF LeaseOf
  <2> QED  BY <2>3, <2>4
<1>1. ASSUME NEW r \in Requests, RequestStep(r)
      PROVE  [Lease!Next]_(Lease!leaseVars)
  <2> DEFINE id == SessionId[r]
             n == lockId[r].lockCount
  <2>t. /\ id \in Ids /\ n \in Nat /\ r \in Clients
        /\ lockId[r].items \in SUBSET Requests /\ items[r] \in SUBSET Requests
        /\ ReleaseCount(session[id]) \in Nat /\ Items(session[id]) \in SUBSET Requests
        /\ lock[id] # NoEntity => lock[id].lockCount \in Nat
      BY RequestTypes DEF Clients
  <2>o. Tokens' = [Tokens EXCEPT ![r] = TokenOf(r)']
      BY <1>1, RequestKinds, OneToken
  <2>l. lock[id] # NoEntity =>
          /\ LeaseOf(id) # NoEntity
          /\ lock[id].lockCount > ReleaseCount(session[id]) =>
               LeaseOf(id) = [number |-> lock[id].lockCount, held |-> TRUE,
                              items |-> Items(session[id])]
          /\ ~(lock[id].lockCount > ReleaseCount(session[id])) =>
               LeaseOf(id) = [number |-> lock[id].lockCount, held |-> FALSE,
                              items |-> Items(session[id])]
      BY <2>t, LeaseOfSession
  <2>1. CASE Looks(r)
    <3>1. Leases' = Leases
        BY <2>1 DEF Looks, Leases, LeaseOf, IsLocked, Locked, ReleaseCount, Items
    <3>2. CASE TokenOf(r)' = TokenOf(r)
        BY <1>s, <1>v, <2>o, <3>1, <3>2 DEF Tokens
    <3>3. CASE TokenOf(r)' = 0
      <4>1. Lease!Forget(r)
          BY <2>o, <3>1, <3>3 DEF Lease!Forget, Lease!Told, Leases, Tokens
      <4> QED  BY <1>r, <4>1
    <3>4. CASE /\ pc'[r] = "break" /\ lock[id] # NoEntity
               /\ Locked(lock[id], session[id])
               /\ lockId'[r].lockCount = lock[id].lockCount
      <4>1. TokenOf(r)' = LeaseOf(id).number /\ LeaseOf(id).held
          BY <1>k, <1>v, <2>l, <3>4 DEF Locked
      <4>2. Lease!See(r)
          BY <1>v, <2>l, <2>o, <3>1, <3>4, <4>1 DEF Lease!See, Lease!Told, Leases, Tokens
      <4> QED  BY <1>r, <4>2
    <3>5. \/ TokenOf(r)' = TokenOf(r) \/ TokenOf(r)' = 0
          \/ /\ pc'[r] = "break" /\ lock[id] # NoEntity
             /\ Locked(lock[id], session[id])
             /\ lockId'[r].lockCount = lock[id].lockCount
        BY <1>k, <1>v, <2>1 DEF Looks
    <3> QED  BY <3>2, <3>3, <3>4, <3>5
  <2>2. CASE Takes(r)
    <3>1. /\ lock[id] # NoEntity /\ ~Locked(lock[id], session[id])
          /\ lock[id].lockCount = ReleaseCount(session[id])
          /\ n = lock[id].lockCount + 1
          /\ lock'[id] = NewLock(n) /\ NewLock(n) # NoEntity
          /\ \A i \in Ids \ {id} : lock'[i] = lock[i]
        BY <2>2, TakenNext
    <3>2. session' = session /\ lock'[id].lockCount = n /\ n > ReleaseCount(session[id])
        BY <2>2, <2>t, <3>1 DEF Takes, NewLock
    <3>3. LeaseOf(id)' = [number |-> n, held |-> TRUE, items |-> Items(session[id])]
        BY <1>n, <2>t, <3>1, <3>2
    <3>4. Leases' = [Leases EXCEPT ![id] = LeaseOf(id)']
        BY <2>t, <3>1, <3>2, OneLease
    <3>5. TokenOf(r)' = n \/ UNCHANGED Tokens
      <4>1. CASE pc'[r] = "poll"
        <5>1. TokenOf(r)' = TokenOf(r)
            BY <1>k, <1>v, <2>2, <4>1 DEF Takes
        <5> QED  BY <1>v, <2>o, <5>1 DEF Tokens
      <4>2. CASE pc'[r] = "own" /\ lockId'[r] = lockId[r]
          BY <1>k, <1>v, <4>2
      <4> QED  BY <2>2, <4>1, <4>2 DEF Takes
    <3>6. LeaseOf(id) = [number |-> lock[id].lockCount, held |-> FALSE,
                         items |-> Items(session[id])]
        BY <2>l, <3>1 DEF Locked
    <3>8. LeaseOf(id).held = FALSE /\ LeaseOf(id).number + 1 = n
          /\ LeaseOf(id)' = [number |-> LeaseOf(id).number + 1, held |-> TRUE,
                             items |-> LeaseOf(id).items]
        BY <3>1, <3>3, <3>6
    <3>7. Lease!Take(r)
        BY <1>v, <2>l, <2>o, <3>1, <3>4, <3>5, <3>8 DEF Lease!Take, Lease!Told, Leases, Tokens
    <3> QED  BY <1>r, <3>7
  <2>3. CASE GivesBack(r)
    <3>1. PICK given \in {items[r] \cup {r}, lockId[r].items} :
            session'[id] = [items |-> given, releaseCount |-> n]
        BY <2>3, GivenBack
    <3>2. /\ r \in Known /\ pc'[r] \in {"done", "poll"} /\ HoldsCount(r)
          /\ session'[id] # NoEntity /\ lock' = lock
          /\ \A i \in Ids \ {id} : session'[i] = session[i]
        BY <2>3, GivenBack DEF GivesBack
    <3>3. lock[id] # NoEntity /\ lock[id].lockCount = n /\ ~(n > n)
        BY <2>t, <3>2 DEF HoldsCount
    <3>r. ReleaseCount(session'[id]) = n /\ Items(session'[id]) = given
        BY <3>1, <3>2 DEF ReleaseCount, Items
    <3>4. LeaseOf(id)' = [number |-> n, held |-> FALSE, items |-> given]
        BY <1>n, <2>t, <3>2, <3>3, <3>r
    <3>5. Leases' = [Leases EXCEPT ![id] = LeaseOf(id)']
        BY <2>t, <3>2, OneLease
    <3>6. TokenOf(r) = n /\ TokenOf(r)' = 0
        BY <1>k, <1>v, <3>2
    <3>7. LeaseOf(id) # NoEntity /\ LeaseOf(id).number = n
        BY <2>l, <3>3
    <3>8. Lease!KnowsNumber(r)
        BY <1>v, <3>6, <3>7 DEF Lease!KnowsNumber, Leases, Tokens
    <3>9. given \in SUBSET Requests
        BY <2>t, <3>1
    <3>10. Leases' = [Leases EXCEPT ![id] = [number |-> Tokens[r], held |-> FALSE,
                                             items |-> given]]
        BY <1>v, <3>4, <3>5, <3>6
    <3>11. Lease!GiveBack(r)
        BY <2>o, <3>6, <3>8, <3>9, <3>10 DEF Lease!GiveBack, Lease!Told, Leases, Tokens
    <3> QED  BY <1>r, <3>11
  <2>4. CASE Creates(r)
    <3>1. PICK S \in SessionEntity \cup {NoEntity} :
            /\ PutLock(id, NewLock(0)) /\ PutSession(id, S) /\ ReleaseCount(S) = 0
            /\ pc'[r] = "done"
        BY <2>4 DEF Creates
    <3>2. /\ lock'[id] = NewLock(0) /\ session'[id] = S
          /\ \A i \in Ids \ {id} : lock'[i] = lock[i] /\ session'[i] = session[i]
        BY <1>t, <2>t, <3>1 DEF PutLock, PutSession
    <3>3. NewLock(0) # NoEntity /\ NewLock(0).lockCount = 0 /\ ~(0 > 0)
        BY NewLockType, NoEntityAssumption DEF TypeOK, NewLock
    <3>4. LeaseOf(id)' = [number |-> 0, held |-> FALSE, items |-> Items(S)]
        BY <1>n, <2>t, <3>1, <3>2, <3>3
    <3>5. Leases' = [Leases EXCEPT ![id] = LeaseOf(id)']
        BY <2>t, <3>2, OneLease
    <3>6. TokenOf(r)' = 0 /\ Items(S) \in SUBSET Requests
        BY <1>k, <1>v, <3>1 DEF Items, SessionEntity
    <3>7. Lease!Create(r)
        BY <2>o, <3>4, <3>5, <3>6 DEF Lease!Create, Lease!Told, Leases, Tokens
    <3> QED  BY <1>r, <3>7
  <2>5. CASE Deletes(r, id) /\ CanCommit(r) /\ pc[r] = "remove" /\ pc'[r] = "done"
    <3>1. /\ lock'[id] = NoEntity
          /\ \A i \in Ids \ {id} : lock'[i] = lock[i] /\ session'[i] = session[i]
        BY <1>t, <2>t, <2>5 DEF Deletes, PutLock, PutSession
    <3>2. LeaseOf(id)' = NoEntity
        BY <1>n, <2>t, <3>1
    <3>3. Leases' = [Leases EXCEPT ![id] = LeaseOf(id)']
        BY <2>t, <3>1, OneLease
    <3>4. HoldsCount(r)
        BY <2>5 DEF CanCommit, SessionInv, LookupsStand
    <3>5. TokenOf(r) = n /\ TokenOf(r)' = 0
        BY <1>k, <1>v, <2>5
    <3>6. Lease!KnowsNumber(r)
        BY <1>v, <2>l, <3>4, <3>5 DEF HoldsCount, Lease!KnowsNumber, Leases, Tokens
    <3>7. Lease!Remove(r)
        BY <2>o, <3>2, <3>3, <3>5, <3>6 DEF Lease!Remove, Lease!Told, Leases, Tokens
    <3> QED  BY <1>r, <3>7
  <2> QED  BY <1>1, RequestKinds, <2>1, <2>2, <2>3, <2>4, <2>5
<1>2. ASSUME UNCHANGED <<lock, session, pc, lockId>>
      PROVE  [Lease!Next]_(Lease!leaseVars)
  <2>1. Stutter
      BY <1>2 DEF Leases, Tokens, LeaseOf, IsLocked, Locked, ReleaseCount, Items, TokenOf,
         Holders
  <2> QED  BY <1>s, <2>1
<1>3. ASSUME NEW w \in SweepTasks, SweepStep(w), UNCHANGED requestVars
      PROVE  [Lease!Next]_(Lease!leaseVars)
  <2>1. ASSUME NEW id \in Ids, Deletes(w, id), UNCHANGED <<pc, lockId>>
        PROVE  [Lease!Next]_(Lease!leaseVars)
    <3>1. /\ lock'[id] = NoEntity
          /\ \A i \in Ids \ {id} : lock'[i] = lock[i] /\ session'[i] = session[i]
        BY <1>t, <2>1 DEF Deletes, PutLock, PutSession
    <3>2. LeaseOf(id)' = NoEntity
        BY <1>n, <2>1, <3>1
    <3>3. Leases' = [Leases EXCEPT ![id] = LeaseOf(id)']
        BY <2>1, <3>1, OneLease
    <3>4. Tokens' = Tokens
        BY <2>1 DEF Tokens, TokenOf, Holders
    <3>5. CASE LeaseOf(id) = NoEntity
        BY <1>s, <2>1, <3>2, <3>3, <3>4, <3>5 DEF Leases
    <3>6. CASE LeaseOf(id) # NoEntity
      <4>1. Lease!Expire(id)
          BY <2>1, <3>2, <3>3, <3>4, <3>6 DEF Lease!Expire, Leases, Tokens
      <4> QED  BY <1>e, <2>1, <4>1
    <3> QED  BY <3>5, <3>6
  <2> QED  BY <1>2, <1>3, <2>1, SweepKinds
<1>4. CASE Tick \/ UNCHANGED vars
    BY <1>2, <1>4 DEF Tick, vars, storeVars, requestVars
<1> QED  BY <1>1, <1>3, <1>4 DEF Next

\* For any number of sessions, requests and sweep tasks: the two entities,
\* each written by commits of its own that saw a snapshot, behave as one
\* lease per session, taken when it is free and under the next number, and
\* given back or removed only by who knows the present number.
THEOREM StoreImplementsLease == Spec => ImplementsLease
<1>1. Init => Lease!Init
    BY InitLease
<1>2. TypeOK /\ TypeOK' /\ TargetOK /\ SessionInv /\ [Next]_vars
        => [Lease!Next]_(Lease!leaseVars)
    BY StepIsLease
<1> QED  BY <1>1, <1>2, TypeCorrect, TargetsAreIds, SessionSafety, PTL
         DEF Spec, ImplementsLease, Lease!Spec

=============================================================================
