------------------------- MODULE SessionStateProofs -------------------------
(***************************************************************************)
(* Proofs about SessionState for any number of sessions, requests and      *)
(* sweep tasks, and any timeouts.                                          *)
(***************************************************************************)
EXTENDS SessionState, TLAPS

-----------------------------------------------------------------------------
(* Type correctness.                                                       *)

\* Datastore transactions keep their type.
LEMMA TransactionTypes ==
    ASSUME DatastoreTypeOK, NEW c \in Clients, NEW id \in Ids,
           NEW kinds \in SUBSET Kinds
    PROVE  /\ Lookup(c, id, kinds) => tx' \in [Clients -> Transaction]
           /\ Rollback(c) => tx' \in [Clients -> Transaction]
           /\ Committed(c, id, kinds) => tx' \in [Clients -> Transaction]
<1> USE DEF DatastoreTypeOK, Transaction, NoTx
<1>1. Lookup(c, id, kinds) => tx' \in [Clients -> Transaction]
  BY DEF Lookup
<1>2. Rollback(c) => tx' \in [Clients -> Transaction]
  BY DEF Rollback
<1>3. Committed(c, id, kinds) => tx' \in [Clients -> Transaction]
  BY DEF Committed
<1>4. QED
  BY <1>1, <1>2, <1>3

\* A lock entity written now has the type of one.
LEMMA NewLockType ==
    ASSUME DatastoreTypeOK, NEW n \in Nat
    PROVE  NewLock(n) \in LockEntity
BY StoreAssumption DEF NewLock, LockEntity, DatastoreTypeOK

LEMMA InitType == Init => TypeOK
<1> SUFFICES ASSUME Init PROVE TypeOK
  OBVIOUS
<1> USE DEF Init, RequestInit, SweepInit
<1>1. now \in Nat
  OBVIOUS
<1>2. NewLock(0) \in LockEntity
  BY <1>1, StoreAssumption DEF NewLock, LockEntity
<1>3. DatastoreTypeOK
  <2>1. lock \in [Ids -> LockEntity \cup {NoEntity}]
    BY <1>2
  <2>2. session \in [Ids -> SessionEntity \cup {NoEntity}]
    BY DEF SessionEntity
  <2>3. tx \in [Clients -> Transaction]
    BY DEF NoTx, Transaction
  <2>4. QED
    BY <1>1, <2>1, <2>2, <2>3 DEF DatastoreTypeOK
<1>4. RequestTypeOK
  BY StoreAssumption DEF RequestTypeOK, PC, LockId, NoLockId
<1>5. SweepTypeOK
  BY DEF SweepTypeOK, TaskPC
<1>6. QED
  BY <1>3, <1>4, <1>5 DEF TypeOK

\* Every step of a request keeps the types.
LEMMA RequestType ==
    ASSUME TypeOK, NEW r \in Requests, RequestStep(r), UNCHANGED sweepVars
    PROVE  TypeOK'
<1> DEFINE id == SessionId[r]
<1>id. id \in Ids
  BY StoreAssumption
<1>c. r \in Clients
  BY DEF Clients
<1>0. lock[id] \in LockEntity \cup {NoEntity} /\ session[id] \in SessionEntity \cup {NoEntity}
  BY <1>id DEF TypeOK, DatastoreTypeOK
<1>s. ReleaseCount(session[id]) \in Nat /\ Items(session[id]) \in SUBSET Requests
  BY <1>0 DEF ReleaseCount, Items, SessionEntity
<1>l. lockId[r] \in LockId /\ items[r] \in SUBSET Requests
  BY DEF TypeOK, RequestTypeOK
<1>n. \A n \in Nat : NewLock(n) \in LockEntity
  BY NewLockType DEF TypeOK
<1>t. \A kinds \in SUBSET Kinds :
         /\ Lookup(r, id, kinds) => tx' \in [Clients -> Transaction]
         /\ Rollback(r) => tx' \in [Clients -> Transaction]
         /\ Committed(r, id, kinds) => tx' \in [Clients -> Transaction]
  BY <1>id, <1>c, TransactionTypes DEF TypeOK
<1>k. Kinds \in SUBSET Kinds /\ {"SessionLock"} \in SUBSET Kinds
         /\ {"Session"} \in SUBSET Kinds
  BY DEF Kinds
<1>w. SweepTypeOK'
  BY DEF TypeOK, SweepTypeOK, sweepVars
<1> HIDE DEF id
<1> USE DEF TypeOK, DatastoreTypeOK, RequestTypeOK, storeVars, Goto, PC
<1>1. CASE Start(r)
  BY <1>1, <1>w DEF Start
<1>2. CASE CreateUninitializedItem(r)
  <2>1. lock' \in [Ids -> LockEntity \cup {NoEntity}]
    BY <1>2, <1>n DEF CreateUninitializedItem, PutLock
  <2>2. session' \in [Ids -> SessionEntity \cup {NoEntity}]
    BY <1>2 DEF CreateUninitializedItem, PutSession
  <2>3. tx' \in [Clients -> Transaction]
    BY <1>2, <1>t, <1>k DEF CreateUninitializedItem, id
  <2>4. incarnation' \in [Ids -> Nat]
    BY <1>2, <1>id DEF CreateUninitializedItem, id
  <2>5. RequestTypeOK' /\ now' \in Nat
    BY <1>2, <2>4 DEF CreateUninitializedItem
  <2>6. QED
    BY <1>w, <2>1, <2>2, <2>3, <2>5
<1>3. CASE GetMissing(r)
  BY <1>3, <1>w DEF GetMissing
<1>4. CASE GetLocked(r)
  <2>1. lock[id].lockCount \in Nat
    BY <1>4, <1>0, NoEntityAssumption DEF GetLocked, Locked, NoSuchSession, LockEntity, id
  <2>2. [lockCount |-> lock[id].lockCount, items |-> Items(session[id]),
          incarnation |-> incarnation[id]] \in LockId
    BY <2>1, <1>s, <1>id DEF LockId
  <2>3. lockId' \in [Requests -> LockId]
    BY <1>4, <2>2 DEF GetLocked, id
  <2>4. QED
    BY <1>4, <1>w, <2>3 DEF GetLocked
<1>5. CASE GetShared(r)
  BY <1>5, <1>w, <1>s DEF GetShared, id
<1>6. CASE GetUnlocked(r)
  <2>1. [lockCount |-> ReleaseCount(session[id]) + 1, items |-> Items(session[id]),
          incarnation |-> incarnation[id]] \in LockId
    BY <1>s, <1>id DEF LockId
  <2>2. lockId' \in [Requests -> LockId]
    BY <1>6, <2>1 DEF GetUnlocked, id
  <2>3. tx' \in [Clients -> Transaction]
    BY <1>6, <1>t, <1>k DEF GetUnlocked, id
  <2>4. QED
    BY <1>6, <1>w, <2>2, <2>3 DEF GetUnlocked
<1>7. ASSUME WriteLock(r)
      PROVE  lock' \in [Ids -> LockEntity \cup {NoEntity}] /\ tx' \in [Clients -> Transaction]
  BY <1>7, <1>n, <1>l, <1>t, <1>k DEF WriteLock, PutLock, LockId, id
<1>8. CASE GetCommit(r)
  BY <1>8, <1>7, <1>w, <1>l DEF GetCommit, LockId
<1>9. CASE GetLostAck(r)
  <2>1. NoLockId \in LockId
    BY DEF NoLockId, LockId
  <2>2. lostAcks' \in 0..MaxLostAcks
    BY <1>9, StoreAssumption DEF GetLostAck
  <2>3. QED
    BY <1>9, <1>7, <1>w, <2>1, <2>2 DEF GetLostAck
<1>10. CASE GetAbort(r)
  <2>1. NoLockId \in LockId
    BY DEF NoLockId, LockId
  <2>2. QED
    BY <1>10, <1>t, <1>k, <1>w, <2>1 DEF GetAbort
<1>11. ASSUME NEW from, NEW to \in PC, NEW refused \in PC, CallStep(r, from, to, refused)
       PROVE  TypeOK'
  <2>1. tx' \in [Clients -> Transaction]
    BY <1>11, <1>t, <1>k DEF CallStep, id
  <2>2. QED
    BY <1>11, <1>w, <2>1 DEF CallStep
<1>12. CASE CallSetAndRelease(r) \/ CallRelease(r) \/ CallRemove(r) \/ CallBreak(r)
  BY <1>12, <1>11 DEF CallSetAndRelease, CallRelease, CallRemove, CallBreak
<1>13. ASSUME NEW s \in SUBSET Requests, WriteSession(r, s)
       PROVE  session' \in [Ids -> SessionEntity \cup {NoEntity}] /\ tx' \in [Clients -> Transaction]
  BY <1>13, <1>l, <1>t, <1>k DEF WriteSession, PutSession, SessionEntity, LockId, id
<1>14. CASE SetCommit(r)
  BY <1>14, <1>13, <1>l, <1>w DEF SetCommit
<1>15. CASE ReleaseCommit(r) \/ BreakCommit(r)
  BY <1>15, <1>13, <1>l, <1>w DEF ReleaseCommit, BreakCommit, LockId
<1>16. CASE RemoveCommit(r)
  BY <1>16, <1>t, <1>k, <1>w DEF RemoveCommit, PutLock, PutSession, id
<1>17. CASE SetNewItem(r)
  <2>1. [items |-> items[r] \cup {r}, releaseCount |-> 0] \in SessionEntity
    BY <1>l DEF SessionEntity
  <2>2. lock' \in [Ids -> LockEntity \cup {NoEntity}] /\ session' \in [Ids -> SessionEntity \cup {NoEntity}]
    BY <1>17, <1>n, <2>1 DEF SetNewItem, PutLock, PutSession
  <2>3. tx' \in [Clients -> Transaction]
    BY <1>17, <1>t, <1>k DEF SetNewItem, id
  <2>4. incarnation' \in [Ids -> Nat]
    BY <1>17, <1>id DEF SetNewItem, id
  <2>5. RequestTypeOK' /\ now' \in Nat
    BY <1>17, <2>4 DEF SetNewItem
  <2>6. QED
    BY <1>w, <2>2, <2>3, <2>5
<1>18. CASE Die(r)
  BY <1>18, <1>t, <1>k, <1>w DEF Die
<1>19. QED
  BY <1>1, <1>2, <1>3, <1>4, <1>5, <1>6, <1>8, <1>9, <1>10, <1>12, <1>14,
     <1>15, <1>16, <1>17, <1>18 DEF RequestStep, Get, Release

\* Every step of a sweep task keeps the types.
LEMMA SweepType ==
    ASSUME TypeOK, NEW w \in SweepTasks, SweepStep(w), UNCHANGED requestVars
    PROVE  TypeOK'
<1>c. w \in Clients
  BY DEF Clients
<1>t. \A id \in Ids, kinds \in SUBSET Kinds :
         /\ Lookup(w, id, kinds) => tx' \in [Clients -> Transaction]
         /\ Rollback(w) => tx' \in [Clients -> Transaction]
         /\ Committed(w, id, kinds) => tx' \in [Clients -> Transaction]
  BY <1>c, TransactionTypes DEF TypeOK
<1>k. Kinds \in SUBSET Kinds /\ {"SessionLock"} \in SUBSET Kinds
  BY DEF Kinds
<1>b. Rollback(w) => tx' \in [Clients -> Transaction]
  <2>1. NoTx \in Transaction
    BY DEF NoTx, Transaction
  <2>2. QED
    BY <2>1 DEF Rollback, TypeOK, DatastoreTypeOK
<1>r. RequestTypeOK'
  BY DEF TypeOK, RequestTypeOK, requestVars
<1> USE DEF TypeOK, DatastoreTypeOK, SweepTypeOK, storeVars, TaskGoto, TaskPC
<1>1. CASE Initialize(w)
  BY <1>1, <1>r DEF Initialize
<1>2. CASE CheckSweepLock(w)
  BY <1>2, <1>r DEF CheckSweepLock
<1>3. CASE AcquireSweepLock(w)
  BY <1>3, <1>r DEF AcquireSweepLock, WriteSweepLock
<1>4. CASE AcquireFails(w)
  BY <1>4, <1>r DEF AcquireFails, WriteSweepLock
<1>5. CASE QueryExpired(w)
  <2>1. {id \in Ids : lock[id] # NoEntity /\ lock[id].expirationDate < now} \in SUBSET Ids
    OBVIOUS
  <2>2. QED
    BY <1>5, <1>r, <2>1 DEF QueryExpired
<1>6. ASSUME NEW id \in Ids, SweepLookup(w, id)
      PROVE  TypeOK'
  <2>1. todo' \in [SweepTasks -> SUBSET Ids]
    BY <1>6 DEF SweepLookup
  <2>2. tx' \in [Clients -> Transaction]
    BY <1>6, <1>t, <1>k DEF SweepLookup
  <2>3. QED
    BY <1>6, <1>r, <2>1, <2>2 DEF SweepLookup
<1>7. CASE SweepDelete(w)
  <2>1. tx' \in [Clients -> Transaction]
    BY <1>7, <1>k DEF SweepDelete, Committed, Transaction, NoTx
  <2>2. QED
    BY <1>7, <1>r, <2>1 DEF SweepDelete, PutLock, PutSession
<1>8. CASE SweepDeleteFails(w)
  BY <1>8, <1>b, <1>r DEF SweepDeleteFails
<1>9. CASE SweepDone(w)
  BY <1>9, <1>r DEF SweepDone
<1>10. CASE SweepCrash(w)
  BY <1>10, <1>b, <1>r DEF SweepCrash
<1>11. QED
  BY <1>1, <1>2, <1>3, <1>4, <1>5, <1>6, <1>7, <1>8, <1>9, <1>10 DEF SweepStep

\* The variables of requests, sweep tasks and Datastore keep their types.
THEOREM TypeCorrect == Spec => []TypeOK
<1>1. Init => TypeOK
  BY InitType
<1>2. TypeOK /\ [Next]_vars => TypeOK'
  <2> SUFFICES ASSUME TypeOK, [Next]_vars PROVE TypeOK'
    OBVIOUS
  <2>1. CASE \E r \in Requests : RequestStep(r) /\ UNCHANGED sweepVars
    BY <2>1, RequestType
  <2>2. CASE \E w \in SweepTasks : SweepStep(w) /\ UNCHANGED requestVars
    BY <2>2, SweepType
  <2>3. CASE Tick
    BY <2>3 DEF Tick, TypeOK, DatastoreTypeOK, RequestTypeOK, SweepTypeOK,
                storeVars, requestVars, sweepVars
  <2>4. CASE UNCHANGED vars
    BY <2>4 DEF vars, TypeOK, DatastoreTypeOK, RequestTypeOK, SweepTypeOK
  <2>5. QED
    BY <2>1, <2>2, <2>3, <2>4 DEF Next
<1>3. QED
  BY <1>1, <1>2, PTL DEF Spec

-----------------------------------------------------------------------------
(* The two counts, and who holds a session.                                *)

\* A transaction that is open after a commit has looked up nothing of it.
LEMMA CommitInvalidates ==
    ASSUME DatastoreTypeOK, NEW c \in Clients, NEW id \in Ids,
           NEW kinds \in SUBSET Kinds, Committed(c, id, kinds),
           NEW k \in Clients, tx'[k].state = "open"
    PROVE  /\ k # c /\ tx'[k] = tx[k]
           /\ tx[k].id = id => tx[k].kinds \cap kinds = {}
BY DEF Committed, NoTx, DatastoreTypeOK, Transaction

LEMMA InitInv == Init => SessionInv
<1> SUFFICES ASSUME Init PROVE SessionInv
  OBVIOUS
<1> USE DEF Init, RequestInit
<1>1. CountsAgree
  <2> SUFFICES ASSUME NEW id \in Ids
               PROVE  IF lock[id] = NoEntity THEN session[id] = NoEntity
                      ELSE lock[id].lockCount - ReleaseCount(session[id]) \in {0, 1}
    BY DEF CountsAgree
  <2>1. CASE lock[id] = NoEntity
    BY <2>1
  <2>2. CASE lock[id] # NoEntity
    <3>1. lock[id].lockCount = 0
      BY <2>2 DEF NewLock
    <3>2. ReleaseCount(session[id]) = 0
      BY <2>2 DEF ReleaseCount
    <3>3. QED
      BY <2>2, <3>1, <3>2
  <2>3. QED
    BY <2>1, <2>2
<1>2. LookupsStand
  BY DEF LookupsStand, NoTx, Clients
<1>3. Holders = {}
  BY DEF Holders
<1>4. QED
  BY <1>1, <1>2, <1>3 DEF SessionInv, HoldersBehind, OneHolderPerCount

\* Steps of a request that write neither entity and create no session.  The
\* request holds its session afterwards only if it did before, and under
\* the same lock id; a transaction it has open afterwards stands.
LEMMA QuietStep ==
    ASSUME TypeOK, SessionInv, NEW r \in Requests,
           UNCHANGED <<lock, session, incarnation>>,
           \A q \in Requests \ {r} :
               pc'[q] = pc[q] /\ lockId'[q] = lockId[q] /\ tx'[q] = tx[q],
           r \in Holders' => r \in Holders /\ lockId'[r] = lockId[r],
           tx'[r].state = "open" =>
               \/ /\ pc'[r] \notin {"locking", "set", "release", "remove",
                                   "break", "breaking"}
               \/ /\ pc'[r] = "locking"
                  /\ tx'[r].id = SessionId[r] /\ tx'[r].kinds = Kinds
                  /\ lock[SessionId[r]] # NoEntity
                  /\ ~Locked(lock[SessionId[r]], session[SessionId[r]])
                  /\ lockId'[r].lockCount = ReleaseCount(session[SessionId[r]]) + 1
                  /\ lockId'[r].incarnation = incarnation[SessionId[r]]
               \/ /\ pc'[r] \in {"set", "release", "remove", "breaking"}
                  /\ tx'[r].id = SessionId[r] /\ tx'[r].kinds = {"SessionLock"}
                  /\ lock[SessionId[r]] # NoEntity
                  /\ lock[SessionId[r]].lockCount = lockId'[r].lockCount
               \/ pc'[r] = "break"
    PROVE  SessionInv'
<1>1. CountsAgree'
  BY DEF SessionInv, CountsAgree, ReleaseCount
<1>2. LookupsStand'
  <2> SUFFICES ASSUME NEW q \in Requests, tx'[q].state = "open"
               PROVE  LET id == SessionId[q] IN
                      /\ pc'[q] = "locking" =>
                           /\ tx'[q].id = id /\ tx'[q].kinds = Kinds
                           /\ lock[id] # NoEntity /\ ~Locked(lock[id], session[id])
                           /\ lockId'[q].lockCount = ReleaseCount(session[id]) + 1
                           /\ lockId'[q].incarnation = incarnation[id]
                      /\ pc'[q] \in {"set", "release", "remove", "breaking"} =>
                           /\ tx'[q].id = id /\ tx'[q].kinds = {"SessionLock"}
                           /\ lock[id] # NoEntity
                           /\ lock[id].lockCount = lockId'[q].lockCount
    BY DEF LookupsStand, SameSession, HoldsCount, Locked, ReleaseCount
  <2>1. CASE q # r
    BY <2>1 DEF SessionInv, LookupsStand, SameSession, HoldsCount
  <2>2. CASE q = r
    BY <2>2
  <2>3. QED
    BY <2>1, <2>2
<1>3. \A q \in Holders' : q \in Holders /\ lockId'[q] = lockId[q]
  BY DEF Holders
<1>4. HoldersBehind'
  BY <1>3 DEF SessionInv, HoldersBehind, SameSession, Holders
<1>5. OneHolderPerCount'
  BY <1>3 DEF SessionInv, OneHolderPerCount, Holders
<1>6. QED
  BY <1>1, <1>2, <1>4, <1>5 DEF SessionInv

\* The request writes its lock entity: the count it computed from the
\* release count is one more than any holder's.
LEMMA LockStep ==
    ASSUME TypeOK, SessionInv, NEW r \in Requests, pc[r] = "locking",
           WriteLock(r), UNCHANGED <<session, incarnation>>,
           \A q \in Requests \ {r} : pc'[q] = pc[q] /\ lockId'[q] = lockId[q],
           r \in Holders' => lockId'[r] = lockId[r]
    PROVE  SessionInv'
<1> DEFINE id == SessionId[r]
           n == lockId[r].lockCount
<1>id. id \in Ids /\ r \in Clients
  BY StoreAssumption DEF Clients
<1>t. TypeOK
  OBVIOUS
<1>n. n \in Nat
  BY DEF TypeOK, RequestTypeOK, LockId
<1>l. /\ lock[id] # NoEntity /\ ~Locked(lock[id], session[id])
      /\ n = ReleaseCount(session[id]) + 1
      /\ lockId[r].incarnation = incarnation[id]
  BY DEF SessionInv, LookupsStand, WriteLock, CanCommit, SameSession
<1>e. lock[id] \in LockEntity /\ lock[id].lockCount \in Nat
  BY <1>id, <1>l DEF TypeOK, DatastoreTypeOK, LockEntity
<1>s. ReleaseCount(session[id]) \in Nat
  BY <1>id DEF TypeOK, DatastoreTypeOK, SessionEntity, ReleaseCount
<1>c. lock[id].lockCount = ReleaseCount(session[id]) /\ n = lock[id].lockCount + 1
  BY <1>id, <1>l, <1>e, <1>s DEF SessionInv, CountsAgree, Locked
<1>w. NewLock(n) \in LockEntity /\ NewLock(n) # NoEntity /\ NewLock(n).lockCount = n
  BY <1>n, NewLockType, NoEntityAssumption DEF TypeOK, NewLock
<1>p. /\ lock'[id] = NewLock(n)
      /\ \A i \in Ids : i # id => lock'[i] = lock[i]
  BY <1>id DEF WriteLock, PutLock, TypeOK, DatastoreTypeOK
<1>x. Committed(r, id, {"SessionLock"})
  BY DEF WriteLock
<1>k. {"SessionLock"} \in SUBSET Kinds /\ "SessionLock" \in Kinds
  BY DEF Kinds
<1> HIDE DEF id, n
<1>1. CountsAgree'
  <2> SUFFICES ASSUME NEW i \in Ids
               PROVE  IF lock'[i] = NoEntity THEN session[i] = NoEntity
                      ELSE lock'[i].lockCount - ReleaseCount(session[i]) \in {0, 1}
    BY DEF CountsAgree, ReleaseCount
  <2>1. CASE i = id
    BY <2>1, <1>p, <1>w, <1>l, <1>s
  <2>2. CASE i # id
    BY <2>2, <1>p DEF SessionInv, CountsAgree
  <2>3. QED
    BY <2>1, <2>2
<1>2. LookupsStand'
  <2>1. ASSUME NEW q \in Requests, tx'[q].state = "open"
        PROVE  q # r /\ tx'[q] = tx[q] /\ (tx[q].id = id => tx[q].kinds \cap {"SessionLock"} = {})
    BY <2>1, <1>x, <1>k, <1>id, CommitInvalidates DEF TypeOK, Clients
  <2>2. ASSUME NEW q \in Requests, tx'[q].state = "open",
               pc'[q] \in {"locking", "set", "release", "remove", "breaking"}
        PROVE  SessionId[q] # id /\ SessionId[q] \in Ids
    BY <2>1, <2>2, <1>k, StoreAssumption DEF SessionInv, LookupsStand
  <2>3. ASSUME NEW q \in Requests, tx'[q].state = "open",
               pc'[q] \in {"locking", "set", "release", "remove", "breaking"}
        PROVE  lock'[SessionId[q]] = lock[SessionId[q]]
    BY <2>2, <2>3, <1>p
  <2>4. QED
    BY <2>1, <2>3 DEF SessionInv, LookupsStand, SameSession, HoldsCount, Locked, ReleaseCount
<1>3. \A q \in Holders' : lockId'[q] = lockId[q] /\ (q # r => q \in Holders)
  BY DEF Holders
<1>4. \A q \in Holders : lockId[q].lockCount \in Nat /\ lockId[q].incarnation \in Nat
                           /\ SessionId[q] \in Ids
  BY StoreAssumption DEF TypeOK, RequestTypeOK, LockId, Holders
<1>5. HoldersBehind'
  <2> SUFFICES ASSUME NEW q \in Holders'
               PROVE  /\ lockId[q].incarnation <= incarnation[SessionId[q]]
                      /\ /\ lockId[q].incarnation = incarnation[SessionId[q]]
                         /\ lock'[SessionId[q]] # NoEntity
                         => lockId[q].lockCount <= lock'[SessionId[q]].lockCount
    BY <1>3 DEF HoldersBehind, SameSession
  <2>1. CASE q = r
    <3>1. incarnation[id] \in Nat
      BY <1>id DEF TypeOK, RequestTypeOK
    <3>2. QED
      BY <2>1, <3>1, <1>l, <1>p, <1>w, <1>n DEF id, n
  <2>2. CASE q # r /\ SessionId[q] # id
    BY <2>2, <1>3, <1>4, <1>p DEF SessionInv, HoldersBehind, SameSession
  <2>3. CASE q # r /\ SessionId[q] = id
    BY <2>3, <1>3, <1>4, <1>p, <1>w, <1>c, <1>l, <1>e DEF SessionInv, HoldersBehind, SameSession
  <2>4. QED
    BY <2>1, <2>2, <2>3
<1>6. OneHolderPerCount'
  <2>1. ASSUME NEW q \in Holders, SessionId[q] = id,
               lockId[q].incarnation = lockId[r].incarnation
        PROVE  lockId[q].lockCount # n
    BY <2>1, <1>4, <1>l, <1>c, <1>e DEF SessionInv, HoldersBehind, SameSession
  <2>2. QED
    BY <2>1, <1>3 DEF SessionInv, OneHolderPerCount, id, n
<1>7. QED
  BY <1>1, <1>2, <1>5, <1>6 DEF SessionInv

\* The request writes its session entity and no longer holds the session.
LEMMA ReleaseStep ==
    ASSUME TypeOK, SessionInv, NEW r \in Requests,
           pc[r] \in {"set", "release", "breaking"},
           NEW s \in SUBSET Requests, WriteSession(r, s),
           UNCHANGED <<lock, incarnation, lockId>>,
           \A q \in Requests \ {r} : pc'[q] = pc[q],
           pc'[r] \in {"done", "poll"}
    PROVE  SessionInv'
<1> DEFINE id == SessionId[r]
           n == lockId[r].lockCount
<1>id. id \in Ids /\ r \in Clients
  BY StoreAssumption DEF Clients
<1>n. n \in Nat
  BY DEF TypeOK, RequestTypeOK, LockId
<1>l. lock[id] # NoEntity /\ lock[id].lockCount = n
  BY DEF SessionInv, LookupsStand, WriteSession, CanCommit, HoldsCount
<1>w. [items |-> s, releaseCount |-> n] # NoEntity
  BY <1>n, NoEntityAssumption DEF SessionEntity
<1>p. /\ session'[id] = [items |-> s, releaseCount |-> n]
      /\ \A i \in Ids : i # id => session'[i] = session[i]
  BY <1>id DEF WriteSession, PutSession, TypeOK, DatastoreTypeOK
<1>x. Committed(r, id, {"Session"})
  BY DEF WriteSession
<1>k. {"Session"} \in SUBSET Kinds /\ "Session" \in Kinds
  BY DEF Kinds
<1> HIDE DEF id, n
<1>1. CountsAgree'
  <2> SUFFICES ASSUME NEW i \in Ids
               PROVE  IF lock[i] = NoEntity THEN session'[i] = NoEntity
                      ELSE lock[i].lockCount - ReleaseCount(session'[i]) \in {0, 1}
    BY DEF CountsAgree, ReleaseCount
  <2>1. CASE i = id
    BY <2>1, <1>p, <1>w, <1>l, <1>n DEF ReleaseCount
  <2>2. CASE i # id
    BY <2>2, <1>p DEF SessionInv, CountsAgree, ReleaseCount
  <2>3. QED
    BY <2>1, <2>2
<1>2. LookupsStand'
  <2>1. ASSUME NEW q \in Requests, tx'[q].state = "open"
        PROVE  q # r /\ tx'[q] = tx[q] /\ (tx[q].id = id => tx[q].kinds \cap {"Session"} = {})
    BY <2>1, <1>x, <1>k, <1>id, CommitInvalidates DEF TypeOK, Clients
  <2>2. ASSUME NEW q \in Requests, tx'[q].state = "open", pc'[q] = "locking"
        PROVE  session'[SessionId[q]] = session[SessionId[q]]
    BY <2>1, <2>2, <1>k, <1>p, StoreAssumption DEF SessionInv, LookupsStand
  <2>3. QED
    BY <2>1, <2>2 DEF SessionInv, LookupsStand, SameSession, HoldsCount, Locked, ReleaseCount
<1>3. \A q \in Holders' : q \in Holders
  BY DEF Holders
<1>4. HoldersBehind' /\ OneHolderPerCount'
  BY <1>3 DEF SessionInv, HoldersBehind, OneHolderPerCount, SameSession
<1>5. QED
  BY <1>1, <1>2, <1>4 DEF SessionInv

\* A request or a sweep task writes both entities: the session is removed, or
\* created again with both counts zero.  No lookup of it stands.
LEMMA ResetStep ==
    ASSUME TypeOK, SessionInv, NEW c \in Clients, NEW id \in Ids,
           NEW L, NEW S, PutLock(id, L), PutSession(id, S),
           Committed(c, id, Kinds),
           \/ L = NoEntity /\ S = NoEntity /\ UNCHANGED incarnation
           \/ /\ L = NewLock(0) /\ ReleaseCount(S) = 0
              /\ incarnation' = [incarnation EXCEPT ![id] = @ + 1],
           UNCHANGED lockId,
           \A q \in Requests : q # c => pc'[q] = pc[q],
           c \in Requests => pc'[c] = "done"
    PROVE  SessionInv'
<1>w. NewLock(0) \in LockEntity /\ NewLock(0) # NoEntity /\ NewLock(0).lockCount = 0
  BY NewLockType, NoEntityAssumption DEF TypeOK, NewLock
<1>p. /\ lock'[id] = L /\ session'[id] = S
      /\ \A i \in Ids : i # id => lock'[i] = lock[i] /\ session'[i] = session[i]
                                /\ incarnation'[i] = incarnation[i]
  BY DEF PutLock, PutSession, TypeOK, DatastoreTypeOK, RequestTypeOK
<1>1. CountsAgree'
  <2> SUFFICES ASSUME NEW i \in Ids
               PROVE  IF lock'[i] = NoEntity THEN session'[i] = NoEntity
                      ELSE lock'[i].lockCount - ReleaseCount(session'[i]) \in {0, 1}
    BY DEF CountsAgree, ReleaseCount
  <2>1. CASE i = id
    BY <2>1, <1>p, <1>w
  <2>2. CASE i # id
    BY <2>2, <1>p DEF SessionInv, CountsAgree
  <2>3. QED
    BY <2>1, <2>2
<1>2. LookupsStand'
  <2>1. ASSUME NEW q \in Requests, tx'[q].state = "open"
        PROVE  q # c /\ tx'[q] = tx[q] /\ (tx[q].id = id => tx[q].kinds \cap Kinds = {})
    BY <2>1, CommitInvalidates DEF TypeOK, Clients
  <2>2. ASSUME NEW q \in Requests, tx'[q].state = "open",
               pc'[q] \in {"locking", "set", "release", "remove", "breaking"}
        PROVE  SessionId[q] # id /\ SessionId[q] \in Ids
    BY <2>1, <2>2, StoreAssumption DEF SessionInv, LookupsStand, Kinds
  <2>3. ASSUME NEW q \in Requests, tx'[q].state = "open",
               pc'[q] \in {"locking", "set", "release", "remove", "breaking"}
        PROVE  /\ lock'[SessionId[q]] = lock[SessionId[q]]
               /\ session'[SessionId[q]] = session[SessionId[q]]
               /\ incarnation'[SessionId[q]] = incarnation[SessionId[q]]
    BY <2>2, <2>3, <1>p
  <2>4. QED
    BY <2>1, <2>3 DEF SessionInv, LookupsStand, SameSession, HoldsCount, Locked, ReleaseCount
<1>3. \A q \in Holders' : q \in Holders
  BY DEF Holders
<1>4. HoldersBehind'
  <2> SUFFICES ASSUME NEW q \in Holders
               PROVE  /\ lockId[q].incarnation <= incarnation'[SessionId[q]]
                      /\ /\ lockId[q].incarnation = incarnation'[SessionId[q]]
                         /\ lock'[SessionId[q]] # NoEntity
                         => lockId[q].lockCount <= lock'[SessionId[q]].lockCount
    BY <1>3 DEF HoldersBehind, SameSession
  <2>1. SessionId[q] \in Ids /\ lockId[q].incarnation \in Nat /\ incarnation[id] \in Nat
    BY StoreAssumption DEF TypeOK, RequestTypeOK, LockId, Holders
  <2>2. lockId[q].incarnation <= incarnation[SessionId[q]]
    BY DEF SessionInv, HoldersBehind
  <2>3. CASE SessionId[q] # id
    BY <2>1, <2>3, <1>p DEF SessionInv, HoldersBehind, SameSession
  <2>4. CASE SessionId[q] = id /\ L = NoEntity /\ UNCHANGED incarnation
    BY <2>2, <2>4, <1>p
  <2>5. CASE SessionId[q] = id /\ incarnation' = [incarnation EXCEPT ![id] = @ + 1]
    <3>1. incarnation'[id] = incarnation[id] + 1
      BY <2>5 DEF TypeOK, RequestTypeOK
    <3>2. QED
      BY <2>1, <2>2, <2>5, <3>1
  <2>6. QED
    BY <2>3, <2>4, <2>5
<1>5. OneHolderPerCount'
  BY <1>3 DEF SessionInv, OneHolderPerCount
<1>6. QED
  BY <1>1, <1>2, <1>4, <1>5 DEF SessionInv

LEMMA RequestInv ==
    ASSUME TypeOK, SessionInv, NEW r \in Requests, RequestStep(r)
    PROVE  SessionInv'
<1>id. SessionId[r] \in Ids /\ r \in Clients
  BY StoreAssumption DEF Clients
<1> USE DEF storeVars, Goto
<1>t. /\ pc \in [Requests -> PC] /\ lockId \in [Requests -> LockId]
      /\ tx \in [Clients -> Transaction] /\ Requests \subseteq Clients
  BY DEF TypeOK, RequestTypeOK, DatastoreTypeOK, Clients
<1>h. \A q \in Requests : q \in Holders <=> pc[q] \in {"own", "set", "release", "remove"}
  BY DEF Holders
<1>hp. \A q \in Requests : q \in Holders' <=> pc'[q] \in {"own", "set", "release", "remove"}
  BY DEF Holders
<1>n. /\ Rollback(r) => /\ tx'[r].state = "none"
                        /\ \A q \in Requests \ {r} : tx'[q] = tx[q]
      /\ \A kinds \in SUBSET Kinds : Lookup(r, SessionId[r], kinds) =>
           /\ tx'[r].id = SessionId[r] /\ tx'[r].kinds = kinds
           /\ \A q \in Requests \ {r} : tx'[q] = tx[q]
  BY <1>t DEF Rollback, Lookup, NoTx
<1>k. Kinds \in SUBSET Kinds /\ {"SessionLock"} \in SUBSET Kinds
  BY DEF Kinds
<1>1. CASE Start(r) \/ GetMissing(r) \/ GetShared(r)
  <2>1. /\ UNCHANGED <<lock, session, incarnation, tx, lockId>>
        /\ \A q \in Requests \ {r} : pc'[q] = pc[q]
        /\ pc'[r] \in {"poll", "done", "new"}
    BY <1>1, <1>t DEF Start, GetMissing, GetShared
  <2>2. QED
    BY <2>1, <1>hp, QuietStep
<1>2. CASE GetLocked(r)
  <2>1. /\ UNCHANGED <<lock, session, incarnation, tx>>
        /\ \A q \in Requests \ {r} : pc'[q] = pc[q] /\ lockId'[q] = lockId[q]
        /\ pc'[r] = "break"
    BY <1>2, <1>t DEF GetLocked
  <2>2. QED
    BY <2>1, <1>hp, QuietStep
<1>3. CASE GetUnlocked(r)
  <2>1. /\ UNCHANGED <<lock, session, incarnation>>
        /\ \A q \in Requests \ {r} : pc'[q] = pc[q] /\ lockId'[q] = lockId[q] /\ tx'[q] = tx[q]
        /\ pc'[r] = "locking"
        /\ tx'[r].id = SessionId[r] /\ tx'[r].kinds = Kinds
        /\ ~NoSuchSession(lock[SessionId[r]])
        /\ ~Locked(lock[SessionId[r]], session[SessionId[r]])
        /\ lockId'[r].lockCount = ReleaseCount(session[SessionId[r]]) + 1
        /\ lockId'[r].incarnation = incarnation[SessionId[r]]
    BY <1>3, <1>t, <1>n, <1>k DEF GetUnlocked
  <2>2. lock[SessionId[r]] # NoEntity
    BY <2>1 DEF NoSuchSession
  <2>3. QED
    BY <2>1, <2>2, <1>hp, QuietStep
<1>4. CASE GetAbort(r)
  <2>1. /\ UNCHANGED <<lock, session, incarnation>>
        /\ \A q \in Requests \ {r} : pc'[q] = pc[q] /\ lockId'[q] = lockId[q] /\ tx'[q] = tx[q]
        /\ pc'[r] = "poll" /\ tx'[r].state = "none"
    BY <1>4, <1>t, <1>n DEF GetAbort
  <2>2. QED
    BY <2>1, <1>hp, QuietStep
<1>5. CASE Die(r)
  <2>1. /\ UNCHANGED <<lock, session, incarnation, lockId>>
        /\ \A q \in Requests \ {r} : pc'[q] = pc[q] /\ tx'[q] = tx[q]
        /\ pc'[r] = "done" /\ tx'[r].state = "none"
    BY <1>5, <1>t, <1>n DEF Die
  <2>2. QED
    BY <2>1, <1>hp, QuietStep
<1>6. ASSUME NEW from, NEW to, NEW refused, CallStep(r, from, to, refused),
             \/ from = "own" /\ to \in {"set", "release", "remove"} /\ refused = "done"
             \/ from = "break" /\ to = "breaking" /\ refused = "poll"
      PROVE  SessionInv'
  <2>1. /\ UNCHANGED <<lock, session, incarnation, lockId>>
        /\ \A q \in Requests \ {r} : pc'[q] = pc[q] /\ tx'[q] = tx[q]
        /\ pc[r] = from
    BY <1>6, <1>t, <1>n, <1>k DEF CallStep
  <2>2. CASE HoldsCount(r)
    <3>1. /\ pc'[r] = to /\ tx'[r].id = SessionId[r] /\ tx'[r].kinds = {"SessionLock"}
      BY <1>6, <2>2, <1>t, <1>n, <1>k DEF CallStep
    <3>2. /\ lock[SessionId[r]] # NoEntity
          /\ lock[SessionId[r]].lockCount = lockId'[r].lockCount
      BY <2>1, <2>2 DEF HoldsCount
    <3>3. QED
      BY <1>6, <2>1, <3>1, <3>2, <1>h, <1>hp, QuietStep
  <2>3. CASE ~HoldsCount(r)
    <3>1. pc'[r] \in {"done", "poll"} /\ tx' = tx
      BY <1>6, <2>3, <1>t DEF CallStep
    <3>2. QED
      BY <2>1, <3>1, <1>hp, QuietStep
  <2>4. QED
    BY <2>2, <2>3
<1>7. CASE CallSetAndRelease(r) \/ CallRelease(r) \/ CallRemove(r) \/ CallBreak(r)
  BY <1>6, <1>7 DEF CallSetAndRelease, CallRelease, CallRemove, CallBreak
<1>8. CASE GetCommit(r) \/ GetLostAck(r)
  <2>1. /\ pc[r] = "locking" /\ WriteLock(r) /\ UNCHANGED <<session, incarnation>>
        /\ \A q \in Requests \ {r} : pc'[q] = pc[q] /\ lockId'[q] = lockId[q]
        /\ \/ lockId'[r] = lockId[r]
           \/ pc'[r] = "poll"
    BY <1>8, <1>t DEF GetCommit, GetLostAck
  <2>2. QED
    BY <2>1, <1>hp, LockStep
<1>9. CASE SetCommit(r) \/ ReleaseCommit(r) \/ BreakCommit(r)
  <2>1. /\ pc[r] \in {"set", "release", "breaking"}
        /\ \E s \in SUBSET Requests : WriteSession(r, s)
        /\ UNCHANGED <<lock, incarnation, lockId>>
        /\ \A q \in Requests \ {r} : pc'[q] = pc[q]
        /\ pc'[r] \in {"done", "poll"}
    <3>1. /\ items[r] \cup {r} \in SUBSET Requests
          /\ lockId[r].items \in SUBSET Requests
      BY DEF TypeOK, RequestTypeOK, LockId
    <3>2. QED
      BY <1>9, <1>t, <3>1 DEF SetCommit, ReleaseCommit, BreakCommit
  <2>2. QED
    BY <2>1, ReleaseStep
<1>10. CASE RemoveCommit(r)
  <2>1. /\ PutLock(SessionId[r], NoEntity) /\ PutSession(SessionId[r], NoEntity)
        /\ Committed(r, SessionId[r], Kinds) /\ UNCHANGED <<lockId, incarnation>>
        /\ \A q \in Requests : q # r => pc'[q] = pc[q]
        /\ pc'[r] = "done"
    BY <1>10, <1>t DEF RemoveCommit
  <2>2. QED
    BY <2>1, <1>id, ResetStep
<1>11. CASE SetNewItem(r) \/ CreateUninitializedItem(r)
  <2>1. PICK S : /\ PutLock(SessionId[r], NewLock(0)) /\ PutSession(SessionId[r], S)
                 /\ S = NoEntity \/ S = [items |-> items[r] \cup {r}, releaseCount |-> 0]
                 /\ Committed(r, SessionId[r], Kinds) /\ UNCHANGED lockId
                 /\ incarnation' = [incarnation EXCEPT ![SessionId[r]] = @ + 1]
                 /\ \A q \in Requests : q # r => pc'[q] = pc[q]
                 /\ pc'[r] = "done"
    BY <1>11, <1>t DEF SetNewItem, CreateUninitializedItem
  <2>2. ReleaseCount(S) = 0
    BY <2>1 DEF ReleaseCount
  <2>3. QED
    BY <2>1, <2>2, <1>id, ResetStep
<1>12. QED
  BY <1>1, <1>2, <1>3, <1>4, <1>5, <1>7, <1>8, <1>9, <1>10, <1>11
     DEF RequestStep, Get, Release

LEMMA SweepInv ==
    ASSUME TypeOK, SessionInv, NEW w \in SweepTasks, SweepStep(w),
           UNCHANGED requestVars, task[w] = "delete" => target[w] \in Ids
    PROVE  SessionInv'
<1>w. w \in Clients /\ w \notin Requests
  BY ClientsAssumption DEF Clients
<1>t. tx \in [Clients -> Transaction] /\ Requests \subseteq Clients
  BY DEF TypeOK, DatastoreTypeOK, Clients
<1>1. CASE SweepDelete(w)
  BY <1>1, <1>w, ResetStep DEF SweepDelete, requestVars
<1>2. ASSUME UNCHANGED <<lock, session>>,
             \A q \in Requests : tx'[q] = tx[q]
      PROVE  SessionInv'
  BY <1>2 DEF SessionInv, CountsAgree, LookupsStand, HoldersBehind, OneHolderPerCount,
              Holders, SameSession, HoldsCount, Locked, ReleaseCount, requestVars
<1>3. CASE \/ Initialize(w) \/ CheckSweepLock(w) \/ AcquireSweepLock(w)
           \/ AcquireFails(w) \/ QueryExpired(w) \/ SweepDone(w)
  BY <1>2, <1>3 DEF Initialize, CheckSweepLock, AcquireSweepLock, AcquireFails,
                    QueryExpired, SweepDone, storeVars
<1>4. CASE \/ SweepDeleteFails(w) \/ SweepCrash(w)
           \/ \E id \in Ids : SweepLookup(w, id)
  BY <1>2, <1>4, <1>w, <1>t DEF SweepDeleteFails, SweepCrash, SweepLookup, Rollback,
                                Lookup, storeVars
<1>5. QED
  BY <1>1, <1>3, <1>4 DEF SweepStep

\* A sweep task deletes only under a session id.
TargetOK == \A w \in SweepTasks : task[w] = "delete" => target[w] \in Ids

LEMMA TargetsAreIds == Spec => []TargetOK
<1>1. Init => TargetOK
  BY DEF Init, SweepInit, TargetOK
<1>2. TypeOK /\ TargetOK /\ [Next]_vars => TargetOK'
  <2> SUFFICES ASSUME TypeOK, TargetOK, [Next]_vars PROVE TargetOK'
    OBVIOUS
  <2>1. CASE UNCHANGED sweepVars
    BY <2>1 DEF TargetOK, sweepVars
  <2>2. ASSUME NEW w \in SweepTasks, SweepStep(w)
        PROVE  TargetOK'
    <3>t. task \in [SweepTasks -> TaskPC] /\ target \in [SweepTasks -> Ids \cup {NoEntity}]
      BY DEF TypeOK, SweepTypeOK
    <3> USE DEF TargetOK, TaskGoto
    <3>1. CASE \/ Initialize(w) \/ CheckSweepLock(w) \/ AcquireSweepLock(w)
               \/ AcquireFails(w) \/ QueryExpired(w) \/ SweepDone(w)
      BY <3>1, <3>t DEF Initialize, CheckSweepLock, AcquireSweepLock, AcquireFails,
                        QueryExpired, SweepDone
    <3>2. CASE SweepDelete(w) \/ SweepDeleteFails(w) \/ SweepCrash(w)
      BY <3>2, <3>t DEF SweepDelete, SweepDeleteFails, SweepCrash
    <3>3. CASE \E id \in Ids : SweepLookup(w, id)
      BY <3>3, <3>t DEF SweepLookup
    <3>4. QED
      BY <2>2, <3>1, <3>2, <3>3 DEF SweepStep
  <2>3. QED
    BY <2>1, <2>2 DEF Next, Tick, vars, sweepVars
<1>3. QED
  BY <1>1, <1>2, TypeCorrect, PTL DEF Spec

\* The inductive invariant about the two entities of a session, the open
\* transactions of the requests and the lock ids of those that hold it.
THEOREM SessionSafety == Spec => []SessionInv
<1>1. Init => SessionInv
  BY InitInv
<1>2. TypeOK /\ TargetOK /\ SessionInv /\ [Next]_vars => SessionInv'
  <2> SUFFICES ASSUME TypeOK, TargetOK, SessionInv, [Next]_vars PROVE SessionInv'
    OBVIOUS
  <2>1. CASE \E r \in Requests : RequestStep(r) /\ UNCHANGED sweepVars
    BY <2>1, RequestInv
  <2>2. CASE \E w \in SweepTasks : SweepStep(w) /\ UNCHANGED requestVars
    BY <2>2, SweepInv DEF TargetOK
  <2>3. CASE Tick \/ UNCHANGED vars
    BY <2>3 DEF Tick, vars, storeVars, requestVars, SessionInv, CountsAgree, LookupsStand,
                HoldersBehind, OneHolderPerCount, Holders, SameSession, HoldsCount,
                Locked, ReleaseCount
  <2>4. QED
    BY <2>1, <2>2, <2>3 DEF Next
<1>3. QED
  BY <1>1, <1>2, TypeCorrect, TargetsAreIds, PTL DEF Spec

\* The release count of every session is its lock count or one behind it,
\* and no Session entity is left without its SessionLock.
THEOREM CountsAlwaysAgree == Spec => []CountsAgree
<1>1. SessionInv => CountsAgree
  BY DEF SessionInv
<1>2. QED
  BY <1>1, SessionSafety, PTL

\* No two requests ever hold a session under the same count.
THEOREM HoldersAreDistinct == Spec => []OneHolderPerCount
<1>1. SessionInv => OneHolderPerCount
  BY DEF SessionInv
<1>2. QED
  BY <1>1, SessionSafety, PTL

=============================================================================
