---------------------------- MODULE SessionStore ----------------------------
(***************************************************************************)
(* DatastoreSessionStateStoreProvider: the calls one ASP.NET request makes *)
(* to take, use and give back its session.  The order of the calls is that *)
(* of ASP.NET's SessionStateModule, which is external: poll                *)
(* GetItemExclusive until it returns the session, break a lock that has    *)
(* outlived the execution timeout with ReleaseItemExclusive, and finish    *)
(* with SetAndReleaseItemExclusive, ReleaseItemExclusive or RemoveItem.    *)
(***************************************************************************)
EXTENDS SessionDatastore

CONSTANTS
    ReadOnly,          \* requests of pages that only read their session
    SessionId,         \* SessionId[r]: the id in the cookie of request r
    Timeout,           \* session timeout (TimeOutInMinutes)
    ExecutionTimeout,  \* lock age after which ASP.NET breaks a lock
    MaxLostAcks        \* bound: commits of a lock whose answer is lost

ASSUME StoreAssumption ==
    /\ ReadOnly \subseteq Requests
    /\ SessionId \in [Requests -> Ids]
    /\ Timeout \in Nat \ {0}   \* ASP.NET accepts no other
    /\ ExecutionTimeout \in Nat \ {0}
    /\ MaxLostAcks \in Nat

VARIABLES
    pc,           \* pc[r]: where request r is
    lockId,       \* lockId[r]: the lock id object GetItemImpl gave request r
    items,        \* items[r]: the session items request r works on
    lostAcks,     \* commits so far whose answer was lost
    incarnation   \* ghost: how often the session of an id was created

requestVars == <<pc, lockId, items, lostAcks, incarnation>>

\* lockId.Items and lockId.LockCount; the incarnation is a ghost.
LockId == [lockCount : Nat, items : SUBSET Requests, incarnation : Nat]

NoLockId == [lockCount |-> 0, items |-> {}, incarnation |-> 0]

PC == {"idle", "poll", "locking", "own", "new", "set", "release", "remove",
       "break", "breaking", "done"}

RequestTypeOK ==
    /\ pc \in [Requests -> PC]
    /\ lockId \in [Requests -> LockId]
    /\ items \in [Requests -> SUBSET Requests]
    /\ lostAcks \in 0..MaxLostAcks
    /\ incarnation \in [Ids -> Nat]

-----------------------------------------------------------------------------
(* What the two entities of a session mean together.                       *)

\* SessionFromEntity: a missing Session entity reads as an empty one.
ReleaseCount(s) == IF s = NoEntity THEN 0 ELSE s.releaseCount

Items(s) == IF s = NoEntity THEN {} ELSE s.items

NoSuchSession(l) == l # NoEntity => l.expirationDate < now

Locked(l, s) == l.lockCount > ReleaseCount(s)

NewLock(count) ==
    [lockCount |-> count, dateLocked |-> now, expirationDate |-> now + Timeout]

Goto(r, to) == pc' = [pc EXCEPT ![r] = to]

-----------------------------------------------------------------------------
(* The request arrives.                                                    *)

Start(r) ==
    /\ pc[r] = "idle"
    /\ Goto(r, "poll")
    /\ UNCHANGED <<storeVars, tx, now, lockId, items, lostAcks, incarnation>>

\* A session id the module has just made up, before any request carries it.
CreateUninitializedItem(r) ==
    LET id == SessionId[r] IN
    /\ pc[r] = "idle"
    /\ incarnation[id] = 0
    /\ \A q \in Requests : SessionId[q] = id => pc[q] = "idle"
    /\ PutLock(id, NewLock(0))
    /\ PutSession(id, NoEntity)
    /\ Committed(r, id, Kinds)
    /\ incarnation' = [incarnation EXCEPT ![id] = @ + 1]
    /\ Goto(r, "done")
    /\ UNCHANGED <<now, lockId, items, lostAcks>>

-----------------------------------------------------------------------------
(* GetItemImpl.  A poll that fails, or finds a lock younger than the       *)
(* execution timeout, changes nothing: the module polls again.             *)

\* No such session: a request that writes gets a new, empty collection.
GetMissing(r) ==
    /\ pc[r] = "poll"
    /\ NoSuchSession(lock[SessionId[r]])
    /\ Goto(r, IF r \in ReadOnly THEN "done" ELSE "new")
    /\ items' = [items EXCEPT ![r] = {}]
    /\ UNCHANGED <<storeVars, tx, now, lockId, lostAcks, incarnation>>

\* Variant with a defect: the lock's age is not looked at.
GetLocked_AnyAge(r) ==
    LET l == lock[SessionId[r]]
        s == session[SessionId[r]] IN
    /\ pc[r] = "poll"
    /\ ~NoSuchSession(l)
    /\ Locked(l, s)
    /\ lockId' = [lockId EXCEPT ![r] =
                    [lockCount |-> l.lockCount, items |-> Items(s),
                     incarnation |-> incarnation[SessionId[r]]]]
    /\ Goto(r, "break")
    /\ UNCHANGED <<storeVars, tx, now, items, lostAcks, incarnation>>

\* Locked, and for so long that the module decides to break the lock.
GetLocked(r) ==
    LET l == lock[SessionId[r]]
        s == session[SessionId[r]] IN
    /\ pc[r] = "poll"
    /\ ~NoSuchSession(l)
    /\ Locked(l, s)
    /\ now - l.dateLocked >= ExecutionTimeout
    /\ lockId' = [lockId EXCEPT ![r] =
                    [lockCount |-> l.lockCount, items |-> Items(s),
                     incarnation |-> incarnation[SessionId[r]]]]
    /\ Goto(r, "break")
    /\ UNCHANGED <<storeVars, tx, now, items, lostAcks, incarnation>>

\* GetItem: a page that only reads takes no lock and extends no timeout.
GetShared(r) ==
    LET l == lock[SessionId[r]]
        s == session[SessionId[r]] IN
    /\ pc[r] = "poll"
    /\ r \in ReadOnly
    /\ ~NoSuchSession(l)
    /\ ~Locked(l, s)
    /\ items' = [items EXCEPT ![r] = Items(s)]
    /\ Goto(r, "done")
    /\ UNCHANGED <<storeVars, tx, now, lockId, lostAcks, incarnation>>

\* Variant with a defect: only the Session entity is looked up in the
\* transaction, so two requests can lock from the same snapshot.
GetUnlocked_OneKey(r) ==
    LET id == SessionId[r]
        s  == session[id] IN
    /\ pc[r] = "poll"
    /\ r \notin ReadOnly
    /\ ~NoSuchSession(lock[id])
    /\ ~Locked(lock[id], s)
    /\ Lookup(r, id, {"Session"})
    /\ lockId' = [lockId EXCEPT ![r] =
                    [lockCount |-> ReleaseCount(s) + 1, items |-> Items(s),
                     incarnation |-> incarnation[id]]]
    /\ Goto(r, "locking")
    /\ UNCHANGED <<storeVars, now, items, lostAcks, incarnation>>

\* GetItemExclusive, up to the Commit: the lock count to write is computed
\* from the release count of the snapshot.
GetUnlocked(r) ==
    LET id == SessionId[r]
        s  == session[id] IN
    /\ pc[r] = "poll"
    /\ r \notin ReadOnly
    /\ ~NoSuchSession(lock[id])
    /\ ~Locked(lock[id], s)
    /\ Lookup(r, id, Kinds)
    /\ lockId' = [lockId EXCEPT ![r] =
                    [lockCount |-> ReleaseCount(s) + 1, items |-> Items(s),
                     incarnation |-> incarnation[id]]]
    /\ Goto(r, "locking")
    /\ UNCHANGED <<storeVars, now, items, lostAcks, incarnation>>

WriteLock(r) ==
    /\ CanCommit(r)
    /\ PutLock(SessionId[r], NewLock(lockId[r].lockCount))
    /\ Committed(r, SessionId[r], {"SessionLock"})

GetCommit(r) ==
    /\ pc[r] = "locking"
    /\ WriteLock(r)
    /\ items' = [items EXCEPT ![r] = lockId[r].items]
    /\ Goto(r, "own")
    /\ UNCHANGED <<session, now, lockId, lostAcks, incarnation>>

\* The commit is applied and its answer lost: the catch block reports
\* locked, with a lock id that is no SessionLockEntity.
GetLostAck(r) ==
    /\ pc[r] = "locking"
    /\ lostAcks < MaxLostAcks
    /\ lostAcks' = lostAcks + 1
    /\ WriteLock(r)
    /\ lockId' = [lockId EXCEPT ![r] = NoLockId]
    /\ Goto(r, "poll")
    /\ UNCHANGED <<session, now, items, incarnation>>

\* Variant with a defect: the lock id is left null.
GetAbort_NullLockId(r) ==
    /\ pc[r] = "locking"
    /\ Rollback(r)
    /\ lockId' = [lockId EXCEPT ![r] = NoEntity]
    /\ Goto(r, "poll")
    /\ UNCHANGED <<storeVars, now, items, lostAcks, incarnation>>

\* The commit fails, because of a conflict or of any other error.
GetAbort(r) ==
    /\ pc[r] = "locking"
    /\ Rollback(r)
    /\ lockId' = [lockId EXCEPT ![r] = NoLockId]
    /\ Goto(r, "poll")
    /\ UNCHANGED <<storeVars, now, items, lostAcks, incarnation>>

-----------------------------------------------------------------------------
(* Giving the session back.  All three calls look up the SessionLock       *)
(* entity and do nothing when its count is not the one of their lock id.   *)

\* Variant with a defect: any SessionLock entity will do.
HoldsCount_AnyCount(r) == lock[SessionId[r]] # NoEntity

HoldsCount(r) ==
    LET l == lock[SessionId[r]] IN
    l # NoEntity /\ l.lockCount = lockId[r].lockCount

\* Variant with a defect: the SessionLock is looked up before the
\* transaction begins.
CallStep_NoTransaction(r, from, to, refused) ==
    /\ pc[r] = from
    /\ \/ /\ HoldsCount(r)
          /\ Lookup(r, SessionId[r], {})
          /\ Goto(r, to)
       \/ /\ ~HoldsCount(r)
          /\ Goto(r, refused)
          /\ UNCHANGED tx
    /\ UNCHANGED <<storeVars, now, lockId, items, lostAcks, incarnation>>

\* The request ends with the call that will write as the given pc says.
\* ASP.NET breaks a lock with the same call and then polls again.
CallStep(r, from, to, refused) ==
    /\ pc[r] = from
    /\ \/ /\ HoldsCount(r)
          /\ Lookup(r, SessionId[r], {"SessionLock"})
          /\ Goto(r, to)
       \/ /\ ~HoldsCount(r)   \* Something else locked it in the meantime.
          /\ Goto(r, refused)
          /\ UNCHANGED tx
    /\ UNCHANGED <<storeVars, now, lockId, items, lostAcks, incarnation>>

CallSetAndRelease(r) == CallStep(r, "own", "set", "done")

CallRelease(r) == CallStep(r, "own", "release", "done")

CallRemove(r) == CallStep(r, "own", "remove", "done")

CallBreak(r) == CallStep(r, "break", "breaking", "poll")

\* Variant with a defect: the release count stays one behind.
WriteSession_OneBehind(r, newItems) ==
    /\ CanCommit(r)
    /\ PutSession(SessionId[r],
                  [items |-> newItems,
                   releaseCount |-> lockId[r].lockCount - 1])
    /\ Committed(r, SessionId[r], {"Session"})

\* Only the Session entity is written: the release count catches up.
WriteSession(r, newItems) ==
    /\ CanCommit(r)
    /\ PutSession(SessionId[r],
                  [items |-> newItems, releaseCount |-> lockId[r].lockCount])
    /\ Committed(r, SessionId[r], {"Session"})

\* SetAndReleaseItemExclusive with dirty items.  With clean items it writes
\* lockId.Items, which is what ReleaseItemExclusive does.
SetCommit(r) ==
    /\ pc[r] = "set"
    /\ WriteSession(r, items[r] \cup {r})
    /\ Goto(r, "done")
    /\ UNCHANGED <<lock, now, lockId, items, lostAcks, incarnation>>

ReleaseCommit(r) ==
    /\ pc[r] = "release"
    /\ WriteSession(r, lockId[r].items)
    /\ Goto(r, "done")
    /\ UNCHANGED <<lock, now, lockId, items, lostAcks, incarnation>>

BreakCommit(r) ==
    /\ pc[r] = "breaking"
    /\ WriteSession(r, lockId[r].items)
    /\ Goto(r, "poll")
    /\ UNCHANGED <<lock, now, lockId, items, lostAcks, incarnation>>

RemoveCommit(r) ==
    LET id == SessionId[r] IN
    /\ pc[r] = "remove"
    /\ CanCommit(r)
    /\ PutLock(id, NoEntity)
    /\ PutSession(id, NoEntity)
    /\ Committed(r, id, Kinds)
    /\ Goto(r, "done")
    /\ UNCHANGED <<now, lockId, items, lostAcks, incarnation>>

\* SetAndReleaseItemExclusive(newItem = true): both entities are written,
\* whatever they were.
SetNewItem(r) ==
    LET id == SessionId[r] IN
    /\ pc[r] = "new"
    /\ PutLock(id, NewLock(0))
    /\ PutSession(id, [items |-> items[r] \cup {r}, releaseCount |-> 0])
    /\ Committed(r, id, Kinds)
    /\ incarnation' = [incarnation EXCEPT ![id] = @ + 1]
    /\ Goto(r, "done")
    /\ UNCHANGED <<now, lockId, items, lostAcks>>

\* The call throws, because its commit failed, or the server process dies:
\* the request is over and whatever it had locked stays locked.
Die(r) ==
    /\ pc[r] \notin {"idle", "done"}
    /\ Rollback(r)
    /\ Goto(r, "done")
    /\ UNCHANGED <<storeVars, now, lockId, items, lostAcks, incarnation>>

-----------------------------------------------------------------------------
Get(r) ==
    \/ GetMissing(r) \/ GetLocked(r) \/ GetShared(r) \/ GetUnlocked(r)
    \/ GetCommit(r) \/ GetLostAck(r) \/ GetAbort(r)

Release(r) ==
    \/ CallSetAndRelease(r) \/ CallRelease(r) \/ CallRemove(r) \/ CallBreak(r)
    \/ SetCommit(r) \/ ReleaseCommit(r) \/ BreakCommit(r) \/ RemoveCommit(r)
    \/ SetNewItem(r)

RequestStep(r) ==
    \/ Start(r) \/ CreateUninitializedItem(r) \/ Get(r) \/ Release(r) \/ Die(r)

\* A session id either has no session, or an idle one that was stored by an
\* earlier request.
RequestInit ==
    /\ now = 0
    /\ lock \in [Ids -> {NoEntity, NewLock(0)}]
    /\ session = [id \in Ids |->
                    IF lock[id] = NoEntity THEN NoEntity
                    ELSE [items |-> {}, releaseCount |-> 0]]
    /\ tx = [c \in Clients |-> NoTx]
    /\ pc = [r \in Requests |-> "idle"]
    /\ lockId = [r \in Requests |-> NoLockId]
    /\ items = [r \in Requests |-> {}]
    /\ lostAcks = 0
    /\ incarnation = [id \in Ids |-> IF lock[id] = NoEntity THEN 0 ELSE 1]

=============================================================================
