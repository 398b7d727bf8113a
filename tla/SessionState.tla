---------------------------- MODULE SessionState ----------------------------
(***************************************************************************)
(* The session state of the web application: the requests of               *)
(* SessionStore and the sweep tasks of SessionSweeper share the Datastore  *)
(* entities of SessionDatastore, while time passes.                        *)
(***************************************************************************)
EXTENDS SessionStore, SessionSweeper, FiniteSets

CONSTANT MaxTime  \* bound: the clock stops here

ASSUME TimeAssumption == MaxTime \in Nat

vars == <<lock, session, tx, now, pc, lockId, items, lostAcks, incarnation,
          sweepLock, sweepTx, task, begun, todo, target>>

Tick ==
    /\ now < MaxTime
    /\ now' = now + 1
    /\ UNCHANGED <<storeVars, tx, requestVars, sweepVars>>

Init == RequestInit /\ SweepInit

Next ==
    \/ \E r \in Requests : RequestStep(r) /\ UNCHANGED sweepVars
    \/ \E w \in SweepTasks : SweepStep(w) /\ UNCHANGED requestVars
    \/ Tick

Spec == Init /\ [][Next]_vars

\* Web servers run the calls of the requests they have accepted, a commit
\* that conflicts fails, and the clock ticks.  Nothing is promised about when
\* requests arrive, which of them die, or when anybody sweeps.
Fairness ==
    /\ WF_vars(Tick)
    /\ \A r \in Requests :
         /\ WF_vars((Get(r) \/ Release(r)) /\ UNCHANGED sweepVars)
         /\ WF_vars(tx[r].state = "stale" /\ Die(r) /\ UNCHANGED sweepVars)

FairSpec == Spec /\ Fairness

-----------------------------------------------------------------------------
TypeOK == DatastoreTypeOK /\ RequestTypeOK /\ SweepTypeOK

\* The session of id exists, and a request that took it may be using it.
IsLocked(id) == lock[id] # NoEntity /\ Locked(lock[id], session[id])

\* Requests that have taken their session and not yet given it back.
Holders == {r \in Requests : pc[r] \in {"own", "set", "release", "remove"}}

\* The session request r took has not been deleted and created again since.
SameSession(r) == lockId[r].incarnation = incarnation[SessionId[r]]

\* The comments of SessionLockEntity and SessionEntity define locked by the
\* two counts.  Although one transaction writes only one of the entities and
\* releases do not look up the other, the counts never drift: a release
\* count is the lock count or one behind it, and no Session entity is left
\* without its SessionLock.
CountsAgree ==
    \A id \in Ids :
        IF lock[id] = NoEntity THEN session[id] = NoEntity
        ELSE lock[id].lockCount - ReleaseCount(session[id]) \in {0, 1}

\* A lock count identifies one holder: two requests that hold a session,
\* since the same creation of it, never hold it under the same count, so at
\* most one of them can pass the check of the releasing calls.
OneHolderPerCount ==
    \A r, q \in Holders :
        /\ r # q
        /\ SessionId[r] = SessionId[q]
        /\ lockId[r].incarnation = lockId[q].incarnation
        => lockId[r].lockCount # lockId[q].lockCount

\* What makes the two invariants above inductive.  An open transaction still
\* sees the entities its request computed from; and every holder's count has
\* been reached by the lock, so the next one is new.
LookupsStand ==
    \A r \in Requests :
        LET id == SessionId[r] IN
        tx[r].state = "open" =>
          /\ pc[r] = "locking" =>
               /\ tx[r].id = id /\ tx[r].kinds = Kinds
               /\ lock[id] # NoEntity /\ ~Locked(lock[id], session[id])
               /\ lockId[r].lockCount = ReleaseCount(session[id]) + 1
               /\ SameSession(r)
          /\ pc[r] \in {"set", "release", "remove", "breaking"} =>
               /\ tx[r].id = id /\ tx[r].kinds = {"SessionLock"}
               /\ HoldsCount(r)

HoldersBehind ==
    \A r \in Holders :
        /\ lockId[r].incarnation <= incarnation[SessionId[r]]
        /\ SameSession(r) /\ lock[SessionId[r]] # NoEntity =>
             lockId[r].lockCount <= lock[SessionId[r]].lockCount

SessionInv ==
    CountsAgree /\ LookupsStand /\ HoldersBehind /\ OneHolderPerCount

\* As long as an id is not created a second time, what a request saved in
\* its session is lost only when the session is removed, expires, or is put
\* back by the breaking of a lock.
SavedItemsSurvive ==
    [][\A id \in Ids :
         \/ incarnation'[id] > 1
         \/ session[id] = NoEntity \/ session'[id] = NoEntity
         \/ \E r \in Requests : pc[r] = "breaking" /\ pc'[r] = "poll"
         \/ session[id].items \subseteq session'[id].items]_vars

\* ASP.NET breaks a lock only after ExecutionTimeout.  The lock a breaking
\* call releases is always one that old, although it may be another lock
\* than the one ASP.NET looked at, as long as the id is created once.
BreakOnlyOldLocks ==
    [][\A r \in Requests :
         /\ pc[r] = "breaking" /\ pc'[r] = "poll"
         /\ session'[SessionId[r]] # session[SessionId[r]]
         /\ incarnation[SessionId[r]] <= 1
         => now - lock[SessionId[r]].dateLocked >= ExecutionTimeout]_vars

\* A session disappears only because its holder removes it or because it
\* has expired: the sweep task looks the session up again before it deletes
\* it, so one that was locked after the query survives.
OnlyExpiredAreSwept ==
    [][\A id \in Ids :
         lock[id] # NoEntity /\ lock'[id] = NoEntity =>
           \/ NoSuchSession(lock[id])
           \/ \E r \in Holders : SessionId[r] = id /\ pc[r] = "remove"]_vars

\* The comment in SweepTaskMain: nobody sweeps more often than once per
\* interval, whichever process begins and whichever commits are lost.
SweepsAreSpaced ==
    [][sweepLock' # sweepLock =>
         \/ sweepLock = NoEntity
         \/ sweepLock' > sweepLock + SweepInterval]_vars

\* Whoever takes a session and dies does not keep it: as long as another
\* request waits for the session, that lock ends.  Locks taken so late that
\* the bounded clock never reaches their ExecutionTimeout are left out.
Waits(id) ==
    \E r \in Requests :
        SessionId[r] = id /\ pc[r] \in {"poll", "break", "breaking"}

HeldAs(id, n) == IsLocked(id) /\ lock[id].lockCount = n

LocksEnd ==
    \A id \in Ids, n \in 1..(Cardinality(Requests) + MaxLostAcks) :
        HeldAs(id, n) /\ lock[id].dateLocked + ExecutionTimeout <= MaxTime
            ~> ~HeldAs(id, n) \/ ~Waits(id)

-----------------------------------------------------------------------------
(* The two entities, each written by transactions of its own, and the lock *)
(* ids in the hands of requests implement one lease per session.           *)

LeaseOf(id) ==
    IF lock[id] = NoEntity THEN NoEntity
    ELSE [number |-> lock[id].lockCount, held |-> IsLocked(id),
          items |-> Items(session[id])]

\* A lock id that was computed and not yet committed is not a token.
TokenOf(r) ==
    IF r \in Holders \/ pc[r] \in {"break", "breaking"}
    THEN lockId[r].lockCount ELSE 0

\* What is not there is no lease.
ASSUME LeaseAssumption ==
    NoEntity \notin [number : Nat, held : BOOLEAN, items : SUBSET Requests]

Lease == INSTANCE SessionLease WITH
    lease <- [id \in Ids |-> LeaseOf(id)],
    token <- [r \in Requests |-> TokenOf(r)]

\* Every commit, although it writes one entity and saw a snapshot, is one
\* atomic step of the lease: a session is taken only when it is free and
\* under the next number, keeps its items when it is taken, and is written
\* and removed only by a request that knows its number at that moment.
ImplementsLease == Lease!Spec

-----------------------------------------------------------------------------
(* What comments of the provider say and the code does not keep.           *)

\* "SessionEntity gets written to unlock the session."  So the Session entity
\* alone is written only while the session is locked.
WrittenToUnlock ==
    [][\A id \in Ids :
         /\ session'[id] # session[id]
         /\ session'[id] # NoEntity
         /\ incarnation'[id] = incarnation[id]
         => IsLocked(id)]_vars

\* "Something else locked it in the meantime", and then the releasing call
\* returns: a request that gives its session back or removes it leaves both
\* entities alone when another one holds the session.
OthersLocksAreKept ==
    [][\A r \in Requests, q \in Holders :
         /\ pc[r] \in {"set", "release", "remove"} /\ pc'[r] # pc[r]
         /\ r # q /\ SessionId[q] = SessionId[r]
         /\ SameSession(q) /\ HoldsCount(q)
         => UNCHANGED <<lock[SessionId[r]], session[SessionId[r]]>>]_vars

=============================================================================
