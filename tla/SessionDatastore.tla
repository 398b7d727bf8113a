-------------------------- MODULE SessionDatastore --------------------------
(***************************************************************************)
(* The part of Google Cloud Datastore the ASP.NET session provider of      *)
(* sessionstate/ relies on: for every session id one SessionLock and one   *)
(* Session entity, and optimistic transactions over them.  The service is  *)
(* external; it is modelled from the way the provider uses it: lookups in  *)
(* a transaction read one snapshot, and a commit fails when another commit *)
(* has written an entity the transaction looked up.  A transaction that    *)
(* only writes never conflicts.                                            *)
(***************************************************************************)
EXTENDS Naturals

CONSTANTS
    Ids,         \* session ids
    Requests,    \* HTTP requests; each one belongs to a session
    SweepTasks,  \* the sweep task of each web server process
    NoEntity     \* the result of looking up an entity that does not exist

LockEntity == [lockCount : Nat, dateLocked : Nat, expirationDate : Nat]

\* Items holds the requests whose update the stored collection contains.
SessionEntity == [items : SUBSET Requests, releaseCount : Nat]

Kinds == {"SessionLock", "Session"}

Clients == Requests \cup SweepTasks

ASSUME NoEntityAssumption ==
    NoEntity \notin LockEntity \cup SessionEntity \cup Ids

ASSUME ClientsAssumption == Requests \cap SweepTasks = {}

VARIABLES
    lock,     \* lock[id]: the SessionLock entity, or NoEntity
    session,  \* session[id]: the Session entity, or NoEntity
    tx,       \* tx[c]: the transaction client c has open
    now       \* DateTime.UtcNow

storeVars == <<lock, session>>

Transaction ==
    [state : {"none", "open", "stale"}, id : Ids \cup {NoEntity},
     kinds : SUBSET Kinds]

NoTx == [state |-> "none", id |-> NoEntity, kinds |-> {}]

DatastoreTypeOK ==
    /\ lock \in [Ids -> LockEntity \cup {NoEntity}]
    /\ session \in [Ids -> SessionEntity \cup {NoEntity}]
    /\ tx \in [Clients -> Transaction]
    /\ now \in Nat

-----------------------------------------------------------------------------
(* Transactions.                                                           *)

\* BeginTransaction and the lookup of the given kinds under one id.
Lookup(c, id, kinds) ==
    tx' = [tx EXCEPT ![c] = [state |-> "open", id |-> id, kinds |-> kinds]]

\* Leaving the using block without Commit, or with a Commit that failed.
Rollback(c) == tx' = [tx EXCEPT ![c] = NoTx]

\* Commit succeeds only when nothing the transaction looked up has changed.
CanCommit(c) == tx[c].state = "open"

\* Client c commits a write of the given kinds under id: every other open
\* transaction that looked one of them up can no longer commit.
Committed(c, id, kinds) ==
    tx' = [k \in Clients |->
             IF k = c THEN NoTx
             ELSE IF /\ tx[k].state = "open"
                     /\ tx[k].id = id
                     /\ tx[k].kinds \cap kinds # {}
                  THEN [tx[k] EXCEPT !.state = "stale"]
                  ELSE tx[k]]

PutLock(id, entity) == lock' = [lock EXCEPT ![id] = entity]

PutSession(id, entity) == session' = [session EXCEPT ![id] = entity]

=============================================================================
