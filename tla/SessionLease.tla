---------------------------- MODULE SessionLease ----------------------------
(***************************************************************************)
(* What DatastoreSessionStateStoreProvider promises, without entities,     *)
(* transactions and clocks: a session is one object that is free or held,  *)
(* with a number that grows each time it is taken.  A request is told the  *)
(* number under which it, or somebody else, holds the session, and only    *)
(* the request that knows the present number can write or remove it.       *)
(***************************************************************************)
EXTENDS Naturals

CONSTANTS Ids, Requests, SessionId, NoEntity

VARIABLES
    lease,  \* lease[id]: the session of an id, or NoEntity
    token   \* token[r]: the number request r was told, or 0

leaseVars == <<lease, token>>

Lease == [number : Nat, held : BOOLEAN, items : SUBSET Requests]

Told(r, number) == token' = [token EXCEPT ![r] = number]

Init ==
    /\ lease \in [Ids -> {NoEntity, [number |-> 0, held |-> FALSE, items |-> {}]}]
    /\ token = [r \in Requests |-> 0]

\* A session is created, whatever there was under its id.
Create(r) ==
    /\ \E items \in SUBSET Requests :
         lease' = [lease EXCEPT ![SessionId[r]] =
                     [number |-> 0, held |-> FALSE, items |-> items]]
    /\ Told(r, 0)

\* A free session is taken under the next number.  Its items stay, and the
\* request may never hear of it.
Take(r) ==
    LET l == lease[SessionId[r]] IN
    /\ l # NoEntity /\ ~l.held
    /\ lease' = [lease EXCEPT ![SessionId[r]] =
                   [number |-> l.number + 1, held |-> TRUE, items |-> l.items]]
    /\ Told(r, l.number + 1) \/ UNCHANGED token

\* A session somebody holds: the request is told the number, with which it
\* can break the hold.
See(r) ==
    LET l == lease[SessionId[r]] IN
    /\ l # NoEntity /\ l.held
    /\ Told(r, l.number)
    /\ UNCHANGED lease

KnowsNumber(r) ==
    /\ lease[SessionId[r]] # NoEntity
    /\ lease[SessionId[r]].number = token[r]

\* The session is free from now on.  That it may have been free before is
\* what the number does not tell.
GiveBack(r) ==
    /\ KnowsNumber(r)
    /\ \E items \in SUBSET Requests :
         lease' = [lease EXCEPT ![SessionId[r]] =
                     [number |-> token[r], held |-> FALSE, items |-> items]]
    /\ Told(r, 0)

Remove(r) ==
    /\ KnowsNumber(r)
    /\ lease' = [lease EXCEPT ![SessionId[r]] = NoEntity]
    /\ Told(r, 0)

\* The request is told that somebody else has taken the session, or ends.
Forget(r) == Told(r, 0) /\ UNCHANGED lease

\* The session is too old.
Expire(id) ==
    /\ lease[id] # NoEntity
    /\ lease' = [lease EXCEPT ![id] = NoEntity]
    /\ UNCHANGED token

Next ==
    \/ \E r \in Requests :
         Create(r) \/ Take(r) \/ See(r) \/ GiveBack(r) \/ Remove(r) \/ Forget(r)
    \/ \E id \in Ids : Expire(id)

Spec == Init /\ [][Next]_leaseVars

=============================================================================
