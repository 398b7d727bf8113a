--------------------------- MODULE UserDirectory ---------------------------
(***************************************************************************)
(* Sudokumb's DatastoreUserStore: a webuser entity per user and, because a *)
(* user is looked up by name in a transaction, a webuser-nnindex entity    *)
(* per name that says whose it is.  Requests work on a user object they    *)
(* have created or found, which remembers the name it was found under, and *)
(* write both entities without looking at them again.                      *)
(***************************************************************************)
EXTENDS Naturals, FiniteSets

CONSTANTS
    Requests,     \* a request registers at most one user, who has its id
    Names,        \* normalized user names
    MaxFailures,  \* bound: calls that fail
    None

ASSUME NoneAssumption == None \notin Requests \cup Names

ASSUME FailureAssumption == MaxFailures \in Nat

Users == Requests

VARIABLES
    user,       \* webuser: per id the normalized name, or None
    index,      \* webuser-nnindex: per name the id, or None
    pc,         \* per request: what it is about to do
    object,     \* per request: its user object
    failures,
    stale,      \* auxiliary: requests whose object or whose check of a name
                \* does not say any more what is stored
    disordered  \* auxiliary: users such a request has touched

vars == <<user, index, pc, object, failures, stale, disordered>>

NoObject == [id |-> None, name |-> None, was |-> None]

Init ==
    /\ user = [u \in Users |-> None]
    /\ index = [n \in Names |-> None]
    /\ pc = [r \in Requests |-> "idle"]
    /\ object = [r \in Requests |-> NoObject]
    /\ failures = 0
    /\ stale = {} /\ disordered = {}

Goto(r, place) == pc' = [pc EXCEPT ![r] = place]

\* FindByNameAsync: an entry of the index whose user is gone finds nobody.
FindByName(n) ==
    IF index[n] = None \/ user[index[n]] = None THEN None ELSE index[n]

\* What a commit of r does to the auxiliary variables: objects and checks of
\* others that it has overtaken go stale, and its own if it got no answer; a
\* stale object disorders the users it writes.
Overtakes(r, lost) ==
    LET names == {n \in Names : index'[n] # index[n]} IN
    stale' = stale \cup lost \cup
      {q \in Requests \ {r} :
         \/ object[q].id \in {u \in Users : user'[u] # user[u]}
         \/ object[q].name \in names \/ object[q].was \in names}

Disorders(r) ==
    LET owners == {index[n] : n \in {m \in Names : index'[m] # index[m]}} IN
    disordered' = IF r \in stale \/ object[r].id \in disordered
                  THEN disordered \cup {object[r].id} \cup (owners \ {None})
                  ELSE disordered

\* UserManager looks for the name before it asks the store for a new user.
Register(r) ==
    /\ pc[r] = "idle"
    /\ \E n \in Names :
         /\ FindByName(n) = None
         /\ object' = [object EXCEPT ![r] = [id |-> r, name |-> n, was |-> None]]
    /\ Goto(r, "create")
    /\ UNCHANGED <<user, index, failures, stale, disordered>>

\* Variant with a defect: EntityToUser leaves the id out, as the
\* EntityToRole of the role store does.
Find_NoId(r) ==
    /\ pc[r] = "idle"
    /\ \E u \in Users :
         /\ user[u] # None
         /\ object' = [object EXCEPT ![r] =
                         [id |-> None, name |-> user[u], was |-> user[u]]]
    /\ Goto(r, "have")
    /\ UNCHANGED <<user, index, failures, stale, disordered>>

\* FindByIdAsync or FindByNameAsync.
Find(r) ==
    /\ pc[r] = "idle"
    /\ \E u \in Users :
         /\ user[u] # None
         /\ object' = [object EXCEPT ![r] =
                         [id |-> u, name |-> user[u], was |-> user[u]]]
    /\ Goto(r, "have")
    /\ UNCHANGED <<user, index, failures, stale, disordered>>

\* Variant with a defect: the index entity is upserted.
Created_Upsert(r) ==
    /\ user' = [user EXCEPT ![r] = object[r].name]
    /\ index' = [index EXCEPT ![object[r].name] = r]

\* CreateAsync inserts both entities: if there is one, nothing is written.
Created(r) ==
    /\ index[object[r].name] = None
    /\ user' = [user EXCEPT ![r] = object[r].name]
    /\ index' = [index EXCEPT ![object[r].name] = r]

Create(r) ==
    /\ pc[r] = "create"
    /\ \/ /\ Created(r)
          /\ Overtakes(r, {})
          /\ object' = [object EXCEPT ![r].was = object[r].name]
          /\ Goto(r, "have")
       \/ /\ index[object[r].name] # None
          /\ Goto(r, "done")
          /\ UNCHANGED <<user, index, object, stale>>
    /\ UNCHANGED <<failures, disordered>>

\* UserManager.SetUserNameAsync: the name is free, or the user's own.
SetUserName(r) ==
    /\ pc[r] = "have"
    /\ \E n \in Names :
         /\ FindByName(n) \in {None, object[r].id}
         /\ object' = [object EXCEPT ![r].name = n]
    /\ Goto(r, "update")
    /\ UNCHANGED <<user, index, failures, stale, disordered>>

\* Variant with a defect: the entry of the old name stays.
Updated_KeepsEntry(r) ==
    LET o == object[r] IN
    /\ user' = [user EXCEPT ![o.id] = o.name]
    /\ index' = [index EXCEPT ![o.name] = o.id]

\* UpdateAsync: if the name is the one the object was found under, the user
\* is upserted; otherwise the entry of the old name is deleted, and the user
\* and the new entry are upserted, in one transaction.
Updated(r) ==
    LET o == object[r] IN
    /\ user' = [user EXCEPT ![o.id] = o.name]
    /\ index' = IF o.name = o.was THEN index
                ELSE [n \in Names |->
                        IF n = o.name THEN o.id
                        ELSE IF n = o.was THEN None ELSE index[n]]

Update(r) ==
    /\ pc[r] \in {"have", "update"}
    /\ Updated(r)
    /\ Overtakes(r, {}) /\ Disorders(r)
    /\ object' = [object EXCEPT ![r].was = object[r].name]
    /\ Goto(r, "have")
    /\ UNCHANGED failures

\* DeleteAsync deletes the user and the entry of the name in the object.
Deleted(r) ==
    LET o == object[r] IN
    /\ user' = [user EXCEPT ![o.id] = None]
    /\ index' = [index EXCEPT ![o.name] = None]

Delete(r) ==
    /\ pc[r] = "have"
    /\ Deleted(r)
    /\ Overtakes(r, {}) /\ Disorders(r)
    /\ Goto(r, "done")
    /\ UNCHANGED <<object, failures>>

\* A commit fails, or its answer is lost: the result is not Succeeded, and
\* the object keeps both its names.
CommitFails(r) ==
    /\ failures < MaxFailures
    /\ failures' = failures + 1
    /\ \/ /\ pc[r] = "create"
          /\ Created(r) \/ UNCHANGED <<user, index>>
          /\ Goto(r, "done")
          /\ UNCHANGED disordered
       \/ /\ pc[r] \in {"have", "update"}
          /\ \/ Updated(r)
             \/ pc[r] = "have" /\ Deleted(r)
             \/ UNCHANGED <<user, index>>
          /\ Goto(r, "have")
          /\ Disorders(r)
    /\ Overtakes(r, {r})
    /\ UNCHANGED object

Next ==
    \E r \in Requests :
        \/ Register(r) \/ Find(r) \/ SetUserName(r)
        \/ Create(r) \/ Update(r) \/ Delete(r) \/ CommitFails(r)

Spec == Init /\ [][Next]_vars

-----------------------------------------------------------------------------
ObjectType ==
    [id : Users \cup {None}, name : Names \cup {None}, was : Names \cup {None}]

TypeOK ==
    /\ user \in [Users -> Names \cup {None}]
    /\ index \in [Names -> Users \cup {None}]
    /\ pc \in [Requests -> {"idle", "create", "have", "update", "done"}]
    /\ object \in [Requests -> ObjectType]
    /\ \A r \in Requests :
         pc[r] # "idle" => object[r].id \in Users /\ object[r].name \in Names
    /\ failures \in 0..MaxFailures
    /\ stale \subseteq Requests /\ disordered \subseteq Users

\* Whoever registers, renames and deletes at the same time, and whichever
\* answers are lost: a user is found by exactly the name he has, and no longer
\* when he is deleted, unless a request wrote him, or over him, with an object
\* that another request had overtaken.
FoundByTheirNames ==
    \A u \in Users \ disordered : \A n \in Names :
        index[n] = u <=> user[u] = n

=============================================================================
