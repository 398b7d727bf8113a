------------------------ MODULE UserDirectoryProofs ------------------------
(***************************************************************************)
(* Proofs about UserDirectory for any requests and names and any number of *)
(* failures.                                                               *)
(***************************************************************************)
EXTENDS UserDirectory, TLAPS

Holding == {"have", "update"}

\* Until its user is created, a request's id is nowhere else.
NewIdsAreUnused ==
    \A r \in Requests : pc[r] \in {"idle", "create"} =>
        /\ user[r] = None
        /\ \A n \in Names : index[n] # r
        /\ \A q \in Requests : pc[q] \in Holding => object[q].id # r

IdsAreOwn == \A r \in Requests : pc[r] = "create" => object[r].id = r

\* A user object that has not been overtaken still says what is stored, and
\* the name it is about to take belongs to nobody else.
ObjectsAreTrue ==
    \A r \in Requests \ stale :
        pc[r] \in Holding /\ object[r].id \notin disordered =>
            /\ object[r].was = user[object[r].id]
            /\ object[r].was \in Names
            /\ pc[r] = "have" => object[r].name = object[r].was
            /\ index[object[r].name] \in disordered \cup {None, object[r].id}

DirectoryInv ==
    /\ TypeOK
    /\ NewIdsAreUnused /\ IdsAreOwn
    /\ ObjectsAreTrue
    /\ FoundByTheirNames

USE NoneAssumption, FailureAssumption DEF Users, Holding

-----------------------------------------------------------------------------
(* Type correctness.                                                       *)

LEMMA InitDirectory == Init => DirectoryInv
BY DEF Init, NoObject, DirectoryInv, TypeOK, ObjectType, NewIdsAreUnused,
       IdsAreOwn, ObjectsAreTrue, FoundByTheirNames

\* What the three commits write, and what they leave in the auxiliary
\* variables, is of the right type.
LEMMA CommitTypes ==
    ASSUME TypeOK, NEW r \in Requests, pc[r] # "idle"
    PROVE  /\ Created(r) \/ Updated(r) \/ Deleted(r) \/ UNCHANGED <<user, index>>
                => user' \in [Users -> Names \cup {None}]
                   /\ index' \in [Names -> Users \cup {None}]
           /\ \A lost \in SUBSET Requests : Overtakes(r, lost) => stale' \subseteq Requests
           /\ Disorders(r) => disordered' \subseteq Users
<1> object[r].id \in Users /\ object[r].name \in Names
  BY DEF TypeOK
<1>1. Created(r) \/ Updated(r) \/ Deleted(r) \/ UNCHANGED <<user, index>>
        => user' \in [Users -> Names \cup {None}]
           /\ index' \in [Names -> Users \cup {None}]
  BY DEF Created, Updated, Deleted, TypeOK
<1>2. ASSUME NEW lost \in SUBSET Requests, Overtakes(r, lost)
      PROVE  stale' \subseteq Requests
  BY <1>2 DEF Overtakes, TypeOK
<1>3. Disorders(r) => disordered' \subseteq Users
  BY DEF Disorders, TypeOK
<1>4. QED
  BY <1>1, <1>2, <1>3

LEMMA NextType == TypeOK /\ [Next]_vars => TypeOK'
<1> SUFFICES ASSUME TypeOK, [Next]_vars PROVE TypeOK'
  OBVIOUS
<1> USE DEF TypeOK, ObjectType, Goto
<1>1. ASSUME NEW r \in Requests, Register(r) PROVE TypeOK'
  BY <1>1 DEF Register
<1>2. ASSUME NEW r \in Requests, Find(r) PROVE TypeOK'
  BY <1>2 DEF Find
<1>3. ASSUME NEW r \in Requests, SetUserName(r) PROVE TypeOK'
  BY <1>3 DEF SetUserName
<1>4. ASSUME NEW r \in Requests, Create(r) PROVE TypeOK'
  <2>1. pc[r] = "create" /\ {} \in SUBSET Requests
        /\ UNCHANGED <<failures, disordered>>
    BY <1>4 DEF Create
  <2>2. CASE Created(r) /\ Overtakes(r, {})
              /\ object' = [object EXCEPT ![r].was = object[r].name] /\ Goto(r, "have")
    <3>1. /\ user' \in [Users -> Names \cup {None}]
          /\ index' \in [Names -> Users \cup {None}]
          /\ stale' \subseteq Requests
      BY <2>1, <2>2, CommitTypes
    <3>2. object[r].id \in Users /\ object[r].name \in Names
      BY <2>1
    <3>3. /\ object' \in [Requests -> ObjectType]
          /\ \A q \in Requests : /\ object'[q].id = object[q].id
                                /\ object'[q].name = object[q].name
      BY <2>2, <3>2
    <3>4. /\ pc' \in [Requests -> {"idle", "create", "have", "update", "done"}]
          /\ \A q \in Requests : pc'[q] # "idle" => pc[q] # "idle"
      BY <2>1, <2>2
    <3>5. QED
      BY <2>1, <3>1, <3>3, <3>4
  <2>3. CASE Goto(r, "done") /\ UNCHANGED <<user, index, object, stale>>
    BY <2>1, <2>3
  <2>4. QED
    BY <1>4, <2>2, <2>3 DEF Create
<1>5. ASSUME NEW r \in Requests, Update(r) PROVE TypeOK'
  BY <1>5, CommitTypes DEF Update
<1>6. ASSUME NEW r \in Requests, Delete(r) PROVE TypeOK'
  BY <1>6, CommitTypes DEF Delete
<1>7. ASSUME NEW r \in Requests, CommitFails(r) PROVE TypeOK'
  <2>1. pc[r] # "idle" /\ {r} \in SUBSET Requests
    BY <1>7 DEF CommitFails
  <2>2. user' \in [Users -> Names \cup {None}] /\ index' \in [Names -> Users \cup {None}]
    BY <1>7, <2>1, CommitTypes DEF CommitFails
  <2>3. stale' \subseteq Requests /\ disordered' \subseteq Users
    BY <1>7, <2>1, CommitTypes DEF CommitFails
  <2>4. QED
    BY <1>7, <2>2, <2>3 DEF CommitFails
<1>8. CASE UNCHANGED vars
  BY <1>8 DEF vars
<1>9. QED
  BY <1>1, <1>2, <1>3, <1>4, <1>5, <1>6, <1>7, <1>8 DEF Next

-----------------------------------------------------------------------------
(* The index and the objects.                                              *)

\* Registering a user keeps the index and the users in order.
LEMMA CreatedInOrder ==
    ASSUME DirectoryInv, NEW r \in Requests, pc[r] = "create", Created(r),
           disordered \subseteq disordered'
    PROVE  FoundByTheirNames'
<1> USE DEF DirectoryInv, TypeOK, ObjectType
<1>1. object[r].id = r /\ object[r].name \in Names /\ user[r] = None
      /\ \A n \in Names : index[n] # r
  BY DEF IdsAreOwn, NewIdsAreUnused
<1>2. QED
  BY <1>1 DEF FoundByTheirNames, Created

\* So does an update or a deletion, with an object that has not been
\* overtaken, or else but for the users it disorders.
LEMMA WrittenInOrder ==
    ASSUME DirectoryInv, NEW r \in Requests, pc[r] \in Holding, Disorders(r),
           Updated(r) \/ (pc[r] = "have" /\ Deleted(r)) \/ UNCHANGED <<user, index>>
    PROVE  FoundByTheirNames' /\ disordered \subseteq disordered'
<1> DEFINE o == object[r]
<1> USE DEF DirectoryInv, TypeOK, ObjectType
<1>1. o.id \in Users /\ o.name \in Names /\ o.was \in Names \cup {None}
  OBVIOUS
<1>2. disordered \subseteq disordered'
  BY DEF Disorders
<1>3. CASE UNCHANGED <<user, index>>
  BY <1>2, <1>3 DEF FoundByTheirNames
<1>4. CASE r \in stale \/ o.id \in disordered
  <2>1. \A u \in Users \ disordered' : u # o.id /\ u \notin disordered
    BY <1>4 DEF Disorders
  <2>2. \A u \in Users \ disordered', n \in Names : index'[n] # index[n] => index[n] # u
    BY <1>4 DEF Disorders
  <2>3. \A u \in Users \ {o.id} :
          user'[u] = user[u] /\ \A n \in Names : index'[n] # index[n] => index'[n] # u
    BY <1>1 DEF Updated, Deleted
  <2>4. QED
    BY <2>1, <2>2, <2>3 DEF FoundByTheirNames
<1>5. CASE r \notin stale /\ o.id \notin disordered
  <2>1. o.was = user[o.id] /\ o.was \in Names
        /\ index[o.name] \in disordered \cup {None, o.id}
        /\ (pc[r] = "have" => o.name = o.was)
    BY <1>5 DEF ObjectsAreTrue
  <2>2. \A n \in Names : index[n] = o.id <=> n = o.was
    BY <1>1, <1>5, <2>1 DEF FoundByTheirNames
  <2>3. CASE Updated(r)
    BY <1>1, <1>2, <2>1, <2>2, <2>3 DEF FoundByTheirNames, Updated
  <2>4. CASE pc[r] = "have" /\ Deleted(r)
    BY <1>1, <1>2, <2>1, <2>2, <2>4 DEF FoundByTheirNames, Deleted
  <2>5. QED
    BY <1>3, <2>3, <2>4
<1>6. QED
  BY <1>2, <1>4, <1>5

\* No commit writes an id that is not in use yet, but that of its own
\* registration.
LEMMA NewIdsStayUnused ==
    ASSUME DirectoryInv, NEW r \in Requests, pc[r] # "idle",
           \/ pc[r] = "create" /\ Created(r)
           \/ pc[r] \in Holding /\ (Updated(r) \/ Deleted(r))
           \/ UNCHANGED <<user, index>>,
           NEW q \in Requests, q # r, pc[q] \in {"idle", "create"}
    PROVE  user'[q] = None /\ \A n \in Names : index'[n] # q
<1> USE DEF DirectoryInv, TypeOK, ObjectType
<1>1. user[q] = None /\ (\A n \in Names : index[n] # q)
      /\ (pc[r] \in Holding => object[r].id # q)
  BY DEF NewIdsAreUnused
<1>2. object[r].id \in Users /\ object[r].name \in Names
  OBVIOUS
<1>3. QED
  BY <1>1, <1>2 DEF Created, Updated, Deleted

\* The object of another request that is not overtaken stays true.
LEMMA OthersStayTrue ==
    ASSUME DirectoryInv, NEW r \in Requests, NEW lost, Overtakes(r, lost),
           disordered \subseteq disordered',
           NEW q \in Requests \ stale', q # r,
           object'[q] = object[q], pc'[q] = pc[q],
           pc[q] \in Holding, object[q].id \notin disordered'
    PROVE  /\ object[q].was = user'[object[q].id]
           /\ object[q].was \in Names
           /\ pc[q] = "have" => object[q].name = object[q].was
           /\ index'[object[q].name] \in disordered' \cup {None, object[q].id}
<1> USE DEF DirectoryInv, TypeOK, ObjectType
<1>1. object[q].id \in Users /\ object[q].name \in Names
  OBVIOUS
<1>2. q \notin stale /\ user'[object[q].id] = user[object[q].id]
      /\ index'[object[q].name] = index[object[q].name]
  BY <1>1 DEF Overtakes
<1>3. QED
  BY <1>2 DEF ObjectsAreTrue

-----------------------------------------------------------------------------
(* The steps.                                                              *)

\* Register, Find and SetUserName write nothing.
LEMMA ReadersInOrder ==
    ASSUME DirectoryInv, NEW r \in Requests,
           Register(r) \/ Find(r) \/ SetUserName(r)
    PROVE  NewIdsAreUnused' /\ IdsAreOwn' /\ ObjectsAreTrue' /\ FoundByTheirNames'
<1> USE DEF DirectoryInv, TypeOK, ObjectType, Goto
<1>1. UNCHANGED <<user, index, stale, disordered>>
  BY DEF Register, Find, SetUserName
<1>2. FoundByTheirNames'
  BY <1>1 DEF FoundByTheirNames
<1>3. CASE Register(r)
  <2>1. NewIdsAreUnused' /\ IdsAreOwn'
    BY <1>1, <1>3 DEF NewIdsAreUnused, IdsAreOwn, Register
  <2>2. ObjectsAreTrue'
    BY <1>1, <1>3 DEF ObjectsAreTrue, Register
  <2>3. QED
    BY <1>2, <2>1, <2>2
<1>4. CASE Find(r)
  <2>1. NewIdsAreUnused' /\ IdsAreOwn'
    BY <1>1, <1>4 DEF NewIdsAreUnused, IdsAreOwn, Find
  <2>2. ObjectsAreTrue'
    BY <1>1, <1>4 DEF ObjectsAreTrue, FoundByTheirNames, Find
  <2>3. QED
    BY <1>2, <2>1, <2>2
<1>5. CASE SetUserName(r)
  <2>1. NewIdsAreUnused' /\ IdsAreOwn'
    BY <1>1, <1>5 DEF NewIdsAreUnused, IdsAreOwn, SetUserName
  <2>2. PICK n \in Names :
          FindByName(n) \in {None, object[r].id}
          /\ object' = [object EXCEPT ![r].name = n]
    BY <1>5 DEF SetUserName
  <2>3. index[n] \in disordered \cup {None, object[r].id}
    BY <1>5, <2>2 DEF FindByName, FoundByTheirNames, SetUserName
  <2>4. ObjectsAreTrue'
    BY <1>1, <1>5, <2>2, <2>3 DEF ObjectsAreTrue, SetUserName
  <2>5. QED
    BY <1>2, <2>1, <2>4
<1>6. QED
  BY <1>3, <1>4, <1>5

LEMMA CreateInOrder ==
    ASSUME DirectoryInv, NEW r \in Requests, Create(r)
    PROVE  NewIdsAreUnused' /\ IdsAreOwn' /\ ObjectsAreTrue' /\ FoundByTheirNames'
<1> USE DEF DirectoryInv, TypeOK, ObjectType, Goto
<1>1. pc[r] = "create" /\ object[r].id = r /\ UNCHANGED disordered
  BY DEF Create, IdsAreOwn
<1>2. CASE Created(r) /\ Overtakes(r, {}) /\ pc' = [pc EXCEPT ![r] = "have"]
           /\ object' = [object EXCEPT ![r].was = object[r].name]
  <2>1. FoundByTheirNames'
    BY <1>1, <1>2, CreatedInOrder
  <2>2. NewIdsAreUnused' /\ IdsAreOwn'
    BY <1>1, <1>2, NewIdsStayUnused DEF NewIdsAreUnused, IdsAreOwn
  <2>3. ASSUME NEW q \in Requests \ stale', pc'[q] \in Holding,
               object'[q].id \notin disordered'
        PROVE  /\ object'[q].was = user'[object'[q].id]
               /\ object'[q].was \in Names
               /\ pc'[q] = "have" => object'[q].name = object'[q].was
               /\ index'[object'[q].name] \in disordered' \cup {None, object'[q].id}
    <3>1. CASE q = r
      BY <1>1, <1>2, <3>1 DEF Created
    <3>2. CASE q # r
      BY <1>1, <1>2, <2>3, <3>2, OthersStayTrue
    <3>3. QED
      BY <3>1, <3>2
  <2>4. ObjectsAreTrue'
    BY <2>3 DEF ObjectsAreTrue
  <2>5. QED
    BY <2>1, <2>2, <2>4
<1>3. CASE UNCHANGED <<user, index, object, stale>> /\ pc' = [pc EXCEPT ![r] = "done"]
  BY <1>1, <1>3 DEF NewIdsAreUnused, IdsAreOwn, ObjectsAreTrue, FoundByTheirNames
<1>4. QED
  BY <1>2, <1>3 DEF Create

LEMMA UpdateInOrder ==
    ASSUME DirectoryInv, NEW r \in Requests, Update(r)
    PROVE  NewIdsAreUnused' /\ IdsAreOwn' /\ ObjectsAreTrue' /\ FoundByTheirNames'
<1> USE DEF DirectoryInv, TypeOK, ObjectType, Goto
<1>1. pc[r] \in Holding /\ Updated(r) /\ Overtakes(r, {}) /\ Disorders(r)
      /\ pc' = [pc EXCEPT ![r] = "have"]
      /\ object' = [object EXCEPT ![r].was = object[r].name]
  BY DEF Update
<1>2. FoundByTheirNames' /\ disordered \subseteq disordered'
  BY <1>1, WrittenInOrder
<1>3. NewIdsAreUnused' /\ IdsAreOwn'
  <2>1. \A q \in Requests : object'[q].id = object[q].id
                           /\ (pc'[q] \in Holding <=> pc[q] \in Holding)
    BY <1>1
  <2>2. ASSUME NEW q \in Requests, pc'[q] \in {"idle", "create"}
        PROVE  q # r /\ pc[q] \in {"idle", "create"} /\ pc[q] = pc'[q]
    BY <1>1, <2>2
  <2>3. \A q \in Requests : pc'[q] \in {"idle", "create"} =>
          user'[q] = None /\ \A n \in Names : index'[n] # q
    BY <1>1, <2>2, NewIdsStayUnused
  <2>4. QED
    BY <2>1, <2>2, <2>3 DEF NewIdsAreUnused, IdsAreOwn
<1>4. ASSUME NEW q \in Requests \ stale', pc'[q] \in Holding,
             object'[q].id \notin disordered'
      PROVE  /\ object'[q].was = user'[object'[q].id]
             /\ object'[q].was \in Names
             /\ pc'[q] = "have" => object'[q].name = object'[q].was
             /\ index'[object'[q].name] \in disordered' \cup {None, object'[q].id}
  <2>1. CASE q = r
    <3>1. object[r].id \in Users /\ object[r].name \in Names
      BY <1>1
    <3>2. user'[object[r].id] = object[r].name
      BY <1>1, <3>1 DEF Updated
    <3>3. index'[object[r].name] = object[r].id
      BY <1>2, <1>4, <2>1, <1>1, <3>1, <3>2 DEF FoundByTheirNames
    <3>4. QED
      BY <1>1, <2>1, <3>1, <3>2, <3>3
  <2>2. CASE q # r
    BY <1>1, <1>2, <1>4, <2>2, OthersStayTrue
  <2>3. QED
    BY <2>1, <2>2
<1>5. ObjectsAreTrue'
  BY <1>4 DEF ObjectsAreTrue
<1>6. QED
  BY <1>2, <1>3, <1>5

LEMMA DeleteInOrder ==
    ASSUME DirectoryInv, NEW r \in Requests, Delete(r)
    PROVE  NewIdsAreUnused' /\ IdsAreOwn' /\ ObjectsAreTrue' /\ FoundByTheirNames'
<1> USE DEF DirectoryInv, TypeOK, ObjectType, Goto
<1>1. pc[r] = "have" /\ Deleted(r) /\ Overtakes(r, {}) /\ Disorders(r)
      /\ pc' = [pc EXCEPT ![r] = "done"] /\ UNCHANGED object
  BY DEF Delete
<1>2. FoundByTheirNames' /\ disordered \subseteq disordered'
  BY <1>1, WrittenInOrder
<1>3. NewIdsAreUnused' /\ IdsAreOwn'
  BY <1>1, NewIdsStayUnused DEF NewIdsAreUnused, IdsAreOwn
<1>4. ObjectsAreTrue'
  BY <1>1, <1>2, OthersStayTrue DEF ObjectsAreTrue
<1>5. QED
  BY <1>2, <1>3, <1>4

\* A request whose call failed is stale from then on.
LEMMA FailureInOrder ==
    ASSUME DirectoryInv, NEW r \in Requests, CommitFails(r)
    PROVE  NewIdsAreUnused' /\ IdsAreOwn' /\ ObjectsAreTrue' /\ FoundByTheirNames'
<1> USE DEF DirectoryInv, TypeOK, ObjectType, Goto
<1>1. Overtakes(r, {r}) /\ r \in stale' /\ UNCHANGED object
  BY DEF CommitFails, Overtakes
<1>2. /\ pc[r] \in {"create", "have", "update"}
      /\ pc' = [pc EXCEPT ![r] = IF pc[r] = "create" THEN "done" ELSE "have"]
      /\ \/ pc[r] = "create" /\ Created(r)
         \/ pc[r] \in Holding /\ (Updated(r) \/ Deleted(r))
         \/ UNCHANGED <<user, index>>
  BY DEF CommitFails
<1>3. FoundByTheirNames' /\ disordered \subseteq disordered'
  <2>1. CASE pc[r] = "create" /\ Created(r) /\ UNCHANGED disordered
    BY <2>1, CreatedInOrder
  <2>2. CASE pc[r] = "create" /\ UNCHANGED <<user, index, disordered>>
    BY <2>2 DEF FoundByTheirNames
  <2>3. CASE /\ pc[r] \in Holding /\ Disorders(r)
             /\ Updated(r) \/ (pc[r] = "have" /\ Deleted(r)) \/ UNCHANGED <<user, index>>
    BY <2>3, WrittenInOrder
  <2>4. \/ /\ pc[r] = "create" /\ UNCHANGED disordered
           /\ Created(r) \/ UNCHANGED <<user, index>>
        \/ /\ pc[r] \in Holding /\ Disorders(r)
           /\ Updated(r) \/ (pc[r] = "have" /\ Deleted(r)) \/ UNCHANGED <<user, index>>
    BY DEF CommitFails
  <2>5. QED
    BY <2>1, <2>2, <2>3, <2>4
<1>4. NewIdsAreUnused' /\ IdsAreOwn'
  BY <1>1, <1>2, NewIdsStayUnused DEF NewIdsAreUnused, IdsAreOwn
<1>5. ObjectsAreTrue'
  BY <1>1, <1>2, <1>3, OthersStayTrue DEF ObjectsAreTrue
<1>6. QED
  BY <1>3, <1>4, <1>5

LEMMA NextDirectory == DirectoryInv /\ [Next]_vars => DirectoryInv'
<1> SUFFICES ASSUME DirectoryInv, [Next]_vars PROVE DirectoryInv'
  OBVIOUS
<1>1. TypeOK'
  BY NextType DEF DirectoryInv
<1>2. CASE UNCHANGED vars
  BY <1>2 DEF vars, DirectoryInv, TypeOK, NewIdsAreUnused, IdsAreOwn,
              ObjectsAreTrue, FoundByTheirNames
<1>3. CASE Next
  BY <1>1, <1>3, ReadersInOrder, CreateInOrder, UpdateInOrder, DeleteInOrder,
     FailureInOrder DEF Next, DirectoryInv
<1>4. QED
  BY <1>2, <1>3

\* The inductive invariant of the user store.
THEOREM DirectoryIsSafe == Spec => []DirectoryInv
<1>1. QED
  BY InitDirectory, NextDirectory, PTL DEF Spec

\* The entities, user objects and bounds stay within their types.
THEOREM DirectoryTypeCorrect == Spec => []TypeOK
<1>1. DirectoryInv => TypeOK
  BY DEF DirectoryInv
<1>2. QED
  BY <1>1, DirectoryIsSafe, PTL

\* However CreateAsync, UpdateAsync and DeleteAsync of any number of requests
\* interleave and fail, the index has each user under his name only, unless
\* he was written with an object that was out of date.
THEOREM UsersAreFoundByTheirNames == Spec => []FoundByTheirNames
<1>1. DirectoryInv => FoundByTheirNames
  BY DEF DirectoryInv
<1>2. QED
  BY <1>1, DirectoryIsSafe, PTL

=============================================================================
