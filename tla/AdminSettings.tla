--------------------------- MODULE AdminSettings ---------------------------
(***************************************************************************)
(* Sudokumb's administrator settings: one entity that every server keeps   *)
(* for ten seconds.  What it keeps is the task of the lookup, so callers   *)
(* that come while it is under way wait for the same answer or the same    *)
(* exception.  The server that sets the value keeps it before it is stored.*)
(* Times are ages, so that a behaviour may go on for ever.                 *)
(***************************************************************************)
EXTENDS Naturals

CONSTANTS
    Servers,      \* processes with a singleton AdminSettings
    Values,       \* values of dumbExpires, each of which is set once
    Ttl,          \* the ten seconds
    MaxFailures,  \* bound: lookups and upserts that fail
    NoEntity,     \* nothing has ever been set
    NoTask, Lookup, Failed  \* what a server keeps instead of an answer

ASSUME ValuesAssumption ==
    /\ {NoEntity, NoTask, Lookup, Failed} \cap Values = {}
    /\ NoEntity \notin {NoTask, Lookup, Failed}
    /\ NoTask \notin {Lookup, Failed} /\ Lookup # Failed

ASSUME BoundsAssumption == Ttl \in Nat /\ MaxFailures \in Nat

Answers == Values \cup {NoEntity}

VARIABLES
    entity,     \* what Datastore has stored
    upserts,    \* values under way to Datastore
    cached,     \* per server _cachedEntity
    age,        \* per server the time since _cachedEntityExpires was set
    lookup,     \* per server its last lookup: Lookup if nothing is read yet,
                \* what it has read, NoTask when it has answered
    unset,      \* values nobody has set yet
    failures,
    gone,       \* auxiliary: per answer the time since it was overwritten
    own         \* auxiliary: per server the value it has set, until it looks
                \* up again

vars == <<entity, upserts, cached, age, lookup, unset, failures, gone, own>>

Forever == Ttl + 1

\* Variant with a defect: _cachedEntityExpires begins as Now.
Init_Now ==
    /\ entity = NoEntity /\ upserts = {}
    /\ cached = [s \in Servers |-> NoTask]
    /\ age = [s \in Servers |-> 0]
    /\ lookup = [s \in Servers |-> NoTask]
    /\ unset = Values
    /\ failures = 0
    /\ gone = [v \in Answers |-> Forever]
    /\ own = [s \in Servers |-> NoTask]

\* _cachedEntityExpires begins as MinValue.
Init ==
    /\ entity = NoEntity /\ upserts = {}
    /\ cached = [s \in Servers |-> NoTask]
    /\ age = [s \in Servers |-> Forever]
    /\ lookup = [s \in Servers |-> NoTask]
    /\ unset = Values
    /\ failures = 0
    /\ gone = [v \in Answers |-> Forever]
    /\ own = [s \in Servers |-> NoTask]

Fresh(s) == age[s] <= Ttl

StartLookup(s) ==
    /\ cached' = [cached EXCEPT ![s] = Lookup]
    /\ lookup' = [lookup EXCEPT ![s] = Lookup]
    /\ own' = [own EXCEPT ![s] = NoTask]

\* Variant with a defect: each call puts the expiration off.
LookupEntity_Sliding(s) ==
    /\ age' = [age EXCEPT ![s] = 0]
    /\ IF Fresh(s) THEN UNCHANGED <<cached, lookup, own>> ELSE StartLookup(s)
    /\ UNCHANGED <<entity, upserts, unset, failures, gone>>

\* LookupEntityAsync, which IsDumbAsync and GetDumbExpiresAsync await.  The
\* answer of a lookup that is no longer kept reaches only those who wait.
LookupEntity(s) ==
    /\ \/ /\ ~Fresh(s)
          /\ age' = [age EXCEPT ![s] = 0]
          /\ StartLookup(s)
       \/ /\ Fresh(s)
          /\ UNCHANGED <<age, cached, lookup, own>>
    /\ UNCHANGED <<entity, upserts, unset, failures, gone>>

\* Datastore reads the entity for the lookup of s.
LookupReads(s) ==
    /\ lookup[s] = Lookup
    /\ lookup' = [lookup EXCEPT ![s] = entity]
    /\ UNCHANGED <<entity, upserts, cached, age, unset, failures, gone, own>>

\* Variant with a defect: the answer is kept when it arrives.
Settle_Always(s, result) == cached' = [cached EXCEPT ![s] = result]

\* The task ends.  It is the task that is kept, not what it answers.
Settle(s, result) ==
    cached' = IF cached[s] = Lookup THEN [cached EXCEPT ![s] = result] ELSE cached

LookupAnswers(s) ==
    /\ lookup[s] \in Answers
    /\ Settle(s, lookup[s])
    /\ lookup' = [lookup EXCEPT ![s] = NoTask]
    /\ UNCHANGED <<entity, upserts, age, unset, failures, gone, own>>

LookupFails(s) ==
    /\ lookup[s] # NoTask
    /\ failures < MaxFailures
    /\ failures' = failures + 1
    /\ Settle(s, Failed)
    /\ lookup' = [lookup EXCEPT ![s] = NoTask]
    /\ UNCHANGED <<entity, upserts, age, unset, gone, own>>

\* SetDumbExpiresAsync.
SetDumbExpires(s) ==
    \E v \in unset :
        /\ cached' = [cached EXCEPT ![s] = v]
        /\ age' = [age EXCEPT ![s] = 0]
        /\ upserts' = upserts \cup {v}
        /\ unset' = unset \ {v}
        /\ own' = [own EXCEPT ![s] = v]
        /\ UNCHANGED <<entity, lookup, failures, gone>>

\* Upserts of two servers arrive in any order.
Store(v) ==
    /\ entity' = v
    /\ gone' = [gone EXCEPT ![entity] = 0]

UpsertArrives ==
    \E v \in upserts :
        /\ Store(v)
        /\ upserts' = upserts \ {v}
        /\ UNCHANGED <<cached, age, lookup, unset, failures, own>>

\* Nothing is stored and the caller gets an exception.
UpsertFails ==
    \E v \in upserts :
        /\ failures < MaxFailures
        /\ failures' = failures + 1
        /\ upserts' = upserts \ {v}
        /\ UNCHANGED <<entity, cached, age, lookup, unset, gone, own>>

Older(a) == IF a < Forever THEN a + 1 ELSE a

\* A second passes.
Tick ==
    /\ age' = [s \in Servers |-> Older(age[s])]
    /\ gone' = [v \in Answers |-> Older(gone[v])]
    /\ UNCHANGED <<entity, upserts, cached, lookup, unset, failures, own>>

Next ==
    \/ \E s \in Servers :
         \/ LookupEntity(s) \/ LookupReads(s) \/ LookupAnswers(s)
         \/ LookupFails(s) \/ SetDumbExpires(s)
    \/ UpsertArrives \/ UpsertFails
    \/ Tick

Spec == Init /\ [][Next]_vars

\* Only time is sure to pass: calls may stop and lookups hang.
FairSpec == Spec /\ WF_vars(Tick)

-----------------------------------------------------------------------------
\* The last conjunct: no caller awaits null.
TypeOK ==
    /\ entity \in Answers
    /\ upserts \subseteq Values /\ unset \subseteq Values
    /\ cached \in [Servers -> Answers \cup {NoTask, Lookup, Failed}]
    /\ age \in [Servers -> 0..Forever]
    /\ lookup \in [Servers -> Answers \cup {NoTask, Lookup}]
    /\ failures \in 0..MaxFailures
    /\ gone \in [Answers -> 0..Forever]
    /\ own \in [Servers -> Values \cup {NoTask}]
    /\ \A s \in Servers : Fresh(s) => cached[s] # NoTask

\* However slow a lookup is, what a server gives out of its cache was stored
\* when that lookup began or later, so it is no older than the expiration.
CachedIsRecent ==
    \A s \in Servers :
        Fresh(s) /\ cached[s] \in Answers /\ own[s] = NoTask =>
            cached[s] = entity \/ gone[cached[s]] <= age[s]

\* A server that has set a value gives out that value until it expires, also
\* when a lookup that began before answers or fails afterwards.
ServerSeesItsOwn ==
    \A s \in Servers : own[s] # NoTask => cached[s] = own[s]

\* When no more values are set, all servers agree with Datastore in the end,
\* also the one whose upsert failed, and no failure lasts.
SettingsSettle ==
    <>[](\A s \in Servers : Fresh(s) => cached[s] \in {Lookup, entity})

=============================================================================
