------------------------ MODULE AdminSettingsProofs ------------------------
(***************************************************************************)
(* Proofs about AdminSettings for any number of servers, values and        *)
(* failures, and any expiration.                                           *)
(***************************************************************************)
EXTENDS AdminSettings, TLAPS

\* The answer a current lookup is about to give is as recent as one that is
\* in the cache: Datastore read it after the lookup began.
LookupsAreRecent ==
    \A s \in Servers :
        Fresh(s) /\ cached[s] = Lookup /\ lookup[s] \in Answers =>
            lookup[s] = entity \/ gone[lookup[s]] <= age[s]

SettingsInv ==
    /\ TypeOK
    /\ CachedIsRecent
    /\ LookupsAreRecent
    /\ ServerSeesItsOwn

USE ValuesAssumption, BoundsAssumption DEF Answers, Forever

-----------------------------------------------------------------------------
LEMMA InitSettings == Init => SettingsInv
BY DEF Init, SettingsInv, TypeOK, CachedIsRecent, LookupsAreRecent,
       ServerSeesItsOwn, Fresh

\* A second makes everything older by one, up to the expiration.
LEMMA OlderType == \A a \in 0..Forever : Older(a) \in 0..Forever
BY DEF Older

LEMMA NextType == TypeOK /\ [Next]_vars => TypeOK'
<1> SUFFICES ASSUME TypeOK, [Next]_vars PROVE TypeOK'
  OBVIOUS
<1> USE DEF TypeOK, Fresh
<1>1. ASSUME NEW s \in Servers, LookupEntity(s) PROVE TypeOK'
  BY <1>1 DEF LookupEntity, StartLookup
<1>2. ASSUME NEW s \in Servers, LookupReads(s) PROVE TypeOK'
  BY <1>2 DEF LookupReads
<1>3. ASSUME NEW s \in Servers, LookupAnswers(s) PROVE TypeOK'
  BY <1>3 DEF LookupAnswers, Settle
<1>4. ASSUME NEW s \in Servers, LookupFails(s) PROVE TypeOK'
  BY <1>4 DEF LookupFails, Settle
<1>5. ASSUME NEW s \in Servers, SetDumbExpires(s) PROVE TypeOK'
  BY <1>5 DEF SetDumbExpires
<1>6. CASE UpsertArrives
  BY <1>6 DEF UpsertArrives, Store
<1>7. CASE UpsertFails
  BY <1>7 DEF UpsertFails
<1>8. CASE Tick
  <2>1. age' \in [Servers -> 0..Forever] /\ gone' \in [Answers -> 0..Forever]
    BY <1>8, OlderType DEF Tick
  <2>2. \A s \in Servers : Fresh(s)' => Fresh(s)
    BY <1>8 DEF Tick, Older
  <2>3. QED
    BY <1>8, <2>1, <2>2 DEF Tick
<1>9. CASE UNCHANGED vars
  BY <1>9 DEF vars
<1>10. QED
  BY <1>1, <1>2, <1>3, <1>4, <1>5, <1>6, <1>7, <1>8, <1>9 DEF Next

\* The cache and the lookups stay recent, and a server keeps the value it
\* has set.
LEMMA NextRecent ==
    SettingsInv /\ [Next]_vars =>
        CachedIsRecent' /\ LookupsAreRecent' /\ ServerSeesItsOwn'
<1> SUFFICES ASSUME SettingsInv, [Next]_vars
             PROVE  CachedIsRecent' /\ LookupsAreRecent' /\ ServerSeesItsOwn'
  OBVIOUS
<1> USE DEF SettingsInv, TypeOK, CachedIsRecent, LookupsAreRecent,
            ServerSeesItsOwn, Fresh
<1>1. ASSUME NEW s \in Servers, LookupEntity(s)
      PROVE  CachedIsRecent' /\ LookupsAreRecent' /\ ServerSeesItsOwn'
  BY <1>1 DEF LookupEntity, StartLookup
<1>2. ASSUME NEW s \in Servers, LookupReads(s)
      PROVE  CachedIsRecent' /\ LookupsAreRecent' /\ ServerSeesItsOwn'
  BY <1>2 DEF LookupReads
<1>3. ASSUME NEW s \in Servers, LookupAnswers(s)
      PROVE  CachedIsRecent' /\ LookupsAreRecent' /\ ServerSeesItsOwn'
  BY <1>3 DEF LookupAnswers, Settle
<1>4. ASSUME NEW s \in Servers, LookupFails(s)
      PROVE  CachedIsRecent' /\ LookupsAreRecent' /\ ServerSeesItsOwn'
  BY <1>4 DEF LookupFails, Settle
<1>5. ASSUME NEW s \in Servers, SetDumbExpires(s)
      PROVE  CachedIsRecent' /\ LookupsAreRecent' /\ ServerSeesItsOwn'
  BY <1>5 DEF SetDumbExpires
<1>6. CASE UpsertArrives
  BY <1>6 DEF UpsertArrives, Store
<1>7. CASE UpsertFails
  BY <1>7 DEF UpsertFails
<1>8. CASE Tick
  <2>1. \A s \in Servers, v \in Answers :
          Fresh(s)' => Fresh(s) /\ (gone[v] <= age[s] => gone'[v] <= age'[s])
    BY <1>8 DEF Tick, Older
  <2>2. UNCHANGED <<entity, cached, lookup, own>>
    BY <1>8 DEF Tick
  <2>3. QED
    BY <2>1, <2>2
<1>9. CASE UNCHANGED vars
  BY <1>9 DEF vars
<1>10. QED
  BY <1>1, <1>2, <1>3, <1>4, <1>5, <1>6, <1>7, <1>8, <1>9 DEF Next

\* The inductive invariant of the settings.
THEOREM SettingsAreSafe == Spec => []SettingsInv
<1>1. Init => SettingsInv
  BY InitSettings
<1>2. SettingsInv /\ [Next]_vars => SettingsInv'
  BY NextType, NextRecent DEF SettingsInv
<1>3. QED
  BY <1>1, <1>2, PTL DEF Spec

\* The state stays within its types, and no caller awaits null.
THEOREM SettingsTypeCorrect == Spec => []TypeOK
<1>1. SettingsInv => TypeOK
  BY DEF SettingsInv
<1>2. QED
  BY <1>1, SettingsAreSafe, PTL

\* No answer out of the cache of LookupEntityAsync is older than the
\* expiration.
THEOREM CacheIsRecent == Spec => []CachedIsRecent
<1>1. SettingsInv => CachedIsRecent
  BY DEF SettingsInv
<1>2. QED
  BY <1>1, SettingsAreSafe, PTL

\* After SetDumbExpiresAsync a server gives out that value until it looks
\* the settings up again.
THEOREM OwnValueIsSeen == Spec => []ServerSeesItsOwn
<1>1. SettingsInv => ServerSeesItsOwn
  BY DEF SettingsInv
<1>2. QED
  BY <1>1, SettingsAreSafe, PTL

=============================================================================
