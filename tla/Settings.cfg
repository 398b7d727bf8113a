SPECIFICATION FairSpec
CONSTANTS
    Servers = {s1, s2}
    s1 = s1
    s2 = s2
    Values = {v1, v2}
    v1 = v1
    v2 = v2
    Ttl = 2
    MaxFailures = 2
    NoEntity = NoEntity
    NoTask = NoTask
    Lookup = Lookup
    Failed = Failed
INVARIANT TypeOK
INVARIANT CachedIsRecent
INVARIANT ServerSeesItsOwn
PROPERTY SettingsSettle
