\* add, release, deprecate and onebox runs in any order, with crashes.
CONSTANTS
    Missing = Missing
    Corrupt = Corrupt
    NoDb = NoDb
    p1 = p1
    p2 = p2
    mysql = mysql
    Providers <- MCProviders
    Engines <- MCEngines
    Envs <- MCEnvs
    Versions <- MCVersions
    InitEnvSets <- MCInitEnvSets
    InitTimelines <- MCInitTimelines
    DbMayBeAbsent = TRUE
SPECIFICATION Spec
CONSTRAINT TimelineBound
SYMMETRY ProviderSymmetry
INVARIANT TypeOK
INVARIANT OneboxForkedFromProd
PROPERTY KubeTimelinesAppendOnly
