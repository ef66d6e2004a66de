\* onebox.py after db.py, every provider starting with a db section.
CONSTANTS
    Missing = Missing
    Corrupt = Corrupt
    NoDb = NoDb
    p1 = p1
    p2 = p2
    mysql = mysql
    Providers <- MCProviders
    Engines <- MCEngines
    Envs <- MCEnvs
    Versions <- MCVersions
    InitEnvSets <- MCInitEnvSets
    InitTimelines <- MCInitTimelines
    DbMayBeAbsent = FALSE
SPECIFICATION Spec
CONSTRAINT TimelineBound
SYMMETRY ProviderSymmetry
PROPERTY BackfillCompletes
