\* Releases one at a time from three work trees, every gsutil call succeeding.
CONSTANTS
    NoFile = NoFile
    m1 = m1
    m2 = m2
    m3 = m3
    b1 = b1
    b2 = b2
    b3 = b3
    Machines <- MCMachines
    Builds <- MCBuilds
    CallsMayFail = FALSE
    Serialized = TRUE
SPECIFICATION RegistrySpec
SYMMETRY MachineSymmetry
INVARIANT RegistryTypeOK
INVARIANT LatestIsListed
PROPERTY RegistryKeepsReleases
PROPERTY RegistryRefinesAbstract
