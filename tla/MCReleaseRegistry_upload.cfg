\* A failed, unchecked upload of versions.json followed by the publish of latest.txt.
CONSTANTS
    NoFile = NoFile
    m1 = m1
    m2 = m2
    m3 = m3
    b1 = b1
    b2 = b2
    b3 = b3
    Machines <- MCMachines
    Builds <- MCBuilds
    CallsMayFail = TRUE
    Serialized = TRUE
SPECIFICATION RegistrySpec
SYMMETRY MachineSymmetry
INVARIANT LatestIsListed
