\* kluster.py and make.py runs interleaved, appctl and go-bindata failing.
CONSTANTS
    Missing = Missing
    Corrupt = Corrupt
    Value = Value
    CredOk = CredOk
    CredMissing = CredMissing
    n1 = n1
    n2 = n2
    Names <- MCNames
    NoBinary = NoBinary
    CLOUDS <- MCClouds
    MaxRev = 1
    BuildNames = {"pharmer", "kubernetes"}
SPECIFICATION DevSpec
SYMMETRY NameSymmetry
VIEW StateView
INVARIANT KlusterTypeOK
PROPERTY CreateRecordsNameFirst
PROPERTY BuiltFromFreshAssets
