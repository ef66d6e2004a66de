----------------------------- MODULE MCDevTools -----------------------------
EXTENDS DevTools, TLC

CONSTANTS n1, n2

MCNames == {n1, n2}

NameSymmetry == Permutations(MCNames)

\* Three clouds of the CLOUDS list, in its order.
MCClouds == <<"aliyun", "aws", "azure">>

\* The state without last and blast: no step reads them, and the action
\* properties read only their primed values, which every step sets anew.
StateView == <<file, clusters, data, bindata, installed, dist, pushed>>
=============================================================================
