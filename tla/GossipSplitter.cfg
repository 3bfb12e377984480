\* Four copies through channels of two, one failed hand-over or lost id.
SPECIFICATION FairSpec
CONSTANTS
    p1 = p1
    p2 = p2
    n1 = n1
    n2 = n2
    none = none
    Pyth <- MCPyth
    NonPyth <- MCNonPyth
    Invalid <- MCInvalid
    NoVaa <- none
    Size = 2
    MaxCopies = 4
    MaxFaults = 1
\* The process ends.
CHECK_DEADLOCK FALSE
INVARIANTS
    TypeOK
    PythLane
    EachTakenOnce
PROPERTIES
    SplitterLive
