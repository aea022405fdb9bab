\* No Impl is shared, used after delete, or cleaned up twice, through any order of construction, moves, close, headers and destruction.
CONSTANTS
    Objs = {o1, o2, o3}
    Impls = {p1, p2, p3}
    Null = Null
    MaxLists = 2
SYMMETRY Symmetry
SPECIFICATION Spec
\* Every object may be destroyed, after which the program has nothing left
\* to do with CurlConnection.
CHECK_DEADLOCK FALSE
INVARIANT TypeOK
INVARIANT OwnershipSound
INVARIANT NoDoubleCleanup
