\* Does every open easy handle keep NOSIGNAL and its error buffer?
CONSTANTS
    Objs = {o1}
    Impls = {p1}
    Null = Null
    MaxLists = 1
SYMMETRY Symmetry
SPECIFICATION Spec
\* Every object may be destroyed, after which the program has nothing left
\* to do with CurlConnection.
CHECK_DEADLOCK FALSE
INVARIANT HandleSetupKept
