\* Registry lifetime, dangling Context references and request isolation
\* for two threads over two objects and two context ids.
CONSTANTS
    Threads = {t1, t2}
    Slots = {s1, s2}
    Ids = {i1, i2}
    Urls = {ua, ub}
    BadUrls = {ubad}
    NoUrl = NoUrl
    Methods = {"GET", "POST"}
    Headers = {h1}
    MaxHeaders = 1
    Bodies = {b1}
    NoBody = NoBody
    NoOwner = NoOwner
    Absent = Absent
    HeaderData = {FALSE}
SPECIFICATION Spec
SYMMETRY Symmetry
INVARIANT RefCountExact
INVARIANT NoDanglingContext
INVARIANT HandleExclusive
