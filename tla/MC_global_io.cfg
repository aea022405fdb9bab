\* Is contexts_mtx ever held while its holder waits on a network exchange?
CONSTANTS
    Threads = {t1, t2}
    Slots = {s1, s2}
    Ids = {i1}
    Urls = {ua}
    BadUrls = {ubad}
    NoUrl = NoUrl
    Methods = {"GET"}
    Headers = {h1}
    MaxHeaders = 0
    Bodies = {b1}
    NoBody = NoBody
    NoOwner = NoOwner
    Absent = Absent
    HeaderData = {FALSE}
SPECIFICATION Spec
INVARIANT GlobalLockNotHeldAcrossIO
