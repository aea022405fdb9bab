\* The registry and its lock protocol implement the abstract SharedRegistry,
\* and contexts_mtx is released again unless a transfer on its id never
\* ends, under weak fairness of the lock and push steps of a started
\* constructor or execute.  Three objects, so that a copy, an
\* assignment and a close can meet on one id.
CONSTANTS
    Threads = {t1, t2}
    Slots = {s1, s2, s3}
    Ids = {i1, i2}
    Urls = {ua}
    BadUrls = {ubad}
    NoUrl = NoUrl
    Methods = {"GET"}
    Headers = {h1}
    MaxHeaders = 0
    Bodies = {b1}
    NoBody = NoBody
    NoOwner = NoOwner
    Absent = Absent
    HeaderData = {FALSE}
SPECIFICATION FairSpec
INVARIANT TypeOK
PROPERTY RegistrySpec
 
