\* Does execute send the executing object's own method and body?  One
\* thread suffices: the shared handle keeps options between executes.
CONSTANTS
    Threads = {t1}
    Slots = {s1, s2}
    Ids = {i1}
    Urls = {ua}
    BadUrls = {ubad}
    NoUrl = NoUrl
    Methods = {"GET", "POST", "DELETE", "PUT"}
    Headers = {h1}
    MaxHeaders = 0
    Bodies = {b1}
    NoBody = NoBody
    NoOwner = NoOwner
    Absent = Absent
    HeaderData = {FALSE}
SPECIFICATION Spec
INVARIANT RequestIsOwn
