\* Does a transfer ever run with the header list of an earlier execute?
\* Two objects on one id, one of them with a header.
CONSTANTS
    Threads = {t1}
    Slots = {s1, s2}
    Ids = {i1}
    Urls = {ua}
    BadUrls = {ubad}
    NoUrl = NoUrl
    Methods = {"GET"}
    Headers = {h1}
    MaxHeaders = 1
    Bodies = {b1}
    NoBody = NoBody
    NoOwner = NoOwner
    Absent = Absent
    HeaderData = {FALSE}
SPECIFICATION Spec
INVARIANT HeaderListLive
