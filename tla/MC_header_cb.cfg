\* Does a transfer ever run with the header callback of an earlier execute?
CONSTANTS
    Threads = {t1}
    Slots = {s1}
    Ids = {i1}
    Urls = {ua}
    BadUrls = {ubad}
    NoUrl = NoUrl
    Methods = {"GET"}
    Headers = {h1}
    MaxHeaders = 0
    Bodies = {b1}
    NoBody = NoBody
    NoOwner = NoOwner
    Absent = Absent
    HeaderData = {FALSE, TRUE}
SPECIFICATION Spec
INVARIANT HeaderCallbackLive
