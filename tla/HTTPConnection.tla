--------------------------- MODULE HTTPConnection ---------------------------
(***************************************************************************)
(* The option state of one HTTPConnection (src/src/curl_connect.cpp): the  *)
(* libcurl easy handle owned by a CurlConnectionImpl_ and the HTTP-level   *)
(* setters that HTTPConnection layers on top of it.  Only the options that *)
(* decide WHAT request the handle sends are kept: URL, header list, the    *)
(* request method (libcurl keeps it in two independent options, the       *)
(* GET/POST request kind and the CUSTOMREQUEST verb string) and the copied *)
(* POST body, and the header callback that CurlConnectionImpl_::execute    *)
(* installs.  Encoding, keepalive, TLS and timeout options are set on      *)
(* every path that matters and never read back by the core, so they are   *)
(* left out.                                                               *)
(*                                                                         *)
(* A handle is a record; every operator below is a pure function from     *)
(* handle to handle, used by the actions of SharedHTTPConnection.          *)
(***************************************************************************)
EXTENDS Sequences

CONSTANTS
    Urls,       \* URLs with an "http://" or "https://" prefix
    BadUrls,    \* non-empty URLs with any other prefix
    NoUrl,      \* the empty string
    Methods,    \* a subset of {"GET", "POST", "DELETE", "PUT"}
    Headers,    \* header lines, as model values
    Bodies,     \* non-empty form-field lists, as model values
    NoBody      \* the empty form-field list / no CURLOPT_COPYPOSTFIELDS

ASSUME Methods \subseteq {"GET", "POST", "DELETE", "PUT"}

\* HTTPConnection::set_url and SharedHTTPConnection::set_url both accept
\* exactly the URLs whose scheme token is "http://" or "https://".
ValidUrl(u) == u \in Urls

\* What libcurl keeps of one handle.  `httpreq` is the request kind that
\* CURLOPT_HTTPGET / CURLOPT_POST / CURLOPT_COPYPOSTFIELDS select;
\* `customreq` is the CURLOPT_CUSTOMREQUEST string, "none" while unset.
\* `hdrcb` is what CURLOPT_HEADERFUNCTION / CURLOPT_HEADERDATA point at:
\* "none" while unset, "live" while they point at the WriteCallback of the
\* execute in progress, "dangling" once that WriteCallback is destroyed.
\* `hdrlist` is what CURLOPT_HTTPHEADER points at: "none" while unset,
\* "live" while it is the Impl's current _header list, "freed" once that
\* list was released by curl_slist_free_all and not replaced.
Handle == [url       : Urls \cup {NoUrl},
           headers   : Seq(Headers),
           httpreq   : {"GET", "POST"},
           customreq : {"none", "DELETE", "PUT"},
           postfields: Bodies \cup {NoBody},
           hdrcb     : {"none", "live", "dangling"},
           hdrlist   : {"none", "live", "freed"}]

\* HTTPConnection::_set_method: GET and POST select the request kind, DELETE
\* and PUT only set the custom verb and leave the request kind as it was.
SetMethod(h, m) ==
    CASE m = "GET"  -> [h EXCEPT !.httpreq = "GET"]
      [] m = "POST" -> [h EXCEPT !.httpreq = "POST"]
      [] OTHER      -> [h EXCEPT !.customreq = m]

\* A fresh handle (CurlConnectionImpl_() defaults) configured by the
\* HTTPConnection(meth) constructor; HTTPConnection(url, meth) then calls
\* set_url, which the caller applies with SetUrl after checking ValidUrl.
NewHandle(m) ==
    SetMethod([url |-> NoUrl, headers |-> <<>>, httpreq |-> "GET",
               customreq |-> "none", postfields |-> NoBody, hdrcb |-> "none",
               hdrlist |-> "none"], m)

\* HTTPConnection::set_url on a URL that passed ValidUrl: stores CURLOPT_URL.
SetUrl(h, u) == [h EXCEPT !.url = u]

\* RESET_headers: the slist is freed and _header nulled, but nothing tells
\* libcurl, so CURLOPT_HTTPHEADER keeps the address of the freed list.
ResetHeaders(h) ==
    [h EXCEPT !.headers = <<>>,
              !.hdrlist = IF @ = "live" THEN "freed" ELSE @]

\* ADD_headers(hs): an empty hs returns early; otherwise each line is
\* appended to _header (a new slist when it was null) and
\* set_option(CURLOPT_HTTPHEADER, _header) points libcurl at the list.
AddHeaders(h, hs) ==
    IF hs = <<>> THEN h ELSE [h EXCEPT !.headers = @ \o hs, !.hdrlist = "live"]

\* RESET_headers followed by ADD_headers(hs), as execute does.
ReplaceHeaders(h, hs) == AddHeaders(ResetHeaders(h), hs)

\* SET_fields on a non-empty list: CURLOPT_COPYPOSTFIELDS copies the body,
\* and libcurl switches the request kind to POST when it is set.
SetFields(h, b) == [h EXCEPT !.postfields = b, !.httpreq = "POST"]

\* CurlConnectionImpl_::execute(return_header_data), before the transfer:
\* CURLOPT_WRITEFUNCTION/WRITEDATA are pointed at the local cb_data on
\* every call, and CURLOPT_HEADERFUNCTION/HEADERDATA at the local
\* cb_header only when header data is asked for; otherwise they keep what
\* an earlier execute left.
SetWriteCallbacks(h, rh) == IF rh THEN [h EXCEPT !.hdrcb = "live"] ELSE h

\* execute returning or throwing: cb_data and cb_header go out of scope,
\* and the handle keeps their addresses.
EndExecute(h) == IF h.hdrcb = "live" THEN [h EXCEPT !.hdrcb = "dangling"] ELSE h

\* What curl_easy_perform reads as the header list when CURLOPT_HTTPHEADER
\* points at freed memory: no header list any object asked for.
FreedList == <<"freed list">>

\* The request curl_easy_perform sends from handle h: the custom verb wins
\* over the request kind, a body goes out only on a POST-kind request, and
\* the header lines are read through CURLOPT_HTTPHEADER.
SentRequest(h) ==
    [url     |-> h.url,
     headers |-> IF h.hdrlist = "freed" THEN FreedList ELSE h.headers,
     verb    |-> IF h.customreq = "none" THEN h.httpreq ELSE h.customreq,
     body    |-> IF h.httpreq = "POST" THEN h.postfields ELSE NoBody]

=============================================================================
