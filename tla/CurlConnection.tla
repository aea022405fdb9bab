---------------------------- MODULE CurlConnection ----------------------------
(***************************************************************************)
(* Ownership in CurlConnection (src/src/curl_connect.cpp, lines 40-543):   *)
(* each CurlConnection object holds a _pimpl to a heap CurlConnectionImpl_,*)
(* which owns a libcurl easy handle (_handle), an error buffer             *)
(* (_error_buffer) and a header list (_header).  The options themselves   *)
(* are abstracted away (HTTPConnection.tla models those); here only who    *)
(* owns what, and when it is freed, is kept.                               *)
(*                                                                         *)
(* A member call through a null _pimpl (after the object was moved from)  *)
(* is undefined behaviour; callers may not do it, so the wrapper actions  *)
(* require a non-null _pimpl.                                              *)
(***************************************************************************)
EXTENDS Naturals

CONSTANTS
    Objs,       \* CurlConnection objects
    Impls,      \* heap addresses a CurlConnectionImpl_ may be allocated at
    Null,       \* nullptr
    MaxLists    \* bound on header lists allocated by one Impl

VARIABLES
    obj,        \* obj[o]: "unborn", "alive" or "dead"
    pimpl,      \* pimpl[o]: the Impl o points to, or Null
    impl        \* impl[p]: the Impl allocated at p and what it owns

vars == <<obj, pimpl, impl>>

(* An Impl: mem is the allocation itself; hptr is _handle != nullptr;     *)
(* hlive is the easy handle allocated and not yet cleaned up; cleanups    *)
(* counts curl_easy_cleanup calls on it; buf is _error_buffer allocated   *)
(* and not deleted; hdr is _header != nullptr; lists counts the header    *)
(* lists allocated and not freed; setup is CURLOPT_NOSIGNAL and           *)
(* CURLOPT_ERRORBUFFER set on the handle, as the constructor leaves them. *)
ImplState == [mem: {"unused", "live", "freed"}, hptr: BOOLEAN, hlive: BOOLEAN,
              cleanups: Nat, buf: BOOLEAN, hdr: BOOLEAN, lists: 0..MaxLists,
              setup: BOOLEAN]

Unused == [mem |-> "unused", hptr |-> FALSE, hlive |-> FALSE, cleanups |-> 0,
           buf |-> FALSE, hdr |-> FALSE, lists |-> 0, setup |-> FALSE]

\* CurlConnectionImpl_(): a new easy handle, a new error buffer, no headers,
\* and set_option(CURLOPT_NOSIGNAL) and set_option(CURLOPT_ERRORBUFFER).
Fresh == [Unused EXCEPT !.mem = "live", !.hptr = TRUE, !.hlive = TRUE, !.buf = TRUE,
                        !.setup = TRUE]

\* Mutant: close() cleans the handle up but leaves _handle set.
ImplClose_NoReset(r) ==
    [r EXCEPT !.hdr = FALSE, !.lists = IF r.hdr THEN @ - 1 ELSE @,
              !.hlive = IF r.hptr THEN FALSE ELSE @,
              !.cleanups = IF r.hptr THEN @ + 1 ELSE @]

\* CurlConnectionImpl_::close(): free the header list and clean the handle
\* up, each only if set, and null both.
ImplClose(r) ==
    [r EXCEPT !.hdr = FALSE, !.lists = IF r.hdr THEN @ - 1 ELSE @,
              !.hptr = FALSE, !.hlive = IF r.hptr THEN FALSE ELSE @,
              !.cleanups = IF r.hptr THEN @ + 1 ELSE @]

\* ~CurlConnectionImpl_(): close(), delete[] the error buffer; then delete
\* frees the Impl itself.
ImplDestroyed(r) == [ImplClose(r) EXCEPT !.buf = FALSE, !.mem = "freed"]

Init ==
    /\ obj = [o \in Objs |-> "unborn"]
    /\ pimpl = [o \in Objs |-> Null]
    /\ impl = [p \in Impls |-> Unused]

\* CurlConnection() and CurlConnection(url): new CurlConnectionImpl_.  The
\* Impl constructor's body throws from set_option(CURLOPT_NOSIGNAL) when
\* curl_easy_init returned NULL or the option is refused, or the new[] of
\* the error buffer in its member initialisers throws bad_alloc after
\* curl_easy_init: the Impl is not constructed, so no destructor runs and
\* new only frees the allocation.
\* With a URL, SET_url runs after the delegated constructor has finished,
\* so its throw does run the destructor.
Construct(o, withUrl) ==
    /\ obj[o] = "unborn"
    /\ \E p \in Impls :
        /\ impl[p].mem = "unused"
        /\ \/ /\ obj' = [obj EXCEPT ![o] = "alive"]
              /\ pimpl' = [pimpl EXCEPT ![o] = p]
              /\ impl' = [impl EXCEPT ![p] = Fresh]
           \/ /\ \E gotHandle, gotBuf \in BOOLEAN :
                    impl' = [impl EXCEPT ![p] = [Fresh EXCEPT !.mem = "freed",
                                                   !.hptr = FALSE, !.hlive = gotHandle,
                                                   !.buf = gotBuf, !.setup = FALSE]]
              /\ UNCHANGED <<obj, pimpl>>
           \/ /\ withUrl
              /\ impl' = [impl EXCEPT ![p] = ImplDestroyed(Fresh)]
              /\ UNCHANGED <<obj, pimpl>>

\* Mutant: the move constructor leaves the source's _pimpl set.
MoveConstruct_NoNull(o, s) ==
    /\ obj[o] = "unborn"
    /\ obj[s] = "alive"
    /\ obj' = [obj EXCEPT ![o] = "alive"]
    /\ pimpl' = [pimpl EXCEPT ![o] = pimpl[s]]
    /\ UNCHANGED impl

\* CurlConnection(CurlConnection&&): take the source's _pimpl, null it.
MoveConstruct(o, s) ==
    /\ obj[o] = "unborn"
    /\ obj[s] = "alive"
    /\ obj' = [obj EXCEPT ![o] = "alive"]
    /\ pimpl' = [pimpl EXCEPT ![o] = pimpl[s], ![s] = Null]
    /\ UNCHANGED impl

\* CurlConnection::operator==: different _pimpl gives false, both null
\* gives true, and an Impl compared with itself is equal.
Equal(o, s) == pimpl[o] = pimpl[s]

\* operator=(CurlConnection&&): unless equal, take the source's _pimpl and
\* null it.  The Impl this object held is not deleted.
MoveAssign(o, s) ==
    /\ obj[o] = "alive"
    /\ obj[s] = "alive"
    /\ ~Equal(o, s)
    /\ pimpl' = [pimpl EXCEPT ![o] = pimpl[s], ![s] = Null]
    /\ UNCHANGED <<obj, impl>>

\* ~CurlConnection(): delete _pimpl if set.
Destroy(o) ==
    /\ obj[o] = "alive"
    /\ obj' = [obj EXCEPT ![o] = "dead"]
    /\ impl' = IF pimpl[o] = Null THEN impl
               ELSE [impl EXCEPT ![pimpl[o]] = ImplDestroyed(@)]
    /\ UNCHANGED pimpl

\* close(): _pimpl->close().
Close(o) ==
    /\ obj[o] = "alive"
    /\ pimpl[o] # Null
    /\ impl' = [impl EXCEPT ![pimpl[o]] = ImplClose(@)]
    /\ UNCHANGED <<obj, pimpl>>

\* add_headers(): ADD_headers throws on a closed handle; otherwise each
\* header is curl_slist_append'ed to _header, the first allocating a list.
\* An append that fails returns NULL, which is stored in _header before the
\* throw, while the list it was given stays allocated.
AddHeaders(o) ==
    /\ obj[o] = "alive"
    /\ pimpl[o] # Null
    /\ LET r == impl[pimpl[o]] IN
        /\ r.hptr
        /\ \/ /\ r.hdr \/ r.lists < MaxLists
              /\ impl' = [impl EXCEPT ![pimpl[o]] =
                            [r EXCEPT !.hdr = TRUE, !.lists = IF r.hdr THEN @ ELSE @ + 1]]
           \/ impl' = [impl EXCEPT ![pimpl[o]] = [r EXCEPT !.hdr = FALSE]]
    /\ UNCHANGED <<obj, pimpl>>

\* Mutant: reset_headers frees the list but does not null _header.
ResetHeaders_NoNull(o) ==
    /\ obj[o] = "alive"
    /\ pimpl[o] # Null
    /\ LET r == impl[pimpl[o]] IN
        impl' = [impl EXCEPT ![pimpl[o]] =
                   [r EXCEPT !.lists = IF r.hdr THEN @ - 1 ELSE @]]
    /\ UNCHANGED <<obj, pimpl>>

\* reset_headers(): curl_slist_free_all(_header), then null it.
ResetHeaders(o) ==
    /\ obj[o] = "alive"
    /\ pimpl[o] # Null
    /\ LET r == impl[pimpl[o]] IN
        impl' = [impl EXCEPT ![pimpl[o]] =
                   [r EXCEPT !.hdr = FALSE, !.lists = IF r.hdr THEN @ - 1 ELSE @]]
    /\ UNCHANGED <<obj, pimpl>>

\* reset_options(): RESET_options runs RESET_headers, then curl_easy_reset
\* on the handle if it is set, which keeps the handle allocated but returns
\* every option to libcurl's default, NOSIGNAL and ERRORBUFFER included.
\* Unlike the option setters, it does not throw on a closed handle.
ResetOptions(o) ==
    /\ obj[o] = "alive"
    /\ pimpl[o] # Null
    /\ LET r == impl[pimpl[o]] IN
        impl' = [impl EXCEPT ![pimpl[o]] =
                   [r EXCEPT !.hdr = FALSE, !.lists = IF r.hdr THEN @ - 1 ELSE @,
                             !.setup = IF r.hptr THEN FALSE ELSE @]]
    /\ UNCHANGED <<obj, pimpl>>

Next ==
    \E o \in Objs :
        \/ \E withUrl \in BOOLEAN : Construct(o, withUrl)
        \/ \E s \in Objs : MoveConstruct(o, s) \/ MoveAssign(o, s)
        \/ Destroy(o) \/ Close(o) \/ AddHeaders(o) \/ ResetHeaders(o)
        \/ ResetOptions(o)

Spec == Init /\ [][Next]_vars

-----------------------------------------------------------------------------
(* Properties.                                                             *)

\* Types, with the header-list count never below zero: no header list is
\* freed twice through any sequence of add_headers, reset_headers,
\* reset_options, close and the destructor (each frees _header only when
\* it is set, and nulls it after).
TypeOK ==
    /\ obj \in [Objs -> {"unborn", "alive", "dead"}]
    /\ pimpl \in [Objs -> Impls \cup {Null}]
    /\ impl \in [Impls -> ImplState]

\* No Impl is deleted twice or used after it is deleted: two live objects
\* never hold the same _pimpl (the move constructor and move assignment
\* null the source), and the _pimpl of a live object is a live Impl.
OwnershipSound ==
    \A o \in Objs : obj[o] = "alive" /\ pimpl[o] # Null =>
        /\ impl[pimpl[o]].mem = "live"
        /\ \A o2 \in Objs \ {o} : obj[o2] = "alive" => pimpl[o2] # pimpl[o]

\* curl_easy_cleanup is called at most once per easy handle, through any
\* sequence of close() and the destructor.
NoDoubleCleanup == \A p \in Impls : impl[p].cleanups <= 1

\* Every allocated Impl is reachable from a live object, so its destructor
\* will run.  CurlConnectionImpl_'s own move assignment (lines 123-145)
\* frees the header list, handle and buffer it held before taking the
\* source's; the wrapper's move assignment is to do the same for _pimpl.
ImplOwned ==
    \A p \in Impls : impl[p].mem = "live" =>
        \E o \in Objs : obj[o] = "alive" /\ pimpl[o] = p

\* Every easy handle, error buffer and header list that was allocated is
\* held by a member of a constructed, not yet deleted Impl, which frees it:
\* the Impl's _handle, its _error_buffer, and the one list its _header
\* points to.  The Impl constructor throwing after curl_easy_init and the
\* new[] of the buffer (line 98), or curl_slist_append failing while a list
\* is held (line 319), are the paths that test it.
ResourcesOwned ==
    \A p \in Impls :
        /\ impl[p].mem # "live" => ~impl[p].hlive /\ ~impl[p].buf /\ impl[p].lists = 0
        /\ impl[p].mem = "live" =>
              /\ impl[p].hlive => impl[p].hptr
              /\ impl[p].lists = IF impl[p].hdr THEN 1 ELSE 0

\* Every open easy handle keeps the options CurlConnectionImpl_() set on it
\* (lines 98-100) for as long as the Impl uses it: CURLOPT_NOSIGNAL, without
\* which libcurl may use SIGALRM for name-resolve timeouts in a threaded
\* program, and CURLOPT_ERRORBUFFER, which execute reads to build every
\* CurlConnectionError (line 214).
HandleSetupKept ==
    \A p \in Impls : impl[p].mem = "live" /\ impl[p].hptr => impl[p].setup

=============================================================================
