------------------------ MODULE SharedHTTPConnection ------------------------
(***************************************************************************)
(* The shared-context registry of SharedHTTPConnection                     *)
(* (src/src/curl_connect.cpp, lines 620-816) and the threads that use it.  *)
(*                                                                         *)
(* `contexts` is the static unordered_map<int, Context>: per context id a *)
(* reference count, the shared HTTPConnection handle and the owner of the *)
(* Context's own mutex.  `global` is the owner of the static contexts_mtx. *)
(* `fe` holds the SharedHTTPConnection objects (front-ends), one per slot; *)
(* a thread works on one slot at a time.  Operations that hold only        *)
(* contexts_mtx and touch nothing else shared are single atomic steps      *)
(* (copy, assignment, close); the constructor and execute, which also take *)
(* a Context mutex, are split at every lock acquisition, and execute keeps *)
(* the Context mutex across a separate network-exchange step.              *)
(***************************************************************************)
EXTENDS HTTPConnection, Naturals, FiniteSets, TLC

CONSTANTS
    Threads,    \* threads of the program
    Slots,      \* SharedHTTPConnection objects
    Ids,        \* context ids
    MaxHeaders, \* bound on the length of a front-end's header list
    NoOwner,    \* owner of a free mutex
    Absent,     \* a slot holding no live object; a thread with no request
    HeaderData  \* the return_header_data arguments callers pass to execute

ASSUME MaxHeaders \in Nat /\ HeaderData \subseteq BOOLEAN

VARIABLES
    fe,         \* fe[s]: the SharedHTTPConnection in slot s, or Absent
    contexts,   \* the static registry: a function from a subset of Ids
    global,     \* owner of contexts_mtx
    th          \* th[t]: program counter and locals of thread t

vars == <<fe, contexts, global, th>>

FrontEnd == [open: BOOLEAN, id: Ids, url: Urls \cup {NoUrl},
             meth: Methods, headers: Seq(Headers), fields: Bodies \cup {NoBody}]

Context == [nref: Nat \ {0}, conn: Handle, owner: Threads \cup {NoOwner}]

\* A default-constructed Context, as unordered_map::operator[] inserts it:
\* no references and no connection.
DefaultContext == [nref |-> 0, conn |-> Absent, owner |-> NoOwner]

Idle == [pc |-> "idle", slot |-> Absent, id |-> Absent, url |-> Absent,
         meth |-> Absent, want |-> Absent, pushed |-> Absent, hd |-> Absent]

\* Slots some thread is working on; no other operation may touch them.
Busy == {th[t].slot : t \in Threads}

Init ==
    /\ fe = [s \in Slots |-> Absent]
    /\ contexts = <<>>
    /\ global = NoOwner
    /\ th = [t \in Threads |-> Idle]

-----------------------------------------------------------------------------
(* Registry helpers; the caller holds contexts_mtx.  When the entry is     *)
(* missing the code's assert aborts; the model then leaves the registry    *)
(* unchanged, which RefCountExact reports as a count mismatch.             *)

incr_ref(ctx, i) ==
    IF i \in DOMAIN ctx THEN [ctx EXCEPT ![i].nref = @ + 1] ELSE ctx

\* Mutant: the Context is never erased when its count reaches zero.
decr_ref_NoErase(ctx, i) ==
    IF i \notin DOMAIN ctx THEN ctx ELSE [ctx EXCEPT ![i].nref = @ - 1]

decr_ref(ctx, i) ==
    IF i \notin DOMAIN ctx THEN ctx
    ELSE IF ctx[i].nref - 1 = 0
         THEN [j \in DOMAIN ctx \ {i} |-> ctx[j]]
         ELSE [ctx EXCEPT ![i].nref = @ - 1]

nconnections(i) == IF i \in DOMAIN contexts THEN contexts[i].nref ELSE 0

-----------------------------------------------------------------------------
(* Constructor SharedHTTPConnection(url, meth, context_id).                *)

\* Thread t starts constructing the object of slot s.
CtorStart(t, s, i, u, m) ==
    /\ th[t].pc = "idle"
    /\ fe[s] = Absent
    /\ s \notin Busy
    /\ th' = [th EXCEPT ![t] = [Idle EXCEPT !.pc = "ctor", !.slot = s,
                                    !.id = i, !.url = u, !.meth = m]]
    /\ UNCHANGED <<fe, contexts, global>>

\* Mutant: contexts[id] is evaluated before the right side of the
\* assignment (the order a standard before C++17 allows), so a throwing
\* HTTPConnection constructor leaves a default Context behind.
CtorLock_InsertFirst(t) ==
    LET a == th[t] IN
    /\ a.pc = "ctor"
    /\ global = NoOwner
    /\ IF a.id \notin DOMAIN contexts
       THEN \/ /\ a.url \in BadUrls
               /\ th' = [th EXCEPT ![t] = Idle]
               /\ contexts' = contexts @@ (a.id :> DefaultContext)
               /\ UNCHANGED <<fe, global>>
            \/ /\ a.url \notin BadUrls
               /\ LET h == IF a.url = NoUrl THEN NewHandle(a.meth)
                           ELSE SetUrl(NewHandle(a.meth), a.url)
                  IN contexts' = incr_ref(contexts @@ (a.id :> [nref |-> 0,
                                                  conn |-> h, owner |-> NoOwner]),
                                          a.id)
               /\ fe' = [fe EXCEPT ![a.slot] =
                           [open |-> TRUE, id |-> a.id, url |-> a.url,
                            meth |-> a.meth, headers |-> <<>>, fields |-> NoBody]]
               /\ th' = [th EXCEPT ![t] = Idle]
               /\ UNCHANGED global
       ELSE /\ global' = t
            /\ th' = [th EXCEPT ![t].pc = "ctor_entry"]
            /\ UNCHANGED <<fe, contexts>>

\* Take contexts_mtx and look the id up.  A new id gets a Context with a new
\* HTTPConnection and the object is open.  On a bad URL the HTTPConnection
\* constructor throws; in `contexts[id] = Context(new ...)` C++17 evaluates
\* the right side first, so no entry is made.  An existing id keeps
\* contexts_mtx while the thread goes on to the Context's own mutex.
CtorLock(t) ==
    LET a == th[t] IN
    /\ a.pc = "ctor"
    /\ global = NoOwner
    /\ IF a.id \notin DOMAIN contexts
       THEN \/ /\ a.url \in BadUrls
               /\ th' = [th EXCEPT ![t] = Idle]
               /\ contexts' = contexts
               /\ UNCHANGED <<fe, global>>
            \/ /\ a.url \notin BadUrls
               /\ LET h == IF a.url = NoUrl THEN NewHandle(a.meth)
                           ELSE SetUrl(NewHandle(a.meth), a.url)
                  IN contexts' = incr_ref(contexts @@ (a.id :> [nref |-> 0,
                                                  conn |-> h, owner |-> NoOwner]),
                                          a.id)
               /\ fe' = [fe EXCEPT ![a.slot] =
                           [open |-> TRUE, id |-> a.id, url |-> a.url,
                            meth |-> a.meth, headers |-> <<>>, fields |-> NoBody]]
               /\ th' = [th EXCEPT ![t] = Idle]
               /\ UNCHANGED global
       ELSE /\ global' = t
            /\ th' = [th EXCEPT ![t].pc = "ctor_entry"]
            /\ UNCHANGED <<fe, contexts>>

CtorEntry(t) ==
    LET a == th[t]
        h == SetMethod(contexts[a.id].conn, a.meth)
    IN
    /\ a.pc = "ctor_entry"
    /\ contexts[a.id].owner = NoOwner
    /\ global' = NoOwner
    /\ th' = [th EXCEPT ![t] = Idle]
    /\ \/ /\ a.url \in BadUrls
          /\ contexts' = [contexts EXCEPT ![a.id].conn = h]
          /\ UNCHANGED fe
       \/ /\ a.url \notin BadUrls
          /\ contexts' = incr_ref([contexts EXCEPT ![a.id].conn =
                                      IF a.url = NoUrl THEN h ELSE SetUrl(h, a.url)],
                                  a.id)
          /\ fe' = [fe EXCEPT ![a.slot] =
                      [open |-> TRUE, id |-> a.id, url |-> a.url,
                       meth |-> a.meth, headers |-> <<>>, fields |-> NoBody]]

-----------------------------------------------------------------------------
(* Copy construction, copy assignment and close: each holds contexts_mtx   *)
(* for its whole registry update, so each is one step of an idle thread.   *)

\* A shared reference is counted only while contexts_mtx is free to take.
RegistryFree(t) == th[t].pc = "idle" /\ global = NoOwner

\* Mutant: the copy constructor copies _is_open but counts no reference.
Copy_NoIncr(t, s, g) ==
    /\ th[t].pc = "idle"
    /\ fe[s] = Absent /\ fe[g] # Absent
    /\ {s, g} \cap Busy = {}
    /\ fe[g].open => RegistryFree(t)
    /\ contexts' = contexts
    /\ fe' = [fe EXCEPT ![s] = fe[g]]
    /\ UNCHANGED <<global, th>>

\* SharedHTTPConnection(const SharedHTTPConnection&) into empty slot s.
Copy(t, s, g) ==
    /\ th[t].pc = "idle"
    /\ fe[s] = Absent /\ fe[g] # Absent
    /\ {s, g} \cap Busy = {}
    /\ fe[g].open => RegistryFree(t)
    /\ contexts' = IF fe[g].open THEN incr_ref(contexts, fe[g].id) ELSE contexts
    /\ fe' = [fe EXCEPT ![s] = fe[g]]
    /\ UNCHANGED <<global, th>>

\* Mutant: re-binding an open object to another id forgets to drop the
\* reference it held.
Assign_NoDecr(t, s, g) ==
    /\ RegistryFree(t)
    /\ fe[s] # Absent /\ fe[g] # Absent /\ fe[s] # fe[g]
    /\ {s, g} \cap Busy = {}
    /\ contexts' =
         IF fe[s].open # fe[g].open
         THEN IF fe[g].open THEN incr_ref(contexts, fe[g].id)
              ELSE decr_ref(contexts, fe[s].id)
         ELSE IF fe[s].id # fe[g].id /\ fe[s].open
              THEN incr_ref(contexts, fe[g].id)
              ELSE contexts
    /\ fe' = [fe EXCEPT ![s] = fe[g]]
    /\ UNCHANGED <<global, th>>

\* operator=(const SharedHTTPConnection&) of slot g into slot s; nothing
\* happens when operator== finds the two equal.
Assign(t, s, g) ==
    LET this == fe[s]
        other == fe[g]
    IN
    /\ RegistryFree(t)
    /\ this # Absent /\ other # Absent /\ this # other
    /\ {s, g} \cap Busy = {}
    /\ contexts' =
         IF this.open # other.open
         THEN IF other.open THEN incr_ref(contexts, other.id)
              ELSE decr_ref(contexts, this.id)
         ELSE IF this.id # other.id /\ this.open
              THEN incr_ref(decr_ref(contexts, this.id), other.id)
              ELSE contexts
    /\ fe' = [fe EXCEPT ![s] = other]
    /\ UNCHANGED <<global, th>>

\* close(): a no-op on a closed object, else drop the reference.
Close(t, s) ==
    /\ RegistryFree(t)
    /\ fe[s] # Absent /\ fe[s].open
    /\ s \notin Busy
    /\ contexts' = decr_ref(contexts, fe[s].id)
    /\ fe' = [fe EXCEPT ![s].open = FALSE]
    /\ UNCHANGED <<global, th>>

\* The destructor (declared in the header): close(), then the slot is free.
Destroy(t, s) ==
    /\ RegistryFree(t)
    /\ fe[s] # Absent
    /\ s \notin Busy
    /\ contexts' = IF fe[s].open THEN decr_ref(contexts, fe[s].id) ELSE contexts
    /\ fe' = [fe EXCEPT ![s] = Absent]
    /\ UNCHANGED <<global, th>>

-----------------------------------------------------------------------------
(* Setters of the pending request: they touch only the object itself.      *)

LocalUpdate(t, s, new) ==
    /\ th[t].pc = "idle"
    /\ fe[s] # Absent
    /\ s \notin Busy
    /\ fe' = [fe EXCEPT ![s] = new]
    /\ UNCHANGED <<contexts, global, th>>

\* set_url: only URLs with an http:// or https:// prefix are stored.
SetPendingUrl(t, s, u) == ValidUrl(u) /\ LocalUpdate(t, s, [fe[s] EXCEPT !.url = u])

SetPendingMethod(t, s, m) == LocalUpdate(t, s, [fe[s] EXCEPT !.meth = m])

AddPendingHeader(t, s, hd) ==
    /\ fe[s] # Absent /\ Len(fe[s].headers) < MaxHeaders
    /\ LocalUpdate(t, s, [fe[s] EXCEPT !.headers = Append(@, hd)])

SetPendingFields(t, s, b) == LocalUpdate(t, s, [fe[s] EXCEPT !.fields = b])

-----------------------------------------------------------------------------
(* execute(return_header_data).                                            *)

\* What execute means to send for object f: its URL, headers and method,
\* and its fields as the body when the method is not GET.
WantedRequest(f) ==
    [url |-> f.url, headers |-> f.headers, verb |-> f.meth,
     body |-> IF f.meth # "GET" /\ f.fields # NoBody THEN f.fields ELSE NoBody]

\* The pushes execute makes on the shared handle, in the code's order.
Configure(h, f) ==
    LET h1 == SetMethod(ReplaceHeaders(SetUrl(h, f.url), f.headers), f.meth)
    IN IF f.meth # "GET" /\ f.fields # NoBody THEN SetFields(h1, f.fields) ELSE h1

\* Mutant: execute without the is_closed() check.
ExecStart_NoClosedCheck(t, s, rh) ==
    /\ RegistryFree(t)
    /\ fe[s] # Absent
    /\ s \notin Busy
    /\ th' = [th EXCEPT ![t] = [Idle EXCEPT !.pc = "exec_entry", !.slot = s,
                                    !.id = fe[s].id, !.hd = rh]]
    /\ UNCHANGED <<fe, contexts, global>>

\* Mutant: _get_context looks the id up without taking contexts_mtx.
ExecStart_Unlocked(t, s, rh) ==
    /\ th[t].pc = "idle"
    /\ fe[s] # Absent /\ fe[s].open
    /\ s \notin Busy
    /\ th' = [th EXCEPT ![t] = [Idle EXCEPT !.pc = "exec_entry", !.slot = s,
                                    !.id = fe[s].id, !.hd = rh]]
    /\ UNCHANGED <<fe, contexts, global>>

\* execute(rh): throw if closed, else _get_context: look the id up under
\* contexts_mtx (taken and released here) and keep the reference to the
\* Context.
ExecStart(t, s, rh) ==
    /\ RegistryFree(t)
    /\ fe[s] # Absent /\ fe[s].open
    /\ s \notin Busy
    /\ th' = [th EXCEPT ![t] = [Idle EXCEPT !.pc = "exec_entry", !.slot = s,
                                    !.id = fe[s].id, !.hd = rh]]
    /\ UNCHANGED <<fe, contexts, global>>

\* Mutant: the pushes onto the shared handle are made without the mutex.
ExecLock_NoMutex(t) ==
    LET a == th[t]
        f == fe[a.slot]
    IN
    /\ a.pc = "exec_entry"
    /\ a.id \in DOMAIN contexts
    /\ \/ /\ f.url = NoUrl
          /\ th' = [th EXCEPT ![t] = Idle]
          /\ UNCHANGED <<fe, contexts>>
       \/ /\ f.url # NoUrl
          /\ LET h == SetWriteCallbacks(Configure(contexts[a.id].conn, f), a.hd) IN
             /\ contexts' = [contexts EXCEPT ![a.id].owner = t, ![a.id].conn = h]
             /\ th' = [th EXCEPT ![t].pc = "exec_io", ![t].want = WantedRequest(f),
                                 ![t].pushed = h]
          /\ fe' = [fe EXCEPT ![a.slot].fields = NoBody]
    /\ UNCHANGED global

\* Take the Context mutex and push the object's request onto the shared
\* handle; the fields are consumed.  An empty URL makes set_url throw before
\* anything is pushed, and the lock_guard releases the mutex.
ExecLock(t) ==
    LET a == th[t]
        f == fe[a.slot]
    IN
    /\ a.pc = "exec_entry"
    /\ a.id \in DOMAIN contexts
    /\ contexts[a.id].owner = NoOwner
    /\ \/ /\ f.url = NoUrl
          /\ th' = [th EXCEPT ![t] = Idle]
          /\ UNCHANGED <<fe, contexts>>
       \/ /\ f.url # NoUrl
          /\ LET h == SetWriteCallbacks(Configure(contexts[a.id].conn, f), a.hd) IN
             /\ contexts' = [contexts EXCEPT ![a.id].owner = t, ![a.id].conn = h]
             /\ th' = [th EXCEPT ![t].pc = "exec_io", ![t].want = WantedRequest(f),
                                 ![t].pushed = h]
          /\ fe' = [fe EXCEPT ![a.slot].fields = NoBody]
    /\ UNCHANGED global

\* curl_easy_perform on the shared handle, still under the Context mutex.
\* Whether it returns a result or throws CurlConnectionError, the lock_guard
\* releases the mutex and nothing else shared changes, so both outcomes are
\* this one step.
ExecIO(t) ==
    LET a == th[t] IN
    /\ a.pc = "exec_io"
    /\ contexts' = [contexts EXCEPT ![a.id].owner = NoOwner,
                                    ![a.id].conn = EndExecute(@)]
    /\ th' = [th EXCEPT ![t] = Idle]
    /\ UNCHANGED <<fe, global>>

-----------------------------------------------------------------------------

Next ==
    \/ \E t \in Threads :
          \/ CtorLock(t) \/ CtorEntry(t) \/ ExecLock(t) \/ ExecIO(t)
          \/ \E s \in Slots :
                \/ Close(t, s) \/ Destroy(t, s)
                \/ \E rh \in HeaderData : ExecStart(t, s, rh)
                \/ \E i \in Ids, u \in Urls \cup BadUrls \cup {NoUrl}, m \in Methods :
                      CtorStart(t, s, i, u, m)
                \/ \E g \in Slots : Copy(t, s, g) \/ Assign(t, s, g)
                \/ \E u \in Urls : SetPendingUrl(t, s, u)
                \/ \E m \in Methods : SetPendingMethod(t, s, m)
                \/ \E hd \in Headers : AddPendingHeader(t, s, hd)
                \/ \E b \in Bodies \cup {NoBody} : SetPendingFields(t, s, b)

\* A thread that has started a constructor or execute is never preempted
\* forever: each of its lock and push steps is weakly fair.  Starting an
\* operation is not, and neither is ExecIO: curl_easy_perform with no
\* timeout set may never return.
Fairness ==
    \A t \in Threads :
        /\ WF_vars(CtorLock(t)) /\ WF_vars(CtorEntry(t)) /\ WF_vars(ExecLock(t))

Spec == Init /\ [][Next]_vars

FairSpec == Spec /\ Fairness

-----------------------------------------------------------------------------
(* Properties.                                                             *)

\* Types; a stored Context always has a positive count (spec 3: "nref == 0
\* is never observed as a stored entry").
TypeOK ==
    /\ fe \in [Slots -> FrontEnd \cup {Absent}]
    /\ DOMAIN contexts \subseteq Ids
    /\ \A i \in DOMAIN contexts : contexts[i] \in Context
    /\ global \in Threads \cup {NoOwner}
    /\ \A t \in Threads :
          th[t].pc \in {"idle", "ctor", "ctor_entry", "exec_entry", "exec_io"}

\* Live objects of slot set that are open on context id i.
OpenRefs(i) == Cardinality({s \in Slots : fe[s] # Absent /\ fe[s].open /\ fe[s].id = i})

\* Spec 3 and 8: after any sequence of constructions, copies, assignments,
\* closes and destructions by any threads, nconnections(id) equals the
\* number of open SharedHTTPConnection objects bound to id (incr_ref,
\* decr_ref and the four branches of operator=).
RefCountExact == \A i \in Ids : nconnections(i) = OpenRefs(i)

\* execute keeps the Context& that _get_context returned after releasing
\* contexts_mtx: from that lookup until the network exchange ends, the
\* Context of the object's id is never erased.
NoDanglingContext ==
    \A t \in Threads :
        th[t].pc \in {"exec_entry", "exec_io"} => th[t].id \in DOMAIN contexts

\* Spec 4.2 and 8: the shared handle is the executing object's alone from
\* the first push (set_url) to the end of curl_easy_perform: the handle it
\* performs with is exactly the one its pushes produced (URL, header list,
\* method, body and callbacks), whatever other objects on the same id
\* construct (the constructor sets the method and URL of an existing
\* Context) or execute meanwhile.  What those pushes leave behind from
\* earlier executes is RequestIsOwn, HeaderCallbackLive and HeaderListLive.
HandleExclusive ==
    \A t \in Threads :
        th[t].pc = "exec_io" =>
            /\ th[t].id \in DOMAIN contexts
            /\ contexts[th[t].id].conn = th[t].pushed

\* Spec 4.2 and 8: the request execute sends is the executing object's own:
\* its method, and its fields as the body only when the method is not GET
\* and fields were set since the last execute ("a second execute without
\* re-setting fields sends an empty body").
RequestIsOwn ==
    \A t \in Threads :
        th[t].pc = "exec_io" =>
            /\ th[t].id \in DOMAIN contexts
            /\ SentRequest(contexts[th[t].id].conn) = th[t].want

\* curl_easy_perform never runs with CURLOPT_HEADERDATA pointing at a
\* WriteCallback that no longer exists: while an execute performs the
\* exchange, the shared handle's header callback is unset or belongs to
\* that execute, whatever earlier executes on the id (of this object or
\* of another on the same id) asked for.
HeaderCallbackLive ==
    \A t \in Threads :
        th[t].pc = "exec_io" =>
            /\ th[t].id \in DOMAIN contexts
            /\ contexts[th[t].id].conn.hdrcb # "dangling"

\* A transfer never runs with CURLOPT_HTTPHEADER pointing at a header list
\* that was freed: SharedHTTPConnection::execute calls reset_headers on the
\* shared handle and add_headers only when the object has headers, so
\* whatever an earlier execute (of any object on the id) set must have
\* been replaced or cleared before curl_easy_perform reads it.
HeaderListLive ==
    \A t \in Threads :
        th[t].pc = "exec_io" =>
            /\ th[t].id \in DOMAIN contexts
            /\ contexts[th[t].id].conn.hdrlist # "freed"

\* Spec 4.1 and 5: contexts_mtx is held only briefly and never across
\* network I/O: its holder never waits for a Context mutex that a thread
\* performing an exchange holds (the constructor on an existing id).
GlobalLockNotHeldAcrossIO ==
    ~ \E t, u \in Threads :
        /\ global = t /\ th[t].pc = "ctor_entry"
        /\ th[u].pc = "exec_io" /\ th[u].id = th[t].id

-----------------------------------------------------------------------------
(* Refinement: the registry with its two locks implements SharedRegistry.  *)
(* The abstract count of an id is nconnections(id); the abstract user of   *)
(* its handle is the owner of the Context mutex, none once erased.         *)

Registry == INSTANCE SharedRegistry
                WITH count <- [i \in Ids |-> nconnections(i)],
                     user  <- [i \in Ids |-> IF i \in DOMAIN contexts
                                             THEN contexts[i].owner ELSE NoOwner],
                     Users <- Threads,
                     NoUser <- NoOwner

\* Every step of constructors, copies, assignments, closes, destructions
\* and executes, in any interleaving, is a step of SharedRegistry: counts
\* move by one per binding (two ids at once in operator=), the handle is
\* used by one thread at a time and only on a counted id, and the last
\* binding never goes while the handle is in use.
RegistrySpec == Registry!Spec

=============================================================================
