--------------------------- MODULE SharedRegistry ---------------------------
(***************************************************************************)
(* What the shared-context registry promises its users (spec 4.1, 4.2),    *)
(* stated without locks, maps or handles: per context id the number of    *)
(* open bindings and the one user, if any, of the shared handle.           *)
(*                                                                         *)
(*  - opening a binding adds one to the count of its id; closing one takes *)
(*    one away; re-binding an open object moves one from the old id to the *)
(*    new one in a single step;                                            *)
(*  - the handle of an id is used by one thread at a time, only while the  *)
(*    id has a binding, and the last binding is never dropped while the   *)
(*    handle is in use.                                                    *)
(***************************************************************************)
EXTENDS Naturals

CONSTANTS Ids, Users, NoUser

VARIABLES count, user

Init ==
    /\ count = [i \in Ids |-> 0]
    /\ user = [i \in Ids |-> NoUser]

Acquire(i) ==
    /\ count' = [count EXCEPT ![i] = @ + 1]
    /\ UNCHANGED user

Release(i) ==
    /\ count[i] > 0
    /\ count[i] = 1 => user[i] = NoUser
    /\ count' = [count EXCEPT ![i] = @ - 1]
    /\ UNCHANGED user

Rebind(i, j) ==
    /\ i # j
    /\ count[i] > 0
    /\ count[i] = 1 => user[i] = NoUser
    /\ count' = [count EXCEPT ![i] = @ - 1, ![j] = @ + 1]
    /\ UNCHANGED user

BeginUse(u, i) ==
    /\ count[i] > 0
    /\ user[i] = NoUser
    /\ user' = [user EXCEPT ![i] = u]
    /\ UNCHANGED count

EndUse(u, i) ==
    /\ user[i] = u
    /\ user' = [user EXCEPT ![i] = NoUser]
    /\ UNCHANGED count

Next ==
    \E i \in Ids :
        \/ Acquire(i) \/ Release(i)
        \/ \E j \in Ids : Rebind(i, j)
        \/ \E u \in Users : BeginUse(u, i) \/ EndUse(u, i)

Spec == Init /\ [][Next]_<<count, user>>

=============================================================================
