------------------------- MODULE OwnedLoadBalancers -------------------------
(***************************************************************************)
(* What the controller promises about the load balancers of one Service    *)
(* name, whatever happens in between: a Service has at most one, what is   *)
(* recorded on it is its own, what it publishes is what is recorded, and   *)
(* it goes only after the recorded one has.  How the controller keeps to   *)
(* this, over a stale cache, asynchronous creation, failed calls and       *)
(* restarts, is ServiceReconciler's subject.                               *)
(***************************************************************************)
EXTENDS Naturals

CONSTANTS
    Uids,   \* identities of the Services created under the name, not 0
    Ids     \* load balancer ids, not 0

VARIABLES
    service,    \* the Service of that name, 0 if there is none
    recorded,   \* the load balancer id recorded on it, 0 if there is none
    published,  \* the load balancer whose address it publishes, 0 if there is none
    owner,      \* the Service each load balancer was created for, 0 if not created
    up          \* load balancers that exist

vars == <<service, recorded, published, owner, up>>

Init ==
    /\ service = 0
    /\ recorded = 0
    /\ published = 0
    /\ owner = [i \in Ids |-> 0]
    /\ up = {}

Appear(uid) ==
    /\ service = 0
    /\ \A i \in Ids : owner[i] # uid
    /\ service' = uid
    /\ UNCHANGED <<recorded, published, owner, up>>

Create(i) ==
    /\ service # 0
    /\ owner[i] = 0
    /\ \A j \in up : owner[j] # service
    /\ owner' = [owner EXCEPT ![i] = service]
    /\ up' = up \cup {i}
    /\ UNCHANGED <<service, recorded, published>>

\* Deleted, or its creation failed after all.
Lose(i) ==
    /\ i \in up
    /\ up' = up \ {i}
    /\ UNCHANGED <<service, recorded, published, owner>>

Record(i) ==
    /\ service # 0
    /\ owner[i] = service
    /\ recorded' = i
    /\ UNCHANGED <<service, published, owner, up>>

Publish ==
    /\ recorded # 0
    /\ published' = recorded
    /\ UNCHANGED <<service, recorded, owner, up>>

Disappear ==
    /\ service # 0
    /\ recorded \notin up
    /\ service' = 0
    /\ recorded' = 0
    /\ published' = 0
    /\ UNCHANGED <<owner, up>>

Next ==
    \/ \E uid \in Uids : Appear(uid)
    \/ \E i \in Ids : Create(i) \/ Lose(i) \/ Record(i)
    \/ Publish \/ Disappear

Spec == Init /\ [][Next]_vars
=============================================================================
