---------------------------- MODULE ClusterNodes ----------------------------
(***************************************************************************)
(* The cluster's Nodes as the controller's informer cache holds them, the  *)
(* events the informer hands to the controller, and what the controller    *)
(* reads off a Node: whether it is a backend, and at which addresses.      *)
(*                                                                         *)
(* The informer changes its cache first and notifies the controller        *)
(* afterwards: `nodes' is ahead of the notifications.  A notification is   *)
(* counted in `nodeEvents' if the controller's predicate lets it pass.  A  *)
(* Node may jump from any state to any other, because a watch that was     *)
(* interrupted skips the versions in between.                              *)
(***************************************************************************)
EXTENDS Naturals, Functions

CONSTANTS
    Nodes,           \* names of Nodes
    Ips,             \* internal addresses
    NodeStates,      \* the states a Node may be in: a subset of NodeState
    MaxNodeChanges   \* changes of Nodes (bound)

\* The status of the Ready condition, "" if there is no such condition; the
\* value of the label exclude-from-external-load-balancers; and the addresses
\* of type InternalIP.
NodeState ==
    [ready: {"True", "False", "Unknown", ""},
     exclude: {"unset", "true", "false", "unparsable"},
     ips: SUBSET Ips]

ASSUME NodesAssumption ==
    /\ NodeStates \subseteq NodeState
    /\ MaxNodeChanges \in Nat

VARIABLES
    nodes,        \* the Nodes in the informer cache
    nodeEvents,   \* notifications that passed the predicate and are not handled yet
    nodeChanges,  \* changes so far
    overlooked    \* something the code does not follow up has happened

nodeVars == <<nodes, nodeEvents, nodeChanges>>

NodesTypeOK ==
    /\ DOMAIN nodes \subseteq Nodes
    /\ nodes \in [DOMAIN nodes -> NodeStates]
    /\ nodeEvents \in 0..nodeChanges
    /\ nodeChanges \in 0..MaxNodeChanges
    /\ overlooked \in BOOLEAN

NodesInit ==
    /\ nodes \in UNION {[present -> NodeStates] : present \in SUBSET Nodes}
    /\ nodeEvents = 0
    /\ nodeChanges = 0
    /\ overlooked = FALSE

-----------------------------------------------------------------------------
(* What the controller reads off a Node *)

isNodeReady(node) == node.ready = "True"

\* Mutant: the label alone excludes, whatever its value.
unlabelled(node) == node.exclude = "unset"

\* A label that does not parse as false excludes.
isNodeIncluded(node) == node.exclude \in {"unset", "false"}

\* The addresses of the backends every listener gets.
internalIPs(list) ==
    UNION {list[n].ips : n \in {m \in DOMAIN list : isNodeReady(list[m]) /\ isNodeIncluded(list[m])}}

\* Mutant: a Node that was excluded or left out is not looked at again.
onlyReadiness(e) ==
    \/ e.kind = "delete"
    \/ e.kind = "create" /\ isNodeIncluded(e.new)
    \/ /\ e.kind = "update"
       /\ isNodeIncluded(e.new)
       /\ isNodeReady(e.old) # isNodeReady(e.new)

\* The Node events that reconcile the Services.
nodeEventPredicate(e) ==
    CASE e.kind = "create" -> isNodeIncluded(e.new)
      [] e.kind = "update" -> \/ isNodeIncluded(e.old) # isNodeIncluded(e.new)
                              \/ /\ isNodeIncluded(e.new)
                                 /\ isNodeReady(e.old) # isNodeReady(e.new)
      [] e.kind = "delete" -> TRUE

-----------------------------------------------------------------------------
(* Nodes change *)

\* A backend's addresses change and nothing else the controller looks at.
OnlyAddressesChanged(e) ==
    /\ e.kind = "update"
    /\ isNodeReady(e.old) /\ isNodeReady(e.new)
    /\ isNodeIncluded(e.old) /\ isNodeIncluded(e.new)
    /\ e.old.ips # e.new.ips

Notify(kind, old, new) ==
    LET e == [kind |-> kind, old |-> old, new |-> new]
    IN  /\ nodeEvents' = IF nodeEventPredicate(e) THEN nodeEvents + 1 ELSE nodeEvents
        /\ overlooked' = (overlooked \/ OnlyAddressesChanged(e))

NodeAdded(n) ==
    /\ n \notin DOMAIN nodes
    /\ \E state \in NodeStates :
          /\ nodes' = [m \in DOMAIN nodes \cup {n} |-> IF m = n THEN state ELSE nodes[m]]
          /\ Notify("create", state, state)

NodeUpdated(n) ==
    /\ n \in DOMAIN nodes
    /\ \E state \in NodeStates \ {nodes[n]} :
          /\ nodes' = [nodes EXCEPT ![n] = state]
          /\ Notify("update", nodes[n], state)

NodeRemoved(n) ==
    /\ n \in DOMAIN nodes
    /\ nodes' = Restrict(nodes, DOMAIN nodes \ {n})
    /\ Notify("delete", nodes[n], nodes[n])

NodeChange ==
    /\ nodeChanges < MaxNodeChanges
    /\ nodeChanges' = nodeChanges + 1
    /\ \E n \in Nodes : NodeAdded(n) \/ NodeUpdated(n) \/ NodeRemoved(n)
=============================================================================
