---------------------------- MODULE BackendSync ----------------------------
(***************************************************************************)
(* How the load balancers of several Services follow the cluster's Nodes:  *)
(* the Node events of ClusterNodes are mapped to keys of the WorkQueue,    *)
(* and one worker takes the keys one by one.  A pass reads the Nodes from  *)
(* the cache before the calls that use what it read, and again for the     *)
(* firewall rule.                                                          *)
(*                                                                         *)
(* ServiceReconciler has every step of a pass for one Service; here a pass *)
(* is reduced to the steps that read Nodes, write backends, or hold up the *)
(* worker.  Every Service has one port and a managed firewall rule.        *)
(***************************************************************************)
EXTENDS ClusterNodes, WorkQueue

CONSTANT
    MaxFaults   \* failed calls, operations and reads of the cache, restarts (bound)

ASSUME SyncAssumption == MaxFaults \in Nat

VARIABLES
    services,      \* "absent", "new", or "recorded" with a load balancer id
    lbs,           \* the load balancer of each Service, as the Crusoe API has it
    rules,         \* Services with a firewall rule, or an operation creating it
    pc,            \* where the worker is
    hand,          \* the listeners this pass read from the cache
    faults         \* failed calls, operations and reads, and restarts so far

syncVars == <<services, lbs, rules>>
passVars == <<pc, hand>>
vars == <<nodeVars, overlooked, queueVars, syncVars, passVars, faults>>

\* What parseListenPortsAndBackends returns: one listener with its backends,
\* or, when the Nodes cannot be listed, no listener at all.
Listeners == [listed: BOOLEAN, backends: SUBSET Ips]

NoListeners == [listed |-> FALSE, backends |-> {}]

LoadBalancer ==
    [op: {"none", "IN_PROGRESS", "SUCCEEDED", "FAILED"}, listeners: Listeners]

\* Every variable holds a value of its kind.
TypeOK ==
    /\ NodesTypeOK
    /\ QueueTypeOK
    /\ services \in [Services -> {"absent", "new", "recorded"}]
    /\ lbs \in [Services -> LoadBalancer]
    /\ rules \subseteq Services
    /\ pc \in {"idle", "list", "lookup", "create", "wait", "record", "update", "rule"}
    /\ hand \in Listeners
    /\ faults \in 0..MaxFaults

Init ==
    /\ NodesInit
    /\ QueueInit
    /\ services = [s \in Services |-> "absent"]
    /\ lbs = [s \in Services |-> [op |-> "none", listeners |-> NoListeners]]
    /\ rules = {}
    /\ pc = "idle"
    /\ hand = NoListeners
    /\ faults = 0

Known == {s \in Services : services[s] # "absent"}

-----------------------------------------------------------------------------
(* Events *)

NodesChange ==
    /\ NodeChange
    /\ UNCHANGED <<queueVars, syncVars, passVars, faults>>

\* Mutant: the event reconciles one Service.
OneService == {s \in Known : s = CHOOSE t \in Known : TRUE}

\* All cached Services of type LoadBalancer.
mapNodeToLBServices == Known

\* The event is lost if the Services cannot be listed.
HandleNodeEvent ==
    /\ nodeEvents > 0
    /\ nodeEvents' = nodeEvents - 1
    /\ \/ /\ Add(mapNodeToLBServices)
          /\ UNCHANGED <<faults, overlooked>>
       \/ /\ faults < MaxFaults
          /\ faults' = faults + 1
          /\ overlooked' = TRUE
          /\ UNCHANGED queueVars
    /\ UNCHANGED <<nodes, nodeChanges, syncVars, passVars>>

UserCreates(s) ==
    /\ services[s] = "absent"
    /\ services' = [services EXCEPT ![s] = "new"]
    /\ Add({s})
    /\ UNCHANGED <<nodeVars, lbs, rules, passVars, faults, overlooked>>

\* The informer hands out every Service again (controller-runtime's default is
\* every ten hours).
Resync ==
    /\ Add(Known)
    /\ overlooked' = FALSE
    /\ UNCHANGED <<nodeVars, syncVars, passVars, faults>>

OperationSettles(s) ==
    /\ lbs[s].op = "IN_PROGRESS"
    /\ lbs' = [lbs EXCEPT ![s].op = "SUCCEEDED"]
    /\ UNCHANGED <<nodeVars, queueVars, services, rules, passVars, faults, overlooked>>

\* A failed operation leaves no load balancer, here.  Nothing looks at the
\* operation of one that was adopted while it was being provisioned.
OperationFails(s) ==
    /\ lbs[s].op = "IN_PROGRESS"
    /\ faults < MaxFaults
    /\ faults' = faults + 1
    /\ lbs' = [lbs EXCEPT ![s] = [op |-> "FAILED", listeners |-> NoListeners]]
    /\ overlooked' = (overlooked \/ services[s] = "recorded")
    /\ UNCHANGED <<nodeVars, queueVars, services, rules, passVars>>

-----------------------------------------------------------------------------
(* The worker *)

\* Mutant: a RequeueAfter or an error does not bring the key back.
FinishForGood(s, retry) ==
    /\ Done(s, FALSE)
    /\ pc' = "idle"
    /\ hand' = NoListeners

Finish(s, retry) ==
    /\ Done(s, retry)
    /\ pc' = "idle"
    /\ hand' = NoListeners

Goto(point) == pc' = point /\ UNCHANGED queueVars

Reconcile(s) ==
    /\ pc = "idle"
    /\ Take(s)
    /\ pc' = "list"
    /\ UNCHANGED <<nodeVars, syncVars, hand, faults, overlooked>>

\* The listeners are put together at the start of handleCreate, before it looks
\* up and creates the load balancer, or of updateLoadBalancer.
parseListenPortsAndBackends(s) ==
    /\ pc = "list"
    /\ \/ /\ hand' = [listed |-> TRUE, backends |-> internalIPs(nodes)]
          /\ UNCHANGED faults
       \/ /\ faults < MaxFaults
          /\ faults' = faults + 1
          /\ hand' = NoListeners
    /\ Goto(IF services[s] = "new" THEN "lookup" ELSE "update")
    /\ UNCHANGED <<nodeVars, syncVars, overlooked>>

\* An adopted load balancer keeps the listeners it has.
LookUp(s) ==
    /\ pc = "lookup"
    /\ Goto(IF lbs[s].op \in {"none", "FAILED"} THEN "create" ELSE "record")
    /\ UNCHANGED <<nodeVars, syncVars, hand, faults, overlooked>>

CreateLoadBalancer(s) ==
    /\ pc = "create"
    /\ lbs' = [lbs EXCEPT ![s] = [op |-> "IN_PROGRESS", listeners |-> hand]]
    /\ Goto("wait")
    /\ UNCHANGED <<nodeVars, services, rules, hand, faults, overlooked>>

\* A request without listeners may be answered 4xx, which is not retried.
CreateRefused(s) ==
    /\ pc = "create"
    /\ ~hand.listed
    /\ Finish(s, FALSE)
    /\ overlooked' = TRUE
    /\ UNCHANGED <<nodeVars, syncVars, faults>>

\* Mutant: the loop looks at the operation it was called with, again and again.
submitted(s) == "IN_PROGRESS"

\* The operation's state as the last poll returned it.
polled(s) == lbs[s].op

\* The worker polls until the operation has settled.
WaitForOperation(s) ==
    /\ pc = "wait"
    /\ \/ /\ polled(s) = "SUCCEEDED"
          /\ Goto("record")
          /\ UNCHANGED hand
       \/ /\ polled(s) = "FAILED"
          /\ Finish(s, TRUE)
    /\ UNCHANGED <<nodeVars, syncVars, faults, overlooked>>

\* Without a VIP the pass ends and another one is asked for.
RecordLoadBalancer(s) ==
    /\ pc = "record"
    /\ services' = [services EXCEPT ![s] = "recorded"]
    /\ \/ /\ Add({s})
          /\ pc' = "rule"
          /\ UNCHANGED hand
       \/ Finish(s, TRUE)
    /\ UNCHANGED <<nodeVars, lbs, rules, faults, overlooked>>

\* "The update API rejects an empty listener list".
ApiAcceptsUpdate(s, listeners) == listeners.listed /\ lbs[s].op # "FAILED"

\* Mutant: the status of the response is not looked at.
UpdateUnchecked(s) ==
    /\ pc = "update"
    /\ lbs' = IF ApiAcceptsUpdate(s, hand) THEN [lbs EXCEPT ![s].listeners = hand] ELSE lbs
    /\ Goto("rule")
    /\ UNCHANGED <<nodeVars, services, rules, hand, faults, overlooked>>

\* A failed update comes back after ten seconds.
UpdateLoadBalancer(s) ==
    /\ pc = "update"
    /\ \/ /\ ApiAcceptsUpdate(s, hand)
          /\ lbs' = [lbs EXCEPT ![s].listeners = hand]
          /\ Goto("rule")
          /\ UNCHANGED hand
       \/ /\ ~ApiAcceptsUpdate(s, hand)
          /\ Finish(s, TRUE)
          /\ UNCHANGED lbs
    /\ UNCHANGED <<nodeVars, services, rules, faults, overlooked>>

\* GetFirewallRuleArgs reads the Nodes again.  Without a backend, or without an
\* answer, there is no rule to ask for, and no retry.
EnsureFirewallRule(s) ==
    /\ pc = "rule"
    /\ \/ /\ internalIPs(nodes) # {}
          /\ rules' = rules \cup {s}
          /\ Finish(s, s \notin rules)
          /\ UNCHANGED <<faults, overlooked>>
       \/ /\ internalIPs(nodes) = {}
          /\ Finish(s, FALSE)
          /\ UNCHANGED <<rules, faults, overlooked>>
       \/ /\ faults < MaxFaults
          /\ faults' = faults + 1
          /\ overlooked' = (overlooked \/ s \notin rules)
          /\ Finish(s, FALSE)
          /\ UNCHANGED rules
    /\ UNCHANGED <<nodeVars, services, lbs>>

\* A call fails, or the reply to the call before it was lost.
CallFails(s) ==
    /\ pc \notin {"idle", "list"}
    /\ faults < MaxFaults
    /\ faults' = faults + 1
    /\ Finish(s, TRUE)
    /\ UNCHANGED <<nodeVars, syncVars, overlooked>>

\* A restarted controller is handed every Service.  It is handed every Node as
\* well, which asks for nothing that is not asked for already.
Crash ==
    /\ faults < MaxFaults
    /\ faults' = faults + 1
    /\ Restarted(Known)
    /\ nodeEvents' = 0
    /\ pc' = "idle"
    /\ hand' = NoListeners
    /\ overlooked' = FALSE
    /\ UNCHANGED <<nodes, nodeChanges, services, lbs, rules>>

-----------------------------------------------------------------------------
Pass(s) ==
    \/ parseListenPortsAndBackends(s)
    \/ LookUp(s) \/ CreateLoadBalancer(s) \/ CreateRefused(s) \/ WaitForOperation(s)
    \/ RecordLoadBalancer(s) \/ UpdateLoadBalancer(s) \/ EnsureFirewallRule(s)

Worker ==
    \/ \E s \in Services : Reconcile(s)
    \/ \E s \in processing : Pass(s)

Next ==
    \/ Worker \/ \E s \in processing : CallFails(s)
    \/ Crash
    \/ NodesChange \/ HandleNodeEvent \/ Resync
    \/ \E s \in Services :
          UserCreates(s) \/ OperationSettles(s) \/ OperationFails(s)

Spec == Init /\ [][Next]_vars

(***************************************************************************)
(* The worker runs, notifications are handled and operations settle.       *)
(* Nodes and users may never do anything, and the periodic resync is not   *)
(* counted on.                                                             *)
(***************************************************************************)
Fairness ==
    /\ WF_vars(Worker)
    /\ WF_vars(HandleNodeEvent)
    /\ \A s \in Services : WF_vars(OperationSettles(s))

FairSpec == Spec /\ Fairness

-----------------------------------------------------------------------------
(* What a Service should have: the addresses of the Nodes that are Ready   *)
(* and whose exclusion label is missing or says false.                     *)

BackendsAt(list) ==
    UNION {list[n].ips :
              n \in {m \in DOMAIN list : /\ list[m].ready = "True"
                                         /\ list[m].exclude \notin {"true", "unparsable"}}}

WantedBackends == BackendsAt(nodes)

IsServed(s) ==
    /\ services[s] = "recorded"
    /\ lbs[s].listeners = [listed |-> TRUE, backends |-> WantedBackends]
    /\ WantedBackends # {} => s \in rules

Quiet == pc = "idle" /\ queue = <<>> /\ nodeEvents = 0

\* One worker has one key, and a pass is at a point its Service allows.
OneWorker ==
    /\ pc = "idle" <=> processing = {}
    /\ processing \subseteq Known
    /\ \A s, t \in processing : s = t
    /\ \A s \in processing :
          CASE pc \in {"lookup", "create", "wait", "record"} -> services[s] = "new"
            [] pc \in {"update", "rule"}                     -> services[s] = "recorded"
            [] OTHER                                         -> TRUE

NothingIsForgotten == dirty \ processing \subseteq Range(queue)

OnlyKnownKeys == Range(queue) \cup dirty \subseteq Known

\* The pass goes by the Nodes as they are, or reads them again.
PassIsUpToDate(s) ==
    /\ pc = "update" /\ hand.listed => hand.backends = WantedBackends
    /\ pc = "rule" => lbs[s].listeners = [listed |-> TRUE, backends |-> WantedBackends]

(***************************************************************************)
(* A Service that is not served as the Nodes ask has what will serve it on *)
(* its way: a notification, its key in the queue, or a pass that has not   *)
(* acted on Nodes that have changed since.  No key is lost between the     *)
(* queue and the worker.                                                   *)
(***************************************************************************)
IsProvidedFor(s) ==
    \/ nodeEvents > 0
    \/ s \in dirty
    \/ IF s \in processing THEN PassIsUpToDate(s) ELSE IsServed(s)

SyncInv ==
    /\ TypeOK
    /\ OneWorker
    /\ NothingIsForgotten
    /\ OnlyKnownKeys
    /\ ~overlooked => \A s \in Known : IsProvidedFor(s)

(***************************************************************************)
(* When nothing is on its way, every load balancer has the backends the    *)
(* Nodes ask for, and its rule once there is a backend: no change of a     *)
(* Node falls between the read of the cache and the call it was for, in a  *)
(* pass that was waiting for an operation, or in the queue's handling of a *)
(* key that is being processed.  The changes the code does not follow up   *)
(* are named where `overlooked' is set.                                    *)
(***************************************************************************)
BackendsFollowNodes == Quiet /\ ~overlooked => \A s \in Known : IsServed(s)

(***************************************************************************)
(* A Node event brings every Service back once there are backends: then    *)
(* each has its firewall rule.                                             *)
(***************************************************************************)
NodeEventBringsBack ==
    Quiet /\ WantedBackends # {} => \A s \in Known : s \in rules

(***************************************************************************)
(* A Service that needs a pass gets one, whatever pass is before it.       *)
(***************************************************************************)
EveryServiceHasItsTurn ==
    \A s \in Services : s \in dirty ~> s \in processing

(***************************************************************************)
(* Once the Nodes stop changing, every load balancer ends up with the      *)
(* backends they ask for, in spite of failed calls, operations and reads;  *)
(* but for one that was adopted before its create operation failed.        *)
(***************************************************************************)
WasAdoptedAndFailed(s) == services[s] = "recorded" /\ lbs[s].op = "FAILED"

BackendsConverge ==
    <>[](overlooked \/ \A s \in Known : IsServed(s) \/ WasAdoptedAndFailed(s))
=============================================================================
