------------------------- MODULE ServiceReconciler -------------------------
(***************************************************************************)
(* The controller: ServiceReconciler.Reconcile and everything it calls,    *)
(* for one Service, between the API server and cache of KubeService and    *)
(* the Crusoe API of CrusoeCloud.                                          *)
(*                                                                         *)
(* A manager runs one reconcile at a time (the default of one worker).     *)
(* `pc' is the point a reconcile has reached: every call to the API server *)
(* or the Crusoe API is a step of its own, because users, watch events,    *)
(* operations, failures and restarts come in between.  The steps carry the *)
(* names of the functions that make the call.                              *)
(***************************************************************************)
EXTENDS KubeService, CrusoeCloud

CONSTANTS
    Managed,          \* the Service has manage-firewall-rule set to "true"
    ClientErrors,     \* the create API may answer 4xx
    ReaderForbidden,  \* the ClusterRole lacks "get" on services
    OperatorActs,     \* an operator may delete resources, and finalizers, by hand
    MaxFaults,        \* failed calls and crashes (bound)
    MaxOpFaults       \* failed operations and aged operation records (bound)

ASSUME ReconcilerAssumption ==
    /\ {Managed, ClientErrors, ReaderForbidden, OperatorActs} \subseteq BOOLEAN
    /\ {MaxFaults, MaxOpFaults} \subseteq Nat

VARIABLES
    pc,       \* where the reconcile is
    svc,      \* the reconcile's own copy of the Service
    lb,       \* the load balancer id in hand
    vip,      \* the VIP that load balancer was read with is set
    rule,     \* the firewall rule or operation id in hand
    requeue,  \* ensureLoadBalancerIngress asked for another pass
    expired,  \* firewallRuleInFlightHoldLimit has passed since the deletion request
    faults,   \* failed calls and crashes so far
    opFaults  \* failed operations and aged records so far

locals == <<svc, lb, vip, rule, requeue>>
vars == <<kubeVars, cloudVars, pc, locals, expired, faults, opFaults>>

Points ==
    {"idle", "addFinalizer",
     "handleCreate", "lookup", "create", "wait", "record", "publish",
     "handleUpdate", "restoreIngress", "updateLoadBalancer",
     "ensureFirewallRule", "patchFirewallRule", "adoptFirewallRule",
     "recordRule", "recordAdopted", "createFirewallRule", "recordOperation",
     "deleteFirewallRule", "findRule", "deleteRule", "clearRule",
     "deleteLoadBalancer", "removeFinalizer"}

\* Every variable holds a value of its kind.
TypeOK ==
    /\ KubeTypeOK
    /\ CloudTypeOK
    /\ pc \in Points
    /\ svc \in Service
    /\ lb \in 0..MaxLbs
    /\ vip \in BOOLEAN
    /\ rule \in 0..MaxOps
    /\ requeue \in BOOLEAN
    /\ expired \in BOOLEAN
    /\ faults \in 0..MaxFaults
    /\ opFaults \in 0..MaxOpFaults

LocalsInit ==
    /\ svc = NoService(0)
    /\ lb = 0
    /\ vip = FALSE
    /\ rule = 0
    /\ requeue = FALSE

Init ==
    /\ KubeInit
    /\ CloudInit
    /\ pc = "idle"
    /\ LocalsInit
    /\ expired = FALSE
    /\ faults = 0
    /\ opFaults = 0

-----------------------------------------------------------------------------
(* How a reconcile moves and ends *)

DropLocals ==
    /\ pc' = "idle"
    /\ svc' = NoService(0)
    /\ lb' = 0
    /\ vip' = FALSE
    /\ rule' = 0
    /\ requeue' = FALSE

\* Mutant: the RequeueAfter is dropped on the way out of Reconcile.
FinishWithoutRequeue(retry) == DropLocals /\ UNCHANGED delayed

\* Return from Reconcile.  A RequeueAfter and an error both bring the key back
\* after a delay.
Finish(retry) ==
    /\ DropLocals
    /\ delayed' = (delayed \/ retry)

Goto(point) == pc' = point /\ UNCHANGED delayed

\* A merge patch applies to the object as it is now, without a resource
\* version, and the reply replaces the reconcile's copy.
Patch(new) ==
    /\ Exists(stored)
    /\ Write(new)
    /\ svc' = stored'

\* Everything but the object, its watch and `delayed'.
OutsideUnchanged == UNCHANGED <<cached, uids, edits, queued, expired, faults, opFaults>>
KubeUnchanged == OutsideUnchanged /\ UNCHANGED <<stored, watch>>

-----------------------------------------------------------------------------
(* Reconcile *)

\* Not found, deleted without our finalizer, or another controller's.
Ignores(s) ==
    \/ ~Exists(s)
    \/ s.deleting /\ ~s.finalizer
    \/ ~s.deleting /\ s.kind = "Foreign"

\* The recorded load balancer id decides between create and update.
Operation(s) == IF s.lbId = 0 THEN "handleCreate" ELSE "handleUpdate"

FirstStep(s) ==
    CASE s.deleting     -> "deleteFirewallRule"
      [] ~s.deleting /\ ~s.finalizer -> "addFinalizer"
      [] ~s.deleting /\ s.finalizer  -> Operation(s)

(***************************************************************************)
(* handleDelete reads the load balancer id off this copy before it deletes *)
(* the firewall rule, and handleUpdate's copy has the same id throughout.  *)
(***************************************************************************)
Reconcile ==
    /\ pc = "idle"
    /\ queued
    /\ Len(watch) <= MaxLag
    /\ queued' = FALSE
    /\ IF Ignores(cached)
       THEN UNCHANGED <<pc, locals>>
       ELSE /\ pc' = FirstStep(cached)
            /\ svc' = cached
            /\ lb' = cached.lbId
            /\ UNCHANGED <<vip, rule, requeue>>
    /\ UNCHANGED <<stored, watch, cached, uids, edits, delayed, cloudVars, expired, faults, opFaults>>

AddFinalizer ==
    /\ pc = "addFinalizer"
    /\ \/ /\ ~UpdateConflicts(svc)
          /\ Write([svc EXCEPT !.finalizer = TRUE])
          /\ svc' = stored'
          /\ Goto(Operation(svc))
          /\ UNCHANGED <<lb, vip, rule, requeue>>
       \/ /\ UpdateConflicts(svc)
          /\ Finish(TRUE)
          /\ UNCHANGED <<stored, watch>>
    /\ OutsideUnchanged
    /\ UNCHANGED cloudVars

-----------------------------------------------------------------------------
(* handleCreate *)

\* Mutant: a recorded load balancer does not count.
staleUnlessRecorded(fresh) ==
    ~ReaderForbidden /\ (~Exists(fresh) \/ fresh.deleting)

\* What the fresh read says; a forbidden read is taken for "not stale".
cachedServiceIsStale(fresh) ==
    /\ ~ReaderForbidden
    /\ ~Exists(fresh) \/ fresh.lbId # 0 \/ fresh.deleting

HandleCreate ==
    /\ pc = "handleCreate"
    /\ \/ /\ DeriveLoadBalancerProtocol(svc.ports) = Rejected
          /\ Finish(FALSE)
       \/ /\ DeriveLoadBalancerProtocol(svc.ports) # Rejected
          /\ cachedServiceIsStale(stored)
          /\ Finish(TRUE)
       \/ /\ DeriveLoadBalancerProtocol(svc.ports) # Rejected
          /\ ~cachedServiceIsStale(stored)
          /\ Goto("lookup")
          /\ UNCHANGED locals
    /\ KubeUnchanged
    /\ UNCHANGED cloudVars

\* Mutant: no lookup, as with a nil LoadBalancerLookup.
findNoLoadBalancer(s) == {}

\* Mutant: the name is derived from namespace and name, without the UID.
findLoadBalancerOfAnyUid(s) == {i \in 1..MaxLbs : lbs[i].up}

\* The load balancers carrying this Service's name.
findExistingLoadBalancer(s) == LoadBalancersNamed(s.uid)

\* Adopt the first match, whichever the API lists first.
LookUp ==
    /\ pc = "lookup"
    /\ \/ \E i \in findExistingLoadBalancer(svc) :
             /\ lb' = i
             /\ vip' = lbs[i].vip
             /\ Goto("record")
             /\ UNCHANGED <<svc, rule, requeue>>
       \/ /\ findExistingLoadBalancer(svc) = {}
          /\ Goto("create")
          /\ UNCHANGED locals
    /\ KubeUnchanged
    /\ UNCHANGED cloudVars

CreateLoadBalancer ==
    /\ pc = "create"
    /\ LET protocol == DeriveLoadBalancerProtocol(svc.ports)
       IN  \E i \in NextLoadBalancerId :
             /\ AcceptLoadBalancer(i, svc.uid, protocol, listenersFor(svc.ports, protocol))
             /\ lb' = i
    /\ Goto("wait")
    /\ KubeUnchanged
    /\ UNCHANGED <<svc, vip, rule, requeue, fws>>

\* The create request is refused: a 4xx is not retried, anything else is.
CreateRefused ==
    /\ pc = "create"
    /\ \/ ClientErrors /\ Finish(FALSE)
       \/ NextLoadBalancerId = {} /\ Finish(TRUE)
    /\ KubeUnchanged
    /\ UNCHANGED cloudVars

\* WaitForOperation returns once the operation is no longer in progress; a
\* failed operation is an error, and is retried.
WaitForOperation ==
    /\ pc = "wait"
    /\ \/ /\ lbs[lb].op = "SUCCEEDED"
          /\ vip' = lbs[lb].vip
          /\ Goto("record")
          /\ UNCHANGED <<svc, lb, rule, requeue>>
       \/ /\ lbs[lb].op = "FAILED"
          /\ Finish(TRUE)
    /\ KubeUnchanged
    /\ UNCHANGED cloudVars

\* Mutant: the protocol recorded is the one the ports ask for now.
WithDerivedProtocol(s, i) ==
    [s EXCEPT !.lbId = i, !.protocol = DeriveLoadBalancerProtocol(s.ports)]

\* The annotations recordLoadBalancer writes.  An adopted load balancer is
\* recorded with the protocol it has.
WithLoadBalancer(s, i) == [s EXCEPT !.lbId = i, !.protocol = lbs[i].protocol]

\* Mutant: an empty VIP is published as well.
VipUnchecked == TRUE

VipInHand == vip

RecordLoadBalancer ==
    /\ pc = "record"
    /\ \/ /\ VipInHand
          /\ Patch(WithLoadBalancer(stored, lb))
          /\ Goto("publish")
          /\ UNCHANGED <<lb, vip, rule, requeue>>
       \/ /\ ~VipInHand
          /\ Exists(stored)
          /\ Write(WithLoadBalancer(stored, lb))
          /\ Finish(TRUE)
       \/ /\ ~Exists(stored)
          /\ Finish(TRUE)
          /\ UNCHANGED <<stored, watch>>
    /\ OutsideUnchanged
    /\ UNCHANGED cloudVars

\* Publish the VIP as the Service's external IP.
SetLoadBalancerIngress ==
    /\ pc = "publish"
    /\ \/ /\ Patch([stored EXCEPT !.ip = lb])
          /\ Goto("ensureFirewallRule")
          /\ UNCHANGED <<lb, vip, rule, requeue>>
       \/ /\ ~Exists(stored)
          /\ Finish(TRUE)
          /\ UNCHANGED <<stored, watch>>
    /\ OutsideUnchanged
    /\ UNCHANGED cloudVars

-----------------------------------------------------------------------------
(* handleUpdate *)

\* ensureLoadBalancerIngress never ends the pass: an external IP that cannot
\* be restored yet only asks for another one.
EnsureLoadBalancerIngress ==
    /\ pc = "handleUpdate"
    /\ \/ /\ svc.ip # 0
          /\ Goto("updateLoadBalancer")
          /\ UNCHANGED requeue
       \/ /\ svc.ip = 0
          /\ LbIsUp(svc.lbId) /\ lbs[svc.lbId].vip
          /\ Goto("restoreIngress")
          /\ UNCHANGED requeue
       \/ /\ svc.ip = 0
          /\ ~(LbIsUp(svc.lbId) /\ lbs[svc.lbId].vip)
          /\ Goto("updateLoadBalancer")
          /\ requeue' = TRUE
    /\ KubeUnchanged
    /\ UNCHANGED <<svc, lb, vip, rule, cloudVars>>

RestoreIngress ==
    /\ pc = "restoreIngress"
    /\ \/ /\ Patch([stored EXCEPT !.ip = svc.lbId])
          /\ UNCHANGED requeue
       \/ /\ ~Exists(stored)
          /\ requeue' = TRUE
          /\ UNCHANGED <<stored, watch, svc>>
    /\ Goto("updateLoadBalancer")
    /\ OutsideUnchanged
    /\ UNCHANGED <<lb, vip, rule, cloudVars>>

\* With no port left for its protocol the load balancer stays as it is.  With
\* ports that have no node port the update goes out without listeners.
UpdateLoadBalancer ==
    /\ pc = "updateLoadBalancer"
    /\ \/ /\ noPortMatches(svc.ports, svc.protocol)
          /\ Goto("ensureFirewallRule")
          /\ UNCHANGED <<locals, lbs>>
       \/ /\ ~noPortMatches(svc.ports, svc.protocol)
          /\ AcceptsUpdate(svc.lbId, listenersFor(svc.ports, svc.protocol))
          /\ lbs' = [lbs EXCEPT ![svc.lbId].listeners = listenersFor(svc.ports, svc.protocol)]
          /\ Goto("ensureFirewallRule")
          /\ UNCHANGED locals
       \/ /\ ~noPortMatches(svc.ports, svc.protocol)
          /\ ~AcceptsUpdate(svc.lbId, listenersFor(svc.ports, svc.protocol))
          /\ Finish(TRUE)
          /\ UNCHANGED lbs
    /\ KubeUnchanged
    /\ UNCHANGED fws

-----------------------------------------------------------------------------
(* ensureFirewallRule, the end of both handleCreate and handleUpdate *)

argsOf(s) == firewallRuleArgs(s.ports, s.protocol)

\* Mutant: the destination ports are not compared.
ComparesProtocolsOnly(o, args) == fws[o].protocols = args.protocols

CompareFirewallRule(o, args) ==
    fws[o].ports = args.destinationPorts /\ fws[o].protocols = args.protocols

\* Mutant: every pass submits a failed create again.
noRetryWait(o) == TRUE

\* A failed create is not submitted again before firewallRuleCreateRetryDelay
\* has passed; a record that is gone has no time to wait for.
firewallRuleRetryWaitIsOver(o) == fws[o].op = "FAILED" => fws[o].cooled

WantsRule(s) == Managed /\ ~noRuleNeeded(s.ports, s.protocol)

NoFirewallRuleWanted ==
    /\ ~WantsRule(svc)
    /\ Finish(requeue)

CheckFirewallRule ==
    /\ WantsRule(svc)
    /\ svc.ruleId # 0
    /\ \/ /\ ~fws[svc.ruleId].rule
          /\ Goto("createFirewallRule")
          /\ UNCHANGED locals
       \/ /\ fws[svc.ruleId].rule
          /\ CompareFirewallRule(svc.ruleId, argsOf(svc))
          /\ Finish(requeue)
       \/ /\ fws[svc.ruleId].rule
          /\ ~CompareFirewallRule(svc.ruleId, argsOf(svc))
          /\ Goto("patchFirewallRule")
          /\ UNCHANGED locals

ResolveOperation ==
    /\ WantsRule(svc)
    /\ svc.ruleId = 0
    /\ svc.opId # 0
    /\ LET operation == fws[svc.opId]
       IN  \/ /\ operation.op = "GONE" \/ operation.clash
              /\ Goto("adoptFirewallRule")
              /\ UNCHANGED locals
           \/ /\ operation.op = "FAILED" /\ ~operation.clash
              /\ ~firewallRuleRetryWaitIsOver(svc.opId)
              /\ Finish(TRUE)
           \/ /\ operation.op = "FAILED" /\ ~operation.clash
              /\ firewallRuleRetryWaitIsOver(svc.opId)
              /\ Goto("createFirewallRule")
              /\ UNCHANGED locals
           \/ /\ operation.op = "SUCCEEDED"
              /\ rule' = svc.opId
              /\ Goto("recordRule")
              /\ UNCHANGED <<svc, lb, vip, requeue>>
           \/ /\ Pending(svc.opId)
              /\ Finish(TRUE)

EnsureFirewallRule ==
    /\ pc = "ensureFirewallRule"
    /\ \/ NoFirewallRuleWanted
       \/ CheckFirewallRule
       \/ ResolveOperation
       \/ /\ WantsRule(svc)
          /\ svc.ruleId = 0
          /\ svc.opId = 0
          /\ Goto("createFirewallRule")
          /\ UNCHANGED locals
    /\ KubeUnchanged
    /\ UNCHANGED cloudVars

PatchFirewallRule ==
    /\ pc = "patchFirewallRule"
    /\ \/ /\ fws[svc.ruleId].rule
          /\ fws' = [fws EXCEPT ![svc.ruleId].ports = argsOf(svc).destinationPorts,
                                ![svc.ruleId].protocols = argsOf(svc).protocols]
          /\ Finish(requeue)
       \/ /\ ~fws[svc.ruleId].rule
          /\ Finish(TRUE)
          /\ UNCHANGED fws
    /\ KubeUnchanged
    /\ UNCHANGED lbs

\* Look for the rule by its name, and create it again if it is not there.
AdoptFirewallRule ==
    /\ pc = "adoptFirewallRule"
    /\ \/ \E o \in RulesNamed(svc.uid) :
             /\ rule' = o
             /\ Goto("recordAdopted")
             /\ UNCHANGED <<svc, lb, vip, requeue>>
       \/ /\ RulesNamed(svc.uid) = {}
          /\ firewallRuleRetryWaitIsOver(svc.opId)
          /\ Goto("createFirewallRule")
          /\ UNCHANGED locals
       \/ /\ RulesNamed(svc.uid) = {}
          /\ ~firewallRuleRetryWaitIsOver(svc.opId)
          /\ Finish(TRUE)
    /\ KubeUnchanged
    /\ UNCHANGED cloudVars

\* The last patch of a pass: it returns what it was going to return anyway.
PatchAndFinish(new, retry) ==
    /\ \/ /\ Exists(stored)
          /\ Write(new)
          /\ Finish(retry)
       \/ /\ ~Exists(stored)
          /\ Finish(TRUE)
          /\ UNCHANGED <<stored, watch>>
    /\ OutsideUnchanged
    /\ UNCHANGED cloudVars

\* A succeeded operation's id stays on the Service.
RecordRule ==
    /\ pc = "recordRule"
    /\ PatchAndFinish([stored EXCEPT !.ruleId = rule], requeue)

RecordAdoptedRule ==
    /\ pc = "recordAdopted"
    /\ PatchAndFinish([stored EXCEPT !.ruleId = rule, !.opId = 0], requeue)

\* The copy misses what is recorded of the rule, or shows what no longer is.
MissesRecord(s) == s.opId # stored.opId \/ s.ruleId # stored.ruleId

CreateFirewallRule ==
    /\ pc = "createFirewallRule"
    /\ \/ \E o \in NextOperationId :
             /\ AcceptFirewallRule(o, svc.uid, argsOf(svc), stored.deleting, MissesRecord(svc))
             /\ rule' = o
             /\ Goto("recordOperation")
             /\ UNCHANGED <<svc, lb, vip, requeue>>
       \/ /\ NextOperationId = {}
          /\ Finish(TRUE)
          /\ UNCHANGED fws
    /\ KubeUnchanged
    /\ UNCHANGED lbs

\* The patch also drops the rule id the pass found to be gone.
WithOperation(s, o) ==
    [s EXCEPT !.opId = o, !.ruleId = IF svc.ruleId # 0 THEN 0 ELSE @]

RecordOperation ==
    /\ pc = "recordOperation"
    /\ PatchAndFinish(WithOperation(stored, rule), TRUE)

-----------------------------------------------------------------------------
(* handleDelete *)

\* Mutant: no operation in flight holds the deletion.
NeverHolds(s) == FALSE

\* Mutant: an operation in flight holds the deletion forever.
HoldsForever(s) == Pending(s.opId)

\* A create operation that may still land holds the deletion, up to the limit.
HoldsDeletion(s) == Pending(s.opId) /\ ~expired

DeleteFirewallRule ==
    /\ pc = "deleteFirewallRule"
    /\ \/ /\ ~Managed
          /\ Goto("deleteLoadBalancer")
          /\ UNCHANGED locals
       \/ /\ Managed
          /\ svc.ruleId # 0
          /\ rule' = svc.ruleId
          /\ Goto("deleteRule")
          /\ UNCHANGED <<svc, lb, vip, requeue>>
       \/ /\ Managed
          /\ svc.ruleId = 0 /\ svc.opId # 0
          /\ \/ /\ fws[svc.opId].op = "SUCCEEDED"
                /\ rule' = svc.opId
                /\ Goto("deleteRule")
                /\ UNCHANGED <<svc, lb, vip, requeue>>
             \/ /\ HoldsDeletion(svc)
                /\ Finish(TRUE)
             \/ /\ fws[svc.opId].op # "SUCCEEDED"
                /\ ~HoldsDeletion(svc)
                /\ Goto("findRule")
                /\ UNCHANGED locals
       \/ /\ Managed
          /\ svc.ruleId = 0 /\ svc.opId = 0
          /\ Goto("findRule")
          /\ UNCHANGED locals
    /\ KubeUnchanged
    /\ UNCHANGED cloudVars

FindRule ==
    /\ pc = "findRule"
    /\ \/ \E o \in RulesNamed(svc.uid) :
             /\ rule' = o
             /\ Goto("deleteRule")
             /\ UNCHANGED <<svc, lb, vip, requeue>>
       \/ /\ RulesNamed(svc.uid) = {}
          /\ Goto("deleteLoadBalancer")
          /\ UNCHANGED locals
    /\ KubeUnchanged
    /\ UNCHANGED cloudVars

\* A rule that is not there any more (404) counts as deleted.
DeleteRule ==
    /\ pc = "deleteRule"
    /\ RemoveRule(rule)
    /\ Goto("clearRule")
    /\ KubeUnchanged
    /\ UNCHANGED <<locals, lbs>>

\* The patch removes the annotations this copy has, and no others.
WithoutRule(s) ==
    [s EXCEPT !.ruleId = IF svc.ruleId # 0 THEN 0 ELSE @,
              !.opId   = IF svc.opId   # 0 THEN 0 ELSE @]

ClearRule ==
    /\ pc = "clearRule"
    /\ \/ /\ Patch(WithoutRule(stored))
          /\ Goto("deleteLoadBalancer")
          /\ UNCHANGED <<lb, vip, rule, requeue>>
       \/ /\ ~Exists(stored)
          /\ Finish(TRUE)
          /\ UNCHANGED <<stored, watch>>
    /\ OutsideUnchanged
    /\ UNCHANGED cloudVars

\* Without a recorded load balancer there is nothing to delete; 404 is fine.
DeleteLoadBalancer ==
    /\ pc = "deleteLoadBalancer"
    /\ IF lb = 0 THEN UNCHANGED lbs ELSE RemoveLoadBalancer(lb)
    /\ Goto("removeFinalizer")
    /\ KubeUnchanged
    /\ UNCHANGED <<locals, fws>>

\* A Service that is not being deleted only loses the finalizer: the patch of
\* ClearRule may have turned the copy into the next Service of that name.
WithoutFinalizer(s) == IF s.deleting THEN Released ELSE [s EXCEPT !.finalizer = FALSE]

RemoveFinalizer ==
    /\ pc = "removeFinalizer"
    /\ \/ /\ ~UpdateConflicts(svc)
          /\ Write(WithoutFinalizer(svc))
          /\ Finish(FALSE)
          /\ expired' = FALSE
       \/ /\ UpdateConflicts(svc)
          /\ Finish(TRUE)
          /\ UNCHANGED <<stored, watch, expired>>
    /\ UNCHANGED <<cached, uids, edits, queued, faults, opFaults, cloudVars>>

-----------------------------------------------------------------------------
(* Failures *)

\* The steps that reach no API call, or not on this Service.
CallInFlight ==
    CASE pc = "idle"               -> FALSE
      [] pc = "handleCreate"       -> DeriveLoadBalancerProtocol(svc.ports) # Rejected
      [] pc = "handleUpdate"       -> svc.ip = 0
      [] pc = "updateLoadBalancer" -> ~noPortMatches(svc.ports, svc.protocol)
      [] pc = "ensureFirewallRule" -> Managed
      [] pc = "deleteFirewallRule" -> Managed /\ svc.ruleId = 0 /\ svc.opId # 0
      [] pc = "deleteLoadBalancer" -> lb # 0
      [] OTHER                     -> TRUE

(***************************************************************************)
(* A call fails without having had an effect, or the reply to the call     *)
(* before it was lost.  Either way the pass ends and is retried, but for   *)
(* ensureLoadBalancerIngress.                                              *)
(***************************************************************************)
CallFails ==
    /\ CallInFlight
    /\ faults < MaxFaults
    /\ faults' = faults + 1
    /\ \/ /\ pc \in {"handleUpdate", "restoreIngress"}
          /\ Goto("updateLoadBalancer")
          /\ requeue' = TRUE
          /\ UNCHANGED <<svc, lb, vip, rule>>
       \/ /\ pc \notin {"handleUpdate", "restoreIngress"}
          /\ Finish(TRUE)
    /\ UNCHANGED <<stored, watch, cached, uids, edits, queued, expired, opFaults, cloudVars>>

\* The controller stops, at any point, and starts again.
Crash ==
    /\ faults < MaxFaults
    /\ faults' = faults + 1
    /\ DropLocals
    /\ Resync
    /\ UNCHANGED <<expired, opFaults, cloudVars>>

-----------------------------------------------------------------------------
(* The rest of the system *)

reconcileVars == <<pc, locals>>

User ==
    /\ UserCreates \/ UserDeletes \/ UserEdits
    /\ UNCHANGED <<cloudVars, reconcileVars, expired, faults, opFaults>>

DeliverEvent == Deliver /\ UNCHANGED <<cloudVars, reconcileVars, expired, faults, opFaults>>

Timer == TimerFires /\ UNCHANGED <<cloudVars, reconcileVars, expired, faults, opFaults>>

NodeChanges == NodeEvent /\ UNCHANGED <<cloudVars, reconcileVars, expired, faults, opFaults>>

LbProgress(i) ==
    /\ LbOpSettles(i) \/ VipAssigned(i)
    /\ UNCHANGED <<kubeVars, reconcileVars, expired, faults, opFaults>>

FwProgress(o) ==
    /\ FwOpSettles(o) \/ FwCooldownEnds(o)
    /\ UNCHANGED <<kubeVars, reconcileVars, expired, faults, opFaults>>

CloudFault ==
    /\ opFaults < MaxOpFaults
    /\ opFaults' = opFaults + 1
    /\ \/ \E i \in 1..MaxLbs : LbOpFails(i)
       \/ \E o \in 1..MaxOps : FwOpFails(o) \/ FwRecordAges(o)
    /\ UNCHANGED <<kubeVars, reconcileVars, expired, faults>>

\* Load balancers and rules may be deleted by hand, and a Service that is held
\* in Terminating may be released by hand.
OperatorRemoves ==
    /\ OperatorActs
    /\ edits < MaxEdits
    /\ edits' = edits + 1
    /\ \/ \E i \in 1..MaxLbs : lbs[i].up /\ RemoveLoadBalancer(i) /\ UNCHANGED fws
       \/ \E o \in 1..MaxOps : fws[o].rule /\ RemoveRule(o) /\ UNCHANGED lbs
    /\ UNCHANGED <<stored, watch, cached, uids, queued, delayed, reconcileVars, expired, faults, opFaults>>

OperatorReleases ==
    /\ OperatorActs
    /\ edits < MaxEdits
    /\ stored.deleting
    /\ edits' = edits + 1
    /\ Write(Released)
    /\ expired' = FALSE
    /\ UNCHANGED <<cached, uids, queued, delayed, cloudVars, reconcileVars, faults, opFaults>>

HoldExpires ==
    /\ stored.deleting
    /\ ~expired
    /\ expired' = TRUE
    /\ OperationsStuckAtHoldLimit(stored.uid)
    /\ UNCHANGED <<kubeVars, lbs, reconcileVars, faults, opFaults>>

Worker ==
    \/ Reconcile \/ AddFinalizer
    \/ HandleCreate \/ LookUp \/ CreateLoadBalancer \/ CreateRefused
    \/ WaitForOperation \/ RecordLoadBalancer \/ SetLoadBalancerIngress
    \/ EnsureLoadBalancerIngress \/ RestoreIngress \/ UpdateLoadBalancer
    \/ EnsureFirewallRule \/ PatchFirewallRule \/ AdoptFirewallRule
    \/ RecordRule \/ RecordAdoptedRule \/ CreateFirewallRule \/ RecordOperation
    \/ DeleteFirewallRule \/ FindRule \/ DeleteRule \/ ClearRule
    \/ DeleteLoadBalancer \/ RemoveFinalizer

Next ==
    \/ Worker \/ CallFails \/ Crash
    \/ User \/ DeliverEvent \/ Timer \/ NodeChanges
    \/ \E i \in 1..MaxLbs : LbProgress(i)
    \/ \E o \in 1..MaxOps : FwProgress(o)
    \/ CloudFault \/ OperatorRemoves \/ OperatorReleases \/ HoldExpires

Spec == Init /\ [][Next]_vars

(***************************************************************************)
(* The worker goroutine runs, watch events arrive, timers fire, operations *)
(* settle and time passes.  Users, node events, operators and failures may *)
(* never come.                                                             *)
(***************************************************************************)
Fairness ==
    /\ WF_vars(Worker)
    /\ WF_vars(DeliverEvent)
    /\ WF_vars(Timer)
    /\ WF_vars(HoldExpires)
    /\ \A i \in 1..MaxLbs : WF_vars(LbProgress(i))
    /\ \A o \in 1..MaxOps : WF_vars(FwProgress(o))

FairSpec == Spec /\ Fairness

-----------------------------------------------------------------------------
(* Safety *)

(***************************************************************************)
(* A Service never has two load balancers.  Creation is made idempotent by *)
(* the fresh read and the lookup by name in handleCreate, whatever the     *)
(* cache says and wherever a pass was cut off.                             *)
(***************************************************************************)
AtMostOneLoadBalancer ==
    \A uid \in 1..MaxUid :
        \A i, j \in LoadBalancersNamed(uid) : i = j

(***************************************************************************)
(* The ids recorded on a Service are those of its own load balancer, with  *)
(* the protocol that one has, and of its own firewall rule: never those of *)
(* an earlier Service of the same name.  The patches that write them carry *)
(* neither a resource version nor a UID.                                   *)
(***************************************************************************)
RecordsAreOwn ==
    /\ stored.lbId # 0 => /\ lbs[stored.lbId].owner = stored.uid
                          /\ lbs[stored.lbId].protocol = stored.protocol
    /\ stored.opId # 0 => fws[stored.opId].owner = stored.uid
    /\ stored.ruleId # 0 => fws[stored.ruleId].owner = stored.uid

(***************************************************************************)
(* A published external IP is the VIP of the recorded load balancer, so no *)
(* Service advertises an address that a deletion would not clean up.       *)
(* recordLoadBalancer records the id before it publishes the VIP.          *)
(***************************************************************************)
ExternalIPIsRecorded ==
    stored.ip # 0 => stored.ip = stored.lbId /\ lbs[stored.ip].vip

(***************************************************************************)
(* A recorded load balancer id is never replaced by another one, even when *)
(* the load balancer was deleted by hand and the cache does not show that  *)
(* one was recorded: this is what cachedServiceIsStale is for.             *)
(***************************************************************************)
RecordedIdIsFinal ==
    [][stored.lbId # 0 /\ stored'.uid = stored.uid => stored'.lbId = stored.lbId]_vars

\* The controller lets go of the Service.
IsReleased == pc = "removeFinalizer" /\ pc' = "idle" /\ Exists(stored) /\ ~Exists(stored')

(***************************************************************************)
(* When the finalizer goes, the load balancer recorded on the Service has  *)
(* been deleted.  handleDelete works on a copy that may be stale; the      *)
(* resource version of the finalizer's Update has to catch it.             *)
(***************************************************************************)
RecordedLoadBalancerIsRemoved ==
    [][IsReleased /\ stored.lbId # 0 => ~lbs[stored.lbId].up]_vars

(***************************************************************************)
(* When the finalizer goes, no load balancer of the Service is left.       *)
(***************************************************************************)
NoLoadBalancerIsLeft ==
    [][IsReleased => LoadBalancersNamed(stored.uid) = {}]_vars

\* Each rule was submitted in view of what was recorded of those before.
NoneIsBlind == \A o \in 1..MaxOps : ~fws[o].blind

OperationsOf(uid) == {o \in 1..MaxOps : fws[o].owner = uid}

(***************************************************************************)
(* When the finalizer goes, no firewall rule of the Service is left, and   *)
(* no create operation that could still bring one up: deleteFirewallRule   *)
(* holds the deletion for an operation in flight, and finds the rule by    *)
(* its id, its operation or its name.  Excepted are operations submitted   *)
(* after the deletion was requested, which the hold limit does not cover,  *)
(* and those whose id a failed call or a restart kept off the Service, or  *)
(* another one replaced that was submitted from a copy without it.         *)
(***************************************************************************)
NoEarlierRuleIsLeft ==
    [][IsReleased /\ faults = 0 /\ NoneIsBlind
          => \A o \in OperationsOf(stored.uid) :
                \/ fws[o].late
                \/ ~fws[o].rule /\ fws[o].op # "IN_PROGRESS"]_vars

Submitted(o) == fws[o].op = "unused" /\ fws'[o].op # "unused"

(***************************************************************************)
(* No firewall rule is submitted while the operation recorded on the       *)
(* Service is pending, or failed less than the retry delay ago, whatever   *)
(* triggered the reconcile, however old the copy it began with and         *)
(* whatever has happened since it looked at the operation.  Excepted are a *)
(* copy that misses the record, and a recorded rule deleted by hand.       *)
(***************************************************************************)
CooldownIsKept ==
    [][\A o \in 1..MaxOps :
          Submitted(o) /\ stored.opId # 0 /\ stored.ruleId = 0 /\ ~MissesRecord(svc)
             => /\ ~Pending(stored.opId)
                /\ fws[stored.opId].op = "FAILED" => fws[stored.opId].cooled]_vars

(***************************************************************************)
(* "The failed operation's id stays on the Service until the cooldown has  *)
(* passed since it completed, so every reconcile in between waits too,     *)
(* whatever triggered it."                                                 *)
(***************************************************************************)
EveryReconcileWaits ==
    [][\A o \in 1..MaxOps :
          Submitted(o) /\ stored.opId # 0 /\ fws[stored.opId].op = "FAILED"
             => fws[stored.opId].cooled]_vars

(***************************************************************************)
(* The controller implements OwnedLoadBalancers: never a second load       *)
(* balancer, never another's id on the record, no address published but    *)
(* that of the recorded one, and no release before that one is gone.       *)
(***************************************************************************)
Ownership ==
    INSTANCE OwnedLoadBalancers WITH
        Uids <- 1..MaxUid,
        Ids <- 1..MaxLbs,
        service <- stored.uid,
        recorded <- stored.lbId,
        published <- stored.ip,
        owner <- [i \in 1..MaxLbs |-> lbs[i].owner],
        up <- {i \in 1..MaxLbs : lbs[i].up}

KeepsOwnership == Ownership!Spec

(***************************************************************************)
(* Nothing is left to do when nothing will trigger another pass: with the  *)
(* cache up to date, no pass running, queued or delayed, a Service being   *)
(* deleted is gone, and any other has what its ports ask for.  Every       *)
(* return of handleCreate, handleUpdate and handleDelete has to ask for    *)
(* another pass exactly when it is needed, but for a create request that   *)
(* is answered 4xx.                                                        *)
(***************************************************************************)
HasLoadBalancer(s) ==
    /\ s.lbId # 0
    /\ s.ip = s.lbId
    /\ \/ noPortMatches(s.ports, s.protocol)
       \/ lbs[s.lbId].listeners = listenersFor(s.ports, s.protocol)

HasRule(s) ==
    /\ s.ruleId # 0
    /\ fws[s.ruleId].ports = argsOf(s).destinationPorts
    /\ fws[s.ruleId].protocols = argsOf(s).protocols

Servable(s) == DeriveLoadBalancerProtocol(s.ports) # Rejected

IsServed(s) ==
    /\ ~s.deleting
    /\ s.lbId # 0 \/ Servable(s) => HasLoadBalancer(s)
    /\ s.lbId # 0 /\ WantsRule(s) => HasRule(s)

\* Its create request may have been answered 4xx, which is not retried.
MayBeRefused(s) == ClientErrors /\ s.lbId = 0 /\ ~s.deleting

Quiet == pc = "idle" /\ ~queued /\ ~delayed /\ watch = <<>>

SettledWhenQuiet ==
    Quiet => CASE stored.kind = "LoadBalancer" -> IsServed(stored) \/ MayBeRefused(stored)
               [] stored.kind = "Foreign"      -> ~stored.deleting
               [] stored.kind = "Other"        -> TRUE

-----------------------------------------------------------------------------
(* Liveness *)

WantsLoadBalancer(s) == s.kind = "LoadBalancer" /\ ~s.deleting /\ Servable(s)

(***************************************************************************)
(* A Service that asks for a load balancer, and keeps asking, gets one, an *)
(* external IP and its firewall rule.                                      *)
(***************************************************************************)
IsProvisioned == WantsLoadBalancer(stored) ~> IsServed(stored) \/ ~WantsLoadBalancer(stored)

(***************************************************************************)
(* A Service being deleted does not stay terminating.                      *)
(***************************************************************************)
IsEventuallyReleased == stored.deleting ~> ~stored.deleting
=============================================================================
