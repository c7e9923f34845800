---------------------------- MODULE Settling_proofs ----------------------------
(***************************************************************************)
(* The theorem that nothing is left to do when nothing will trigger        *)
(* another pass.  While no key is queued or delayed and the cache shows    *)
(* the stored Service, a pass works on exactly that Service, so every      *)
(* write it makes would change the object and queue the key again: what a  *)
(* pass knows at each of its points then adds up to a Service that is      *)
(* served when it ends without asking for another one.                     *)
(***************************************************************************)
EXTENDS Records_proofs

\* Nothing will trigger another pass for a Service of type LoadBalancer.
Calm == ~queued /\ ~delayed /\ watch = <<>> /\ stored.kind # "Other"

RulePoints ==
    {"ensureFirewallRule", "patchFirewallRule", "adoptFirewallRule",
     "recordRule", "recordAdopted", "createFirewallRule", "recordOperation"}

\* What a pass that is running then knows at the points of each branch.
CreateFacts ==
    pc \in {"handleCreate", "lookup", "create", "wait", "record"} => svc.lbId = 0

UpdateFacts ==
    /\ pc \in {"handleUpdate", "restoreIngress", "updateLoadBalancer"} \cup RulePoints =>
          svc.lbId # 0
    /\ pc = "restoreIngress" => svc.ip = 0
    /\ pc \in {"updateLoadBalancer"} \cup RulePoints => requeue \/ svc.ip # 0

RuleFacts ==
    /\ pc \in RulePoints =>
          \/ noPortMatches(svc.ports, svc.protocol)
          \/ lbs[svc.lbId].listeners = listenersFor(svc.ports, svc.protocol)
    /\ pc = "patchFirewallRule" => svc.ruleId # 0
    /\ pc \in {"adoptFirewallRule", "recordRule", "recordAdopted"} => svc.ruleId = 0
    /\ pc \in {"recordRule", "recordAdopted"} => rule # 0

PassFacts ==
    /\ svc = stored
    /\ svc.deleting <=> pc \in DeletePoints
    /\ pc = "addFinalizer" => ~svc.finalizer
    /\ pc # "publish"
    /\ CreateFacts /\ UpdateFacts /\ RuleFacts

Settled ==
    /\ stored.kind = "LoadBalancer" => IsServed(stored)
    /\ stored.kind = "Foreign" => ~stored.deleting

SettlingInv == Calm => IF pc = "idle" THEN Settled ELSE PassFacts

\* A deletion request takes effect at once unless the finalizer holds it.
HeldWhileDeleting == stored.deleting => stored.finalizer

-----------------------------------------------------------------------------
(* Calm does not begin but with a pass *)

LEMMA HeldWhileDeletingStep ==
    ASSUME History, HeldWhileDeleting, [Next]_vars
    PROVE  HeldWhileDeleting'
BY EveryChange
DEF History, HeldWhileDeleting, Changes, Appears, Goes, Blank, LosesFinalizer, IsRecorded,
    IsPublished, GetsRule, KeepsRecords, KeepsCare

LEMMA QueueMoves ==
    ASSUME [Next]_vars, ~queued', ~delayed'
    PROVE  Reconcile \/ Crash \/ (~queued /\ ~delayed)
<1>1. /\ \A retry : Finish(retry) => (delayed' <=> delayed \/ retry)
      /\ \A point : Goto(point) => delayed' = delayed
  BY DEF Finish, Goto
<1>2. CASE AddFinalizer \/ HandleCreate \/ LookUp \/ CreateLoadBalancer \/ CreateRefused
           \/ WaitForOperation \/ RecordLoadBalancer \/ SetLoadBalancerIngress
           \/ EnsureLoadBalancerIngress \/ RestoreIngress \/ UpdateLoadBalancer
  BY <1>1, <1>2
  DEF AddFinalizer, HandleCreate, LookUp, CreateLoadBalancer, CreateRefused, WaitForOperation,
      RecordLoadBalancer, SetLoadBalancerIngress, EnsureLoadBalancerIngress, RestoreIngress,
      UpdateLoadBalancer, KubeUnchanged, OutsideUnchanged
<1>3. CASE EnsureFirewallRule \/ PatchFirewallRule \/ AdoptFirewallRule \/ RecordRule
           \/ RecordAdoptedRule \/ CreateFirewallRule \/ RecordOperation
  BY <1>1, <1>3
  DEF EnsureFirewallRule, NoFirewallRuleWanted, CheckFirewallRule, ResolveOperation,
      PatchFirewallRule, AdoptFirewallRule, RecordRule, RecordAdoptedRule, PatchAndFinish,
      CreateFirewallRule, RecordOperation, KubeUnchanged, OutsideUnchanged
<1>4. CASE DeleteFirewallRule \/ FindRule \/ DeleteRule \/ ClearRule \/ DeleteLoadBalancer
           \/ RemoveFinalizer \/ CallFails
  BY <1>1, <1>4
  DEF DeleteFirewallRule, FindRule, DeleteRule, ClearRule, DeleteLoadBalancer, RemoveFinalizer,
      CallFails, KubeUnchanged, OutsideUnchanged
<1>5. CASE User \/ DeliverEvent \/ Timer \/ NodeChanges
  BY <1>5 DEF User, UserCreates, UserDeletes, UserEdits, DeliverEvent, Deliver, Timer,
              TimerFires, NodeChanges, NodeEvent
<1>6. CASE \/ \E i \in 1..MaxLbs : LbProgress(i)
           \/ \E o \in 1..MaxOps : FwProgress(o)
           \/ CloudFault \/ OperatorRemoves \/ OperatorReleases \/ HoldExpires
           \/ UNCHANGED vars
  BY <1>6 DEF LbProgress, FwProgress, CloudFault, OperatorRemoves, OperatorReleases,
              HoldExpires, vars, kubeVars
<1>7. QED
  BY <1>2, <1>3, <1>4, <1>5, <1>6 DEF Next, Worker

\* A write the watch does not carry changes nothing.
LEMMA WritesNothing ==
    ASSUME TypeInv, NEW new \in Service, Write(new), stored' = stored \/ watch' = <<>>
    PROVE  new = stored /\ UNCHANGED <<stored, watch>>
<1>1. stored.rv \in Nat /\ watch \in Seq(Service)
  BY Objects
<1>2. CASE new # stored
  <2>1. stored'.rv = stored.rv + 1 /\ watch' = Append(watch, stored') /\ stored' \in Service
    <3>1. NextVersion(new).rv = stored.rv + 1
      BY DEF NextVersion, Service
    <3>2. stored' = NextVersion(new) /\ watch' = Append(watch, NextVersion(new))
      BY <1>2 DEF Write
    <3>3. stored' # stored
      BY <1>1, <3>1, <3>2
    <3>4. QED
      BY <3>1, <3>2, <3>3, WrittenVersion
  <2>2. stored' # stored
    BY <1>1, <2>1
  <2>3. watch' # <<>>
    BY <1>1, <2>1
  <2>4. QED
    BY <2>2, <2>3
<1>3. CASE new = stored
  BY <1>3 DEF Write
<1>4. QED
  BY <1>2, <1>3

\* The last event to arrive is the stored Service, and queues the key.
LEMMA LastEventQueues ==
    ASSUME History, Deliver, watch' = <<>>, stored.kind # "Other"
    PROVE  queued'
<1>1. watch \in Seq(Service) /\ watch # <<>> /\ watch' = Tail(watch)
  BY Objects DEF History, Deliver
<1>2. Len(watch) = 1 /\ Head(watch) = watch[1]
  <2>1. Len(Tail(watch)) = Len(watch) - 1 /\ Len(watch) \in Nat
    BY <1>1
  <2>2. Tail(watch) = <<>>
    BY <1>1
  <2>3. Len(watch) - 1 = 0
    BY <2>1, <2>2
  <2>4. Len(watch) = 1
    BY <2>1, <2>3
  <2>5. QED
    BY <1>1, <2>4
<1>3. Head(watch) = stored
  BY <1>1, <1>2 DEF History, VersionInv, CacheCatchesUp
<1>4. Exists(stored)
  BY DEF History, BlankInv, Blank, Exists
<1>5. QED
  BY <1>3, <1>4 DEF Deliver, loadBalancerPredicate

LEMMA CalmStep ==
    ASSUME History, [Next]_vars, Calm'
    PROVE  Reconcile \/ (Calm /\ UNCHANGED <<stored, watch>>)
<1>1. TypeInv
  BY DEF History
<1>2. CASE Crash
  <2>1. queued' = (stored.kind # "Other") /\ stored' = stored
    BY <1>2 DEF Crash, Resync
  <2>2. QED
    BY <2>1 DEF Calm
<1>3. CASE ~queued /\ ~delayed
  <2>1. CASE UNCHANGED <<stored, watch>>
    BY <1>3, <2>1 DEF Calm
  <2>2. ASSUME NEW new \in Service, Write(new)
        PROVE  UNCHANGED <<stored, watch>>
    BY <1>1, <2>2, WritesNothing DEF Calm
  <2>3. CASE Deliver
    <3>1. stored' = stored
      BY <2>3 DEF Deliver
    <3>2. QED
      BY <2>3, <3>1, LastEventQueues DEF Calm
  <2>4. CASE Resync
    BY <2>4 DEF Resync, Calm
  <2>5. QED
    BY <1>1, <2>1, <2>2, <2>3, <2>4, EveryStoreStep DEF StoreStep
<1>4. QED
  BY <1>2, <1>3, QueueMoves DEF Calm
-----------------------------------------------------------------------------
(* What a calm step knows and leaves *)

\* A pass works on the Service as it is.
LEMMA CalmPass ==
    ASSUME History, Calm, SettlingInv, pc # "idle"
    PROVE  PassFacts /\ Exists(stored) /\ ~UpdateConflicts(svc)
<1>1. PassFacts
  BY DEF SettlingInv
<1>2. QED
  BY <1>1 DEF PassFacts, History, BlankInv, Blank, Calm, Exists, UpdateConflicts

\* A calm pass ends only if it asks for no other one.
LEMMA CalmEnd ==
    ASSUME Calm', NEW retry, Finish(retry)
    PROVE  pc' = "idle" /\ ~retry
BY DEF Calm, Finish, DropLocals

LEMMA CalmMove ==
    ASSUME NEW point, Goto(point)
    PROVE  pc' = point
BY DEF Goto

LEMMA PassBegins ==
    ASSUME History, HeldWhileDeleting, Reconcile, Calm'
    PROVE  SettlingInv'
<1>1. watch' = watch /\ stored' = stored
  BY DEF Reconcile
<1>2. cached = stored
  BY <1>1 DEF Calm, History, VersionInv, CacheCatchesUp
<1>3. Exists(stored)
  BY <1>1 DEF Calm, History, BlankInv, Blank, Exists
<1>4. CASE Ignores(cached)
  <2>1. ~stored.deleting /\ stored.kind = "Foreign"
    BY <1>2, <1>3, <1>4 DEF Ignores, HeldWhileDeleting
  <2>2. Settled'
    BY <1>1, <2>1 DEF Settled
  <2>3. pc' = "idle"
    BY <1>4 DEF Reconcile
  <2>4. QED
    BY <2>2, <2>3 DEF SettlingInv
<1>5. CASE ~Ignores(cached)
  <2>1. pc' = FirstStep(stored) /\ svc' = stored
    BY <1>2, <1>5 DEF Reconcile
  <2>2. /\ stored.deleting => pc' = "deleteFirewallRule"
        /\ ~stored.deleting /\ ~stored.finalizer => pc' = "addFinalizer"
        /\ ~stored.deleting /\ stored.finalizer => pc' = Operation(stored)
    BY <2>1, Zenon DEF FirstStep
  <2>3. Operation(stored) = IF stored.lbId = 0 THEN "handleCreate" ELSE "handleUpdate"
    BY DEF Operation
  <2>4. PassFacts' /\ pc' # "idle"
    BY <1>1, <2>1, <2>2, <2>3
    DEF PassFacts, CreateFacts, UpdateFacts, RuleFacts, DeletePoints, RulePoints
  <2>5. QED
    BY <2>4 DEF SettlingInv
<1>6. QED
  BY <1>4, <1>5

LEMMA FinalizerIsThere ==
    ASSUME History, Calm, Calm', UNCHANGED stored, SettlingInv
    PROVE  ~AddFinalizer
<1> SUFFICES ASSUME AddFinalizer PROVE FALSE
  OBVIOUS
<1>1. PassFacts /\ ~UpdateConflicts(svc) /\ pc = "addFinalizer"
  BY CalmPass DEF AddFinalizer
<1>2. TypeInv /\ svc \in Service
  BY Objects DEF History
<1>3. [svc EXCEPT !.finalizer = TRUE] \in Service /\ Write([svc EXCEPT !.finalizer = TRUE])
  BY <1>1, <1>2, WrittenByReconcile DEF AddFinalizer
<1>4. [svc EXCEPT !.finalizer = TRUE] = stored
  BY <1>2, <1>3, WritesNothing
<1>5. stored.finalizer
  BY <1>2, <1>4 DEF Service
<1>6. QED
  BY <1>1, <1>5 DEF PassFacts

LEMMA CreateStaysCalm ==
    ASSUME ~ClientErrors, History, Calm, Calm', UNCHANGED stored, SettlingInv,
           \/ HandleCreate \/ LookUp \/ CreateLoadBalancer \/ CreateRefused
           \/ WaitForOperation \/ RecordLoadBalancer \/ SetLoadBalancerIngress
    PROVE  SettlingInv'
<1>1. /\ PassFacts /\ Exists(stored) /\ pc \notin DeletePoints
      /\ pc \in {"handleCreate", "lookup", "create", "wait", "record"}
  <2>1. pc \in {"handleCreate", "lookup", "create", "wait", "record", "publish"}
    BY DEF HandleCreate, LookUp, CreateLoadBalancer, CreateRefused, WaitForOperation,
           RecordLoadBalancer, SetLoadBalancerIngress
  <2>2. PassFacts /\ Exists(stored)
    BY <2>1, CalmPass
  <2>3. QED
    BY <2>1, <2>2 DEF PassFacts, DeletePoints
<1>2. svc = stored /\ svc.lbId = 0 /\ ~svc.deleting
  BY <1>1 DEF PassFacts, CreateFacts
<1>3. ASSUME svc' = svc, pc' \in {"lookup", "create", "wait", "record"}
      PROVE  SettlingInv'
  BY <1>2, <1>3
  DEF SettlingInv, PassFacts, CreateFacts, UpdateFacts, RuleFacts, DeletePoints, RulePoints
<1>4. CASE HandleCreate
  <2>1. CASE DeriveLoadBalancerProtocol(svc.ports) = Rejected
    <3>1. pc' = "idle"
      BY <1>4, <2>1, CalmEnd DEF HandleCreate
    <3>2. Settled'
      BY <1>2, <2>1 DEF Settled, IsServed, Servable
    <3>3. QED
      BY <3>1, <3>2 DEF SettlingInv
  <2>2. CASE Goto("lookup") /\ UNCHANGED locals
    BY <1>3, <2>2, CalmMove DEF locals
  <2>3. ~Finish(TRUE)
    BY CalmEnd
  <2>4. QED
    BY <1>4, <2>1, <2>2, <2>3 DEF HandleCreate
<1>5. CASE LookUp \/ CreateLoadBalancer \/ WaitForOperation
  <2>1. ~Finish(TRUE)
    BY CalmEnd
  <2>2. pc' \in {"record", "create", "wait"} /\ svc' = svc
    BY <1>5, <2>1, CalmMove DEF LookUp, CreateLoadBalancer, WaitForOperation, locals
  <2>3. QED
    BY <1>3, <2>2
<1>6. ~CreateRefused
  BY CalmEnd DEF CreateRefused
<1>7. ~RecordLoadBalancer
  <2>1. SUFFICES ASSUME RecordLoadBalancer PROVE FALSE
    OBVIOUS
  <2>2. Write(WithLoadBalancer(stored, lb))
    BY <1>1, <2>1, CalmEnd DEF RecordLoadBalancer, Patch
  <2>3. lb # 0 /\ TypeInv
    BY <2>1 DEF RecordLoadBalancer, History, TypeInv, PassIsSound
  <2>4. WithLoadBalancer(stored, lb) \in Service
    BY <2>3, WrittenByReconcile
  <2>5. WithLoadBalancer(stored, lb) = stored
    BY <2>2, <2>3, <2>4, WritesNothing
  <2>6. stored.lbId = lb
    BY <2>3, <2>5, Objects DEF WithLoadBalancer, Service
  <2>7. QED
    BY <1>2, <2>3, <2>6
<1>8. ~SetLoadBalancerIngress
  BY <1>1 DEF SetLoadBalancerIngress
<1>9. QED
  BY <1>4, <1>5, <1>6, <1>7, <1>8

LEMMA UpdateStaysCalm ==
    ASSUME History, Calm, Calm', UNCHANGED stored, SettlingInv,
           \/ EnsureLoadBalancerIngress \/ RestoreIngress \/ UpdateLoadBalancer
           \/ CallFails
    PROVE  SettlingInv'
<1>1. ASSUME pc \in {"handleUpdate", "restoreIngress", "updateLoadBalancer"}
      PROVE  /\ PassFacts /\ Exists(stored) /\ svc = stored /\ svc.lbId # 0 /\ ~svc.deleting
  <2>1. PassFacts /\ Exists(stored)
    BY <1>1, CalmPass
  <2>2. QED
    BY <1>1, <2>1 DEF PassFacts, UpdateFacts, DeletePoints
<1>2. ASSUME svc' = svc, pc' = "updateLoadBalancer", requeue' \/ svc.ip # 0,
             pc \in {"handleUpdate", "restoreIngress"}
      PROVE  SettlingInv'
  <2>1. svc = stored /\ svc.lbId # 0 /\ ~svc.deleting
    BY <1>1, <1>2
  <2>2. QED
    BY <1>2, <2>1
    DEF SettlingInv, PassFacts, CreateFacts, UpdateFacts, RuleFacts, DeletePoints, RulePoints
<1>3. CASE EnsureLoadBalancerIngress
  <2>1. pc = "handleUpdate" /\ svc' = svc
    BY <1>3 DEF EnsureLoadBalancerIngress
  <2>2. CASE Goto("updateLoadBalancer")
    BY <1>2, <1>3, <2>1, <2>2, CalmMove DEF EnsureLoadBalancerIngress
  <2>3. CASE svc.ip = 0 /\ Goto("restoreIngress")
    <3>1. svc = stored /\ svc.lbId # 0 /\ ~svc.deleting /\ pc' = "restoreIngress"
      BY <1>1, <2>1, <2>3, CalmMove
    <3>2. QED
      BY <2>1, <2>3, <3>1
      DEF SettlingInv, PassFacts, CreateFacts, UpdateFacts, RuleFacts, DeletePoints, RulePoints
  <2>4. QED
    BY <1>3, <2>2, <2>3 DEF EnsureLoadBalancerIngress
<1>4. ~RestoreIngress
  <2>1. SUFFICES ASSUME RestoreIngress PROVE FALSE
    OBVIOUS
  <2>2. PassFacts /\ Exists(stored) /\ svc = stored /\ svc.lbId # 0 /\ svc.ip = 0
    BY <1>1, <2>1 DEF RestoreIngress, PassFacts, UpdateFacts
  <2>3. Write([stored EXCEPT !.ip = svc.lbId])
    BY <2>1, <2>2 DEF RestoreIngress, Patch
  <2>4. TypeInv /\ stored \in Service /\ [stored EXCEPT !.ip = svc.lbId] \in Service
    BY WrittenByReconcile, Objects DEF History
  <2>5. [stored EXCEPT !.ip = svc.lbId] = stored
    BY <2>3, <2>4, WritesNothing
  <2>6. stored.ip = svc.lbId
    BY <2>4, <2>5 DEF Service
  <2>7. QED
    BY <2>2, <2>6
<1>5. CASE UpdateLoadBalancer
  <2>1. /\ svc = stored /\ svc.lbId # 0 /\ ~svc.deleting /\ pc = "updateLoadBalancer"
        /\ requeue \/ svc.ip # 0
    BY <1>1, <1>5 DEF UpdateLoadBalancer, PassFacts, UpdateFacts
  <2>2. ~Finish(TRUE)
    BY CalmEnd
  <2>3. Goto("ensureFirewallRule") /\ UNCHANGED locals
    BY <1>5, <2>2 DEF UpdateLoadBalancer
  <2>4. pc' = "ensureFirewallRule" /\ svc' = svc /\ requeue' = requeue
    BY <2>3, CalmMove DEF locals
  <2>5. \/ noPortMatches(svc.ports, svc.protocol)
        \/ lbs'[svc.lbId].listeners = listenersFor(svc.ports, svc.protocol)
    <3>1. svc.lbId \in 1..MaxLbs /\ lbs \in [1..MaxLbs -> LoadBalancer]
      BY <2>1, NonzeroId, Objects, ServiceFields DEF History
    <3>2. lbs[svc.lbId] \in LoadBalancer
      BY <3>1
    <3>3. CASE lbs' = [lbs EXCEPT ![svc.lbId].listeners = listenersFor(svc.ports, svc.protocol)]
      <4>1. lbs'[svc.lbId] = [lbs[svc.lbId] EXCEPT !.listeners = listenersFor(svc.ports, svc.protocol)]
        BY <3>1, <3>3
      <4>2. QED
        BY <3>2, <4>1 DEF LoadBalancer
    <3>4. QED
      BY <1>5, <2>2, <3>3 DEF UpdateLoadBalancer
  <2>6. QED
    BY <2>1, <2>4, <2>5
    DEF SettlingInv, PassFacts, CreateFacts, UpdateFacts, RuleFacts, DeletePoints, RulePoints
<1>6. CASE CallFails
  <2>1. ~Finish(TRUE)
    BY CalmEnd
  <2>2. /\ pc \in {"handleUpdate", "restoreIngress"}
        /\ Goto("updateLoadBalancer") /\ requeue' = TRUE /\ svc' = svc
    BY <1>6, <2>1 DEF CallFails
  <2>3. QED
    BY <1>2, <2>2, CalmMove
<1>7. QED
  BY <1>3, <1>4, <1>5, <1>6
\* The address a served Service publishes is that of its load balancer.
LEMMA PassServes ==
    ASSUME AddressInv, PassFacts, pc \in RulePoints, ~requeue
    PROVE  ~stored.deleting /\ HasLoadBalancer(stored)
<1>1. /\ svc = stored /\ stored.lbId # 0 /\ stored.ip # 0 /\ ~stored.deleting
      /\ \/ noPortMatches(stored.ports, stored.protocol)
         \/ lbs[stored.lbId].listeners = listenersFor(stored.ports, stored.protocol)
  BY DEF PassFacts, UpdateFacts, RuleFacts, RulePoints, DeletePoints
<1>2. stored.ip = stored.lbId
  BY <1>1 DEF AddressInv, PublishesRecorded, ExternalIPIsRecorded
<1>3. QED
  BY <1>1, <1>2 DEF HasLoadBalancer

LEMMA LastPatchChanges ==
    ASSUME History, Calm, Calm', UNCHANGED stored, SettlingInv
    PROVE  ~RecordRule /\ ~RecordAdoptedRule /\ ~RecordOperation
<1>1. TypeInv /\ stored \in Service
  BY Objects DEF History
<1>2. ASSUME RecordRule \/ RecordAdoptedRule
      PROVE  Exists(stored) /\ stored.ruleId = 0 /\ rule # 0
  <2>1. pc \in {"recordRule", "recordAdopted"}
    BY <1>2 DEF RecordRule, RecordAdoptedRule
  <2>2. PassFacts /\ Exists(stored)
    BY <2>1, CalmPass
  <2>3. QED
    BY <2>1, <2>2 DEF PassFacts, RuleFacts
<1>3. ~RecordRule
  <2>1. SUFFICES ASSUME RecordRule PROVE FALSE
    OBVIOUS
  <2>2. Write([stored EXCEPT !.ruleId = rule])
    BY <1>2, <2>1 DEF RecordRule, PatchAndFinish
  <2>3. [stored EXCEPT !.ruleId = rule] = stored
    BY <1>1, <2>2, WrittenByReconcile, WritesNothing
  <2>4. stored.ruleId = rule
    BY <1>1, <2>3 DEF Service
  <2>5. QED
    BY <1>2, <2>1, <2>4
<1>4. ~RecordAdoptedRule
  <2>1. SUFFICES ASSUME RecordAdoptedRule PROVE FALSE
    OBVIOUS
  <2>2. Write([stored EXCEPT !.ruleId = rule, !.opId = 0])
    BY <1>2, <2>1 DEF RecordAdoptedRule, PatchAndFinish
  <2>3. [stored EXCEPT !.ruleId = rule, !.opId = 0] = stored
    BY <1>1, <2>2, WrittenByReconcile, WritesNothing
  <2>4. stored.ruleId = rule
    BY <1>1, <2>3 DEF Service
  <2>5. QED
    BY <1>2, <2>1, <2>4
<1>5. ~RecordOperation
  BY CalmEnd DEF RecordOperation, PatchAndFinish
<1>6. QED
  BY <1>3, <1>4, <1>5

LEMMA RuleStaysCalm ==
    ASSUME History, AddressInv, Calm, Calm', UNCHANGED stored, SettlingInv,
           \/ EnsureFirewallRule \/ PatchFirewallRule \/ AdoptFirewallRule \/ RecordRule
           \/ RecordAdoptedRule \/ CreateFirewallRule \/ RecordOperation
    PROVE  SettlingInv'
<1>1. pc \in RulePoints /\ lbs' = lbs
  BY DEF EnsureFirewallRule, PatchFirewallRule, AdoptFirewallRule, RecordRule, RecordAdoptedRule,
         CreateFirewallRule, RecordOperation, PatchAndFinish, RulePoints, cloudVars
<1>2. PassFacts
  BY <1>1, CalmPass DEF RulePoints
<1>3. svc = stored
  BY <1>2 DEF PassFacts
<1>4. ASSUME svc' = svc, requeue' = requeue, pc' \in RulePoints,
             pc' = "patchFirewallRule" => svc.ruleId # 0,
             pc' \in {"adoptFirewallRule", "recordRule", "recordAdopted"} => svc.ruleId = 0,
             pc' \in {"recordRule", "recordAdopted"} => rule' # 0
      PROVE  SettlingInv'
  <2>1. /\ svc.lbId # 0 /\ ~svc.deleting
        /\ requeue \/ svc.ip # 0
        /\ \/ noPortMatches(svc.ports, svc.protocol)
           \/ lbs[svc.lbId].listeners = listenersFor(svc.ports, svc.protocol)
    BY <1>1, <1>2 DEF PassFacts, UpdateFacts, RuleFacts, RulePoints, DeletePoints
  <2>2. pc' # "idle" /\ pc' \notin DeletePoints
    BY <1>4 DEF RulePoints, DeletePoints
  <2>3. CreateFacts' /\ pc' \notin {"addFinalizer", "publish"}
    BY <1>4 DEF CreateFacts, RulePoints
  <2>4. UpdateFacts'
    <3>1. svc'.lbId # 0 /\ (requeue' \/ svc'.ip # 0)
      BY <1>4, <2>1
    <3>2. pc' # "restoreIngress"
      BY <1>4 DEF RulePoints
    <3>3. QED
      BY <3>1, <3>2 DEF UpdateFacts
  <2>5. RuleFacts'
    BY <1>1, <1>4, <2>1 DEF RuleFacts
  <2>6. QED
    BY <1>3, <1>4, <2>1, <2>2, <2>3, <2>4, <2>5 DEF SettlingInv, PassFacts
<1>5. ASSUME Finish(requeue), WantsRule(stored) => HasRule(stored)'
      PROVE  SettlingInv'
  <2>1. pc' = "idle" /\ ~requeue
    BY <1>5, CalmEnd
  <2>2. ~stored.deleting /\ HasLoadBalancer(stored)
    BY <1>1, <1>2, <2>1, PassServes
  <2>3. Settled'
    BY <1>1, <1>5, <2>2 DEF Settled, IsServed, HasLoadBalancer
  <2>4. QED
    BY <2>1, <2>3 DEF SettlingInv
<1>6. ~Finish(TRUE)
  BY CalmEnd
<1>7. CASE EnsureFirewallRule
  <2>1. fws' = fws
    BY <1>7 DEF EnsureFirewallRule, cloudVars
  <2>2. CASE NoFirewallRuleWanted
    BY <1>3, <1>5, <2>2 DEF NoFirewallRuleWanted
  <2>3. CASE CheckFirewallRule
    <3>1. CASE Goto("createFirewallRule") \/ Goto("patchFirewallRule")
      <4>1. pc' \in {"createFirewallRule", "patchFirewallRule"} /\ svc.ruleId # 0
        BY <2>3, <3>1, CalmMove DEF CheckFirewallRule
      <4>2. svc' = svc /\ requeue' = requeue
        BY <2>3, <4>1 DEF CheckFirewallRule, locals, Finish, DropLocals
      <4>3. QED
        BY <1>4, <4>1, <4>2 DEF RulePoints
    <3>2. CASE CompareFirewallRule(svc.ruleId, argsOf(svc)) /\ Finish(requeue)
      <4>1. HasRule(stored)'
        BY <1>3, <2>1, <2>3, <3>2 DEF CheckFirewallRule, CompareFirewallRule, HasRule
      <4>2. QED
        BY <1>5, <3>2, <4>1
    <3>3. QED
      BY <2>3, <3>1, <3>2 DEF CheckFirewallRule
  <2>4. CASE ResolveOperation
    <3>1. svc' = svc /\ requeue' = requeue
      BY <1>6, <2>4 DEF ResolveOperation, locals
    <3>2. \/ Goto("adoptFirewallRule")
          \/ Goto("createFirewallRule")
          \/ Goto("recordRule") /\ rule' # 0
      BY <1>6, <2>4 DEF ResolveOperation
    <3>3. svc.ruleId = 0
      BY <2>4 DEF ResolveOperation
    <3>4. QED
      BY <1>4, <3>1, <3>2, <3>3 DEF Goto, RulePoints
  <2>5. CASE Goto("createFirewallRule") /\ UNCHANGED locals
    BY <1>4, <2>5, CalmMove DEF locals, RulePoints
  <2>6. QED
    BY <1>7, <2>2, <2>3, <2>4, <2>5 DEF EnsureFirewallRule
<1>8. CASE PatchFirewallRule
  <2>1. /\ fws' = [fws EXCEPT ![svc.ruleId].ports = argsOf(svc).destinationPorts,
                              ![svc.ruleId].protocols = argsOf(svc).protocols]
        /\ Finish(requeue)
    BY <1>6, <1>8 DEF PatchFirewallRule
  <2>2. svc.ruleId # 0
    BY <1>2, <1>8 DEF PatchFirewallRule, PassFacts, RuleFacts
  <2>3. HasRule(stored)'
    <3> DEFINE ports == argsOf(svc).destinationPorts
               protocols == argsOf(svc).protocols
               id == svc.ruleId
               l == fws[id]
               new == [[l EXCEPT !.ports = ports] EXCEPT !.protocols = protocols]
    <3>1. id \in 1..MaxOps /\ fws \in [1..MaxOps -> FirewallRule]
      <4>1. svc.ruleId \in 0..MaxOps /\ fws \in [1..MaxOps -> FirewallRule]
        BY Objects, ServiceFields DEF History
      <4>2. QED
        BY <2>2, <4>1, BoundsType
    <3>2. l \in FirewallRule
      BY <3>1
    <3>3. fws' = [fws EXCEPT ![id].ports = ports, ![id].protocols = protocols]
      BY <2>1
    <3> HIDE DEF ports, protocols, id
    <3>4. fws'[id] = new
      BY <3>1, <3>3
    <3>5. new.ports = ports /\ new.protocols = protocols
      <4> HIDE DEF l
      <4>1. QED
        BY <3>2 DEF FirewallRule
    <3> HIDE DEF new
    <3>6. fws'[svc.ruleId].ports = argsOf(svc).destinationPorts
          /\ fws'[svc.ruleId].protocols = argsOf(svc).protocols
      BY <3>4, <3>5 DEF id, ports, protocols
    <3>7. QED
      BY <1>3, <2>2, <3>6 DEF HasRule
  <2>4. QED
    BY <1>5, <2>1, <2>3
<1>9. CASE AdoptFirewallRule
  <2>1. svc.ruleId = 0
    BY <1>2, <1>9 DEF AdoptFirewallRule, PassFacts, RuleFacts
  <2>2. /\ svc' = svc /\ requeue' = requeue /\ pc' \in {"recordAdopted", "createFirewallRule"}
        /\ pc' = "recordAdopted" => rule' \in RulesNamed(svc.uid)
    BY <1>6, <1>9, CalmMove DEF AdoptFirewallRule, locals
  <2>3. 0 \notin RulesNamed(svc.uid)
    BY BoundsType DEF RulesNamed
  <2>4. QED
    BY <1>4, <2>1, <2>2, <2>3 DEF RulePoints
<1>10. CASE CreateFirewallRule
  <2>1. svc' = svc /\ requeue' = requeue /\ pc' = "recordOperation"
    BY <1>6, <1>10, CalmMove DEF CreateFirewallRule
  <2>2. QED
    BY <1>4, <2>1 DEF RulePoints
<1>11. QED
  BY <1>7, <1>8, <1>9, <1>10, LastPatchChanges

LEMMA DeleteStaysCalm ==
    ASSUME History, Calm, Calm', UNCHANGED stored, SettlingInv,
           \/ DeleteFirewallRule \/ FindRule \/ DeleteRule \/ ClearRule
           \/ DeleteLoadBalancer \/ RemoveFinalizer
    PROVE  SettlingInv'
<1>1. pc \in DeletePoints
  BY DEF DeleteFirewallRule, FindRule, DeleteRule, ClearRule, DeleteLoadBalancer,
         RemoveFinalizer, DeletePoints
<1>2. PassFacts /\ Exists(stored) /\ ~UpdateConflicts(svc)
  BY <1>1, CalmPass DEF DeletePoints
<1>3. svc = stored /\ svc.deleting
  BY <1>1, <1>2 DEF PassFacts
<1>4. ASSUME svc' = stored, pc' \in DeletePoints
      PROVE  SettlingInv'
  BY <1>3, <1>4
  DEF SettlingInv, PassFacts, CreateFacts, UpdateFacts, RuleFacts, DeletePoints, RulePoints
<1>5. ~Finish(TRUE)
  BY CalmEnd
<1>6. CASE DeleteFirewallRule \/ FindRule \/ DeleteRule \/ ClearRule \/ DeleteLoadBalancer
  <2>1. svc' = stored
    BY <1>3, <1>5, <1>6
    DEF DeleteFirewallRule, FindRule, DeleteRule, ClearRule, DeleteLoadBalancer, Patch, locals
  <2>2. pc' \in DeletePoints
    BY <1>5, <1>6, CalmMove
    DEF DeleteFirewallRule, FindRule, DeleteRule, ClearRule, DeleteLoadBalancer, DeletePoints
  <2>3. QED
    BY <1>4, <2>1, <2>2
<1>7. ~RemoveFinalizer
  <2>1. SUFFICES ASSUME RemoveFinalizer PROVE FALSE
    OBVIOUS
  <2>2. Write(Released)
    BY <1>2, <1>3, <2>1 DEF RemoveFinalizer, WithoutFinalizer
  <2>3. TypeInv
    BY DEF History
  <2>4. Blank(stored)
    BY <2>2, <2>3, ReleasedIsBlank DEF Blank
  <2>5. QED
    BY <1>2, <2>4 DEF Blank, Exists
<1>8. QED
  BY <1>6, <1>7

\* What others do leaves the listeners and the ports of a rule alone.
LEMMA RestStaysCalm ==
    ASSUME History, OwnInv, [Next]_vars, Calm, Calm', UNCHANGED stored, SettlingInv,
           UNCHANGED reconcileVars, ~Worker
    PROVE  SettlingInv'
<1>1. /\ TypeInv /\ pc' = pc /\ svc' = svc /\ rule' = rule /\ requeue' = requeue
      /\ stored.lbId \in 0..MaxLbs /\ stored.ruleId \in 0..MaxOps
  BY Objects, ServiceFields DEF History, reconcileVars, locals
<1>2. \A i \in 1..MaxLbs : lbs'[i].listeners = lbs[i].listeners
  <2>1. ~UpdateLoadBalancer /\ ~CreateLoadBalancer
    BY DEF Worker
  <2>2. QED
    BY <1>1, <2>1, EachLoadBalancer
    DEF LbKept, LbSettled, LbGotVip, LbRemoved, LbCreated, SameMaker
<1>3. \A o \in 1..MaxOps : SamePorts(o)
  <2>1. ~PatchFirewallRule /\ ~CreateFirewallRule
    BY DEF Worker
  <2>2. \A o \in 1..MaxOps : fws'[o] = fws[o] => SamePorts(o)
    BY DEF SamePorts
  <2>3. QED
    BY <1>1, <2>1, <2>2, EachFirewallRule
    DEF FwMoves, FwPatched, FwRemoved, FwSucceeded, FwClashed, FwFailed, FwCooled, FwAged,
        FwStuck, FwCreated, SameMaking
<1>4. stored.lbId # 0 => lbs'[stored.lbId].listeners = lbs[stored.lbId].listeners
  BY <1>1, <1>2, NonzeroId
<1>5. stored.ruleId # 0 => SamePorts(stored.ruleId)
  <2>1. stored.ruleId # 0 => stored.ruleId \in 1..MaxOps
    BY <1>1, BoundsType
  <2>2. QED
    BY <1>3, <2>1
<1>6. CASE pc = "idle"
  <2>1. Settled
    BY <1>6 DEF SettlingInv
  <2>2. IsServed(stored) => IsServed(stored)'
    BY <1>4, <1>5 DEF IsServed, HasLoadBalancer, HasRule, SamePorts
  <2>3. QED
    BY <1>1, <1>6, <2>1, <2>2 DEF Settled, SettlingInv
<1>7. CASE pc # "idle"
  <2>1. PassFacts
    BY <1>7 DEF SettlingInv
  <2>2. pc \in RulePoints => svc.lbId # 0 /\ svc = stored
    BY <2>1 DEF PassFacts, UpdateFacts
  <2>3. CreateFacts' /\ UpdateFacts' /\ RuleFacts'
    BY <1>1, <1>4, <2>1, <2>2 DEF PassFacts, CreateFacts, UpdateFacts, RuleFacts
  <2>4. QED
    BY <1>1, <1>7, <2>1, <2>3 DEF PassFacts, SettlingInv
<1>8. QED
  BY <1>6, <1>7

LEMMA SettlingStep ==
    ASSUME ~ClientErrors, History, OwnInv, AddressInv, HeldWhileDeleting, SettlingInv,
           [Next]_vars
    PROVE  SettlingInv'
<1>1. CASE ~Calm'
  BY <1>1 DEF SettlingInv
<1>2. CASE Calm' /\ Reconcile
  BY <1>2, PassBegins
<1>3. CASE Calm /\ Calm' /\ stored' = stored /\ ~Reconcile
  <2>1. CASE Worker \/ CallFails
    BY <1>3, <2>1, FinalizerIsThere, CreateStaysCalm, UpdateStaysCalm, RuleStaysCalm,
       DeleteStaysCalm
    DEF Worker
  <2>2. CASE ~Worker /\ UNCHANGED reconcileVars
    BY <1>3, <2>2, RestStaysCalm
  <2>3. ~Crash
    BY <1>3 DEF Crash, Resync, Calm
  <2>4. Worker \/ CallFails \/ UNCHANGED reconcileVars
    BY <2>3 DEF Next, User, DeliverEvent, Timer, NodeChanges, LbProgress, FwProgress, CloudFault,
                OperatorRemoves, OperatorReleases, HoldExpires, vars, reconcileVars, locals
  <2>5. QED
    BY <2>1, <2>2, <2>4
<1>4. QED
  BY <1>1, <1>2, <1>3, CalmStep

(***************************************************************************)
(* Nothing is left to do when nothing will trigger another pass.  With no  *)
(* pass running, none queued or delayed, and every change to the Service   *)
(* delivered, a Service the controller serves has its load balancer        *)
(* recorded and published, with the listeners its ports ask for, and its   *)
(* firewall rule; one being deleted, or taken over by another controller,  *)
(* is not held.  So no return of handleCreate, handleUpdate, handleDelete  *)
(* or ensureFirewallRule leaves out the delay it needs, whatever calls     *)
(* fail, and a pass on a stale copy always finds its own write or the next *)
(* event behind it.  A 4xx answer to the create request is the one return  *)
(* that is not made up for, and is excluded.                               *)
(***************************************************************************)
THEOREM NothingIsLeftUndone ==
    ASSUME ~ClientErrors, NoHandOrRead
    PROVE  Spec => []SettledWhenQuiet
<1> DEFINE Inv == History /\ OwnInv /\ AddressInv /\ HeldWhileDeleting /\ SettlingInv
<1>1. Init => Inv
  <2>1. Init => stored = NoService(0) /\ pc = "idle"
    BY DEF Init, KubeInit
  <2>2. ~NoService(0).deleting /\ NoService(0).kind = "Other"
    BY DEF NoService
  <2>3. QED
    BY <2>1, <2>2, HistoryInit, OwnInit, AddressInit
    DEF HeldWhileDeleting, SettlingInv, Calm
<1>2. Inv /\ [Next]_vars => Inv'
  BY HistoryStep, OwnStep, AddressStep, HeldWhileDeletingStep, SettlingStep
  DEF NoHandOrRead, NoSuccessor
<1>3. Inv => SettledWhenQuiet
  <2> SUFFICES ASSUME Inv, Quiet
               PROVE  CASE stored.kind = "LoadBalancer" -> IsServed(stored) \/ MayBeRefused(stored)
                        [] stored.kind = "Foreign"      -> ~stored.deleting
                        [] stored.kind = "Other"        -> TRUE
    BY DEF SettledWhenQuiet
  <2>1. stored.kind \in ServiceKinds
    BY Objects DEF History, Service
  <2>2. stored.kind # "Other" => Settled
    BY DEF SettlingInv, Calm, Quiet
  <2>3. QED
    BY <2>1, <2>2, Zenon DEF Settled, ServiceKinds
<1>4. QED
  BY <1>1, <1>2, <1>3, PTL DEF Spec
================================================================================
