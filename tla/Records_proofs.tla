---------------------------- MODULE Records_proofs ----------------------------
(***************************************************************************)
(* Theorems about what the controller records and publishes on a Service,  *)
(* and about what is gone when it lets the Service go; the last one says   *)
(* that it implements OwnedLoadBalancers.  They rest on two facts about    *)
(* the copies of the Service that are around, in the watch, in the cache   *)
(* and in the pass that is running: each is a version the stored Service   *)
(* has had, the one with its resource version being what it is now, and    *)
(* of two of them one is the later.                                        *)
(***************************************************************************)
EXTENDS ServiceReconciler_proofs

-----------------------------------------------------------------------------
(* Versions *)

CurrentWith(v, s) == v.rv <= s.rv /\ (v.rv = s.rv => v = s)

\* The watch brings versions in their order, all of them newer than the cache.
WatchIsOrdered ==
    /\ \A i \in DOMAIN watch : cached.rv < watch[i].rv
    /\ \A i, j \in DOMAIN watch : i < j => watch[i].rv < watch[j].rv

\* The newest version is the stored Service.
CacheCatchesUp ==
    /\ watch = <<>> => cached = stored
    /\ watch # <<>> => watch[Len(watch)] = stored

VersionInv ==
    /\ CurrentWith(NoService(0), stored)
    /\ CurrentWith(svc, stored)
    /\ CurrentWith(cached, stored)
    /\ \A i \in DOMAIN watch : CurrentWith(watch[i], stored)
    /\ WatchIsOrdered
    /\ CacheCatchesUp

\* The objects are Services.
LEMMA Objects ==
    ASSUME TypeInv
    PROVE  /\ stored \in Service /\ cached \in Service /\ svc \in Service
           /\ watch \in Seq(Service)
           /\ stored.rv \in Nat /\ cached.rv \in Nat /\ svc.rv \in Nat
           /\ lb \in 0..MaxLbs /\ rule \in 0..MaxOps
           /\ lbs \in [1..MaxLbs -> LoadBalancer]
           /\ fws \in [1..MaxOps -> FirewallRule]
           /\ uids \in 0..MaxUid
BY ServiceFields, TypeInvParts DEF KubeTypeOK, CloudTypeOK, LocalTypeOK

\* A write that changes the object gives it the next version.
LEMMA WrittenVersion ==
    ASSUME TypeInv, NEW new \in Service, Write(new)
    PROVE  \/ UNCHANGED <<stored, watch>>
           \/ /\ stored' \in Service
              /\ stored'.rv = stored.rv + 1
              /\ stored' = NextVersion(new)
              /\ watch' = Append(watch, stored')
<1>1. stored.rv + 1 \in Nat
  BY Objects
<1>2. NextVersion(new) \in Service
  BY <1>1, VersionType, Zenon DEF NextVersion
<1>3. NextVersion(new).rv = stored.rv + 1
  BY DEF NextVersion, Service
<1>4. QED
  BY <1>2, <1>3 DEF Write

\* The fields of the next version are those of what is written.
LEMMA NextVersionFields ==
    ASSUME NEW new \in Service
    PROVE  /\ NextVersion(new).uid = new.uid
           /\ NextVersion(new).deleting = new.deleting
           /\ NextVersion(new).finalizer = new.finalizer
           /\ NextVersion(new).kind = new.kind
           /\ NextVersion(new).lbId = new.lbId
           /\ NextVersion(new).protocol = new.protocol
           /\ NextVersion(new).opId = new.opId
           /\ NextVersion(new).ruleId = new.ruleId
           /\ NextVersion(new).ip = new.ip
BY DEF NextVersion, Service

\* What is written is a Service.
LEMMA WrittenByReconcile ==
    ASSUME TypeInv
    PROVE  /\ [svc EXCEPT !.finalizer = TRUE] \in Service
           /\ lb # 0 => WithLoadBalancer(stored, lb) \in Service
           /\ [stored EXCEPT !.ip = lb] \in Service
           /\ [stored EXCEPT !.ip = svc.lbId] \in Service
           /\ [stored EXCEPT !.ruleId = rule] \in Service
           /\ [stored EXCEPT !.ruleId = rule, !.opId = 0] \in Service
           /\ WithOperation(stored, rule) \in Service
           /\ WithoutRule(stored) \in Service
           /\ WithoutFinalizer(svc) \in Service
           /\ Released \in Service
<1>1. /\ stored \in Service /\ svc \in Service /\ lb \in 0..MaxLbs /\ rule \in 0..MaxOps
      /\ stored.rv \in Nat
  BY Objects
<1>2. svc.lbId \in 0..MaxLbs /\ stored.ruleId \in 0..MaxOps /\ stored.opId \in 0..MaxOps
  BY <1>1, ServiceFields
<1>3. [svc EXCEPT !.finalizer = TRUE] \in Service /\ [svc EXCEPT !.finalizer = FALSE] \in Service
  BY <1>1 DEF Service
<1>4. [stored EXCEPT !.ip = lb] \in Service /\ [stored EXCEPT !.ip = svc.lbId] \in Service
  BY <1>1, <1>2 DEF Service
<1>5. /\ [stored EXCEPT !.ruleId = rule] \in Service
      /\ [stored EXCEPT !.ruleId = rule, !.opId = 0] \in Service
  BY <1>1, ZeroType DEF Service
<1>6. WithOperation(stored, rule) \in Service
  <2>1. (IF svc.ruleId # 0 THEN 0 ELSE stored.ruleId) \in 0..MaxOps
    BY <1>2, ZeroType
  <2>2. QED
    BY <1>1, <2>1 DEF WithOperation, Service
<1>7. WithoutRule(stored) \in Service
  <2>1. /\ (IF svc.ruleId # 0 THEN 0 ELSE stored.ruleId) \in 0..MaxOps
        /\ (IF svc.opId # 0 THEN 0 ELSE stored.opId) \in 0..MaxOps
    BY <1>2, ZeroType
  <2>2. QED
    BY <1>1, <2>1 DEF WithoutRule, Service
<1>8. Released \in Service
  BY <1>1, NoServiceType DEF Released
<1>9. ASSUME lb # 0
      PROVE  WithLoadBalancer(stored, lb) \in Service
  <2>1. lbs[lb].protocol \in LoadBalancerProtocols \cup {""}
    BY <1>1, <1>9, NonzeroId, Objects DEF LoadBalancer
  <2>2. QED
    BY <1>1, <2>1 DEF WithLoadBalancer, Service
<1>10. QED
  BY <1>3, <1>4, <1>5, <1>6, <1>7, <1>8, <1>9 DEF WithoutFinalizer

\* The same of users.
LEMMA WrittenByUser ==
    ASSUME TypeInv
    PROVE  /\ \A kind \in Kinds, ports \in Specs :
                 uids < MaxUid
                    => [NoService(stored.rv) EXCEPT !.uid = uids + 1, !.kind = kind, !.ports = ports]
                          \in Service
           /\ [stored EXCEPT !.deleting = TRUE] \in Service
           /\ \A kind \in Kinds, ports \in Specs :
                 [stored EXCEPT !.kind = kind, !.ports = ports] \in Service
<1>1. stored \in Service /\ stored.rv \in Nat /\ uids \in 0..MaxUid
  BY Objects
<1>2. NoService(stored.rv) \in Service
  BY <1>1, NoServiceType
<1>3. Kinds \subseteq ServiceKinds
  BY KubeAssumption
<1>4. uids < MaxUid => uids + 1 \in 0..MaxUid
  BY <1>1, BoundsType
<1>5. ASSUME NEW s \in Service, NEW uid \in 0..MaxUid, NEW kind \in Kinds, NEW ports \in Specs
      PROVE  [s EXCEPT !.uid = uid, !.kind = kind, !.ports = ports] \in Service
  BY <1>3 DEF Service
<1>6. QED
  BY <1>1, <1>2, <1>3, <1>4, <1>5 DEF Service

\* A pass keeps its copy of the Service, takes the cached one or the reply to a
\* write, or ends.
SvcIsSome == svc' \in {svc, cached, stored', NoService(0)}

\* What a step does to the Service and its copies: a step of a pass or of a user
\* may write, and the cache moves by an event or a restart.
StoreStep ==
    \/ /\ UNCHANGED cached
       /\ UNCHANGED <<stored, watch>> \/ \E new \in Service : Write(new)
       /\ SvcIsSome
    \/ Deliver /\ UNCHANGED svc
    \/ Resync /\ svc' = NoService(0)

LEMMA PassStoreStep ==
    ASSUME TypeInv, Worker \/ CallFails
    PROVE  StoreStep
<1>1. /\ \A retry : Finish(retry) => svc' = NoService(0)
      /\ \A new : Patch(new) => svc' = stored'
      /\ UNCHANGED locals => svc' = svc
  BY DEF Finish, DropLocals, Patch, locals
<1>2. UNCHANGED cached
  BY DEF Worker, Reconcile, AddFinalizer, HandleCreate, LookUp, CreateLoadBalancer, CreateRefused,
         WaitForOperation, RecordLoadBalancer, SetLoadBalancerIngress, EnsureLoadBalancerIngress,
         RestoreIngress, UpdateLoadBalancer, EnsureFirewallRule, PatchFirewallRule,
         AdoptFirewallRule, RecordRule, RecordAdoptedRule, PatchAndFinish, CreateFirewallRule,
         RecordOperation, DeleteFirewallRule, FindRule, DeleteRule, ClearRule,
         DeleteLoadBalancer, RemoveFinalizer, CallFails, KubeUnchanged, OutsideUnchanged
<1>3. CASE Reconcile \/ CallFails
  BY <1>1, <1>2, <1>3 DEF Reconcile, CallFails, StoreStep, SvcIsSome, locals
<1>4. CASE \/ HandleCreate \/ LookUp \/ CreateLoadBalancer \/ CreateRefused \/ WaitForOperation
           \/ EnsureLoadBalancerIngress \/ UpdateLoadBalancer \/ EnsureFirewallRule
           \/ PatchFirewallRule \/ AdoptFirewallRule \/ CreateFirewallRule
           \/ DeleteFirewallRule \/ FindRule \/ DeleteRule \/ DeleteLoadBalancer
  <2>1. KubeUnchanged
    BY <1>4 DEF HandleCreate, LookUp, CreateLoadBalancer, CreateRefused, WaitForOperation,
                EnsureLoadBalancerIngress, UpdateLoadBalancer, EnsureFirewallRule,
                PatchFirewallRule, AdoptFirewallRule, CreateFirewallRule, DeleteFirewallRule,
                FindRule, DeleteRule, DeleteLoadBalancer
  <2>2. svc' = svc \/ svc' = NoService(0)
    BY <1>1, <1>4
    DEF HandleCreate, LookUp, CreateLoadBalancer, CreateRefused, WaitForOperation,
        EnsureLoadBalancerIngress, UpdateLoadBalancer, EnsureFirewallRule,
        NoFirewallRuleWanted, CheckFirewallRule, ResolveOperation, PatchFirewallRule,
        AdoptFirewallRule, CreateFirewallRule, DeleteFirewallRule, FindRule, DeleteRule,
        DeleteLoadBalancer
  <2>3. QED
    BY <1>2, <2>1, <2>2 DEF KubeUnchanged, StoreStep, SvcIsSome
<1>5. CASE AddFinalizer \/ RecordLoadBalancer \/ SetLoadBalancerIngress \/ RestoreIngress
           \/ ClearRule \/ RemoveFinalizer
  <2>1. SvcIsSome
    BY <1>1, <1>5 DEF AddFinalizer, RecordLoadBalancer, SetLoadBalancerIngress, RestoreIngress,
                      ClearRule, RemoveFinalizer, SvcIsSome
  <2>2. pc = "record" => lb # 0
    BY DEF TypeInv, PassIsSound
  <2>3. UNCHANGED <<stored, watch>> \/ \E new \in Service : Write(new)
    BY <1>5, <2>2, WrittenByReconcile
    DEF AddFinalizer, RecordLoadBalancer, SetLoadBalancerIngress, RestoreIngress, ClearRule,
        RemoveFinalizer, Patch
  <2>4. QED
    BY <1>2, <2>1, <2>3 DEF StoreStep
<1>6. CASE RecordRule \/ RecordAdoptedRule \/ RecordOperation
  <2>1. \A new, retry : PatchAndFinish(new, retry) => svc' = NoService(0)
    BY <1>1 DEF PatchAndFinish
  <2>2. UNCHANGED <<stored, watch>> \/ \E new \in Service : Write(new)
    BY <1>6, WrittenByReconcile DEF RecordRule, RecordAdoptedRule, RecordOperation, PatchAndFinish
  <2>3. QED
    BY <1>2, <1>6, <2>1, <2>2 DEF RecordRule, RecordAdoptedRule, RecordOperation, StoreStep, SvcIsSome
<1>7. QED
  BY <1>3, <1>4, <1>5, <1>6 DEF Worker

LEMMA EveryStoreStep ==
    ASSUME TypeInv, [Next]_vars
    PROVE  StoreStep
<1>1. CASE Worker \/ CallFails
  BY <1>1, PassStoreStep
<1>2. CASE Crash
  BY <1>2 DEF Crash, DropLocals, StoreStep
<1>3. CASE User
  <2>1. UNCHANGED <<cached, svc>>
    BY <1>3 DEF User, UserCreates, UserDeletes, UserEdits, reconcileVars, locals
  <2>2. UNCHANGED <<stored, watch>> \/ \E new \in Service : Write(new)
    BY <1>3, WrittenByUser, WrittenByReconcile DEF User, UserCreates, UserDeletes, UserEdits
  <2>3. QED
    BY <2>1, <2>2 DEF StoreStep, SvcIsSome
<1>4. CASE DeliverEvent
  BY <1>4 DEF DeliverEvent, StoreStep, reconcileVars, locals
<1>5. CASE OperatorReleases
  BY <1>5, WrittenByReconcile
  DEF OperatorReleases, StoreStep, SvcIsSome, reconcileVars, locals
<1>6. CASE \/ Timer \/ NodeChanges \/ \E i \in 1..MaxLbs : LbProgress(i)
           \/ \E o \in 1..MaxOps : FwProgress(o)
           \/ CloudFault \/ OperatorRemoves \/ HoldExpires \/ UNCHANGED vars
  BY <1>6 DEF Timer, NodeChanges, TimerFires, NodeEvent, LbProgress, FwProgress, CloudFault,
              OperatorRemoves, HoldExpires, vars, kubeVars, reconcileVars, locals, StoreStep,
              SvcIsSome
<1>7. QED
  BY <1>1, <1>2, <1>3, <1>4, <1>5, <1>6 DEF Next

LEMMA VersionInit == Init => VersionInv
<1> SUFFICES ASSUME Init PROVE VersionInv
  OBVIOUS
<1>1. stored = NoService(0) /\ cached = NoService(0) /\ svc = NoService(0) /\ watch = <<>>
  BY DEF Init, KubeInit, LocalsInit
<1>2. NoService(0).rv = 0
  BY DEF NoService
<1>3. QED
  BY <1>1, <1>2 DEF VersionInv, CurrentWith, WatchIsOrdered, CacheCatchesUp

\* The copies stay versions of the stored Service.
LEMMA VersionStep ==
    ASSUME TypeInv, VersionInv, [Next]_vars
    PROVE  VersionInv'
<1>1. /\ stored \in Service /\ cached \in Service /\ svc \in Service /\ watch \in Seq(Service)
      /\ stored.rv \in Nat /\ cached.rv \in Nat /\ svc.rv \in Nat
  BY Objects
<1>2. \A i \in DOMAIN watch : watch[i] \in Service /\ watch[i].rv \in Nat
  <2>1. ASSUME NEW i \in DOMAIN watch
        PROVE  watch[i] \in Service
    BY <1>1
  <2>2. QED
    BY <2>1, ServiceFields
<1>3. NoService(0).rv = 0
  BY DEF NoService
<1>4. CASE UNCHANGED <<stored, watch, cached>> /\ SvcIsSome
  <2>1. CurrentWith(stored, stored)
    BY <1>1 DEF CurrentWith
  <2>2. QED
    BY <1>4, <2>1 DEF SvcIsSome, VersionInv, WatchIsOrdered, CacheCatchesUp
<1>5. ASSUME UNCHANGED cached, NEW new \in Service, Write(new), SvcIsSome
      PROVE  VersionInv'
  <2>1. CASE UNCHANGED <<stored, watch>>
    BY <1>4, <1>5, <2>1
  <2>2. CASE /\ stored'.rv = stored.rv + 1
             /\ watch' = Append(watch, stored')
    <3>1. stored' \in Service
      BY <1>5, <2>2, WrittenVersion, <1>1
    <3>2. ASSUME NEW v, v.rv \in Nat, CurrentWith(v, stored)
          PROVE  CurrentWith(v, stored')
      BY <1>1, <2>2, <3>2 DEF CurrentWith
    <3>3. CurrentWith(stored', stored')
      BY <1>1, <2>2 DEF CurrentWith
    <3>4. CurrentWith(svc', stored') /\ CurrentWith(NoService(0), stored')
      BY <1>1, <1>3, <1>5, <3>2, <3>3 DEF SvcIsSome, VersionInv
    <3>5. CurrentWith(cached', stored')
      BY <1>1, <1>5, <3>2 DEF VersionInv
    <3>6. /\ Len(watch') = Len(watch) + 1
          /\ \A i \in DOMAIN watch : watch'[i] = watch[i]
          /\ watch'[Len(watch) + 1] = stored'
          /\ DOMAIN watch = 1..Len(watch)
          /\ DOMAIN watch' = 1..(Len(watch) + 1)
          /\ Len(watch) \in Nat
      BY <1>1, <2>2, <3>1
    <3>7. ASSUME NEW i \in DOMAIN watch'
          PROVE  CurrentWith(watch'[i], stored') /\ cached'.rv < watch'[i].rv
      <4>1. CASE i \in DOMAIN watch
        BY <1>2, <1>5, <3>2, <3>6, <4>1 DEF VersionInv, WatchIsOrdered
      <4>2. CASE i = Len(watch) + 1
        BY <1>1, <1>5, <2>2, <3>3, <3>6, <4>2 DEF VersionInv, CurrentWith
      <4>3. QED
        BY <3>6, <4>1, <4>2
    <3>8. ASSUME NEW i \in DOMAIN watch', NEW j \in DOMAIN watch', i < j
          PROVE  watch'[i].rv < watch'[j].rv
      <4>1. i \in DOMAIN watch
        BY <3>6, <3>8
      <4>2. CASE j \in DOMAIN watch
        BY <3>6, <3>8, <4>1, <4>2 DEF VersionInv, WatchIsOrdered
      <4>3. CASE j = Len(watch) + 1
        <5>1. watch[i].rv <= stored.rv
          BY <4>1 DEF VersionInv, CurrentWith
        <5>2. QED
          BY <1>1, <1>2, <2>2, <3>6, <4>1, <4>3, <5>1
      <4>4. QED
        BY <3>6, <4>2, <4>3
    <3>9. CacheCatchesUp'
      BY <3>6 DEF CacheCatchesUp
    <3>10. QED
      BY <3>4, <3>5, <3>7, <3>8, <3>9 DEF VersionInv, WatchIsOrdered
  <2>3. QED
    BY <1>5, <2>1, <2>2, WrittenVersion
<1>6. CASE Deliver /\ UNCHANGED svc
  <2>1. watch # <<>> /\ cached' = Head(watch) /\ watch' = Tail(watch) /\ stored' = stored
    BY <1>6 DEF Deliver
  <2>2. /\ DOMAIN watch = 1..Len(watch) /\ Len(watch) \in Nat /\ 1 \in DOMAIN watch
        /\ DOMAIN watch' = 1..(Len(watch) - 1)
        /\ \A i \in DOMAIN watch' : i + 1 \in DOMAIN watch /\ watch'[i] = watch[i + 1]
        /\ cached' = watch[1]
    BY <1>1, <2>1
  <2>3. CurrentWith(cached', stored')
    BY <2>1, <2>2 DEF VersionInv
  <2>4. \A i \in DOMAIN watch' : CurrentWith(watch'[i], stored')
    BY <2>1, <2>2 DEF VersionInv
  <2>5. WatchIsOrdered'
    <3>1. \A i \in DOMAIN watch' : i \in Nat /\ 1 < i + 1
      BY <2>2
    <3>2. \A i \in DOMAIN watch' : cached'.rv < watch'[i].rv
      BY <2>2, <3>1 DEF VersionInv, WatchIsOrdered
    <3>3. \A i, j \in DOMAIN watch' : i < j => i + 1 < j + 1
      BY <3>1
    <3>4. \A i, j \in DOMAIN watch' : i < j => watch'[i].rv < watch'[j].rv
      BY <2>2, <3>3 DEF VersionInv, WatchIsOrdered
    <3>5. QED
      BY <3>2, <3>4 DEF WatchIsOrdered
  <2>6. CacheCatchesUp'
    <3>1. CASE Len(watch) = 1
      BY <1>1, <2>1, <2>2, <3>1 DEF VersionInv, CacheCatchesUp
    <3>2. CASE Len(watch) # 1
      <4>1. Len(watch') = Len(watch) - 1 /\ Len(watch') \in DOMAIN watch'
        BY <1>1, <2>1, <2>2, <3>2
      <4>2. watch'[Len(watch')] = watch[Len(watch)] /\ watch' # <<>>
        <5>1. watch'[Len(watch')] = watch[Len(watch') + 1]
          BY <2>2, <4>1
        <5>2. Len(watch') + 1 = Len(watch)
          BY <2>2, <4>1
        <5>3. watch' # <<>>
          BY <2>2, <4>1
        <5>4. QED
          BY <5>1, <5>2, <5>3
      <4>3. QED
        BY <2>1, <4>2 DEF VersionInv, CacheCatchesUp
    <3>3. QED
      BY <3>1, <3>2
  <2>7. QED
    BY <1>6, <2>1, <2>3, <2>4, <2>5, <2>6 DEF VersionInv
<1>7. CASE Resync /\ svc' = NoService(0)
  <2>1. stored' = stored /\ cached' = stored /\ watch' = <<>> /\ svc' = NoService(0)
    BY <1>7 DEF Resync
  <2>2. CurrentWith(stored, stored)
    BY <1>1 DEF CurrentWith
  <2>3. QED
    BY <2>1, <2>2 DEF VersionInv, WatchIsOrdered, CacheCatchesUp
<1>8. QED
  BY <1>4, <1>5, <1>6, <1>7, EveryStoreStep DEF StoreStep

-----------------------------------------------------------------------------
(* What holds of a pass at each of its points *)

\* Of two versions w is the later: the Service that is there has not been away
\* in between, and a deletion request is final.
Later(v, w) ==
    v.uid = stored.uid /\ stored.uid # 0 => w.uid = stored.uid /\ (v.deleting => w.deleting)

\* The versions on their way to the cache are one life of the Service after
\* another.
LivesInOrder ==
    /\ stored.uid <= uids
    /\ cached.uid <= uids /\ Later(cached, stored)
    /\ \A i \in DOMAIN watch :
          watch[i].uid <= uids /\ Later(cached, watch[i]) /\ Later(watch[i], stored)
    /\ \A i, j \in DOMAIN watch : i < j => Later(watch[i], watch[j])

LivePoints ==
    {"handleCreate", "lookup", "create", "wait", "record", "publish",
     "handleUpdate", "restoreIngress", "updateLoadBalancer",
     "ensureFirewallRule", "patchFirewallRule", "adoptFirewallRule",
     "recordRule", "recordAdopted", "createFirewallRule", "recordOperation"}

DeletePoints ==
    {"deleteFirewallRule", "findRule", "deleteRule", "clearRule",
     "deleteLoadBalancer", "removeFinalizer"}

Blank(s) ==
    /\ s.uid = 0 /\ s.kind = "Other" /\ ~s.deleting /\ ~s.finalizer
    /\ s.lbId = 0 /\ s.opId = 0 /\ s.ruleId = 0 /\ s.ip = 0

\* A Service that is not there has no field set, and a pass has a Service.
BlankInv ==
    /\ stored.uid = 0 => Blank(stored)
    /\ pc # "idle" => svc.uid # 0

\* handleCreate goes on only if nothing is recorded.
NotYetRecorded == pc \in {"lookup", "create", "wait", "record"} => stored.lbId = 0

(***************************************************************************)
(* handleDelete's copy misses a recorded load balancer only if its Update  *)
(* will conflict: with no firewall rule to clear, nothing refreshes that   *)
(* copy; with an up-to-date cache it has the id from the start.            *)
(***************************************************************************)
DeleteSeesId ==
    pc \in DeletePoints =>
        /\ ~Managed => /\ pc \notin {"findRule", "deleteRule", "clearRule"}
                       /\ lb = svc.lbId
        /\ MaxLag = 0 /\ stored.lbId # 0 => stored.lbId = lb

\* The load balancer in hand is gone when the finalizer goes.
DeletedFirst ==
    pc = "removeFinalizer" /\ lb # 0 => ~lbs[lb].up

\* The ids on a version of the Service are those of what was made for it.
OwnRecord(v) ==
    /\ v.lbId # 0 => /\ v.uid # 0
                     /\ lbs[v.lbId].op # "unused"
                     /\ lbs[v.lbId].owner = v.uid
                     /\ lbs[v.lbId].protocol = v.protocol
    /\ v.opId # 0 => fws[v.opId].op # "unused" /\ fws[v.opId].owner = v.uid
    /\ v.ruleId # 0 => fws[v.ruleId].op # "unused" /\ fws[v.ruleId].owner = v.uid

CopiesOwn ==
    /\ OwnRecord(stored) /\ OwnRecord(cached) /\ OwnRecord(svc)
    /\ \A i \in DOMAIN watch : OwnRecord(watch[i])

\* What a pass has in hand was made for its Service.
HandOwn ==
    /\ pc \in {"wait", "record", "publish"} =>
          lbs[lb].op # "unused" /\ lbs[lb].owner = svc.uid
    /\ pc \in {"recordRule", "recordAdopted", "recordOperation"} =>
          rule # 0 /\ fws[rule].op # "unused" /\ fws[rule].owner = svc.uid

\* Nobody owns what is not created yet, and a VIP comes after creation.
FreshIds ==
    /\ \A i \in 1..MaxLbs : lbs[i].op = "unused" => ~lbs[i].up /\ lbs[i].owner = 0
    /\ \A i \in 1..MaxLbs : lbs[i].op \in {"unused", "IN_PROGRESS"} => ~lbs[i].vip
    /\ \A o \in 1..MaxOps : fws[o].op = "unused" => ~fws[o].rule /\ ~fws[o].blind

Live(v) == v.finalizer /\ ~v.deleting

\* A copy that shows a Service in the controller's care is one of the Service
\* that is there.
LiveCopies ==
    /\ Live(cached) => stored.uid = cached.uid /\ stored.finalizer
    /\ \A i \in DOMAIN watch :
          Live(watch[i]) => stored.uid = watch[i].uid /\ stored.finalizer

NoLiveCopy == ~Live(cached) /\ \A i \in DOMAIN watch : ~Live(watch[i])

\* A pass that creates or updates works on the Service that is there.  One that
\* deletes may work on an earlier one, but then the next one is not yet in the
\* controller's care.
PassIsOnItsService ==
    /\ pc = "addFinalizer" => svc.rv <= cached.rv
    /\ pc \in LivePoints => stored.uid = svc.uid /\ stored.finalizer
    /\ pc \in DeletePoints => NoLiveCopy /\ (stored.finalizer => stored.deleting)

\* The finalizer is put only on a Service the cache has shown.
SeenByCache == stored.finalizer => cached.uid = stored.uid

RecordedIsHeld == stored.lbId # 0 => stored.finalizer

\* As long as nobody takes the finalizer off by hand.
CareInv == LiveCopies /\ SeenByCache /\ PassIsOnItsService /\ RecordedIsHeld

OwnInv ==
    /\ CopiesOwn /\ HandOwn /\ FreshIds /\ LivesInOrder
    /\ ~OperatorActs => CareInv

\* Nobody takes the finalizer off by hand, or no Service takes the name after
\* the one that lost it.
NoSuccessor == ~OperatorActs \/ MaxUid <= 1

(***************************************************************************)
(* Nobody interferes by hand; or, where somebody does, handleCreate's      *)
(* fresh read is allowed and no other Service takes the name.              *)
(***************************************************************************)
NoHandOrRead == ~OperatorActs \/ (~ReaderForbidden /\ MaxUid <= 1)

\* A recorded id is on no copy another one.
IdIsFinal ==
    /\ cached.uid = stored.uid /\ cached.lbId # 0 => cached.lbId = stored.lbId
    /\ svc.uid = stored.uid /\ svc.lbId # 0 => svc.lbId = stored.lbId
    /\ \A i \in DOMAIN watch :
          watch[i].uid = stored.uid /\ watch[i].lbId # 0 => watch[i].lbId = stored.lbId

NoLaterUid ==
    /\ svc.uid <= uids
    /\ \A i \in 1..MaxLbs : lbs[i].owner <= uids

\* What is published is recorded, at each step of a pass that publishes.
PublishesRecorded ==
    /\ ExternalIPIsRecorded
    /\ pc = "record" /\ vip => lbs[lb].vip
    /\ pc = "publish" => lbs[lb].vip /\ (stored.uid = svc.uid => stored.lbId = lb)
    /\ pc \in {"handleUpdate", "restoreIngress"} => svc.lbId # 0
    /\ pc = "restoreIngress" => lbs[svc.lbId].vip

\* The load balancer in hand is the only one its Service has.
HandIsOnly ==
    pc \in {"wait", "record", "publish"} =>
        \A i \in LoadBalancersNamed(svc.uid) : i = lb

\* Once something was created for it, a Service has the finalizer.
OwnersAreHeld ==
    \A i \in 1..MaxLbs :
        stored.uid # 0 /\ lbs[i].owner = stored.uid => stored.finalizer

\* A load balancer that had a VIP and is gone was deleted by handleDelete.
VipIsUp ==
    \A i \in 1..MaxLbs :
        lbs[i].vip /\ ~lbs[i].up /\ stored.uid # 0 /\ lbs[i].owner = stored.uid
            => stored.deleting /\ NoLiveCopy /\ pc \notin LivePoints

\* An id that a copy has is replaced only if its load balancer is gone.
Agrees(v) ==
    v.uid = stored.uid /\ v.lbId # 0 =>
        /\ stored.lbId # 0
        /\ lbs[v.lbId].up => v.lbId = stored.lbId

CopiesAgree ==
    Agrees(cached) /\ Agrees(svc) /\ \A i \in DOMAIN watch : Agrees(watch[i])

AddsToNoDeletion == pc = "addFinalizer" => ~svc.deleting

\* What keeps the ids apart from each other without the fresh read.
OnlyOneIsUp ==
    HandIsOnly /\ OwnersAreHeld /\ VipIsUp /\ CopiesAgree /\ AddsToNoDeletion

AddressInv ==
    /\ CreationInv /\ NoLaterUid /\ PublishesRecorded
    /\ IF OperatorActs THEN NotYetRecorded /\ IdIsFinal ELSE OnlyOneIsUp

\* The id to record or publish is the one recorded, where that matters.
HandAgrees ==
    /\ pc = "record" /\ stored.ip # 0 => stored.lbId = lb
    /\ pc = "restoreIngress" /\ stored.uid = svc.uid => svc.lbId = stored.lbId

-----------------------------------------------------------------------------
(* How a pass moves *)

\* A pass begins, ends, or stays on one of its two branches.
Begins ==
    /\ Reconcile
    /\ ~Ignores(cached)
    /\ pc' = FirstStep(cached)
    /\ svc' = cached
    /\ lb' = cached.lbId

Advances ==
    /\ \/ pc \in LivePoints /\ pc' \in LivePoints
       \/ pc \in DeletePoints /\ pc' \in DeletePoints
       \/ /\ pc = "addFinalizer"
          /\ AddFinalizer
          /\ ~UpdateConflicts(svc)
          /\ pc' = Operation(svc)
    /\ \/ svc' = svc
       \/ svc' = stored' /\ (Exists(stored) \/ ~UpdateConflicts(svc))

LEMMA ReconcileMoves ==
    ASSUME Reconcile
    PROVE  Begins \/ UNCHANGED reconcileVars
BY DEF Reconcile, Begins, reconcileVars

LEMMA PassMoves ==
    ASSUME [Next]_vars
    PROVE  pc' = "idle" \/ Begins \/ Advances \/ UNCHANGED reconcileVars
<1>1. /\ \A retry : Finish(retry) => pc' = "idle"
      /\ \A point : Goto(point) => pc' = point
      /\ \A new : Patch(new) => svc' = stored' /\ Exists(stored)
      /\ UNCHANGED locals => svc' = svc
  BY DEF Finish, DropLocals, Goto, Patch, locals
<1>2. CASE Reconcile
  BY <1>2, ReconcileMoves
<1>3. CASE AddFinalizer
  BY <1>1, <1>3 DEF AddFinalizer, Advances
<1>4. CASE HandleCreate \/ LookUp \/ CreateLoadBalancer \/ CreateRefused \/ WaitForOperation
           \/ RecordLoadBalancer \/ SetLoadBalancerIngress
  BY <1>1, <1>4 DEF HandleCreate, LookUp, CreateLoadBalancer, CreateRefused, WaitForOperation,
                    RecordLoadBalancer, SetLoadBalancerIngress, Advances, LivePoints
<1>5. CASE EnsureLoadBalancerIngress \/ RestoreIngress \/ UpdateLoadBalancer
  BY <1>1, <1>5 DEF EnsureLoadBalancerIngress, RestoreIngress, UpdateLoadBalancer,
                    Advances, LivePoints
<1>6. CASE EnsureFirewallRule
  BY <1>1, <1>6 DEF EnsureFirewallRule, NoFirewallRuleWanted, CheckFirewallRule,
                    ResolveOperation, Advances, LivePoints
<1>7. CASE PatchFirewallRule \/ AdoptFirewallRule \/ RecordRule \/ RecordAdoptedRule
           \/ CreateFirewallRule \/ RecordOperation
  BY <1>1, <1>7 DEF PatchFirewallRule, AdoptFirewallRule, RecordRule, RecordAdoptedRule,
                    PatchAndFinish, CreateFirewallRule, RecordOperation, Advances, LivePoints
<1>8. CASE DeleteFirewallRule \/ FindRule \/ DeleteRule \/ ClearRule
           \/ DeleteLoadBalancer \/ RemoveFinalizer
  BY <1>1, <1>8 DEF DeleteFirewallRule, FindRule, DeleteRule, ClearRule, DeleteLoadBalancer,
                    RemoveFinalizer, Advances, DeletePoints
<1>9. CASE CallFails
  BY <1>1, <1>9 DEF CallFails, Advances, LivePoints
<1>10. CASE Crash
  BY <1>10 DEF Crash, DropLocals
<1>11. CASE \/ User \/ DeliverEvent \/ Timer \/ NodeChanges
            \/ \E i \in 1..MaxLbs : LbProgress(i)
            \/ \E o \in 1..MaxOps : FwProgress(o)
            \/ CloudFault \/ OperatorRemoves \/ OperatorReleases \/ HoldExpires
            \/ UNCHANGED vars
  BY <1>11 DEF User, DeliverEvent, Timer, NodeChanges, LbProgress, FwProgress, CloudFault,
               OperatorRemoves, OperatorReleases, HoldExpires, vars, reconcileVars, locals
<1>12. QED
  BY <1>2, <1>3, <1>4, <1>5, <1>6, <1>7, <1>8, <1>9, <1>10, <1>11 DEF Next, Worker

-----------------------------------------------------------------------------
(* How the stored Service changes *)

KeepsId == stored'.lbId = stored.lbId /\ stored'.protocol = stored.protocol

KeepsRule == stored'.opId = stored.opId /\ stored'.ruleId = stored.ruleId

KeepsCare ==
    /\ stored.uid # 0
    /\ stored'.uid = stored.uid
    /\ stored.deleting => stored'.deleting
    /\ stored'.deleting => stored.deleting \/ stored.finalizer
    /\ stored.finalizer => stored'.finalizer
    /\ stored'.finalizer => stored.finalizer \/ (AddFinalizer /\ ~UpdateConflicts(svc))

\* A user creates it.
Appears ==
    /\ stored.uid = 0
    /\ stored'.uid = uids + 1
    /\ uids' = uids + 1
    /\ UNCHANGED reconcileVars
    /\ ~stored'.deleting /\ ~stored'.finalizer
    /\ stored'.lbId = 0 /\ stored'.opId = 0 /\ stored'.ruleId = 0 /\ stored'.ip = 0

\* A user deletes it before it has the finalizer, the pass or an operator lets
\* it go.
Goes ==
    /\ stored.uid # 0
    /\ Blank(stored')
    /\ \/ ~stored.finalizer /\ ~stored.deleting /\ UNCHANGED reconcileVars
       \/ RemoveFinalizer /\ svc = stored /\ stored.deleting
       \/ OperatorReleases

\* The pass takes the finalizer off a Service that is not being deleted.
LosesFinalizer ==
    /\ RemoveFinalizer /\ svc = stored /\ ~stored.deleting
    /\ stored.uid # 0 /\ stored'.uid = stored.uid /\ ~stored'.deleting /\ ~stored'.finalizer
    /\ KeepsId /\ KeepsRule /\ stored'.ip = stored.ip

IsRecorded ==
    /\ RecordLoadBalancer
    /\ KeepsCare /\ KeepsRule
    /\ stored'.lbId = lb /\ stored'.protocol = lbs[lb].protocol
    /\ stored'.ip = stored.ip

IsPublished ==
    /\ KeepsCare /\ KeepsId /\ KeepsRule
    /\ \/ SetLoadBalancerIngress /\ stored'.ip = lb
       \/ RestoreIngress /\ stored'.ip = svc.lbId

GetsRule ==
    /\ KeepsCare /\ KeepsId
    /\ stored'.ip = stored.ip
    /\ stored'.opId \in {0, stored.opId, rule}
    /\ stored'.ruleId \in {0, stored.ruleId, rule}
    /\ KeepsRule \/ RecordRule \/ RecordAdoptedRule \/ RecordOperation \/ ClearRule
    /\ ClearRule => stored'.opId \in {0, stored.opId} /\ stored'.ruleId \in {0, stored.ruleId}

\* Edits, the request to delete it, and the finalizer.
KeepsRecords ==
    KeepsCare /\ KeepsId /\ KeepsRule /\ stored'.ip = stored.ip

Changes ==
    \/ UNCHANGED stored
    \/ Appears \/ Goes \/ LosesFinalizer
    \/ IsRecorded \/ IsPublished \/ GetsRule \/ KeepsRecords

\* A step that writes `new' either changes nothing or leaves its fields.
LEMMA WrittenFields ==
    ASSUME TypeInv, NEW new \in Service, Write(new)
    PROVE  \/ UNCHANGED stored
           \/ /\ stored'.uid = new.uid
              /\ stored'.deleting = new.deleting
              /\ stored'.finalizer = new.finalizer
              /\ stored'.lbId = new.lbId
              /\ stored'.protocol = new.protocol
              /\ stored'.opId = new.opId
              /\ stored'.ruleId = new.ruleId
              /\ stored'.ip = new.ip
BY NextVersionFields, Zenon DEF Write

LEMMA ReleasedIsBlank ==
    ASSUME TypeInv, Write(Released)
    PROVE  Blank(stored')
<1>1. Released \in Service
  BY Objects, NoServiceType DEF Released
<1>2. Blank(Released)
  BY DEF Released, NoService, Blank
<1>3. stored' = Released \/ stored' = NextVersion(Released)
  BY DEF Write
<1>4. QED
  BY <1>1, <1>2, <1>3, NextVersionFields DEF Blank

LEMMA UserChanges ==
    ASSUME TypeInv, BlankInv, User \/ OperatorReleases
    PROVE  Changes
<1>1. stored \in Service /\ (User => UNCHANGED reconcileVars)
  BY Objects DEF User
<1>2. CASE User /\ UserCreates
  <2>1. PICK kind \in Kinds, ports \in Specs :
           Write([NoService(stored.rv) EXCEPT !.uid = uids + 1, !.kind = kind, !.ports = ports])
    BY <1>2 DEF UserCreates
  <2> DEFINE new == [NoService(stored.rv) EXCEPT !.uid = uids + 1, !.kind = kind, !.ports = ports]
  <2>2. new \in Service
    BY <1>2, WrittenByUser DEF UserCreates
  <2>3. /\ new.uid = uids + 1 /\ ~new.deleting /\ ~new.finalizer
        /\ new.lbId = 0 /\ new.opId = 0 /\ new.ruleId = 0 /\ new.ip = 0
    BY DEF NoService
  <2>4. Write(new)
    BY <2>1
  <2> HIDE DEF new
  <2>5. QED
    BY <1>1, <1>2, <2>2, <2>3, <2>4, WrittenFields DEF UserCreates, Exists, Appears, Changes
<1>3. CASE User /\ UserDeletes
  <2>1. CASE stored.finalizer
    <3> DEFINE new == [stored EXCEPT !.deleting = TRUE]
    <3>1. new \in Service /\ Write(new)
      BY <1>3, <2>1, WrittenByUser DEF UserDeletes
    <3>2. /\ new.uid = stored.uid /\ new.deleting /\ new.finalizer = stored.finalizer
          /\ new.lbId = stored.lbId /\ new.protocol = stored.protocol
          /\ new.opId = stored.opId /\ new.ruleId = stored.ruleId /\ new.ip = stored.ip
      BY <1>1 DEF Service
    <3> HIDE DEF new
    <3>3. stored.uid # 0
      BY <1>3 DEF UserDeletes, Exists
    <3>4. UNCHANGED stored \/ (KeepsCare /\ KeepsId /\ KeepsRule /\ stored'.ip = stored.ip)
      BY <2>1, <3>1, <3>2, <3>3, WrittenFields DEF KeepsCare, KeepsId, KeepsRule
    <3>5. QED
      BY <3>4 DEF KeepsRecords, Changes
  <2>2. CASE ~stored.finalizer
    BY <1>1, <1>3, <2>2, ReleasedIsBlank DEF UserDeletes, Exists, Goes, Changes
  <2>3. QED
    BY <2>1, <2>2
<1>4. CASE User /\ UserEdits
  <2>1. PICK kind \in Kinds, ports \in Specs :
           Write([stored EXCEPT !.kind = kind, !.ports = ports])
    BY <1>4 DEF UserEdits
  <2> DEFINE new == [stored EXCEPT !.kind = kind, !.ports = ports]
  <2>2. new \in Service /\ Write(new)
    BY <2>1, WrittenByUser
  <2>3. /\ new.uid = stored.uid /\ new.deleting = stored.deleting
        /\ new.finalizer = stored.finalizer
        /\ new.lbId = stored.lbId /\ new.protocol = stored.protocol
        /\ new.opId = stored.opId /\ new.ruleId = stored.ruleId /\ new.ip = stored.ip
    BY <1>1 DEF Service
  <2> HIDE DEF new
  <2>4. QED
    BY <1>4, <2>2, <2>3, WrittenFields DEF UserEdits, Exists, KeepsRecords, KeepsCare, KeepsId, KeepsRule, Changes
<1>5. CASE OperatorReleases
  <2>1. stored.uid # 0
    BY <1>5 DEF OperatorReleases, BlankInv, Blank
  <2>2. QED
    BY <1>5, <2>1, ReleasedIsBlank DEF OperatorReleases, Goes, Changes
<1>6. QED
  BY <1>2, <1>3, <1>4, <1>5 DEF User

\* A write that leaves the identity, the deletion, the finalizer and the
\* records alone.
LEMMA KeepingWrite ==
    ASSUME TypeInv, NEW new \in Service, Write(new),
           stored.uid # 0, new.uid = stored.uid, new.deleting = stored.deleting,
           stored.finalizer => new.finalizer,
           new.finalizer => stored.finalizer \/ (AddFinalizer /\ ~UpdateConflicts(svc))
    PROVE  \/ UNCHANGED stored
           \/ /\ KeepsCare
              /\ stored'.lbId = new.lbId /\ stored'.protocol = new.protocol
              /\ stored'.opId = new.opId /\ stored'.ruleId = new.ruleId
              /\ stored'.ip = new.ip
BY WrittenFields DEF KeepsCare

LEMMA PassChanges ==
    ASSUME TypeInv, VersionInv, BlankInv, Worker \/ CallFails
    PROVE  Changes
<1>1. /\ stored \in Service /\ svc \in Service /\ lb \in 0..MaxLbs /\ rule \in 0..MaxOps
      /\ svc.lbId \in 0..MaxLbs
  BY Objects, ServiceFields
<1>2. ~UpdateConflicts(svc) => svc = stored
  BY DEF UpdateConflicts, VersionInv, CurrentWith
<1>3. CASE AddFinalizer
  <2> DEFINE new == [svc EXCEPT !.finalizer = TRUE]
  <2>1. CASE ~UpdateConflicts(svc)
    <3>1. new \in Service /\ Write(new)
      BY <1>3, <2>1, WrittenByReconcile DEF AddFinalizer
    <3>2. /\ new.uid = svc.uid /\ new.deleting = svc.deleting /\ new.finalizer
          /\ new.lbId = svc.lbId /\ new.protocol = svc.protocol
          /\ new.opId = svc.opId /\ new.ruleId = svc.ruleId /\ new.ip = svc.ip
      BY <1>1 DEF Service
    <3> HIDE DEF new
    <3>3. stored.uid # 0
      BY <1>2, <1>3, <2>1 DEF AddFinalizer, BlankInv
    <3>4. QED
      BY <1>2, <1>3, <2>1, <3>1, <3>2, <3>3, KeepingWrite DEF KeepsRecords, KeepsId, KeepsRule, Changes
  <2>2. CASE UpdateConflicts(svc)
    BY <1>3, <2>2 DEF AddFinalizer, Changes
  <2>3. QED
    BY <2>1, <2>2
<1>4. CASE RecordLoadBalancer
  <2> DEFINE new == WithLoadBalancer(stored, lb)
  <2>1. lb # 0
    BY <1>4 DEF RecordLoadBalancer, TypeInv, PassIsSound
  <2>2. new \in Service
    BY <2>1, WrittenByReconcile
  <2>3. /\ new.uid = stored.uid /\ new.deleting = stored.deleting
        /\ new.finalizer = stored.finalizer
        /\ new.lbId = lb /\ new.protocol = lbs[lb].protocol
        /\ new.opId = stored.opId /\ new.ruleId = stored.ruleId /\ new.ip = stored.ip
    BY <1>1 DEF WithLoadBalancer, Service
  <2>4. (Exists(stored) /\ Write(new)) \/ UNCHANGED stored
    BY <1>4 DEF RecordLoadBalancer, Patch
  <2> HIDE DEF new
  <2>5. QED
    BY <1>4, <2>2, <2>3, <2>4, KeepingWrite DEF Exists, IsRecorded, KeepsRule, Changes
<1>5. ASSUME NEW i \in 0..MaxLbs, Exists(stored), Write([stored EXCEPT !.ip = i]),
             \/ SetLoadBalancerIngress /\ i = lb
             \/ RestoreIngress /\ i = svc.lbId
      PROVE  Changes
  <2> DEFINE new == [stored EXCEPT !.ip = i]
  <2>1. new \in Service
    BY <1>1, <1>5 DEF Service
  <2>2. /\ new.uid = stored.uid /\ new.deleting = stored.deleting
        /\ new.finalizer = stored.finalizer
        /\ new.lbId = stored.lbId /\ new.protocol = stored.protocol
        /\ new.opId = stored.opId /\ new.ruleId = stored.ruleId /\ new.ip = i
    BY <1>1 DEF Service
  <2>3. Write(new)
    BY <1>5
  <2> HIDE DEF new
  <2>4. QED
    BY <1>5, <2>1, <2>2, <2>3, KeepingWrite DEF Exists, IsPublished, KeepsId, KeepsRule, Changes
<1>6. CASE SetLoadBalancerIngress
  BY <1>1, <1>5, <1>6 DEF SetLoadBalancerIngress, Patch, Changes
<1>7. CASE RestoreIngress
  BY <1>1, <1>5, <1>7 DEF RestoreIngress, Patch, Changes
<1>8. ASSUME NEW new \in Service, (Exists(stored) /\ Write(new)) \/ UNCHANGED stored,
             new.uid = stored.uid, new.deleting = stored.deleting,
             new.finalizer = stored.finalizer,
             new.lbId = stored.lbId, new.protocol = stored.protocol, new.ip = stored.ip,
             \/ /\ RecordRule \/ RecordAdoptedRule \/ RecordOperation
                /\ ~ClearRule
                /\ new.opId \in {0, stored.opId, rule}
                /\ new.ruleId \in {0, stored.ruleId, rule}
             \/ /\ ClearRule
                /\ new.opId \in {0, stored.opId}
                /\ new.ruleId \in {0, stored.ruleId}
      PROVE  Changes
  BY <1>8, KeepingWrite DEF Exists, GetsRule, KeepsId, Changes
<1>9. ClearRule => ~RecordRule /\ ~RecordAdoptedRule /\ ~RecordOperation
  BY DEF ClearRule, RecordRule, RecordAdoptedRule, RecordOperation
<1>10. CASE RecordRule
  <2> DEFINE new == [stored EXCEPT !.ruleId = rule]
  <2>1. new \in Service
    BY WrittenByReconcile
  <2>2. /\ new.uid = stored.uid /\ new.deleting = stored.deleting
        /\ new.finalizer = stored.finalizer
        /\ new.lbId = stored.lbId /\ new.protocol = stored.protocol
        /\ new.opId = stored.opId /\ new.ruleId = rule /\ new.ip = stored.ip
    BY <1>1 DEF Service
  <2>3. (Exists(stored) /\ Write(new)) \/ UNCHANGED stored
    BY <1>10 DEF RecordRule, PatchAndFinish
  <2> HIDE DEF new
  <2>4. QED
    BY <1>8, <1>9, <1>10, <2>1, <2>2, <2>3
<1>11. CASE RecordAdoptedRule
  <2> DEFINE new == [stored EXCEPT !.ruleId = rule, !.opId = 0]
  <2>1. new \in Service
    BY WrittenByReconcile
  <2>2. /\ new.uid = stored.uid /\ new.deleting = stored.deleting
        /\ new.finalizer = stored.finalizer
        /\ new.lbId = stored.lbId /\ new.protocol = stored.protocol
        /\ new.opId = 0 /\ new.ruleId = rule /\ new.ip = stored.ip
    BY <1>1 DEF Service
  <2>3. (Exists(stored) /\ Write(new)) \/ UNCHANGED stored
    BY <1>11 DEF RecordAdoptedRule, PatchAndFinish
  <2> HIDE DEF new
  <2>4. QED
    BY <1>8, <1>9, <1>11, <2>1, <2>2, <2>3
<1>12. CASE RecordOperation
  <2> DEFINE new == WithOperation(stored, rule)
  <2>1. new \in Service
    BY WrittenByReconcile
  <2>2. /\ new.uid = stored.uid /\ new.deleting = stored.deleting
        /\ new.finalizer = stored.finalizer
        /\ new.lbId = stored.lbId /\ new.protocol = stored.protocol /\ new.ip = stored.ip
    BY <1>1 DEF WithOperation, Service
  <2>3. new.opId = rule /\ new.ruleId \in {0, stored.ruleId}
    BY <1>1 DEF WithOperation, Service
  <2>4. (Exists(stored) /\ Write(new)) \/ UNCHANGED stored
    BY <1>12 DEF RecordOperation, PatchAndFinish
  <2> HIDE DEF new
  <2>5. QED
    BY <1>8, <1>9, <1>12, <2>1, <2>2, <2>3, <2>4
<1>13. CASE ClearRule
  <2> DEFINE new == WithoutRule(stored)
  <2>1. new \in Service
    BY WrittenByReconcile
  <2>2. /\ new.uid = stored.uid /\ new.deleting = stored.deleting
        /\ new.finalizer = stored.finalizer
        /\ new.lbId = stored.lbId /\ new.protocol = stored.protocol /\ new.ip = stored.ip
    BY <1>1 DEF WithoutRule, Service
  <2>3. new.opId \in {0, stored.opId} /\ new.ruleId \in {0, stored.ruleId}
    BY <1>1 DEF WithoutRule, Service
  <2>4. (Exists(stored) /\ Write(new)) \/ UNCHANGED stored
    BY <1>13 DEF ClearRule, Patch
  <2> HIDE DEF new
  <2>5. QED
    BY <1>8, <1>13, <2>1, <2>2, <2>3, <2>4
<1>14. CASE RemoveFinalizer
  <2>1. CASE UpdateConflicts(svc)
    BY <1>14, <2>1 DEF RemoveFinalizer, Changes
  <2>2. CASE ~UpdateConflicts(svc) /\ svc.deleting
    <3>1. svc = stored /\ stored.uid # 0
      BY <1>2, <1>14, <2>2 DEF RemoveFinalizer, BlankInv
    <3>2. Write(Released)
      BY <1>14, <2>2 DEF RemoveFinalizer, WithoutFinalizer
    <3>3. QED
      BY <1>14, <2>2, <3>1, <3>2, ReleasedIsBlank DEF Goes, Changes
  <2>3. CASE ~UpdateConflicts(svc) /\ ~svc.deleting
    <3> DEFINE new == [svc EXCEPT !.finalizer = FALSE]
    <3>1. new \in Service /\ Write(new)
      BY <1>14, <2>3, WrittenByReconcile DEF RemoveFinalizer, WithoutFinalizer
    <3>2. /\ new.uid = svc.uid /\ new.deleting = svc.deleting /\ ~new.finalizer
          /\ new.lbId = svc.lbId /\ new.protocol = svc.protocol
          /\ new.opId = svc.opId /\ new.ruleId = svc.ruleId /\ new.ip = svc.ip
      BY <1>1 DEF Service
    <3> HIDE DEF new
    <3>3. stored.uid # 0
      BY <1>2, <1>14, <2>3 DEF RemoveFinalizer, BlankInv
    <3>4. QED
      BY <1>2, <1>14, <2>3, <3>1, <3>2, <3>3, WrittenFields
      DEF LosesFinalizer, KeepsId, KeepsRule, Changes
  <2>4. QED
    BY <2>1, <2>2, <2>3
<1>15. CASE \/ Reconcile \/ HandleCreate \/ LookUp \/ CreateLoadBalancer \/ CreateRefused
            \/ WaitForOperation \/ EnsureLoadBalancerIngress \/ UpdateLoadBalancer
            \/ EnsureFirewallRule \/ PatchFirewallRule \/ AdoptFirewallRule
            \/ CreateFirewallRule \/ DeleteFirewallRule \/ FindRule \/ DeleteRule
            \/ DeleteLoadBalancer \/ CallFails
  BY <1>15 DEF Reconcile, HandleCreate, LookUp, CreateLoadBalancer, CreateRefused,
               WaitForOperation, EnsureLoadBalancerIngress, UpdateLoadBalancer,
               EnsureFirewallRule, PatchFirewallRule, AdoptFirewallRule, CreateFirewallRule,
               DeleteFirewallRule, FindRule, DeleteRule, DeleteLoadBalancer, CallFails,
               KubeUnchanged, Changes
<1>16. QED
  BY <1>3, <1>4, <1>6, <1>7, <1>10, <1>11, <1>12, <1>13, <1>14, <1>15 DEF Worker

LEMMA EveryChange ==
    ASSUME TypeInv, VersionInv, BlankInv, [Next]_vars
    PROVE  Changes
<1>1. CASE \/ Crash \/ DeliverEvent \/ Timer \/ NodeChanges
           \/ \E i \in 1..MaxLbs : LbProgress(i)
           \/ \E o \in 1..MaxOps : FwProgress(o)
           \/ CloudFault \/ OperatorRemoves \/ HoldExpires \/ UNCHANGED vars
  BY <1>1 DEF Crash, Resync, DeliverEvent, Deliver, Timer, NodeChanges, TimerFires, NodeEvent,
              LbProgress, FwProgress, CloudFault, OperatorRemoves, HoldExpires, vars, kubeVars,
              Changes
<1>2. QED
  BY <1>1, PassChanges, UserChanges DEF Next

-----------------------------------------------------------------------------
(* What needs no assumption on the constants *)

\* While a pass advances, the Service stays the one it is.
LEMMA AdvanceKeepsUid ==
    ASSUME TypeInv, VersionInv, BlankInv, [Next]_vars, Advances
    PROVE  UNCHANGED reconcileVars \/ stored'.uid = stored.uid
<1>1. pc' # "idle" /\ pc # "idle"
  BY DEF Advances, AddFinalizer, Operation, LivePoints, DeletePoints
<1>2. RemoveFinalizer => pc' = "idle" \/ UNCHANGED stored
  BY DEF RemoveFinalizer, Finish, DropLocals
<1>3. OperatorReleases => UNCHANGED reconcileVars
  BY DEF OperatorReleases
<1>4. QED
  BY <1>1, <1>2, <1>3, EveryChange
  DEF Changes, Appears, Goes, LosesFinalizer, IsRecorded, IsPublished, GetsRule, KeepsRecords,
      KeepsCare

LEMMA BlankStep ==
    ASSUME TypeInv, VersionInv, BlankInv, [Next]_vars
    PROVE  BlankInv'
<1>1. stored'.uid = 0 => Blank(stored')
  <2>1. uids \in Nat
    BY Objects, BoundsType
  <2>2. uids + 1 # 0
    BY <2>1
  <2>3. CASE UNCHANGED stored
    BY <2>3 DEF BlankInv
  <2>4. CASE Appears
    BY <2>2, <2>4 DEF Appears
  <2>5. CASE Goes
    BY <2>5 DEF Goes
  <2>6. CASE LosesFinalizer \/ IsRecorded \/ IsPublished \/ GetsRule \/ KeepsRecords
    BY <2>6 DEF LosesFinalizer, IsRecorded, IsPublished, GetsRule, KeepsRecords, KeepsCare
  <2>7. QED
    BY <2>3, <2>4, <2>5, <2>6, EveryChange DEF Changes
<1>2. pc' # "idle" => svc'.uid # 0
  <2>1. CASE Begins
    BY <2>1 DEF Begins, Ignores, Exists
  <2>2. CASE UNCHANGED reconcileVars
    BY <2>2 DEF reconcileVars, locals, BlankInv
  <2>3. CASE Advances
    <3>1. pc # "idle"
      BY <2>3 DEF Advances, AddFinalizer, LivePoints, DeletePoints
    <3>2. CASE svc' = svc
      BY <3>1, <3>2 DEF BlankInv
    <3>3. CASE svc' = stored' /\ (Exists(stored) \/ ~UpdateConflicts(svc))
      <4>1. stored.uid # 0
        BY <3>1, <3>3 DEF Exists, UpdateConflicts, VersionInv, CurrentWith, BlankInv
      <4>2. QED
        BY <2>2, <2>3, <3>3, <4>1, AdvanceKeepsUid
    <3>4. QED
      BY <2>3, <3>2, <3>3 DEF Advances
  <2>4. QED
    BY <2>1, <2>2, <2>3, PassMoves
<1>3. QED
  BY <1>1, <1>2 DEF BlankInv

\* The Service and its copies are versions of one history, in every state.
History == TypeInv /\ VersionInv /\ BlankInv

LEMMA HistoryInit == Init => History
<1> SUFFICES ASSUME Init PROVE History
  OBVIOUS
<1>1. stored = NoService(0) /\ pc = "idle"
  BY DEF Init, KubeInit
<1>2. Blank(NoService(0))
  BY DEF NoService, Blank
<1>3. QED
  BY <1>1, <1>2, TypeInit, VersionInit DEF History, BlankInv

LEMMA HistoryStep == History /\ [Next]_vars => History'
BY TypeStep, VersionStep, BlankStep DEF History

-----------------------------------------------------------------------------
(* One life of the Service after another *)

LEMMA LivesInit == Init => LivesInOrder
<1> SUFFICES ASSUME Init PROVE LivesInOrder
  OBVIOUS
<1>1. stored = NoService(0) /\ cached = NoService(0) /\ watch = <<>> /\ uids = 0
  BY DEF Init, KubeInit
<1>2. NoService(0).uid = 0
  BY DEF NoService
<1>3. QED
  BY <1>1, <1>2 DEF LivesInOrder, Later

\* The Service that is there stays, or another one or none takes its place.
LEMMA LifeGoesOn ==
    ASSUME History, LivesInOrder, [Next]_vars
    PROVE  /\ \/ stored'.uid = 0
              \/ stored'.uid = uids + 1
              \/ /\ stored'.uid = stored.uid
                 /\ stored.deleting => stored'.deleting
           /\ stored'.uid = uids + 1 => uids' = uids + 1
           /\ uids' \in {uids, uids + 1}
<1>1. uids' \in {uids, uids + 1}
  <2>1. CASE UNCHANGED uids
    BY <2>1
  <2>2. CASE User
    BY <2>2 DEF User, UserCreates, UserDeletes, UserEdits
  <2>3. CASE Worker \/ CallFails
    BY <2>3
    DEF Worker, Reconcile, AddFinalizer, HandleCreate, LookUp, CreateLoadBalancer, CreateRefused,
        WaitForOperation, RecordLoadBalancer, SetLoadBalancerIngress, EnsureLoadBalancerIngress,
        RestoreIngress, UpdateLoadBalancer, EnsureFirewallRule, PatchFirewallRule,
        AdoptFirewallRule, RecordRule, RecordAdoptedRule, PatchAndFinish, CreateFirewallRule,
        RecordOperation, DeleteFirewallRule, FindRule, DeleteRule, ClearRule,
        DeleteLoadBalancer, RemoveFinalizer, CallFails, KubeUnchanged, OutsideUnchanged
  <2>4. QED
    BY <2>1, <2>2, <2>3
    DEF Next, Crash, Resync, DeliverEvent, Deliver, Timer, TimerFires, NodeChanges, NodeEvent,
        LbProgress, FwProgress, CloudFault, OperatorRemoves, OperatorReleases, HoldExpires,
        vars, kubeVars
<1>2. stored.uid \in Nat /\ uids \in Nat /\ stored.uid <= uids
  <2>1. stored \in Service /\ uids \in 0..MaxUid
    BY Objects DEF History
  <2>2. stored.uid \in 0..MaxUid
    BY <2>1, ServiceFields
  <2>3. QED
    BY <2>1, <2>2, BoundsType DEF LivesInOrder
<1>3. stored.uid # uids + 1
  BY <1>2
<1>4. CASE Appears
  BY <1>1, <1>4 DEF Appears
<1>5. CASE Goes
  BY <1>1, <1>2, <1>5 DEF Goes, Blank
<1>6. CASE LosesFinalizer
  BY <1>1, <1>3, <1>6 DEF LosesFinalizer
<1>7. CASE UNCHANGED stored
  BY <1>1, <1>3, <1>7
<1>8. CASE IsRecorded \/ IsPublished \/ GetsRule \/ KeepsRecords
  BY <1>1, <1>3, <1>8 DEF IsRecorded, IsPublished, GetsRule, KeepsRecords, KeepsCare
<1>9. QED
  BY <1>4, <1>5, <1>6, <1>7, <1>8, EveryChange DEF History, Changes

LEMMA LivesStep ==
    ASSUME History, LivesInOrder, [Next]_vars
    PROVE  LivesInOrder'
<1> DEFINE LaterNext(v, w) ==
             v.uid = stored'.uid /\ stored'.uid # 0
                => w.uid = stored'.uid /\ (v.deleting => w.deleting)
<1>1. /\ uids \in Nat /\ uids' \in Nat /\ uids <= uids'
      /\ watch \in Seq(Service)
      /\ stored.uid \in Nat /\ cached.uid \in Nat
  <2>1. /\ stored \in Service /\ cached \in Service /\ watch \in Seq(Service)
        /\ uids \in 0..MaxUid
    BY Objects DEF History
  <2>2. stored.uid \in 0..MaxUid /\ cached.uid \in 0..MaxUid
    BY <2>1, ServiceFields
  <2>3. QED
    BY <2>1, <2>2, LifeGoesOn, BoundsType
<1>2. \A i \in DOMAIN watch : watch[i].uid \in Nat
  <2>1. ASSUME NEW i \in DOMAIN watch
        PROVE  watch[i].uid \in Nat
    <3>1. watch[i] \in Service
      BY <1>1
    <3>2. watch[i].uid \in 0..MaxUid
      BY <3>1, ServiceFields
    <3>3. QED
      BY <3>2, BoundsType
  <2>2. QED
    BY <2>1
<1>3. ASSUME NEW v, NEW w, v.uid \in Nat, v.uid <= uids, Later(v, w)
      PROVE  LaterNext(v, w)
  <2>1. v.uid # uids + 1
    BY <1>1, <1>3
  <2>2. QED
    BY <1>3, <2>1, LifeGoesOn DEF Later
<1>4. ASSUME NEW v, v.uid \in Nat, v.uid <= uids, Later(v, stored)
      PROVE  LaterNext(v, stored')
  <2>1. v.uid # uids + 1
    BY <1>1, <1>4
  <2>2. QED
    BY <1>4, <2>1, LifeGoesOn DEF Later
<1>5. ASSUME NEW v, v.uid \in Nat, v.uid <= uids
      PROVE  v.uid <= uids'
  BY <1>1, <1>5
<1>6. stored'.uid <= uids'
  BY <1>1, LifeGoesOn DEF LivesInOrder
<1>7. /\ cached.uid <= uids' /\ LaterNext(cached, stored')
      /\ \A i \in DOMAIN watch :
            /\ watch[i].uid <= uids'
            /\ LaterNext(cached, watch[i]) /\ LaterNext(watch[i], stored')
      /\ \A i, j \in DOMAIN watch : i < j => LaterNext(watch[i], watch[j])
  <2> HIDE DEF LaterNext
  <2>1. QED
    BY <1>1, <1>2, <1>3, <1>4, <1>5 DEF LivesInOrder
<1>8. LaterNext(stored', stored')
  OBVIOUS
<1> HIDE DEF LaterNext
<1>9. SUFFICES /\ cached'.uid <= uids' /\ LaterNext(cached', stored')
               /\ \A i \in DOMAIN watch' :
                     /\ watch'[i].uid <= uids'
                     /\ LaterNext(cached', watch'[i]) /\ LaterNext(watch'[i], stored')
               /\ \A i, j \in DOMAIN watch' : i < j => LaterNext(watch'[i], watch'[j])
  BY <1>6 DEF LivesInOrder, Later, LaterNext
<1>10. CASE UNCHANGED <<watch, cached>>
  BY <1>7, <1>10
<1>11. ASSUME UNCHANGED cached, NEW new \in Service, Write(new), ~UNCHANGED watch
       PROVE  /\ cached'.uid <= uids' /\ LaterNext(cached', stored')
              /\ \A i \in DOMAIN watch' :
                    /\ watch'[i].uid <= uids'
                    /\ LaterNext(cached', watch'[i]) /\ LaterNext(watch'[i], stored')
              /\ \A i, j \in DOMAIN watch' : i < j => LaterNext(watch'[i], watch'[j])
  <2>1. stored' \in Service /\ watch' = Append(watch, stored')
    BY <1>11, WrittenVersion DEF History
  <2>2. /\ \A i \in DOMAIN watch : watch'[i] = watch[i]
        /\ watch'[Len(watch) + 1] = stored'
        /\ DOMAIN watch = 1..Len(watch)
        /\ DOMAIN watch' = 1..(Len(watch) + 1)
        /\ Len(watch) \in Nat
    BY <1>1, <2>1
  <2>3. \A i \in DOMAIN watch' : i \in DOMAIN watch \/ i = Len(watch) + 1
    BY <2>2
  <2>4. \A i, j \in DOMAIN watch' : i < j => i \in DOMAIN watch
    BY <2>2
  <2>5. QED
    BY <1>6, <1>7, <1>8, <1>11, <2>2, <2>3, <2>4
<1>12. ASSUME Deliver
       PROVE  /\ cached'.uid <= uids' /\ LaterNext(cached', stored')
              /\ \A i \in DOMAIN watch' :
                    /\ watch'[i].uid <= uids'
                    /\ LaterNext(cached', watch'[i]) /\ LaterNext(watch'[i], stored')
              /\ \A i, j \in DOMAIN watch' : i < j => LaterNext(watch'[i], watch'[j])
  <2>1. watch # <<>> /\ cached' = Head(watch) /\ watch' = Tail(watch)
    BY <1>12 DEF Deliver
  <2>2. /\ DOMAIN watch = 1..Len(watch) /\ Len(watch) \in Nat /\ 1 \in DOMAIN watch
        /\ DOMAIN watch' = 1..(Len(watch) - 1)
        /\ \A i \in DOMAIN watch' : i + 1 \in DOMAIN watch /\ watch'[i] = watch[i + 1]
        /\ cached' = watch[1]
    BY <1>1, <2>1
  <2>3. /\ \A i \in DOMAIN watch' : 1 < i + 1
        /\ \A i, j \in DOMAIN watch' : i < j => i + 1 < j + 1
    BY <2>2
  <2>4. QED
    BY <1>7, <2>2, <2>3
<1>13. CASE Resync
  <2>1. cached' = stored' /\ watch' = <<>>
    BY <1>13 DEF Resync
  <2>2. QED
    BY <1>6, <1>8, <2>1
<1>14. QED
  BY <1>10, <1>11, <1>12, <1>13, EveryStoreStep DEF StoreStep, History

-----------------------------------------------------------------------------
(* A recorded id is final *)

CreatePoints == {"lookup", "create", "wait", "record"}

\* The only way into handleCreate is past the fresh read.
LEMMA CreateEntry ==
    ASSUME [Next]_vars, pc' \in CreatePoints
    PROVE  \/ pc \in CreatePoints
           \/ HandleCreate /\ UNCHANGED stored /\ ~cachedServiceIsStale(stored)
<1>1. /\ \A retry : Finish(retry) => pc' = "idle"
      /\ \A point : Goto(point) => pc' = point
  BY DEF Finish, DropLocals, Goto
<1>2. CASE Reconcile
  BY <1>2 DEF Reconcile, FirstStep, Operation, CreatePoints
<1>3. CASE HandleCreate
  BY <1>1, <1>3 DEF HandleCreate, KubeUnchanged, CreatePoints
<1>4. CASE \/ LookUp \/ CreateLoadBalancer \/ CreateRefused \/ WaitForOperation
           \/ RecordLoadBalancer
  BY <1>4 DEF LookUp, CreateLoadBalancer, CreateRefused, WaitForOperation, RecordLoadBalancer,
              CreatePoints
<1>5. CASE AddFinalizer
  BY <1>1, <1>5 DEF AddFinalizer, Operation, CreatePoints
<1>6. CASE SetLoadBalancerIngress \/ EnsureLoadBalancerIngress \/ RestoreIngress
           \/ UpdateLoadBalancer
  BY <1>1, <1>6 DEF SetLoadBalancerIngress, EnsureLoadBalancerIngress, RestoreIngress,
                    UpdateLoadBalancer, CreatePoints
<1>7. CASE EnsureFirewallRule
  BY <1>1, <1>7 DEF EnsureFirewallRule, NoFirewallRuleWanted, CheckFirewallRule,
                    ResolveOperation, CreatePoints
<1>8. CASE PatchFirewallRule \/ AdoptFirewallRule \/ RecordRule \/ RecordAdoptedRule
           \/ CreateFirewallRule \/ RecordOperation
  BY <1>1, <1>8 DEF PatchFirewallRule, AdoptFirewallRule, RecordRule, RecordAdoptedRule,
                    PatchAndFinish, CreateFirewallRule, RecordOperation, CreatePoints
<1>9. CASE DeleteFirewallRule \/ FindRule \/ DeleteRule \/ ClearRule
           \/ DeleteLoadBalancer \/ RemoveFinalizer
  BY <1>1, <1>9 DEF DeleteFirewallRule, FindRule, DeleteRule, ClearRule, DeleteLoadBalancer,
                    RemoveFinalizer, CreatePoints
<1>10. CASE CallFails \/ Crash
  BY <1>1, <1>10 DEF CallFails, Crash, DropLocals, CreatePoints
<1>11. CASE \/ User \/ DeliverEvent \/ Timer \/ NodeChanges
            \/ \E i \in 1..MaxLbs : LbProgress(i)
            \/ \E o \in 1..MaxOps : FwProgress(o)
            \/ CloudFault \/ OperatorRemoves \/ OperatorReleases \/ HoldExpires
            \/ UNCHANGED vars
  BY <1>11 DEF User, DeliverEvent, Timer, NodeChanges, LbProgress, FwProgress, CloudFault,
               OperatorRemoves, OperatorReleases, HoldExpires, vars, reconcileVars, CreatePoints
<1>12. QED
  BY <1>2, <1>3, <1>4, <1>5, <1>6, <1>7, <1>8, <1>9, <1>10, <1>11 DEF Next, Worker

\* Nothing but recordLoadBalancer records an id.
LEMMA OnlyRecordingRecords ==
    ASSUME History, [Next]_vars
    PROVE  \/ stored'.lbId \in {0, stored.lbId}
           \/ RecordLoadBalancer /\ stored'.lbId = lb
BY EveryChange
DEF History, Changes, Appears, Goes, Blank, LosesFinalizer, IsRecorded, IsPublished, GetsRule,
    KeepsRecords, KeepsId

LEMMA NotYetRecordedStep ==
    ASSUME ~ReaderForbidden, History, NotYetRecorded, [Next]_vars
    PROVE  NotYetRecorded'
<1> SUFFICES ASSUME pc' \in CreatePoints
             PROVE  stored'.lbId = 0
  BY DEF NotYetRecorded, CreatePoints
<1>1. stored.lbId = 0
  BY CreateEntry DEF NotYetRecorded, CreatePoints, cachedServiceIsStale
<1>2. RecordLoadBalancer => pc' \notin CreatePoints
  BY DEF RecordLoadBalancer, Goto, Finish, DropLocals, CreatePoints
<1>3. QED
  BY <1>1, <1>2, OnlyRecordingRecords

\* The same of the Service that stays.
LEMMA OthersKeepId ==
    ASSUME History, [Next]_vars, ~RecordLoadBalancer, stored'.uid = stored.uid
    PROVE  stored'.lbId = stored.lbId
<1>1. stored.uid = 0 => stored.lbId = 0
  BY DEF History, BlankInv, Blank
<1>2. QED
  BY <1>1, EveryChange
  DEF History, Changes, Appears, Goes, Blank, LosesFinalizer, IsRecorded, IsPublished, GetsRule,
      KeepsRecords, KeepsId

\* An id that is recorded stays, as long as the Service does.
LEMMA IdStays ==
    ASSUME History, NotYetRecorded, [Next]_vars
    PROVE  stored.lbId # 0 /\ stored'.uid = stored.uid => stored'.lbId = stored.lbId
<1>1. IsRecorded => stored.lbId = 0
  BY DEF IsRecorded, RecordLoadBalancer, NotYetRecorded
<1>2. stored.uid = 0 => stored.lbId = 0
  BY DEF History, BlankInv, Blank
<1>3. QED
  BY <1>1, <1>2, EveryChange
  DEF History, Changes, Appears, Goes, Blank, LosesFinalizer, IsPublished, GetsRule,
      KeepsRecords, KeepsId

(***************************************************************************)
(* A recorded load balancer id is never replaced, however far behind the   *)
(* cache is and whatever fails: past the fresh read of handleCreate no id  *)
(* is recorded, and only the pass that made this read could record one.    *)
(***************************************************************************)
THEOREM RecordedIdNeverChanges ==
    ASSUME ~ReaderForbidden
    PROVE  Spec => RecordedIdIsFinal
<1>1. Init => History /\ NotYetRecorded
  BY HistoryInit DEF Init, NotYetRecorded
<1>2. History /\ NotYetRecorded /\ [Next]_vars => (History /\ NotYetRecorded)'
  BY HistoryStep, NotYetRecordedStep
<1>3. History /\ NotYetRecorded /\ [Next]_vars
         => (stored.lbId # 0 /\ stored'.uid = stored.uid => stored'.lbId = stored.lbId)
  BY IdStays
<1>4. QED
  BY <1>1, <1>2, <1>3, PTL DEF Spec, RecordedIdIsFinal

-----------------------------------------------------------------------------
(* The recorded load balancer goes before the finalizer *)

\* handleDelete keeps the id it began with, and its copy, unless there is a
\* firewall rule to clear.
DeleteAdvances ==
    /\ pc \in DeletePoints
    /\ lb' = lb
    /\ pc # "clearRule" => svc' = svc
    /\ ~Managed /\ pc \notin {"findRule", "deleteRule", "clearRule"}
          => pc' \notin {"findRule", "deleteRule", "clearRule"}
    /\ pc' \in {"deleteRule", "clearRule"}
          => \/ pc \in {"deleteRule", "clearRule"} \/ svc.ruleId # 0 \/ svc.opId # 0
             \/ RulesNamed(svc.uid) # {}
    /\ pc' = "removeFinalizer" => DeleteLoadBalancer

LEMMA DeleteMoves ==
    ASSUME [Next]_vars, pc' \in DeletePoints
    PROVE  Begins \/ UNCHANGED reconcileVars \/ DeleteAdvances
<1>1. /\ \A retry : ~Finish(retry)
      /\ \A point : Goto(point) => pc' = point
  <2>1. pc' # "idle"
    BY DEF DeletePoints
  <2>2. QED
    BY <2>1 DEF Finish, DropLocals, Goto
<1>2. CASE Reconcile
  BY <1>2, ReconcileMoves
<1>3. CASE DeleteFirewallRule \/ FindRule \/ DeleteRule
  BY <1>1, <1>3 DEF DeleteFirewallRule, FindRule, DeleteRule, locals, DeletePoints, DeleteAdvances
<1>4. CASE ClearRule \/ DeleteLoadBalancer \/ RemoveFinalizer
  BY <1>1, <1>4 DEF ClearRule, DeleteLoadBalancer, RemoveFinalizer, locals, DeletePoints,
                    DeleteAdvances
<1>5. ASSUME Worker, ~Reconcile, ~DeleteFirewallRule, ~FindRule, ~DeleteRule, ~ClearRule,
             ~DeleteLoadBalancer, ~RemoveFinalizer
      PROVE  FALSE
  BY <1>1, <1>5
  DEF Worker, AddFinalizer, Operation, HandleCreate, LookUp, CreateLoadBalancer, CreateRefused,
      WaitForOperation, RecordLoadBalancer, SetLoadBalancerIngress, EnsureLoadBalancerIngress,
      RestoreIngress, UpdateLoadBalancer, EnsureFirewallRule, NoFirewallRuleWanted,
      CheckFirewallRule, ResolveOperation, PatchFirewallRule, AdoptFirewallRule, RecordRule,
      RecordAdoptedRule, PatchAndFinish, CreateFirewallRule, RecordOperation, DeletePoints
<1>6. ASSUME CallFails \/ Crash
      PROVE  FALSE
  BY <1>1, <1>6 DEF CallFails, Crash, DropLocals, DeletePoints
<1>7. CASE \/ User \/ DeliverEvent \/ Timer \/ NodeChanges
           \/ \E i \in 1..MaxLbs : LbProgress(i)
           \/ \E o \in 1..MaxOps : FwProgress(o)
           \/ CloudFault \/ OperatorRemoves \/ OperatorReleases \/ HoldExpires
           \/ UNCHANGED vars
  BY <1>7 DEF User, DeliverEvent, Timer, NodeChanges, LbProgress, FwProgress, CloudFault,
              OperatorRemoves, OperatorReleases, HoldExpires, vars, reconcileVars
<1>8. QED
  BY <1>2, <1>3, <1>4, <1>5, <1>6, <1>7 DEF Next

LEMMA DeleteSeesIdStep ==
    ASSUME History, DeleteSeesId, [Next]_vars
    PROVE  DeleteSeesId'
<1> SUFFICES ASSUME pc' \in DeletePoints
             PROVE  /\ ~Managed => /\ pc' \notin {"findRule", "deleteRule", "clearRule"}
                                   /\ lb' = svc'.lbId
                    /\ MaxLag = 0 /\ stored'.lbId # 0 => stored'.lbId = lb'
  BY DEF DeleteSeesId
<1>1. CASE Begins
  <2>1. pc' \notin {"findRule", "deleteRule", "clearRule"} /\ lb' = svc'.lbId
    BY <1>1 DEF Begins, FirstStep, Operation
  <2>2. CASE MaxLag = 0
    <3>1. watch = <<>>
      <4>1. watch \in Seq(Service) /\ Len(watch) <= 0
        BY <1>1, <2>2, Objects DEF History, Begins, Reconcile
      <4>2. QED
        BY <4>1
    <3>2. cached = stored
      BY <3>1 DEF History, VersionInv, CacheCatchesUp
    <3>3. UNCHANGED stored /\ lb' = cached.lbId
      BY <1>1 DEF Begins, Reconcile
    <3>4. QED
      BY <2>1, <3>2, <3>3
  <2>3. QED
    BY <2>1, <2>2
<1>2. CASE UNCHANGED reconcileVars \/ DeleteAdvances
  <2>1. pc \in DeletePoints /\ lb' = lb
    BY <1>2 DEF DeleteAdvances, reconcileVars, locals
  <2>2. ~Managed => /\ pc' \notin {"findRule", "deleteRule", "clearRule"}
                    /\ svc' = svc
    BY <1>2, <2>1 DEF DeleteAdvances, DeleteSeesId, reconcileVars, locals
  <2>3. stored'.lbId \in {0, stored.lbId}
    BY <2>1, OnlyRecordingRecords DEF RecordLoadBalancer, DeletePoints
  <2>4. QED
    BY <2>1, <2>2, <2>3 DEF DeleteSeesId
<1>3. QED
  BY <1>1, <1>2, DeleteMoves

LEMMA DeletedFirstStep ==
    ASSUME CreationInv, DeletedFirst, [Next]_vars
    PROVE  DeletedFirst'
<1> SUFFICES ASSUME pc' = "removeFinalizer", lb' # 0
             PROVE  ~lbs'[lb'].up
  BY DEF DeletedFirst
<1>1. lbs \in [1..MaxLbs -> LoadBalancer] /\ lb \in 0..MaxLbs
  BY TypeInvParts DEF CreationInv, CloudTypeOK, LocalTypeOK
<1>2. ~Begins
  BY DEF Begins, FirstStep, Operation
<1>3. CASE UNCHANGED reconcileVars
  <2>1. pc = "removeFinalizer" /\ lb' = lb /\ lb \in 1..MaxLbs
    BY <1>1, <1>3, NonzeroId DEF reconcileVars, locals
  <2>2. ~CreateLoadBalancer
    BY <2>1 DEF CreateLoadBalancer
  <2>3. QED
    BY <2>1, <2>2, OthersBringUpNone DEF DeletedFirst, BringsUpNone
<1>4. CASE DeleteLoadBalancer /\ lb' = lb
  <2>1. lb \in 1..MaxLbs /\ RemoveLoadBalancer(lb)
    BY <1>1, <1>4, NonzeroId DEF DeleteLoadBalancer
  <2>2. lbs'[lb].up = FALSE
    BY <1>1, <2>1 DEF RemoveLoadBalancer, LoadBalancer
  <2>3. QED
    BY <1>4, <2>2
<1>5. QED
  BY <1>2, <1>3, <1>4, DeleteMoves DEF DeletePoints, DeleteAdvances

\* A release is the pass letting go of the Service it has a copy of.
LEMMA ReleasedByPass ==
    ASSUME History, [Next]_vars, IsReleased
    PROVE  RemoveFinalizer /\ svc = stored /\ stored.deleting
<1>1. ~UNCHANGED reconcileVars
  BY DEF IsReleased, reconcileVars
<1>2. OperatorReleases => UNCHANGED reconcileVars
  BY DEF OperatorReleases
<1>3. stored'.uid = 0 /\ stored.uid # 0
  BY DEF IsReleased, Exists
<1>4. QED
  BY <1>1, <1>2, <1>3, EveryChange
  DEF History, Changes, Appears, Goes, LosesFinalizer, IsRecorded, IsPublished, GetsRule,
      KeepsRecords, KeepsCare

(***************************************************************************)
(* The recorded load balancer is gone when the finalizer goes: with no     *)
(* firewall rule to clear, nothing refreshes handleDelete's copy, and the  *)
(* Update that removes the finalizer conflicts if it lacks the id; with an *)
(* up-to-date cache handleDelete has the id from the start.  With neither  *)
(* the run StaleDelete shows the load balancer left behind.                *)
(***************************************************************************)
THEOREM RecordedOneGoesFirst ==
    ASSUME ~Managed \/ MaxLag = 0
    PROVE  Spec => RecordedLoadBalancerIsRemoved
<1> DEFINE Inv == History /\ CreationInv /\ DeleteSeesId /\ DeletedFirst
<1>1. Init => Inv
  <2>1. Init => pc = "idle"
    BY DEF Init
  <2>2. QED
    BY <2>1, HistoryInit, CreationInit DEF DeleteSeesId, DeletedFirst, DeletePoints
<1>2. Inv /\ [Next]_vars => Inv'
  BY HistoryStep, CreationStep, DeleteSeesIdStep, DeletedFirstStep
<1>3. ASSUME Inv, [Next]_vars, IsReleased, stored.lbId # 0
      PROVE  ~lbs[stored.lbId].up
  <2>1. svc = stored /\ pc = "removeFinalizer" /\ pc \in DeletePoints
    BY <1>3, ReleasedByPass DEF RemoveFinalizer, DeletePoints
  <2>2. stored.lbId = lb
    BY <1>3, <2>1 DEF DeleteSeesId
  <2>3. QED
    BY <1>3, <2>1, <2>2 DEF DeletedFirst
<1>4. QED
  BY <1>1, <1>2, <1>3, PTL DEF Spec, RecordedLoadBalancerIsRemoved

-----------------------------------------------------------------------------
(* What a step does to each load balancer and firewall rule *)

SameMaker(i) ==
    /\ lbs'[i].owner = lbs[i].owner /\ lbs'[i].protocol = lbs[i].protocol
    /\ lbs'[i].listeners = lbs[i].listeners \/ UpdateLoadBalancer

LbKept(i) ==
    /\ SameMaker(i)
    /\ lbs'[i].op = lbs[i].op /\ lbs'[i].up = lbs[i].up /\ lbs'[i].vip = lbs[i].vip

LbSettled(i) ==
    /\ SameMaker(i)
    /\ lbs[i].op = "IN_PROGRESS"
    /\ \/ lbs'[i].op = "SUCCEEDED" /\ lbs'[i].up = lbs[i].up
       \/ lbs'[i].op = "FAILED" /\ lbs'[i].vip = lbs[i].vip

LbGotVip(i) ==
    /\ SameMaker(i)
    /\ lbs[i].up /\ lbs[i].op # "IN_PROGRESS"
    /\ lbs'[i].op = lbs[i].op /\ lbs'[i].up = lbs[i].up /\ lbs'[i].vip

LbRemoved(i) ==
    /\ DeleteLoadBalancer \/ OperatorRemoves
    /\ SameMaker(i)
    /\ ~lbs'[i].up /\ lbs'[i].vip = lbs[i].vip
    /\ lbs'[i].op = IF lbs[i].op = "IN_PROGRESS" THEN "FAILED" ELSE lbs[i].op

LbCreated(i) ==
    /\ CreateLoadBalancer
    /\ lbs[i].op = "unused"
    /\ lb' = i
    /\ lbs'[i].op = "IN_PROGRESS" /\ lbs'[i].up /\ ~lbs'[i].vip
    /\ lbs'[i].owner = svc.uid

LEMMA EachLoadBalancer ==
    ASSUME TypeInv, [Next]_vars
    PROVE  \/ \A i \in 1..MaxLbs : LbKept(i)
           \/ \E i \in 1..MaxLbs :
                 /\ LbSettled(i) \/ LbGotVip(i) \/ LbRemoved(i) \/ LbCreated(i)
                 /\ \A j \in 1..MaxLbs : j # i => LbKept(j)
<1>1. lbs \in [1..MaxLbs -> LoadBalancer]
  BY Objects
<1>2. ASSUME NEW j, lbs'[j] = lbs[j]
      PROVE  LbKept(j)
  BY <1>2 DEF LbKept, SameMaker
<1>3. CASE lbs' = lbs
  BY <1>2, <1>3
<1>4. CASE CreateLoadBalancer
  <2> DEFINE protocol == DeriveLoadBalancerProtocol(svc.ports)
             new == [owner |-> svc.uid, op |-> "IN_PROGRESS", up |-> TRUE, vip |-> FALSE,
                     protocol |-> protocol, listeners |-> listenersFor(svc.ports, protocol)]
  <2>1. PICK i \in 1..MaxLbs : lbs[i].op = "unused" /\ lbs' = [lbs EXCEPT ![i] = new] /\ lb' = i
    BY <1>4 DEF CreateLoadBalancer, AcceptLoadBalancer, NextLoadBalancerId
  <2>2. new.owner = svc.uid /\ new.op = "IN_PROGRESS" /\ new.up /\ ~new.vip
    OBVIOUS
  <2> HIDE DEF new
  <2>3. lbs'[i] = new /\ \A j \in 1..MaxLbs : j # i => lbs'[j] = lbs[j]
    BY <1>1, <2>1
  <2>4. LbCreated(i)
    BY <1>4, <2>1, <2>2, <2>3 DEF LbCreated
  <2>5. QED
    BY <1>2, <2>3, <2>4
<1>5. CASE UpdateLoadBalancer
  <2>1. ASSUME NEW j \in 1..MaxLbs
        PROVE  LbKept(j)
    <3>1. CASE lbs'[j] = lbs[j]
      BY <1>2, <3>1
    <3>2. CASE \E listeners : lbs'[j] = [lbs[j] EXCEPT !.listeners = listeners]
      BY <1>1, <1>5, <3>2 DEF LoadBalancer, LbKept, SameMaker
    <3>3. QED
      BY <1>1, <1>5, <3>1, <3>2 DEF UpdateLoadBalancer, locals
  <2>2. QED
    BY <2>1
<1>6. ASSUME NEW i \in 1..MaxLbs, RemoveLoadBalancer(i),
             DeleteLoadBalancer \/ OperatorRemoves
      PROVE  LbRemoved(i) /\ \A j \in 1..MaxLbs : j # i => LbKept(j)
  <2> DEFINE l == lbs[i]
             op == IF l.op = "IN_PROGRESS" THEN "FAILED" ELSE l.op
             new == [[l EXCEPT !.up = FALSE] EXCEPT !.op = op]
  <2>1. lbs'[i] = new
    BY <1>1, <1>6 DEF RemoveLoadBalancer, LoadBalancer
  <2>2. l \in LoadBalancer
    BY <1>1
  <2>3. new.owner = l.owner /\ new.protocol = l.protocol /\ new.listeners = l.listeners
    <3> HIDE DEF l, op
    <3>1. QED
      BY <2>2 DEF LoadBalancer
  <2>4. ~new.up /\ new.vip = l.vip
    <3> HIDE DEF l, op
    <3>1. QED
      BY <2>2 DEF LoadBalancer
  <2>5. new.op = op
    <3> HIDE DEF l, op
    <3>1. QED
      BY <2>2 DEF LoadBalancer
  <2>6. \A j \in 1..MaxLbs : j # i => lbs'[j] = lbs[j]
    BY <1>1, <1>6 DEF RemoveLoadBalancer
  <2> HIDE DEF new
  <2>7. QED
    BY <1>2, <1>6, <2>1, <2>3, <2>4, <2>5, <2>6 DEF LbRemoved, SameMaker
<1>7. CASE DeleteLoadBalancer
  <2>1. lb = 0 \/ lb \in 1..MaxLbs
    BY NonzeroId, Objects
  <2>2. QED
    BY <1>3, <1>6, <1>7, <2>1 DEF DeleteLoadBalancer
<1>8. CASE OperatorRemoves
  BY <1>3, <1>6, <1>8 DEF OperatorRemoves
<1>9. ASSUME NEW i \in 1..MaxLbs, LbOpSettles(i) \/ LbOpFails(i)
      PROVE  LbSettled(i) /\ \A j \in 1..MaxLbs : j # i => LbKept(j)
  <2> DEFINE l == lbs[i]
  <2>1. l \in LoadBalancer
    BY <1>1
  <2>2. \A j \in 1..MaxLbs : j # i => lbs'[j] = lbs[j]
    BY <1>1, <1>9 DEF LbOpSettles, LbOpFails
  <2>3. CASE LbOpSettles(i)
    <3>1. PICK b \in BOOLEAN : lbs' = [lbs EXCEPT ![i].op = "SUCCEEDED", ![i].vip = b]
      BY <2>3 DEF LbOpSettles
    <3> DEFINE new == [[l EXCEPT !.op = "SUCCEEDED"] EXCEPT !.vip = b]
    <3>2. lbs'[i] = new
      BY <1>1, <3>1
    <3>3. new.owner = l.owner /\ new.protocol = l.protocol /\ new.listeners = l.listeners
      <4> HIDE DEF l
      <4>1. QED
        BY <2>1 DEF LoadBalancer
    <3>4. new.op = "SUCCEEDED"
      <4> HIDE DEF l
      <4>1. QED
        BY <2>1 DEF LoadBalancer
    <3>5. new.up = l.up
      <4> HIDE DEF l
      <4>1. QED
        BY <2>1 DEF LoadBalancer
    <3> HIDE DEF new
    <3>6. QED
      BY <1>2, <2>2, <2>3, <3>2, <3>3, <3>4, <3>5 DEF LbOpSettles, LbSettled, SameMaker
  <2>4. CASE LbOpFails(i)
    <3>1. PICK b \in BOOLEAN : lbs' = [lbs EXCEPT ![i].op = "FAILED", ![i].up = b]
      BY <2>4 DEF LbOpFails
    <3> DEFINE new == [[l EXCEPT !.op = "FAILED"] EXCEPT !.up = b]
    <3>2. lbs'[i] = new
      BY <1>1, <3>1
    <3>3. new.owner = l.owner /\ new.protocol = l.protocol /\ new.listeners = l.listeners
      <4> HIDE DEF l
      <4>1. QED
        BY <2>1 DEF LoadBalancer
    <3>4. new.op = "FAILED"
      <4> HIDE DEF l
      <4>1. QED
        BY <2>1 DEF LoadBalancer
    <3>5. new.vip = l.vip
      <4> HIDE DEF l
      <4>1. QED
        BY <2>1 DEF LoadBalancer
    <3> HIDE DEF new
    <3>6. QED
      BY <1>2, <2>2, <2>4, <3>2, <3>3, <3>4, <3>5 DEF LbOpFails, LbSettled, SameMaker
  <2>5. QED
    BY <1>9, <2>3, <2>4
<1>10. ASSUME NEW i \in 1..MaxLbs, VipAssigned(i)
       PROVE  LbGotVip(i) /\ \A j \in 1..MaxLbs : j # i => LbKept(j)
  <2> DEFINE l == lbs[i]
             new == [l EXCEPT !.vip = TRUE]
  <2>1. l \in LoadBalancer
    BY <1>1
  <2>2. lbs'[i] = new /\ \A j \in 1..MaxLbs : j # i => lbs'[j] = lbs[j]
    BY <1>1, <1>10 DEF VipAssigned
  <2>3. /\ new.owner = l.owner /\ new.protocol = l.protocol /\ new.listeners = l.listeners
        /\ new.op = l.op
    <3> HIDE DEF l
    <3>1. QED
      BY <2>1 DEF LoadBalancer
  <2>4. new.up = l.up /\ new.vip
    <3> HIDE DEF l
    <3>1. QED
      BY <2>1 DEF LoadBalancer
  <2> HIDE DEF new
  <2>5. QED
    BY <1>2, <1>10, <2>2, <2>3, <2>4 DEF VipAssigned, LbGotVip, SameMaker
<1>11. ASSUME Worker, ~CreateLoadBalancer, ~UpdateLoadBalancer, ~DeleteLoadBalancer
       PROVE  lbs' = lbs
  BY <1>11
  DEF Worker, Reconcile, AddFinalizer, HandleCreate, LookUp, CreateRefused, WaitForOperation,
      RecordLoadBalancer, SetLoadBalancerIngress, EnsureLoadBalancerIngress, RestoreIngress,
      EnsureFirewallRule, PatchFirewallRule, AdoptFirewallRule, RecordRule, RecordAdoptedRule,
      PatchAndFinish, CreateFirewallRule, RecordOperation, DeleteFirewallRule, FindRule,
      DeleteRule, ClearRule, RemoveFinalizer, cloudVars
<1>12. CASE CallFails \/ Crash \/ User \/ DeliverEvent \/ Timer \/ NodeChanges
            \/ OperatorReleases \/ HoldExpires \/ UNCHANGED vars
  BY <1>3, <1>12 DEF CallFails, Crash, User, DeliverEvent, Timer, NodeChanges,
                     OperatorReleases, HoldExpires, vars, cloudVars
<1>13. CASE \/ \E i \in 1..MaxLbs : LbProgress(i)
            \/ \E o \in 1..MaxOps : FwProgress(o)
            \/ CloudFault
  BY <1>3, <1>9, <1>10, <1>13
  DEF LbProgress, FwProgress, CloudFault, FwOpSettles, FwCooldownEnds, FwOpFails, FwRecordAges
<1>14. QED
  BY <1>3, <1>4, <1>5, <1>7, <1>8, <1>11, <1>12, <1>13 DEF Next

SameRequest(o) ==
    /\ fws'[o].owner = fws[o].owner
    /\ fws'[o].late = fws[o].late /\ fws'[o].blind = fws[o].blind

SamePorts(o) == fws'[o].ports = fws[o].ports /\ fws'[o].protocols = fws[o].protocols

SameResult(o) == fws'[o].clash = fws[o].clash /\ fws'[o].cooled = fws[o].cooled

\* The operation or its rule changes, but not what was asked for.
SameMaking(o) == SameRequest(o) /\ SamePorts(o)

FwPatched(o) ==
    /\ PatchFirewallRule
    /\ SameRequest(o) /\ SameResult(o)
    /\ fws'[o].op = fws[o].op /\ fws'[o].rule = fws[o].rule

FwRemoved(o) ==
    /\ OperatorRemoves \/ (DeleteRule /\ rule = o)
    /\ SameMaking(o) /\ SameResult(o)
    /\ fws'[o].op = fws[o].op /\ ~fws'[o].rule

FwSucceeded(o) ==
    /\ SameMaking(o) /\ SameResult(o)
    /\ RulesNamed(fws[o].owner) = {}
    /\ \A p \in 1..MaxOps : p # o => fws'[p] = fws[p]
    /\ fws[o].op = "IN_PROGRESS" /\ fws'[o].op = "SUCCEEDED" /\ fws'[o].rule

FwClashed(o) ==
    /\ SameMaking(o)
    /\ RulesNamed(fws[o].owner) # {}
    /\ fws'[o].clash /\ fws'[o].cooled = fws[o].cooled
    /\ fws[o].op = "IN_PROGRESS" /\ fws'[o].op = "FAILED" /\ fws'[o].rule = fws[o].rule

FwFailed(o) ==
    /\ SameMaking(o) /\ SameResult(o)
    /\ fws[o].op = "IN_PROGRESS" /\ fws'[o].op = "FAILED" /\ fws'[o].rule = fws[o].rule

FwCooled(o) ==
    /\ SameMaking(o)
    /\ fws'[o].cooled /\ fws'[o].clash = fws[o].clash
    /\ fws[o].op = "FAILED" /\ fws'[o].op = "FAILED" /\ fws'[o].rule = fws[o].rule

FwAged(o) ==
    /\ SameMaking(o) /\ SameResult(o)
    /\ fws[o].op = "SUCCEEDED" \/ (fws[o].op = "FAILED" /\ fws[o].cooled)
    /\ fws'[o].op = "GONE" /\ fws'[o].rule = fws[o].rule

FwStuck(o) ==
    /\ HoldExpires
    /\ SameMaking(o) /\ SameResult(o)
    /\ fws[o].owner = stored.uid /\ ~fws[o].late
    /\ fws[o].op = "IN_PROGRESS" /\ fws'[o].op = "STUCK" /\ fws'[o].rule = fws[o].rule

FwCreated(o) ==
    /\ CreateFirewallRule
    /\ fws[o].op = "unused"
    /\ rule' = o
    /\ fws'[o].op = "IN_PROGRESS" /\ ~fws'[o].rule /\ ~fws'[o].clash
    /\ fws'[o].owner = svc.uid /\ fws'[o].late = stored.deleting
    /\ fws'[o].blind = MissesRecord(svc)

FwMoves(o) ==
    \/ fws'[o] = fws[o]
    \/ FwPatched(o) \/ FwRemoved(o)
    \/ FwSucceeded(o) \/ FwClashed(o) \/ FwFailed(o) \/ FwCooled(o) \/ FwAged(o) \/ FwStuck(o)
    \/ FwCreated(o)

LEMMA EachFirewallRule ==
    ASSUME TypeInv, [Next]_vars, NEW o \in 1..MaxOps
    PROVE  FwMoves(o)
<1>1. fws \in [1..MaxOps -> FirewallRule] /\ fws[o] \in FirewallRule
  BY Objects
<1>2. fws'[o] = fws[o] => FwMoves(o)
  BY DEF FwMoves
<1>3. CASE CreateFirewallRule
  <2> DEFINE new(s) == [NoFirewallRule EXCEPT
                           !.owner = s.uid, !.op = "IN_PROGRESS", !.late = stored.deleting,
                           !.blind = MissesRecord(s),
                           !.ports = argsOf(s).destinationPorts,
                           !.protocols = argsOf(s).protocols]
  <2>1. CASE fws' = fws
    BY <1>2, <2>1
  <2>2. CASE \E p \in NextOperationId : fws' = [fws EXCEPT ![p] = new(svc)] /\ rule' = p
    <3>1. PICK p \in 1..MaxOps :
             fws[p].op = "unused" /\ fws' = [fws EXCEPT ![p] = new(svc)] /\ rule' = p
      BY <2>2 DEF NextOperationId
    <3>2. /\ new(svc).owner = svc.uid /\ new(svc).op = "IN_PROGRESS"
          /\ new(svc).late = stored.deleting /\ new(svc).blind = MissesRecord(svc)
          /\ ~new(svc).rule /\ ~new(svc).clash
      BY DEF NoFirewallRule
    <3> HIDE DEF new
    <3>3. CASE p = o
      <4>1. fws'[o] = new(svc)
        BY <1>1, <3>1, <3>3
      <4>2. QED
        BY <1>3, <3>1, <3>2, <3>3, <4>1 DEF FwCreated, FwMoves
    <3>4. CASE p # o
      BY <1>1, <1>2, <3>1, <3>4
    <3>5. QED
      BY <3>3, <3>4
  <2>3. QED
    BY <1>3, <2>1, <2>2 DEF CreateFirewallRule, AcceptFirewallRule
<1>4. ASSUME NEW p \in 1..MaxOps, RemoveRule(p), OperatorRemoves \/ (DeleteRule /\ rule = p)
      PROVE  FwMoves(o)
  <2> DEFINE l == fws[o]
             new == [l EXCEPT !.rule = FALSE]
  <2>1. CASE p = o
    <3>1. fws'[o] = new
      BY <1>1, <1>4, <2>1 DEF RemoveRule
    <3>2. l \in FirewallRule
      BY <1>1
    <3>3. /\ new.owner = l.owner /\ new.late = l.late /\ new.blind = l.blind /\ new.op = l.op /\ ~new.rule
          /\ new.clash = l.clash /\ new.cooled = l.cooled
          /\ new.ports = l.ports /\ new.protocols = l.protocols
      <4> HIDE DEF l
      <4>1. QED
        BY <3>2 DEF FirewallRule
    <3> HIDE DEF new
    <3>4. QED
      BY <1>4, <2>1, <3>1, <3>3
      DEF FwRemoved, SameMaking, SameRequest, SamePorts, SameResult, FwMoves
  <2>2. CASE p # o
    BY <1>1, <1>2, <1>4, <2>2 DEF RemoveRule
  <2>3. QED
    BY <2>1, <2>2
<1>5. CASE DeleteRule
  <2>1. rule \in 1..MaxOps \/ fws' = fws
    BY <1>1, <1>5, Objects, BoundsType DEF DeleteRule, RemoveRule
  <2>2. QED
    BY <1>2, <1>4, <1>5, <2>1 DEF DeleteRule
<1>6. CASE OperatorRemoves
  BY <1>2, <1>4, <1>6 DEF OperatorRemoves
<1>7. CASE PatchFirewallRule
  <2> DEFINE ports == argsOf(svc).destinationPorts
             protocols == argsOf(svc).protocols
             id == svc.ruleId
             l == fws[o]
             new == [[l EXCEPT !.ports = ports] EXCEPT !.protocols = protocols]
  <2>1. \/ fws' = fws
        \/ fws' = [fws EXCEPT ![id].ports = ports, ![id].protocols = protocols]
    BY <1>7 DEF PatchFirewallRule
  <2> HIDE DEF ports, protocols, id
  <2>2. fws'[o] = fws[o] \/ fws'[o] = new
    BY <1>1, <2>1
  <2>3. l \in FirewallRule
    BY <1>1
  <2>4. /\ new.owner = l.owner /\ new.late = l.late /\ new.blind = l.blind
        /\ new.op = l.op /\ new.rule = l.rule
        /\ new.clash = l.clash /\ new.cooled = l.cooled
    <3> HIDE DEF l
    <3>1. QED
      BY <2>3 DEF FirewallRule
  <2> HIDE DEF new
  <2>5. QED
    BY <1>2, <1>7, <2>2, <2>4 DEF FwPatched, SameRequest, SameResult, FwMoves
<1>8. ASSUME NEW p \in 1..MaxOps, FwOpSettles(p)
      PROVE  FwMoves(o)
  <2> DEFINE l == fws[o]
             won == [[l EXCEPT !.op = "SUCCEEDED"] EXCEPT !.rule = TRUE]
             lost == [[l EXCEPT !.op = "FAILED"] EXCEPT !.clash = TRUE]
  <2>1. CASE p # o
    BY <1>1, <1>2, <1>8, <2>1 DEF FwOpSettles
  <2>2. CASE p = o
    <3>1. fws[o].op = "IN_PROGRESS" /\ \A q \in 1..MaxOps : q # o => fws'[q] = fws[q]
      BY <1>1, <1>8, <2>2 DEF FwOpSettles
    <3>2. IF RulesNamed(fws[o].owner) = {} THEN fws'[o] = won ELSE fws'[o] = lost
      BY <1>1, <1>8, <2>2 DEF FwOpSettles
    <3>3. l \in FirewallRule
      BY <1>1
    <3>4. /\ won.owner = l.owner /\ won.late = l.late /\ won.blind = l.blind
          /\ won.op = "SUCCEEDED" /\ won.rule
          /\ won.clash = l.clash /\ won.cooled = l.cooled
          /\ won.ports = l.ports /\ won.protocols = l.protocols
      <4> HIDE DEF l
      <4>1. QED
        BY <3>3 DEF FirewallRule
    <3>5. /\ lost.owner = l.owner /\ lost.late = l.late /\ lost.blind = l.blind
          /\ lost.op = "FAILED"
          /\ lost.rule = l.rule /\ lost.clash /\ lost.cooled = l.cooled
          /\ lost.ports = l.ports /\ lost.protocols = l.protocols
      <4> HIDE DEF l
      <4>1. QED
        BY <3>3 DEF FirewallRule
    <3> HIDE DEF won, lost
    <3>6. QED
      BY <3>1, <3>2, <3>4, <3>5
      DEF FwSucceeded, FwClashed, SameMaking, SameRequest, SamePorts, SameResult, FwMoves
  <2>3. QED
    BY <2>1, <2>2
<1>9. ASSUME NEW to \in {"FAILED", "GONE", "STUCK"}, fws'[o] = [fws[o] EXCEPT !.op = to]
      PROVE  SameMaking(o) /\ SameResult(o) /\ fws'[o].op = to /\ fws'[o].rule = fws[o].rule
  BY <1>1, <1>9 DEF FirewallRule, SameMaking, SameRequest, SamePorts, SameResult
<1>10. ASSUME NEW p \in 1..MaxOps, FwOpFails(p)
       PROVE  FwMoves(o)
  <2>1. CASE p # o
    BY <1>1, <1>2, <1>10, <2>1 DEF FwOpFails
  <2>2. CASE p = o
    BY <1>1, <1>9, <1>10, <2>2 DEF FwOpFails, FwFailed, FwMoves
  <2>3. QED
    BY <2>1, <2>2
<1>11. ASSUME NEW p \in 1..MaxOps, FwRecordAges(p)
       PROVE  FwMoves(o)
  <2>1. CASE p # o
    BY <1>1, <1>2, <1>11, <2>1 DEF FwRecordAges
  <2>2. CASE p = o
    BY <1>1, <1>9, <1>11, <2>2 DEF FwRecordAges, FwAged, FwMoves
  <2>3. QED
    BY <2>1, <2>2
<1>12. ASSUME NEW p \in 1..MaxOps, FwCooldownEnds(p)
       PROVE  FwMoves(o)
  <2> DEFINE l == fws[o]
             new == [l EXCEPT !.cooled = TRUE]
  <2>1. CASE p # o
    BY <1>1, <1>2, <1>12, <2>1 DEF FwCooldownEnds
  <2>2. CASE p = o
    <3>1. fws'[o] = new /\ l.op = "FAILED"
      BY <1>1, <1>12, <2>2 DEF FwCooldownEnds
    <3>2. l \in FirewallRule
      BY <1>1
    <3>3. /\ new.owner = l.owner /\ new.late = l.late /\ new.blind = l.blind
          /\ new.op = l.op /\ new.rule = l.rule
          /\ new.clash = l.clash /\ new.cooled
          /\ new.ports = l.ports /\ new.protocols = l.protocols
      <4> HIDE DEF l
      <4>1. QED
        BY <3>2 DEF FirewallRule
    <3> HIDE DEF new
    <3>4. QED
      BY <3>1, <3>3 DEF FwCooled, SameMaking, SameRequest, SamePorts, FwMoves
  <2>3. QED
    BY <2>1, <2>2
<1>13. CASE HoldExpires
  <2>1. \/ fws'[o] = fws[o]
        \/ /\ fws[o].op = "IN_PROGRESS" /\ fws[o].owner = stored.uid /\ ~fws[o].late
           /\ fws'[o] = [fws[o] EXCEPT !.op = "STUCK"]
    BY <1>1, <1>13 DEF HoldExpires, OperationsStuckAtHoldLimit
  <2>2. QED
    BY <1>2, <1>9, <1>13, <2>1 DEF FwStuck, FwMoves
<1>14. ASSUME Worker, ~CreateFirewallRule, ~PatchFirewallRule, ~DeleteRule
       PROVE  fws' = fws
  BY <1>14
  DEF Worker, Reconcile, AddFinalizer, HandleCreate, LookUp, CreateLoadBalancer, CreateRefused,
      WaitForOperation, RecordLoadBalancer, SetLoadBalancerIngress, EnsureLoadBalancerIngress,
      RestoreIngress, UpdateLoadBalancer, EnsureFirewallRule, AdoptFirewallRule, RecordRule,
      RecordAdoptedRule, PatchAndFinish, RecordOperation, DeleteFirewallRule, FindRule,
      ClearRule, DeleteLoadBalancer, RemoveFinalizer, cloudVars
<1>15. CASE CallFails \/ Crash \/ User \/ DeliverEvent \/ Timer \/ NodeChanges
            \/ OperatorReleases \/ UNCHANGED vars
  BY <1>2, <1>15 DEF CallFails, Crash, User, DeliverEvent, Timer, NodeChanges,
                     OperatorReleases, vars, cloudVars
<1>16. CASE \/ \E i \in 1..MaxLbs : LbProgress(i)
            \/ \E p \in 1..MaxOps : FwProgress(p)
            \/ CloudFault
  BY <1>2, <1>8, <1>10, <1>11, <1>12, <1>16
  DEF LbProgress, FwProgress, CloudFault, LbOpSettles, LbOpFails, VipAssigned
<1>17. QED
  BY <1>2, <1>3, <1>5, <1>6, <1>7, <1>13, <1>14, <1>15, <1>16 DEF Next

FwKept(o) ==
    /\ SameRequest(o)
    /\ fws'[o].op = "unused" <=> fws[o].op = "unused"
    /\ fws'[o].rule => fws[o].rule \/ fws[o].op # "unused"

LEMMA KeptUnlessCreated ==
    ASSUME TypeInv, [Next]_vars, NEW o \in 1..MaxOps
    PROVE  FwKept(o) \/ FwCreated(o)
<1>1. fws'[o] = fws[o] => FwKept(o)
  BY DEF FwKept, SameRequest
<1>2. QED
  BY <1>1, EachFirewallRule
  DEF FwMoves, FwPatched, FwRemoved, FwSucceeded, FwClashed, FwFailed, FwCooled, FwAged, FwStuck,
      SameMaking, FwKept

LEMMA FreshInit == Init => FreshIds
<1> SUFFICES ASSUME Init PROVE FreshIds
  OBVIOUS
<1>1. \A i \in 1..MaxLbs : ~lbs[i].up /\ ~lbs[i].vip /\ lbs[i].owner = 0
  BY DEF Init, CloudInit, NoLoadBalancer
<1>2. \A o \in 1..MaxOps : ~fws[o].rule /\ ~fws[o].blind
  BY DEF Init, CloudInit, NoFirewallRule
<1>3. QED
  BY <1>1, <1>2 DEF FreshIds

LEMMA FreshStep ==
    ASSUME TypeInv, FreshIds, [Next]_vars
    PROVE  FreshIds'
<1>1. ASSUME NEW i \in 1..MaxLbs, LbKept(i)
      PROVE  /\ lbs'[i].op = "unused" => ~lbs'[i].up /\ lbs'[i].owner = 0
             /\ lbs'[i].op \in {"unused", "IN_PROGRESS"} => ~lbs'[i].vip
  BY <1>1 DEF LbKept, SameMaker, FreshIds
<1>2. ASSUME NEW i \in 1..MaxLbs, LbSettled(i) \/ LbGotVip(i) \/ LbRemoved(i) \/ LbCreated(i)
      PROVE  /\ lbs'[i].op = "unused" => ~lbs'[i].up /\ lbs'[i].owner = 0
             /\ lbs'[i].op \in {"unused", "IN_PROGRESS"} => ~lbs'[i].vip
  BY <1>2 DEF LbSettled, LbGotVip, LbRemoved, LbCreated, SameMaker, FreshIds
<1>3. ASSUME NEW o \in 1..MaxOps
      PROVE  fws'[o].op = "unused" => ~fws'[o].rule /\ ~fws'[o].blind
  BY KeptUnlessCreated DEF FwKept, SameRequest, FwCreated, FreshIds
<1>4. QED
  BY <1>1, <1>2, <1>3, EachLoadBalancer DEF FreshIds

\* What has been created keeps its owner and its protocol, and the VIP it got.
LEMMA UsedStays ==
    ASSUME TypeInv, FreshIds, [Next]_vars, NEW i \in 1..MaxLbs, lbs[i].op # "unused"
    PROVE  SameMaker(i) /\ lbs'[i].op # "unused" /\ (lbs[i].vip => lbs'[i].vip)
BY EachLoadBalancer DEF LbKept, LbSettled, LbGotVip, LbRemoved, LbCreated, SameMaker, FreshIds

LEMMA UsedOperationStays ==
    ASSUME TypeInv, [Next]_vars, NEW o \in 1..MaxOps, fws[o].op # "unused"
    PROVE  fws'[o].owner = fws[o].owner /\ fws'[o].op # "unused"
BY KeptUnlessCreated DEF SameRequest, FwKept, FwCreated

\* Every record stays one's own.
LEMMA RecordStays ==
    ASSUME TypeInv, FreshIds, [Next]_vars, NEW v \in Service, OwnRecord(v)
    PROVE  OwnRecord(v)'
<1>1. v.lbId \in 0..MaxLbs /\ v.opId \in 0..MaxOps /\ v.ruleId \in 0..MaxOps
  BY ServiceFields
<1>2. \A o \in 0..MaxOps : o # 0 => o \in 1..MaxOps
  BY BoundsType
<1>3. v.lbId # 0 => SameMaker(v.lbId) /\ lbs'[v.lbId].op # "unused"
  BY <1>1, NonzeroId, UsedStays DEF OwnRecord
<1>4. v.opId # 0 => fws'[v.opId].owner = fws[v.opId].owner /\ fws'[v.opId].op # "unused"
  BY <1>1, <1>2, UsedOperationStays DEF OwnRecord
<1>5. v.ruleId # 0 => fws'[v.ruleId].owner = fws[v.ruleId].owner /\ fws'[v.ruleId].op # "unused"
  BY <1>1, <1>2, UsedOperationStays DEF OwnRecord
<1>6. QED
  BY <1>3, <1>4, <1>5 DEF OwnRecord, SameMaker

-----------------------------------------------------------------------------
(* Where the copies come from *)

LEMMA CopiesComeFrom ==
    ASSUME TypeInv, [Next]_vars
    PROVE  /\ \/ cached' = cached
              \/ cached' = stored /\ UNCHANGED stored
              \/ \E j \in DOMAIN watch : cached' = watch[j]
           /\ SvcIsSome
           /\ \A i \in DOMAIN watch' :
                 \/ watch'[i] = stored'
                 \/ \E j \in DOMAIN watch : watch'[i] = watch[j]
<1>1. watch \in Seq(Service)
  BY Objects
<1>2. CASE UNCHANGED <<stored, watch, cached>> /\ SvcIsSome
  BY <1>2
<1>3. ASSUME UNCHANGED cached, NEW new \in Service, Write(new), SvcIsSome
      PROVE  /\ SvcIsSome
             /\ \A i \in DOMAIN watch' :
                   watch'[i] = stored' \/ \E j \in DOMAIN watch : watch'[i] = watch[j]
  <2>1. CASE UNCHANGED <<stored, watch>>
    BY <1>2, <1>3, <2>1
  <2>2. CASE watch' = Append(watch, stored') /\ stored' \in Service
    <3>1. /\ \A i \in DOMAIN watch : watch'[i] = watch[i]
          /\ watch'[Len(watch) + 1] = stored'
          /\ DOMAIN watch' = 1..(Len(watch) + 1)
          /\ DOMAIN watch = 1..Len(watch)
          /\ Len(watch) \in Nat
      BY <1>1, <2>2
    <3>2. \A i \in 1..(Len(watch) + 1) : i = Len(watch) + 1 \/ i \in 1..Len(watch)
      BY <3>1
    <3>3. QED
      BY <1>3, <3>1, <3>2
  <2>3. QED
    BY <1>3, <2>1, <2>2, WrittenVersion
<1>4. CASE Deliver /\ UNCHANGED svc
  <2>1. watch # <<>> /\ cached' = Head(watch) /\ watch' = Tail(watch)
    BY <1>4 DEF Deliver
  <2>2. Len(watch) \in Nat /\ Len(watch) > 0 /\ DOMAIN watch = 1..Len(watch)
    BY <1>1, <2>1
  <2>3. cached' = watch[1] /\ 1 \in DOMAIN watch
    BY <1>1, <2>1, <2>2
  <2>4. ASSUME NEW i \in DOMAIN watch'
        PROVE  i + 1 \in DOMAIN watch /\ watch'[i] = watch[i + 1]
    BY <1>1, <2>1, <2>2
  <2>5. QED
    BY <1>4, <2>3, <2>4 DEF SvcIsSome
<1>5. CASE Resync /\ svc' = NoService(0)
  BY <1>5 DEF Resync, SvcIsSome
<1>6. QED
  BY <1>2, <1>3, <1>4, <1>5, EveryStoreStep DEF StoreStep

\* The cache never goes back.
LEMMA CacheMovesOn ==
    ASSUME TypeInv, VersionInv, [Next]_vars
    PROVE  cached.rv <= cached'.rv
<1>1. cached.rv \in Nat
  BY Objects
<1>2. \A j \in DOMAIN watch : cached.rv <= watch[j].rv
  <2>1. ASSUME NEW j \in DOMAIN watch
        PROVE  cached.rv <= watch[j].rv
    <3>1. watch[j] \in Service
      BY Objects
    <3>2. watch[j].rv \in Nat
      BY <3>1, ServiceFields
    <3>3. cached.rv < watch[j].rv
      BY DEF VersionInv, WatchIsOrdered
    <3>4. QED
      BY <1>1, <3>2, <3>3
  <2>2. QED
    BY <2>1
<1>3. QED
  BY <1>1, <1>2, CopiesComeFrom DEF VersionInv, CurrentWith

-----------------------------------------------------------------------------
(* The ids on a Service are its own *)

\* While a pass is at work the finalizer is not lost.
LEMMA FinalizerStays ==
    ASSUME ~OperatorActs, History, OwnInv, [Next]_vars
    PROVE  \/ UNCHANGED stored
           \/ Appears
           \/ Goes /\ NoLiveCopy /\ pc \notin LivePoints
           \/ IsRecorded \/ IsPublished \/ GetsRule \/ KeepsRecords
<1>1. ~OperatorReleases
  BY DEF OperatorReleases
<1>2. RemoveFinalizer => NoLiveCopy /\ (stored.finalizer => stored.deleting)
  BY DEF RemoveFinalizer, OwnInv, CareInv, PassIsOnItsService, DeletePoints
<1>3. LosesFinalizer => KeepsRecords
  BY <1>2 DEF LosesFinalizer, KeepsRecords, KeepsCare
<1>4. ASSUME Goes
      PROVE  NoLiveCopy /\ pc \notin LivePoints
  <2>1. CASE RemoveFinalizer /\ svc = stored /\ stored.deleting
    BY <1>2, <2>1 DEF RemoveFinalizer, LivePoints
  <2>2. CASE ~stored.finalizer /\ ~stored.deleting /\ UNCHANGED reconcileVars
    BY <2>2 DEF OwnInv, CareInv, LiveCopies, NoLiveCopy, PassIsOnItsService
  <2>3. QED
    BY <1>1, <1>4, <2>1, <2>2 DEF Goes
<1>5. QED
  BY <1>3, <1>4, EveryChange DEF History, Changes

\* A pass takes its copy from the cache, or keeps it, or has the reply to a
\* write.
LEMMA LiveCopiesStep ==
    ASSUME ~OperatorActs, History, OwnInv, [Next]_vars
    PROVE  LiveCopies'
<1>1. ASSUME NEW v, Live(v) => stored.uid = v.uid /\ stored.finalizer, NoLiveCopy => ~Live(v)
      PROVE  Live(v) => stored'.uid = v.uid /\ stored'.finalizer
  <2>1. CASE UNCHANGED stored \/ IsRecorded \/ IsPublished \/ GetsRule \/ KeepsRecords
    BY <1>1, <2>1 DEF IsRecorded, IsPublished, GetsRule, KeepsRecords, KeepsCare
  <2>2. CASE Appears
    BY <1>1, <2>2 DEF Appears, History, BlankInv, Blank
  <2>3. CASE NoLiveCopy
    BY <1>1, <2>3
  <2>4. QED
    BY <2>1, <2>2, <2>3, FinalizerStays
<1>2. Live(stored') => stored'.uid = stored'.uid /\ stored'.finalizer
  BY DEF Live
<1>3. Live(cached) => stored'.uid = cached.uid /\ stored'.finalizer
  BY <1>1 DEF OwnInv, CareInv, LiveCopies, NoLiveCopy
<1>4. ASSUME NEW j \in DOMAIN watch
      PROVE  Live(watch[j]) => stored'.uid = watch[j].uid /\ stored'.finalizer
  BY <1>1 DEF OwnInv, CareInv, LiveCopies, NoLiveCopy
<1>5. QED
  BY <1>2, <1>3, <1>4, CopiesComeFrom DEF LiveCopies, History

\* The Update of addFinalizer leaves the copy with the finalizer.
LEMMA FinalizerIsAdded ==
    ASSUME History, AddFinalizer, ~UpdateConflicts(svc)
    PROVE  svc' = stored' /\ stored'.finalizer /\ stored'.lbId = svc.lbId
<1> DEFINE new == [svc EXCEPT !.finalizer = TRUE]
<1>1. svc \in Service
  BY Objects DEF History
<1>2. new \in Service /\ new.finalizer /\ new.lbId = svc.lbId
  BY <1>1 DEF Service
<1>3. svc' = stored' /\ Write(new)
  BY DEF AddFinalizer
<1> HIDE DEF new
<1>4. stored' = new \/ stored' = NextVersion(new)
  BY <1>3 DEF Write
<1>5. QED
  BY <1>2, <1>3, <1>4, NextVersionFields

\* The Service has the finalizer only if the cache has shown it.
LEMMA StaysSeen ==
    ASSUME ~OperatorActs, History, OwnInv, [Next]_vars
    PROVE  SeenByCache'
<1> SUFFICES ASSUME stored'.finalizer
             PROVE  cached'.uid = stored'.uid
  BY DEF SeenByCache
<1>1. /\ stored.uid # 0
      /\ stored'.uid = stored.uid
      /\ stored.finalizer \/ (AddFinalizer /\ ~UpdateConflicts(svc))
  BY FinalizerStays
  DEF Appears, Goes, Blank, IsRecorded, IsPublished, GetsRule, KeepsRecords, KeepsCare, History,
      BlankInv
<1>2. cached.uid = stored.uid
  <2>1. CASE stored.finalizer
    BY <2>1 DEF OwnInv, CareInv, SeenByCache
  <2>2. CASE AddFinalizer /\ ~UpdateConflicts(svc)
    <3>1. svc.rv = stored.rv /\ svc.rv <= cached.rv
      BY <2>2 DEF UpdateConflicts, AddFinalizer, OwnInv, CareInv, PassIsOnItsService
    <3>2. stored.rv \in Nat /\ cached.rv \in Nat
      BY Objects DEF History
    <3>3. cached = stored
      BY <3>1, <3>2 DEF History, VersionInv, CurrentWith
    <3>4. QED
      BY <3>3
  <2>3. QED
    BY <1>1, <2>1, <2>2
<1>3. \A j \in DOMAIN watch : watch[j].uid = stored.uid
  BY <1>1, <1>2 DEF OwnInv, LivesInOrder, Later
<1>4. QED
  BY <1>1, <1>2, <1>3, CopiesComeFrom DEF History

\* A deletion may be of an earlier Service, but then no copy shows the next one
\* in the controller's care.
LEMMA DeletesNothingLive ==
    ASSUME ~OperatorActs, History, OwnInv, [Next]_vars, pc' \in DeletePoints
    PROVE  NoLiveCopy' /\ (stored'.finalizer => stored'.deleting)
<1>1. CASE Begins
  <2>1. UNCHANGED <<stored, watch, cached>> /\ pc' = FirstStep(cached)
    BY <1>1 DEF Begins, Reconcile
  <2>2. cached.deleting
    BY <2>1 DEF FirstStep, Operation, DeletePoints
  <2>3. stored.finalizer => stored.uid # 0 /\ cached.uid = stored.uid
    BY DEF OwnInv, CareInv, SeenByCache, History, BlankInv, Blank
  <2>4. stored.finalizer => stored.deleting
    BY <2>2, <2>3 DEF OwnInv, LivesInOrder, Later
  <2>5. ASSUME NEW i \in DOMAIN watch, Live(watch[i])
        PROVE  FALSE
    <3>1. stored.finalizer
      BY <2>5 DEF OwnInv, CareInv, LiveCopies
    <3>2. Later(cached, watch[i])
      BY DEF OwnInv, LivesInOrder
    <3>3. QED
      BY <2>2, <2>3, <2>5, <3>1, <3>2 DEF Later, Live
  <2>6. QED
    BY <2>1, <2>2, <2>4, <2>5 DEF NoLiveCopy, Live
<1>2. CASE UNCHANGED reconcileVars \/ DeleteAdvances
  <2>1. pc \in DeletePoints
    BY <1>2 DEF DeleteAdvances, reconcileVars
  <2>2. NoLiveCopy /\ (stored.finalizer => stored.deleting)
    BY <2>1 DEF OwnInv, CareInv, PassIsOnItsService
  <2>3. ~AddFinalizer
    BY <2>1 DEF AddFinalizer, DeletePoints
  <2>4. stored'.finalizer => stored'.deleting
    BY <2>2, <2>3, FinalizerStays
    DEF Appears, Goes, Blank, IsRecorded, IsPublished, GetsRule, KeepsRecords, KeepsCare
  <2>5. QED
    BY <2>2, <2>4, CopiesComeFrom DEF NoLiveCopy, Live, History
<1>3. QED
  BY <1>1, <1>2, DeleteMoves

\* A pass that creates or updates is on the Service that is there.
LEMMA UpdatesWhatIsThere ==
    ASSUME ~OperatorActs, History, OwnInv, [Next]_vars,
           pc' \in LivePoints
    PROVE  stored'.uid = svc'.uid /\ stored'.finalizer
<1>1. CASE Begins
  <2>1. UNCHANGED stored /\ svc' = cached /\ pc' = FirstStep(cached)
    BY <1>1 DEF Begins, Reconcile
  <2>2. Live(cached)
    BY <2>1 DEF FirstStep, LivePoints, Live
  <2>3. QED
    BY <2>1, <2>2 DEF OwnInv, CareInv, LiveCopies
<1>2. CASE /\ pc \in LivePoints
           /\ svc' = svc \/ svc' = stored'
  <2>1. stored.uid = svc.uid /\ stored.finalizer
    BY <1>2 DEF OwnInv, CareInv, PassIsOnItsService
  <2>2. ~Appears
    BY <2>1 DEF Appears, History, BlankInv, Blank
  <2>3. stored'.uid = stored.uid /\ stored'.finalizer
    BY <1>2, <2>1, <2>2, FinalizerStays
    DEF IsRecorded, IsPublished, GetsRule, KeepsRecords, KeepsCare
  <2>4. QED
    BY <1>2, <2>1, <2>3
<1>3. CASE AddFinalizer /\ ~UpdateConflicts(svc)
  BY <1>3, FinalizerIsAdded
<1>4. QED
  BY <1>1, <1>2, <1>3, PassMoves DEF Advances, reconcileVars, locals, LivePoints, DeletePoints

\* The finalizer is put on a version the cache has shown.
LEMMA AddsToWhatItSaw ==
    ASSUME ~OperatorActs, History, OwnInv, [Next]_vars, pc' = "addFinalizer"
    PROVE  svc'.rv <= cached'.rv
<1>1. cached.rv \in Nat /\ svc.rv \in Nat /\ cached'.rv \in Nat
  <2>1. TypeInv'
    BY TypeStep DEF History
  <2>2. cached' \in Service
    BY <2>1 DEF TypeInv, TypeOK, KubeTypeOK
  <2>3. QED
    BY <2>2, Objects, ServiceFields DEF History
<1>2. cached.rv <= cached'.rv
  BY CacheMovesOn DEF History
<1>3. CASE Begins
  BY <1>1, <1>2, <1>3 DEF Begins
<1>4. CASE UNCHANGED reconcileVars
  <2>1. svc' = svc /\ svc.rv <= cached.rv
    BY <1>4 DEF reconcileVars, locals, OwnInv, CareInv, PassIsOnItsService
  <2>2. QED
    BY <1>1, <1>2, <2>1
<1>5. CASE Advances
  BY <1>5 DEF Advances, Operation, LivePoints, DeletePoints
<1>6. QED
  BY <1>3, <1>4, <1>5, PassMoves

LEMMA PassStaysOnItsService ==
    ASSUME ~OperatorActs, History, OwnInv, [Next]_vars
    PROVE  PassIsOnItsService'
BY AddsToWhatItSaw, UpdatesWhatIsThere, DeletesNothingLive DEF PassIsOnItsService

\* An id is recorded on a Service that has the finalizer.
LEMMA RecordedStaysHeld ==
    ASSUME ~OperatorActs, History, OwnInv, [Next]_vars
    PROVE  RecordedIsHeld'
<1>1. CASE UNCHANGED stored \/ IsPublished \/ GetsRule \/ KeepsRecords
  BY <1>1
  DEF OwnInv, CareInv, RecordedIsHeld, IsPublished, GetsRule, KeepsRecords, KeepsCare, KeepsId
<1>2. CASE IsRecorded
  <2>1. pc \in LivePoints
    BY <1>2 DEF IsRecorded, RecordLoadBalancer, LivePoints
  <2>2. QED
    BY <1>2, <2>1 DEF IsRecorded, KeepsCare, OwnInv, CareInv, PassIsOnItsService, RecordedIsHeld
<1>3. CASE Appears \/ Goes
  BY <1>3 DEF Appears, Goes, Blank, RecordedIsHeld
<1>4. QED
  BY <1>1, <1>2, <1>3, FinalizerStays

\* How a pass gets the load balancer it has in hand.
LEMMA LbInHandMoves ==
    ASSUME [Next]_vars, pc' \in {"wait", "record", "publish"}
    PROVE  \/ UNCHANGED reconcileVars
           \/ /\ pc \in {"wait", "record"} /\ Advances
              /\ lb' = lb
           \/ LookUp /\ lb' \in LoadBalancersNamed(svc.uid) /\ svc' = svc
           \/ CreateLoadBalancer
<1>1. /\ \A retry : ~Finish(retry)
      /\ \A point : Goto(point) => pc' = point
  <2>1. pc' # "idle"
    OBVIOUS
  <2>2. QED
    BY <2>1 DEF Finish, DropLocals, Goto
<1>2. CASE LookUp
  BY <1>1, <1>2 DEF LookUp, findExistingLoadBalancer
<1>3. CASE WaitForOperation
  BY <1>1, <1>3 DEF WaitForOperation, Advances, LivePoints
<1>4. CASE RecordLoadBalancer
  BY <1>1, <1>4 DEF RecordLoadBalancer, Patch, Advances, LivePoints
<1>5. CASE Reconcile
  BY <1>5, ReconcileMoves DEF Begins, FirstStep, Operation
<1>6. ASSUME Worker, ~Reconcile, ~LookUp, ~CreateLoadBalancer, ~WaitForOperation,
             ~RecordLoadBalancer
      PROVE  FALSE
  BY <1>1, <1>6
  DEF Worker, AddFinalizer, Operation, HandleCreate, CreateRefused, SetLoadBalancerIngress,
      EnsureLoadBalancerIngress, RestoreIngress, UpdateLoadBalancer, EnsureFirewallRule,
      NoFirewallRuleWanted, CheckFirewallRule, ResolveOperation, PatchFirewallRule,
      AdoptFirewallRule, RecordRule, RecordAdoptedRule, PatchAndFinish, CreateFirewallRule,
      RecordOperation, DeleteFirewallRule, FindRule, DeleteRule, ClearRule, DeleteLoadBalancer,
      RemoveFinalizer
<1>7. ASSUME CallFails \/ Crash
      PROVE  FALSE
  BY <1>1, <1>7 DEF CallFails, Crash, DropLocals
<1>8. CASE \/ User \/ DeliverEvent \/ Timer \/ NodeChanges
           \/ \E i \in 1..MaxLbs : LbProgress(i)
           \/ \E o \in 1..MaxOps : FwProgress(o)
           \/ CloudFault \/ OperatorRemoves \/ OperatorReleases \/ HoldExpires
           \/ UNCHANGED vars
  BY <1>8 DEF User, DeliverEvent, Timer, NodeChanges, LbProgress, FwProgress, CloudFault,
              OperatorRemoves, OperatorReleases, HoldExpires, vars, reconcileVars
<1>9. QED
  BY <1>2, <1>3, <1>4, <1>5, <1>6, <1>7, <1>8 DEF Next

\* The same of the firewall rule.
LEMMA RuleInHandMoves ==
    ASSUME [Next]_vars, pc' \in {"recordRule", "recordAdopted", "recordOperation"}
    PROVE  \/ UNCHANGED reconcileVars
           \/ /\ pc' = "recordRule"
              /\ svc' = svc /\ rule' = svc.opId /\ svc.opId # 0 /\ UNCHANGED fws
           \/ /\ pc' = "recordAdopted"
              /\ svc' = svc /\ rule' \in RulesNamed(svc.uid) /\ UNCHANGED fws
           \/ /\ pc' = "recordOperation"
              /\ svc' = svc /\ CreateFirewallRule
<1>1. /\ \A retry : ~Finish(retry)
      /\ \A point : Goto(point) => pc' = point
  <2>1. pc' # "idle"
    OBVIOUS
  <2>2. QED
    BY <2>1 DEF Finish, DropLocals, Goto
<1>2. CASE EnsureFirewallRule
  BY <1>1, <1>2 DEF EnsureFirewallRule, NoFirewallRuleWanted, CheckFirewallRule,
                    ResolveOperation, cloudVars
<1>3. CASE AdoptFirewallRule
  BY <1>1, <1>3 DEF AdoptFirewallRule, cloudVars
<1>4. CASE CreateFirewallRule
  BY <1>1, <1>4 DEF CreateFirewallRule
<1>5. CASE Reconcile
  BY <1>5, ReconcileMoves DEF Begins, FirstStep, Operation
<1>6. ASSUME Worker, ~Reconcile, ~EnsureFirewallRule, ~AdoptFirewallRule, ~CreateFirewallRule
      PROVE  FALSE
  BY <1>1, <1>6
  DEF Worker, AddFinalizer, Operation, HandleCreate, LookUp, CreateLoadBalancer, CreateRefused,
      WaitForOperation, RecordLoadBalancer, SetLoadBalancerIngress, EnsureLoadBalancerIngress,
      RestoreIngress, UpdateLoadBalancer, PatchFirewallRule, RecordRule, RecordAdoptedRule,
      PatchAndFinish, RecordOperation, DeleteFirewallRule, FindRule, DeleteRule, ClearRule,
      DeleteLoadBalancer, RemoveFinalizer
<1>7. ASSUME CallFails \/ Crash
      PROVE  FALSE
  BY <1>1, <1>7 DEF CallFails, Crash, DropLocals
<1>8. CASE \/ User \/ DeliverEvent \/ Timer \/ NodeChanges
           \/ \E i \in 1..MaxLbs : LbProgress(i)
           \/ \E o \in 1..MaxOps : FwProgress(o)
           \/ CloudFault \/ OperatorRemoves \/ OperatorReleases \/ HoldExpires
           \/ UNCHANGED vars
  BY <1>8 DEF User, DeliverEvent, Timer, NodeChanges, LbProgress, FwProgress, CloudFault,
              OperatorRemoves, OperatorReleases, HoldExpires, vars, reconcileVars
<1>9. QED
  BY <1>2, <1>3, <1>4, <1>5, <1>6, <1>7, <1>8 DEF Next

\* A created load balancer or rule is the Service's.
LEMMA CreatedIsOwn ==
    ASSUME TypeInv
    PROVE  /\ CreateLoadBalancer => /\ svc' = svc /\ lb' \in 1..MaxLbs
                                    /\ lbs[lb'].op = "unused"
                                    /\ lbs'[lb'].op # "unused" /\ lbs'[lb'].owner = svc.uid
           /\ CreateFirewallRule /\ pc' = "recordOperation" =>
                 /\ rule' \in 1..MaxOps
                 /\ fws'[rule'].op = "IN_PROGRESS" /\ fws'[rule'].owner = svc.uid
<1>1. lbs \in [1..MaxLbs -> LoadBalancer] /\ fws \in [1..MaxOps -> FirewallRule]
  BY Objects
<1>2. ASSUME CreateLoadBalancer
      PROVE  /\ svc' = svc /\ lb' \in 1..MaxLbs
             /\ lbs[lb'].op = "unused"
             /\ lbs'[lb'].op # "unused" /\ lbs'[lb'].owner = svc.uid
  BY <1>1, <1>2 DEF CreateLoadBalancer, AcceptLoadBalancer, NextLoadBalancerId
<1>3. ASSUME CreateFirewallRule, pc' = "recordOperation"
      PROVE  /\ rule' \in 1..MaxOps
             /\ fws'[rule'].op = "IN_PROGRESS" /\ fws'[rule'].owner = svc.uid
  <2> DEFINE new(s) == [NoFirewallRule EXCEPT
                           !.owner = s.uid, !.op = "IN_PROGRESS", !.late = stored.deleting,
                           !.blind = MissesRecord(s),
                           !.ports = argsOf(s).destinationPorts,
                           !.protocols = argsOf(s).protocols]
  <2>1. PICK o \in 1..MaxOps : fws' = [fws EXCEPT ![o] = new(svc)] /\ rule' = o
    BY <1>3 DEF CreateFirewallRule, AcceptFirewallRule, NextOperationId, Finish, DropLocals
  <2>2. new(svc).owner = svc.uid /\ new(svc).op = "IN_PROGRESS"
    BY DEF NoFirewallRule
  <2> HIDE DEF new
  <2>3. QED
    BY <1>1, <2>1, <2>2
<1>4. QED
  BY <1>2, <1>3

\* A pass that creates or updates is on the Service that is there, if any is.
LEMMA OnNoOtherService ==
    ASSUME NoSuccessor, History, OwnInv, pc \in LivePoints
    PROVE  stored.uid \in {0, svc.uid}
<1>1. CASE ~OperatorActs
  BY <1>1 DEF OwnInv, CareInv, PassIsOnItsService
<1>2. CASE MaxUid <= 1
  <2>1. stored.uid \in 0..MaxUid /\ svc.uid \in 0..MaxUid
    BY Objects, ServiceFields DEF History
  <2>2. svc.uid # 0
    BY DEF History, BlankInv, LivePoints
  <2>3. QED
    BY <1>2, <2>1, <2>2, BoundsType
<1>3. QED
  BY <1>1, <1>2 DEF NoSuccessor

\* Its copy stays one of that Service.
LEMMA StaysOnIt ==
    ASSUME NoSuccessor, History, OwnInv, [Next]_vars, pc \in LivePoints, Advances,
           ~UNCHANGED reconcileVars
    PROVE  svc'.uid = svc.uid
<1>1. stored'.uid = stored.uid
  BY AdvanceKeepsUid DEF History
<1>2. stored.uid \in {0, svc.uid}
  BY OnNoOtherService
<1>3. ~UpdateConflicts(svc) => svc = stored
  BY DEF UpdateConflicts, History, VersionInv, CurrentWith
<1>4. QED
  BY <1>1, <1>2, <1>3 DEF Advances, Exists

LEMMA HandStaysOwn ==
    ASSUME NoSuccessor, History, OwnInv, [Next]_vars
    PROVE  HandOwn'
<1>1. lb \in 0..MaxLbs /\ rule \in 0..MaxOps /\ svc.opId \in 0..MaxOps /\ TypeInv
  BY Objects, ServiceFields DEF History
<1>2. \A o \in 0..MaxOps : o # 0 => o \in 1..MaxOps
  BY BoundsType
<1>3. ASSUME pc' \in {"wait", "record", "publish"}
      PROVE  lbs'[lb'].op # "unused" /\ lbs'[lb'].owner = svc'.uid
  <2>1. CASE /\ pc \in {"wait", "record", "publish"} /\ lb' = lb
             /\ svc'.uid = svc.uid
    <3>1. lb \in 1..MaxLbs
      BY <1>1, <2>1, NonzeroId DEF TypeInv, PassIsSound
    <3>2. lbs[lb].op # "unused" /\ lbs[lb].owner = svc.uid
      BY <2>1 DEF OwnInv, HandOwn
    <3>3. QED
      BY <1>1, <2>1, <3>1, <3>2, UsedStays DEF OwnInv, SameMaker
  <2>2. CASE /\ pc \in {"wait", "record"} /\ lb' = lb
             /\ Advances /\ ~UNCHANGED reconcileVars
    <3>1. svc'.uid = svc.uid
      BY <2>2, StaysOnIt DEF LivePoints
    <3>2. QED
      BY <2>1, <2>2, <3>1
  <2>3. CASE LookUp /\ lb' \in LoadBalancersNamed(svc.uid) /\ svc' = svc
    <3>1. UNCHANGED lbs
      BY <2>3 DEF LookUp, cloudVars
    <3>2. QED
      BY <2>3, <3>1 DEF LoadBalancersNamed, OwnInv, FreshIds
  <2>4. CASE CreateLoadBalancer
    BY <1>1, <2>4, CreatedIsOwn
  <2>5. CASE UNCHANGED reconcileVars
    BY <1>3, <2>1, <2>5 DEF reconcileVars, locals
  <2>6. QED
    BY <1>3, <2>1, <2>2, <2>3, <2>4, <2>5, LbInHandMoves
<1>4. ASSUME pc' \in {"recordRule", "recordAdopted", "recordOperation"}
      PROVE  rule' # 0 /\ fws'[rule'].op # "unused" /\ fws'[rule'].owner = svc'.uid
  <2>1. CASE UNCHANGED reconcileVars
    <3>1. rule # 0 /\ fws[rule].op # "unused" /\ fws[rule].owner = svc.uid
      BY <1>4, <2>1 DEF reconcileVars, OwnInv, HandOwn
    <3>2. fws'[rule].op # "unused" /\ fws'[rule].owner = fws[rule].owner
      BY <1>1, <1>2, <3>1, UsedOperationStays
    <3>3. QED
      BY <2>1, <3>1, <3>2 DEF reconcileVars, locals
  <2>2. CASE svc' = svc /\ rule' = svc.opId /\ svc.opId # 0 /\ UNCHANGED fws
    BY <2>2 DEF OwnInv, CopiesOwn, OwnRecord
  <2>3. CASE svc' = svc /\ rule' \in RulesNamed(svc.uid) /\ UNCHANGED fws
    BY <2>3 DEF RulesNamed, OwnInv, FreshIds
  <2>4. CASE svc' = svc /\ CreateFirewallRule /\ pc' = "recordOperation"
    BY <1>1, <2>4, CreatedIsOwn
  <2>5. QED
    BY <1>4, <2>1, <2>2, <2>3, <2>4, RuleInHandMoves
<1>5. QED
  BY <1>3, <1>4 DEF HandOwn

LEMMA StoredStaysOwn ==
    ASSUME NoSuccessor, History, OwnInv, [Next]_vars
    PROVE  OwnRecord(stored)'
<1>1. stored \in Service /\ lb \in 0..MaxLbs /\ rule \in 0..MaxOps /\ TypeInv
  BY Objects DEF History
<1>2. OwnRecord(stored) /\ FreshIds
  BY DEF OwnInv, CopiesOwn
<1>3. /\ stored.lbId # 0 => /\ stored.uid # 0
                            /\ lbs'[stored.lbId].op # "unused"
                            /\ lbs'[stored.lbId].owner = stored.uid
                            /\ lbs'[stored.lbId].protocol = stored.protocol
      /\ stored.opId # 0 =>
            fws'[stored.opId].op # "unused" /\ fws'[stored.opId].owner = stored.uid
      /\ stored.ruleId # 0 =>
            fws'[stored.ruleId].op # "unused" /\ fws'[stored.ruleId].owner = stored.uid
  BY <1>1, <1>2, RecordStays DEF OwnRecord
<1>4. CASE UNCHANGED stored \/ LosesFinalizer \/ IsPublished \/ KeepsRecords
  BY <1>3, <1>4
  DEF LosesFinalizer, IsPublished, KeepsRecords, KeepsCare, KeepsId, KeepsRule, OwnRecord
<1>5. CASE Appears \/ Goes
  BY <1>5 DEF Appears, Goes, Blank, OwnRecord
<1>6. CASE IsRecorded
  <2>1. /\ pc = "record" /\ UNCHANGED cloudVars
        /\ stored'.uid = stored.uid /\ stored.uid # 0 /\ KeepsRule
        /\ stored'.lbId = lb /\ stored'.protocol = lbs[lb].protocol
    BY <1>6 DEF IsRecorded, RecordLoadBalancer, KeepsCare
  <2>2. lbs[lb].op # "unused" /\ lbs[lb].owner = svc.uid
    BY <2>1 DEF OwnInv, HandOwn
  <2>3. svc.uid = stored.uid
    BY <2>1, OnNoOtherService DEF LivePoints
  <2>4. QED
    BY <1>3, <2>1, <2>2, <2>3 DEF OwnRecord, KeepsRule, cloudVars
<1>7. CASE GetsRule
  <2>1. /\ KeepsId /\ stored'.uid = stored.uid
        /\ stored'.opId \in {0, stored.opId, rule}
        /\ stored'.ruleId \in {0, stored.ruleId, rule}
    BY <1>7 DEF GetsRule, KeepsCare
  <2>2. CASE KeepsRule
    BY <1>3, <2>1, <2>2 DEF KeepsId, KeepsRule, OwnRecord
  <2>3. CASE ClearRule
    <3>1. stored'.opId \in {0, stored.opId} /\ stored'.ruleId \in {0, stored.ruleId}
      BY <1>7, <2>3 DEF GetsRule
    <3>2. QED
      BY <1>3, <2>1, <3>1 DEF KeepsId, OwnRecord
  <2>4. CASE RecordRule \/ RecordAdoptedRule \/ RecordOperation
    <3>1. /\ pc \in {"recordRule", "recordAdopted", "recordOperation"}
          /\ UNCHANGED cloudVars
      BY <2>4 DEF RecordRule, RecordAdoptedRule, RecordOperation, PatchAndFinish
    <3>2. fws[rule].op # "unused" /\ fws[rule].owner = svc.uid
      BY <3>1 DEF OwnInv, HandOwn
    <3>3. svc.uid = stored.uid
      BY <1>7, <3>1, OnNoOtherService DEF GetsRule, KeepsCare, LivePoints
    <3>4. fws'[rule].op # "unused" /\ fws'[rule].owner = stored.uid
      BY <3>1, <3>2, <3>3 DEF cloudVars
    <3>5. QED
      BY <1>3, <2>1, <3>4 DEF KeepsId, OwnRecord
  <2>5. QED
    BY <1>7, <2>2, <2>3, <2>4 DEF GetsRule
<1>8. QED
  BY <1>4, <1>5, <1>6, <1>7, EveryChange DEF History, Changes

LEMMA CopiesStayOwn ==
    ASSUME NoSuccessor, History, OwnInv, [Next]_vars
    PROVE  CopiesOwn'
<1> DEFINE OwnNext(v) ==
      /\ v.lbId # 0 => /\ v.uid # 0
                       /\ lbs'[v.lbId].op # "unused"
                       /\ lbs'[v.lbId].owner = v.uid
                       /\ lbs'[v.lbId].protocol = v.protocol
      /\ v.opId # 0 => fws'[v.opId].op # "unused" /\ fws'[v.opId].owner = v.uid
      /\ v.ruleId # 0 => fws'[v.ruleId].op # "unused" /\ fws'[v.ruleId].owner = v.uid
<1>1. ASSUME NEW v \in Service, OwnRecord(v)
      PROVE  OwnNext(v)
  BY <1>1, RecordStays DEF History, OwnInv, OwnRecord
<1>2. /\ OwnNext(cached) /\ OwnNext(svc)
      /\ \A j \in DOMAIN watch : OwnNext(watch[j])
  <2>1. cached \in Service /\ svc \in Service /\ \A j \in DOMAIN watch : watch[j] \in Service
    BY Objects DEF History
  <2>2. /\ OwnRecord(cached) /\ OwnRecord(svc)
        /\ \A j \in DOMAIN watch : OwnRecord(watch[j])
    BY DEF OwnInv, CopiesOwn
  <2> HIDE DEF OwnNext
  <2>3. QED
    BY <1>1, <2>1, <2>2
<1>3. OwnNext(stored') /\ OwnNext(NoService(0))
  BY StoredStaysOwn DEF OwnRecord, NoService
<1> HIDE DEF OwnNext
<1>4. /\ OwnNext(stored') /\ OwnNext(cached') /\ OwnNext(svc')
      /\ \A i \in DOMAIN watch' : OwnNext(watch'[i])
  BY <1>2, <1>3, CopiesComeFrom DEF SvcIsSome, History
<1>5. QED
  BY <1>4 DEF CopiesOwn, OwnRecord, OwnNext

LEMMA OwnStep ==
    ASSUME NoSuccessor, History, OwnInv, [Next]_vars
    PROVE  OwnInv'
<1>1. ~OperatorActs => CareInv'
  BY LiveCopiesStep, StaysSeen, PassStaysOnItsService, RecordedStaysHeld DEF CareInv
<1>2. QED
  BY <1>1, CopiesStayOwn, HandStaysOwn, FreshStep, LivesStep DEF OwnInv, History

LEMMA OwnInit == Init => OwnInv
<1> SUFFICES ASSUME Init PROVE OwnInv
  OBVIOUS
<1>1. /\ stored = NoService(0) /\ cached = NoService(0) /\ svc = NoService(0)
      /\ watch = <<>> /\ pc = "idle"
  BY DEF Init, KubeInit, LocalsInit
<1>2. /\ NoService(0).lbId = 0 /\ NoService(0).opId = 0 /\ NoService(0).ruleId = 0
      /\ ~NoService(0).finalizer
  BY DEF NoService
<1>3. CopiesOwn
  BY <1>1, <1>2 DEF CopiesOwn, OwnRecord
<1>4. HandOwn /\ PassIsOnItsService
  BY <1>1 DEF HandOwn, PassIsOnItsService, LivePoints, DeletePoints
<1>5. LiveCopies /\ SeenByCache /\ RecordedIsHeld
  BY <1>1, <1>2 DEF LiveCopies, Live, SeenByCache, RecordedIsHeld
<1>6. QED
  BY <1>3, <1>4, <1>5, FreshInit, LivesInit DEF OwnInv, CareInv

(***************************************************************************)
(* The ids on a Service are those of its own load balancer and firewall    *)
(* rule, although the patches that write them carry neither a resource     *)
(* version nor a UID: a pass that creates or updates holds the finalizer   *)
(* of the Service it works on, and only a deletion outlives its Service,   *)
(* which records nothing.  Somebody who takes the finalizer off by hand    *)
(* can break this, once there is another Service of that name.             *)
(***************************************************************************)
THEOREM RecordsStayOwn ==
    ASSUME NoSuccessor
    PROVE  Spec => []RecordsAreOwn
<1> DEFINE Inv == History /\ OwnInv
<1>1. Init => Inv
  BY HistoryInit, OwnInit
<1>2. Inv /\ [Next]_vars => Inv'
  BY HistoryStep, OwnStep
<1>3. Inv => RecordsAreOwn
  BY DEF OwnInv, CopiesOwn, OwnRecord, RecordsAreOwn
<1>4. QED
  BY <1>1, <1>2, <1>3, PTL DEF Spec

-----------------------------------------------------------------------------
(* What is published is recorded *)

\* How a pass gets to the points from which an address is published.
LEMMA AddressMoves ==
    ASSUME [Next]_vars, pc' \in {"record", "publish", "handleUpdate", "restoreIngress"}
    PROVE  \/ UNCHANGED reconcileVars
           \/ pc' = "record" /\ vip' = lbs[lb'].vip /\ UNCHANGED lbs
           \/ /\ pc' = "publish" /\ RecordLoadBalancer /\ vip
              /\ lb' = lb /\ Write(WithLoadBalancer(stored, lb)) /\ UNCHANGED lbs
           \/ pc' = "handleUpdate" /\ Begins
           \/ /\ pc' = "handleUpdate" /\ AddFinalizer
              /\ ~UpdateConflicts(svc) /\ Operation(svc) = "handleUpdate"
           \/ /\ pc' = "restoreIngress" /\ pc = "handleUpdate"
              /\ svc' = svc /\ lbs[svc.lbId].vip /\ UNCHANGED lbs
<1>1. /\ \A retry : ~Finish(retry)
      /\ \A point : Goto(point) => pc' = point
  <2>1. pc' # "idle"
    OBVIOUS
  <2>2. QED
    BY <2>1 DEF Finish, DropLocals, Goto
<1>2. CASE Reconcile
  BY <1>2, ReconcileMoves DEF Begins, FirstStep, Operation
<1>3. CASE AddFinalizer
  BY <1>1, <1>3 DEF AddFinalizer, Operation
<1>4. CASE LookUp \/ WaitForOperation
  BY <1>1, <1>4 DEF LookUp, WaitForOperation, cloudVars
<1>5. CASE RecordLoadBalancer
  BY <1>1, <1>5 DEF RecordLoadBalancer, VipInHand, Patch, cloudVars
<1>6. CASE EnsureLoadBalancerIngress
  BY <1>1, <1>6 DEF EnsureLoadBalancerIngress, cloudVars
<1>7. ASSUME Worker, ~Reconcile, ~AddFinalizer, ~LookUp, ~WaitForOperation,
             ~RecordLoadBalancer, ~EnsureLoadBalancerIngress
      PROVE  FALSE
  BY <1>1, <1>7
  DEF Worker, HandleCreate, CreateLoadBalancer, CreateRefused, SetLoadBalancerIngress,
      RestoreIngress, UpdateLoadBalancer, EnsureFirewallRule, NoFirewallRuleWanted,
      CheckFirewallRule, ResolveOperation, PatchFirewallRule, AdoptFirewallRule, RecordRule,
      RecordAdoptedRule, PatchAndFinish, CreateFirewallRule, RecordOperation,
      DeleteFirewallRule, FindRule, DeleteRule, ClearRule, DeleteLoadBalancer, RemoveFinalizer
<1>8. ASSUME CallFails \/ Crash
      PROVE  FALSE
  BY <1>1, <1>8 DEF CallFails, Crash, DropLocals
<1>9. CASE \/ User \/ DeliverEvent \/ Timer \/ NodeChanges
           \/ \E i \in 1..MaxLbs : LbProgress(i)
           \/ \E o \in 1..MaxOps : FwProgress(o)
           \/ CloudFault \/ OperatorRemoves \/ OperatorReleases \/ HoldExpires
           \/ UNCHANGED vars
  BY <1>9 DEF User, DeliverEvent, Timer, NodeChanges, LbProgress, FwProgress, CloudFault,
              OperatorRemoves, OperatorReleases, HoldExpires, vars, reconcileVars
<1>10. QED
  BY <1>2, <1>3, <1>4, <1>5, <1>6, <1>7, <1>8, <1>9 DEF Next

LEMMA NoLaterUidStep ==
    ASSUME History, OwnInv, NoLaterUid, [Next]_vars
    PROVE  NoLaterUid'
<1>1. /\ uids \in Nat /\ uids' \in Nat /\ uids <= uids'
      /\ svc.uid \in Nat /\ cached.uid \in Nat
  <2>1. svc \in Service /\ cached \in Service /\ uids \in 0..MaxUid
    BY Objects DEF History
  <2>2. svc.uid \in 0..MaxUid /\ cached.uid \in 0..MaxUid
    BY <2>1, ServiceFields
  <2>3. QED
    BY <2>1, <2>2, LifeGoesOn, BoundsType DEF OwnInv
<1>2. NoService(0).uid = 0
  BY DEF NoService
<1>3. svc'.uid <= uids'
  <2>1. cached.uid <= uids /\ stored'.uid <= uids' /\ svc.uid <= uids
    BY LivesStep DEF OwnInv, LivesInOrder, NoLaterUid
  <2>2. QED
    BY <1>1, <1>2, <2>1, CopiesComeFrom DEF SvcIsSome, History
<1>4. ASSUME NEW i \in 1..MaxLbs
      PROVE  lbs'[i].owner <= uids'
  <2>1. lbs[i] \in LoadBalancer
    BY Objects DEF History
  <2>2. lbs[i].owner \in Nat
    <3>1. lbs[i].owner \in 0..MaxUid
      BY <2>1 DEF LoadBalancer
    <3>2. QED
      BY <3>1, BoundsType
  <2>3. lbs[i].owner <= uids'
    BY <1>1, <2>2 DEF NoLaterUid
  <2>4. svc.uid <= uids'
    BY <1>1 DEF NoLaterUid
  <2>5. lbs'[i].owner \in {lbs[i].owner, svc.uid}
    BY EachLoadBalancer
    DEF LbKept, LbSettled, LbGotVip, LbRemoved, LbCreated, SameMaker, History
  <2>6. QED
    BY <2>3, <2>4, <2>5
<1>5. QED
  BY <1>3, <1>4 DEF NoLaterUid

LEMMA IdIsFinalStep ==
    ASSUME History, NotYetRecorded, OwnInv, NoLaterUid, IdIsFinal, [Next]_vars
    PROVE  IdIsFinal'
<1>1. ASSUME NEW v \in Service, v.uid <= uids, OwnRecord(v),
             v.uid = stored.uid /\ v.lbId # 0 => v.lbId = stored.lbId
      PROVE  v.uid = stored'.uid /\ v.lbId # 0 => v.lbId = stored'.lbId
  <2>1. v.uid \in Nat /\ uids \in Nat
    <3>1. v.uid \in 0..MaxUid /\ uids \in 0..MaxUid
      BY ServiceFields, Objects DEF History
    <3>2. QED
      BY <3>1, BoundsType
  <2>2. v.uid # uids + 1
    BY <1>1, <2>1
  <2>3. v.lbId # 0 => v.uid # 0
    BY <1>1 DEF OwnRecord
  <2>4. QED
    BY <1>1, <2>2, <2>3, LifeGoesOn, IdStays DEF OwnInv
<1>2. /\ cached \in Service /\ svc \in Service
      /\ \A j \in DOMAIN watch : watch[j] \in Service
  BY Objects DEF History
<1>3. cached.uid = stored'.uid /\ cached.lbId # 0 => cached.lbId = stored'.lbId
  BY <1>1, <1>2 DEF OwnInv, LivesInOrder, CopiesOwn, IdIsFinal
<1>4. svc.uid = stored'.uid /\ svc.lbId # 0 => svc.lbId = stored'.lbId
  BY <1>1, <1>2 DEF OwnInv, NoLaterUid, CopiesOwn, IdIsFinal
<1>5. \A j \in DOMAIN watch :
         watch[j].uid = stored'.uid /\ watch[j].lbId # 0 => watch[j].lbId = stored'.lbId
  BY <1>1, <1>2 DEF OwnInv, LivesInOrder, CopiesOwn, IdIsFinal
<1>6. NoService(0).lbId = 0
  BY DEF NoService
<1>7. QED
  BY <1>3, <1>4, <1>5, <1>6, CopiesComeFrom DEF SvcIsSome, IdIsFinal, History

-----------------------------------------------------------------------------
(* Without the fresh read *)

\* What has been created does not come up again.
LEMMA UsedIsNotBroughtUp ==
    ASSUME CreationInv, FreshIds, [Next]_vars, NEW i \in 1..MaxLbs,
           lbs[i].op # "unused", lbs'[i].up
    PROVE  lbs[i].up
BY EachLoadBalancer
DEF LbKept, LbSettled, LbGotVip, LbRemoved, LbCreated, CreationInv, InProgressIsUp

LEMMA HandStaysOnly ==
    ASSUME NoSuccessor, History, CreationInv, OwnInv, HandIsOnly, [Next]_vars
    PROVE  HandIsOnly'
<1> SUFFICES ASSUME pc' \in {"wait", "record", "publish"}, NEW i \in 1..MaxLbs,
                    lbs'[i].up, lbs'[i].owner = svc'.uid
             PROVE  i = lb'
  BY DEF HandIsOnly, LoadBalancersNamed
<1>1. CASE /\ pc \in {"wait", "record", "publish"}
           /\ lb' = lb /\ svc'.uid = svc.uid
  <2>1. ~CreateLoadBalancer
    BY <1>1 DEF CreateLoadBalancer
  <2>2. lbs[i].up /\ lbs[i].owner = svc.uid
    BY <1>1, <2>1, OthersBringUpNone DEF BringsUpNone
  <2>3. QED
    BY <1>1, <2>2 DEF HandIsOnly, LoadBalancersNamed
<1>2. CASE pc \in {"wait", "record"} /\ lb' = lb /\ Advances /\ ~UNCHANGED reconcileVars
  <2>1. svc'.uid = svc.uid
    BY <1>2, StaysOnIt DEF LivePoints
  <2>2. QED
    BY <1>1, <1>2, <2>1
<1>3. CASE LookUp /\ lb' \in LoadBalancersNamed(svc.uid) /\ svc' = svc
  <2>1. UNCHANGED lbs /\ svc.uid # 0
    BY <1>3 DEF LookUp, cloudVars, History, BlankInv
  <2>2. svc.uid \in 1..MaxUid
    <3>1. svc.uid \in 0..MaxUid
      BY Objects, ServiceFields DEF History
    <3>2. QED
      BY <2>1, <3>1, BoundsType
  <2>3. i \in LoadBalancersNamed(svc.uid)
    BY <1>3, <2>1 DEF LoadBalancersNamed
  <2>4. QED
    BY <1>3, <2>2, <2>3 DEF CreationInv, AtMostOneLoadBalancer
<1>4. CASE CreateLoadBalancer
  <2>1. \A j \in 1..MaxLbs : j # lb' => lbs'[j] = lbs[j]
    BY <1>4, Objects DEF CreateLoadBalancer, AcceptLoadBalancer, History
  <2>2. LoadBalancersNamed(svc.uid) = {} /\ svc' = svc
    BY <1>4 DEF CreateLoadBalancer, CreationInv, NoneBeforeCreate
  <2>3. QED
    BY <2>1, <2>2 DEF LoadBalancersNamed
<1>5. CASE UNCHANGED reconcileVars
  BY <1>1, <1>5 DEF reconcileVars, locals
<1>6. QED
  BY <1>1, <1>2, <1>3, <1>4, <1>5, LbInHandMoves

\* An owner is not replaced, and the next Service has nothing yet.
LEMMA OwnerWasThere ==
    ASSUME ~OperatorActs, History, OwnInv, NoLaterUid, [Next]_vars, NEW i \in 1..MaxLbs,
           stored'.uid # 0, lbs'[i].owner = stored'.uid
    PROVE  /\ stored'.uid = stored.uid
           /\ lbs[i].owner = stored.uid \/ LbCreated(i)
<1>1. uids \in Nat /\ svc.uid <= uids /\ lbs[i].owner <= uids
  <2>1. uids \in 0..MaxUid
    BY Objects DEF History
  <2>2. QED
    BY <2>1, BoundsType DEF NoLaterUid
<1>2. lbs'[i].owner = lbs[i].owner \/ (LbCreated(i) /\ lbs'[i].owner = svc.uid)
  BY EachLoadBalancer
  DEF LbKept, LbSettled, LbGotVip, LbRemoved, LbCreated, SameMaker, History
<1>3. stored'.uid <= uids
  BY <1>1, <1>2
<1>4. stored'.uid # uids + 1
  <2>1. stored'.uid \in Nat
    <3>1. stored'.uid \in {0, uids + 1, stored.uid} /\ stored.uid \in 0..MaxUid
      BY LifeGoesOn, Objects, ServiceFields DEF History, OwnInv
    <3>2. QED
      BY <1>1, <3>1, BoundsType
  <2>2. QED
    BY <1>1, <1>3, <2>1
<1>5. QED
  BY <1>2, <1>4, LifeGoesOn DEF OwnInv

LEMMA OwnersStayHeld ==
    ASSUME ~OperatorActs, History, OwnInv, NoLaterUid, OwnersAreHeld, [Next]_vars
    PROVE  OwnersAreHeld'
<1> SUFFICES ASSUME NEW i \in 1..MaxLbs, stored'.uid # 0, lbs'[i].owner = stored'.uid
             PROVE  stored'.finalizer
  BY DEF OwnersAreHeld
<1>1. stored'.uid = stored.uid /\ (lbs[i].owner = stored.uid \/ LbCreated(i))
  BY OwnerWasThere
<1>2. stored.finalizer
  <2>1. LbCreated(i) => pc \in LivePoints
    BY DEF LbCreated, CreateLoadBalancer, LivePoints
  <2>2. QED
    BY <1>1, <2>1 DEF OwnersAreHeld, OwnInv, CareInv, PassIsOnItsService
<1>3. ~Appears /\ ~Goes
  BY <1>1 DEF Appears, Goes, Blank
<1>4. QED
  BY <1>2, <1>3, FinalizerStays DEF IsRecorded, IsPublished, GetsRule, KeepsRecords, KeepsCare

LEMMA VipStaysUp ==
    ASSUME ~OperatorActs, History, CreationInv, OwnInv, NoLaterUid, OwnersAreHeld, VipIsUp,
           AddsToNoDeletion, [Next]_vars
    PROVE  VipIsUp'
<1> SUFFICES ASSUME NEW i \in 1..MaxLbs, lbs'[i].vip, ~lbs'[i].up,
                    stored'.uid # 0, lbs'[i].owner = stored'.uid
             PROVE  stored'.deleting /\ NoLiveCopy' /\ pc' \notin LivePoints
  BY DEF VipIsUp
<1>1. ~LbCreated(i)
  BY DEF LbCreated
<1>2. stored'.uid = stored.uid /\ lbs[i].owner = stored.uid /\ stored.uid # 0
  BY <1>1, OwnerWasThere
<1>3. (lbs[i].vip /\ ~lbs[i].up) \/ DeleteLoadBalancer
  <2>1. ~LbSettled(i) /\ ~LbGotVip(i)
    BY DEF LbSettled, LbGotVip, CreationInv, InProgressIsUp, OwnInv, FreshIds
  <2>2. LbRemoved(i) => DeleteLoadBalancer
    BY DEF LbRemoved, OperatorRemoves
  <2>3. QED
    BY <1>1, <2>1, <2>2, EachLoadBalancer DEF LbKept, History
<1>4. stored.deleting /\ NoLiveCopy /\ pc \notin LivePoints
  <2>1. CASE lbs[i].vip /\ ~lbs[i].up
    BY <1>2, <2>1 DEF VipIsUp
  <2>2. CASE DeleteLoadBalancer
    <3>1. pc \in DeletePoints /\ pc \notin LivePoints
      BY <2>2 DEF DeleteLoadBalancer, DeletePoints, LivePoints
    <3>2. QED
      BY <1>2, <3>1 DEF OwnersAreHeld, OwnInv, CareInv, PassIsOnItsService
  <2>3. QED
    BY <1>3, <2>1, <2>2
<1>5. stored'.deleting
  BY <1>2, <1>4, EveryChange
  DEF History, Changes, Appears, Goes, Blank, LosesFinalizer, IsRecorded, IsPublished, GetsRule,
      KeepsRecords, KeepsCare
<1>6. NoLiveCopy'
  BY <1>4, <1>5, CopiesComeFrom DEF NoLiveCopy, Live, History
<1>7. pc' \notin LivePoints
  <2>1. CASE Begins
    BY <1>4, <2>1 DEF Begins, FirstStep, NoLiveCopy, Live, LivePoints
  <2>2. CASE Advances
    <3>1. ~(AddFinalizer /\ ~UpdateConflicts(svc))
      BY <1>4 DEF AddFinalizer, AddsToNoDeletion, UpdateConflicts, History, VersionInv,
                  CurrentWith
    <3>2. QED
      BY <1>4, <2>2, <3>1 DEF Advances, LivePoints, DeletePoints
  <2>3. QED
    BY <1>4, <2>1, <2>2, PassMoves DEF reconcileVars, LivePoints
<1>8. QED
  BY <1>5, <1>6, <1>7

LEMMA CopiesStayAgreed ==
    ASSUME ~OperatorActs, History, CreationInv, OwnInv, NoLaterUid, HandIsOnly, CopiesAgree,
           [Next]_vars
    PROVE  CopiesAgree'
<1> DEFINE AgreesNext(v) ==
             v.uid = stored'.uid /\ v.lbId # 0 =>
                 /\ stored'.lbId # 0
                 /\ lbs'[v.lbId].up => v.lbId = stored'.lbId
<1>1. ASSUME NEW v \in Service, v.uid <= uids, OwnRecord(v), Agrees(v)
      PROVE  AgreesNext(v)
  <2> SUFFICES ASSUME v.uid = stored'.uid, v.lbId # 0
               PROVE  /\ stored'.lbId # 0
                      /\ lbs'[v.lbId].up => v.lbId = stored'.lbId
    OBVIOUS
  <2>1. v.uid \in Nat /\ uids \in Nat
    <3>1. v.uid \in 0..MaxUid /\ uids \in 0..MaxUid
      BY ServiceFields, Objects DEF History
    <3>2. QED
      BY <3>1, BoundsType
  <2>2. v.uid # uids + 1
    BY <1>1, <2>1
  <2>3. /\ v.uid # 0 /\ v.lbId \in 1..MaxLbs
        /\ lbs[v.lbId].op # "unused" /\ lbs[v.lbId].owner = v.uid
    BY <1>1, ServiceFields, NonzeroId DEF OwnRecord
  <2>4. stored.uid = v.uid
    BY <2>2, <2>3, LifeGoesOn DEF OwnInv
  <2>5. lbs'[v.lbId].up => lbs[v.lbId].up
    BY <2>3, UsedIsNotBroughtUp DEF OwnInv
  <2>6. CASE stored'.lbId = stored.lbId
    BY <1>1, <2>4, <2>5, <2>6 DEF Agrees
  <2>7. CASE IsRecorded
    <3>1. pc = "record" /\ stored'.lbId = lb /\ lb # 0
      BY <2>7 DEF IsRecorded, RecordLoadBalancer, History, TypeInv, PassIsSound
    <3>2. svc.uid = stored.uid
      BY <3>1 DEF OwnInv, CareInv, PassIsOnItsService, LivePoints
    <3>3. lbs[v.lbId].up => v.lbId = lb
      BY <2>3, <2>4, <3>1, <3>2 DEF HandIsOnly, LoadBalancersNamed
    <3>4. QED
      BY <2>5, <3>1, <3>3
  <2>8. QED
    BY <2>3, <2>4, <2>6, <2>7, EveryChange
    DEF History, Changes, Appears, Goes, Blank, LosesFinalizer, IsPublished, GetsRule,
        KeepsRecords, KeepsId
<1>2. /\ cached \in Service /\ svc \in Service
      /\ \A j \in DOMAIN watch : watch[j] \in Service
  BY Objects DEF History
<1>3. /\ AgreesNext(cached) /\ AgreesNext(svc)
      /\ \A j \in DOMAIN watch : AgreesNext(watch[j])
  <2> HIDE DEF AgreesNext
  <2>1. QED
    BY <1>1, <1>2 DEF OwnInv, NoLaterUid, LivesInOrder, CopiesOwn, CopiesAgree
<1>4. AgreesNext(stored') /\ AgreesNext(NoService(0))
  BY DEF NoService
<1> HIDE DEF AgreesNext
<1>5. /\ AgreesNext(cached') /\ AgreesNext(svc')
      /\ \A i \in DOMAIN watch' : AgreesNext(watch'[i])
  BY <1>3, <1>4, CopiesComeFrom DEF SvcIsSome, History
<1>6. QED
  BY <1>5 DEF CopiesAgree, Agrees, AgreesNext

LEMMA AddsStep ==
    ASSUME AddsToNoDeletion, [Next]_vars
    PROVE  AddsToNoDeletion'
<1> SUFFICES ASSUME pc' = "addFinalizer"
             PROVE  ~svc'.deleting
  BY DEF AddsToNoDeletion
<1>1. CASE Begins
  BY <1>1 DEF Begins, FirstStep
<1>2. CASE UNCHANGED reconcileVars
  BY <1>2 DEF reconcileVars, locals, AddsToNoDeletion
<1>3. ~Advances
  BY DEF Advances, Operation, LivePoints, DeletePoints
<1>4. QED
  BY <1>1, <1>2, <1>3, PassMoves

\* Both ways the pass has the recorded id in hand.
LEMMA PassHandAgrees ==
    ASSUME History, OwnInv, AddressInv
    PROVE  HandAgrees
<1>1. CASE OperatorActs
  BY <1>1 DEF AddressInv, NotYetRecorded, IdIsFinal, PublishesRecorded, ExternalIPIsRecorded,
              HandAgrees
<1>2. ASSUME ~OperatorActs, NEW i \in 0..MaxLbs, i # 0, lbs[i].vip, lbs[i].owner = stored.uid,
             pc \in LivePoints
      PROVE  lbs[i].up
  <2>1. i \in 1..MaxLbs /\ stored.uid # 0
    BY <1>2, NonzeroId DEF OwnInv, CareInv, PassIsOnItsService, History, BlankInv, LivePoints
  <2>2. QED
    BY <1>2, <2>1 DEF AddressInv, OnlyOneIsUp, VipIsUp
<1>3. stored.lbId \in 0..MaxLbs /\ svc.lbId \in 0..MaxLbs
  BY Objects, ServiceFields DEF History
<1>4. ASSUME ~OperatorActs, pc = "record", stored.ip # 0
      PROVE  stored.lbId = lb
  <2>1. pc \in LivePoints /\ svc.uid = stored.uid
    BY <1>4 DEF OwnInv, CareInv, PassIsOnItsService, LivePoints
  <2>2. stored.lbId # 0 /\ lbs[stored.lbId].vip /\ lbs[stored.lbId].owner = stored.uid
    BY <1>4 DEF AddressInv, PublishesRecorded, ExternalIPIsRecorded, OwnInv, CopiesOwn, OwnRecord
  <2>3. lbs[stored.lbId].up
    BY <1>2, <1>3, <1>4, <2>1, <2>2
  <2>4. QED
    BY <1>3, <1>4, <2>1, <2>2, <2>3, NonzeroId
    DEF AddressInv, OnlyOneIsUp, HandIsOnly, LoadBalancersNamed
<1>5. ASSUME ~OperatorActs, pc = "restoreIngress", stored.uid = svc.uid
      PROVE  svc.lbId = stored.lbId
  <2>1. svc.lbId # 0 /\ lbs[svc.lbId].vip /\ lbs[svc.lbId].owner = stored.uid
    BY <1>5 DEF AddressInv, PublishesRecorded, OwnInv, CopiesOwn, OwnRecord
  <2>2. lbs[svc.lbId].up
    BY <1>2, <1>3, <1>5, <2>1 DEF LivePoints
  <2>3. QED
    BY <1>5, <2>1, <2>2 DEF AddressInv, OnlyOneIsUp, CopiesAgree, Agrees
<1>6. QED
  BY <1>1, <1>4, <1>5 DEF HandAgrees

-----------------------------------------------------------------------------
(* The address *)

\* A VIP is never lost.
LEMMA VipStays ==
    ASSUME TypeInv, FreshIds, [Next]_vars, NEW i \in 1..MaxLbs, lbs[i].vip
    PROVE  lbs'[i].vip
BY UsedStays DEF FreshIds

LEMMA AddressStays ==
    ASSUME NoSuccessor, History, OwnInv, AddressInv, [Next]_vars
    PROVE  ExternalIPIsRecorded'
<1> SUFFICES ASSUME stored'.ip # 0
             PROVE  stored'.ip = stored'.lbId /\ lbs'[stored'.ip].vip
  BY DEF ExternalIPIsRecorded
<1>1. /\ stored.ip \in 0..MaxLbs /\ svc.lbId \in 0..MaxLbs /\ lb \in 0..MaxLbs
      /\ TypeInv /\ FreshIds
  BY Objects, ServiceFields DEF History, OwnInv
<1>2. ASSUME NEW i \in 0..MaxLbs, i # 0, lbs[i].vip
      PROVE  lbs'[i].vip
  BY <1>1, <1>2, NonzeroId, VipStays
<1>3. CASE stored'.ip = stored.ip /\ stored'.lbId = stored.lbId
  BY <1>1, <1>2, <1>3 DEF AddressInv, PublishesRecorded, ExternalIPIsRecorded
<1>4. CASE Appears \/ Goes
  BY <1>4 DEF Appears, Goes, Blank
<1>5. CASE IsRecorded
  BY <1>3, <1>5, PassHandAgrees DEF IsRecorded, RecordLoadBalancer, HandAgrees
<1>6. CASE IsPublished
  <2>1. KeepsId
    BY <1>6 DEF IsPublished
  <2>2. CASE SetLoadBalancerIngress /\ stored'.ip = lb
    <3>1. pc = "publish" /\ stored.uid = svc.uid
      BY <1>6, <2>2, OnNoOtherService DEF SetLoadBalancerIngress, IsPublished, KeepsCare, LivePoints
    <3>2. QED
      BY <1>1, <1>2, <2>1, <2>2, <3>1 DEF KeepsId, AddressInv, PublishesRecorded
  <2>3. CASE RestoreIngress /\ stored'.ip = svc.lbId
    <3>1. pc = "restoreIngress" /\ pc \in LivePoints
      BY <2>3 DEF RestoreIngress, LivePoints
    <3>2. svc.lbId # 0 /\ lbs[svc.lbId].vip
      BY <3>1 DEF AddressInv, PublishesRecorded
    <3>3. svc.lbId = stored.lbId
      <4>1. stored.uid = svc.uid
        BY <1>6, <3>1, OnNoOtherService DEF IsPublished, KeepsCare
      <4>2. QED
        BY <3>1, <4>1, PassHandAgrees DEF HandAgrees
    <3>4. QED
      BY <1>1, <1>2, <2>1, <2>3, <3>2, <3>3 DEF KeepsId
  <2>4. QED
    BY <1>6, <2>2, <2>3 DEF IsPublished
<1>7. CASE UNCHANGED stored \/ LosesFinalizer \/ GetsRule \/ KeepsRecords
  BY <1>3, <1>7 DEF LosesFinalizer, GetsRule, KeepsRecords, KeepsId
<1>8. QED
  BY <1>4, <1>5, <1>6, <1>7, EveryChange DEF History, Changes

LEMMA PublishesStep ==
    ASSUME NoSuccessor, History, OwnInv, AddressInv, [Next]_vars
    PROVE  PublishesRecorded'
<1>1. /\ svc \in Service /\ svc.lbId \in 0..MaxLbs /\ lb \in 0..MaxLbs /\ stored \in Service
      /\ TypeInv /\ FreshIds
  BY Objects, ServiceFields DEF History, OwnInv
<1>2. ASSUME NEW i \in 0..MaxLbs, i # 0, lbs[i].vip
      PROVE  lbs'[i].vip
  BY <1>1, <1>2, NonzeroId, VipStays
<1>3. pc \in {"record", "publish"} => lb # 0
  BY <1>1 DEF TypeInv, PassIsSound
<1>4. CASE UNCHANGED reconcileVars
  <2>1. pc' = pc /\ svc' = svc /\ lb' = lb /\ vip' = vip
    BY <1>4 DEF reconcileVars, locals
  <2>2. pc = "publish" /\ stored'.uid = svc.uid => stored'.lbId = lb
    <3>1. svc.uid \in 0..MaxUid /\ uids \in 0..MaxUid /\ svc.uid <= uids
      BY Objects, ServiceFields DEF History, AddressInv, NoLaterUid
    <3>2. svc.uid # uids + 1
      BY <3>1, BoundsType
    <3>3. pc = "publish" => svc.uid # 0
      BY DEF History, BlankInv
    <3>4. pc = "publish" /\ stored'.uid = svc.uid => stored.uid = svc.uid
      BY <3>2, <3>3, LifeGoesOn DEF OwnInv
    <3>5. RecordLoadBalancer => pc' # pc
      BY DEF RecordLoadBalancer, Goto, Finish, DropLocals
    <3>6. QED
      BY <1>4, <2>1, <3>4, <3>5, OthersKeepId DEF AddressInv, PublishesRecorded
  <2>3. QED
    BY <1>1, <1>2, <1>3, <2>1, <2>2, AddressStays DEF AddressInv, PublishesRecorded
<1>5. CASE pc' = "record" /\ vip' = lbs[lb'].vip /\ UNCHANGED lbs
  BY <1>5, AddressStays DEF PublishesRecorded
<1>6. CASE /\ pc' = "publish" /\ RecordLoadBalancer /\ vip
           /\ lb' = lb /\ Write(WithLoadBalancer(stored, lb)) /\ UNCHANGED lbs
  <2> DEFINE new == WithLoadBalancer(stored, lb)
  <2>1. lb # 0 /\ lbs[lb].vip
    BY <1>3, <1>6 DEF RecordLoadBalancer, AddressInv, PublishesRecorded
  <2>2. new \in Service /\ new.lbId = lb
    <3>1. new \in Service
      BY <1>1, <2>1, WrittenByReconcile
    <3>2. new.lbId = lb
      BY <1>1 DEF WithLoadBalancer, Service
    <3>3. QED
      BY <3>1, <3>2
  <2>3. Write(new)
    BY <1>6
  <2> HIDE DEF new
  <2>4. stored' = new \/ stored' = NextVersion(new)
    BY <2>3 DEF Write
  <2>5. stored'.lbId = lb
    BY <2>2, <2>4, NextVersionFields
  <2>6. QED
    BY <1>6, <2>1, <2>5, AddressStays DEF PublishesRecorded
<1>7. CASE pc' = "handleUpdate" /\ Begins
  BY <1>7, AddressStays DEF Begins, FirstStep, Operation, PublishesRecorded
<1>8. CASE /\ pc' = "handleUpdate" /\ AddFinalizer
           /\ ~UpdateConflicts(svc) /\ Operation(svc) = "handleUpdate"
  BY <1>8, AddressStays, FinalizerIsAdded DEF Operation, PublishesRecorded
<1>9. CASE /\ pc' = "restoreIngress" /\ pc = "handleUpdate"
           /\ svc' = svc /\ lbs[svc.lbId].vip /\ UNCHANGED lbs
  BY <1>9, AddressStays DEF AddressInv, PublishesRecorded
<1>10. CASE pc' \notin {"record", "publish", "handleUpdate", "restoreIngress"}
  BY <1>10, AddressStays DEF PublishesRecorded
<1>11. QED
  BY <1>4, <1>5, <1>6, <1>7, <1>8, <1>9, <1>10, AddressMoves

LEMMA AddressInit == Init => AddressInv
<1> SUFFICES ASSUME Init PROVE AddressInv
  OBVIOUS
<1>1. /\ stored = NoService(0) /\ cached = NoService(0) /\ svc = NoService(0)
      /\ watch = <<>> /\ uids = 0 /\ pc = "idle"
  BY DEF Init, KubeInit, LocalsInit
<1>2. NoService(0).lbId = 0 /\ NoService(0).uid = 0 /\ NoService(0).ip = 0
  BY DEF NoService
<1>3. \A i \in 1..MaxLbs : lbs[i].owner = 0
  BY DEF Init, CloudInit, NoLoadBalancer
<1>4. NoLaterUid
  BY <1>1, <1>2, <1>3 DEF NoLaterUid
<1>5. NotYetRecorded /\ IdIsFinal /\ PublishesRecorded
  BY <1>1, <1>2 DEF NotYetRecorded, IdIsFinal, PublishesRecorded, ExternalIPIsRecorded
<1>6. OnlyOneIsUp
  BY <1>1, <1>2
  DEF OnlyOneIsUp, HandIsOnly, OwnersAreHeld, VipIsUp, CopiesAgree, Agrees, AddsToNoDeletion
<1>7. QED
  BY <1>4, <1>5, <1>6, CreationInit DEF AddressInv

LEMMA AddressStep ==
    ASSUME NoHandOrRead, History, OwnInv, AddressInv, [Next]_vars
    PROVE  AddressInv'
<1>1. NoSuccessor
  BY DEF NoHandOrRead, NoSuccessor
<1>2. CreationInv' /\ NoLaterUid' /\ PublishesRecorded'
  BY <1>1, CreationStep, NoLaterUidStep, PublishesStep DEF AddressInv
<1>3. OperatorActs => NotYetRecorded' /\ IdIsFinal'
  BY NotYetRecordedStep, IdIsFinalStep DEF NoHandOrRead, AddressInv
<1>4. ~OperatorActs => OnlyOneIsUp'
  BY <1>1, HandStaysOnly, OwnersStayHeld, VipStaysUp, CopiesStayAgreed, AddsStep
  DEF AddressInv, OnlyOneIsUp
<1>5. QED
  BY <1>2, <1>3, <1>4 DEF AddressInv

(***************************************************************************)
(* A published external IP is the VIP of the recorded load balancer,       *)
(* however far behind the cache is, and whether or not handleCreate's      *)
(* fresh read is allowed: handleCreate publishes after it has recorded,    *)
(* ensureLoadBalancerIngress what its copy has recorded.  With the read a  *)
(* recorded id is on no copy of the same Service another one.  Without it  *)
(* an id may be replaced, but only once its load balancer is gone: the     *)
(* lookup by name finds the one that is up, and only handleDelete deletes  *)
(* one that has a VIP, when no pass will publish any more.                 *)
(***************************************************************************)
THEOREM PublishedAddressIsRecorded ==
    ASSUME NoHandOrRead
    PROVE  Spec => []ExternalIPIsRecorded
<1> DEFINE Inv == History /\ OwnInv /\ AddressInv
<1>1. Init => Inv
  BY HistoryInit, OwnInit, AddressInit
<1>2. Inv /\ [Next]_vars => Inv'
  BY HistoryStep, OwnStep, AddressStep DEF NoHandOrRead, NoSuccessor
<1>3. Inv => ExternalIPIsRecorded
  BY DEF AddressInv, PublishesRecorded
<1>4. QED
  BY <1>1, <1>2, <1>3, PTL DEF Spec

-----------------------------------------------------------------------------
(* With a cache one version behind *)

\* The points of a pass that has a load balancer to work on.
UpdatePoints ==
    {"handleUpdate", "restoreIngress", "updateLoadBalancer",
     "ensureFirewallRule", "patchFirewallRule", "adoptFirewallRule",
     "recordRule", "recordAdopted", "createFirewallRule", "recordOperation"}

\* The points of a pass that may still record an id.
RecordPoints == CreatePoints \cup {"handleCreate"}

\* The next version the cache gets has the id, and no pass will replace it.
CacheKnowsId ==
    /\ cached.uid = stored.uid /\ cached.lbId # 0
    /\ cached.deleting => cached.lbId = stored.lbId
    /\ \A i \in DOMAIN watch : watch[i].lbId = stored.lbId
    /\ pc \notin RecordPoints

\* The address is written after the id: either the id is not the latest write,
\* or the cache has one.
IdIsOld == stored.ip # 0 \/ CacheKnowsId

\* Of two neighbouring versions, the one that records an id has no address yet.
Neighbours(v, w) ==
    v.uid = stored.uid /\ w.uid = stored.uid /\ stored.uid # 0 =>
        (v.lbId # w.lbId => w.ip = 0)

RecordedAlone ==
    /\ watch # <<>> => Neighbours(cached, watch[1])
    /\ \A i \in DOMAIN watch : i + 1 \in DOMAIN watch => Neighbours(watch[i], watch[i + 1])

NoRuleAskedFor == \A o \in 1..MaxOps : fws[o].op # "unused" => fws[o].owner # stored.uid

\* Firewall rules are asked for when the id is not the latest write.
RulesAfterId ==
    /\ pc \in UpdatePoints => IdIsOld
    /\ stored.uid # 0 => NoRuleAskedFor \/ IdIsOld
    /\ \A o \in 1..MaxOps : fws[o].owner <= uids

(***************************************************************************)
(* A deletion that has missed the id finds no firewall rule to clear, so   *)
(* that nothing refreshes its copy and its Update will conflict: the cache *)
(* is one version behind at most, that version is the write of the id, and *)
(* rules are asked for only later.                                         *)
(***************************************************************************)
MissesOnlyId ==
    pc \in DeletePoints /\ stored.lbId # 0 /\ stored.lbId # lb =>
        /\ pc \notin {"deleteRule", "clearRule"}
        /\ svc.uid = stored.uid /\ svc.lbId # stored.lbId
        /\ svc.opId = 0 /\ svc.ruleId = 0
        /\ NoRuleAskedFor

\* What a write does to the id and the address of the Service that stays.
LEMMA NextNeighbour ==
    ASSUME ~OperatorActs, History, OwnInv, AddressInv, [Next]_vars,
           stored'.uid = stored.uid, stored.uid # 0
    PROVE  /\ stored'.lbId # stored.lbId => stored'.ip = 0
           /\ stored.ip # 0 => stored'.ip # 0
<1>1. IsRecorded => stored'.ip = stored.ip /\ (stored.ip # 0 => stored'.lbId = stored.lbId)
  BY PassHandAgrees DEF IsRecorded, RecordLoadBalancer, HandAgrees
<1>2. ~Appears /\ ~Goes
  BY DEF Appears, Goes, Blank
<1>3. IsPublished => stored'.ip # 0 /\ stored'.lbId = stored.lbId
  <2>1. SetLoadBalancerIngress => lb # 0
    BY DEF SetLoadBalancerIngress, History, TypeInv, PassIsSound
  <2>2. RestoreIngress => svc.lbId # 0
    BY DEF RestoreIngress, AddressInv, PublishesRecorded
  <2>3. QED
    BY <2>1, <2>2 DEF IsPublished, KeepsId
<1>4. QED
  BY <1>1, <1>2, <1>3, FinalizerStays
  DEF GetsRule, KeepsRecords, KeepsId

LEMMA RecordedAloneStep ==
    ASSUME ~OperatorActs, History, OwnInv, AddressInv, RecordedAlone, [Next]_vars
    PROVE  RecordedAlone'
<1> DEFINE Next2(v, w) ==
             v.uid = stored'.uid /\ w.uid = stored'.uid /\ stored'.uid # 0 =>
                 (v.lbId # w.lbId => w.ip = 0)
<1>1. /\ watch \in Seq(Service) /\ uids \in Nat
      /\ cached.uid \in Nat /\ cached.uid <= uids
      /\ \A i \in DOMAIN watch : watch[i].uid \in Nat /\ watch[i].uid <= uids
  <2>1. watch \in Seq(Service) /\ cached \in Service /\ uids \in 0..MaxUid
    BY Objects DEF History
  <2>2. \A i \in DOMAIN watch : watch[i] \in Service
    BY <2>1
  <2>3. cached.uid \in Nat /\ uids \in Nat /\ \A i \in DOMAIN watch : watch[i].uid \in Nat
    <3>1. cached.uid \in 0..MaxUid /\ \A i \in DOMAIN watch : watch[i].uid \in 0..MaxUid
      BY <2>1, <2>2, ServiceFields
    <3>2. QED
      BY <2>1, <3>1, BoundsType
  <2>4. QED
    BY <2>1, <2>3 DEF OwnInv, LivesInOrder
<1>2. ASSUME NEW v, NEW w, v.uid \in Nat, v.uid <= uids, Neighbours(v, w)
      PROVE  Next2(v, w)
  <2>1. v.uid # uids + 1
    BY <1>1, <1>2
  <2>2. QED
    BY <1>2, <2>1, LifeGoesOn DEF Neighbours, OwnInv
<1>3. stored.uid <= uids /\ stored.uid \in Nat
  <2>1. stored.uid \in 0..MaxUid
    BY Objects, ServiceFields DEF History
  <2>2. QED
    BY <2>1, BoundsType DEF OwnInv, LivesInOrder
<1>4. Next2(stored, stored')
  <2>1. stored.uid # uids + 1
    BY <1>1, <1>3
  <2>2. QED
    BY <2>1, LifeGoesOn, NextNeighbour DEF OwnInv
<1>5. /\ watch # <<>> => Next2(cached, watch[1])
      /\ \A i \in DOMAIN watch : i + 1 \in DOMAIN watch => Next2(watch[i], watch[i + 1])
  <2> HIDE DEF Next2
  <2>1. QED
    BY <1>1, <1>2 DEF RecordedAlone
<1>6. CacheCatchesUp
  BY DEF History, VersionInv
<1>7. SUFFICES /\ watch' # <<>> => Next2(cached', watch'[1])
               /\ \A i \in DOMAIN watch' :
                     i + 1 \in DOMAIN watch' => Next2(watch'[i], watch'[i + 1])
  BY DEF RecordedAlone, Neighbours
<1> HIDE DEF Next2
<1>8. CASE UNCHANGED <<watch, cached>>
  BY <1>5, <1>8
<1>9. ASSUME UNCHANGED cached, NEW new \in Service, Write(new), ~UNCHANGED watch
      PROVE  /\ watch' # <<>> => Next2(cached', watch'[1])
             /\ \A i \in DOMAIN watch' :
                   i + 1 \in DOMAIN watch' => Next2(watch'[i], watch'[i + 1])
  <2>1. stored' \in Service /\ watch' = Append(watch, stored')
    BY <1>9, WrittenVersion DEF History
  <2>2. /\ \A i \in DOMAIN watch : watch'[i] = watch[i]
        /\ watch'[Len(watch) + 1] = stored'
        /\ DOMAIN watch = 1..Len(watch)
        /\ DOMAIN watch' = 1..(Len(watch) + 1)
        /\ Len(watch) \in Nat
    BY <1>1, <2>1
  <2>3. Next2(cached, watch'[1])
    <3>1. CASE watch = <<>>
      <4>1. Len(watch) + 1 = 1
        BY <3>1
      <4>2. QED
        BY <1>4, <1>6, <2>2, <3>1, <4>1 DEF CacheCatchesUp
    <3>2. CASE watch # <<>>
      <4>1. 1 \in DOMAIN watch
        BY <1>1, <3>2
      <4>2. QED
        BY <1>5, <2>2, <3>2, <4>1
    <3>3. QED
      BY <3>1, <3>2
  <2>4. ASSUME NEW i \in DOMAIN watch', i + 1 \in DOMAIN watch'
        PROVE  Next2(watch'[i], watch'[i + 1])
    <3>1. CASE i + 1 \in DOMAIN watch
      <4>1. i \in DOMAIN watch
        BY <2>2, <2>4, <3>1
      <4>2. QED
        BY <1>5, <2>2, <3>1, <4>1
    <3>2. CASE i + 1 \notin DOMAIN watch
      <4>1. i = Len(watch) /\ i \in DOMAIN watch /\ watch # <<>>
        BY <2>2, <2>4, <3>2
      <4>2. watch'[i] = stored /\ watch'[i + 1] = stored'
        BY <1>6, <2>2, <4>1 DEF CacheCatchesUp
      <4>3. QED
        BY <1>4, <4>2
    <3>3. QED
      BY <3>1, <3>2
  <2>5. QED
    BY <1>9, <2>3, <2>4
<1>10. ASSUME Deliver
       PROVE  /\ watch' # <<>> => Next2(cached', watch'[1])
              /\ \A i \in DOMAIN watch' :
                    i + 1 \in DOMAIN watch' => Next2(watch'[i], watch'[i + 1])
  <2>1. watch # <<>> /\ cached' = Head(watch) /\ watch' = Tail(watch)
    BY <1>10 DEF Deliver
  <2>2. /\ DOMAIN watch = 1..Len(watch) /\ Len(watch) \in Nat /\ 1 \in DOMAIN watch
        /\ DOMAIN watch' = 1..(Len(watch) - 1)
        /\ \A i \in DOMAIN watch' : i + 1 \in DOMAIN watch /\ watch'[i] = watch[i + 1]
        /\ cached' = watch[1]
    BY <1>1, <2>1
  <2>3. watch' # <<>> => 1 \in DOMAIN watch' /\ 1 + 1 \in DOMAIN watch /\ watch'[1] = watch[1 + 1]
    <3>1. watch' \in Seq(Service)
      BY <1>1, <2>1
    <3>2. watch' # <<>> => 1 \in DOMAIN watch'
      BY <3>1
    <3>3. QED
      BY <2>2, <3>2
  <2>4. QED
    BY <1>5, <2>2, <2>3
<1>11. CASE Resync
  <2>1. watch' = <<>>
    BY <1>11 DEF Resync
  <2>2. QED
    BY <2>1
<1>12. QED
  BY <1>8, <1>9, <1>10, <1>11, EveryStoreStep DEF StoreStep, History

\* A pass comes to record an id only if its copy has none.
LEMMA RecordEntry ==
    ASSUME [Next]_vars, pc' \in RecordPoints
    PROVE  \/ pc \in RecordPoints
           \/ Begins /\ cached.lbId = 0
           \/ AddFinalizer /\ ~UpdateConflicts(svc) /\ svc.lbId = 0
<1>1. CASE pc' \in CreatePoints
  <2>1. HandleCreate => pc \in RecordPoints
    BY DEF HandleCreate, RecordPoints
  <2>2. QED
    BY <1>1, <2>1, CreateEntry DEF RecordPoints
<1>2. CASE pc' = "handleCreate"
  <2>1. /\ \A retry : ~Finish(retry)
        /\ \A point : Goto(point) => pc' = point
    BY <1>2 DEF Finish, DropLocals, Goto
  <2>2. CASE Reconcile
    <3>1. Begins => cached.lbId = 0
      BY <1>2 DEF Begins, FirstStep, Operation
    <3>2. QED
      BY <1>2, <2>2, <3>1, ReconcileMoves DEF reconcileVars, RecordPoints
  <2>3. CASE AddFinalizer
    BY <1>2, <2>1, <2>3 DEF AddFinalizer, Operation
  <2>4. ASSUME Worker, ~Reconcile, ~AddFinalizer
        PROVE  FALSE
    BY <1>2, <2>1, <2>4
    DEF Worker, HandleCreate, LookUp, CreateLoadBalancer, CreateRefused, WaitForOperation,
        RecordLoadBalancer, SetLoadBalancerIngress, EnsureLoadBalancerIngress, RestoreIngress,
        UpdateLoadBalancer, EnsureFirewallRule, NoFirewallRuleWanted, CheckFirewallRule,
        ResolveOperation, PatchFirewallRule, AdoptFirewallRule, RecordRule, RecordAdoptedRule,
        PatchAndFinish, CreateFirewallRule, RecordOperation, DeleteFirewallRule, FindRule,
        DeleteRule, ClearRule, DeleteLoadBalancer, RemoveFinalizer
  <2>5. ASSUME CallFails \/ Crash
        PROVE  FALSE
    BY <1>2, <2>1, <2>5 DEF CallFails, Crash, DropLocals
  <2>6. CASE \/ User \/ DeliverEvent \/ Timer \/ NodeChanges
             \/ \E i \in 1..MaxLbs : LbProgress(i)
             \/ \E o \in 1..MaxOps : FwProgress(o)
             \/ CloudFault \/ OperatorRemoves \/ OperatorReleases \/ HoldExpires
             \/ UNCHANGED vars
    BY <1>2, <2>6
    DEF User, DeliverEvent, Timer, NodeChanges, LbProgress, FwProgress, CloudFault,
        OperatorRemoves, OperatorReleases, HoldExpires, vars, reconcileVars, RecordPoints
  <2>7. QED
    BY <2>2, <2>3, <2>4, <2>5, <2>6 DEF Next
<1>3. QED
  BY <1>1, <1>2 DEF RecordPoints

\* An id that is not the latest write does not become it again.
LEMMA IdStaysOld ==
    ASSUME ~OperatorActs, History, OwnInv, AddressInv, [Next]_vars,
           stored'.uid = stored.uid, stored.uid # 0, IdIsOld
    PROVE  IdIsOld'
<1>1. CASE stored.ip # 0
  BY <1>1, NextNeighbour DEF IdIsOld
<1>2. CASE CacheKnowsId
  <2>1. stored.lbId # 0
    BY <1>2 DEF CacheKnowsId, AddressInv, OnlyOneIsUp, CopiesAgree, Agrees
  <2>2. stored'.lbId = stored.lbId
    <3>1. ~RecordLoadBalancer
      BY <1>2 DEF CacheKnowsId, RecordLoadBalancer, RecordPoints, CreatePoints
    <3>2. QED
      BY <3>1, OthersKeepId
  <2>3. pc' \notin RecordPoints
    <3>1. AddFinalizer /\ ~UpdateConflicts(svc) => svc = stored
      BY DEF UpdateConflicts, History, VersionInv, CurrentWith
    <3>2. QED
      BY <1>2, <2>1, <3>1, RecordEntry DEF CacheKnowsId
  <2>4. \A i \in DOMAIN watch' : watch'[i].lbId = stored'.lbId
    BY <1>2, <2>2, CopiesComeFrom DEF CacheKnowsId, History, Resync
  <2>5. CASE UNCHANGED cached
    BY <1>2, <2>2, <2>3, <2>4, <2>5 DEF CacheKnowsId, IdIsOld
  <2>6. CASE \E j \in DOMAIN watch : cached' = watch[j]
    <3>1. cached'.uid = stored.uid
      BY <1>2, <2>6 DEF CacheKnowsId, OwnInv, LivesInOrder, Later
    <3>2. cached'.lbId = stored.lbId
      BY <1>2, <2>6 DEF CacheKnowsId
    <3>3. QED
      BY <2>1, <2>2, <2>3, <2>4, <3>1, <3>2 DEF CacheKnowsId, IdIsOld
  <2>7. CASE cached' = stored
    BY <2>1, <2>2, <2>3, <2>4, <2>7 DEF CacheKnowsId, IdIsOld
  <2>8. QED
    BY <2>5, <2>6, <2>7, CopiesComeFrom DEF History
<1>3. QED
  BY <1>1, <1>2 DEF IdIsOld

\* With the cache one version behind, that version is the latest.
LEMMA OneBehind ==
    ASSUME History, MaxLag <= 1, Len(watch) <= MaxLag
    PROVE  \A i \in DOMAIN watch : i = 1 /\ watch[i] = stored
<1> SUFFICES ASSUME NEW i \in DOMAIN watch
             PROVE  i = 1 /\ watch[i] = stored
  OBVIOUS
<1> DEFINE n == Len(watch)
<1>1. n \in Nat /\ i \in 1..n /\ n <= MaxLag /\ MaxLag \in Nat /\ watch # <<>>
  <2>1. watch \in Seq(Service) /\ MaxLag \in Nat
    BY Objects, BoundsType DEF History
  <2>2. QED
    BY <2>1
<1>2. n = Len(watch)
  OBVIOUS
<1> HIDE DEF n
<1>3. n = 1 /\ i = 1
  BY <1>1
<1>4. QED
  BY <1>1, <1>2, <1>3 DEF History, VersionInv, CacheCatchesUp

\* How a pass gets a load balancer to work on.
LEMMA UpdateEntry ==
    ASSUME [Next]_vars, pc' \in UpdatePoints
    PROVE  \/ pc \in UpdatePoints
           \/ Begins /\ cached.lbId # 0 /\ Live(cached)
           \/ AddFinalizer /\ ~UpdateConflicts(svc) /\ svc.lbId # 0
           \/ SetLoadBalancerIngress /\ Write([stored EXCEPT !.ip = lb])
<1>1. /\ \A retry : Finish(retry) => pc' = "idle"
      /\ \A point : Goto(point) => pc' = point
  BY DEF Finish, DropLocals, Goto
<1>2. CASE Reconcile
  <2>1. CASE Begins
    BY <2>1 DEF Begins, FirstStep, Operation, UpdatePoints, Live
  <2>2. CASE UNCHANGED reconcileVars
    BY <2>2 DEF reconcileVars
  <2>3. QED
    BY <1>2, <2>1, <2>2, ReconcileMoves
<1>3. CASE AddFinalizer
  BY <1>1, <1>3 DEF AddFinalizer, Operation, UpdatePoints
<1>4. CASE HandleCreate \/ LookUp \/ CreateLoadBalancer \/ CreateRefused \/ WaitForOperation
           \/ RecordLoadBalancer
  BY <1>1, <1>4 DEF HandleCreate, LookUp, CreateLoadBalancer, CreateRefused, WaitForOperation,
                    RecordLoadBalancer, UpdatePoints
<1>5. CASE SetLoadBalancerIngress
  BY <1>1, <1>5 DEF SetLoadBalancerIngress, Patch, UpdatePoints
<1>6. CASE \/ EnsureLoadBalancerIngress \/ RestoreIngress \/ UpdateLoadBalancer
           \/ EnsureFirewallRule \/ PatchFirewallRule \/ AdoptFirewallRule
           \/ RecordRule \/ RecordAdoptedRule \/ CreateFirewallRule \/ RecordOperation
  BY <1>6 DEF EnsureLoadBalancerIngress, RestoreIngress, UpdateLoadBalancer, EnsureFirewallRule,
              PatchFirewallRule, AdoptFirewallRule, RecordRule, RecordAdoptedRule,
              CreateFirewallRule, RecordOperation, UpdatePoints
<1>7. CASE DeleteFirewallRule \/ FindRule \/ DeleteRule \/ ClearRule
           \/ DeleteLoadBalancer \/ RemoveFinalizer
  BY <1>1, <1>7 DEF DeleteFirewallRule, FindRule, DeleteRule, ClearRule, DeleteLoadBalancer,
                    RemoveFinalizer, UpdatePoints
<1>8. CASE CallFails \/ Crash
  BY <1>1, <1>8 DEF CallFails, Crash, DropLocals, UpdatePoints
<1>9. CASE \/ User \/ DeliverEvent \/ Timer \/ NodeChanges
           \/ \E i \in 1..MaxLbs : LbProgress(i)
           \/ \E o \in 1..MaxOps : FwProgress(o)
           \/ CloudFault \/ OperatorRemoves \/ OperatorReleases \/ HoldExpires
           \/ UNCHANGED vars
  BY <1>9 DEF User, DeliverEvent, Timer, NodeChanges, LbProgress, FwProgress, CloudFault,
              OperatorRemoves, OperatorReleases, HoldExpires, vars, reconcileVars, UpdatePoints
<1>10. QED
  BY <1>2, <1>3, <1>4, <1>5, <1>6, <1>7, <1>8, <1>9 DEF Next, Worker

LEMMA WorksOnOldId ==
    ASSUME ~OperatorActs, MaxLag <= 1, History, OwnInv, AddressInv, RulesAfterId, [Next]_vars,
           pc' \in UpdatePoints
    PROVE  IdIsOld'
<1>1. CASE pc \in UpdatePoints
  <2>1. pc \in LivePoints /\ stored.uid # 0
    BY <1>1 DEF UpdatePoints, LivePoints, OwnInv, CareInv, PassIsOnItsService, History, BlankInv
  <2>2. stored'.uid = stored.uid
    BY <2>1, FinalizerStays
    DEF Appears, IsRecorded, IsPublished, GetsRule, KeepsRecords, KeepsCare
  <2>3. QED
    BY <1>1, <2>1, <2>2, IdStaysOld DEF RulesAfterId
<1>2. CASE Begins /\ cached.lbId # 0 /\ Live(cached)
  <2>1. /\ UNCHANGED <<stored, watch, cached>> /\ Len(watch) <= MaxLag
        /\ pc' \notin RecordPoints
    BY <1>2 DEF Begins, Reconcile, FirstStep, Operation, Live, RecordPoints, CreatePoints
  <2>2. cached.uid = stored.uid /\ ~cached.deleting
    BY <1>2 DEF OwnInv, CareInv, LiveCopies, Live
  <2>3. QED
    BY <1>2, <2>1, <2>2, OneBehind DEF CacheKnowsId, IdIsOld
<1>3. CASE AddFinalizer /\ ~UpdateConflicts(svc) /\ svc.lbId # 0
  <2>1. svc.rv = stored.rv /\ svc.rv <= cached.rv
    BY <1>3 DEF UpdateConflicts, AddFinalizer, OwnInv, CareInv, PassIsOnItsService
  <2>2. stored.rv \in Nat /\ cached.rv \in Nat
    BY Objects DEF History
  <2>3. cached = stored /\ svc = stored
    BY <2>1, <2>2 DEF History, VersionInv, CurrentWith
  <2>4. cached' = cached
    BY <1>3 DEF AddFinalizer, OutsideUnchanged
  <2>5. stored'.uid = stored.uid
    <3>1. stored.uid # 0
      BY <1>3, <2>3 DEF AddFinalizer, History, BlankInv
    <3>2. ~Goes
      BY <1>3, <2>1 DEF Goes, AddFinalizer, RemoveFinalizer, UpdateConflicts, OperatorReleases,
                        Finish, DropLocals, Goto, reconcileVars, Operation
    <3>3. QED
      BY <3>1, <3>2, FinalizerStays
      DEF Appears, IsRecorded, IsPublished, GetsRule, KeepsRecords, KeepsCare
  <2>6. stored'.lbId = stored.lbId /\ pc' \notin RecordPoints
    <3>1. ~RecordLoadBalancer
      BY <1>3 DEF AddFinalizer, RecordLoadBalancer
    <3>2. pc' \notin RecordPoints
      BY DEF UpdatePoints, RecordPoints, CreatePoints
    <3>3. QED
      BY <2>5, <3>1, <3>2, OthersKeepId
  <2>7. ASSUME NEW j \in DOMAIN watch
        PROVE  FALSE
    <3>1. cached.rv < watch[j].rv /\ watch[j].rv <= stored.rv
      BY DEF History, VersionInv, WatchIsOrdered, CurrentWith
    <3>2. watch[j].rv \in Nat
      <4>1. watch[j] \in Service
        BY Objects DEF History
      <4>2. QED
        BY <4>1, ServiceFields
    <3>3. QED
      BY <2>2, <2>3, <3>1, <3>2
  <2>8. \A i \in DOMAIN watch' : watch'[i].lbId = stored'.lbId
    BY <2>7, CopiesComeFrom DEF History
  <2>9. ~cached.deleting
    BY <1>3, <2>3 DEF AddFinalizer, AddressInv, OnlyOneIsUp, AddsToNoDeletion
  <2>10. QED
    BY <1>3, <2>3, <2>4, <2>5, <2>6, <2>8, <2>9 DEF CacheKnowsId, IdIsOld
<1>4. CASE SetLoadBalancerIngress /\ Write([stored EXCEPT !.ip = lb])
  <2> DEFINE new == [stored EXCEPT !.ip = lb]
  <2>1. lb # 0
    BY <1>4 DEF SetLoadBalancerIngress, History, TypeInv, PassIsSound
  <2>2. stored \in Service /\ new \in Service
    BY Objects, WrittenByReconcile DEF History
  <2>3. new.ip = lb
    BY <2>2 DEF Service
  <2>4. Write(new)
    BY <1>4
  <2> HIDE DEF new
  <2>5. stored'.ip = lb
    BY <2>2, <2>3, <2>4, NextVersionFields DEF Write
  <2>6. QED
    BY <2>1, <2>5 DEF IdIsOld
<1>5. QED
  BY <1>1, <1>2, <1>3, <1>4, UpdateEntry

\* No other step than its creation asks for a rule.
LEMMA NoneAskedFor ==
    ASSUME History, NoRuleAskedFor, ~CreateFirewallRule, [Next]_vars, stored'.uid = stored.uid
    PROVE  NoRuleAskedFor'
BY KeptUnlessCreated DEF NoRuleAskedFor, History, FwKept, FwCreated, SameRequest

LEMMA RulesAfterIdStep ==
    ASSUME ~OperatorActs, MaxLag <= 1, History, OwnInv, AddressInv, RulesAfterId, [Next]_vars
    PROVE  RulesAfterId'
<1>1. pc' \in UpdatePoints => IdIsOld'
  BY WorksOnOldId
<1>2. uids \in Nat /\ uids' \in {uids, uids + 1} /\ svc.uid \in Nat /\ svc.uid <= uids
  <2>1. uids \in 0..MaxUid /\ svc.uid \in 0..MaxUid
    BY Objects, ServiceFields DEF History
  <2>2. QED
    BY <2>1, LifeGoesOn, BoundsType DEF OwnInv, AddressInv, NoLaterUid
<1>3. ASSUME NEW o \in 1..MaxOps
      PROVE  fws'[o].owner \in Nat /\ fws'[o].owner <= uids
  <2>1. fws[o].owner \in Nat
    <3>1. fws[o] \in FirewallRule
      BY Objects DEF History
    <3>2. fws[o].owner \in 0..MaxUid
      BY <3>1 DEF FirewallRule
    <3>3. QED
      BY <3>2, BoundsType
  <2>2. fws'[o].owner \in {fws[o].owner, svc.uid}
    BY KeptUnlessCreated DEF FwKept, FwCreated, SameRequest, History
  <2>3. QED
    BY <1>2, <2>1, <2>2 DEF RulesAfterId
<1>4. \A o \in 1..MaxOps : fws'[o].owner <= uids'
  BY <1>2, <1>3
<1>5. ASSUME stored'.uid # 0
      PROVE  NoRuleAskedFor' \/ IdIsOld'
  <2>1. CASE stored'.uid = uids + 1
    <3>1. \A o \in 1..MaxOps : fws'[o].owner # uids + 1
      BY <1>2, <1>3
    <3>2. QED
      BY <2>1, <3>1 DEF NoRuleAskedFor
  <2>2. CASE stored'.uid = stored.uid
    <3>1. CreateFirewallRule => IdIsOld
      BY DEF CreateFirewallRule, RulesAfterId, UpdatePoints
    <3>2. IdIsOld => IdIsOld'
      BY <1>5, <2>2, IdStaysOld
    <3>3. QED
      BY <1>5, <2>2, <3>1, <3>2, NoneAskedFor DEF RulesAfterId
  <2>3. QED
    BY <1>5, <2>1, <2>2, LifeGoesOn DEF OwnInv
<1>6. QED
  BY <1>1, <1>4, <1>5 DEF RulesAfterId

LEMMA MissesOnlyIdStep ==
    ASSUME ~OperatorActs, MaxLag <= 1, History, OwnInv, AddressInv, RecordedAlone,
           RulesAfterId, MissesOnlyId, [Next]_vars
    PROVE  MissesOnlyId'
<1> SUFFICES ASSUME pc' \in DeletePoints, stored'.lbId # 0, stored'.lbId # lb'
             PROVE  /\ pc' \notin {"deleteRule", "clearRule"}
                    /\ svc'.uid = stored'.uid /\ svc'.lbId # stored'.lbId
                    /\ svc'.opId = 0 /\ svc'.ruleId = 0
                    /\ NoRuleAskedFor'
  BY DEF MissesOnlyId
<1>1. CASE Begins
  <2>1. /\ UNCHANGED <<stored, cached, watch, fws>> /\ svc' = cached /\ lb' = cached.lbId
        /\ pc' \notin {"deleteRule", "clearRule"}
        /\ Len(watch) <= MaxLag
    BY <1>1 DEF Begins, Reconcile, cloudVars, FirstStep, Operation
  <2>2. stored.uid # 0 /\ cached.uid = stored.uid
    BY <2>1 DEF OwnInv, CareInv, RecordedIsHeld, SeenByCache, History, BlankInv, Blank
  <2>3. cached.lbId # stored.lbId /\ cached.deleting
    BY <1>1, <2>1 DEF Begins, FirstStep, Operation, DeletePoints
  <2>4. watch # <<>> /\ watch[1] = stored
    <3>1. watch # <<>>
      BY <2>3 DEF History, VersionInv, CacheCatchesUp
    <3>2. 1 \in DOMAIN watch
      BY <3>1, Objects DEF History
    <3>3. QED
      BY <2>1, <3>1, <3>2, OneBehind
  <2>5. stored.ip = 0
    BY <2>2, <2>3, <2>4 DEF RecordedAlone, Neighbours
  <2>6. NoRuleAskedFor
    BY <2>2, <2>3, <2>5 DEF RulesAfterId, IdIsOld, CacheKnowsId
  <2>7. cached.opId = 0 /\ cached.ruleId = 0
    <3>1. \A o \in 0..MaxOps : o # 0 => o \in 1..MaxOps
      BY BoundsType
    <3>2. cached.opId \in 0..MaxOps /\ cached.ruleId \in 0..MaxOps
      BY Objects, ServiceFields DEF History
    <3>3. QED
      BY <2>2, <2>6, <3>1, <3>2 DEF OwnInv, CopiesOwn, OwnRecord, NoRuleAskedFor
  <2>8. QED
    BY <2>1, <2>2, <2>3, <2>6, <2>7 DEF NoRuleAskedFor
<1>2. CASE UNCHANGED reconcileVars \/ DeleteAdvances
  <2>1. pc \in DeletePoints /\ lb' = lb /\ (pc # "clearRule" => svc' = svc)
    BY <1>2 DEF DeleteAdvances, reconcileVars, locals
  <2>2. stored'.lbId = stored.lbId
    BY <2>1, OnlyRecordingRecords DEF RecordLoadBalancer, DeletePoints
  <2>3. /\ pc \notin {"deleteRule", "clearRule"}
        /\ svc.uid = stored.uid /\ svc.lbId # stored.lbId
        /\ svc.opId = 0 /\ svc.ruleId = 0
        /\ NoRuleAskedFor
    BY <2>1, <2>2 DEF MissesOnlyId
  <2>4. stored'.uid = stored.uid
    <3>1. ~Appears /\ ~Goes
      BY DEF Appears, Goes, Blank
    <3>2. QED
      BY <3>1, FinalizerStays DEF IsRecorded, IsPublished, GetsRule, KeepsRecords, KeepsCare
  <2>5. NoRuleAskedFor'
    BY <2>1, <2>3, <2>4, NoneAskedFor DEF CreateFirewallRule, DeletePoints
  <2>6. RulesNamed(svc.uid) = {}
    BY <2>3 DEF RulesNamed, NoRuleAskedFor, OwnInv, FreshIds
  <2>7. pc' \notin {"deleteRule", "clearRule"}
    BY <1>2, <2>3, <2>6 DEF DeleteAdvances, reconcileVars
  <2>8. QED
    BY <2>1, <2>2, <2>3, <2>4, <2>5, <2>7
<1>3. QED
  BY <1>1, <1>2, DeleteMoves

-----------------------------------------------------------------------------
(* The controller implements OwnedLoadBalancers *)

\* No step changes both the Service and the load balancers.
LEMMA OneAtATime ==
    ASSUME [Next]_vars
    PROVE  UNCHANGED stored \/ UNCHANGED lbs
<1>1. CASE CreateLoadBalancer \/ UpdateLoadBalancer \/ DeleteLoadBalancer
  BY <1>1 DEF CreateLoadBalancer, UpdateLoadBalancer, DeleteLoadBalancer, KubeUnchanged
<1>2. ASSUME Worker, ~CreateLoadBalancer, ~UpdateLoadBalancer, ~DeleteLoadBalancer
      PROVE  UNCHANGED lbs
  BY <1>2
  DEF Worker, Reconcile, AddFinalizer, HandleCreate, LookUp, CreateRefused, WaitForOperation,
      RecordLoadBalancer, SetLoadBalancerIngress, EnsureLoadBalancerIngress, RestoreIngress,
      EnsureFirewallRule, PatchFirewallRule, AdoptFirewallRule, RecordRule, RecordAdoptedRule,
      PatchAndFinish, CreateFirewallRule, RecordOperation, DeleteFirewallRule, FindRule,
      DeleteRule, ClearRule, RemoveFinalizer, cloudVars
<1>3. CASE CallFails \/ Crash \/ User \/ DeliverEvent \/ Timer \/ NodeChanges
           \/ OperatorReleases \/ HoldExpires \/ UNCHANGED vars
  BY <1>3 DEF CallFails, Crash, User, DeliverEvent, Timer, NodeChanges,
              OperatorReleases, HoldExpires, vars, cloudVars
<1>4. CASE \/ \E i \in 1..MaxLbs : LbProgress(i)
           \/ \E o \in 1..MaxOps : FwProgress(o)
           \/ CloudFault \/ OperatorRemoves
  BY <1>4 DEF LbProgress, FwProgress, CloudFault, OperatorRemoves, kubeVars
<1>5. QED
  BY <1>1, <1>2, <1>3, <1>4 DEF Next

\* All the invariants above.
Records ==
    /\ History /\ OwnInv /\ AddressInv /\ DeleteSeesId /\ DeletedFirst
    /\ ~OperatorActs => RecordedAlone
    /\ ~OperatorActs /\ MaxLag <= 1 => RulesAfterId /\ MissesOnlyId

LEMMA OwnershipInit == Init => Records /\ Ownership!Init
<1> SUFFICES ASSUME Init PROVE Records /\ Ownership!Init
  OBVIOUS
<1>1. stored = NoService(0) /\ watch = <<>> /\ uids = 0 /\ pc = "idle"
  BY DEF Init, KubeInit
<1>2. NoService(0).uid = 0 /\ NoService(0).lbId = 0 /\ NoService(0).ip = 0
  BY DEF NoService
<1>3. /\ \A i \in 1..MaxLbs : lbs[i].owner = 0 /\ ~lbs[i].up
      /\ \A o \in 1..MaxOps : fws[o].owner = 0
  BY DEF Init, CloudInit, NoLoadBalancer, NoFirewallRule
<1>4. Records
  <2>1. RecordedAlone /\ RulesAfterId /\ MissesOnlyId
    BY <1>1, <1>2, <1>3 DEF RecordedAlone, RulesAfterId, MissesOnlyId, UpdatePoints, DeletePoints
  <2>2. QED
    BY <1>1, <2>1, HistoryInit, OwnInit, AddressInit
    DEF Records, DeleteSeesId, DeletedFirst, DeletePoints
<1>5. Ownership!Init
  BY <1>1, <1>2, <1>3 DEF Ownership!Init
<1>6. QED
  BY <1>4, <1>5

LEMMA RecordsStep ==
    ASSUME NoHandOrRead, Records, [Next]_vars
    PROVE  Records'
BY HistoryStep, DeleteSeesIdStep, DeletedFirstStep, OwnStep, AddressStep, RecordedAloneStep,
   RulesAfterIdStep, MissesOnlyIdStep
DEF Records, NoHandOrRead, NoSuccessor, AddressInv

\* The recorded load balancer is gone before the Service is.
LEMMA GoesAfterRecorded ==
    ASSUME ~Managed \/ MaxLag <= 1, ~OperatorActs, Records, [Next]_vars, Goes
    PROVE  stored.lbId # 0 => ~lbs[stored.lbId].up
<1>1. CASE ~stored.finalizer
  BY <1>1 DEF Records, OwnInv, CareInv, RecordedIsHeld
<1>2. CASE RemoveFinalizer /\ svc = stored /\ stored.deleting
  <2>1. pc = "removeFinalizer" /\ pc \in DeletePoints
    BY <1>2 DEF RemoveFinalizer, DeletePoints
  <2>2. stored.lbId # 0 => stored.lbId = lb
    <3>1. CASE ~Managed
      BY <1>2, <2>1, <3>1 DEF Records, DeleteSeesId
    <3>2. CASE MaxLag <= 1
      BY <1>2, <2>1, <3>2 DEF Records, MissesOnlyId
    <3>3. QED
      BY <3>1, <3>2
  <2>3. QED
    BY <2>1, <2>2 DEF Records, DeletedFirst
<1>3. QED
  BY <1>1, <1>2 DEF Goes, OperatorReleases

\* A step that changes the Service.
LEMMA ServiceSimulates ==
    ASSUME ~Managed \/ MaxLag <= 1, ~OperatorActs, Records, [Next]_vars, UNCHANGED lbs
    PROVE  [Ownership!Next]_(Ownership!vars)
<1>1. History /\ History' /\ OwnInv /\ AddressInv /\ AddressInv'
  BY RecordsStep DEF Records, NoHandOrRead
<1>2. CASE stored'.uid = stored.uid /\ stored'.lbId = stored.lbId /\ stored'.ip = stored.ip
  BY <1>2 DEF Ownership!vars
<1>3. CASE Appears
  <2>1. stored.uid = 0 /\ stored.lbId = 0 /\ stored.ip = 0
    BY <1>1, <1>3 DEF Appears, History, BlankInv, Blank
  <2>2. stored'.uid = uids + 1 /\ stored'.lbId = 0 /\ stored'.ip = 0
    BY <1>3 DEF Appears
  <2>3. uids + 1 \in 1..MaxUid
    <3>1. uids' \in 0..MaxUid
      BY <1>1 DEF History, TypeInv, TypeOK, KubeTypeOK
    <3>2. uids \in 0..MaxUid /\ uids' = uids + 1
      BY <1>1, <1>3, Objects DEF History, Appears
    <3>3. QED
      BY <3>1, <3>2, BoundsType
  <2>4. ASSUME NEW i \in 1..MaxLbs
        PROVE  lbs[i].owner # uids + 1
    <3>1. lbs[i].owner \in 0..MaxUid
      <4>1. lbs[i] \in LoadBalancer
        BY <1>1, Objects DEF History
      <4>2. QED
        BY <4>1 DEF LoadBalancer
    <3>2. uids \in 0..MaxUid /\ lbs[i].owner <= uids
      BY <1>1, Objects DEF History, AddressInv, NoLaterUid
    <3>3. QED
      BY <3>1, <3>2, BoundsType
  <2>5. Ownership!Appear(uids + 1)
    BY <2>1, <2>2, <2>4 DEF Ownership!Appear
  <2>6. QED
    BY <2>3, <2>5 DEF Ownership!Next
<1>4. CASE Goes
  <2>1. stored.uid # 0 /\ stored'.uid = 0 /\ stored'.lbId = 0 /\ stored'.ip = 0
    BY <1>4 DEF Goes, Blank
  <2>2. stored.lbId \notin {i \in 1..MaxLbs : lbs[i].up}
    BY <1>4, GoesAfterRecorded, BoundsType
  <2>3. Ownership!Disappear
    BY <2>1, <2>2 DEF Ownership!Disappear
  <2>4. QED
    BY <2>3 DEF Ownership!Next
<1>5. CASE IsRecorded
  <2>1. pc = "record" /\ stored'.lbId = lb /\ stored'.ip = stored.ip
    BY <1>5 DEF IsRecorded, RecordLoadBalancer
  <2>2. stored.uid # 0 /\ stored'.uid = stored.uid
    BY <1>5 DEF IsRecorded, KeepsCare
  <2>3. lbs[lb].owner = stored.uid
    BY <1>1, <2>1 DEF OwnInv, CareInv, HandOwn, PassIsOnItsService, LivePoints
  <2>4. lb \in 1..MaxLbs
    BY <1>1, <2>1, NonzeroId, Objects DEF History, TypeInv, PassIsSound
  <2>5. Ownership!Record(lb)
    BY <2>1, <2>2, <2>3, <2>4 DEF Ownership!Record
  <2>6. QED
    BY <2>4, <2>5 DEF Ownership!Next
<1>6. CASE IsPublished
  <2>1. stored'.uid = stored.uid /\ stored'.lbId = stored.lbId
    BY <1>6 DEF IsPublished, KeepsCare, KeepsId
  <2>2. stored'.ip # 0 => stored'.ip = stored.lbId
    BY <1>1, <2>1 DEF AddressInv, PublishesRecorded, ExternalIPIsRecorded
  <2>3. stored'.ip # 0
    <3>1. SetLoadBalancerIngress => lb # 0
      BY <1>1 DEF SetLoadBalancerIngress, History, TypeInv, PassIsSound
    <3>2. RestoreIngress => svc.lbId # 0
      BY <1>1 DEF RestoreIngress, AddressInv, PublishesRecorded
    <3>3. QED
      BY <1>6, <3>1, <3>2 DEF IsPublished
  <2>4. Ownership!Publish
    BY <2>1, <2>2, <2>3 DEF Ownership!Publish
  <2>5. QED
    BY <2>4 DEF Ownership!Next
<1>7. CASE UNCHANGED stored \/ GetsRule \/ KeepsRecords
  BY <1>2, <1>7 DEF GetsRule, KeepsRecords, KeepsCare, KeepsId
<1>8. QED
  BY <1>1, <1>3, <1>4, <1>5, <1>6, <1>7, FinalizerStays

\* A step that changes a load balancer.
LEMMA CloudSimulates ==
    ASSUME ~OperatorActs, Records, [Next]_vars, UNCHANGED stored
    PROVE  [Ownership!Next]_(Ownership!vars)
<1> DEFINE owner == [i \in 1..MaxLbs |-> lbs[i].owner]
           up == {i \in 1..MaxLbs : lbs[i].up}
<1>1. CASE owner' = owner /\ up' = up
  BY <1>1 DEF Ownership!vars
<1>2. CASE \A i \in 1..MaxLbs : LbKept(i)
  <2>1. \A i \in 1..MaxLbs : lbs'[i].owner = lbs[i].owner /\ lbs'[i].up = lbs[i].up
    BY <1>2 DEF LbKept, SameMaker
  <2>2. QED
    BY <1>1, <2>1
<1>3. ASSUME NEW i \in 1..MaxLbs, \A j \in 1..MaxLbs : j # i => LbKept(j),
             lbs'[i].owner = lbs[i].owner, lbs'[i].up => lbs[i].up
      PROVE  [Ownership!Next]_(Ownership!vars)
  <2>1. \A j \in 1..MaxLbs :
           lbs'[j].owner = lbs[j].owner /\ (j # i => lbs'[j].up = lbs[j].up)
    BY <1>3 DEF LbKept, SameMaker
  <2>2. owner' = owner
    BY <2>1
  <2>3. CASE lbs'[i].up
    BY <1>1, <1>3, <2>1, <2>2, <2>3
  <2>4. CASE ~lbs'[i].up /\ i \in up
    <3>1. up' = up \ {i}
      BY <2>1, <2>4
    <3>2. Ownership!Lose(i)
      BY <2>2, <2>4, <3>1 DEF Ownership!Lose
    <3>3. QED
      BY <3>2 DEF Ownership!Next
  <2>5. CASE ~lbs'[i].up /\ i \notin up
    <3>1. up' = up
      BY <2>1, <2>5
    <3>2. QED
      BY <1>1, <2>2, <3>1
  <2>6. QED
    BY <2>3, <2>4, <2>5
<1>4. ASSUME NEW i \in 1..MaxLbs, \A j \in 1..MaxLbs : j # i => LbKept(j), LbCreated(i)
      PROVE  [Ownership!Next]_(Ownership!vars)
  <2>1. stored.uid = svc.uid /\ svc.uid # 0
    BY <1>4 DEF LbCreated, CreateLoadBalancer, Records, OwnInv, CareInv, PassIsOnItsService, LivePoints,
                History, BlankInv
  <2>2. lbs[i].owner = 0
    BY <1>4 DEF LbCreated, Records, OwnInv, FreshIds
  <2>3. \A j \in 1..MaxLbs : lbs[j].up => lbs[j].owner # stored.uid
    BY <1>4, <2>1 DEF LbCreated, CreateLoadBalancer, Records, AddressInv, CreationInv,
                      NoneBeforeCreate, LoadBalancersNamed
  <2>4. /\ lbs'[i].owner = stored.uid /\ lbs'[i].up
        /\ \A j \in 1..MaxLbs : j # i => lbs'[j].owner = lbs[j].owner /\ lbs'[j].up = lbs[j].up
    BY <1>4, <2>1 DEF LbCreated, LbKept, SameMaker
  <2>5. owner' = [owner EXCEPT ![i] = stored.uid]
    BY <2>4
  <2>6. up' = up \cup {i}
    BY <2>4
  <2>7. Ownership!Create(i)
    BY <2>1, <2>2, <2>3, <2>5, <2>6 DEF Ownership!Create
  <2>8. QED
    BY <2>7 DEF Ownership!Next
<1>5. ASSUME NEW i \in 1..MaxLbs, LbSettled(i) \/ LbGotVip(i) \/ LbRemoved(i)
      PROVE  lbs'[i].owner = lbs[i].owner /\ (lbs'[i].up => lbs[i].up)
  BY <1>5 DEF LbSettled, LbGotVip, LbRemoved, SameMaker, Records, AddressInv, CreationInv,
              InProgressIsUp
<1>6. QED
  BY <1>2, <1>3, <1>4, <1>5, EachLoadBalancer DEF Records, History

(***************************************************************************)
(* The controller implements OwnedLoadBalancers.  The parts of the proof   *)
(* are the theorems above and NeverTwoLoadBalancers: each step of the      *)
(* controller and of its surroundings is one of the steps allowed there,   *)
(* or leaves what that specification speaks of alone.  With a managed rule *)
(* and a cache two versions behind a Service could go before its load      *)
(* balancer does, as the run StaleDelete shows.                            *)
(***************************************************************************)
THEOREM ImplementsOwnership ==
    ASSUME ~Managed \/ MaxLag <= 1, ~OperatorActs
    PROVE  Spec => KeepsOwnership
<1>1. Records /\ [Next]_vars => [Ownership!Next]_(Ownership!vars)
  BY OneAtATime, ServiceSimulates, CloudSimulates
<1>2. Init => Records /\ Ownership!Init
  BY OwnershipInit
<1>3. Records /\ [Next]_vars => Records'
  BY RecordsStep DEF NoHandOrRead
<1>4. QED
  BY <1>1, <1>2, <1>3, PTL DEF Spec, KeepsOwnership, Ownership!Spec
=============================================================================
