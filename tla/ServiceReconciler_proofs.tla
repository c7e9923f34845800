---------------------- MODULE ServiceReconciler_proofs ----------------------
(***************************************************************************)
(* Theorems about the controller, for every value of the constants: its    *)
(* type correctness, and that a Service never has two load balancers.      *)
(***************************************************************************)
EXTENDS ServiceReconciler, TLAPS

-----------------------------------------------------------------------------
(* Facts about the data *)

\* The bounds are natural numbers.
LEMMA BoundsType ==
    /\ MaxUid \in Nat /\ MaxLbs \in Nat /\ MaxOps \in Nat
    /\ MaxEdits \in Nat /\ MaxLag \in Nat
    /\ MaxFaults \in Nat /\ MaxOpFaults \in Nat
BY SpecAssumption, KubeAssumption, ReconcilerAssumption

\* Every counter and id may be 0.
LEMMA ZeroType ==
    /\ 0 \in 0..MaxUid /\ 0 \in 0..MaxLbs /\ 0 \in 0..MaxOps
    /\ 0 \in 0..MaxEdits /\ 0 \in 0..MaxFaults /\ 0 \in 0..MaxOpFaults
    /\ 0 \in Nat
BY BoundsType

\* An absent Service is a Service.
LEMMA NoServiceType == \A rv \in Nat : NoService(rv) \in Service
BY BoundsType DEF NoService, Service, ServiceKinds, LoadBalancerProtocols

\* A load balancer in hand is one the API has handed out.
LEMMA NonzeroId == \A i \in 0..MaxLbs : i # 0 => i \in 1..MaxLbs
BY BoundsType

\* The fields of a Service.
LEMMA ServiceFields ==
    ASSUME NEW s \in Service
    PROVE  /\ s.uid \in 0..MaxUid
           /\ s.rv \in Nat
           /\ s.deleting \in BOOLEAN
           /\ s.finalizer \in BOOLEAN
           /\ s.kind \in ServiceKinds
           /\ s.ports \in Specs \cup {{}}
           /\ s.lbId \in 0..MaxLbs
           /\ s.protocol \in LoadBalancerProtocols \cup {""}
           /\ s.opId \in 0..MaxOps
           /\ s.ruleId \in 0..MaxOps
           /\ s.ip \in 0..MaxLbs
BY DEF Service

\* A Service's ports are ports, and listeners are among them.
LEMMA PortsType ==
    ASSUME NEW s \in Service
    PROVE  s.ports \subseteq Port /\ s.ports \subseteq AllPorts
BY ServiceFields, SpecAssumption DEF AllPorts

\* Only the ports of a Service become listeners.
LEMMA ListenersType ==
    ASSUME NEW s \in Service, NEW protocol
    PROVE  listenersFor(s.ports, protocol) \in SUBSET AllPorts
BY PortsType DEF listenersFor, parseListenPorts, portsServedBy, servicePortsForProtocol

\* A firewall rule's arguments are node ports and port protocols.
LEMMA ArgsType ==
    ASSUME NEW s \in Service
    PROVE  /\ argsOf(s).destinationPorts \in SUBSET Nat
           /\ argsOf(s).protocols \in SUBSET PortProtocols
<1> DEFINE served == portsServedBy(s.ports, s.protocol)
<1>1. served \subseteq Port
  BY PortsType DEF portsServedBy, servicePortsForProtocol
<1>2. {port.nodePort : port \in listenersFor(s.ports, s.protocol)} \subseteq Nat
  BY <1>1 DEF listenersFor, parseListenPorts, Port
<1>3. protocolsOf(served) \subseteq PortProtocols
  BY <1>1 DEF protocolsOf, effectivePortProtocol, Port, PortProtocols
<1>4. QED
  BY <1>2, <1>3 DEF argsOf, firewallRuleArgs

\* A protocol is derived, or the Service is rejected.
LEMMA DerivedProtocol ==
    \A ports : DeriveLoadBalancerProtocol(ports) \in LoadBalancerProtocols \cup {Rejected}
BY DEF DeriveLoadBalancerProtocol, LoadBalancerProtocols

\* A Service with another resource version is a Service.
LEMMA VersionType ==
    ASSUME NEW s \in Service, NEW rv \in Nat
    PROVE  [s EXCEPT !.rv = rv] \in Service
BY DEF Service

\* Load balancers and firewall rules stay such when a field changes.
LEMMA LoadBalancerUpdates ==
    ASSUME NEW l \in LoadBalancer, NEW b \in BOOLEAN,
           NEW op \in {"IN_PROGRESS", "SUCCEEDED", "FAILED"},
           NEW listeners \in SUBSET AllPorts
    PROVE  /\ [l EXCEPT !.listeners = listeners] \in LoadBalancer
           /\ [l EXCEPT !.vip = b] \in LoadBalancer
           /\ [l EXCEPT !.op = op, !.vip = b] \in LoadBalancer
           /\ [l EXCEPT !.op = op, !.up = b] \in LoadBalancer
           /\ [l EXCEPT !.up = b, !.op = op] \in LoadBalancer
BY DEF LoadBalancer

LEMMA FirewallRuleUpdates ==
    ASSUME NEW f \in FirewallRule, NEW b \in BOOLEAN,
           NEW op \in {"STUCK", "SUCCEEDED", "FAILED", "GONE"},
           NEW ports \in SUBSET Nat, NEW protocols \in SUBSET PortProtocols
    PROVE  /\ [f EXCEPT !.op = op] \in FirewallRule
           /\ [f EXCEPT !.rule = b] \in FirewallRule
           /\ [f EXCEPT !.cooled = b] \in FirewallRule
           /\ [f EXCEPT !.op = op, !.rule = b] \in FirewallRule
           /\ [f EXCEPT !.op = op, !.clash = b] \in FirewallRule
           /\ [f EXCEPT !.ports = ports] \in FirewallRule
           /\ [f EXCEPT !.protocols = protocols] \in FirewallRule
BY DEF FirewallRule

\* A write of a Service leaves Services in the API server and in the watch.
LEMMA WriteType ==
    ASSUME KubeTypeOK, NEW new \in Service, Write(new)
    PROVE  stored' \in Service /\ watch' \in Seq(Service)
<1>1. stored.rv \in Nat
  BY ServiceFields DEF KubeTypeOK
<1>2. stored.rv + 1 \in Nat
  BY <1>1
<1>3. NextVersion(new) \in Service
  BY <1>1, <1>2, VersionType, Zenon DEF NextVersion
<1>4. QED
  BY <1>3 DEF Write, KubeTypeOK

-----------------------------------------------------------------------------
(* Type correctness *)

(***************************************************************************)
(* What makes TypeOK inductive: a pass that is about to create has a       *)
(* Service it can derive a protocol from, and one that waits for, records  *)
(* or publishes a load balancer has one in hand.                           *)
(***************************************************************************)
PassIsSound ==
    /\ pc \in {"lookup", "create"} => Servable(svc)
    /\ pc \in {"wait", "record", "publish"} => lb # 0

TypeInv == TypeOK /\ PassIsSound

\* The reconcile's variables, apart from the objects it works on.
LocalTypeOK ==
    /\ pc \in Points
    /\ svc \in Service
    /\ lb \in 0..MaxLbs
    /\ vip \in BOOLEAN
    /\ rule \in 0..MaxOps
    /\ requeue \in BOOLEAN
    /\ PassIsSound

BoundTypeOK ==
    /\ expired \in BOOLEAN
    /\ faults \in 0..MaxFaults
    /\ opFaults \in 0..MaxOpFaults

\* TypeInv falls into the parts the actions work on.
LEMMA TypeInvParts ==
    TypeInv <=> KubeTypeOK /\ CloudTypeOK /\ LocalTypeOK /\ BoundTypeOK
BY DEF TypeInv, TypeOK, LocalTypeOK, BoundTypeOK

LEMMA TypeInvPartsNext ==
    TypeInv' <=> KubeTypeOK' /\ CloudTypeOK' /\ LocalTypeOK' /\ BoundTypeOK'
BY DEF TypeInv, TypeOK, LocalTypeOK, BoundTypeOK

\* The initial values have their types.
LEMMA TypeInit == Init => TypeInv
<1> SUFFICES ASSUME Init PROVE TypeInv
  OBVIOUS
<1>1. NoService(0) \in Service
  BY NoServiceType
<1>2. KubeTypeOK
  <2>1. <<>> \in Seq(Service)
    OBVIOUS
  <2>2. QED
    BY <1>1, <2>1, ZeroType DEF Init, KubeInit, KubeTypeOK
<1>3. NoLoadBalancer \in LoadBalancer /\ NoFirewallRule \in FirewallRule
  BY BoundsType DEF NoLoadBalancer, LoadBalancer, NoFirewallRule, FirewallRule
<1>4. CloudTypeOK
  BY <1>3 DEF Init, CloudInit, CloudTypeOK
<1>5. LocalTypeOK
  BY <1>1, ZeroType DEF Init, LocalsInit, LocalTypeOK, PassIsSound, Points
<1>6. BoundTypeOK
  BY ZeroType DEF Init, BoundTypeOK
<1>7. QED
  BY <1>2, <1>4, <1>5, <1>6, TypeInvParts

\* The end of a pass leaves the reconcile's variables well typed.
LEMMA DropLocalsType == DropLocals => LocalTypeOK'
BY NoServiceType, ZeroType DEF DropLocals, LocalTypeOK, PassIsSound, Points

LEMMA FinishType ==
    ASSUME TypeInv, NEW retry \in BOOLEAN, Finish(retry)
    PROVE  LocalTypeOK' /\ delayed' \in BOOLEAN
BY DropLocalsType, TypeInvParts DEF Finish, KubeTypeOK

\* A patch of the stored Service keeps the types.
LEMMA PatchType ==
    ASSUME TypeInv, NEW new \in Service, Patch(new)
    PROVE  stored' \in Service /\ watch' \in Seq(Service) /\ svc' \in Service
BY WriteType, TypeInvParts DEF Patch

\* The operations a Service needs of its type checker when a field changes.
LEMMA UpdatedType ==
    ASSUME NEW s \in Service,
           NEW i \in 0..MaxLbs, NEW o \in 0..MaxOps, NEW p \in 0..MaxOps,
           NEW protocol \in LoadBalancerProtocols
    PROVE  /\ [s EXCEPT !.lbId = i, !.protocol = protocol] \in Service
           /\ [s EXCEPT !.ip = i] \in Service
           /\ [s EXCEPT !.ruleId = o] \in Service
           /\ [s EXCEPT !.ruleId = o, !.opId = p] \in Service
           /\ [s EXCEPT !.opId = o, !.ruleId = p] \in Service
           /\ [s EXCEPT !.finalizer = TRUE] \in Service
           /\ [s EXCEPT !.deleting = TRUE] \in Service
BY DEF Service

\* Steps that leave the Kubernetes side alone, but for `delayed'.
LEMMA KubeUnchangedType ==
    ASSUME TypeInv, KubeUnchanged, delayed' \in BOOLEAN
    PROVE  KubeTypeOK' /\ BoundTypeOK'
BY TypeInvParts DEF KubeUnchanged, OutsideUnchanged, KubeTypeOK, BoundTypeOK

\* Steps that write the stored Service.
LEMMA WriterType ==
    ASSUME TypeInv, OutsideUnchanged,
           stored' \in Service, watch' \in Seq(Service), delayed' \in BOOLEAN
    PROVE  KubeTypeOK' /\ BoundTypeOK'
BY TypeInvParts DEF OutsideUnchanged, KubeTypeOK, BoundTypeOK

\* Steps that leave the Crusoe API alone.
LEMMA CloudUnchangedType ==
    ASSUME TypeInv, UNCHANGED cloudVars
    PROVE  CloudTypeOK'
BY TypeInvParts DEF cloudVars, CloudTypeOK

\* A step to another point of the pass that checks and sets nothing.
LEMMA GotoType ==
    ASSUME TypeInv, NEW point, Goto(point),
           point \in Points \ {"lookup", "create", "wait", "record", "publish"},
           svc' \in Service, lb' \in 0..MaxLbs, vip' \in BOOLEAN,
           rule' \in 0..MaxOps, requeue' \in BOOLEAN
    PROVE  LocalTypeOK' /\ delayed' \in BOOLEAN
BY TypeInvParts DEF Goto, LocalTypeOK, PassIsSound, KubeTypeOK

\* handleCreate up to the create request.
LEMMA CreateType1 ==
    ASSUME TypeInv, HandleCreate \/ LookUp
    PROVE  TypeInv'
<1>1. KubeUnchanged /\ UNCHANGED cloudVars
  BY DEF HandleCreate, LookUp
<1>2. CASE HandleCreate
  <2>1. CASE Finish(FALSE) \/ Finish(TRUE)
    BY <1>1, <2>1, FinishType, KubeUnchangedType, CloudUnchangedType, TypeInvPartsNext
  <2>2. CASE /\ DeriveLoadBalancerProtocol(svc.ports) # Rejected
             /\ Goto("lookup")
             /\ UNCHANGED locals
    <3>1. LocalTypeOK' /\ delayed' \in BOOLEAN
      BY <2>2, TypeInvParts
      DEF Goto, locals, LocalTypeOK, PassIsSound, Points, Servable, KubeTypeOK
    <3>2. QED
      BY <1>1, <3>1, KubeUnchangedType, CloudUnchangedType, TypeInvPartsNext
  <2>3. QED
    BY <1>2, <2>1, <2>2 DEF HandleCreate
<1>3. CASE LookUp
  <2>1. pc = "lookup" /\ Servable(svc)
    BY <1>3 DEF LookUp, TypeInv, PassIsSound
  <2>2. ASSUME NEW i \in findExistingLoadBalancer(svc), lb' = i, vip' = lbs[i].vip,
               Goto("record"), UNCHANGED <<svc, rule, requeue>>
        PROVE  LocalTypeOK' /\ delayed' \in BOOLEAN
    <3>1. i \in 1..MaxLbs
      BY DEF findExistingLoadBalancer, LoadBalancersNamed
    <3>2. lbs[i].vip \in BOOLEAN
      BY <3>1, TypeInvParts DEF CloudTypeOK, LoadBalancer
    <3>3. lb' \in 0..MaxLbs /\ lb' # 0
      BY <2>2, <3>1, BoundsType
    <3>4. QED
      BY <2>2, <3>2, <3>3, TypeInvParts
      DEF Goto, LocalTypeOK, PassIsSound, Points, KubeTypeOK
  <2>3. ASSUME Goto("create"), UNCHANGED locals
        PROVE  LocalTypeOK' /\ delayed' \in BOOLEAN
    BY <2>1, <2>3, TypeInvParts
    DEF Goto, locals, LocalTypeOK, PassIsSound, Points, Servable, KubeTypeOK
  <2>4. LocalTypeOK' /\ delayed' \in BOOLEAN
    BY <1>3, <2>2, <2>3 DEF LookUp
  <2>5. QED
    BY <1>1, <2>4, KubeUnchangedType, CloudUnchangedType, TypeInvPartsNext
<1>4. QED
  BY <1>2, <1>3

\* The create request and the wait for its operation.
LEMMA CreateType2 ==
    ASSUME TypeInv, CreateLoadBalancer \/ CreateRefused \/ WaitForOperation
    PROVE  TypeInv'
<1>1. CASE CreateLoadBalancer
  <2> DEFINE protocol == DeriveLoadBalancerProtocol(svc.ports)
             listeners == listenersFor(svc.ports, protocol)
  <2>1. PICK i \in NextLoadBalancerId :
           AcceptLoadBalancer(i, svc.uid, protocol, listeners) /\ lb' = i
    BY <1>1 DEF CreateLoadBalancer
  <2>2. i \in 1..MaxLbs /\ i \in 0..MaxLbs /\ i # 0
    BY BoundsType DEF NextLoadBalancerId
  <2>3. svc \in Service /\ svc.uid \in 0..MaxUid
    BY TypeInvParts, ServiceFields DEF LocalTypeOK
  <2>4. protocol \in LoadBalancerProtocols
    BY <1>1, DerivedProtocol DEF CreateLoadBalancer, TypeInv, PassIsSound, Servable
  <2>5. listeners \in SUBSET AllPorts
    BY <2>3, ListenersType
  <2> DEFINE new == [owner |-> svc.uid, op |-> "IN_PROGRESS", up |-> TRUE,
                     vip |-> FALSE, protocol |-> protocol, listeners |-> listeners]
  <2>6. new \in LoadBalancer
    BY <2>3, <2>4, <2>5 DEF LoadBalancer
  <2>7. lbs' = [lbs EXCEPT ![i] = new] /\ fws' = fws
    BY <1>1, <2>1 DEF CreateLoadBalancer, AcceptLoadBalancer
  <2> HIDE DEF new
  <2>8. CloudTypeOK'
    BY <2>2, <2>6, <2>7, TypeInvParts DEF CloudTypeOK
  <2>9. LocalTypeOK' /\ delayed' \in BOOLEAN
    BY <1>1, <2>1, <2>2, TypeInvParts
    DEF CreateLoadBalancer, Goto, LocalTypeOK, PassIsSound, Points, KubeTypeOK
  <2>10. QED
    BY <1>1, <2>8, <2>9, KubeUnchangedType, TypeInvPartsNext DEF CreateLoadBalancer
<1>2. CASE CreateRefused
  BY <1>2, FinishType, KubeUnchangedType, CloudUnchangedType, TypeInvPartsNext DEF CreateRefused
<1>3. CASE WaitForOperation
  <2>1. lb \in 0..MaxLbs /\ lb # 0
    BY <1>3, TypeInvParts DEF WaitForOperation, LocalTypeOK, PassIsSound
  <2>2. lbs[lb].vip \in BOOLEAN
    BY <2>1, NonzeroId, TypeInvParts DEF CloudTypeOK, LoadBalancer
  <2>3. ASSUME vip' = lbs[lb].vip, Goto("record"), UNCHANGED <<svc, lb, rule, requeue>>
        PROVE  LocalTypeOK' /\ delayed' \in BOOLEAN
    BY <2>1, <2>2, <2>3, TypeInvParts DEF Goto, LocalTypeOK, PassIsSound, Points, KubeTypeOK
  <2>4. LocalTypeOK' /\ delayed' \in BOOLEAN
    BY <1>3, <2>3, FinishType DEF WaitForOperation
  <2>5. QED
    BY <1>3, <2>4, KubeUnchangedType, CloudUnchangedType, TypeInvPartsNext DEF WaitForOperation
<1>4. QED
  BY <1>1, <1>2, <1>3

\* recordLoadBalancer.
LEMMA RecordType ==
    ASSUME TypeInv, RecordLoadBalancer \/ SetLoadBalancerIngress
    PROVE  TypeInv'
<1>1. stored \in Service /\ watch \in Seq(Service) /\ svc \in Service
  BY TypeInvParts DEF KubeTypeOK, LocalTypeOK
<1>2. lb \in 0..MaxLbs /\ lb # 0
  BY TypeInvParts DEF RecordLoadBalancer, SetLoadBalancerIngress, LocalTypeOK, PassIsSound
<1>3. OutsideUnchanged /\ UNCHANGED cloudVars
  BY DEF RecordLoadBalancer, SetLoadBalancerIngress
<1>4. CASE RecordLoadBalancer
  <2>1. lbs[lb].protocol \in LoadBalancerProtocols \cup {""}
    BY <1>2, NonzeroId, TypeInvParts DEF CloudTypeOK, LoadBalancer
  <2>2. WithLoadBalancer(stored, lb) \in Service
    BY <1>1, <1>2, <2>1 DEF WithLoadBalancer, Service
  <2>3. ASSUME Patch(WithLoadBalancer(stored, lb)), Goto("publish"),
               UNCHANGED <<lb, vip, rule, requeue>>
        PROVE  TypeInv'
    <3>1. stored' \in Service /\ watch' \in Seq(Service) /\ svc' \in Service
      BY <2>2, <2>3, PatchType
    <3>2. LocalTypeOK' /\ delayed' \in BOOLEAN
      BY <1>2, <2>3, <3>1, TypeInvParts DEF Goto, LocalTypeOK, PassIsSound, Points, KubeTypeOK
    <3>3. QED
      BY <1>3, <3>1, <3>2, WriterType, CloudUnchangedType, TypeInvPartsNext
  <2>4. ASSUME Write(WithLoadBalancer(stored, lb)), Finish(TRUE)
        PROVE  TypeInv'
    BY <1>3, <2>2, <2>4, WriteType, TypeInvParts, FinishType, WriterType,
       CloudUnchangedType, TypeInvPartsNext
  <2>5. ASSUME Finish(TRUE), UNCHANGED <<stored, watch>>
        PROVE  TypeInv'
    BY <1>1, <1>3, <2>5, FinishType, WriterType, CloudUnchangedType, TypeInvPartsNext
  <2>6. QED
    BY <1>4, <2>3, <2>4, <2>5 DEF RecordLoadBalancer
<1>5. CASE SetLoadBalancerIngress
  <2>1. [stored EXCEPT !.ip = lb] \in Service
    BY <1>1, <1>2 DEF Service
  <2>2. ASSUME Patch([stored EXCEPT !.ip = lb]), Goto("ensureFirewallRule"),
               UNCHANGED <<lb, vip, rule, requeue>>
        PROVE  TypeInv'
    <3>1. stored' \in Service /\ watch' \in Seq(Service) /\ svc' \in Service
      BY <2>1, <2>2, PatchType
    <3>2. LocalTypeOK' /\ delayed' \in BOOLEAN
      BY <2>2, <3>1, TypeInvParts DEF Goto, LocalTypeOK, PassIsSound, Points, KubeTypeOK
    <3>3. QED
      BY <1>3, <3>1, <3>2, WriterType, CloudUnchangedType, TypeInvPartsNext
  <2>3. ASSUME Finish(TRUE), UNCHANGED <<stored, watch>>
        PROVE  TypeInv'
    BY <1>1, <1>3, <2>3, FinishType, WriterType, CloudUnchangedType, TypeInvPartsNext
  <2>4. QED
    BY <1>5, <2>2, <2>3 DEF SetLoadBalancerIngress
<1>6. QED
  BY <1>4, <1>5

\* The dispatch of a reconcile, and the finalizer.
LEMMA ReconcileType ==
    ASSUME TypeInv, Reconcile \/ AddFinalizer
    PROVE  TypeInv'
<1>1. /\ stored \in Service /\ watch \in Seq(Service)
      /\ cached \in Service /\ svc \in Service
  BY TypeInvParts DEF KubeTypeOK, LocalTypeOK
<1>2. \A s : Operation(s) \in Points \ {"lookup", "create", "wait", "record", "publish"}
  BY DEF Operation, Points
<1>3. CASE Reconcile
  <2>1. KubeTypeOK' /\ BoundTypeOK' /\ CloudTypeOK'
    BY <1>3, TypeInvParts
    DEF Reconcile, cloudVars, KubeTypeOK, BoundTypeOK, CloudTypeOK
  <2>2. CASE Ignores(cached)
    BY <1>3, <2>1, <2>2, TypeInvParts, TypeInvPartsNext
    DEF Reconcile, locals, LocalTypeOK, PassIsSound, Servable
  <2>3. CASE ~Ignores(cached)
    <3>1. cached.lbId \in 0..MaxLbs /\ cached.deleting \in BOOLEAN /\ cached.finalizer \in BOOLEAN
      BY <1>1, ServiceFields
    <3>2. FirstStep(cached) \in Points \ {"lookup", "create", "wait", "record", "publish"}
      BY <3>1, <1>2 DEF FirstStep, Points
    <3>3. LocalTypeOK'
      BY <1>1, <1>3, <2>3, <3>1, <3>2, TypeInvParts DEF Reconcile, LocalTypeOK, PassIsSound
    <3>4. QED
      BY <2>1, <3>3, TypeInvPartsNext
  <2>4. QED
    BY <2>2, <2>3
<1>4. CASE AddFinalizer
  <2>1. [svc EXCEPT !.finalizer = TRUE] \in Service
    BY <1>1 DEF Service
  <2>2. ASSUME Write([svc EXCEPT !.finalizer = TRUE]), svc' = stored',
               Goto(Operation(svc)), UNCHANGED <<lb, vip, rule, requeue>>
        PROVE  TypeInv'
    <3>1. stored' \in Service /\ watch' \in Seq(Service)
      BY <2>1, <2>2, WriteType, TypeInvParts
    <3>2. LocalTypeOK' /\ delayed' \in BOOLEAN
      <4>1. /\ lb' \in 0..MaxLbs /\ vip' \in BOOLEAN
            /\ rule' \in 0..MaxOps /\ requeue' \in BOOLEAN
        BY <2>2, TypeInvParts DEF LocalTypeOK
      <4>2. QED
        BY <1>2, <2>2, <3>1, <4>1, GotoType
    <3>3. QED
      BY <1>4, <3>1, <3>2, WriterType, CloudUnchangedType, TypeInvPartsNext DEF AddFinalizer
  <2>3. ASSUME Finish(TRUE), UNCHANGED <<stored, watch>>
        PROVE  TypeInv'
    BY <1>1, <1>4, <2>3, FinishType, WriterType, CloudUnchangedType, TypeInvPartsNext
    DEF AddFinalizer
  <2>4. QED
    BY <1>4, <2>2, <2>3 DEF AddFinalizer
<1>5. QED
  BY <1>3, <1>4

\* handleUpdate.
LEMMA UpdateType ==
    ASSUME TypeInv, EnsureLoadBalancerIngress \/ RestoreIngress \/ UpdateLoadBalancer
    PROVE  TypeInv'
<1>1. /\ stored \in Service /\ watch \in Seq(Service) /\ svc \in Service
      /\ lb \in 0..MaxLbs /\ vip \in BOOLEAN /\ rule \in 0..MaxOps /\ requeue \in BOOLEAN
  BY TypeInvParts DEF KubeTypeOK, LocalTypeOK
<1>2. {"restoreIngress", "updateLoadBalancer", "ensureFirewallRule"}
         \subseteq Points \ {"lookup", "create", "wait", "record", "publish"}
  BY DEF Points
<1>3. CASE EnsureLoadBalancerIngress
  <2>1. /\ svc' \in Service /\ lb' \in 0..MaxLbs /\ vip' \in BOOLEAN
        /\ rule' \in 0..MaxOps /\ requeue' \in BOOLEAN
    BY <1>1, <1>3 DEF EnsureLoadBalancerIngress
  <2>2. Goto("restoreIngress") \/ Goto("updateLoadBalancer")
    BY <1>3 DEF EnsureLoadBalancerIngress
  <2>3. LocalTypeOK' /\ delayed' \in BOOLEAN
    BY <1>2, <2>1, <2>2, GotoType
  <2>4. QED
    BY <1>3, <2>3, KubeUnchangedType, CloudUnchangedType, TypeInvPartsNext
    DEF EnsureLoadBalancerIngress
<1>4. CASE RestoreIngress
  <2>1. [stored EXCEPT !.ip = svc.lbId] \in Service
    <3>1. svc.lbId \in 0..MaxLbs
      BY <1>1, ServiceFields
    <3>2. QED
      BY <1>1, <3>1 DEF Service
  <2>2. stored' \in Service /\ watch' \in Seq(Service) /\ svc' \in Service /\ requeue' \in BOOLEAN
    BY <1>1, <1>4, <2>1, PatchType DEF RestoreIngress
  <2>3. LocalTypeOK' /\ delayed' \in BOOLEAN
    BY <1>1, <1>2, <1>4, <2>2, GotoType DEF RestoreIngress
  <2>4. QED
    BY <1>4, <2>2, <2>3, WriterType, CloudUnchangedType, TypeInvPartsNext
    DEF RestoreIngress, OutsideUnchanged
<1>5. CASE UpdateLoadBalancer
  <2>1. LocalTypeOK' /\ delayed' \in BOOLEAN
    <3>1. Finish(TRUE) \/ (Goto("ensureFirewallRule") /\ UNCHANGED locals)
      BY <1>5 DEF UpdateLoadBalancer
    <3>2. ASSUME Goto("ensureFirewallRule"), UNCHANGED locals
          PROVE  LocalTypeOK' /\ delayed' \in BOOLEAN
      BY <1>1, <1>2, <3>2, GotoType DEF locals
    <3>3. QED
      BY <3>1, <3>2, FinishType
  <2>2. CloudTypeOK'
    <3>1. listenersFor(svc.ports, svc.protocol) \in SUBSET AllPorts
      BY <1>1, ListenersType
    <3>2. ASSUME AcceptsUpdate(svc.lbId, listenersFor(svc.ports, svc.protocol)),
                 lbs' = [lbs EXCEPT ![svc.lbId].listeners = listenersFor(svc.ports, svc.protocol)]
          PROVE  CloudTypeOK'
      <4>1. svc.lbId \in 1..MaxLbs
        BY <1>1, <3>2, ServiceFields, NonzeroId DEF AcceptsUpdate, LbIsUp
      <4>2. [lbs[svc.lbId] EXCEPT !.listeners = listenersFor(svc.ports, svc.protocol)] \in LoadBalancer
        <5>1. lbs[svc.lbId] \in LoadBalancer
          BY <4>1, TypeInvParts DEF CloudTypeOK
        <5>2. QED
          BY <3>1, <5>1, LoadBalancerUpdates
      <4>3. lbs' \in [1..MaxLbs -> LoadBalancer]
        BY <3>2, <4>2, TypeInvParts DEF CloudTypeOK
      <4>4. QED
        BY <1>5, <4>3, TypeInvParts DEF UpdateLoadBalancer, CloudTypeOK
    <3>3. CASE UNCHANGED lbs
      BY <1>5, <3>3, TypeInvParts DEF UpdateLoadBalancer, CloudTypeOK
    <3>4. QED
      BY <1>5, <3>2, <3>3 DEF UpdateLoadBalancer, locals
  <2>3. QED
    BY <1>5, <2>1, <2>2, KubeUnchangedType, TypeInvPartsNext DEF UpdateLoadBalancer
<1>6. QED
  BY <1>3, <1>4, <1>5

\* ensureFirewallRule up to its own API calls.
LEMMA EnsureRuleType1 ==
    ASSUME TypeInv, EnsureFirewallRule \/ AdoptFirewallRule
    PROVE  TypeInv'
<1>1. /\ svc \in Service /\ lb \in 0..MaxLbs /\ vip \in BOOLEAN
      /\ rule \in 0..MaxOps /\ requeue \in BOOLEAN
  BY TypeInvParts DEF LocalTypeOK
<1>2. {"createFirewallRule", "patchFirewallRule", "adoptFirewallRule", "recordRule", "recordAdopted"}
         \subseteq Points \ {"lookup", "create", "wait", "record", "publish"}
  BY DEF Points
<1>3. KubeUnchanged /\ UNCHANGED cloudVars
  BY DEF EnsureFirewallRule, AdoptFirewallRule
<1>4. ASSUME NEW point \in {"createFirewallRule", "patchFirewallRule", "adoptFirewallRule"},
             Goto(point), UNCHANGED locals
      PROVE  LocalTypeOK' /\ delayed' \in BOOLEAN
  BY <1>1, <1>2, <1>4, GotoType DEF locals
<1>5. ASSUME NEW point \in {"recordRule", "recordAdopted"}, NEW o \in 0..MaxOps,
             rule' = o, Goto(point), UNCHANGED <<svc, lb, vip, requeue>>
      PROVE  LocalTypeOK' /\ delayed' \in BOOLEAN
  BY <1>1, <1>2, <1>5, GotoType
<1>6. ASSUME NEW retry \in BOOLEAN, Finish(retry)
      PROVE  LocalTypeOK' /\ delayed' \in BOOLEAN
  BY <1>6, FinishType
<1>7. CASE EnsureFirewallRule
  <2>1. svc.opId \in 0..MaxOps
    BY <1>1, ServiceFields
  <2>2. ASSUME NoFirewallRuleWanted
        PROVE  LocalTypeOK' /\ delayed' \in BOOLEAN
    BY <1>1, <1>6, <2>2 DEF NoFirewallRuleWanted
  <2>3. ASSUME CheckFirewallRule
        PROVE  LocalTypeOK' /\ delayed' \in BOOLEAN
    BY <1>1, <1>4, <1>6, <2>3 DEF CheckFirewallRule
  <2>4. ASSUME ResolveOperation
        PROVE  LocalTypeOK' /\ delayed' \in BOOLEAN
    BY <1>4, <1>5, <1>6, <2>1, <2>4 DEF ResolveOperation
  <2>5. LocalTypeOK' /\ delayed' \in BOOLEAN
    BY <1>4, <1>7, <2>2, <2>3, <2>4 DEF EnsureFirewallRule
  <2>6. QED
    BY <1>3, <2>5, KubeUnchangedType, CloudUnchangedType, TypeInvPartsNext
<1>8. CASE AdoptFirewallRule
  <2>1. RulesNamed(svc.uid) \subseteq 0..MaxOps
    BY BoundsType DEF RulesNamed
  <2>2. LocalTypeOK' /\ delayed' \in BOOLEAN
    BY <1>4, <1>5, <1>6, <1>8, <2>1 DEF AdoptFirewallRule
  <2>3. QED
    BY <1>3, <2>2, KubeUnchangedType, CloudUnchangedType, TypeInvPartsNext
<1>9. QED
  BY <1>7, <1>8

\* ensureFirewallRule's requests to the Crusoe API.
LEMMA EnsureRuleType2 ==
    ASSUME TypeInv, PatchFirewallRule \/ CreateFirewallRule
    PROVE  TypeInv'
<1>1. /\ svc \in Service /\ lb \in 0..MaxLbs /\ vip \in BOOLEAN
      /\ rule \in 0..MaxOps /\ requeue \in BOOLEAN
  BY TypeInvParts DEF LocalTypeOK
<1>2. fws \in [1..MaxOps -> FirewallRule]
  BY TypeInvParts DEF CloudTypeOK
<1>3. KubeUnchanged /\ UNCHANGED lbs
  BY DEF PatchFirewallRule, CreateFirewallRule
<1>4. argsOf(svc).destinationPorts \in SUBSET Nat /\ argsOf(svc).protocols \in SUBSET PortProtocols
  BY <1>1, ArgsType
<1>5. ASSUME fws' \in [1..MaxOps -> FirewallRule]
      PROVE  CloudTypeOK'
  BY <1>3, <1>5, TypeInvParts DEF CloudTypeOK
<1>6. CASE PatchFirewallRule
  <2>1. LocalTypeOK' /\ delayed' \in BOOLEAN
    BY <1>1, <1>6, FinishType DEF PatchFirewallRule
  <2> DEFINE ported == [fws EXCEPT ![svc.ruleId].ports = argsOf(svc).destinationPorts]
  <2>2. ported \in [1..MaxOps -> FirewallRule]
    <3>1. \A o \in 1..MaxOps :
             [fws[o] EXCEPT !.ports = argsOf(svc).destinationPorts] \in FirewallRule
      BY <1>2, <1>4, FirewallRuleUpdates
    <3>2. QED
      BY <1>2, <3>1
  <2>3. fws' \in [1..MaxOps -> FirewallRule]
    <3>1. fws' = [ported EXCEPT ![svc.ruleId].protocols = argsOf(svc).protocols] \/ fws' = fws
      BY <1>6 DEF PatchFirewallRule
    <3> HIDE DEF ported
    <3>2. \A o \in 1..MaxOps :
             [ported[o] EXCEPT !.protocols = argsOf(svc).protocols] \in FirewallRule
      BY <1>4, <2>2, FirewallRuleUpdates
    <3>3. QED
      BY <1>2, <2>2, <3>1, <3>2
  <2>4. QED
    BY <1>3, <1>5, <2>1, <2>3, KubeUnchangedType, TypeInvPartsNext
<1>7. CASE CreateFirewallRule
  <2>1. ASSUME NEW o \in NextOperationId,
               AcceptFirewallRule(o, svc.uid, argsOf(svc), stored.deleting,
                                  MissesRecord(svc)),
               rule' = o, Goto("recordOperation"), UNCHANGED <<svc, lb, vip, requeue>>
        PROVE  /\ fws' \in [1..MaxOps -> FirewallRule]
               /\ LocalTypeOK' /\ delayed' \in BOOLEAN
    <3>1. o \in 1..MaxOps /\ o \in 0..MaxOps
      BY BoundsType DEF NextOperationId
    <3>2. svc.uid \in 0..MaxUid /\ stored.deleting \in BOOLEAN
      BY <1>1, ServiceFields, TypeInvParts DEF KubeTypeOK
    <3> DEFINE new == [NoFirewallRule EXCEPT
                         !.owner = svc.uid, !.op = "IN_PROGRESS", !.late = stored.deleting,
                         !.blind = MissesRecord(svc),
                         !.ports = argsOf(svc).destinationPorts,
                         !.protocols = argsOf(svc).protocols]
    <3>3. new \in FirewallRule
      BY <1>4, <3>2 DEF NoFirewallRule, FirewallRule, MissesRecord
    <3>4. fws' = [fws EXCEPT ![o] = new]
      BY <2>1 DEF AcceptFirewallRule
    <3> HIDE DEF new
    <3>5. fws' \in [1..MaxOps -> FirewallRule]
      BY <1>2, <3>3, <3>4
    <3>6. "recordOperation" \in Points \ {"lookup", "create", "wait", "record", "publish"}
      BY DEF Points
    <3>7. QED
      BY <1>1, <2>1, <3>1, <3>5, <3>6, GotoType
  <2>2. fws' \in [1..MaxOps -> FirewallRule] /\ LocalTypeOK' /\ delayed' \in BOOLEAN
    BY <1>2, <1>7, <2>1, FinishType DEF CreateFirewallRule
  <2>3. QED
    BY <1>3, <1>5, <2>2, KubeUnchangedType, TypeInvPartsNext
<1>8. QED
  BY <1>6, <1>7

\* ensureFirewallRule's patches of the Service.
LEMMA PatchAndFinishType ==
    ASSUME TypeInv, NEW new \in Service, NEW retry \in BOOLEAN, PatchAndFinish(new, retry)
    PROVE  TypeInv'
<1>1. OutsideUnchanged /\ UNCHANGED cloudVars
  BY DEF PatchAndFinish
<1>2. LocalTypeOK' /\ delayed' \in BOOLEAN
  BY FinishType DEF PatchAndFinish
<1>3. stored' \in Service /\ watch' \in Seq(Service)
  BY WriteType, TypeInvParts DEF PatchAndFinish, KubeTypeOK
<1>4. QED
  BY <1>1, <1>2, <1>3, WriterType, CloudUnchangedType, TypeInvPartsNext

LEMMA RecordRuleType ==
    ASSUME TypeInv, RecordRule \/ RecordAdoptedRule \/ RecordOperation
    PROVE  TypeInv'
<1>1. /\ stored \in Service /\ svc \in Service
      /\ rule \in 0..MaxOps /\ requeue \in BOOLEAN
  BY TypeInvParts DEF KubeTypeOK, LocalTypeOK
<1>2. stored.ruleId \in 0..MaxOps
  BY <1>1, ServiceFields
<1>3. [stored EXCEPT !.ruleId = rule] \in Service
  BY <1>1, UpdatedType, ZeroType DEF LoadBalancerProtocols
<1>4. [stored EXCEPT !.ruleId = rule, !.opId = 0] \in Service
  BY <1>1, UpdatedType, ZeroType DEF LoadBalancerProtocols
<1>5. WithOperation(stored, rule) \in Service
  <2>1. (IF svc.ruleId # 0 THEN 0 ELSE stored.ruleId) \in 0..MaxOps
    BY <1>2, ZeroType
  <2>2. QED
    BY <1>1, <2>1 DEF WithOperation, Service
<1>6. QED
  BY <1>1, <1>3, <1>4, <1>5, PatchAndFinishType DEF RecordRule, RecordAdoptedRule, RecordOperation

\* Removing a rule or a load balancer.
LEMMA RemoveRuleType ==
    ASSUME TypeInv, NEW o, RemoveRule(o), UNCHANGED lbs
    PROVE  CloudTypeOK'
<1>1. fws \in [1..MaxOps -> FirewallRule]
  BY TypeInvParts DEF CloudTypeOK
<1>2. \A p \in 1..MaxOps : [fws[p] EXCEPT !.rule = FALSE] \in FirewallRule
  BY <1>1, FirewallRuleUpdates
<1>3. fws' \in [1..MaxOps -> FirewallRule]
  BY <1>1, <1>2 DEF RemoveRule
<1>4. QED
  BY <1>3, TypeInvParts DEF CloudTypeOK

LEMMA RemoveLoadBalancerType ==
    ASSUME TypeInv, NEW i \in 1..MaxLbs, RemoveLoadBalancer(i), UNCHANGED fws
    PROVE  CloudTypeOK'
<1>1. lbs \in [1..MaxLbs -> LoadBalancer]
  BY TypeInvParts DEF CloudTypeOK
<1> DEFINE op == IF lbs[i].op = "IN_PROGRESS" THEN "FAILED" ELSE lbs[i].op
           new == [lbs[i] EXCEPT !.up = FALSE, !.op = op]
<1>2. lbs[i] \in LoadBalancer
  BY <1>1
<1>3. new \in LoadBalancer
  BY <1>2 DEF LoadBalancer
<1>4. lbs' = [lbs EXCEPT ![i] = new]
  BY <1>1, <1>2 DEF RemoveLoadBalancer, LoadBalancer
<1> HIDE DEF new
<1>5. lbs' \in [1..MaxLbs -> LoadBalancer]
  BY <1>1, <1>3, <1>4
<1>6. QED
  BY <1>5, TypeInvParts DEF CloudTypeOK

\* handleDelete up to its API calls.
LEMMA DeleteType1 ==
    ASSUME TypeInv, DeleteFirewallRule \/ FindRule
    PROVE  TypeInv'
<1>1. /\ svc \in Service /\ lb \in 0..MaxLbs /\ vip \in BOOLEAN
      /\ rule \in 0..MaxOps /\ requeue \in BOOLEAN
  BY TypeInvParts DEF LocalTypeOK
<1>2. {"deleteLoadBalancer", "deleteRule", "findRule"}
         \subseteq Points \ {"lookup", "create", "wait", "record", "publish"}
  BY DEF Points
<1>3. KubeUnchanged /\ UNCHANGED cloudVars
  BY DEF DeleteFirewallRule, FindRule
<1>4. ASSUME NEW point \in {"deleteLoadBalancer", "findRule"}, Goto(point), UNCHANGED locals
      PROVE  LocalTypeOK' /\ delayed' \in BOOLEAN
  BY <1>1, <1>2, <1>4, GotoType DEF locals
<1>5. ASSUME NEW o \in 0..MaxOps, rule' = o, Goto("deleteRule"),
             UNCHANGED <<svc, lb, vip, requeue>>
      PROVE  LocalTypeOK' /\ delayed' \in BOOLEAN
  BY <1>1, <1>2, <1>5, GotoType
<1>6. svc.opId \in 0..MaxOps /\ svc.ruleId \in 0..MaxOps
  BY <1>1, ServiceFields
<1>7. RulesNamed(svc.uid) \subseteq 0..MaxOps
  BY BoundsType DEF RulesNamed
<1>8. ASSUME DeleteFirewallRule
      PROVE  LocalTypeOK' /\ delayed' \in BOOLEAN
  BY <1>4, <1>5, <1>6, <1>8, FinishType DEF DeleteFirewallRule
<1>9. ASSUME FindRule
      PROVE  LocalTypeOK' /\ delayed' \in BOOLEAN
  BY <1>4, <1>5, <1>7, <1>9 DEF FindRule
<1>10. QED
  BY <1>3, <1>8, <1>9, KubeUnchangedType, CloudUnchangedType, TypeInvPartsNext

\* handleDelete's requests to the Crusoe API.
LEMMA DeleteType2 ==
    ASSUME TypeInv, DeleteRule \/ DeleteLoadBalancer
    PROVE  TypeInv'
<1>1. /\ svc \in Service /\ lb \in 0..MaxLbs /\ vip \in BOOLEAN
      /\ rule \in 0..MaxOps /\ requeue \in BOOLEAN
  BY TypeInvParts DEF LocalTypeOK
<1>2. {"clearRule", "removeFinalizer"}
         \subseteq Points \ {"lookup", "create", "wait", "record", "publish"}
  BY DEF Points
<1>3. LocalTypeOK' /\ delayed' \in BOOLEAN
  BY <1>1, <1>2, GotoType DEF DeleteRule, DeleteLoadBalancer, locals
<1>4. CloudTypeOK'
  <2>1. CASE DeleteRule
    BY <2>1, RemoveRuleType DEF DeleteRule
  <2>2. CASE DeleteLoadBalancer
    <3>1. CASE lb = 0
      BY <2>2, <3>1, CloudUnchangedType DEF DeleteLoadBalancer, cloudVars
    <3>2. CASE lb # 0
      BY <1>1, <2>2, <3>2, NonzeroId, RemoveLoadBalancerType DEF DeleteLoadBalancer
    <3>3. QED
      BY <3>1, <3>2
  <2>3. QED
    BY <2>1, <2>2
<1>5. KubeUnchanged
  BY DEF DeleteRule, DeleteLoadBalancer
<1>6. QED
  BY <1>3, <1>4, <1>5, KubeUnchangedType, TypeInvPartsNext

\* handleDelete's writes to the Service.
LEMMA DeleteType3 ==
    ASSUME TypeInv, ClearRule \/ RemoveFinalizer
    PROVE  TypeInv'
<1>1. /\ stored \in Service /\ watch \in Seq(Service) /\ svc \in Service
      /\ lb \in 0..MaxLbs /\ vip \in BOOLEAN
      /\ rule \in 0..MaxOps /\ requeue \in BOOLEAN
  BY TypeInvParts DEF KubeTypeOK, LocalTypeOK
<1>2. UNCHANGED cloudVars
  BY DEF ClearRule, RemoveFinalizer
<1>3. CASE ClearRule
  <2>1. WithoutRule(stored) \in Service
    <3>1. /\ (IF svc.ruleId # 0 THEN 0 ELSE stored.ruleId) \in 0..MaxOps
          /\ (IF svc.opId # 0 THEN 0 ELSE stored.opId) \in 0..MaxOps
      BY <1>1, ServiceFields, ZeroType
    <3>2. QED
      BY <1>1, <3>1 DEF WithoutRule, Service
  <2>2. ASSUME Patch(WithoutRule(stored)), Goto("deleteLoadBalancer"),
               UNCHANGED <<lb, vip, rule, requeue>>
        PROVE  /\ stored' \in Service /\ watch' \in Seq(Service)
               /\ LocalTypeOK' /\ delayed' \in BOOLEAN
    <3>1. stored' \in Service /\ watch' \in Seq(Service) /\ svc' \in Service
      BY <2>1, <2>2, PatchType
    <3>2. "deleteLoadBalancer" \in Points \ {"lookup", "create", "wait", "record", "publish"}
      BY DEF Points
    <3>3. QED
      BY <1>1, <2>2, <3>1, <3>2, GotoType
  <2>3. /\ stored' \in Service /\ watch' \in Seq(Service)
        /\ LocalTypeOK' /\ delayed' \in BOOLEAN
    BY <1>1, <1>3, <2>2, FinishType DEF ClearRule
  <2>4. QED
    BY <1>2, <1>3, <2>3, WriterType, CloudUnchangedType, TypeInvPartsNext DEF ClearRule
<1>4. CASE RemoveFinalizer
  <2>1. LocalTypeOK' /\ delayed' \in BOOLEAN
    BY <1>4, FinishType DEF RemoveFinalizer
  <2>2. WithoutFinalizer(svc) \in Service
    <3>1. Released \in Service
      BY <1>1, ServiceFields, NoServiceType DEF Released
    <3>2. [svc EXCEPT !.finalizer = FALSE] \in Service
      BY <1>1 DEF Service
    <3>3. QED
      BY <3>1, <3>2 DEF WithoutFinalizer
  <2>3. stored' \in Service /\ watch' \in Seq(Service)
    BY <1>1, <1>4, <2>2, WriteType, TypeInvParts DEF RemoveFinalizer
  <2>4. KubeTypeOK' /\ BoundTypeOK'
    BY <1>4, <2>1, <2>3, TypeInvParts DEF RemoveFinalizer, KubeTypeOK, BoundTypeOK
  <2>5. QED
    BY <1>2, <2>1, <2>4, CloudUnchangedType, TypeInvPartsNext
<1>5. QED
  BY <1>3, <1>4

-----------------------------------------------------------------------------
(* Type correctness: failures and the rest of the system *)

LEMMA FailureType ==
    ASSUME TypeInv, CallFails \/ Crash
    PROVE  TypeInv'
<1>1. /\ stored \in Service /\ svc \in Service /\ lb \in 0..MaxLbs /\ vip \in BOOLEAN
      /\ rule \in 0..MaxOps /\ requeue \in BOOLEAN
  BY TypeInvParts DEF KubeTypeOK, LocalTypeOK
<1>2. faults' \in 0..MaxFaults
  <2>1. faults \in 0..MaxFaults
    BY TypeInvParts DEF BoundTypeOK
  <2>2. faults < MaxFaults /\ faults' = faults + 1
    BY DEF CallFails, Crash
  <2>3. QED
    BY <2>1, <2>2, BoundsType
<1>3. UNCHANGED cloudVars
  BY DEF CallFails, Crash
<1>4. CASE CallFails
  <2>1. ASSUME Goto("updateLoadBalancer"), requeue' = TRUE, UNCHANGED <<svc, lb, vip, rule>>
        PROVE  LocalTypeOK' /\ delayed' \in BOOLEAN
    <3>1. "updateLoadBalancer" \in Points \ {"lookup", "create", "wait", "record", "publish"}
      BY DEF Points
    <3>2. QED
      BY <1>1, <2>1, <3>1, GotoType
  <2>2. LocalTypeOK' /\ delayed' \in BOOLEAN
    BY <1>4, <2>1, FinishType DEF CallFails
  <2>3. KubeTypeOK' /\ BoundTypeOK'
    BY <1>2, <1>4, <2>2, TypeInvParts DEF CallFails, KubeTypeOK, BoundTypeOK
  <2>4. QED
    BY <1>3, <2>2, <2>3, CloudUnchangedType, TypeInvPartsNext
<1>5. CASE Crash
  <2>1. LocalTypeOK'
    BY <1>5, DropLocalsType DEF Crash
  <2>2. KubeTypeOK'
    <3>1. stored' \in Service /\ cached' \in Service /\ uids' = uids /\ edits' = edits
      BY <1>1, <1>5 DEF Crash, Resync
    <3>2. watch' \in Seq(Service)
      BY <1>5 DEF Crash, Resync
    <3>3. queued' \in BOOLEAN /\ delayed' \in BOOLEAN
      BY <1>5 DEF Crash, Resync
    <3>4. QED
      BY <3>1, <3>2, <3>3, TypeInvParts DEF KubeTypeOK
  <2>3. BoundTypeOK'
    BY <1>2, <1>5, TypeInvParts DEF Crash, BoundTypeOK
  <2>4. QED
    BY <1>3, <2>1, <2>2, <2>3, CloudUnchangedType, TypeInvPartsNext
<1>6. QED
  BY <1>4, <1>5

\* The reconcile's variables do not move when it does not.
LEMMA IdleType ==
    ASSUME TypeInv, UNCHANGED reconcileVars
    PROVE  LocalTypeOK'
BY TypeInvParts DEF reconcileVars, locals, LocalTypeOK, PassIsSound, Servable

LEMMA UserType ==
    ASSUME TypeInv, User
    PROVE  TypeInv'
<1>1. stored \in Service /\ watch \in Seq(Service) /\ uids \in 0..MaxUid /\ edits \in 0..MaxEdits
  BY TypeInvParts DEF KubeTypeOK
<1>2. LocalTypeOK' /\ BoundTypeOK' /\ CloudTypeOK'
  BY IdleType, CloudUnchangedType, TypeInvParts DEF User, BoundTypeOK
<1>3. stored.rv \in Nat
  BY <1>1, ServiceFields
<1>4. Kinds \subseteq ServiceKinds
  BY KubeAssumption
<1>5. CASE UserCreates
  <2>1. uids + 1 \in 0..MaxUid
    BY <1>1, <1>5, BoundsType DEF UserCreates
  <2>2. NoService(stored.rv) \in Service
    BY <1>3, NoServiceType
  <2>3. \A kind \in Kinds, ports \in Specs :
           [NoService(stored.rv) EXCEPT !.uid = uids + 1, !.kind = kind, !.ports = ports] \in Service
    BY <1>4, <2>1, <2>2 DEF Service
  <2>4. stored' \in Service /\ watch' \in Seq(Service)
    BY <1>5, <2>3, WriteType, TypeInvParts DEF UserCreates
  <2>5. KubeTypeOK'
    BY <1>5, <2>1, <2>4, TypeInvParts DEF UserCreates, KubeTypeOK
  <2>6. QED
    BY <1>2, <2>5, TypeInvPartsNext
<1>6. CASE UserDeletes
  <2>1. [stored EXCEPT !.deleting = TRUE] \in Service /\ Released \in Service
    BY <1>1, <1>3, NoServiceType DEF Service, Released
  <2>2. stored' \in Service /\ watch' \in Seq(Service)
    BY <1>6, <2>1, WriteType, TypeInvParts DEF UserDeletes
  <2>3. KubeTypeOK'
    BY <1>6, <2>2, TypeInvParts DEF UserDeletes, KubeTypeOK
  <2>4. QED
    BY <1>2, <2>3, TypeInvPartsNext
<1>7. CASE UserEdits
  <2>1. edits' \in 0..MaxEdits
    BY <1>1, <1>7, BoundsType DEF UserEdits
  <2>2. \A kind \in Kinds, ports \in Specs :
           [stored EXCEPT !.kind = kind, !.ports = ports] \in Service
    BY <1>1, <1>4 DEF Service
  <2>3. stored' \in Service /\ watch' \in Seq(Service)
    BY <1>7, <2>2, WriteType, TypeInvParts DEF UserEdits
  <2>4. KubeTypeOK'
    BY <1>7, <2>1, <2>3, TypeInvParts DEF UserEdits, KubeTypeOK
  <2>5. QED
    BY <1>2, <2>4, TypeInvPartsNext
<1>8. QED
  BY <1>5, <1>6, <1>7 DEF User

LEMMA EventType ==
    ASSUME TypeInv, DeliverEvent \/ Timer \/ NodeChanges
    PROVE  TypeInv'
<1>1. LocalTypeOK' /\ BoundTypeOK' /\ CloudTypeOK'
  BY IdleType, CloudUnchangedType, TypeInvParts DEF DeliverEvent, Timer, NodeChanges, BoundTypeOK
<1>2. CASE DeliverEvent
  <2>1. Head(watch) \in Service /\ Tail(watch) \in Seq(Service)
    BY <1>2, TypeInvParts DEF DeliverEvent, Deliver, KubeTypeOK
  <2>2. queued' \in BOOLEAN
    BY <1>2, TypeInvParts, Zenon DEF DeliverEvent, Deliver, KubeTypeOK
  <2>3. KubeTypeOK'
    BY <1>2, <2>1, <2>2, TypeInvParts DEF DeliverEvent, Deliver, KubeTypeOK
  <2>4. QED
    BY <1>1, <2>3, TypeInvPartsNext
<1>3. CASE Timer \/ NodeChanges
  <2>1. KubeTypeOK'
    BY <1>3, TypeInvParts DEF Timer, TimerFires, NodeChanges, NodeEvent, KubeTypeOK
  <2>2. QED
    BY <1>1, <2>1, TypeInvPartsNext
<1>4. QED
  BY <1>2, <1>3

\* Operations and load balancers move on in the Crusoe API.
LEMMA CloudStepType ==
    ASSUME TypeInv,
           \/ \E i \in 1..MaxLbs : LbOpSettles(i) \/ VipAssigned(i) \/ LbOpFails(i)
           \/ \E o \in 1..MaxOps : \/ FwOpSettles(o) \/ FwCooldownEnds(o)
                                   \/ FwOpFails(o) \/ FwRecordAges(o)
    PROVE  CloudTypeOK'
<1>1. lbs \in [1..MaxLbs -> LoadBalancer] /\ fws \in [1..MaxOps -> FirewallRule]
  BY TypeInvParts DEF CloudTypeOK
<1>2. ASSUME NEW i \in 1..MaxLbs, LbOpSettles(i) \/ VipAssigned(i) \/ LbOpFails(i)
      PROVE  CloudTypeOK'
  <2>1. lbs[i] \in LoadBalancer
    BY <1>1
  <2>2. PICK new \in LoadBalancer : lbs' = [lbs EXCEPT ![i] = new]
    <3>1. CASE LbOpSettles(i)
      <4>1. PICK b \in BOOLEAN : lbs' = [lbs EXCEPT ![i].op = "SUCCEEDED", ![i].vip = b]
        BY <3>1 DEF LbOpSettles
      <4>2. [lbs[i] EXCEPT !.op = "SUCCEEDED", !.vip = b] \in LoadBalancer
        BY <2>1, LoadBalancerUpdates
      <4>3. lbs' = [lbs EXCEPT ![i] = [lbs[i] EXCEPT !.op = "SUCCEEDED", !.vip = b]]
        BY <1>1, <4>1 DEF LoadBalancer
      <4>4. QED
        BY <4>2, <4>3
    <3>2. CASE VipAssigned(i)
      <4>1. [lbs[i] EXCEPT !.vip = TRUE] \in LoadBalancer
        BY <2>1, LoadBalancerUpdates
      <4>2. lbs' = [lbs EXCEPT ![i] = [lbs[i] EXCEPT !.vip = TRUE]]
        BY <1>1, <3>2 DEF VipAssigned
      <4>3. QED
        BY <4>1, <4>2
    <3>3. CASE LbOpFails(i)
      <4>1. PICK b \in BOOLEAN : lbs' = [lbs EXCEPT ![i].op = "FAILED", ![i].up = b]
        BY <3>3 DEF LbOpFails
      <4>2. [lbs[i] EXCEPT !.op = "FAILED", !.up = b] \in LoadBalancer
        BY <2>1, LoadBalancerUpdates
      <4>3. lbs' = [lbs EXCEPT ![i] = [lbs[i] EXCEPT !.op = "FAILED", !.up = b]]
        BY <1>1, <4>1 DEF LoadBalancer
      <4>4. QED
        BY <4>2, <4>3
    <3>4. QED
      BY <1>2, <3>1, <3>2, <3>3
  <2>3. fws' = fws
    BY <1>2 DEF LbOpSettles, VipAssigned, LbOpFails
  <2>4. QED
    BY <1>1, <2>2, <2>3 DEF CloudTypeOK
<1>3. ASSUME NEW o \in 1..MaxOps,
             FwOpSettles(o) \/ FwCooldownEnds(o) \/ FwOpFails(o) \/ FwRecordAges(o)
      PROVE  CloudTypeOK'
  <2>1. fws[o] \in FirewallRule
    BY <1>1
  <2>2. /\ [fws[o] EXCEPT !.op = "SUCCEEDED", !.rule = TRUE] \in FirewallRule
        /\ [fws[o] EXCEPT !.op = "FAILED", !.clash = TRUE] \in FirewallRule
        /\ [fws[o] EXCEPT !.cooled = TRUE] \in FirewallRule
        /\ [fws[o] EXCEPT !.op = "FAILED"] \in FirewallRule
        /\ [fws[o] EXCEPT !.op = "GONE"] \in FirewallRule
    BY <2>1, FirewallRuleUpdates
  <2>3. fws' \in [1..MaxOps -> FirewallRule]
    <3>1. CASE FwOpSettles(o)
      BY <1>1, <2>2, <3>1 DEF FwOpSettles
    <3>2. CASE FwCooldownEnds(o)
      BY <1>1, <2>2, <3>2 DEF FwCooldownEnds
    <3>3. CASE FwOpFails(o)
      BY <1>1, <2>2, <3>3 DEF FwOpFails
    <3>4. CASE FwRecordAges(o)
      BY <1>1, <2>2, <3>4 DEF FwRecordAges
    <3>5. QED
      BY <1>3, <3>1, <3>2, <3>3, <3>4
  <2>4. lbs' = lbs
    BY <1>3 DEF FwOpSettles, FwCooldownEnds, FwOpFails, FwRecordAges
  <2>5. QED
    BY <1>1, <2>3, <2>4 DEF CloudTypeOK
<1>4. QED
  BY <1>2, <1>3

\* The Kubernetes side does not move with the Crusoe API.
LEMMA KubeIdleType ==
    ASSUME TypeInv, UNCHANGED <<kubeVars, reconcileVars>>
    PROVE  KubeTypeOK' /\ LocalTypeOK'
BY IdleType, TypeInvParts DEF kubeVars, KubeTypeOK

LEMMA CloudType ==
    ASSUME TypeInv,
           \/ \E i \in 1..MaxLbs : LbProgress(i)
           \/ \E o \in 1..MaxOps : FwProgress(o)
           \/ CloudFault
    PROVE  TypeInv'
<1>1. CloudTypeOK'
  BY CloudStepType DEF LbProgress, FwProgress, CloudFault
<1>2. KubeTypeOK' /\ LocalTypeOK'
  BY KubeIdleType DEF LbProgress, FwProgress, CloudFault
<1>3. opFaults' \in 0..MaxOpFaults
  BY BoundsType, TypeInvParts DEF BoundTypeOK, LbProgress, FwProgress, CloudFault
<1>4. BoundTypeOK'
  BY <1>3, TypeInvParts DEF BoundTypeOK, LbProgress, FwProgress, CloudFault
<1>5. QED
  BY <1>1, <1>2, <1>4, TypeInvPartsNext

LEMMA OperatorType ==
    ASSUME TypeInv, OperatorRemoves \/ OperatorReleases
    PROVE  TypeInv'
<1>1. LocalTypeOK'
  BY IdleType DEF OperatorRemoves, OperatorReleases
<1>2. edits' \in 0..MaxEdits
  <2>1. edits \in 0..MaxEdits
    BY TypeInvParts DEF KubeTypeOK
  <2>2. edits < MaxEdits /\ edits' = edits + 1
    BY DEF OperatorRemoves, OperatorReleases
  <2>3. QED
    BY <2>1, <2>2, BoundsType
<1>3. CASE OperatorRemoves
  <2>1. CloudTypeOK'
    BY <1>3, RemoveRuleType, RemoveLoadBalancerType DEF OperatorRemoves
  <2>2. KubeTypeOK' /\ BoundTypeOK'
    BY <1>2, <1>3, TypeInvParts DEF OperatorRemoves, KubeTypeOK, BoundTypeOK
  <2>3. QED
    BY <1>1, <2>1, <2>2, TypeInvPartsNext
<1>4. CASE OperatorReleases
  <2>1. Released \in Service
    BY TypeInvParts, ServiceFields, NoServiceType DEF Released, KubeTypeOK
  <2>2. stored' \in Service /\ watch' \in Seq(Service)
    BY <1>4, <2>1, WriteType, TypeInvParts DEF OperatorReleases
  <2>3. KubeTypeOK' /\ BoundTypeOK' /\ CloudTypeOK'
    BY <1>2, <1>4, <2>2, CloudUnchangedType, TypeInvParts
    DEF OperatorReleases, KubeTypeOK, BoundTypeOK
  <2>4. QED
    BY <1>1, <2>3, TypeInvPartsNext
<1>5. QED
  BY <1>3, <1>4

LEMMA HoldExpiresType ==
    ASSUME TypeInv, HoldExpires
    PROVE  TypeInv'
<1>1. fws \in [1..MaxOps -> FirewallRule]
  BY TypeInvParts DEF CloudTypeOK
<1>2. \A o \in 1..MaxOps : [fws[o] EXCEPT !.op = "STUCK"] \in FirewallRule
  BY <1>1, FirewallRuleUpdates
<1>3. fws' \in [1..MaxOps -> FirewallRule]
  BY <1>1, <1>2 DEF HoldExpires, OperationsStuckAtHoldLimit
<1>4. CloudTypeOK' /\ BoundTypeOK'
  BY <1>3, TypeInvParts DEF HoldExpires, CloudTypeOK, BoundTypeOK
<1>5. QED
  BY <1>4, KubeIdleType, TypeInvPartsNext DEF HoldExpires

LEMMA StutterType ==
    ASSUME TypeInv, UNCHANGED vars
    PROVE  TypeInv'
<1>1. KubeTypeOK' /\ LocalTypeOK'
  BY KubeIdleType DEF vars, reconcileVars
<1>2. CloudTypeOK' /\ BoundTypeOK'
  BY CloudUnchangedType, TypeInvParts DEF vars, BoundTypeOK
<1>3. QED
  BY <1>1, <1>2, TypeInvPartsNext

\* Every step of the worker keeps the types.
LEMMA WorkerType ==
    ASSUME TypeInv, Worker
    PROVE  TypeInv'
BY ReconcileType, CreateType1, CreateType2, RecordType, UpdateType, EnsureRuleType1,
   EnsureRuleType2, RecordRuleType, DeleteType1, DeleteType2, DeleteType3 DEF Worker

\* TypeInv is inductive.
LEMMA TypeStep == TypeInv /\ [Next]_vars => TypeInv'
BY WorkerType, FailureType, UserType, EventType, CloudType, OperatorType, HoldExpiresType,
   StutterType DEF Next

LEMMA TypeInvariant == Spec => []TypeInv
BY TypeInit, TypeStep, PTL DEF Spec

(***************************************************************************)
(* Every variable holds a value of its kind: in particular no annotation   *)
(* the reconciler writes ever holds anything but an id the Crusoe API      *)
(* handed out and a protocol a load balancer can have, whatever the ports, *)
(* edits and failures.                                                     *)
(***************************************************************************)
THEOREM TypeCorrect == Spec => []TypeOK
<1>1. TypeInv => TypeOK
  BY DEF TypeInv
<1>2. QED
  BY <1>1, TypeInvariant, PTL

-----------------------------------------------------------------------------
(* A Service never has two load balancers *)

\* A load balancer whose create operation runs is in the list.
InProgressIsUp == \A i \in 1..MaxLbs : lbs[i].op = "IN_PROGRESS" => lbs[i].up

\* What LookUp found still holds when the create request is sent: nobody but
\* the worker creates load balancers.
NoneBeforeCreate == pc = "create" => LoadBalancersNamed(svc.uid) = {}

CreationInv == TypeInv /\ AtMostOneLoadBalancer /\ InProgressIsUp /\ NoneBeforeCreate

\* The step brings up no load balancer.
BringsUpNone ==
    \A i \in 1..MaxLbs : lbs'[i].owner = lbs[i].owner /\ (lbs'[i].up => lbs[i].up)

LEMMA CreationInit == Init => CreationInv
<1> SUFFICES ASSUME Init PROVE CreationInv
  OBVIOUS
<1>1. \A i \in 1..MaxLbs : ~lbs[i].up /\ lbs[i].op # "IN_PROGRESS"
  BY DEF Init, CloudInit, NoLoadBalancer
<1>2. AtMostOneLoadBalancer /\ InProgressIsUp
  BY <1>1 DEF AtMostOneLoadBalancer, LoadBalancersNamed, InProgressIsUp
<1>3. NoneBeforeCreate
  BY DEF Init, NoneBeforeCreate
<1>4. QED
  BY <1>2, <1>3, TypeInit DEF CreationInv

\* Removing a load balancer brings up none.
LEMMA RemoveBringsUpNone ==
    ASSUME CreationInv, NEW i \in 1..MaxLbs, RemoveLoadBalancer(i)
    PROVE  BringsUpNone /\ InProgressIsUp'
<1>1. lbs \in [1..MaxLbs -> LoadBalancer]
  BY TypeInvParts DEF CreationInv, CloudTypeOK
<1>2. \A j \in 1..MaxLbs : j # i => lbs'[j] = lbs[j]
  BY <1>1 DEF RemoveLoadBalancer
<1>3. lbs'[i].owner = lbs[i].owner /\ ~lbs'[i].up /\ lbs'[i].op # "IN_PROGRESS"
  BY <1>1 DEF RemoveLoadBalancer, LoadBalancer
<1>4. QED
  BY <1>2, <1>3 DEF BringsUpNone, CreationInv, InProgressIsUp

\* Progress and failure of create operations bring up none.
LEMMA CloudBringsUpNone ==
    ASSUME CreationInv, NEW i \in 1..MaxLbs, LbOpSettles(i) \/ VipAssigned(i) \/ LbOpFails(i)
    PROVE  BringsUpNone /\ InProgressIsUp'
<1>1. lbs \in [1..MaxLbs -> LoadBalancer]
  BY TypeInvParts DEF CreationInv, CloudTypeOK
<1>2. lbs[i].op = "IN_PROGRESS" => lbs[i].up
  BY DEF CreationInv, InProgressIsUp
<1>3. \A j \in 1..MaxLbs : j # i => lbs'[j] = lbs[j]
  BY <1>1 DEF LbOpSettles, VipAssigned, LbOpFails
<1>4. lbs'[i].owner = lbs[i].owner /\ (lbs'[i].up => lbs[i].up) /\ lbs'[i].op # "IN_PROGRESS"
  <2>1. CASE LbOpSettles(i)
    <3>1. PICK b \in BOOLEAN : lbs' = [lbs EXCEPT ![i].op = "SUCCEEDED", ![i].vip = b]
      BY <2>1 DEF LbOpSettles
    <3>2. lbs'[i] = [[lbs[i] EXCEPT !.op = "SUCCEEDED"] EXCEPT !.vip = b]
      BY <1>1, <3>1
    <3> DEFINE l == lbs[i]
    <3>3. l \in LoadBalancer
      BY <1>1
    <3>4. [[l EXCEPT !.op = "SUCCEEDED"] EXCEPT !.vip = b].owner = l.owner
      BY <3>3 DEF LoadBalancer
    <3>5. [[l EXCEPT !.op = "SUCCEEDED"] EXCEPT !.vip = b].op = "SUCCEEDED"
      BY <3>3 DEF LoadBalancer
    <3>6. [[l EXCEPT !.op = "SUCCEEDED"] EXCEPT !.vip = b].up = l.up
      BY <3>3 DEF LoadBalancer
    <3>7. QED
      BY <3>2, <3>4, <3>5, <3>6
  <2>2. CASE VipAssigned(i)
    <3>1. lbs'[i] = [lbs[i] EXCEPT !.vip = TRUE] /\ lbs[i].op # "IN_PROGRESS" /\ lbs[i].up
      BY <1>1, <2>2 DEF VipAssigned
    <3> DEFINE l == lbs[i]
    <3>2. l \in LoadBalancer
      BY <1>1
    <3>3. [l EXCEPT !.vip = TRUE].owner = l.owner
      BY <3>2 DEF LoadBalancer
    <3>4. [l EXCEPT !.vip = TRUE].op = l.op
      BY <3>2 DEF LoadBalancer
    <3>5. QED
      BY <3>1, <3>3, <3>4
  <2>3. CASE LbOpFails(i)
    <3>1. PICK b \in BOOLEAN : lbs' = [lbs EXCEPT ![i].op = "FAILED", ![i].up = b]
      BY <2>3 DEF LbOpFails
    <3>2. lbs'[i] = [[lbs[i] EXCEPT !.op = "FAILED"] EXCEPT !.up = b]
      BY <1>1, <3>1
    <3>3. lbs[i].up /\ lbs[i].op = "IN_PROGRESS"
      BY <1>2, <2>3 DEF LbOpFails
    <3>4. lbs'[i].owner = lbs[i].owner /\ lbs'[i].op = "FAILED"
      <4> DEFINE l == lbs[i]
      <4>1. l \in LoadBalancer
        BY <1>1
      <4>2. [[l EXCEPT !.op = "FAILED"] EXCEPT !.up = b].owner = l.owner
        BY <4>1 DEF LoadBalancer
      <4>3. [[l EXCEPT !.op = "FAILED"] EXCEPT !.up = b].op = "FAILED"
        BY <4>1 DEF LoadBalancer
      <4>4. QED
        BY <3>2, <4>2, <4>3
    <3>5. QED
      BY <3>3, <3>4
  <2>4. QED
    BY <2>1, <2>2, <2>3
<1>5. QED
  BY <1>3, <1>4 DEF BringsUpNone, CreationInv, InProgressIsUp

\* An update changes the listeners of a load balancer and nothing else.
LEMMA UpdateBringsUpNone ==
    ASSUME CreationInv, UpdateLoadBalancer
    PROVE  BringsUpNone /\ InProgressIsUp'
<1>1. lbs \in [1..MaxLbs -> LoadBalancer]
  BY TypeInvParts DEF CreationInv, CloudTypeOK
<1>2. ASSUME NEW j \in 1..MaxLbs
      PROVE  /\ lbs'[j].owner = lbs[j].owner
             /\ lbs'[j].up = lbs[j].up
             /\ lbs'[j].op = lbs[j].op
  <2>1. CASE lbs'[j] = lbs[j]
    BY <2>1
  <2>2. CASE \E listeners : lbs'[j] = [lbs[j] EXCEPT !.listeners = listeners]
    BY <1>1, <2>2 DEF LoadBalancer
  <2>3. QED
    BY <1>1, <2>1, <2>2 DEF UpdateLoadBalancer, locals
<1>3. QED
  BY <1>2 DEF BringsUpNone, CreationInv, InProgressIsUp

\* Only CreateLoadBalancer brings up a load balancer.
LEMMA OthersBringUpNone ==
    ASSUME CreationInv, [Next]_vars, ~CreateLoadBalancer
    PROVE  BringsUpNone /\ InProgressIsUp'
<1>1. ASSUME lbs' = lbs
      PROVE  BringsUpNone /\ InProgressIsUp'
  BY <1>1 DEF BringsUpNone, CreationInv, InProgressIsUp
<1>2. CASE Worker
  <2>1. CASE UpdateLoadBalancer
    BY <2>1, UpdateBringsUpNone
  <2>2. CASE DeleteLoadBalancer
    <3>1. lb = 0 \/ lb \in 1..MaxLbs
      BY NonzeroId, TypeInvParts DEF CreationInv, LocalTypeOK
    <3>2. QED
      BY <1>1, <2>2, <3>1, RemoveBringsUpNone DEF DeleteLoadBalancer
  <2>3. ASSUME ~UpdateLoadBalancer, ~DeleteLoadBalancer
        PROVE  lbs' = lbs
    BY <1>2, <2>3
    DEF Worker, Reconcile, AddFinalizer, HandleCreate, LookUp, CreateRefused, WaitForOperation,
        RecordLoadBalancer, SetLoadBalancerIngress, EnsureLoadBalancerIngress, RestoreIngress,
        EnsureFirewallRule, PatchFirewallRule, AdoptFirewallRule, RecordRule, RecordAdoptedRule,
        PatchAndFinish, CreateFirewallRule, RecordOperation, DeleteFirewallRule, FindRule,
        DeleteRule, ClearRule, RemoveFinalizer, cloudVars
  <2>4. QED
    BY <1>1, <2>1, <2>2, <2>3
<1>3. CASE CallFails \/ Crash \/ User \/ DeliverEvent \/ Timer \/ NodeChanges
           \/ OperatorReleases \/ HoldExpires \/ UNCHANGED vars
  BY <1>1, <1>3 DEF CallFails, Crash, User, DeliverEvent, Timer, NodeChanges,
                    OperatorReleases, HoldExpires, vars, cloudVars
<1>4. CASE \/ \E i \in 1..MaxLbs : LbProgress(i)
           \/ \E o \in 1..MaxOps : FwProgress(o)
           \/ CloudFault
  BY <1>1, <1>4, CloudBringsUpNone
  DEF LbProgress, FwProgress, CloudFault, FwOpSettles, FwCooldownEnds, FwOpFails, FwRecordAges
<1>5. CASE OperatorRemoves
  BY <1>1, <1>5, RemoveBringsUpNone DEF OperatorRemoves
<1>6. QED
  BY <1>2, <1>3, <1>4, <1>5 DEF Next

\* A pass reaches its create request from a lookup that found nothing.
LEMMA ReachesCreate ==
    ASSUME [Next]_vars, pc' = "create"
    PROVE  /\ svc' = svc
           /\ pc = "create" \/ LoadBalancersNamed(svc.uid) = {}
<1>1. \A s : Operation(s) # "create"
  BY DEF Operation
<1>2. ~Finish(TRUE) /\ ~Finish(FALSE) /\ ~Finish(requeue)
  BY DEF Finish, DropLocals
<1>3. \A point : Goto(point) => point = "create"
  BY DEF Goto
<1>4. CASE Reconcile
  <2>1. CASE Ignores(cached)
    BY <1>4, <2>1 DEF Reconcile, locals
  <2>2. CASE ~Ignores(cached)
    <3>1. pc' = FirstStep(cached)
      BY <1>4, <2>2 DEF Reconcile
    <3>2. CASE cached.deleting
      BY <3>1, <3>2 DEF FirstStep
    <3>3. CASE ~cached.deleting /\ ~cached.finalizer
      BY <3>1, <3>3 DEF FirstStep
    <3>4. CASE ~cached.deleting /\ cached.finalizer
      BY <1>1, <3>1, <3>4 DEF FirstStep
    <3>5. QED
      BY <3>2, <3>3, <3>4
  <2>3. QED
    BY <2>1, <2>2
<1>5. CASE LookUp
  BY <1>3, <1>5 DEF LookUp, findExistingLoadBalancer, locals
<1>6. ASSUME Worker, ~Reconcile, ~LookUp
      PROVE  FALSE
  BY <1>1, <1>2, <1>3, <1>6
  DEF Worker, AddFinalizer, HandleCreate, CreateLoadBalancer, CreateRefused, WaitForOperation,
      RecordLoadBalancer, SetLoadBalancerIngress, EnsureLoadBalancerIngress, RestoreIngress,
      UpdateLoadBalancer, EnsureFirewallRule, NoFirewallRuleWanted, CheckFirewallRule,
      ResolveOperation, PatchFirewallRule, AdoptFirewallRule, RecordRule, RecordAdoptedRule,
      PatchAndFinish, CreateFirewallRule, RecordOperation, DeleteFirewallRule, FindRule,
      DeleteRule, ClearRule, DeleteLoadBalancer, RemoveFinalizer
<1>7. ASSUME CallFails \/ Crash
      PROVE  FALSE
  BY <1>2, <1>3, <1>7 DEF CallFails, Crash, DropLocals
<1>8. ASSUME [Next]_vars, ~Worker, ~CallFails, ~Crash
      PROVE  UNCHANGED reconcileVars
  BY <1>8 DEF Next, User, DeliverEvent, Timer, NodeChanges, LbProgress, FwProgress, CloudFault,
              OperatorRemoves, OperatorReleases, HoldExpires, vars, reconcileVars
<1>9. CASE UNCHANGED reconcileVars
  BY <1>9 DEF reconcileVars, locals
<1>10. QED
  BY <1>4, <1>5, <1>6, <1>7, <1>8, <1>9

\* CreationInv is inductive.
LEMMA CreationStep == CreationInv /\ [Next]_vars => CreationInv'
<1> SUFFICES ASSUME CreationInv, [Next]_vars PROVE CreationInv'
  OBVIOUS
<1>1. TypeInv'
  BY TypeStep DEF CreationInv
<1>2. CASE CreateLoadBalancer
  <2>1. lbs \in [1..MaxLbs -> LoadBalancer]
    BY TypeInvParts DEF CreationInv, CloudTypeOK
  <2>2. PICK i \in 1..MaxLbs :
           /\ \A j \in 1..MaxLbs : j # i => lbs'[j] = lbs[j]
           /\ lbs'[i].owner = svc.uid /\ lbs'[i].up
    BY <1>2, <2>1 DEF CreateLoadBalancer, AcceptLoadBalancer, NextLoadBalancerId
  <2>3. LoadBalancersNamed(svc.uid) = {}
    BY <1>2 DEF CreationInv, NoneBeforeCreate, CreateLoadBalancer
  <2>4. InProgressIsUp'
    BY <2>2 DEF CreationInv, InProgressIsUp
  <2>5. \A j \in 1..MaxLbs : lbs'[j].up /\ lbs'[j].owner = svc.uid => j = i
    BY <2>2, <2>3 DEF LoadBalancersNamed
  <2>6. AtMostOneLoadBalancer'
    BY <2>2, <2>5 DEF CreationInv, AtMostOneLoadBalancer, LoadBalancersNamed
  <2>7. NoneBeforeCreate'
    BY <1>2 DEF CreateLoadBalancer, Goto, NoneBeforeCreate
  <2>8. QED
    BY <1>1, <2>4, <2>6, <2>7 DEF CreationInv
<1>3. CASE ~CreateLoadBalancer
  <2>1. BringsUpNone /\ InProgressIsUp'
    BY <1>3, OthersBringUpNone
  <2>2. AtMostOneLoadBalancer'
    BY <2>1 DEF CreationInv, BringsUpNone, AtMostOneLoadBalancer, LoadBalancersNamed
  <2>3. NoneBeforeCreate'
    <3>1. ASSUME pc' = "create"
          PROVE  svc' = svc /\ LoadBalancersNamed(svc.uid) = {}
      BY <3>1, ReachesCreate DEF CreationInv, NoneBeforeCreate
    <3>2. QED
      BY <2>1, <3>1 DEF BringsUpNone, NoneBeforeCreate, LoadBalancersNamed
  <2>4. QED
    BY <1>1, <2>1, <2>2, <2>3 DEF CreationInv
<1>4. QED
  BY <1>2, <1>3

(***************************************************************************)
(* A Service never has two load balancers, however often a pass is cut off *)
(* between the create request and the patch that records its result, and   *)
(* however stale the cache is: handleCreate's lookup by name finds what an *)
(* earlier pass created, and no second worker creates in between.          *)
(***************************************************************************)
THEOREM NeverTwoLoadBalancers == Spec => []AtMostOneLoadBalancer
<1>1. CreationInv => AtMostOneLoadBalancer
  BY DEF CreationInv
<1>2. Spec => []CreationInv
  BY CreationInit, CreationStep, PTL DEF Spec
<1>3. QED
  BY <1>1, <1>2, PTL
=============================================================================
