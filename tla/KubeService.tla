---------------------------- MODULE KubeService ----------------------------
(***************************************************************************)
(* One Service, named by its namespace and name, as the controller meets   *)
(* it in the Kubernetes API: the stored object, the watch that carries its *)
(* versions to the controller's informer cache, the cached copy a          *)
(* reconcile reads, and the controller's work queue.  The user and the     *)
(* API server are outside the repository; they are modelled by what the    *)
(* controller's calls rely on.                                             *)
(*                                                                         *)
(* The controller reads `cached' and writes `stored'.  A write that        *)
(* changes the object gives it the next resource version and appends it to *)
(* `watch'; Deliver moves the cache forward by one version and asks the    *)
(* queue for a reconcile, unless the controller's predicate drops the      *)
(* event.                                                                  *)
(***************************************************************************)
EXTENDS Integers, Sequences, ServiceSpec

CONSTANTS
    Kinds,     \* the kinds it may have: a subset of ServiceKinds
    MaxEdits,  \* how often a user or an operator may change something (bound)
    MaxLag     \* versions the cache may be behind when a reconcile starts (bound)

\* "LoadBalancer" has spec.type LoadBalancer and no loadBalancerClass,
\* "Foreign" has a loadBalancerClass as well, "Other" is any other spec.type.
ServiceKinds == {"LoadBalancer", "Foreign", "Other"}

ASSUME KubeAssumption ==
    /\ Kinds \subseteq ServiceKinds
    /\ {MaxEdits, MaxLag} \subseteq Nat

VARIABLES
    stored,   \* the Service in the API server
    watch,    \* versions the informer has not seen yet, oldest first
    cached,   \* the Service in the informer cache
    uids,     \* Services created so far under this name
    edits,    \* changes made by users and operators so far
    queued,   \* the work queue holds the Service's key
    delayed   \* a RequeueAfter or a rate-limited retry of the key is pending

kubeVars == <<stored, watch, cached, uids, edits, queued, delayed>>

(***************************************************************************)
(* The fields the controller reads or writes: the finalizer, the           *)
(* annotations load-balancer-id, load-balancer-protocol,                   *)
(* firewall-rule-operation-id and firewall-rule-id, and the external IP,   *)
(* named by the load balancer that has it.  0 and "" are an annotation or  *)
(* an IP that is not there; uid 0 is a Service that is not there.          *)
(***************************************************************************)
Service ==
    [uid: 0..MaxUid, rv: Nat, deleting: BOOLEAN, finalizer: BOOLEAN,
     kind: ServiceKinds, ports: Specs \cup {{}},
     lbId: 0..MaxLbs, protocol: LoadBalancerProtocols \cup {""},
     opId: 0..MaxOps, ruleId: 0..MaxOps, ip: 0..MaxLbs]

NoService(rv) ==
    [uid |-> 0, rv |-> rv, deleting |-> FALSE, finalizer |-> FALSE,
     kind |-> "Other", ports |-> {}, lbId |-> 0, protocol |-> "",
     opId |-> 0, ruleId |-> 0, ip |-> 0]

Exists(s) == s.uid # 0

\* The predicate on Service events (SetupWithManager): the object of the
\* event, for a deletion its last state, has type LoadBalancer.
loadBalancerPredicate(old, new) ==
    IF Exists(new) THEN new.kind # "Other" ELSE old.kind # "Other"

KubeTypeOK ==
    /\ stored \in Service
    /\ watch \in Seq(Service)
    /\ cached \in Service
    /\ uids \in 0..MaxUid
    /\ edits \in 0..MaxEdits
    /\ queued \in BOOLEAN
    /\ delayed \in BOOLEAN

KubeInit ==
    /\ stored = NoService(0)
    /\ watch = <<>>
    /\ cached = NoService(0)
    /\ uids = 0
    /\ edits = 0
    /\ queued = FALSE
    /\ delayed = FALSE

-----------------------------------------------------------------------------
(* Writes to the API server *)

NextVersion(s) == [s EXCEPT !.rv = stored.rv + 1]

\* A write that changes nothing leaves the resource version alone.
Write(s) ==
    IF s = stored
    THEN UNCHANGED <<stored, watch>>
    ELSE /\ stored' = NextVersion(s)
         /\ watch' = Append(watch, NextVersion(s))

\* Mutant: the finalizer is changed by a patch, which never conflicts.
NeverConflicts(s) == FALSE

\* An Update carries the resource version of the copy it was made from, and
\* the API server refuses it once the object has moved on.
UpdateConflicts(s) == s.rv # stored.rv

\* Removing the last finalizer of a Service being deleted removes it.
Released == NoService(stored.rv)

-----------------------------------------------------------------------------
(* The user *)

UserCreates ==
    /\ ~Exists(stored)
    /\ uids < MaxUid
    /\ \E kind \in Kinds, ports \in Specs :
          Write([NoService(stored.rv) EXCEPT !.uid = uids + 1,
                                             !.kind = kind,
                                             !.ports = ports])
    /\ uids' = uids + 1
    /\ UNCHANGED <<cached, edits, queued, delayed>>

\* Without a finalizer the Service is gone at once.
UserDeletes ==
    /\ Exists(stored)
    /\ ~stored.deleting
    /\ IF stored.finalizer
       THEN Write([stored EXCEPT !.deleting = TRUE])
       ELSE Write(Released)
    /\ UNCHANGED <<cached, uids, edits, queued, delayed>>

\* loadBalancerClass is set only while the type becomes LoadBalancer and goes
\* when it stops being LoadBalancer.
KindMayBecome(kind) == "Other" \in {kind, stored.kind} \/ kind = stored.kind

UserEdits ==
    /\ Exists(stored)
    /\ edits < MaxEdits
    /\ \E kind \in Kinds, ports \in Specs :
          /\ KindMayBecome(kind)
          /\ <<kind, ports>> # <<stored.kind, stored.ports>>
          /\ Write([stored EXCEPT !.kind = kind, !.ports = ports])
    /\ edits' = edits + 1
    /\ UNCHANGED <<cached, uids, queued, delayed>>

-----------------------------------------------------------------------------
(* The controller's event sources *)

Deliver ==
    /\ watch # <<>>
    /\ cached' = Head(watch)
    /\ watch' = Tail(watch)
    /\ queued' = (queued \/ loadBalancerPredicate(cached, Head(watch)))
    /\ UNCHANGED <<stored, uids, edits, delayed>>

\* A Node event enqueues every cached Service of type LoadBalancer.
NodeEvent ==
    /\ ~queued
    /\ cached.kind # "Other"
    /\ queued' = TRUE
    /\ UNCHANGED <<stored, watch, cached, uids, edits, delayed>>

TimerFires ==
    /\ delayed
    /\ delayed' = FALSE
    /\ queued' = TRUE
    /\ UNCHANGED <<stored, watch, cached, uids, edits>>

\* A restarted controller lists the Services and has lost its timers.
Resync ==
    /\ cached' = stored
    /\ watch' = <<>>
    /\ queued' = (stored.kind # "Other")
    /\ delayed' = FALSE
    /\ UNCHANGED <<stored, uids, edits>>
=============================================================================
