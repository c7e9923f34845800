------------------------- MODULE BackendSync_proofs -------------------------
(***************************************************************************)
(* Proofs about BackendSync, for any number of Services, Nodes, addresses  *)
(* and failures: SyncInv is an inductive invariant, and what the load      *)
(* balancers of an idle controller have follows from it.                   *)
(***************************************************************************)
EXTENDS BackendSync, FiniteSetTheorems, TLAPS

-----------------------------------------------------------------------------
(* Nodes *)

Contribution(node) == IF isNodeReady(node) /\ isNodeIncluded(node) THEN node.ips ELSE {}

\* The two ways of reading the Nodes agree.
LEMMA BackendsAreWanted ==
    ASSUME NEW list, list \in [DOMAIN list -> NodeStates]
    PROVE  internalIPs(list) = BackendsAt(list)
<1>1. ASSUME NEW n \in DOMAIN list
      PROVE  isNodeIncluded(list[n]) <=> list[n].exclude \notin {"true", "unparsable"}
  <2>1. list[n] \in NodeState
    BY <1>1, NodesAssumption
  <2> QED
    BY <2>1 DEF NodeState, isNodeIncluded
<1> QED
  BY <1>1 DEF internalIPs, BackendsAt, isNodeReady

\* A backend's address comes from a Node that contributes it.
LEMMA BackendsAreContributed ==
    ASSUME NEW list, list \in [DOMAIN list -> NodeStates]
    PROVE  BackendsAt(list) = UNION {Contribution(list[n]) : n \in DOMAIN list}
<1>1. ASSUME NEW n \in DOMAIN list
      PROVE  isNodeIncluded(list[n]) <=> list[n].exclude \notin {"true", "unparsable"}
  <2>1. list[n] \in NodeState
    BY <1>1, NodesAssumption
  <2> QED
    BY <2>1 DEF NodeState, isNodeIncluded
<1>2. ASSUME NEW ip, ip \in BackendsAt(list)
      PROVE  ip \in UNION {Contribution(list[n]) : n \in DOMAIN list}
  <2>1. PICK n \in DOMAIN list : /\ list[n].ready = "True"
                                 /\ list[n].exclude \notin {"true", "unparsable"}
                                 /\ ip \in list[n].ips
    BY <1>2 DEF BackendsAt
  <2>2. ip \in Contribution(list[n])
    BY <1>1, <2>1 DEF Contribution, isNodeReady
  <2> QED
    BY <2>2
<1>3. ASSUME NEW ip, ip \in UNION {Contribution(list[n]) : n \in DOMAIN list}
      PROVE  ip \in BackendsAt(list)
  <2>1. PICK n \in DOMAIN list : ip \in Contribution(list[n])
    BY <1>3
  <2>2. list[n].ready = "True" /\ ip \in list[n].ips /\ list[n].exclude \notin {"true", "unparsable"}
    BY <1>1, <2>1 DEF Contribution, isNodeReady
  <2> QED
    BY <2>2 DEF BackendsAt
<1> QED
  BY <1>2, <1>3

(***************************************************************************)
(* What nodeEventPredicate drops does not change a Node's part in the      *)
(* backends, but for a change of the addresses alone.                      *)
(***************************************************************************)
THEOREM OnlyAddressesAreOverlooked ==
    ASSUME NEW old \in NodeState, NEW new \in NodeState, NEW kind \in {"create", "update", "delete"},
           ~nodeEventPredicate([kind |-> kind, old |-> old, new |-> new]),
           ~OnlyAddressesChanged([kind |-> kind, old |-> old, new |-> new])
    PROVE  /\ kind = "create" => Contribution(new) = {}
           /\ kind = "update" => Contribution(old) = Contribution(new)
           /\ kind # "delete"
BY DEF nodeEventPredicate, OnlyAddressesChanged, Contribution

\* After any change of a Node a notification is on its way, the change is one
\* that is overlooked, or the backends are what they were.
LEMMA NodeChangeIsNoticed ==
    ASSUME NodesTypeOK, NodeChange
    PROVE  /\ NodesTypeOK'
           /\ overlooked => overlooked'
           /\ nodeEvents > 0 => nodeEvents' > 0
           /\ nodeEvents' > 0 \/ overlooked' \/ WantedBackends' = WantedBackends
<1> USE NodesAssumption
<1>1. PICK n \in Nodes : NodeAdded(n) \/ NodeUpdated(n) \/ NodeRemoved(n)
  BY DEF NodeChange
<1>2. /\ nodeChanges' = nodeChanges + 1 /\ nodeChanges < MaxNodeChanges
      /\ nodeChanges \in 0..MaxNodeChanges /\ nodeEvents \in 0..nodeChanges
      /\ nodes \in [DOMAIN nodes -> NodeStates] /\ DOMAIN nodes \subseteq Nodes
      /\ overlooked \in BOOLEAN
  BY DEF NodeChange, NodesTypeOK
<1>3. ASSUME NEW kind \in {"create", "update", "delete"}, NEW old \in NodeStates, NEW new \in NodeStates,
             Notify(kind, old, new)
      PROVE  /\ nodeEvents' \in 0..nodeChanges' /\ nodeChanges' \in 0..MaxNodeChanges
             /\ overlooked' \in BOOLEAN
             /\ overlooked => overlooked'
             /\ nodeEvents > 0 => nodeEvents' > 0
             /\ \/ nodeEvents' > 0
                \/ overlooked'
                \/ /\ kind = "create" => Contribution(new) = {}
                   /\ kind = "update" => Contribution(old) = Contribution(new)
                   /\ kind # "delete"
  <2> DEFINE e == [kind |-> kind, old |-> old, new |-> new]
  <2>1. CASE nodeEventPredicate(e)
    <3>1. nodeEvents' = nodeEvents + 1 /\ overlooked' = (overlooked \/ OnlyAddressesChanged(e))
      BY <1>3, <2>1 DEF Notify
    <3>2. OnlyAddressesChanged(e) \in BOOLEAN
      BY DEF OnlyAddressesChanged
    <3>3. overlooked' \in BOOLEAN /\ (overlooked => overlooked')
      BY <3>1, <3>2, <1>2
    <3>4. nodeEvents' \in 0..nodeChanges' /\ nodeChanges' \in 0..MaxNodeChanges /\ nodeEvents' > 0
      BY <3>1, <1>2
    <3> QED
      BY <3>3, <3>4
  <2>2. CASE ~nodeEventPredicate(e)
    <3>1. nodeEvents' = nodeEvents /\ overlooked' = (overlooked \/ OnlyAddressesChanged(e))
      BY <1>3, <2>2 DEF Notify
    <3>2. OnlyAddressesChanged(e) \in BOOLEAN
      BY DEF OnlyAddressesChanged
    <3>3. overlooked' \in BOOLEAN /\ (overlooked => overlooked')
      BY <3>1, <3>2, <1>2
    <3>4. nodeEvents' \in 0..nodeChanges' /\ nodeChanges' \in 0..MaxNodeChanges
      BY <3>1, <1>2
    <3>5. CASE OnlyAddressesChanged(e)
      BY <3>1, <3>3, <3>4, <3>5
    <3>6. CASE ~OnlyAddressesChanged(e)
      BY <2>2, <3>1, <3>3, <3>4, <3>6, OnlyAddressesAreOverlooked
    <3> QED
      BY <3>5, <3>6
  <2> QED
    BY <2>1, <2>2
<1>4. CASE NodeAdded(n)
  <2>1. PICK state \in NodeStates :
               /\ nodes' = [m \in DOMAIN nodes \cup {n} |-> IF m = n THEN state ELSE nodes[m]]
               /\ Notify("create", state, state)
    BY <1>4 DEF NodeAdded
  <2>2. nodes' \in [DOMAIN nodes' -> NodeStates] /\ DOMAIN nodes' \subseteq Nodes
    BY <2>1, <1>2
  <2>3. ASSUME Contribution(state) = {}
        PROVE  WantedBackends' = WantedBackends
    <3>1. \A m \in DOMAIN nodes : nodes'[m] = nodes[m]
      BY <1>4, <2>1 DEF NodeAdded
    <3>2. UNION {Contribution(nodes'[m]) : m \in DOMAIN nodes'}
            = UNION {Contribution(nodes[m]) : m \in DOMAIN nodes}
      <4>1. DOMAIN nodes' = DOMAIN nodes \cup {n} /\ nodes'[n] = state
        BY <2>1
      <4>2. Contribution(nodes'[n]) = {}
        BY <4>1, <2>3
      <4> QED
        BY <3>1, <4>1, <4>2
    <3> QED
      BY <1>2, <2>2, <3>2, BackendsAreContributed DEF WantedBackends
  <2> QED
    BY <1>2, <1>3, <2>1, <2>2, <2>3 DEF NodesTypeOK
<1>5. CASE NodeUpdated(n)
  <2>1. PICK state \in NodeStates :
               /\ nodes' = [nodes EXCEPT ![n] = state]
               /\ Notify("update", nodes[n], state)
    BY <1>5 DEF NodeUpdated
  <2>2. nodes[n] \in NodeStates /\ n \in DOMAIN nodes
    BY <1>2, <1>5 DEF NodeUpdated
  <2>3. nodes' \in [DOMAIN nodes' -> NodeStates] /\ DOMAIN nodes' = DOMAIN nodes
    BY <2>1, <1>2
  <2>4. ASSUME Contribution(nodes[n]) = Contribution(state)
        PROVE  WantedBackends' = WantedBackends
    <3>1. \A m \in DOMAIN nodes : Contribution(nodes'[m]) = Contribution(nodes[m])
      BY <1>2, <2>1, <2>2, <2>4
    <3>2. UNION {Contribution(nodes'[m]) : m \in DOMAIN nodes'}
            = UNION {Contribution(nodes[m]) : m \in DOMAIN nodes}
      BY <2>3, <3>1
    <3> QED
      BY <1>2, <2>3, <3>2, BackendsAreContributed DEF WantedBackends
  <2> QED
    BY <1>2, <1>3, <2>1, <2>2, <2>3, <2>4 DEF NodesTypeOK
<1>6. CASE NodeRemoved(n)
  <2>1. nodes' = Restrict(nodes, DOMAIN nodes \ {n}) /\ Notify("delete", nodes[n], nodes[n])
        /\ n \in DOMAIN nodes
    BY <1>6 DEF NodeRemoved
  <2>2. nodes' \in [DOMAIN nodes' -> NodeStates] /\ DOMAIN nodes' \subseteq Nodes
    BY <2>1, <1>2 DEF Restrict
  <2> QED
    BY <1>2, <1>3, <2>1, <2>2 DEF NodesTypeOK
<1> QED
  BY <1>1, <1>4, <1>5, <1>6

-----------------------------------------------------------------------------
(* The queue *)

LEMMA SeqsCover ==
    ASSUME NEW S, IsFiniteSet(S), NEW order \in SetToSeqs(S)
    PROVE  order \in Seq(S) /\ Range(order) = S
<1> DEFINE D == 1..Cardinality(S)
<1>1. Cardinality(S) \in Nat
  BY FS_CardinalityType
<1>2. order \in Injection(D, S)
  BY DEF SetToSeqs, Injection, IsInjective
<1>3. Cardinality(D) = Cardinality(S)
  BY <1>1, FS_Interval
<1>4. order \in Surjection(D, S)
  BY <1>2, <1>3, FS_Injection
<1>5. order \in [D -> S]
  BY <1>2 DEF Injection
<1>6. order \in Seq(S)
  BY <1>1, <1>5
<1> QED
  BY <1>4, <1>5, <1>6 DEF Range, Surjection

LEMMA AddKeepsKeys ==
    ASSUME NEW keys \in SUBSET Services, QueueTypeOK, NothingIsForgotten, Add(keys)
    PROVE  /\ QueueTypeOK' /\ NothingIsForgotten'
           /\ dirty' = dirty \cup keys
           /\ processing' = processing
           /\ Range(queue') \subseteq Range(queue) \cup keys
<1> DEFINE new == keys \ (dirty \cup processing)
<1>1. IsFiniteSet(new)
  BY QueueAssumption, FS_Subset
<1>2. PICK order \in SetToSeqs(new) : queue' = queue \o order
  BY DEF Add
<1>3. order \in Seq(new) /\ Range(order) = new
  BY <1>1, <1>2, SeqsCover
<1>4. queue \in Seq(Services) /\ order \in Seq(Services)
  BY <1>3 DEF QueueTypeOK
<1>5. queue' \in Seq(Services)
  BY <1>2, <1>4
<1>6. dirty' = dirty \cup keys /\ processing' = processing
  BY DEF Add
<1>7. ASSUME NEW key \in Range(queue) \cup Range(order)
      PROVE  key \in Range(queue')
  <2>1. CASE key \in Range(queue)
    <3>1. PICK i \in DOMAIN queue : key = queue[i]
      BY <2>1 DEF Range
    <3>2. i \in DOMAIN queue' /\ queue'[i] = key
      BY <1>2, <1>4, <3>1
    <3> QED
      BY <3>2 DEF Range
  <2>2. CASE key \in Range(order)
    <3>1. PICK i \in DOMAIN order : key = order[i]
      BY <2>2 DEF Range
    <3>2. Len(queue) + i \in DOMAIN queue' /\ queue'[Len(queue) + i] = key
      BY <1>2, <1>4, <3>1
    <3> QED
      BY <3>2 DEF Range
  <2> QED
    BY <1>7, <2>1, <2>2
<1>8. NothingIsForgotten'
  BY <1>3, <1>6, <1>7 DEF NothingIsForgotten
<1>9. ASSUME NEW key \in Range(queue')
      PROVE  key \in Range(queue) \cup Range(order)
  <2>1. PICK i \in DOMAIN queue' : key = queue'[i]
    BY DEF Range
  <2>2. CASE i <= Len(queue)
    BY <1>2, <1>4, <2>1, <2>2 DEF Range
  <2>3. CASE i > Len(queue)
    <3>1. i - Len(queue) \in DOMAIN order /\ key = order[i - Len(queue)]
      BY <1>2, <1>4, <2>1, <2>3
    <3> QED
      BY <3>1 DEF Range
  <2> QED
    BY <1>4, <1>5, <2>1, <2>2, <2>3
<1> QED
  BY <1>3, <1>5, <1>6, <1>8, <1>9 DEF QueueTypeOK

LEMMA TakeKeepsKeys ==
    ASSUME NEW key, processing = {}, QueueTypeOK, NothingIsForgotten, Take(key)
    PROVE  /\ QueueTypeOK' /\ NothingIsForgotten'
           /\ key \in Services
           /\ dirty' = dirty \ {key}
           /\ processing' = {key}
           /\ key \in Range(queue) /\ Range(queue') \subseteq Range(queue)
<1>1. /\ queue \in Seq(Services) /\ queue # <<>> /\ key = Head(queue) /\ queue' = Tail(queue)
      /\ dirty' = dirty \ {key} /\ processing' = {key}
  BY DEF Take, QueueTypeOK
<1>2. key = queue[1] /\ key \in Services /\ queue' \in Seq(Services)
  BY <1>1
<1>3. ASSUME NEW k \in Range(queue), k # key
      PROVE  k \in Range(queue')
  <2>1. PICK i \in DOMAIN queue : k = queue[i]
    BY DEF Range
  <2>2. i # 1
    BY <1>2, <1>3, <2>1
  <2>3. i - 1 \in DOMAIN queue' /\ queue'[i - 1] = k
    BY <1>1, <2>1, <2>2
  <2> QED
    BY <2>3 DEF Range
<1>4. NothingIsForgotten'
  BY <1>1, <1>3 DEF NothingIsForgotten
<1>5. ASSUME NEW k \in Range(queue')
      PROVE  k \in Range(queue)
  <2>1. PICK i \in DOMAIN queue' : k = queue'[i]
    BY DEF Range
  <2>2. i + 1 \in DOMAIN queue /\ k = queue[i + 1]
    BY <1>1, <2>1
  <2> QED
    BY <2>2 DEF Range
<1>6. key \in Range(queue)
  BY <1>1, <1>2 DEF Range
<1> QED
  BY <1>1, <1>2, <1>4, <1>5, <1>6 DEF QueueTypeOK

LEMMA DoneKeepsKeys ==
    ASSUME NEW key \in Services, NEW retry \in BOOLEAN, processing = {key},
           QueueTypeOK, NothingIsForgotten, Done(key, retry)
    PROVE  /\ QueueTypeOK' /\ NothingIsForgotten'
           /\ dirty' = IF retry THEN dirty \cup {key} ELSE dirty
           /\ processing' = {}
           /\ Range(queue') \subseteq Range(queue) \cup {key}
<1>1. /\ queue \in Seq(Services) /\ dirty \subseteq Services
      /\ processing' = {}
      /\ dirty' = IF retry THEN dirty \cup {key} ELSE dirty
      /\ queue' = IF key \in dirty' THEN Append(queue, key) ELSE queue
  BY DEF Done, QueueTypeOK
<1>2. queue' \in Seq(Services)
  BY <1>1
<1>3. \A k \in Range(queue) : k \in Range(queue')
  <2>1. ASSUME NEW k \in Range(queue)
        PROVE  k \in Range(queue')
    <3>1. PICK i \in DOMAIN queue : k = queue[i]
      BY DEF Range
    <3>2. i \in DOMAIN queue' /\ queue'[i] = k
      BY <1>1, <3>1
    <3> QED
      BY <3>2 DEF Range
  <2> QED
    BY <2>1
<1>4. key \in dirty' => key \in Range(queue')
  <2>1. ASSUME key \in dirty'
        PROVE  key \in Range(queue')
    <3>1. Len(queue) + 1 \in DOMAIN queue' /\ queue'[Len(queue) + 1] = key
      BY <1>1, <2>1
    <3> QED
      BY <3>1 DEF Range
  <2> QED
    BY <2>1
<1>5. NothingIsForgotten'
  BY <1>1, <1>3, <1>4 DEF NothingIsForgotten
<1>6. ASSUME NEW k \in Range(queue')
      PROVE  k \in Range(queue) \cup {key}
  <2>1. PICK i \in DOMAIN queue' : k = queue'[i]
    BY DEF Range
  <2>2. CASE k # key
    <3>1. i \in DOMAIN queue /\ k = queue[i]
      BY <1>1, <2>1, <2>2
    <3> QED
      BY <3>1 DEF Range
  <2> QED
    BY <2>2
<1> QED
  BY <1>1, <1>2, <1>5, <1>6 DEF QueueTypeOK

LEMMA RestartKeepsKeys ==
    ASSUME NEW keys \in SUBSET Services, Restarted(keys)
    PROVE  /\ QueueTypeOK' /\ NothingIsForgotten'
           /\ dirty' = keys
           /\ processing' = {}
           /\ Range(queue') = keys
<1>1. IsFiniteSet(keys)
  BY QueueAssumption, FS_Subset
<1>2. queue' \in Seq(keys) /\ Range(queue') = keys
  BY <1>1, SeqsCover DEF Restarted
<1>3. queue' \in Seq(Services)
  BY <1>2
<1> QED
  BY <1>2, <1>3 DEF Restarted, QueueTypeOK, NothingIsForgotten

-----------------------------------------------------------------------------
(* The invariant: events *)

LEMMA SyncInvInit == Init => SyncInv
<1> SUFFICES ASSUME Init
             PROVE  SyncInv
  OBVIOUS
<1>1. NodesTypeOK
  <2>1. PICK present \in SUBSET Nodes : nodes \in [present -> NodeStates]
    BY DEF Init, NodesInit
  <2>2. DOMAIN nodes = present
    BY <2>1
  <2>3. nodeEvents \in 0..nodeChanges /\ nodeChanges \in 0..MaxNodeChanges
    BY NodesAssumption DEF Init, NodesInit
  <2> QED
    BY <2>1, <2>2, <2>3 DEF Init, NodesInit, NodesTypeOK
<1>2. QueueTypeOK /\ NothingIsForgotten /\ OnlyKnownKeys
  <2>1. queue = <<>> /\ dirty = {} /\ processing = {} /\ Range(queue) = {}
    BY DEF Init, QueueInit, Range
  <2> QED
    BY <2>1 DEF QueueTypeOK, NothingIsForgotten, OnlyKnownKeys
<1>3. TypeOK
  BY <1>1, <1>2, SyncAssumption DEF Init, TypeOK, LoadBalancer, Listeners, NoListeners
<1>4. Known = {}
  BY DEF Init, Known
<1>5. OneWorker
  BY DEF Init, QueueInit, OneWorker, Known
<1> QED
  BY <1>2, <1>3, <1>4, <1>5 DEF SyncInv

LEMMA NodesChangeKeepsSyncInv == SyncInv /\ NodesChange => SyncInv'
<1> SUFFICES ASSUME SyncInv, NodesChange
             PROVE  SyncInv'
  OBVIOUS
<1>1. /\ NodesTypeOK' /\ (overlooked => overlooked') /\ (nodeEvents > 0 => nodeEvents' > 0)
      /\ nodeEvents' > 0 \/ overlooked' \/ WantedBackends' = WantedBackends
  BY NodeChangeIsNoticed DEF SyncInv, TypeOK, NodesChange
<1>2. UNCHANGED <<queue, dirty, processing, services, lbs, rules, pc, hand, faults>>
  BY DEF NodesChange, queueVars, syncVars, passVars
<1>3. TypeOK'
  BY <1>1, <1>2 DEF SyncInv, TypeOK, QueueTypeOK
<1>4. OneWorker' /\ NothingIsForgotten' /\ OnlyKnownKeys' /\ Known' = Known
  BY <1>2 DEF SyncInv, OneWorker, NothingIsForgotten, OnlyKnownKeys, Known
<1>5. ASSUME NEW s \in Known, WantedBackends' = WantedBackends
      PROVE  /\ PassIsUpToDate(s) => PassIsUpToDate(s)'
             /\ IsServed(s) => IsServed(s)'
  BY <1>2, <1>5 DEF PassIsUpToDate, IsServed
<1> QED
  BY <1>1, <1>2, <1>3, <1>4, <1>5 DEF SyncInv, IsProvidedFor

LEMMA HandleNodeEventKeepsSyncInv == SyncInv /\ HandleNodeEvent => SyncInv'
<1> SUFFICES ASSUME SyncInv, HandleNodeEvent
             PROVE  SyncInv'
  OBVIOUS
<1> USE DEF HandleNodeEvent, syncVars, passVars
<1>1. Known \in SUBSET Services /\ Known' = Known
  BY DEF Known
<1>2. NodesTypeOK' /\ (faults' \in 0..MaxFaults)
  <2>1. NodesTypeOK /\ faults \in 0..MaxFaults
    BY DEF SyncInv, TypeOK
  <2>2. /\ nodes' = nodes /\ nodeChanges' = nodeChanges
        /\ nodeEvents > 0 /\ nodeEvents' = nodeEvents - 1
    OBVIOUS
  <2>3. \/ faults' = faults /\ overlooked' = overlooked
        \/ faults < MaxFaults /\ faults' = faults + 1 /\ overlooked' = TRUE
    OBVIOUS
  <2>4. overlooked' \in BOOLEAN
    BY <2>1, <2>3 DEF NodesTypeOK
  <2>5. faults' \in 0..MaxFaults
    BY <2>1, <2>3, SyncAssumption
  <2>6. nodeEvents' \in 0..nodeChanges'
    BY <2>1, <2>2, NodesAssumption DEF NodesTypeOK
  <2> QED
    BY <2>1, <2>2, <2>4, <2>5, <2>6 DEF NodesTypeOK
<1>3. CASE Add(Known)
  <2>1. QueueTypeOK' /\ NothingIsForgotten' /\ dirty' = dirty \cup Known /\ processing' = processing
    BY <1>1, <1>3, AddKeepsKeys DEF SyncInv, TypeOK
  <2>4. OnlyKnownKeys'
    BY <1>1, <1>3, <2>1, AddKeepsKeys DEF SyncInv, TypeOK, OnlyKnownKeys
  <2>2. TypeOK'
    BY <1>2, <2>1 DEF SyncInv, TypeOK
  <2>3. OneWorker'
    BY <1>1, <2>1 DEF SyncInv, OneWorker
  <2> QED
    BY <1>1, <2>1, <2>2, <2>3, <2>4 DEF SyncInv, IsProvidedFor
<1>4. CASE overlooked' = TRUE /\ UNCHANGED queueVars
  <2>1. QueueTypeOK' /\ NothingIsForgotten' /\ OnlyKnownKeys' /\ processing' = processing
    BY <1>1, <1>4 DEF SyncInv, TypeOK, queueVars, QueueTypeOK, NothingIsForgotten, OnlyKnownKeys
  <2>2. TypeOK'
    BY <1>2, <2>1 DEF SyncInv, TypeOK
  <2>3. OneWorker'
    BY <1>1, <2>1 DEF SyncInv, OneWorker
  <2> QED
    BY <1>1, <1>4, <2>1, <2>2, <2>3 DEF SyncInv
<1> QED
  BY <1>3, <1>4 DEF mapNodeToLBServices

LEMMA ResyncKeepsSyncInv == SyncInv /\ Resync => SyncInv'
<1> SUFFICES ASSUME SyncInv, Resync
             PROVE  SyncInv'
  OBVIOUS
<1>1. Known \in SUBSET Services /\ Known' = Known
  BY DEF Known, Resync, syncVars
<1>2. QueueTypeOK' /\ NothingIsForgotten' /\ dirty' = dirty \cup Known /\ processing' = processing
  BY <1>1, AddKeepsKeys DEF SyncInv, TypeOK, Resync
<1>5. OnlyKnownKeys'
  BY <1>1, <1>2, AddKeepsKeys DEF SyncInv, TypeOK, Resync, OnlyKnownKeys
<1>3. TypeOK'
  BY <1>2 DEF SyncInv, TypeOK, Resync, nodeVars, syncVars, passVars, NodesTypeOK
<1>4. OneWorker'
  BY <1>1, <1>2 DEF SyncInv, OneWorker, Resync, syncVars, passVars
<1> QED
  BY <1>1, <1>2, <1>3, <1>4, <1>5 DEF SyncInv, IsProvidedFor

LEMMA UserCreatesKeepsSyncInv == \A s \in Services : SyncInv /\ UserCreates(s) => SyncInv'
<1> SUFFICES ASSUME NEW s \in Services, SyncInv, UserCreates(s)
             PROVE  SyncInv'
  OBVIOUS
<1>1. /\ UNCHANGED <<nodes, nodeEvents, nodeChanges, lbs, rules, pc, hand, faults, overlooked>>
      /\ services[s] = "absent" /\ services' = [services EXCEPT ![s] = "new"]
  BY DEF UserCreates, nodeVars, passVars
<1>2. QueueTypeOK' /\ NothingIsForgotten' /\ dirty' = dirty \cup {s} /\ processing' = processing
  BY AddKeepsKeys DEF SyncInv, TypeOK, UserCreates
<1>3. TypeOK'
  BY <1>1, <1>2 DEF SyncInv, TypeOK, NodesTypeOK
<1>4. Known' = Known \cup {s} /\ s \notin Known /\ \A t \in Known : services'[t] = services[t]
  BY <1>1 DEF Known, SyncInv, TypeOK
<1>5. OneWorker'
  BY <1>1, <1>2, <1>4 DEF SyncInv, OneWorker
<1>6. ASSUME NEW t \in Known
      PROVE  /\ PassIsUpToDate(t) => PassIsUpToDate(t)'
             /\ IsServed(t) => IsServed(t)'
  BY <1>1, <1>2, <1>4 DEF PassIsUpToDate, IsServed, WantedBackends
<1>7. OnlyKnownKeys'
  BY <1>2, <1>4, AddKeepsKeys DEF SyncInv, TypeOK, UserCreates, OnlyKnownKeys
<1> QED
  BY <1>1, <1>2, <1>3, <1>4, <1>5, <1>6, <1>7 DEF SyncInv, IsProvidedFor

LEMMA OperationSettlesKeepsSyncInv == \A s \in Services : SyncInv /\ OperationSettles(s) => SyncInv'
<1> SUFFICES ASSUME NEW s \in Services, SyncInv, OperationSettles(s)
             PROVE  SyncInv'
  OBVIOUS
<1>1. UNCHANGED <<nodes, nodeEvents, nodeChanges, queue, dirty, processing, services, rules, pc, hand,
                  faults, overlooked>>
  BY DEF OperationSettles, nodeVars, queueVars, passVars
<1>2. lbs' \in [Services -> LoadBalancer] /\ \A t \in Services : lbs'[t].listeners = lbs[t].listeners
  BY DEF SyncInv, TypeOK, OperationSettles, LoadBalancer
<1>3. TypeOK'
  BY <1>1, <1>2 DEF SyncInv, TypeOK, NodesTypeOK, QueueTypeOK
<1>4. OneWorker' /\ NothingIsForgotten' /\ OnlyKnownKeys' /\ Known' = Known /\ Known \subseteq Services
  BY <1>1 DEF SyncInv, OneWorker, NothingIsForgotten, OnlyKnownKeys, Known
<1>5. ASSUME NEW t \in Known
      PROVE  /\ PassIsUpToDate(t) => PassIsUpToDate(t)'
             /\ IsServed(t) => IsServed(t)'
  BY <1>1, <1>2, <1>4 DEF PassIsUpToDate, IsServed, WantedBackends
<1> QED
  BY <1>1, <1>3, <1>4, <1>5 DEF SyncInv, IsProvidedFor

\* A load balancer that was served goes only where `overlooked' says so.
LEMMA OperationFailsKeepsSyncInv == \A s \in Services : SyncInv /\ OperationFails(s) => SyncInv'
<1> SUFFICES ASSUME NEW s \in Services, SyncInv, OperationFails(s)
             PROVE  SyncInv'
  OBVIOUS
<1>1. /\ UNCHANGED <<nodes, nodeEvents, nodeChanges, queue, dirty, processing, services, rules, pc, hand>>
      /\ faults < MaxFaults /\ faults' = faults + 1
      /\ overlooked' = (overlooked \/ services[s] = "recorded")
  BY DEF OperationFails, nodeVars, queueVars, passVars
<1>2. lbs' \in [Services -> LoadBalancer] /\ \A t \in Services \ {s} : lbs'[t] = lbs[t]
  <2>1. [op |-> "FAILED", listeners |-> NoListeners] \in LoadBalancer
    BY DEF LoadBalancer, Listeners, NoListeners
  <2> QED
    BY <2>1 DEF SyncInv, TypeOK, OperationFails
<1>3. TypeOK'
  BY <1>1, <1>2, SyncAssumption DEF SyncInv, TypeOK, NodesTypeOK, QueueTypeOK
<1>4. OneWorker' /\ NothingIsForgotten' /\ OnlyKnownKeys' /\ Known' = Known /\ Known \subseteq Services
  BY <1>1 DEF SyncInv, OneWorker, NothingIsForgotten, OnlyKnownKeys, Known
<1>5. ASSUME NEW t \in Known, ~overlooked', IsProvidedFor(t)
      PROVE  IsProvidedFor(t)'
  <2>1. CASE t # s
    BY <1>1, <1>2, <1>4, <1>5, <2>1 DEF IsProvidedFor, PassIsUpToDate, IsServed, WantedBackends
  <2>2. CASE t = s
    <3>1. services[s] # "recorded"
      BY <1>1, <1>5
    <3>2. ~IsServed(s) /\ (s \in processing => pc # "rule")
      BY <3>1 DEF IsServed, SyncInv, OneWorker
    <3> QED
      BY <1>1, <1>5, <2>2, <3>2 DEF IsProvidedFor, PassIsUpToDate, WantedBackends
  <2> QED
    BY <2>1, <2>2
<1> QED
  BY <1>1, <1>3, <1>4, <1>5 DEF SyncInv

-----------------------------------------------------------------------------
(* The invariant: the worker *)

(***************************************************************************)
(* A pass that ends for a key.  It keeps the invariant if it comes back,   *)
(* if what is not followed up is named, or if the Service is served.       *)
(***************************************************************************)
LEMMA FinishKeepsSyncInv ==
    ASSUME SyncInv, NEW s \in processing, NEW retry \in BOOLEAN, Finish(s, retry),
           UNCHANGED <<nodeVars, services, lbs>>,
           rules \subseteq rules', rules' \subseteq Services,
           faults' \in 0..MaxFaults,
           overlooked' \in BOOLEAN, overlooked => overlooked',
           retry \/ overlooked' \/ (PassIsUpToDate(s) => IsServed(s)')
    PROVE  SyncInv'
<1>1. processing = {s} /\ s \in Known /\ Known \subseteq Services
  BY DEF SyncInv, OneWorker, Known
<1>2. /\ QueueTypeOK' /\ NothingIsForgotten' /\ processing' = {}
      /\ dirty' = IF retry THEN dirty \cup {s} ELSE dirty
  BY <1>1, DoneKeepsKeys DEF SyncInv, TypeOK, Finish
<1>3. pc' = "idle" /\ hand' = NoListeners /\ Known' = Known
  BY DEF Finish, Known
<1>4. TypeOK'
  BY <1>2, <1>3 DEF SyncInv, TypeOK, NodesTypeOK, nodeVars, Listeners, NoListeners
<1>5. OneWorker'
  BY <1>2, <1>3 DEF OneWorker
<1>6. ASSUME NEW t \in Known, ~overlooked'
      PROVE  IsProvidedFor(t)'
  <2>1. nodeEvents > 0 \/ t \in dirty \/ IF t \in processing THEN PassIsUpToDate(t) ELSE IsServed(t)
    BY <1>6 DEF SyncInv, IsProvidedFor
  <2>2. IsServed(t) => IsServed(t)'
    BY DEF IsServed, WantedBackends, nodeVars
  <2>3. nodeEvents' > 0 \/ t \in dirty' \/ IsServed(t)'
    BY <1>1, <1>2, <1>6, <2>1, <2>2 DEF nodeVars
  <2> QED
    BY <1>2, <2>3 DEF IsProvidedFor
<1>7. OnlyKnownKeys'
  BY <1>1, <1>2, <1>3, DoneKeepsKeys DEF SyncInv, TypeOK, Finish, OnlyKnownKeys
<1> QED
  BY <1>2, <1>3, <1>4, <1>5, <1>6, <1>7 DEF SyncInv

(***************************************************************************)
(* A pass that goes on.  It keeps the invariant if the Service's own place *)
(* in it is kept.                                                          *)
(***************************************************************************)
LEMMA GotoKeepsSyncInv ==
    ASSUME SyncInv, NEW s \in processing,
           NEW point \in {"lookup", "create", "wait", "record", "update", "rule"}, Goto(point),
           UNCHANGED <<nodeVars, overlooked, services, rules>>,
           faults' \in 0..MaxFaults, hand' \in Listeners,
           lbs' \in [Services -> LoadBalancer],
           \A t \in Services \ {s} : lbs'[t] = lbs[t],
           services[s] = IF point \in {"update", "rule"} THEN "recorded" ELSE "new",
           PassIsUpToDate(s) => PassIsUpToDate(s)'
    PROVE  SyncInv'
<1>1. processing = {s} /\ s \in Known /\ Known \subseteq Services
  BY DEF SyncInv, OneWorker, Known
<1>2. pc' = point /\ UNCHANGED <<queue, dirty, processing>> /\ Known' = Known
  BY DEF Goto, queueVars, Known
<1>3. TypeOK'
  BY <1>2 DEF SyncInv, TypeOK, NodesTypeOK, QueueTypeOK, nodeVars
<1>4. OneWorker'
  BY <1>1, <1>2 DEF OneWorker
<1>5. NothingIsForgotten' /\ OnlyKnownKeys'
  BY <1>2 DEF SyncInv, NothingIsForgotten, OnlyKnownKeys
<1>6. ASSUME NEW t \in Known, ~overlooked'
      PROVE  IsProvidedFor(t)'
  <2>1. nodeEvents > 0 \/ t \in dirty \/ IF t \in processing THEN PassIsUpToDate(t) ELSE IsServed(t)
    BY <1>6 DEF SyncInv, IsProvidedFor
  <2>2. t # s /\ IsServed(t) => IsServed(t)'
    BY <1>1 DEF IsServed, WantedBackends, nodeVars
  <2> QED
    BY <1>1, <1>2, <2>1, <2>2 DEF IsProvidedFor, nodeVars
<1> QED
  BY <1>2, <1>3, <1>4, <1>5, <1>6 DEF SyncInv

\* What the steps of a pass start from.
LEMMA InAPass ==
    ASSUME SyncInv, NEW s \in processing
    PROVE  /\ s \in Known /\ s \in Services /\ processing = {s}
           /\ lbs \in [Services -> LoadBalancer] /\ rules \subseteq Services
           /\ hand \in Listeners /\ faults \in 0..MaxFaults /\ overlooked \in BOOLEAN
           /\ services \in [Services -> {"absent", "new", "recorded"}]
           /\ internalIPs(nodes) = WantedBackends /\ WantedBackends \in SUBSET Ips
           /\ pc \in {"lookup", "create", "wait", "record"} => services[s] = "new"
           /\ pc \in {"update", "rule"} => services[s] = "recorded"
<1>1. nodes \in [DOMAIN nodes -> NodeStates]
  BY DEF SyncInv, TypeOK, NodesTypeOK
<1>2. internalIPs(nodes) = WantedBackends
  BY <1>1, BackendsAreWanted DEF WantedBackends
<1>3. WantedBackends \in SUBSET Ips
  <2>1. \A n \in DOMAIN nodes : Contribution(nodes[n]) \subseteq Ips
    <3>1. \A n \in DOMAIN nodes : nodes[n] \in NodeState
      BY <1>1, NodesAssumption
    <3> QED
      BY <3>1 DEF NodeState, Contribution
  <2> QED
    BY <1>1, <2>1, BackendsAreContributed DEF WantedBackends
<1>4. s \in Known /\ s \in Services /\ processing = {s}
  BY DEF SyncInv, OneWorker, Known
<1>5. /\ pc \in {"lookup", "create", "wait", "record"} => services[s] = "new"
      /\ pc \in {"update", "rule"} => services[s] = "recorded"
  BY DEF SyncInv, OneWorker
<1> QED
  BY <1>2, <1>3, <1>4, <1>5 DEF SyncInv, TypeOK, NodesTypeOK

LEMMA ReconcileKeepsSyncInv == \A s \in Services : SyncInv /\ Reconcile(s) => SyncInv'
<1> SUFFICES ASSUME NEW s \in Services, SyncInv, Reconcile(s)
             PROVE  SyncInv'
  OBVIOUS
<1>1. processing = {} /\ pc = "idle"
  BY DEF SyncInv, OneWorker, Reconcile
<1>2. /\ QueueTypeOK' /\ NothingIsForgotten'
      /\ dirty' = dirty \ {s} /\ processing' = {s}
      /\ s \in Range(queue) /\ Range(queue') \subseteq Range(queue)
  BY <1>1, TakeKeepsKeys DEF SyncInv, TypeOK, Reconcile
<1>3. /\ pc' = "list" /\ s \in Known /\ Known' = Known
      /\ UNCHANGED <<nodes, nodeEvents, nodeChanges, services, lbs, rules, hand, faults, overlooked>>
  BY <1>2 DEF Reconcile, SyncInv, OnlyKnownKeys, Known, nodeVars, syncVars
<1>4. TypeOK'
  BY <1>2, <1>3 DEF SyncInv, TypeOK, NodesTypeOK
<1>5. OneWorker'
  BY <1>2, <1>3 DEF OneWorker
<1>6. OnlyKnownKeys'
  BY <1>2, <1>3 DEF SyncInv, OnlyKnownKeys
<1>7. ASSUME NEW t \in Known, ~overlooked'
      PROVE  IsProvidedFor(t)'
  <2>1. nodeEvents > 0 \/ t \in dirty \/ IsServed(t)
    BY <1>1, <1>3, <1>7 DEF SyncInv, IsProvidedFor
  <2>2. IsServed(t) => IsServed(t)'
    BY <1>3 DEF IsServed, WantedBackends
  <2>3. PassIsUpToDate(t)'
    BY <1>3 DEF PassIsUpToDate
  <2> QED
    BY <1>2, <1>3, <2>1, <2>2, <2>3 DEF IsProvidedFor
<1> QED
  BY <1>2, <1>3, <1>4, <1>5, <1>6, <1>7 DEF SyncInv

LEMMA ParseKeepsSyncInv ==
    \A s \in processing : SyncInv /\ parseListenPortsAndBackends(s) => SyncInv'
<1> SUFFICES ASSUME NEW s \in processing, SyncInv, parseListenPortsAndBackends(s)
             PROVE  SyncInv'
  OBVIOUS
<1> DEFINE point == IF services[s] = "new" THEN "lookup" ELSE "update"
<1>1. /\ UNCHANGED <<nodeVars, overlooked, services, rules, lbs, processing>> /\ Goto(point)
      /\ \/ hand' = [listed |-> TRUE, backends |-> WantedBackends] /\ faults' = faults
         \/ faults < MaxFaults /\ faults' = faults + 1 /\ hand' = NoListeners
  BY InAPass DEF parseListenPortsAndBackends, syncVars, Goto, queueVars
<1>2. hand' \in Listeners
  <2>1. [listed |-> TRUE, backends |-> WantedBackends] \in Listeners
    <3>1. WantedBackends \in SUBSET Ips
      BY InAPass
    <3> QED
      BY <3>1 DEF Listeners
  <2>2. NoListeners \in Listeners
    BY DEF Listeners, NoListeners
  <2> QED
    BY <1>1, <2>1, <2>2
<1>3. faults' \in 0..MaxFaults
  BY <1>1, InAPass, SyncAssumption
<1>4. services[s] \in {"new", "recorded"}
  BY InAPass DEF Known
<1>5. WantedBackends' = WantedBackends
  BY <1>1 DEF WantedBackends, nodeVars
<1>6. PassIsUpToDate(s)'
  BY <1>1, <1>5 DEF PassIsUpToDate, Goto, NoListeners
<1> QED
  BY <1>1, <1>2, <1>3, <1>4, <1>6, InAPass, GotoKeepsSyncInv

LEMMA CreatePassKeepsSyncInv ==
    \A s \in processing : SyncInv /\ (LookUp(s) \/ CreateLoadBalancer(s) \/ WaitForOperation(s)) => SyncInv'
<1> SUFFICES ASSUME NEW s \in processing, SyncInv,
                    LookUp(s) \/ CreateLoadBalancer(s) \/ WaitForOperation(s)
             PROVE  SyncInv'
  OBVIOUS
<1> USE DEF LookUp, CreateLoadBalancer, WaitForOperation
<1>1. /\ UNCHANGED <<nodeVars, overlooked, services, rules, faults>>
      /\ pc \in {"lookup", "create", "wait"}
  BY DEF syncVars
<1>2. CASE pc = "wait" /\ polled(s) = "FAILED" /\ Finish(s, TRUE) /\ UNCHANGED lbs
  BY <1>1, <1>2, InAPass, FinishKeepsSyncInv
<1>3. ASSUME ~(pc = "wait" /\ polled(s) = "FAILED")
      PROVE  /\ \E point \in {"create", "wait", "record"} : Goto(point)
             /\ UNCHANGED hand
             /\ \/ UNCHANGED lbs
                \/ lbs' = [lbs EXCEPT ![s] = [op |-> "IN_PROGRESS", listeners |-> hand]]
  BY <1>3 DEF syncVars
<1>4. CASE ~(pc = "wait" /\ polled(s) = "FAILED")
  <2>1. PICK point \in {"create", "wait", "record"} : Goto(point)
    BY <1>3, <1>4
  <2>2. /\ lbs' \in [Services -> LoadBalancer]
        /\ \A t \in Services \ {s} : lbs'[t] = lbs[t]
    <3>1. [op |-> "IN_PROGRESS", listeners |-> hand] \in LoadBalancer
      BY InAPass DEF LoadBalancer
    <3> QED
      BY <1>3, <1>4, <3>1, InAPass
  <2>3. PassIsUpToDate(s)'
    BY <2>1 DEF PassIsUpToDate, Goto
  <2> QED
    BY <1>1, <1>3, <1>4, <2>1, <2>2, <2>3, InAPass, GotoKeepsSyncInv
<1> QED
  BY <1>2, <1>4 DEF syncVars

LEMMA RecordKeepsSyncInv == \A s \in processing : SyncInv /\ RecordLoadBalancer(s) => SyncInv'
<1> SUFFICES ASSUME NEW s \in processing, SyncInv, RecordLoadBalancer(s)
             PROVE  SyncInv'
  OBVIOUS
<1>1. /\ UNCHANGED <<nodes, nodeEvents, nodeChanges, lbs, rules, faults, overlooked>>
      /\ services' = [services EXCEPT ![s] = "recorded"]
  BY DEF RecordLoadBalancer, nodeVars
<1>2. {s} \in SUBSET Services /\ s \in Known /\ processing = {s}
  BY InAPass
<1>3. /\ QueueTypeOK' /\ NothingIsForgotten' /\ dirty' = dirty \cup {s}
      /\ Range(queue') \subseteq Range(queue) \cup {s}
      /\ \/ pc' = "rule" /\ hand' = hand /\ processing' = processing
         \/ pc' = "idle" /\ hand' = NoListeners /\ processing' = {}
  <2>1. CASE Add({s}) /\ pc' = "rule" /\ UNCHANGED hand
    BY <1>2, <2>1, AddKeepsKeys DEF SyncInv, TypeOK
  <2>2. CASE Finish(s, TRUE)
    BY <1>2, <2>2, DoneKeepsKeys DEF SyncInv, TypeOK, Finish
  <2> QED
    BY <2>1, <2>2 DEF RecordLoadBalancer
<1>4. services' \in [Services -> {"absent", "new", "recorded"}] /\ services'[s] = "recorded"
      /\ Known' = Known /\ \A t \in Known \ {s} : services'[t] = services[t]
  BY <1>1, InAPass DEF Known
<1>5. TypeOK'
  <2>1. NoListeners \in Listeners
    BY DEF Listeners, NoListeners
  <2>2. hand' \in Listeners /\ pc' \in {"rule", "idle"}
    BY <1>3, <2>1, InAPass
  <2> QED
    BY <1>1, <1>3, <1>4, <2>2 DEF SyncInv, TypeOK, NodesTypeOK
<1>6. OneWorker'
  BY <1>1, <1>2, <1>3, <1>4 DEF OneWorker
<1>7. OnlyKnownKeys'
  BY <1>2, <1>3, <1>4 DEF SyncInv, OnlyKnownKeys
<1>8. ASSUME NEW t \in Known, t # s, ~overlooked'
      PROVE  IsProvidedFor(t)'
  <2>1. nodeEvents > 0 \/ t \in dirty \/ IsServed(t)
    BY <1>1, <1>2, <1>8 DEF SyncInv, IsProvidedFor
  <2>2. IsServed(t) => IsServed(t)'
    BY <1>1, <1>4, <1>8 DEF IsServed, WantedBackends
  <2> QED
    BY <1>1, <1>2, <1>3, <1>8, <2>1, <2>2 DEF IsProvidedFor
<1> QED
  BY <1>3, <1>4, <1>5, <1>6, <1>7, <1>8 DEF SyncInv, IsProvidedFor

LEMMA UpdateKeepsSyncInv == \A s \in processing : SyncInv /\ UpdateLoadBalancer(s) => SyncInv'
<1> SUFFICES ASSUME NEW s \in processing, SyncInv, UpdateLoadBalancer(s)
             PROVE  SyncInv'
  OBVIOUS
<1>1. UNCHANGED <<nodeVars, overlooked, services, rules, faults>> /\ pc = "update"
  BY DEF UpdateLoadBalancer
<1>2. CASE ApiAcceptsUpdate(s, hand)
  <2>1. lbs' = [lbs EXCEPT ![s].listeners = hand] /\ Goto("rule") /\ hand' = hand
    BY <1>2 DEF UpdateLoadBalancer
  <2>2. /\ lbs' \in [Services -> LoadBalancer] /\ \A t \in Services \ {s} : lbs'[t] = lbs[t]
        /\ lbs'[s].listeners = hand
    BY <2>1, InAPass DEF LoadBalancer
  <2>3. WantedBackends' = WantedBackends /\ processing' = processing /\ pc' = "rule"
    BY <1>1, <2>1 DEF WantedBackends, nodeVars, Goto, queueVars
  <2>4. PassIsUpToDate(s) => PassIsUpToDate(s)'
    <3>1. SUFFICES ASSUME PassIsUpToDate(s)
                   PROVE  PassIsUpToDate(s)'
      OBVIOUS
    <3>2. hand = [listed |-> TRUE, backends |-> WantedBackends]
      BY <1>1, <1>2, <3>1, InAPass DEF PassIsUpToDate, ApiAcceptsUpdate, Listeners
    <3> QED
      BY <2>2, <2>3, <3>2 DEF PassIsUpToDate
  <2> QED
    BY <1>1, <2>1, <2>2, <2>4, InAPass, GotoKeepsSyncInv
<1>3. CASE ~ApiAcceptsUpdate(s, hand)
  <2>1. Finish(s, TRUE) /\ UNCHANGED lbs
    BY <1>3 DEF UpdateLoadBalancer
  <2> QED
    BY <1>1, <2>1, InAPass, FinishKeepsSyncInv
<1> QED
  BY <1>2, <1>3

LEMMA EnsureFirewallRuleKeepsSyncInv ==
    \A s \in processing : SyncInv /\ EnsureFirewallRule(s) => SyncInv'
<1> SUFFICES ASSUME NEW s \in processing, SyncInv, EnsureFirewallRule(s)
             PROVE  SyncInv'
  OBVIOUS
<1>1. UNCHANGED <<nodeVars, services, lbs>> /\ pc = "rule" /\ WantedBackends' = WantedBackends
  BY DEF EnsureFirewallRule, WantedBackends, nodeVars
<1>2. ASSUME rules \subseteq rules', WantedBackends # {} => s \in rules', PassIsUpToDate(s)
      PROVE  IsServed(s)'
  BY <1>1, <1>2, InAPass DEF IsServed, PassIsUpToDate
<1>3. CASE /\ WantedBackends # {} /\ rules' = rules \cup {s}
           /\ Finish(s, s \notin rules) /\ UNCHANGED <<faults, overlooked>>
  BY <1>1, <1>2, <1>3, InAPass, FinishKeepsSyncInv
<1>4. CASE /\ WantedBackends = {} /\ Finish(s, FALSE) /\ UNCHANGED <<rules, faults, overlooked>>
  BY <1>1, <1>2, <1>4, InAPass, FinishKeepsSyncInv
<1>5. CASE /\ faults < MaxFaults /\ faults' = faults + 1
           /\ overlooked' = (overlooked \/ s \notin rules)
           /\ Finish(s, FALSE) /\ UNCHANGED rules
  <2>1. faults' \in 0..MaxFaults
    BY <1>5, InAPass, SyncAssumption
  <2>2. overlooked' \in BOOLEAN /\ (overlooked => overlooked')
    BY <1>5, InAPass
  <2>3. overlooked' \/ (PassIsUpToDate(s) => IsServed(s)')
    BY <1>2, <1>5
  <2> QED
    BY <1>1, <1>5, <2>1, <2>2, <2>3, InAPass, FinishKeepsSyncInv
<1> QED
  BY <1>3, <1>4, <1>5, InAPass DEF EnsureFirewallRule

LEMMA PassEndsKeepsSyncInv ==
    \A s \in processing : SyncInv /\ (CreateRefused(s) \/ CallFails(s)) => SyncInv'
<1> SUFFICES ASSUME NEW s \in processing, SyncInv, CreateRefused(s) \/ CallFails(s)
             PROVE  SyncInv'
  OBVIOUS
<1>1. CASE CreateRefused(s)
  BY <1>1, InAPass, FinishKeepsSyncInv DEF CreateRefused, syncVars
<1>2. CASE CallFails(s)
  <2>1. faults' \in 0..MaxFaults
    BY <1>2, InAPass, SyncAssumption DEF CallFails
  <2> QED
    BY <1>2, <2>1, InAPass, FinishKeepsSyncInv DEF CallFails, syncVars
<1> QED
  BY <1>1, <1>2

LEMMA CrashKeepsSyncInv == SyncInv /\ Crash => SyncInv'
<1> SUFFICES ASSUME SyncInv, Crash
             PROVE  SyncInv'
  OBVIOUS
<1>1. Known \in SUBSET Services /\ Known' = Known
  BY DEF Known, Crash
<1>2. /\ QueueTypeOK' /\ NothingIsForgotten'
      /\ dirty' = Known /\ processing' = {} /\ Range(queue') = Known
  BY <1>1, RestartKeepsKeys DEF Crash
<1>3. faults' \in 0..MaxFaults
  BY SyncAssumption DEF SyncInv, TypeOK, Crash
<1>4. nodeEvents' \in 0..nodeChanges
  BY NodesAssumption DEF SyncInv, TypeOK, NodesTypeOK, Crash
<1>5. TypeOK'
  BY <1>2, <1>3, <1>4 DEF SyncInv, TypeOK, NodesTypeOK, Crash, Listeners, NoListeners
<1>6. OneWorker' /\ OnlyKnownKeys'
  BY <1>1, <1>2 DEF OneWorker, OnlyKnownKeys, Crash
<1> QED
  BY <1>1, <1>2, <1>5, <1>6 DEF SyncInv, IsProvidedFor

-----------------------------------------------------------------------------
(* Theorems *)

LEMMA NextKeepsSyncInv == SyncInv /\ [Next]_vars => SyncInv'
<1> SUFFICES ASSUME SyncInv, [Next]_vars
             PROVE  SyncInv'
  OBVIOUS
<1>1. CASE UNCHANGED vars
  <2>1. /\ UNCHANGED <<nodes, nodeEvents, nodeChanges, overlooked>> /\ UNCHANGED <<queue, dirty, processing>>
        /\ UNCHANGED <<services, lbs, rules, pc, hand, faults>>
    BY <1>1 DEF vars, nodeVars, queueVars, syncVars, passVars
  <2>2. TypeOK' /\ OneWorker' /\ NothingIsForgotten' /\ OnlyKnownKeys' /\ Known' = Known
    BY <2>1 DEF SyncInv, TypeOK, NodesTypeOK, QueueTypeOK, OneWorker, NothingIsForgotten,
                OnlyKnownKeys, Known
  <2>3. \A s \in Known : IsProvidedFor(s)' <=> IsProvidedFor(s)
    BY <2>1 DEF IsProvidedFor, PassIsUpToDate, IsServed, WantedBackends
  <2> QED
    BY <2>1, <2>2, <2>3 DEF SyncInv
<1>2. CASE \E s \in Services : Reconcile(s)
  BY <1>2, ReconcileKeepsSyncInv
<1>3. CASE \E s \in processing : Pass(s)
  BY <1>3, ParseKeepsSyncInv, CreatePassKeepsSyncInv, RecordKeepsSyncInv, UpdateKeepsSyncInv,
     EnsureFirewallRuleKeepsSyncInv, PassEndsKeepsSyncInv DEF Pass
<1>4. CASE \E s \in processing : CallFails(s)
  BY <1>4, PassEndsKeepsSyncInv
<1>5. CASE Crash \/ NodesChange \/ HandleNodeEvent \/ Resync
  BY <1>5, CrashKeepsSyncInv, NodesChangeKeepsSyncInv, HandleNodeEventKeepsSyncInv, ResyncKeepsSyncInv
<1>6. CASE \E s \in Services : UserCreates(s) \/ OperationSettles(s) \/ OperationFails(s)
  BY <1>6, UserCreatesKeepsSyncInv, OperationSettlesKeepsSyncInv, OperationFailsKeepsSyncInv
<1> QED
  BY <1>1, <1>2, <1>3, <1>4, <1>5, <1>6 DEF Next, Worker

(***************************************************************************)
(* What is not served has what will serve it on its way, in every          *)
(* reachable state: no return of a pass, no conflict of a key with its own *)
(* processing, no Node event between two reads loses a change.             *)
(***************************************************************************)
THEOREM NothingIsLost == Spec => []SyncInv
<1> QED
  BY SyncInvInit, NextKeepsSyncInv, PTL DEF Spec

(***************************************************************************)
(* An idle controller's load balancers have the backends the Nodes ask     *)
(* for, but for the changes the code is known not to follow up.            *)
(***************************************************************************)
THEOREM IdleMeansServed == Spec => []BackendsFollowNodes
<1>1. SyncInv => BackendsFollowNodes
  <2> SUFFICES ASSUME SyncInv, Quiet, ~overlooked, NEW s \in Known
               PROVE  IsServed(s)
    BY DEF BackendsFollowNodes
  <2>1. processing = {} /\ Range(queue) = {}
    BY DEF SyncInv, OneWorker, Quiet, Range
  <2>2. dirty = {}
    BY <2>1 DEF SyncInv, NothingIsForgotten
  <2> QED
    BY <2>1, <2>2 DEF SyncInv, IsProvidedFor, Quiet
<1> QED
  BY <1>1, NothingIsLost, PTL
=============================================================================
