---------------------------- MODULE CrusoeCloud ----------------------------
(***************************************************************************)
(* The Crusoe API as the controller uses it: load balancers and VPC        *)
(* firewall rules, both created by asynchronous operations.  The service   *)
(* is outside the repository.                                              *)
(*                                                                         *)
(* A load balancer is in the list ByName reads from the moment its create  *)
(* request is accepted (`up'), before it has a VIP: handleCreate adopts    *)
(* load balancers that are still provisioning.  A firewall rule exists     *)
(* only once its operation has succeeded, and has that operation's number  *)
(* as its id.  Names are derived from the Service's UID, so a name is      *)
(* modelled by the uid that owns it.  A DELETE or PATCH takes effect when  *)
(* it is accepted; the controller never waits for one.                     *)
(***************************************************************************)
EXTENDS Integers, ServiceSpec

VARIABLES
    lbs,   \* load balancers by id, with their create operations
    fws    \* firewall rule create operations by id, with the rule they made

cloudVars == <<lbs, fws>>

AllPorts == UNION Specs

LoadBalancer ==
    [owner: 0..MaxUid, op: {"unused", "IN_PROGRESS", "SUCCEEDED", "FAILED"},
     up: BOOLEAN, vip: BOOLEAN, protocol: LoadBalancerProtocols \cup {""},
     listeners: SUBSET AllPorts]

(***************************************************************************)
(* `clash': the operation failed because the name is taken.  `cooled':     *)
(* firewallRuleCreateRetryDelay has passed since it failed.  STUCK: it is  *)
(* in progress and is never going to land.  GONE: its record has aged out. *)
(* Two marks say how it was submitted: `late', after the deletion of its   *)
(* Service was requested, and `blind', by a pass whose copy of the Service *)
(* missed what was recorded on it.  Only the properties look at `blind'.   *)
(***************************************************************************)
FirewallRule ==
    [owner: 0..MaxUid,
     op: {"unused", "IN_PROGRESS", "STUCK", "SUCCEEDED", "FAILED", "GONE"},
     clash: BOOLEAN, cooled: BOOLEAN, late: BOOLEAN, blind: BOOLEAN, rule: BOOLEAN,
     ports: SUBSET Nat, protocols: SUBSET PortProtocols]

CloudTypeOK ==
    /\ lbs \in [1..MaxLbs -> LoadBalancer]
    /\ fws \in [1..MaxOps -> FirewallRule]

NoLoadBalancer ==
    [owner |-> 0, op |-> "unused", up |-> FALSE, vip |-> FALSE,
     protocol |-> "", listeners |-> {}]

NoFirewallRule ==
    [owner |-> 0, op |-> "unused", clash |-> FALSE, cooled |-> FALSE,
     late |-> FALSE, blind |-> FALSE, rule |-> FALSE, ports |-> {}, protocols |-> {}]

CloudInit ==
    /\ lbs = [i \in 1..MaxLbs |-> NoLoadBalancer]
    /\ fws = [o \in 1..MaxOps |-> NoFirewallRule]

-----------------------------------------------------------------------------
(* What the API's lists show *)

LbIsUp(i) == i # 0 /\ lbs[i].up

\* "The update API rejects an empty listener list".
AcceptsUpdate(i, listeners) == LbIsUp(i) /\ listeners # {}

LoadBalancersNamed(uid) == {i \in 1..MaxLbs : lbs[i].up /\ lbs[i].owner = uid}

RulesNamed(uid) == {o \in 1..MaxOps : fws[o].rule /\ fws[o].owner = uid}

\* Ids are handed out in order; with none left a create is refused.
NextLoadBalancerId == {i \in 1..MaxLbs : /\ lbs[i].op = "unused"
                                         /\ \A j \in 1..(i - 1) : lbs[j].op # "unused"}

NextOperationId == {o \in 1..MaxOps : /\ fws[o].op = "unused"
                                      /\ \A p \in 1..(o - 1) : fws[p].op # "unused"}

Pending(o) == fws[o].op \in {"IN_PROGRESS", "STUCK"}

-----------------------------------------------------------------------------
(* Requests the API accepts *)

AcceptLoadBalancer(i, uid, protocol, listeners) ==
    lbs' = [lbs EXCEPT ![i] = [owner |-> uid, op |-> "IN_PROGRESS", up |-> TRUE,
                               vip |-> FALSE, protocol |-> protocol,
                               listeners |-> listeners]]

AcceptFirewallRule(o, uid, args, late, blind) ==
    fws' = [fws EXCEPT ![o] = [NoFirewallRule EXCEPT
                                  !.owner = uid, !.op = "IN_PROGRESS",
                                  !.late = late, !.blind = blind,
                                  !.ports = args.destinationPorts,
                                  !.protocols = args.protocols]]

\* Deleting a load balancer ends its create operation as well.
RemoveLoadBalancer(i) ==
    lbs' = [lbs EXCEPT ![i].up = FALSE,
                       ![i].op = IF @ = "IN_PROGRESS" THEN "FAILED" ELSE @]

RemoveRule(o) == fws' = [fws EXCEPT ![o].rule = FALSE]

-----------------------------------------------------------------------------
(* What happens on its own *)

\* The create operation succeeds, with or without a VIP in its result.
LbOpSettles(i) ==
    /\ lbs[i].op = "IN_PROGRESS"
    /\ \E vip \in BOOLEAN :
          lbs' = [lbs EXCEPT ![i].op = "SUCCEEDED", ![i].vip = vip]
    /\ UNCHANGED fws

\* The operation fails; the load balancer may have been created after all.
LbOpFails(i) ==
    /\ lbs[i].op = "IN_PROGRESS"
    /\ \E up \in BOOLEAN :
          lbs' = [lbs EXCEPT ![i].op = "FAILED", ![i].up = up]
    /\ UNCHANGED fws

VipAssigned(i) ==
    /\ lbs[i].up
    /\ lbs[i].op # "IN_PROGRESS"
    /\ ~lbs[i].vip
    /\ lbs' = [lbs EXCEPT ![i].vip = TRUE]
    /\ UNCHANGED fws

\* The rule appears, unless a rule of that name is already there.
FwOpSettles(o) ==
    /\ fws[o].op = "IN_PROGRESS"
    /\ fws' = IF RulesNamed(fws[o].owner) = {}
              THEN [fws EXCEPT ![o].op = "SUCCEEDED", ![o].rule = TRUE]
              ELSE [fws EXCEPT ![o].op = "FAILED", ![o].clash = TRUE]
    /\ UNCHANGED lbs

FwOpFails(o) ==
    /\ fws[o].op = "IN_PROGRESS"
    /\ fws' = [fws EXCEPT ![o].op = "FAILED"]
    /\ UNCHANGED lbs

FwCooldownEnds(o) ==
    /\ fws[o].op = "FAILED"
    /\ ~fws[o].cooled
    /\ fws' = [fws EXCEPT ![o].cooled = TRUE]
    /\ UNCHANGED lbs

\* Records age out long after the retry delay.
FwRecordAges(o) ==
    /\ \/ fws[o].op = "SUCCEEDED"
       \/ fws[o].op = "FAILED" /\ fws[o].cooled
    /\ fws' = [fws EXCEPT ![o].op = "GONE"]
    /\ UNCHANGED lbs

\* Five minutes after the deletion request, an operation submitted before it
\* that is still in progress "is not going to land".
OperationsStuckAtHoldLimit(uid) ==
    fws' = [o \in 1..MaxOps |->
              IF fws[o].owner = uid /\ fws[o].op = "IN_PROGRESS" /\ ~fws[o].late
              THEN [fws[o] EXCEPT !.op = "STUCK"]
              ELSE fws[o]]
=============================================================================
