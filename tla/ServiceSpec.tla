---------------------------- MODULE ServiceSpec ----------------------------
(***************************************************************************)
(* What the controller reads off a Service's ports, as pure operators.     *)
(* A port is [port, nodePort, protocol]; a protocol is the Service's, with *)
(* "" for one that was never set.  The strings LOAD_BALANCER_PROTOCOL_TCP  *)
(* and _UDP are abbreviated to "TCP" and "UDP".  A Service's list of ports *)
(* is a set: nothing the controller derives from it depends on its order.  *)
(***************************************************************************)
EXTENDS Integers

CONSTANTS
    Specs,   \* the port sets a user may give a Service
    MaxUid,  \* how often the Service may be created (bound)
    MaxLbs,  \* load balancer ids (bound)
    MaxOps   \* firewall rule operation ids (bound)

PortProtocols == {"", "TCP", "UDP", "SCTP"}

Port == [port: Nat, nodePort: Nat, protocol: PortProtocols]

ASSUME SpecAssumption ==
    /\ \A ports \in Specs : ports \subseteq Port
    /\ {MaxUid, MaxLbs, MaxOps} \subseteq Nat

LoadBalancerProtocols == {"TCP", "UDP"}

\* What DeriveLoadBalancerProtocol returns in place of its two errors.
Rejected == "rejected"

effectivePortProtocol(port) ==
    IF port.protocol = "" THEN "TCP" ELSE port.protocol

protocolsOf(ports) == {effectivePortProtocol(port) : port \in ports}

(***************************************************************************)
(* SCTP is an error, TCP together with UDP is an error, and no ports at    *)
(* all is TCP.                                                             *)
(***************************************************************************)
DeriveLoadBalancerProtocol(ports) ==
    CASE protocolsOf(ports) \subseteq {"TCP"} -> "TCP"
      [] protocolsOf(ports) = {"UDP"}         -> "UDP"
      [] OTHER                                -> Rejected

isKnownLoadBalancerProtocol(protocol) == protocol \in LoadBalancerProtocols

\* Every protocol but UDP is treated as TCP.
servicePortsForProtocol(ports, protocol) ==
    LET wanted == IF protocol = "UDP" THEN "UDP" ELSE "TCP"
    IN  {port \in ports : effectivePortProtocol(port) = wanted}

(***************************************************************************)
(* The ports that belong on a load balancer recorded with a protocol: all  *)
(* of them when the annotation is missing or holds an unknown value, as on *)
(* a load balancer from before UDP support.                                *)
(***************************************************************************)
portsServedBy(ports, protocol) ==
    IF isKnownLoadBalancerProtocol(protocol)
    THEN servicePortsForProtocol(ports, protocol)
    ELSE ports

\* Every port was edited away from the load balancer's protocol.
noPortMatches(ports, protocol) ==
    ports # {} /\ portsServedBy(ports, protocol) = {}

\* A port without a node port gets no listener.  The backends a listener has
\* are the same for every port, and are left out here.
parseListenPorts(ports) == {port \in ports : port.nodePort # 0}

listenersFor(ports, protocol) == parseListenPorts(portsServedBy(ports, protocol))

(***************************************************************************)
(* The part of a firewall rule that follows the Service's ports.  The rule *)
(* lists the protocol of every port served, those without a node port too. *)
(***************************************************************************)
firewallRuleArgs(ports, protocol) ==
    [destinationPorts |-> {port.nodePort : port \in listenersFor(ports, protocol)},
     protocols        |-> protocolsOf(portsServedBy(ports, protocol))]

\* GetFirewallRuleArgs' nil result: no rule is needed, and a retry would not
\* change that.
noRuleNeeded(ports, protocol) ==
    \/ noPortMatches(ports, protocol)
    \/ listenersFor(ports, protocol) = {}
=============================================================================
