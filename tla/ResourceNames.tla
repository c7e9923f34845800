--------------------------- MODULE ResourceNames ---------------------------
(***************************************************************************)
(* The name a load balancer and its firewall rule share.  The controller   *)
(* finds both by it, so it has to be accepted by the API, stay the same    *)
(* over restarts, and belong to one Service only.  A name is the sequence  *)
(* of its characters; the hash of the Service's UID is an argument.        *)
(***************************************************************************)
EXTENDS Integers, Sequences

CONSTANT Characters

HashLength == 8
NameLimit == 50
MinServicePart == 5

ASSUME CharactersAssumption == "-" \in Characters

Hash == {h \in Seq(Characters) : Len(h) = HashLength}

\* The result when the namespace leaves no room.
NoName == <<>>

nameOf(namespace, service, hash) ==
    namespace \o <<"-">> \o service \o <<"-">> \o hash

\* Mutant: the name is allowed to be as long as the limit.
roomUpToLimit(namespace) == NameLimit - Len(namespace) - HashLength - 2

\* maxServiceNameLen, "49 to ensure < 50" and 2 for the hyphens; it may be negative.
roomForService(namespace) == NameLimit - 1 - Len(namespace) - HashLength - 2

\* Mutant: the whole name is cut off.
cutAtTheEnd(namespace, service, hash) ==
    SubSeq(nameOf(namespace, service, hash), 1, NameLimit - 1)

truncated(namespace, service, hash) ==
    nameOf(namespace,
           IF Len(service) > roomForService(namespace)
           THEN SubSeq(service, 1, roomForService(namespace))
           ELSE service,
           hash)

GenerateLoadBalancerResourceName(namespace, service, hash) ==
    CASE Len(nameOf(namespace, service, hash)) < NameLimit -> nameOf(namespace, service, hash)
      [] /\ Len(nameOf(namespace, service, hash)) >= NameLimit
         /\ roomForService(namespace) < MinServicePart -> NoName
      [] OTHER -> truncated(namespace, service, hash)
=============================================================================
