------------------------ MODULE MCServiceReconciler ------------------------
(***************************************************************************)
(* Port sets for the model checker, and bounds that depend on each other.  *)
(***************************************************************************)
EXTENDS ServiceReconciler

P(port, nodePort, protocol) ==
    [port |-> port, nodePort |-> nodePort, protocol |-> protocol]

TCP == {P(80, 30080, "TCP")}
TCPMoved == {P(80, 30081, "TCP")}
UDP == {P(53, 30053, "UDP")}
NoNodePort == {P(80, 0, "TCP")}
Mixed == {P(53, 30054, "TCP"), P(53, 30053, "UDP")}

\* A Service nobody edits.
OneSpec == {TCP}
\* Edits move a node port: listeners and firewall rule follow.
MovedPort == {TCP, TCPMoved}
\* Edits make the Service drift from its protocol, ask for both, or leave it
\* without a node port.
AllSpecs == {TCP, UDP, Mixed, NoNodePort}

\* Either calls fail or operations do.  With both, AdoptedThenFailed.
OneKindOfFailure == faults = 0 \/ opFaults = 0

\* A second Service of the name, or a second load balancer.
SecondRound == uids > 1 \/ \E i \in 2..MaxLbs : lbs[i].op # "unused"

\* Then neither an edit nor a failed operation, and one firewall rule.
PlainSecondRound ==
    SecondRound => /\ edits = 0 /\ opFaults = 0
                   /\ \A o \in 2..MaxOps : fws[o].op = "unused"

RuleBounds == OneKindOfFailure /\ PlainSecondRound

\* Services are created with the same ports.
SamePorts == uids' > uids => stored'.ports = TCP

\* One kind of failure, or a firewall rule that is deleted by hand.
OneKindOfTrouble == OneKindOfFailure /\ (edits = 0 \/ (faults = 0 /\ opFaults = 0))

NextWithRuleRemoved ==
    /\ Next
    /\ OneKindOfTrouble'
    /\ OperatorRemoves => UNCHANGED lbs
    /\ ~OperatorReleases

RuleRemovedSpec == Init /\ [][NextWithRuleRemoved]_vars /\ Fairness
=============================================================================
