\* Two Services follow one Node, with one failed call, operation or read, or restart.
SPECIFICATION FairSpec
CONSTANTS
  Services = {s1, s2}
  Nodes = {n1}
  Ips = {"a"}
  NodeStates <- AddressComesAndGoes
  MaxNodeChanges = 2
  MaxFaults = 1
INVARIANTS SyncInv BackendsFollowNodes
PROPERTIES EveryServiceHasItsTurn BackendsConverge
CHECK_DEADLOCK FALSE
