\* Expected to fail: a Ready Node gets its address later.
SPECIFICATION Spec
CONSTANTS
  Services = {s1}
  Nodes = {n1}
  Ips = {"a"}
  NodeStates <- AddressComesAndGoes
  MaxNodeChanges = 2
  MaxFaults = 0
INVARIANT NodeEventBringsBack
CHECK_DEADLOCK FALSE
