--------------------------- MODULE MCBackendSync ---------------------------
(***************************************************************************)
(* States of Nodes for the model checker.                                  *)
(***************************************************************************)
EXTENDS BackendSync

NodeIs(ready, exclude, ips) == [ready |-> ready, exclude |-> exclude, ips |-> ips]

\* A Node that goes in and out of the backends by its condition and its label.
OneAddress == {NodeIs("True", "unset", {"a"}), NodeIs("Unknown", "unset", {"a"}),
               NodeIs("True", "true", {"a"}), NodeIs("True", "false", {"a"})}

\* The same, and its address changes.
AddressComesAndGoes == OneAddress \cup {NodeIs("True", "unset", {})}
=============================================================================
