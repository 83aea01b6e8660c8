---------------------------- MODULE MCKubeProxy ----------------------------
(* KubeProxy for TLC. A Service of port 1, also with NodePort 2, one whose *)
(* port is another's NodePort, one that is not complete, an invalid one.   *)
EXTENDS KubeProxy

Plain == [ip |-> 1, port |-> 1, node |-> 0]
WithNodePort == [ip |-> 1, port |-> 1, node |-> 2]
HighPort == [ip |-> 2, port |-> 2, node |-> 0]
Incomplete == [ip |-> 1, port |-> 0, node |-> 0]
Unparsable == [ip |-> 3, port |-> 1, node |-> 0]

AllSpecs == {Plain, WithNodePort, HighPort, Incomplete, Unparsable}
TwoSpecs == {WithNodePort, HighPort}
=============================================================================
