--------------------------- MODULE MCStaticPods ----------------------------
(* StaticPods for TLC: a control plane of etcd, the API server and one     *)
(* more component, in the order of their files.                            *)
EXTENDS StaticPods

Etcd == {1}
EtcdAndApiServer == {1, 2}

(* One manifest or mirror, and two that differ from it in one thing each.  *)
ThreeVersions ==
  {[spec |-> 1, labels |-> 1], [spec |-> 2, labels |-> 1], [spec |-> 1, labels |-> 2]}

(* Manifests that are there from the start are in the first version.       *)
InitFromFirst ==
  Init /\ \A n \in Names : manifests[n] \in {[spec |-> 1, labels |-> 1], None}

FairSpecFromFirst == InitFromFirst /\ [][Next]_vars /\ Fairness
=============================================================================
