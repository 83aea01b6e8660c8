------------------------ MODULE MCControllerManager ------------------------
(* ControllerManager for TLC. A negative spec.replicas asks for no Pod.    *)
EXTENDS ControllerManager

NoneOneOrTwo == {-1, 1, 2}

(* Names with one digit sort as their numbers do.                          *)
Less(i, j) == i < j

CONSTANT App  \* any of Apps

(* A Pod's label is compared with that of its own ReplicaSet only, so that *)
(* the labels may be renamed for each Deployment on its own: it is enough  *)
(* to begin with one of them. The first Deployment, if there is one, begins*)
(* with one Pod or two, the second with two; users bring other numbers.    *)
InitOfOneApp ==
  Init /\ \A d \in Deployments :
            deployments[d] = None \/ (deployments[d].app = App /\ deployments[d].replicas \in d..2)

FairSpecOfOneApp == InitOfOneApp /\ [][Next]_vars /\ Fairness
=============================================================================
