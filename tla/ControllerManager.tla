------------------------- MODULE ControllerManager -------------------------
(***************************************************************************)
(* The Deployment and ReplicaSet controllers of kube-controller-manager,   *)
(* working at the same time on the API server's objects, with users and    *)
(* the other components writing in between.                                *)
(*                                                                         *)
(* A Reconcile lists, keeps its copies, and makes one API call per step.   *)
(* In place of resource versions each controller knows which of its copies *)
(* nobody has overtaken (OptimisticStore, which ApiStore implements); a    *)
(* sleeping controller is woken by every change since it opened its        *)
(* watches (NoMissedChange of WatchLoop).                                  *)
(***************************************************************************)
EXTENDS Integers, FiniteSets

CONSTANTS
  NumDeployments,  \* Deployments are called 1, 2, ... in key order
  Replicas,        \* the values of spec.replicas, negative ones allowed
  Apps,            \* the values of the label that selector and template share
  None,            \* no object
  NameBefore(_, _),  \* the order of Pod names by number: as strings, d-rs-10 is before d-rs-2
  MaxUserWrites,   \* bound: writes by users and other components
  MaxFailures,     \* bound: failed or unanswered calls, and restarts
  MaxDisturbances  \* bound: the two together

Deployments == 1..NumDeployments
Clamp(n) == IF n < 0 THEN 0 ELSE n
Counts == {0} \cup {Clamp(n) : n \in Replicas}
PodNumbers == UNION {1..n : n \in Counts}

Specs == [replicas : Replicas, app : Apps]
DeploymentSpec == Specs \cup {None}
StoredReplicaSet == [replicas : Replicas, app : Apps, status : Counts]
ReplicaSet == StoredReplicaSet \cup {None}

ASSUME ControllerAssumption ==
  /\ NumDeployments \in Nat \ {0}
  /\ Replicas \subseteq Int /\ Replicas # {} /\ IsFiniteSet(Replicas)
  /\ None \notin Apps /\ None \notin Specs /\ None \notin StoredReplicaSet
  /\ \A i, j \in PodNumbers : NameBefore(i, j) \in BOOLEAN /\ ~(NameBefore(i, j) /\ NameBefore(j, i))
  /\ \A i, j \in PodNumbers : i # j => NameBefore(i, j) \/ NameBefore(j, i)
  /\ \A i, j, k \in PodNumbers : NameBefore(i, j) /\ NameBefore(j, k) => NameBefore(i, k)
  /\ MaxUserWrites \in Nat /\ MaxFailures \in Nat /\ MaxDisturbances \in Nat

(* Owner references match by name, for no UID is ever set: the ReplicaSet  *)
(* of Deployment d is d-rs, and its Pods are d-rs-1, d-rs-2, ...           *)
VARIABLES
  deployments,    \* [Deployments -> [replicas, app] or None]
  replicaSets,    \* [Deployments -> [replicas, app, status] or None]
  pods,           \* [Deployments -> [PodNumbers -> Apps \cup {None}]]: their label
  dc,             \* the Deployment controller: pc, wake-up and copies
  rc,             \* the ReplicaSet controller
  userWrites, failures

vars == <<deployments, replicaSets, pods, dc, rc, userWrites, failures>>

DCState ==
  [pc : {"wait", "deployments", "replicasets", "items"}, woken : BOOLEAN, current : SUBSET Deployments,
   deployments : [Deployments -> DeploymentSpec], replicaSets : [Deployments -> ReplicaSet]]
RCState ==
  [pc : {"wait", "replicasets", "pods", "items"}, woken : BOOLEAN, current : SUBSET Deployments,
   currentPods : SUBSET (Deployments \X PodNumbers), replicaSets : [Deployments -> ReplicaSet],
   pods : [Deployments -> [PodNumbers -> Apps \cup {None}]]]

First(x, S) == x \in S /\ \A y \in S : x <= y
Listed(objects) == {x \in DOMAIN objects : objects[x] # None}

(* Between two turns a controller has no copies. woken: something it       *)
(* watches changed since it opened its watches, or its Reconcile failed    *)
(* and the retry timer runs.                                               *)
DCWaiting(woken) ==
  [pc |-> "wait", woken |-> woken, current |-> {},
   deployments |-> [d \in Deployments |-> None],
   replicaSets |-> [d \in Deployments |-> None]]

RCWaiting(woken) ==
  [pc |-> "wait", woken |-> woken, current |-> {}, currentPods |-> {},
   replicaSets |-> [d \in Deployments |-> None],
   pods |-> [d \in Deployments |-> [i \in PodNumbers |-> None]]]

Init ==
  /\ deployments \in [Deployments -> DeploymentSpec]
  /\ replicaSets = [d \in Deployments |-> None]
  /\ pods = [d \in Deployments |-> [i \in PodNumbers |-> None]]
  /\ dc = DCWaiting(TRUE) /\ rc = RCWaiting(TRUE)
  /\ userWrites = 0 /\ failures = 0

(* What a write does to a controller that watches the object.              *)
ReplicaSetWritten(c, d) == [c EXCEPT !.woken = TRUE, !.current = @ \ {d}]
PodWritten(d, i) == [rc EXCEPT !.woken = TRUE, !.currentPods = @ \ {<<d, i>>}]

MayFail == failures < MaxFailures /\ userWrites + failures < MaxDisturbances

(* An accepted call returns, or its answer is lost and counts as a failure *)
(* to the caller. Both are <<the caller's state, failures>>.               *)
Answers(next, failed) ==
  {<<next, failures>>} \cup IF MayFail THEN {<<failed, failures + 1>>} ELSE {}

-----------------------------------------------------------------------------
(* DeploymentController.Reconcile.                                         *)

DCWake ==
  /\ dc.pc = "wait" /\ dc.woken
  /\ dc' = [dc EXCEPT !.pc = "deployments", !.woken = FALSE]
  /\ UNCHANGED <<deployments, replicaSets, pods, rc, userWrites, failures>>

DCListDeployments ==
  /\ dc.pc = "deployments"
  /\ dc' = [dc EXCEPT !.pc = "replicasets", !.deployments = deployments]
  /\ UNCHANGED <<deployments, replicaSets, pods, rc, userWrites, failures>>

DCListReplicaSets ==
  /\ dc.pc = "replicasets"
  /\ dc' = [dc EXCEPT !.pc = "items", !.replicaSets = replicaSets, !.current = Listed(replicaSets)]
  /\ UNCHANGED <<deployments, replicaSets, pods, rc, userWrites, failures>>

(* newReplicaSet, with the Status of the copy.                             *)
DesiredReplicaSet(d) ==
  [replicas |-> dc.deployments[d].replicas,
   app |-> dc.deployments[d].app,
   status |-> IF dc.replicaSets[d] = None THEN 0 ELSE dc.replicaSets[d].status]

(* Fault: an existing ReplicaSet is not updated.                           *)
DCMissing == {d \in Listed(dc.deployments) : dc.replicaSets[d] = None}

SpecOf(replicaSet) == [replicas |-> replicaSet.replicas, app |-> replicaSet.app]

(* The Deployments whose ReplicaSet, in the copies, is missing or whose    *)
(* spec differs.                                                           *)
DCTodo ==
  {d \in Listed(dc.deployments) :
     dc.replicaSets[d] = None \/ SpecOf(dc.replicaSets[d]) # dc.deployments[d]}

(* Whether the API server accepts the Create or Update for d.              *)
DCAccepted(d) == IF dc.replicaSets[d] = None THEN replicaSets[d] = None ELSE d \in dc.current

DCWrite(d) ==
  /\ dc.pc = "items" /\ First(d, DCTodo) /\ DCAccepted(d)
  /\ replicaSets' = [replicaSets EXCEPT ![d] = DesiredReplicaSet(d)]
  /\ rc' = ReplicaSetWritten(rc, d)
  /\ \E a \in Answers(ReplicaSetWritten([dc EXCEPT !.replicaSets[d] = DesiredReplicaSet(d)], d),
                       DCWaiting(TRUE)) :
       dc' = a[1] /\ failures' = a[2]
  /\ UNCHANGED <<deployments, pods, userWrites>>

(* 409, and the Reconcile fails.                                           *)
DCRefused(d) ==
  /\ dc.pc = "items" /\ First(d, DCTodo) /\ ~DCAccepted(d)
  /\ dc' = DCWaiting(TRUE)
  /\ UNCHANGED <<deployments, replicaSets, pods, rc, userWrites, failures>>

(* Fault: the copies are kept for the next turn.                           *)
DCReturnWithCopies ==
  /\ dc.pc = "items" /\ DCTodo = {}
  /\ dc' = [dc EXCEPT !.pc = "wait"]
  /\ UNCHANGED <<deployments, replicaSets, pods, rc, userWrites, failures>>

DCReturn ==
  /\ dc.pc = "items" /\ DCTodo = {}
  /\ dc' = DCWaiting(dc.woken)
  /\ UNCHANGED <<deployments, replicaSets, pods, rc, userWrites, failures>>

-----------------------------------------------------------------------------
(* ReplicaSetController.Reconcile.                                         *)

RCWake ==
  /\ rc.pc = "wait" /\ rc.woken
  /\ rc' = [rc EXCEPT !.pc = "replicasets", !.woken = FALSE]
  /\ UNCHANGED <<deployments, replicaSets, pods, dc, userWrites, failures>>

RCListReplicaSets ==
  /\ rc.pc = "replicasets"
  /\ rc' = [rc EXCEPT !.pc = "pods", !.replicaSets = replicaSets, !.current = Listed(replicaSets)]
  /\ UNCHANGED <<deployments, replicaSets, pods, dc, userWrites, failures>>

RCListPods ==
  /\ rc.pc = "pods"
  /\ rc' = [rc EXCEPT !.pc = "items", !.pods = pods,
                      !.currentPods = UNION {{d} \X Listed(pods[d]) : d \in Deployments}]
  /\ UNCHANGED <<deployments, replicaSets, pods, dc, userWrites, failures>>

(* managedPodsForReplicaSet: owned (by name) and matching the selector.    *)
Managed(d) == {i \in PodNumbers : rc.pods[d][i] = rc.replicaSets[d].app}
Desired(d) == Clamp(rc.replicaSets[d].replicas)

RCTodo ==
  {d \in Listed(rc.replicaSets) :
     Cardinality(Managed(d)) # Desired(d) \/ rc.replicaSets[d].status # Desired(d)}

(* Fault: the loop that creates Pods compares with # in place of <.        *)
CreatesIfUnequal(d) == Cardinality(Managed(d)) # Desired(d)

(* The call reconcilePods makes next for d.                                *)
Creates(d) == Cardinality(Managed(d)) < Desired(d)
Deletes(d) == Cardinality(Managed(d)) > Desired(d)

(* nextPodName: the first number no managed Pod has.                       *)
NextPod(d, i) == First(i, PodNumbers \ Managed(d))

(* Sorted by name, the Pods from index Desired on are deleted, in that     *)
(* order: a deleted Pod leaves its place to the next.                      *)
SurplusPod(d, i) ==
  i \in Managed(d) /\ Cardinality({j \in Managed(d) : NameBefore(j, i)}) = Desired(d)

(* Pod i of d becomes x, in the store and in rc's own list.                *)
RCWritePod(d, i, x) ==
  /\ pods' = [pods EXCEPT ![d][i] = x]
  /\ \E a \in Answers([PodWritten(d, i) EXCEPT !.pods[d][i] = x], RCWaiting(TRUE)) :
       rc' = a[1] /\ failures' = a[2]
  /\ UNCHANGED <<deployments, replicaSets, dc, userWrites>>

RCCreatePod(d, i) ==
  /\ rc.pc = "items" /\ First(d, RCTodo)
  /\ Creates(d) /\ NextPod(d, i) /\ pods[d][i] = None
  /\ RCWritePod(d, i, rc.replicaSets[d].app)

RCDeletePod(d, i) ==
  /\ rc.pc = "items" /\ First(d, RCTodo)
  /\ Deletes(d) /\ SurplusPod(d, i) /\ <<d, i>> \in rc.currentPods
  /\ RCWritePod(d, i, None)

(* Whether the API server accepts the copy. Fault: any copy will do.       *)
StatusAcceptedBlindly(d) == replicaSets[d] # None
StatusAccepted(d) == d \in rc.current

(* The whole copy is written back, its spec included.                      *)
CopyWithStatus(d) == [rc.replicaSets[d] EXCEPT !.status = Desired(d)]

RCUpdateStatus(d) ==
  /\ rc.pc = "items" /\ First(d, RCTodo)
  /\ ~Creates(d) /\ ~Deletes(d) /\ StatusAccepted(d)
  /\ replicaSets' = [replicaSets EXCEPT ![d] = CopyWithStatus(d)]
  /\ dc' = ReplicaSetWritten(dc, d)
  /\ \E a \in Answers(ReplicaSetWritten([rc EXCEPT !.replicaSets[d] = CopyWithStatus(d)], d),
                       RCWaiting(TRUE)) :
       rc' = a[1] /\ failures' = a[2]
  /\ UNCHANGED <<deployments, pods, userWrites>>

(* 409 for Create and Update, 404 for Delete, and the Reconcile fails: the *)
(* ReplicaSets after this one are not looked at.                           *)
RCRefused(d) ==
  /\ rc.pc = "items" /\ First(d, RCTodo)
  /\ \/ Creates(d) /\ \E i \in PodNumbers : NextPod(d, i) /\ pods[d][i] # None
     \/ Deletes(d) /\ \E i \in PodNumbers : SurplusPod(d, i) /\ <<d, i>> \notin rc.currentPods
     \/ ~Creates(d) /\ ~Deletes(d) /\ ~StatusAccepted(d)
  /\ rc' = RCWaiting(TRUE)
  /\ UNCHANGED <<deployments, replicaSets, pods, dc, userWrites, failures>>

RCReturn ==
  /\ rc.pc = "items" /\ RCTodo = {}
  /\ rc' = RCWaiting(rc.woken)
  /\ UNCHANGED <<deployments, replicaSets, pods, dc, userWrites, failures>>

-----------------------------------------------------------------------------
(* Failures: a call of one controller fails without effect, or the process *)
(* ends and is started again.                                              *)

CallFails ==
  /\ MayFail /\ failures' = failures + 1
  /\ \/ dc.pc # "wait" /\ dc' = DCWaiting(TRUE) /\ UNCHANGED rc
     \/ rc.pc # "wait" /\ rc' = RCWaiting(TRUE) /\ UNCHANGED dc
  /\ UNCHANGED <<deployments, replicaSets, pods, userWrites>>

Restart ==
  /\ MayFail /\ failures' = failures + 1
  /\ dc' = DCWaiting(TRUE) /\ rc' = RCWaiting(TRUE)
  /\ UNCHANGED <<deployments, replicaSets, pods, userWrites>>

-----------------------------------------------------------------------------
(* The writes of everybody else.                                           *)

UserWrites ==
  /\ userWrites < MaxUserWrites /\ userWrites + failures < MaxDisturbances
  /\ userWrites' = userWrites + 1
  /\ UNCHANGED failures

(* toyctl apply and toyctl delete of a Deployment.                         *)
WriteDeployment(d, x) ==
  /\ UserWrites
  /\ x # None \/ deployments[d] # None
  /\ deployments' = [deployments EXCEPT ![d] = x]
  /\ dc' = [dc EXCEPT !.woken = TRUE]
  /\ UNCHANGED <<replicaSets, pods, rc>>

DeleteReplicaSet(d) ==
  /\ UserWrites
  /\ replicaSets[d] # None
  /\ replicaSets' = [replicaSets EXCEPT ![d] = None]
  /\ dc' = ReplicaSetWritten(dc, d)
  /\ rc' = ReplicaSetWritten(rc, d)
  /\ UNCHANGED <<deployments, pods>>

(* The Pod is deleted, or its status or node is written.                   *)
WritePod(d, i, x) ==
  /\ UserWrites
  /\ pods[d][i] # None
  /\ pods' = [pods EXCEPT ![d][i] = x]
  /\ rc' = PodWritten(d, i)
  /\ UNCHANGED <<deployments, replicaSets, dc>>

Others ==
  \E d \in Deployments :
    \/ \E x \in DeploymentSpec : WriteDeployment(d, x)
    \/ DeleteReplicaSet(d)
    \/ \E i \in PodNumbers : WritePod(d, i, None) \/ WritePod(d, i, pods[d][i])

-----------------------------------------------------------------------------
DCStep ==
  \/ DCWake \/ DCListDeployments \/ DCListReplicaSets \/ DCReturn
  \/ \E d \in Deployments : DCWrite(d) \/ DCRefused(d)

RCStep ==
  \/ RCWake \/ RCListReplicaSets \/ RCListPods \/ RCReturn
  \/ \E d \in Deployments :
       \/ \E i \in PodNumbers : RCCreatePod(d, i) \/ RCDeletePod(d, i)
       \/ RCUpdateStatus(d) \/ RCRefused(d)

Next == DCStep \/ RCStep \/ CallFails \/ Restart \/ Others

Spec == Init /\ [][Next]_vars

(* Every turn that may go on does: the calls of a live API server return   *)
(* and the retry timer fires. Users owe nothing.                           *)
Fairness == WF_vars(DCStep) /\ WF_vars(RCStep)

FairSpec == Spec /\ Fairness

-----------------------------------------------------------------------------
(* Types; a controller that waits holds no copies.                         *)
TypeOK ==
  /\ deployments \in [Deployments -> DeploymentSpec]
  /\ replicaSets \in [Deployments -> ReplicaSet]
  /\ pods \in [Deployments -> [PodNumbers -> Apps \cup {None}]]
  /\ dc \in DCState /\ (dc.pc = "wait" => dc = DCWaiting(dc.woken))
  /\ rc \in RCState /\ (rc.pc = "wait" => rc = RCWaiting(rc.woken))
  /\ userWrites \in 0..MaxUserWrites
  /\ failures \in 0..MaxFailures

(* The two controllers write the same object, each all of it: the spec of  *)
(* a ReplicaSet still changes only to what its Deployment said, and its    *)
(* status only to a count, each change leaving the other part alone.       *)
OwnFields ==
  [][\A d \in Deployments :
       LET old == replicaSets[d]
           new == replicaSets'[d]
       IN old # None /\ new # None /\ old # new =>
            \/ /\ new.status = old.status
               /\ SpecOf(new) = dc.deployments[d]
            \/ /\ [new EXCEPT !.status = old.status] = old
               /\ new.status = Clamp(old.replicas)]_vars

(* Retries, lost answers and restarts create no surplus: right after a Pod *)
(* is created there are no more Pods of its ReplicaSet and label than the  *)
(* replicas the ReplicaSet had when the controller listed it.              *)
NoSurplus ==
  [][\A d \in Deployments, i \in PodNumbers :
       pods[d][i] = None /\ pods'[d][i] # None =>
         Cardinality({j \in PodNumbers : pods'[d][j] = pods'[d][i]}) <= Desired(d)]_vars

(* What the comments at Reconcile and reconcilePods say of the ReplicaSet  *)
(* of Deployment d: as many Pods as replicas, and a status that says so.   *)
Converged(d) ==
  LET spec == deployments[d] IN
  spec # None =>
    /\ replicaSets[d] = [replicas |-> spec.replicas, app |-> spec.app, status |-> Clamp(spec.replicas)]
    /\ Cardinality({i \in PodNumbers : pods[d][i] = spec.app}) = Clamp(spec.replicas)

(* A Pod of another label, left by a Deployment whose label was changed,   *)
(* has the name the ReplicaSet of d needs next: nextPodName, which skips   *)
(* the names of managed Pods only, picks that name again and again.        *)
Stuck(d) ==
  /\ replicaSets[d] # None
  /\ LET managed == {i \in PodNumbers : pods[d][i] = replicaSets[d].app} IN
     /\ Cardinality(managed) < Clamp(replicaSets[d].replicas)
     /\ \E i \in PodNumbers : First(i, PodNumbers \ managed) /\ pods[d][i] # None

(* What the comment at reconcilePods promises, as far as it is true: when  *)
(* users and failures stop, every Deployment ends up as its spec says but  *)
(* those whose ReplicaSet is stuck or comes after one that is; and then    *)
(* the controllers sleep, whose own writes have woken each other.          *)
Converges ==
  <>[](/\ \A d \in Deployments : (\A e \in 1..d : ~Stuck(e)) => Converged(d)
       /\ dc = DCWaiting(FALSE)
       /\ (\A d \in Deployments : ~Stuck(d)) => rc = RCWaiting(FALSE))
=============================================================================
