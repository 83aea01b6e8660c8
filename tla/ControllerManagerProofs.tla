---------------------- MODULE ControllerManagerProofs ----------------------
(***************************************************************************)
(* Proofs of the safety of ControllerManager, for any Deployments,         *)
(* replicas, labels, writes and failures.                                  *)
(***************************************************************************)
EXTENDS ControllerManager, FiniteSetTheorems, TLAPS

-----------------------------------------------------------------------------
(* The inductive invariant: what the copies still say.                     *)

(* A ReplicaSet nobody has overtaken is the stored one.                    *)
DCFresh == dc.pc = "items" => \A d \in dc.current : dc.replicaSets[d] = replicaSets[d]
RCFresh == rc.pc \in {"pods", "items"} => \A d \in rc.current : rc.replicaSets[d] = replicaSets[d]

(* Only the ReplicaSet controller creates Pods: those that exist are in    *)
(* its list, which may also have some that are gone.                       *)
PodsListed ==
  rc.pc = "items" =>
    \A d \in Deployments, i \in PodNumbers : pods[d][i] # None => rc.pods[d][i] = pods[d][i]

DCTyped(c) == c \in DCState /\ (c.pc = "wait" => c = DCWaiting(c.woken))
RCTyped(c) == c \in RCState /\ (c.pc = "wait" => c = RCWaiting(c.woken))

IInv == TypeOK /\ DCFresh /\ RCFresh /\ PodsListed

LEMMA Typed == TypeOK => DCTyped(dc) /\ RCTyped(rc)
BY DEF TypeOK, DCTyped, RCTyped

-----------------------------------------------------------------------------
(* Facts about single states.                                              *)

LEMMA WaitingTyped ==
  ASSUME NEW woken \in BOOLEAN
  PROVE  /\ DCTyped(DCWaiting(woken)) /\ DCWaiting(woken).pc = "wait"
         /\ RCTyped(RCWaiting(woken)) /\ RCWaiting(woken).pc = "wait"
<1>1. DCWaiting(woken) \in DCState /\ DCWaiting(woken).woken = woken /\ DCWaiting(woken).pc = "wait"
  BY DEF DCWaiting, DCState, DeploymentSpec, ReplicaSet
<1>2. RCWaiting(woken) \in RCState /\ RCWaiting(woken).woken = woken /\ RCWaiting(woken).pc = "wait"
  BY DEF RCWaiting, RCState, ReplicaSet
<1> QED
  BY <1>1, <1>2 DEF DCTyped, RCTyped

(* A write between two turns leaves nothing but the wake-up.               *)
LEMMA DCStays ==
  ASSUME NEW c, DCTyped(c), NEW e \in DCState,
         e.pc = c.pc, e.deployments = c.deployments, e.replicaSets = c.replicaSets, e.current \subseteq c.current
  PROVE  DCTyped(e)
<1> SUFFICES ASSUME c.pc = "wait" PROVE e = DCWaiting(e.woken)
  BY DEF DCTyped
<1> DEFINE w == c.woken
           none == [d \in Deployments |-> None]
<1> HIDE DEF w
<1>1. c = DCWaiting(w)
  BY DEF DCTyped, w
<1>2. c.current = {} /\ c.deployments = none /\ c.replicaSets = none
  BY <1>1 DEF DCWaiting
<1>3. e = [pc |-> e.pc, woken |-> e.woken, current |-> e.current,
           deployments |-> e.deployments, replicaSets |-> e.replicaSets]
  BY DEF DCState
<1>4. e.current = {}
  BY <1>2
<1>5. DCWaiting(e.woken) = [pc |-> "wait", woken |-> e.woken, current |-> {},
                            deployments |-> none, replicaSets |-> none]
  BY DEF DCWaiting
<1> HIDE DEF none
<1> QED
  BY <1>2, <1>3, <1>4, <1>5

LEMMA RCStays ==
  ASSUME NEW c, RCTyped(c), NEW e \in RCState,
         e.pc = c.pc, e.pods = c.pods, e.replicaSets = c.replicaSets,
         e.current \subseteq c.current, e.currentPods \subseteq c.currentPods
  PROVE  RCTyped(e)
<1> SUFFICES ASSUME c.pc = "wait" PROVE e = RCWaiting(e.woken)
  BY DEF RCTyped
<1> DEFINE w == c.woken
           none == [d \in Deployments |-> None]
           noPods == [d \in Deployments |-> [i \in PodNumbers |-> None]]
<1> HIDE DEF w
<1>1. c = RCWaiting(w)
  BY DEF RCTyped, w
<1>2. c.current = {} /\ c.currentPods = {} /\ c.replicaSets = none /\ c.pods = noPods
  BY <1>1 DEF RCWaiting
<1>3. e = [pc |-> e.pc, woken |-> e.woken, current |-> e.current, currentPods |-> e.currentPods,
           replicaSets |-> e.replicaSets, pods |-> e.pods]
  BY DEF RCState
<1>4. e.current = {} /\ e.currentPods = {}
  BY <1>2
<1>5. RCWaiting(e.woken) = [pc |-> "wait", woken |-> e.woken, current |-> {}, currentPods |-> {},
                            replicaSets |-> none, pods |-> noPods]
  BY DEF RCWaiting
<1> HIDE DEF none, noPods
<1> QED
  BY <1>2, <1>3, <1>4, <1>5

(* What the writes of others do to a controller.                           *)
LEMMA DCWritten ==
  ASSUME NEW c, DCTyped(c), NEW d \in Deployments
  PROVE  LET e == ReplicaSetWritten(c, d) IN
         /\ DCTyped(e) /\ e.pc = c.pc /\ e.replicaSets = c.replicaSets
         /\ e.deployments = c.deployments /\ e.current = c.current \ {d}
<1> DEFINE e == ReplicaSetWritten(c, d)
<1>1. /\ e \in DCState /\ e.pc = c.pc /\ e.replicaSets = c.replicaSets
      /\ e.deployments = c.deployments /\ e.current = c.current \ {d}
  BY DEF DCTyped, DCState, ReplicaSetWritten
<1> QED
  BY <1>1, DCStays

LEMMA RCWritten ==
  ASSUME NEW c, RCTyped(c), NEW d \in Deployments
  PROVE  LET e == ReplicaSetWritten(c, d) IN
         /\ RCTyped(e) /\ e.pc = c.pc /\ e.replicaSets = c.replicaSets
         /\ e.pods = c.pods /\ e.current = c.current \ {d} /\ e.currentPods = c.currentPods
<1> DEFINE e == ReplicaSetWritten(c, d)
<1>1. /\ e \in RCState /\ e.pc = c.pc /\ e.replicaSets = c.replicaSets
      /\ e.pods = c.pods /\ e.current = c.current \ {d} /\ e.currentPods = c.currentPods
  BY DEF RCTyped, RCState, ReplicaSetWritten
<1> QED
  BY <1>1, RCStays

LEMMA RCPodWritten ==
  ASSUME TypeOK, NEW d \in Deployments, NEW i \in PodNumbers
  PROVE  LET e == PodWritten(d, i) IN
         /\ RCTyped(e) /\ e.pc = rc.pc /\ e.replicaSets = rc.replicaSets
         /\ e.pods = rc.pods /\ e.current = rc.current
<1> DEFINE e == PodWritten(d, i)
<1>1. /\ e \in RCState /\ e.pc = rc.pc /\ e.replicaSets = rc.replicaSets
      /\ e.pods = rc.pods /\ e.current = rc.current /\ e.currentPods = rc.currentPods \ {<<d, i>>}
  BY DEF TypeOK, RCState, PodWritten
<1> QED
  BY <1>1, RCStays, Typed

LEMMA AnswersFailures ==
  ASSUME TypeOK, NEW s, NEW f, NEW a \in Answers(s, f)
  PROVE  a[2] \in 0..MaxFailures /\ (a[1] = s \/ a[1] = f)
<1>1. CASE a = <<s, failures>>
  BY <1>1 DEF TypeOK
<1>2. CASE failures < MaxFailures /\ a = <<f, failures + 1>>
  BY <1>2, ControllerAssumption DEF TypeOK
<1> QED
  BY <1>1, <1>2 DEF Answers, MayFail

LEMMA ClampCounts ==
  /\ 0 \in Counts
  /\ \A n \in Replicas : Clamp(n) \in Counts
  /\ Counts \subseteq Nat
BY ControllerAssumption DEF Counts, Clamp

LEMMA InitIInv == Init => IInv
<1> SUFFICES ASSUME Init PROVE IInv
  OBVIOUS
<1>1. /\ DCTyped(dc) /\ dc.pc = "wait" /\ RCTyped(rc) /\ rc.pc = "wait"
  BY WaitingTyped DEF Init
<1>2. replicaSets \in [Deployments -> ReplicaSet] /\ pods \in [Deployments -> [PodNumbers -> Apps \cup {None}]]
  BY DEF Init, ReplicaSet
<1>3. deployments \in [Deployments -> DeploymentSpec] /\ userWrites \in 0..MaxUserWrites /\ failures \in 0..MaxFailures
  BY ControllerAssumption DEF Init
<1> QED
  BY <1>1, <1>2, <1>3 DEF IInv, TypeOK, DCFresh, RCFresh, PodsListed, DCTyped, RCTyped

-----------------------------------------------------------------------------
(* Steps of one controller that write nothing.                             *)

LEMMA StepDC ==
  ASSUME IInv, DCTyped(dc'), DCFresh', UNCHANGED <<deployments, replicaSets, pods, rc, userWrites>>,
         failures' \in 0..MaxFailures
  PROVE  IInv'
<1>1. TypeOK'
  BY DEF IInv, TypeOK, DCTyped
<1> QED
  BY <1>1 DEF IInv, RCFresh, PodsListed

LEMMA StepRC ==
  ASSUME IInv, RCTyped(rc'), RCFresh', PodsListed', UNCHANGED <<deployments, replicaSets, pods, dc, userWrites>>,
         failures' \in 0..MaxFailures
  PROVE  IInv'
<1>1. TypeOK'
  BY DEF IInv, TypeOK, RCTyped
<1> QED
  BY <1>1 DEF IInv, DCFresh

LEMMA StepDCReads ==
  ASSUME IInv, DCWake \/ DCListDeployments \/ DCListReplicaSets
  PROVE  IInv'
<1>1. /\ dc \in DCState /\ deployments \in [Deployments -> DeploymentSpec]
      /\ replicaSets \in [Deployments -> ReplicaSet] /\ Listed(replicaSets) \subseteq Deployments
      /\ UNCHANGED <<deployments, replicaSets, pods, rc, userWrites>> /\ failures' \in 0..MaxFailures
  BY DEF IInv, TypeOK, DCWake, DCListDeployments, DCListReplicaSets, Listed
<1>2. CASE DCWake
  <2>1. dc' \in DCState /\ dc'.pc = "deployments"
    BY <1>1, <1>2 DEF DCWake, DCState
  <2> QED
    BY <1>1, <2>1, StepDC DEF DCTyped, DCFresh
<1>3. CASE DCListDeployments
  <2>1. dc' \in DCState /\ dc'.pc = "replicasets"
    BY <1>1, <1>3 DEF DCListDeployments, DCState
  <2> QED
    BY <1>1, <2>1, StepDC DEF DCTyped, DCFresh
<1>4. CASE DCListReplicaSets
  <2>1. dc' \in DCState /\ dc'.pc = "items" /\ dc'.replicaSets = replicaSets
    BY <1>1, <1>4 DEF DCListReplicaSets, DCState
  <2> QED
    BY <1>1, <2>1, StepDC DEF DCTyped, DCFresh
<1> QED
  BY <1>2, <1>3, <1>4

LEMMA StepDCEnds ==
  ASSUME IInv, NEW woken \in BOOLEAN, dc' = DCWaiting(woken),
         UNCHANGED <<deployments, replicaSets, pods, rc, userWrites>>, failures' \in 0..MaxFailures
  PROVE  IInv'
<1>1. DCTyped(dc') /\ dc'.pc = "wait"
  BY WaitingTyped
<1> QED
  BY <1>1, StepDC DEF DCFresh

LEMMA StepRCReads ==
  ASSUME IInv, RCWake \/ RCListReplicaSets \/ RCListPods
  PROVE  IInv'
<1>1. /\ rc \in RCState /\ pods \in [Deployments -> [PodNumbers -> Apps \cup {None}]]
      /\ replicaSets \in [Deployments -> ReplicaSet] /\ Listed(replicaSets) \subseteq Deployments
      /\ UNCHANGED <<deployments, replicaSets, pods, dc, userWrites>> /\ failures' \in 0..MaxFailures
  BY DEF IInv, TypeOK, RCWake, RCListReplicaSets, RCListPods, Listed
<1>2. CASE RCWake
  <2>1. rc' \in RCState /\ rc'.pc = "replicasets"
    BY <1>1, <1>2 DEF RCWake, RCState
  <2> QED
    BY <1>1, <2>1, StepRC DEF RCTyped, RCFresh, PodsListed
<1>3. CASE RCListReplicaSets
  <2>1. rc' \in RCState /\ rc'.pc = "pods" /\ rc'.replicaSets = replicaSets
    BY <1>1, <1>3 DEF RCListReplicaSets, RCState
  <2> QED
    BY <1>1, <2>1, StepRC DEF RCTyped, RCFresh, PodsListed
<1>4. CASE RCListPods
  <2>1. UNION {{d} \X Listed(pods[d]) : d \in Deployments} \subseteq Deployments \X PodNumbers
    BY <1>1 DEF Listed
  <2>2. /\ rc' \in RCState /\ rc'.pc = "items" /\ rc'.pods = pods /\ rc.pc = "pods"
        /\ rc'.current = rc.current /\ rc'.replicaSets = rc.replicaSets
    BY <1>1, <1>4, <2>1 DEF RCListPods, RCState
  <2>3. RCFresh' /\ PodsListed'
    BY <1>1, <2>2 DEF IInv, RCFresh, PodsListed
  <2> QED
    BY <1>1, <2>2, <2>3, StepRC DEF RCTyped
<1> QED
  BY <1>2, <1>3, <1>4

LEMMA StepRCEnds ==
  ASSUME IInv, NEW woken \in BOOLEAN, rc' = RCWaiting(woken),
         UNCHANGED <<deployments, replicaSets, pods, dc, userWrites>>, failures' \in 0..MaxFailures
  PROVE  IInv'
<1>1. RCTyped(rc') /\ rc'.pc = "wait"
  BY WaitingTyped
<1> QED
  BY <1>1, StepRC DEF RCFresh, PodsListed

-----------------------------------------------------------------------------
(* Steps that write.                                                       *)

(* A ReplicaSet is written, by whomever.                                   *)
LEMMA ReplicaSetsChange ==
  ASSUME IInv, NEW d \in Deployments, NEW x \in ReplicaSet,
         replicaSets' = [replicaSets EXCEPT ![d] = x], UNCHANGED <<deployments, pods>>,
         userWrites' \in 0..MaxUserWrites, failures' \in 0..MaxFailures,
         DCTyped(dc'),
         dc'.pc = "items" => /\ dc.pc = "items" /\ dc'.current \subseteq dc.current \ {d}
                             /\ \A e \in Deployments \ {d} : dc'.replicaSets[e] = dc.replicaSets[e],
         RCTyped(rc'),
         rc'.pc # "wait" => /\ rc'.pc = rc.pc /\ rc'.current \subseteq rc.current \ {d}
                            /\ \A e \in Deployments \ {d} : rc'.replicaSets[e] = rc.replicaSets[e]
                            /\ rc'.pods = rc.pods
  PROVE  IInv'
<1>1. \A e \in Deployments \ {d} : replicaSets'[e] = replicaSets[e]
  BY DEF IInv, TypeOK
<1>2. TypeOK'
  BY DEF IInv, TypeOK, DCTyped, RCTyped
<1>3. dc'.current \subseteq Deployments /\ rc'.current \subseteq Deployments
  BY DEF DCTyped, DCState, RCTyped, RCState
<1>4. DCFresh'
  BY <1>1, <1>3 DEF IInv, DCFresh
<1>5. RCFresh'
  BY <1>1, <1>3 DEF IInv, RCFresh
<1>6. PodsListed'
  BY DEF IInv, PodsListed
<1> QED
  BY <1>2, <1>4, <1>5, <1>6 DEF IInv

(* A Pod is written, by whomever; one that did not exist by the ReplicaSet *)
(* controller, which notes it.                                             *)
LEMMA PodsChange ==
  ASSUME IInv, NEW d \in Deployments, NEW i \in PodNumbers, NEW x \in Apps \cup {None},
         pods' = [pods EXCEPT ![d][i] = x], UNCHANGED <<deployments, replicaSets, dc>>,
         userWrites' \in 0..MaxUserWrites, failures' \in 0..MaxFailures,
         RCTyped(rc'),
         rc'.pc # "wait" => /\ rc'.pc = rc.pc /\ rc'.current = rc.current
                            /\ rc'.replicaSets = rc.replicaSets
                            /\ x = None \/ rc'.pc # "items" \/ rc'.pods[d][i] = x
                            /\ \A e \in Deployments, j \in PodNumbers :
                                 e # d \/ j # i => rc'.pods[e][j] = rc.pods[e][j]
  PROVE  IInv'
<1>1. \A e \in Deployments, j \in PodNumbers : pods'[e][j] = IF e = d /\ j = i THEN x ELSE pods[e][j]
  BY DEF IInv, TypeOK
<1>2. pods' \in [Deployments -> [PodNumbers -> Apps \cup {None}]]
  BY DEF IInv, TypeOK
<1>3. TypeOK'
  BY <1>2 DEF IInv, TypeOK, RCTyped
<1>4. DCFresh' /\ RCFresh'
  BY DEF IInv, DCFresh, RCFresh
<1>5. PodsListed'
  BY <1>1 DEF IInv, PodsListed
<1> QED
  BY <1>3, <1>4, <1>5 DEF IInv

(* What the Deployment controller writes for d.                            *)
LEMMA DesiredType ==
  ASSUME TypeOK, NEW d \in Deployments, d \in DCTodo
  PROVE  /\ dc.deployments[d] \in Specs
         /\ DesiredReplicaSet(d) \in StoredReplicaSet
         /\ SpecOf(DesiredReplicaSet(d)) = dc.deployments[d]
         /\ dc.replicaSets[d] # None => DesiredReplicaSet(d).status = dc.replicaSets[d].status
<1>1. dc.deployments[d] \in Specs
  BY DEF TypeOK, DCState, DCTodo, Listed, DeploymentSpec
<1>2. dc.replicaSets[d] # None => dc.replicaSets[d].status \in Counts
  BY DEF TypeOK, DCState, ReplicaSet, StoredReplicaSet
<1> QED
  BY <1>1, <1>2, ClampCounts DEF DesiredReplicaSet, StoredReplicaSet, SpecOf, Specs

LEMMA StepDCWrite == ASSUME IInv, NEW d \in Deployments, DCWrite(d) PROVE IInv'
<1> DEFINE x == DesiredReplicaSet(d)
           c == [dc EXCEPT !.replicaSets[d] = x]
           e == ReplicaSetWritten(c, d)
<1>1. x \in ReplicaSet
  BY DesiredType DEF IInv, DCWrite, First, ReplicaSet
<1>2. /\ DCTyped(c) /\ c.pc = "items" /\ dc.pc = "items" /\ c.current = dc.current
      /\ \A o \in Deployments \ {d} : c.replicaSets[o] = dc.replicaSets[o]
  BY <1>1 DEF IInv, TypeOK, DCWrite, DCTyped, DCState
<1>3. PICK a \in Answers(e, DCWaiting(TRUE)) : dc' = a[1] /\ failures' = a[2]
  BY DEF DCWrite
<1> HIDE DEF c
<1>4. DCTyped(e) /\ e.current = dc.current \ {d} /\ e.replicaSets = c.replicaSets
  BY <1>2, DCWritten
<1> HIDE DEF e
<1>5. failures' \in 0..MaxFailures /\ (dc' = e \/ dc' = DCWaiting(TRUE))
  BY <1>3, AnswersFailures DEF IInv
<1>6. /\ DCTyped(dc')
      /\ dc'.pc = "items" => /\ dc'.current \subseteq dc.current \ {d}
                             /\ \A o \in Deployments \ {d} : dc'.replicaSets[o] = dc.replicaSets[o]
  BY <1>2, <1>4, <1>5, WaitingTyped
<1>7. /\ RCTyped(rc') /\ rc'.pc = rc.pc /\ rc'.current = rc.current \ {d}
      /\ rc'.replicaSets = rc.replicaSets /\ rc'.pods = rc.pods
  BY Typed, RCWritten DEF IInv, DCWrite
<1>8. /\ replicaSets' = [replicaSets EXCEPT ![d] = x] /\ UNCHANGED <<deployments, pods>>
      /\ userWrites' \in 0..MaxUserWrites
  BY DEF DCWrite, IInv, TypeOK
<1> QED
  BY <1>1, <1>2, <1>5, <1>6, <1>7, <1>8, ReplicaSetsChange

(* What the ReplicaSet controller is at.                                   *)
LEMMA AtReplicaSet ==
  ASSUME TypeOK, NEW d \in Deployments, d \in RCTodo
  PROVE  rc.replicaSets[d] \in StoredReplicaSet /\ Desired(d) \in Counts
<1>1. rc.replicaSets[d] \in StoredReplicaSet
  BY DEF TypeOK, RCState, RCTodo, Listed, ReplicaSet
<1> QED
  BY <1>1, ClampCounts DEF Desired, StoredReplicaSet

LEMMA StepRCUpdateStatus == ASSUME IInv, NEW d \in Deployments, RCUpdateStatus(d) PROVE IInv'
<1> DEFINE x == CopyWithStatus(d)
           c == [rc EXCEPT !.replicaSets[d] = x]
           e == ReplicaSetWritten(c, d)
<1>1. x \in ReplicaSet
  BY AtReplicaSet DEF IInv, RCUpdateStatus, First, CopyWithStatus, ReplicaSet, StoredReplicaSet
<1>2. /\ RCTyped(c) /\ c.pc = "items" /\ rc.pc = "items" /\ c.current = rc.current /\ c.pods = rc.pods
      /\ \A o \in Deployments \ {d} : c.replicaSets[o] = rc.replicaSets[o]
  BY <1>1 DEF IInv, TypeOK, RCUpdateStatus, RCTyped, RCState
<1>3. PICK a \in Answers(e, RCWaiting(TRUE)) : rc' = a[1] /\ failures' = a[2]
  BY DEF RCUpdateStatus
<1> HIDE DEF c
<1>4. /\ RCTyped(e) /\ e.pc = "items" /\ e.current = rc.current \ {d} /\ e.replicaSets = c.replicaSets
      /\ e.pods = rc.pods
  BY <1>2, RCWritten
<1> HIDE DEF e
<1>5. failures' \in 0..MaxFailures /\ (rc' = e \/ rc' = RCWaiting(TRUE))
  BY <1>3, AnswersFailures DEF IInv
<1>6. /\ RCTyped(rc')
      /\ rc'.pc # "wait" => /\ rc'.pc = rc.pc /\ rc'.current \subseteq rc.current \ {d}
                            /\ \A o \in Deployments \ {d} : rc'.replicaSets[o] = rc.replicaSets[o]
                            /\ rc'.pods = rc.pods
  BY <1>2, <1>4, <1>5, WaitingTyped
<1>7. /\ DCTyped(dc') /\ dc'.pc = dc.pc /\ dc'.current = dc.current \ {d}
      /\ dc'.replicaSets = dc.replicaSets
  BY Typed, DCWritten DEF IInv, RCUpdateStatus
<1>8. /\ replicaSets' = [replicaSets EXCEPT ![d] = x] /\ UNCHANGED <<deployments, pods>>
      /\ userWrites' \in 0..MaxUserWrites
  BY DEF RCUpdateStatus, IInv, TypeOK
<1> QED
  BY <1>1, <1>5, <1>6, <1>7, <1>8, ReplicaSetsChange

LEMMA StepDeleteReplicaSet == ASSUME IInv, NEW d \in Deployments, DeleteReplicaSet(d) PROVE IInv'
<1>1. /\ DCTyped(dc') /\ dc'.pc = dc.pc /\ dc'.current = dc.current \ {d}
      /\ dc'.replicaSets = dc.replicaSets
  BY Typed, DCWritten DEF IInv, DeleteReplicaSet
<1>2. /\ RCTyped(rc') /\ rc'.pc = rc.pc /\ rc'.current = rc.current \ {d}
      /\ rc'.replicaSets = rc.replicaSets /\ rc'.pods = rc.pods
  BY Typed, RCWritten DEF IInv, DeleteReplicaSet
<1>3. userWrites' \in 0..MaxUserWrites /\ failures' \in 0..MaxFailures
  BY ControllerAssumption DEF DeleteReplicaSet, UserWrites, IInv, TypeOK
<1> QED
  BY <1>1, <1>2, <1>3, ReplicaSetsChange DEF DeleteReplicaSet, ReplicaSet

LEMMA StepRCWritePod ==
  ASSUME IInv, NEW d \in Deployments, NEW i \in PodNumbers, NEW x \in Apps \cup {None},
         rc.pc = "items", RCWritePod(d, i, x)
  PROVE  IInv'
<1> DEFINE c == PodWritten(d, i)
           e == [c EXCEPT !.pods[d][i] = x]
<1>1. /\ RCTyped(c) /\ c.pc = rc.pc /\ c.replicaSets = rc.replicaSets
      /\ c.pods = rc.pods /\ c.current = rc.current
  BY RCPodWritten DEF IInv
<1> HIDE DEF c
<1>2. c.pods \in [Deployments -> [PodNumbers -> Apps \cup {None}]]
  BY <1>1 DEF RCTyped, RCState
<1>3. [c.pods EXCEPT ![d][i] = x] \in [Deployments -> [PodNumbers -> Apps \cup {None}]]
  BY <1>2
<1>4. /\ e \in RCState /\ e.pc = rc.pc /\ e.replicaSets = rc.replicaSets /\ e.current = rc.current
      /\ e.pods = [c.pods EXCEPT ![d][i] = x]
  BY <1>1, <1>3 DEF RCTyped, RCState
<1>5. RCTyped(e)
  BY <1>4 DEF RCTyped
<1>6. PICK a \in Answers(e, RCWaiting(TRUE)) : rc' = a[1] /\ failures' = a[2]
  BY DEF RCWritePod, c
<1>7. failures' \in 0..MaxFailures /\ (rc' = e \/ rc' = RCWaiting(TRUE))
  BY <1>6, AnswersFailures DEF IInv
<1>8. /\ e.pods[d][i] = x
      /\ \A o \in Deployments, j \in PodNumbers : o # d \/ j # i => e.pods[o][j] = rc.pods[o][j]
  BY <1>1, <1>2, <1>4
<1>9. pods' = [pods EXCEPT ![d][i] = x] /\ UNCHANGED <<deployments, replicaSets, dc>> /\ userWrites' \in 0..MaxUserWrites
  BY DEF RCWritePod, IInv, TypeOK
<1> HIDE DEF e
<1>10. CASE rc' = e
  <2>1. /\ RCTyped(rc') /\ rc'.pc = rc.pc /\ rc'.current = rc.current /\ rc'.replicaSets = rc.replicaSets
        /\ rc'.pods[d][i] = x
        /\ \A o \in Deployments, j \in PodNumbers : o # d \/ j # i => rc'.pods[o][j] = rc.pods[o][j]
    BY <1>4, <1>5, <1>8, <1>10
  <2> QED
    BY <1>7, <1>9, <2>1, PodsChange
<1>11. CASE rc' = RCWaiting(TRUE)
  BY <1>7, <1>9, <1>11, WaitingTyped, PodsChange
<1> QED
  BY <1>7, <1>10, <1>11

LEMMA StepRCPods ==
  ASSUME IInv, NEW d \in Deployments, NEW i \in PodNumbers, RCCreatePod(d, i) \/ RCDeletePod(d, i)
  PROVE  IInv'
<1>1. CASE RCCreatePod(d, i)
  <2>1. rc.replicaSets[d].app \in Apps
    BY <1>1, AtReplicaSet DEF IInv, RCCreatePod, First, StoredReplicaSet
  <2> QED
    BY <1>1, <2>1, StepRCWritePod DEF RCCreatePod
<1>2. CASE RCDeletePod(d, i)
  BY <1>2, StepRCWritePod DEF RCDeletePod
<1> QED
  BY <1>1, <1>2

LEMMA StepWritePod ==
  ASSUME IInv, NEW d \in Deployments, NEW i \in PodNumbers, NEW x \in {None, pods[d][i]}, WritePod(d, i, x)
  PROVE  IInv'
<1>1. /\ RCTyped(rc') /\ rc'.pc = rc.pc /\ rc'.replicaSets = rc.replicaSets
      /\ rc'.pods = rc.pods /\ rc'.current = rc.current
  BY RCPodWritten DEF IInv, WritePod
<1>2. /\ userWrites' \in 0..MaxUserWrites /\ failures' \in 0..MaxFailures /\ x \in Apps \cup {None}
      /\ pods' = [pods EXCEPT ![d][i] = x] /\ UNCHANGED <<deployments, replicaSets, dc>>
  BY ControllerAssumption DEF WritePod, UserWrites, IInv, TypeOK
<1>3. x = None \/ rc'.pc # "items" \/ rc'.pods[d][i] = x
  BY <1>1 DEF WritePod, IInv, PodsListed
<1> QED
  BY <1>1, <1>2, <1>3, PodsChange

LEMMA StepWriteDeployment ==
  ASSUME IInv, NEW d \in Deployments, NEW x \in DeploymentSpec, WriteDeployment(d, x)
  PROVE  IInv'
<1>1. /\ dc' \in DCState /\ dc'.pc = dc.pc /\ dc'.deployments = dc.deployments
      /\ dc'.replicaSets = dc.replicaSets /\ dc'.current = dc.current
  BY DEF WriteDeployment, IInv, TypeOK, DCState
<1>2. DCTyped(dc')
  BY <1>1, Typed, DCStays DEF IInv
<1>3. userWrites' \in 0..MaxUserWrites /\ UNCHANGED <<replicaSets, pods, rc, failures>>
  BY ControllerAssumption DEF WriteDeployment, UserWrites, IInv, TypeOK
<1>4. deployments' \in [Deployments -> DeploymentSpec]
  BY DEF WriteDeployment, IInv, TypeOK
<1>5. TypeOK'
  BY <1>2, <1>3, <1>4 DEF IInv, TypeOK, DCTyped
<1> QED
  BY <1>1, <1>3, <1>5 DEF IInv, DCFresh, RCFresh, PodsListed

LEMMA StepFailures == ASSUME IInv, CallFails \/ Restart PROVE IInv'
<1>1. failures < MaxFailures /\ failures' = failures + 1 /\ UNCHANGED <<deployments, replicaSets, pods, userWrites>>
  BY DEF CallFails, Restart, MayFail
<1>2. failures' \in 0..MaxFailures
  BY <1>1, ControllerAssumption DEF IInv, TypeOK
<1>3. dc' = dc \/ dc' = DCWaiting(TRUE)
  BY DEF CallFails, Restart
<1>4. rc' = rc \/ rc' = RCWaiting(TRUE)
  BY DEF CallFails, Restart
<1>5. DCTyped(dc') /\ (dc' = dc \/ dc'.pc = "wait")
  BY <1>3, Typed, WaitingTyped DEF IInv
<1>6. RCTyped(rc') /\ (rc' = rc \/ rc'.pc = "wait")
  BY <1>4, Typed, WaitingTyped DEF IInv
<1>7. TypeOK'
  BY <1>1, <1>2, <1>5, <1>6 DEF IInv, TypeOK, DCTyped, RCTyped
<1>8. DCFresh'
  BY <1>1, <1>2, <1>5 DEF IInv, DCFresh
<1>9. RCFresh' /\ PodsListed'
  BY <1>1, <1>2, <1>6 DEF IInv, RCFresh, PodsListed
<1> QED
  BY <1>7, <1>8, <1>9 DEF IInv

LEMMA StepIInv == IInv /\ [Next]_vars => IInv'
<1> SUFFICES ASSUME IInv, [Next]_vars PROVE IInv'
  OBVIOUS
<1>1. /\ dc.woken \in BOOLEAN /\ rc.woken \in BOOLEAN /\ failures \in 0..MaxFailures
  BY DEF IInv, TypeOK, DCState, RCState
<1>2. CASE DCStep
  <2>1. CASE DCWake \/ DCListDeployments \/ DCListReplicaSets
    BY <2>1, StepDCReads
  <2>2. CASE DCReturn
    BY <1>1, <2>2, StepDCEnds DEF DCReturn
  <2>3. CASE \E d \in Deployments : DCWrite(d)
    BY <2>3, StepDCWrite
  <2>4. CASE \E d \in Deployments : DCRefused(d)
    BY <1>1, <2>4, StepDCEnds DEF DCRefused
  <2> QED
    BY <1>2, <2>1, <2>2, <2>3, <2>4 DEF DCStep
<1>3. CASE RCStep
  <2>1. CASE RCWake \/ RCListReplicaSets \/ RCListPods
    BY <2>1, StepRCReads
  <2>2. CASE RCReturn
    BY <1>1, <2>2, StepRCEnds DEF RCReturn
  <2>3. CASE \E d \in Deployments, i \in PodNumbers : RCCreatePod(d, i) \/ RCDeletePod(d, i)
    BY <2>3, StepRCPods
  <2>4. CASE \E d \in Deployments : RCUpdateStatus(d)
    BY <2>4, StepRCUpdateStatus
  <2>5. CASE \E d \in Deployments : RCRefused(d)
    BY <1>1, <2>5, StepRCEnds DEF RCRefused
  <2> QED
    BY <1>3, <2>1, <2>2, <2>3, <2>4, <2>5 DEF RCStep
<1>4. CASE CallFails \/ Restart
  BY <1>4, StepFailures
<1>5. CASE Others
  <2>1. PICK d \in Deployments :
          \/ \E x \in DeploymentSpec : WriteDeployment(d, x)
          \/ DeleteReplicaSet(d)
          \/ \E i \in PodNumbers : WritePod(d, i, None) \/ WritePod(d, i, pods[d][i])
    BY <1>5 DEF Others
  <2>2. CASE \E x \in DeploymentSpec : WriteDeployment(d, x)
    BY <2>2, StepWriteDeployment
  <2>3. CASE DeleteReplicaSet(d)
    BY <2>3, StepDeleteReplicaSet
  <2>4. CASE \E i \in PodNumbers : WritePod(d, i, None) \/ WritePod(d, i, pods[d][i])
    BY <2>4, StepWritePod
  <2> QED
    BY <2>1, <2>2, <2>3, <2>4
<1>6. CASE UNCHANGED vars
  BY <1>6 DEF vars, IInv, TypeOK, DCFresh, RCFresh, PodsListed
<1> QED
  BY <1>2, <1>3, <1>4, <1>5, <1>6 DEF Next

LEMMA Invariance == Spec => []IInv
BY InitIInv, StepIInv, PTL DEF Spec

-----------------------------------------------------------------------------
(* Every step of the two controllers and of everybody else keeps the       *)
(* objects and the controllers' copies well typed, and a controller that   *)
(* waits for its watches keeps no copy from its last turn.                 *)
THEOREM TypeCorrect == Spec => []TypeOK
<1>1. IInv => TypeOK
  BY DEF IInv
<1> QED
  BY <1>1, Invariance, PTL

-----------------------------------------------------------------------------
(* Which steps write a ReplicaSet.                                         *)

LEMMA WritersOfReplicaSets ==
  ASSUME [Next]_vars, replicaSets' # replicaSets
  PROVE  \E d \in Deployments : DCWrite(d) \/ RCUpdateStatus(d) \/ DeleteReplicaSet(d)
<1>1. CASE DCStep
  BY <1>1 DEF DCStep, DCWake, DCListDeployments, DCListReplicaSets, DCReturn, DCRefused
<1>2. CASE RCStep
  BY <1>2 DEF RCStep, RCWake, RCListReplicaSets, RCListPods, RCReturn, RCRefused, RCCreatePod, RCDeletePod,
              RCWritePod
<1>3. CASE Others
  BY <1>3 DEF Others, WriteDeployment, WritePod
<1> QED
  BY <1>1, <1>2, <1>3 DEF Next, CallFails, Restart, vars

LEMMA OwnFieldsOfReplicaSet ==
  ASSUME IInv, [Next]_vars, NEW d \in Deployments,
         replicaSets[d] # None, replicaSets'[d] # None, replicaSets[d] # replicaSets'[d]
  PROVE  \/ /\ replicaSets'[d].status = replicaSets[d].status
            /\ SpecOf(replicaSets'[d]) = dc.deployments[d]
         \/ /\ [replicaSets'[d] EXCEPT !.status = replicaSets[d].status] = replicaSets[d]
            /\ replicaSets'[d].status = Clamp(replicaSets[d].replicas)
<1>1. PICK o \in Deployments : DCWrite(o) \/ RCUpdateStatus(o) \/ DeleteReplicaSet(o)
  BY WritersOfReplicaSets
<1>2. replicaSets \in [Deployments -> ReplicaSet]
  BY DEF IInv, TypeOK
<1>3. o = d
  BY <1>1, <1>2 DEF DCWrite, RCUpdateStatus, DeleteReplicaSet
<1>4. CASE DCWrite(d)
  <2>1. /\ d \in DCTodo /\ dc.pc = "items" /\ DCAccepted(d) /\ replicaSets'[d] = DesiredReplicaSet(d)
    BY <1>2, <1>4 DEF DCWrite, First
  <2>2. dc.replicaSets[d] # None /\ dc.replicaSets[d] = replicaSets[d]
    BY <2>1 DEF DCAccepted, IInv, DCFresh
  <2> QED
    BY <2>1, <2>2, DesiredType DEF IInv
<1>5. CASE RCUpdateStatus(d)
  <2>1. d \in RCTodo /\ rc.pc = "items" /\ d \in rc.current /\ replicaSets'[d] = CopyWithStatus(d)
    BY <1>2, <1>5 DEF RCUpdateStatus, First, StatusAccepted
  <2>2. rc.replicaSets[d] = replicaSets[d] /\ replicaSets[d] \in StoredReplicaSet
    BY <2>1, AtReplicaSet DEF IInv, RCFresh
  <2>3. replicaSets'[d] = [replicaSets[d] EXCEPT !.status = Clamp(replicaSets[d].replicas)]
    BY <2>1, <2>2 DEF CopyWithStatus, Desired
  <2> DEFINE n == Clamp(replicaSets[d].replicas)
  <2> HIDE DEF n
  <2>4. [[replicaSets[d] EXCEPT !.status = n] EXCEPT !.status = replicaSets[d].status] = replicaSets[d]
    BY <2>2 DEF StoredReplicaSet
  <2>5. [replicaSets[d] EXCEPT !.status = n].status = n
    BY <2>2 DEF StoredReplicaSet
  <2> QED
    BY <2>3, <2>4, <2>5 DEF n
<1>6. CASE DeleteReplicaSet(d)
  BY <1>2, <1>6 DEF DeleteReplicaSet
<1> QED
  BY <1>1, <1>3, <1>4, <1>5, <1>6

(* DeploymentController.Reconcile and the status update of                 *)
(* reconcilePods both write whole ReplicaSets from copies listed earlier:  *)
(* whatever happens in between, the one changes a stored ReplicaSet's spec *)
(* only and to what its Deployment said, the other its status only and to  *)
(* the number of replicas of the stored spec.                              *)
THEOREM ControllersKeepApart == Spec => OwnFields
<1>1. IInv /\ [Next]_vars =>
        [\A d \in Deployments :
           LET old == replicaSets[d]
               new == replicaSets'[d]
           IN old # None /\ new # None /\ old # new =>
                \/ /\ new.status = old.status
                   /\ SpecOf(new) = dc.deployments[d]
                \/ /\ [new EXCEPT !.status = old.status] = old
                   /\ new.status = Clamp(old.replicas)]_vars
  BY OwnFieldsOfReplicaSet
<1> QED
  BY <1>1, Invariance, PTL DEF Spec, OwnFields

-----------------------------------------------------------------------------
(* Counting Pods.                                                          *)

LEMMA CountsFinite == IsFiniteSet(Counts)
<1> DEFINE T == {Clamp(n) : n \in Replicas}
           f == [n \in Replicas |-> Clamp(n)]
<1>1. f \in Surjection(Replicas, T)
  BY DEF Surjection
<1>2. IsFiniteSet(T)
  BY <1>1, FS_Surjection, ControllerAssumption
<1> QED
  BY <1>2, FS_Union, FS_Singleton DEF Counts

LEMMA PodNumbersFinite == IsFiniteSet(PodNumbers)
<1> DEFINE S == {1..n : n \in Counts}
           f == [n \in Counts |-> 1..n]
<1>1. f \in Surjection(Counts, S)
  BY DEF Surjection
<1>2. IsFiniteSet(S)
  BY <1>1, FS_Surjection, CountsFinite
<1>3. \A T \in S : IsFiniteSet(T)
  <2>1. ASSUME NEW n \in Counts PROVE IsFiniteSet(1..n)
    <3>1. n \in Int /\ 1 \in Int
      BY ClampCounts
    <3> QED
      BY <3>1, FS_Interval
  <2> QED
    BY <2>1
<1> QED
  BY <1>2, <1>3, FS_UNION DEF PodNumbers

LEMMA CreatorsOfPods ==
  ASSUME IInv, [Next]_vars, NEW d \in Deployments, NEW i \in PodNumbers,
         pods[d][i] = None, pods'[d][i] # None
  PROVE  RCCreatePod(d, i)
<1>1. \A o \in Deployments, j \in PodNumbers : \A x :
        pods' = [pods EXCEPT ![o][j] = x] => o = d /\ j = i /\ x # None
  BY DEF IInv, TypeOK
<1>2. pods' # pods
  OBVIOUS
<1>3. CASE DCStep
  BY <1>2, <1>3 DEF DCStep, DCWake, DCListDeployments, DCListReplicaSets, DCReturn, DCRefused, DCWrite
<1>4. CASE RCStep
  <2>1. PICK o \in Deployments, j \in PodNumbers : RCCreatePod(o, j) \/ RCDeletePod(o, j)
    BY <1>2, <1>4 DEF RCStep, RCWake, RCListReplicaSets, RCListPods, RCReturn, RCRefused, RCUpdateStatus
  <2> QED
    <3>1. CASE RCCreatePod(o, j)
      BY <1>1, <2>1, <3>1 DEF RCCreatePod, RCWritePod
    <3>2. CASE RCDeletePod(o, j)
      BY <1>1, <2>1, <3>2 DEF RCDeletePod, RCWritePod
    <3> QED
      BY <2>1, <3>1, <3>2
<1>5. CASE Others
  <2>1. PICK o \in Deployments, j \in PodNumbers : WritePod(o, j, None) \/ WritePod(o, j, pods[o][j])
    BY <1>2, <1>5 DEF Others, WriteDeployment, DeleteReplicaSet
  <2> QED
    BY <1>1, <2>1 DEF WritePod
<1> QED
  BY <1>2, <1>3, <1>4, <1>5 DEF Next, CallFails, Restart, vars

LEMMA NoSurplusCreated ==
  ASSUME IInv, [Next]_vars, NEW d \in Deployments, NEW i \in PodNumbers,
         pods[d][i] = None, pods'[d][i] # None
  PROVE  Cardinality({j \in PodNumbers : pods'[d][j] = pods'[d][i]}) <= Desired(d)
<1> DEFINE app == rc.replicaSets[d].app
           same == {j \in PodNumbers : pods'[d][j] = pods'[d][i]}
<1>1. RCCreatePod(d, i)
  BY CreatorsOfPods
<1>2. rc.pc = "items" /\ d \in RCTodo /\ Creates(d) /\ pods' = [pods EXCEPT ![d][i] = app]
  BY <1>1 DEF RCCreatePod, RCWritePod, First
<1>3. app \in Apps /\ app # None /\ Desired(d) \in Nat
  BY <1>2, AtReplicaSet, ClampCounts, ControllerAssumption DEF IInv, StoredReplicaSet
<1>4. \A j \in PodNumbers : pods'[d][j] = IF j = i THEN app ELSE pods[d][j]
  BY <1>2 DEF IInv, TypeOK
<1>5. same \subseteq Managed(d) \cup {i}
  BY <1>2, <1>3, <1>4 DEF IInv, PodsListed, Managed
<1>6. IsFiniteSet(Managed(d))
  BY PodNumbersFinite, FS_Subset DEF Managed
<1>7. Cardinality(Managed(d)) \in Nat
  BY <1>6, FS_CardinalityType
<1>8. /\ IsFiniteSet(Managed(d) \cup {i})
      /\ Cardinality(Managed(d) \cup {i}) <= Cardinality(Managed(d)) + 1
  <2> DEFINE M == Managed(d)
  <2> HIDE DEF M
  <2>1. IsFiniteSet(M) /\ Cardinality(M) \in Nat
    BY <1>6, <1>7 DEF M
  <2>2. /\ IsFiniteSet(M \cup {i})
        /\ Cardinality(M \cup {i}) = IF i \in M THEN Cardinality(M) ELSE Cardinality(M) + 1
    BY <2>1, FS_AddElement
  <2>3. IsFiniteSet(M \cup {i}) /\ Cardinality(M \cup {i}) <= Cardinality(M) + 1
    BY <2>1, <2>2
  <2> QED
    BY <2>3 DEF M
<1>9. IsFiniteSet(same) /\ Cardinality(same) <= Cardinality(Managed(d) \cup {i})
  BY <1>5, <1>8, FS_Subset
<1>10. Cardinality(same) \in Nat /\ Cardinality(Managed(d) \cup {i}) \in Nat
  BY <1>8, <1>9, FS_CardinalityType
<1> QED
  BY <1>2, <1>3, <1>7, <1>8, <1>9, <1>10 DEF Creates

(* reconcilePods creates Pods from a list that others overtake, and after  *)
(* a lost answer or a restart it does so again: still the Pod it creates   *)
(* never makes more Pods with the ReplicaSet's label than the replicas of  *)
(* the ReplicaSet it has listed.                                           *)
THEOREM NoSurplusEver == Spec => NoSurplus
<1>1. IInv /\ [Next]_vars =>
        [\A d \in Deployments, i \in PodNumbers :
           pods[d][i] = None /\ pods'[d][i] # None =>
             Cardinality({j \in PodNumbers : pods'[d][j] = pods'[d][i]}) <= Desired(d)]_vars
  BY NoSurplusCreated
<1> QED
  BY <1>1, Invariance, PTL DEF Spec, NoSurplus

-----------------------------------------------------------------------------
(* Two controllers that rest have every Deployment as its spec says,       *)
(* whatever was written or failed during their turns.                      *)
ConvergedAtRest ==
  dc.pc = "wait" /\ ~dc.woken /\ rc.pc = "wait" /\ ~rc.woken => \A d \in Deployments : Converged(d)

(* What a turn leaves. As long as nothing has woken a controller, its      *)
(* lists are what is stored; and what it found nothing to do for stays so. *)

SpecFollows(d) ==
  deployments[d] # None => replicaSets[d] # None /\ SpecOf(replicaSets[d]) = deployments[d]

PodsFollow(d) ==
  replicaSets[d] # None =>
    /\ Cardinality({i \in PodNumbers : pods[d][i] = replicaSets[d].app}) = Clamp(replicaSets[d].replicas)
    /\ replicaSets[d].status = Clamp(replicaSets[d].replicas)

DCUndisturbed ==
  ~dc.woken =>
    /\ dc.pc \in {"replicasets", "items"} => dc.deployments = deployments
    /\ dc.pc = "items" => dc.replicaSets = replicaSets
    /\ dc.pc = "wait" => \A d \in Deployments : SpecFollows(d)

RCUndisturbed ==
  ~rc.woken =>
    /\ rc.pc \in {"pods", "items"} => rc.replicaSets = replicaSets
    /\ rc.pc = "items" => rc.pods = pods
    /\ rc.pc = "wait" => \A d \in Deployments : PodsFollow(d)

LEMMA AnswerWakes ==
  ASSUME NEW s, NEW f, s.woken, f.woken, NEW a \in Answers(s, f)
  PROVE  a[1].woken
<1>1. a = <<s, failures>> \/ a = <<f, failures + 1>>
  BY DEF Answers
<1> QED
  BY <1>1

LEMMA WritesWake ==
  /\ \A c : c \in DCState \/ c \in RCState => \A d : ReplicaSetWritten(c, d).woken
  /\ rc \in RCState => \A d, i : PodWritten(d, i).woken
  /\ DCWaiting(TRUE).woken /\ RCWaiting(TRUE).woken
BY DEF ReplicaSetWritten, PodWritten, DCState, RCState, DCWaiting, RCWaiting

(* Every write of what a controller watches wakes it, its own included.    *)
LEMMA WritersWakeDC ==
  ASSUME IInv, NEW d \in Deployments, DCWrite(d) \/ RCUpdateStatus(d) \/ DeleteReplicaSet(d)
  PROVE  dc'.woken
<1>1. dc \in DCState /\ rc \in RCState
  BY DEF IInv, TypeOK
<1>2. CASE DCWrite(d)
  <2> DEFINE next == [dc EXCEPT !.replicaSets[d] = DesiredReplicaSet(d)]
  <2>1. ReplicaSetWritten(next, d).woken
    BY <1>1 DEF ReplicaSetWritten, DCState
  <2>2. PICK a \in Answers(ReplicaSetWritten(next, d), DCWaiting(TRUE)) : dc' = a[1]
    BY <1>2 DEF DCWrite
  <2> QED
    BY <2>1, <2>2, AnswerWakes, WritesWake
<1>3. ReplicaSetWritten(dc, d).woken
  BY <1>1, WritesWake, Zenon
<1> QED
  BY <1>2, <1>3 DEF RCUpdateStatus, DeleteReplicaSet

LEMMA WritersWakeRC ==
  ASSUME IInv, NEW d \in Deployments, DCWrite(d) \/ RCUpdateStatus(d) \/ DeleteReplicaSet(d)
  PROVE  rc'.woken
<1>1. dc \in DCState /\ rc \in RCState
  BY DEF IInv, TypeOK
<1>2. CASE RCUpdateStatus(d)
  <2> DEFINE next == [rc EXCEPT !.replicaSets[d] = CopyWithStatus(d)]
  <2>1. ReplicaSetWritten(next, d).woken
    BY <1>1 DEF ReplicaSetWritten, RCState
  <2>2. PICK a \in Answers(ReplicaSetWritten(next, d), RCWaiting(TRUE)) : rc' = a[1]
    BY <1>2 DEF RCUpdateStatus
  <2> QED
    BY <2>1, <2>2, AnswerWakes, WritesWake
<1>3. ReplicaSetWritten(rc, d).woken
  BY <1>1, WritesWake, Zenon
<1> QED
  BY <1>2, <1>3 DEF DCWrite, DeleteReplicaSet

LEMMA PodWritesWake ==
  ASSUME IInv, NEW d, NEW i, NEW x, RCWritePod(d, i, x) \/ WritePod(d, i, x)
  PROVE  rc'.woken
<1>1. rc \in RCState
  BY DEF IInv, TypeOK
<1>2. CASE RCWritePod(d, i, x)
  <2>1. [PodWritten(d, i) EXCEPT !.pods[d][i] = x].woken
    BY <1>1 DEF PodWritten, RCState
  <2>2. PICK a \in Answers([PodWritten(d, i) EXCEPT !.pods[d][i] = x], RCWaiting(TRUE)) : rc' = a[1]
    BY <1>2 DEF RCWritePod
  <2> QED
    BY <2>1, <2>2, AnswerWakes, WritesWake
<1> QED
  BY <1>1, <1>2, WritesWake DEF WritePod

LEMMA DCWatches ==
  ASSUME IInv, [Next]_vars, ~dc'.woken
  PROVE  UNCHANGED <<deployments, replicaSets>>
<1>1. UNCHANGED replicaSets
  BY WritersOfReplicaSets, WritersWakeDC
<1>2. ASSUME NEW d \in Deployments, NEW x \in DeploymentSpec, WriteDeployment(d, x) PROVE FALSE
  BY <1>2 DEF WriteDeployment, IInv, TypeOK, DCState
<1>3. CASE Others
  BY <1>1, <1>2, <1>3 DEF Others, DeleteReplicaSet, WritePod
<1>4. CASE DCStep
  BY <1>1, <1>4 DEF DCStep, DCWake, DCListDeployments, DCListReplicaSets, DCReturn, DCWrite, DCRefused
<1>5. CASE RCStep
  BY <1>1, <1>5 DEF RCStep, RCWake, RCListReplicaSets, RCListPods, RCReturn, RCCreatePod, RCDeletePod,
                   RCWritePod, RCUpdateStatus, RCRefused
<1> QED
  BY <1>1, <1>3, <1>4, <1>5 DEF Next, CallFails, Restart, vars

LEMMA RCWatches ==
  ASSUME IInv, [Next]_vars, ~rc'.woken
  PROVE  UNCHANGED <<replicaSets, pods>>
<1>1. UNCHANGED replicaSets
  BY WritersOfReplicaSets, WritersWakeRC
<1>2. CASE Others
  BY <1>1, <1>2, PodWritesWake DEF Others, DeleteReplicaSet, WriteDeployment
<1>3. CASE DCStep
  BY <1>1, <1>3 DEF DCStep, DCWake, DCListDeployments, DCListReplicaSets, DCReturn, DCWrite, DCRefused
<1>4. CASE RCStep
  BY <1>1, <1>4, PodWritesWake DEF RCStep, RCWake, RCListReplicaSets, RCListPods, RCReturn, RCCreatePod,
                                  RCDeletePod, RCUpdateStatus, RCRefused
<1> QED
  BY <1>1, <1>2, <1>3, <1>4 DEF Next, CallFails, Restart, vars

(* So a controller that is not woken has moved on in its turn by itself.   *)
LEMMA DCMoves ==
  ASSUME IInv, [Next]_vars, ~dc'.woken
  PROVE  DCWake \/ DCListDeployments \/ DCListReplicaSets \/ DCReturn \/ UNCHANGED dc
<1>1. ASSUME NEW d \in Deployments, DCRefused(d) PROVE FALSE
  BY <1>1, WritesWake DEF DCRefused
<1>2. CASE DCStep
  BY <1>1, <1>2, WritersWakeDC DEF DCStep
<1>3. CASE RCStep
  BY <1>3, WritersWakeDC DEF RCStep, RCWake, RCListReplicaSets, RCListPods, RCReturn, RCCreatePod, RCDeletePod,
              RCWritePod, RCRefused
<1>4. CASE CallFails \/ Restart
  BY <1>4, WritesWake DEF CallFails, Restart
<1>5. CASE Others
  <2>1. ASSUME NEW d \in Deployments, NEW x \in DeploymentSpec, WriteDeployment(d, x) PROVE FALSE
    BY <2>1 DEF WriteDeployment, IInv, TypeOK, DCState
  <2> QED
    BY <1>5, <2>1, WritersWakeDC DEF Others, WritePod
<1> QED
  BY <1>2, <1>3, <1>4, <1>5 DEF Next, vars

LEMMA RCMoves ==
  ASSUME IInv, [Next]_vars, ~rc'.woken
  PROVE  RCWake \/ RCListReplicaSets \/ RCListPods \/ RCReturn \/ UNCHANGED rc
<1>1. ASSUME NEW d \in Deployments, RCRefused(d) PROVE FALSE
  BY <1>1, WritesWake DEF RCRefused
<1>2. CASE RCStep
  BY <1>1, <1>2, WritersWakeRC, PodWritesWake DEF RCStep, RCCreatePod, RCDeletePod
<1>3. CASE DCStep
  BY <1>3, WritersWakeRC DEF DCStep, DCWake, DCListDeployments, DCListReplicaSets, DCReturn, DCRefused
<1>4. CASE CallFails \/ Restart
  BY <1>4, WritesWake DEF CallFails, Restart
<1>5. CASE Others
  BY <1>5, WritersWakeRC, PodWritesWake DEF Others, WriteDeployment
<1> QED
  BY <1>2, <1>3, <1>4, <1>5 DEF Next, vars

LEMMA StepDCUndisturbed ==
  ASSUME IInv, DCUndisturbed, [Next]_vars
  PROVE  DCUndisturbed'
<1> SUFFICES ASSUME ~dc'.woken PROVE DCUndisturbed'
  BY DEF DCUndisturbed
<1>1. dc \in DCState /\ UNCHANGED <<deployments, replicaSets>>
  BY DCWatches DEF IInv, TypeOK
<1>2. CASE DCWake
  BY <1>1, <1>2 DEF DCWake, DCState, DCUndisturbed
<1>3. CASE DCListDeployments
  BY <1>1, <1>3 DEF DCListDeployments, DCState, DCUndisturbed
<1>4. CASE DCListReplicaSets
  BY <1>1, <1>4 DEF DCListReplicaSets, DCState, DCUndisturbed
<1>5. CASE DCReturn
  <2>1. dc.pc = "items" /\ DCTodo = {} /\ dc'.pc = "wait" /\ dc'.woken = dc.woken
    BY <1>5 DEF DCReturn, DCWaiting
  <2>2. dc.deployments = deployments /\ dc.replicaSets = replicaSets
    BY <2>1 DEF DCUndisturbed
  <2>3. \A d \in Deployments : SpecFollows(d)
    BY <2>1, <2>2 DEF DCTodo, SpecFollows, Listed, IInv, TypeOK
  <2> QED
    BY <1>1, <2>1, <2>3 DEF DCUndisturbed, SpecFollows
<1>6. CASE UNCHANGED dc
  BY <1>1, <1>6 DEF DCUndisturbed, SpecFollows
<1> QED
  BY <1>2, <1>3, <1>4, <1>5, <1>6, DCMoves

LEMMA StepRCUndisturbed ==
  ASSUME IInv, RCUndisturbed, [Next]_vars
  PROVE  RCUndisturbed'
<1> SUFFICES ASSUME ~rc'.woken PROVE RCUndisturbed'
  BY DEF RCUndisturbed
<1>1. rc \in RCState /\ UNCHANGED <<replicaSets, pods>>
  BY RCWatches DEF IInv, TypeOK
<1>2. CASE RCWake
  BY <1>1, <1>2 DEF RCWake, RCState, RCUndisturbed
<1>3. CASE RCListReplicaSets
  BY <1>1, <1>3 DEF RCListReplicaSets, RCState, RCUndisturbed
<1>4. CASE RCListPods
  BY <1>1, <1>4 DEF RCListPods, RCState, RCUndisturbed
<1>5. CASE RCReturn
  <2>1. rc.pc = "items" /\ RCTodo = {} /\ rc'.pc = "wait" /\ rc'.woken = rc.woken
    BY <1>5 DEF RCReturn, RCWaiting
  <2>2. rc.replicaSets = replicaSets /\ rc.pods = pods
    BY <2>1 DEF RCUndisturbed
  <2>3. \A d \in Deployments : PodsFollow(d)
    BY <2>1, <2>2 DEF RCTodo, PodsFollow, Listed, Managed, Desired, IInv, TypeOK
  <2> QED
    BY <1>1, <2>1, <2>3 DEF RCUndisturbed, PodsFollow
<1>6. CASE UNCHANGED rc
  BY <1>1, <1>6 DEF RCUndisturbed, PodsFollow
<1> QED
  BY <1>2, <1>3, <1>4, <1>5, <1>6, RCMoves

LEMMA RestIsConverged == IInv /\ DCUndisturbed /\ RCUndisturbed => ConvergedAtRest
<1> SUFFICES ASSUME IInv, NEW d \in Deployments, SpecFollows(d), PodsFollow(d), deployments[d] # None
             PROVE  Converged(d)
  BY DEF DCUndisturbed, RCUndisturbed, ConvergedAtRest, Converged
<1> DEFINE r == replicaSets[d]
<1>1. r \in StoredReplicaSet /\ deployments[d] \in Specs /\ SpecOf(r) = deployments[d]
  BY DEF SpecFollows, IInv, TypeOK, ReplicaSet, DeploymentSpec
<1>2. r.replicas = deployments[d].replicas /\ r.app = deployments[d].app
  BY <1>1 DEF SpecOf
<1>3. r = [replicas |-> r.replicas, app |-> r.app, status |-> r.status]
  BY <1>1 DEF StoredReplicaSet
<1>4. /\ Cardinality({i \in PodNumbers : pods[d][i] = r.app}) = Clamp(r.replicas)
      /\ r.status = Clamp(r.replicas)
  BY DEF PodsFollow, SpecFollows
<1> HIDE DEF r
<1>5. r = replicaSets[d]
  BY DEF r
<1> QED
  BY <1>2, <1>3, <1>4, <1>5 DEF Converged

(* When both controllers rest, every Deployment has its ReplicaSet, the    *)
(* ReplicaSet its number of Pods and its status: refused and failed calls, *)
(* lost answers, restarts and whatever is written during the turns all     *)
(* leave a wake-up. The safety part of Converges; it needs no exception,   *)
(* for a ReplicaSet that is stuck keeps the controller from resting.       *)
THEOREM RestsWhenConverged == Spec => []ConvergedAtRest
<1>1. Init => DCUndisturbed /\ RCUndisturbed
  BY DEF Init, DCWaiting, RCWaiting, DCUndisturbed, RCUndisturbed
<1>2. Spec => [](DCUndisturbed /\ RCUndisturbed)
  BY <1>1, Invariance, StepDCUndisturbed, StepRCUndisturbed, PTL DEF Spec
<1> QED
  BY <1>2, Invariance, RestIsConverged, PTL
=============================================================================
