---------------------------- MODULE KubeletProofs ----------------------------
(***************************************************************************)
(* Proofs of the safety of Kubelet, for any Pods, addresses, writes and    *)
(* failures.                                                               *)
(***************************************************************************)
EXTENDS Kubelet, TLAPS

-----------------------------------------------------------------------------
(* The inductive invariant: what lists and copies that are out of date     *)
(* still say.                                                              *)

(* The Pod the kubelet is at is one it has to deal with.                   *)
AtItem == k.item # None => k.pc \in {"start", "stop"} /\ k.item \in k.todo

(* Containers end without the kubelet, but only the kubelet starts them.   *)
NotRunning ==
  k.pc = "start" => \A p \in Pods : k.containers[p] # "running" => containers[p] # "running"

(* RunPodSandbox has been called for the Pod the kubelet is at.            *)
InSandbox == k.pc = "start" /\ k.item # None => sandboxes[k.item] # None

StartsAssigned ==
  k.pc = "start" => \A p \in k.todo : k.pods[p] # None /\ k.pods[p].here

(* A copy nobody has overtaken is the Pod as it is, but for the address    *)
(* the kubelet filled in.                                                  *)
CopyOf(p) ==
  /\ pods[p] # None
  /\ \/ k.pods[p] = pods[p]
     \/ k.item = p /\ k.pods[p] = [pods[p] EXCEPT !.ip = sandboxes[p]]

Copies == k.pc \in {"containers", "start"} => \A p \in k.current : CopyOf(p)

IInv ==
  /\ TypeOK /\ NoOrphan /\ SandboxPerContainer
  /\ AtItem /\ NotRunning /\ InSandbox /\ StartsAssigned /\ Copies

-----------------------------------------------------------------------------
(* Facts about single states.                                              *)

LEMMA WaitingType ==
  ASSUME NEW woken \in BOOLEAN
  PROVE  Waiting(woken) \in KubeletState /\ Waiting(woken).woken = woken /\ Waiting(woken).pc = "wait"
BY DEF Waiting, KubeletState, ContainerState

(* In a waiting kubelet there is nothing to prove about copies.            *)
LEMMA WaitingSafe ==
  ASSUME NEW woken \in BOOLEAN, k' = Waiting(woken)
  PROVE  (AtItem /\ NotRunning /\ InSandbox /\ StartsAssigned /\ Copies)'
BY DEF Waiting, AtItem, NotRunning, InSandbox, StartsAssigned, Copies

(* A write or an event between two turns leaves nothing but the wake-up.   *)
LEMMA StaysWaiting ==
  ASSUME NEW w, k = Waiting(w), k' \in KubeletState,
         k'.pc = k.pc, k'.pods = k.pods, k'.containers = k.containers, k'.todo = k.todo, k'.item = k.item,
         k'.current \subseteq k.current
  PROVE  k' = Waiting(k'.woken)
<1> DEFINE noPods == [p \in Pods |-> None]
           noContainers == [p \in Pods |-> "none"]
<1>1. /\ k.pc = "wait" /\ k.pods = noPods /\ k.current = {} /\ k.containers = noContainers
      /\ k.todo = {} /\ k.item = None
  BY DEF Waiting
<1>2. k' = [pc |-> k'.pc, woken |-> k'.woken, pods |-> k'.pods, current |-> k'.current,
            containers |-> k'.containers, todo |-> k'.todo, item |-> k'.item]
  BY DEF KubeletState
<1>3. k'.current = {}
  BY <1>1
<1>4. Waiting(k'.woken) = [pc |-> "wait", woken |-> k'.woken, pods |-> noPods, current |-> {},
                           containers |-> noContainers, todo |-> {}, item |-> None]
  BY DEF Waiting
<1> HIDE DEF noPods, noContainers
<1> QED
  BY <1>1, <1>2, <1>3, <1>4

LEMMA InitIInv == Init => IInv
<1> SUFFICES ASSUME Init PROVE IInv
  OBVIOUS
<1>1. k = Waiting(TRUE) /\ k \in KubeletState /\ k.woken = TRUE /\ k.pc = "wait" /\ k.item = None
  BY WaitingType DEF Init, Waiting
<1>2. TypeOK
  <2>1. pods \in [Pods -> Pod \cup {None}] /\ sandboxes \in [Pods -> IPs \cup {None}]
    BY DEF Init
  <2>2. containers \in [Pods -> ContainerState] /\ live \in [Pods -> Nat]
    BY DEF Init, ContainerState
  <2>3. userWrites \in 0..MaxUserWrites /\ failures \in 0..MaxFailures
    BY KubeletAssumption DEF Init
  <2>4. k \in KubeletState /\ k = Waiting(k.woken)
    BY <1>1
  <2> QED
    BY <2>1, <2>2, <2>3, <2>4 DEF TypeOK
<1>3. NoOrphan /\ SandboxPerContainer
  BY DEF Init, NoOrphan, SandboxPerContainer
<1> QED
  BY <1>1, <1>2, <1>3 DEF IInv, AtItem, NotRunning, InSandbox, StartsAssigned, Copies

(* A Reconcile that fails or returns.                                      *)
LEMMA StepToWait ==
  ASSUME IInv, NEW woken \in BOOLEAN, k' = Waiting(woken), UNCHANGED world,
         userWrites' \in 0..MaxUserWrites, failures' \in 0..MaxFailures
  PROVE  IInv'
<1>1. k' \in KubeletState /\ k' = Waiting(k'.woken)
  BY WaitingType
<1>2. TypeOK'
  BY <1>1 DEF IInv, TypeOK, world
<1>3. (NoOrphan /\ SandboxPerContainer)'
  BY DEF IInv, NoOrphan, SandboxPerContainer, world
<1> QED
  BY <1>2, <1>3, WaitingSafe DEF IInv

(* A step that only the kubelet itself notices.                            *)
LEMMA StepKubelet ==
  ASSUME IInv, k' \in KubeletState, k'.pc # "wait", UNCHANGED <<world, userWrites, failures>>,
         (AtItem /\ NotRunning /\ InSandbox /\ StartsAssigned /\ Copies)'
  PROVE  IInv'
<1>1. TypeOK'
  BY DEF IInv, TypeOK, world
<1>2. (NoOrphan /\ SandboxPerContainer)'
  BY DEF IInv, NoOrphan, SandboxPerContainer, world
<1> QED
  BY <1>1, <1>2 DEF IInv

LEMMA StepWake == ASSUME IInv, Wake PROVE IInv'
<1>1. k' \in KubeletState /\ k'.pc = "pods" /\ k'.item = k.item /\ k.item = None
  BY DEF IInv, TypeOK, AtItem, Wake, KubeletState
<1> QED
  BY <1>1, StepKubelet DEF Wake, AtItem, NotRunning, InSandbox, StartsAssigned, Copies

LEMMA StepListPods == ASSUME IInv, ListPods PROVE IInv'
<1>1. /\ k' \in KubeletState /\ k'.pc = "containers" /\ k'.item = k.item /\ k.item = None
      /\ k'.pods = pods /\ k'.current = {p \in Pods : pods[p] # None}
  BY DEF IInv, TypeOK, AtItem, ListPods, KubeletState
<1>2. Copies'
  BY <1>1 DEF Copies, CopyOf, ListPods, world
<1> QED
  BY <1>1, <1>2, StepKubelet DEF ListPods, AtItem, NotRunning, InSandbox, StartsAssigned

LEMMA StepListContainers == ASSUME IInv, ListContainers PROVE IInv'
<1>1. /\ k' \in KubeletState /\ k'.pc = "start" /\ k'.item = k.item /\ k.item = None
      /\ k'.pods = k.pods /\ k'.current = k.current /\ k'.containers = containers
      /\ k'.todo = ToStart(containers)
  BY DEF IInv, TypeOK, AtItem, ListContainers, KubeletState, ToStart, Assigned
<1>2. Copies'
  BY <1>1 DEF IInv, Copies, CopyOf, ListContainers, world
<1>3. StartsAssigned'
  BY <1>1 DEF StartsAssigned, ToStart, Assigned
<1> QED
  BY <1>1, <1>2, <1>3, StepKubelet DEF ListContainers, AtItem, NotRunning, InSandbox, world

LEMMA StepBeginStops == ASSUME IInv, BeginStops PROVE IInv'
<1>1. k' \in KubeletState /\ k'.pc = "stop" /\ k'.item = k.item /\ k.item = None
  BY DEF IInv, TypeOK, AtItem, BeginStops, KubeletState, Undesired, Assigned
<1> QED
  BY <1>1, StepKubelet DEF BeginStops, AtItem, NotRunning, InSandbox, StartsAssigned, Copies

-----------------------------------------------------------------------------
(* Starting.                                                               *)

LEMMA StepRunPodSandbox == ASSUME IInv, NEW p \in Pods, RunPodSandbox(p) PROVE IInv'
<1>1. /\ k' \in KubeletState /\ k'.pc = "start" /\ k'.item = p /\ k.item = None /\ p \in k.todo
      /\ k'.pods = k.pods /\ k'.current = k.current /\ k'.containers = k.containers /\ k'.todo = k.todo
      /\ k.pc = "start"
  BY DEF IInv, TypeOK, RunPodSandbox, Turn, KubeletState
<1>2. /\ UNCHANGED <<pods, containers, live, userWrites, failures>>
      /\ sandboxes \in [Pods -> IPs \cup {None}]
  BY DEF IInv, TypeOK, RunPodSandbox
<1>3. /\ sandboxes' \in [Pods -> IPs \cup {None}]
      /\ sandboxes'[p] # None
      /\ \A q \in Pods : q # p => sandboxes'[q] = sandboxes[q] /\ sandboxes'[q] # sandboxes'[p]
  <2>1. CASE sandboxes[p] # None /\ UNCHANGED sandboxes
    BY <1>2, <2>1 DEF IInv, SandboxPerContainer
  <2>2. CASE \E ip \in IPs : NextIP(ip) /\ sandboxes' = [sandboxes EXCEPT ![p] = ip]
    BY <1>2, <2>2, KubeletAssumption DEF NextIP, FreeIPs
  <2> QED
    BY <2>1, <2>2 DEF RunPodSandbox
<1>4. TypeOK'
  BY <1>1, <1>2, <1>3 DEF IInv, TypeOK
<1>5. NoOrphan'
  BY <1>2 DEF IInv, NoOrphan
<1>6. SandboxPerContainer'
  BY <1>2, <1>3 DEF IInv, SandboxPerContainer
<1>7. Copies'
  <2> SUFFICES ASSUME NEW q \in k'.current PROVE CopyOf(q)'
    BY DEF Copies
  <2>1. pods[q] # None /\ k.pods[q] = pods[q]
    <3>1. CopyOf(q)
      BY <1>1 DEF IInv, Copies
    <3>2. q # k.item
      BY <1>1, KubeletAssumption DEF IInv, TypeOK, KubeletState
    <3> QED
      BY <3>1, <3>2 DEF CopyOf
  <2> QED
    BY <1>1, <1>2, <2>1 DEF CopyOf
<1>8. (AtItem /\ NotRunning /\ InSandbox /\ StartsAssigned)'
  BY <1>1, <1>2, <1>3 DEF IInv, AtItem, NotRunning, InSandbox, StartsAssigned
<1> QED
  BY <1>4, <1>5, <1>6, <1>7, <1>8 DEF IInv

LEMMA StepRunInSandbox == ASSUME IInv, NEW p \in Pods, RunInSandbox(p) PROVE IInv'
<1>1. /\ k \in KubeletState /\ k.pc = "start" /\ k.item = p /\ p \in k.todo
      /\ sandboxes[p] \in IPs /\ k.pods[p] \in Pod /\ k.pods[p].here
      /\ containers[p] # "running" /\ live[p] = 0
  <2>1. k \in KubeletState /\ k.pc = "start" /\ k.item = p /\ p \in k.todo /\ k.containers[p] # "running"
    BY DEF IInv, TypeOK, RunInSandbox, Turn, MustRun
  <2>2. containers[p] # "running" /\ live[p] = 0
    BY <2>1 DEF IInv, NotRunning, NoOrphan
  <2>3. sandboxes[p] \in IPs
    BY <2>1, KubeletAssumption DEF IInv, TypeOK, InSandbox
  <2>4. k.pods[p] \in Pod /\ k.pods[p].here
    BY <2>1 DEF IInv, StartsAssigned, KubeletState
  <2> QED
    BY <2>1, <2>2, <2>3, <2>4
<1> DEFINE filled == [k.pods[p] EXCEPT !.ip = sandboxes[p]]
<1>2. filled \in Pod /\ filled.here /\ filled # None
  BY <1>1, KubeletAssumption DEF Pod
<1>3. /\ k'.pc = "start" /\ k'.item = p /\ k'.todo = k.todo /\ k'.current = k.current /\ k'.woken = TRUE
      /\ k'.pods = [k.pods EXCEPT ![p] = filled]
      /\ k'.containers = [k.containers EXCEPT ![p] = "running"]
      /\ k' \in KubeletState
  BY <1>1, <1>2 DEF RunInSandbox, KubeletState, ContainerState
<1>4. /\ UNCHANGED <<pods, sandboxes, userWrites, failures>>
      /\ containers' = [containers EXCEPT ![p] = "running"]
      /\ live' = [live EXCEPT ![p] = 1]
  BY <1>1 DEF RunInSandbox, IInv, TypeOK
<1>5. TypeOK'
  BY <1>3, <1>4 DEF IInv, TypeOK, ContainerState
<1>6. NoOrphan' /\ SandboxPerContainer'
  BY <1>1, <1>4, KubeletAssumption DEF IInv, TypeOK, NoOrphan, SandboxPerContainer
<1>7. (AtItem /\ InSandbox)'
  BY <1>1, <1>3, <1>4, KubeletAssumption DEF AtItem, InSandbox
<1>8. NotRunning'
  BY <1>1, <1>3, <1>4 DEF IInv, TypeOK, NotRunning, KubeletState
<1>9. StartsAssigned'
  BY <1>1, <1>2, <1>3 DEF IInv, StartsAssigned, KubeletState
<1>10. Copies'
  <2> SUFFICES ASSUME NEW q \in k'.current PROVE CopyOf(q)'
    BY DEF Copies
  <2>1. CopyOf(q) /\ q \in Pods
    BY <1>1, <1>3 DEF IInv, Copies, KubeletState
  <2>2. CASE q = p
    <3>1. k.pods[p] = pods[p] \/ k.pods[p] = [pods[p] EXCEPT !.ip = sandboxes[p]]
      BY <2>1, <2>2 DEF CopyOf
    <3>2. pods[p] \in Pod
      BY <2>1, <2>2 DEF CopyOf, IInv, TypeOK
    <3>3. filled = [pods[p] EXCEPT !.ip = sandboxes[p]]
      BY <3>1, <3>2 DEF Pod
    <3> QED
      BY <1>1, <1>3, <1>4, <2>1, <2>2, <3>3 DEF CopyOf, KubeletState
  <2>3. CASE q # p
    BY <1>1, <1>3, <1>4, <2>1, <2>3 DEF CopyOf, KubeletState
  <2> QED
    BY <2>2, <2>3
<1> QED
  BY <1>5, <1>6, <1>7, <1>8, <1>9, <1>10 DEF IInv

(* What UpdateStatus writes.                                               *)
LEMMA Reported ==
  ASSUME IInv, NEW p \in Pods, UpdateStatus(p)
  PROVE  /\ pods[p] \in Pod /\ pods[p].here /\ RunningCopy(p) \in Pod
         /\ RunningCopy(p) = [pods[p] EXCEPT !.running = TRUE, !.ip = RunningCopy(p).ip]
         /\ RunningCopy(p).ip \in {pods[p].ip, sandboxes[p]}
<1>1. k.pc = "start" /\ p \in k.todo /\ p \in k.current /\ sandboxes[p] \in IPs \cup {None}
  BY DEF UpdateStatus, Turn, StatusAccepted, IInv, TypeOK
<1>2. k.pods[p] \in Pod /\ k.pods[p].here /\ CopyOf(p)
  BY <1>1 DEF IInv, TypeOK, KubeletState, StartsAssigned, Copies
<1>3. pods[p] \in Pod
  BY <1>2 DEF IInv, TypeOK, CopyOf
<1>4. k.pods[p] = pods[p] \/ k.pods[p] = [pods[p] EXCEPT !.ip = sandboxes[p]]
  BY <1>2 DEF CopyOf
<1> QED
  BY <1>1, <1>2, <1>3, <1>4 DEF RunningCopy, Pod

LEMMA StepUpdateStatus == ASSUME IInv, NEW p \in Pods, UpdateStatus(p) PROVE IInv'
<1>1. k \in KubeletState /\ k.pc = "start" /\ k.item \in {p, None}
  BY DEF IInv, TypeOK, UpdateStatus, Turn
<1>2. /\ k'.pc = "start" /\ k'.item = None /\ k'.todo = k.todo \ {p} /\ k'.current = k.current \ {p}
      /\ k'.pods = k.pods /\ k'.containers = k.containers /\ k' \in KubeletState
  BY <1>1 DEF UpdateStatus, PodWritten, KubeletState
<1>3. UNCHANGED <<sandboxes, containers, live, userWrites, failures>> /\ pods' = [pods EXCEPT ![p] = RunningCopy(p)]
  BY DEF UpdateStatus
<1>4. TypeOK'
  BY <1>2, <1>3, Reported DEF IInv, TypeOK
<1>5. (NoOrphan /\ SandboxPerContainer /\ NotRunning /\ AtItem /\ InSandbox)'
  BY <1>1, <1>2, <1>3 DEF IInv, NoOrphan, SandboxPerContainer, NotRunning, AtItem, InSandbox
<1>6. StartsAssigned'
  BY <1>1, <1>2 DEF IInv, StartsAssigned
<1>7. Copies'
  <2> SUFFICES ASSUME NEW q \in k'.current PROVE CopyOf(q)'
    BY DEF Copies
  <2>1. CopyOf(q) /\ q \in Pods /\ q # p
    BY <1>1, <1>2 DEF IInv, Copies, KubeletState
  <2>2. q # k.item
    BY <1>1, <2>1, KubeletAssumption
  <2>3. pods'[q] = pods[q]
    BY <1>3, <2>1 DEF IInv, TypeOK
  <2> QED
    BY <1>2, <2>1, <2>2, <2>3 DEF CopyOf
<1> QED
  BY <1>4, <1>5, <1>6, <1>7 DEF IInv

-----------------------------------------------------------------------------
(* Stopping, and what happens by itself.                                   *)

(* The end of a process forgets no other.                                  *)
LEMMA ProcessEnds ==
  ASSUME IInv, NEW p \in Pods, EndProcess(p)
  PROVE  /\ containers' \in [Pods -> ContainerState] /\ live' \in [Pods -> Nat]
         /\ containers'[p] # "running"
         /\ \A q \in Pods : q # p => containers'[q] = containers[q]
         /\ NoOrphan'
<1>1. containers \in [Pods -> ContainerState] /\ live \in [Pods -> Nat]
  BY DEF IInv, TypeOK
<1>2. containers' \in [Pods -> ContainerState] /\ containers'[p] # "running"
      /\ \A q \in Pods : q # p => containers'[q] = containers[q]
  BY <1>1 DEF EndProcess, ContainerState
<1>3. \A q \in Pods : live'[q] = IF q = p THEN 0 ELSE live[q]
  BY <1>1 DEF EndProcess, IInv, NoOrphan
<1>4. live' \in [Pods -> Nat]
  BY <1>1, <1>3 DEF EndProcess
<1>5. NoOrphan'
  BY <1>2, <1>3 DEF IInv, NoOrphan
<1> QED
  BY <1>2, <1>4, <1>5

LEMMA StepStopContainer == ASSUME IInv, NEW p \in Pods, StopContainer(p) PROVE IInv'
<1>1. k' \in KubeletState /\ k'.pc = "stop" /\ k'.item = p /\ p \in k'.todo
  BY DEF IInv, TypeOK, StopContainer, Turn, KubeletState
<1>2. EndProcess(p) /\ UNCHANGED <<pods, sandboxes, userWrites, failures>>
  BY DEF StopContainer
<1>3. TypeOK' /\ NoOrphan' /\ SandboxPerContainer'
  BY <1>1, <1>2, ProcessEnds DEF IInv, TypeOK, SandboxPerContainer
<1> QED
  BY <1>1, <1>3 DEF IInv, AtItem, NotRunning, InSandbox, StartsAssigned, Copies

LEMMA StepStopPodSandbox == ASSUME IInv, NEW p \in Pods, StopPodSandbox(p) PROVE IInv'
<1>1. k' \in KubeletState /\ k'.pc = "stop" /\ k'.item = None
  BY DEF IInv, TypeOK, StopPodSandbox, Turn, KubeletState
<1>2. EndProcess(p) /\ UNCHANGED <<pods, userWrites, failures>> /\ sandboxes' = [sandboxes EXCEPT ![p] = None]
  BY DEF StopPodSandbox
<1>3. TypeOK'
  BY <1>1, <1>2, ProcessEnds DEF IInv, TypeOK
<1>4. SandboxPerContainer'
  BY <1>2, ProcessEnds DEF IInv, TypeOK, SandboxPerContainer
<1> QED
  BY <1>1, <1>2, <1>3, <1>4, ProcessEnds DEF IInv, AtItem, NotRunning, InSandbox, StartsAssigned, Copies

LEMMA StepExit == ASSUME IInv, NEW p \in Pods, Exit(p) PROVE IInv'
<1>1. /\ k' = [k EXCEPT !.woken = TRUE] /\ k \in KubeletState /\ (k.pc = "wait" => k = Waiting(k.woken))
      /\ EndProcess(p) /\ UNCHANGED <<pods, sandboxes, userWrites>> /\ failures' \in 0..MaxFailures
  BY KubeletAssumption DEF IInv, TypeOK, Exit, Failure
<1>2. /\ k' \in KubeletState
      /\ k'.pc = k.pc /\ k'.item = k.item /\ k'.todo = k.todo /\ k'.current = k.current
      /\ k'.pods = k.pods /\ k'.containers = k.containers
  BY <1>1 DEF KubeletState
<1>3. k'.pc = "wait" => k' = Waiting(k'.woken)
  BY <1>1, <1>2, StaysWaiting
<1>4. TypeOK'
  BY <1>1, <1>2, <1>3, ProcessEnds DEF IInv, TypeOK
<1>5. SandboxPerContainer' /\ NoOrphan'
  BY <1>1, ProcessEnds DEF IInv, SandboxPerContainer
<1>6. NotRunning'
  BY <1>1, <1>2, ProcessEnds DEF IInv, NotRunning
<1>7. (AtItem /\ InSandbox /\ StartsAssigned)'
  BY <1>1, <1>2 DEF IInv, AtItem, InSandbox, StartsAssigned
<1>8. Copies'
  BY <1>1, <1>2 DEF IInv, Copies, CopyOf
<1> QED
  BY <1>4, <1>5, <1>6, <1>7, <1>8 DEF IInv

LEMMA StepRestartNode == ASSUME IInv, RestartNode PROVE IInv'
<1>1. k' = Waiting(TRUE) /\ k' \in KubeletState /\ k' = Waiting(k'.woken)
  BY WaitingType DEF RestartNode
<1>2. /\ sandboxes' \in [Pods -> IPs \cup {None}] /\ containers' \in [Pods -> ContainerState]
      /\ live' \in [Pods -> Nat]
  BY DEF RestartNode, ContainerState
<1>3. UNCHANGED <<pods, userWrites>> /\ failures' \in 0..MaxFailures
  BY KubeletAssumption DEF IInv, TypeOK, RestartNode, Failure
<1>4. TypeOK'
  BY <1>1, <1>2, <1>3 DEF IInv, TypeOK
<1>5. (NoOrphan /\ SandboxPerContainer)'
  BY DEF RestartNode, NoOrphan, SandboxPerContainer
<1> QED
  BY <1>1, <1>4, <1>5, WaitingSafe DEF IInv

LEMMA StepWritePod ==
  ASSUME IInv, NEW p \in Pods, NEW x \in Pod \cup {None}, WritePod(p, x)
  PROVE  IInv'
<1>1. /\ k' = [k EXCEPT !.woken = TRUE, !.current = @ \ {p}]
      /\ k \in KubeletState /\ (k.pc = "wait" => k = Waiting(k.woken))
      /\ UNCHANGED <<sandboxes, containers, live, failures>> /\ userWrites' \in 0..MaxUserWrites
      /\ pods' = [pods EXCEPT ![p] = x]
  BY KubeletAssumption DEF IInv, TypeOK, WritePod, PodWritten
<1>2. /\ k' \in KubeletState
      /\ k'.pc = k.pc /\ k'.item = k.item /\ k'.todo = k.todo /\ k'.current = k.current \ {p}
      /\ k'.pods = k.pods /\ k'.containers = k.containers
  BY <1>1 DEF KubeletState
<1>3. k'.pc = "wait" => k' = Waiting(k'.woken)
  BY <1>1, <1>2, StaysWaiting
<1>4. TypeOK'
  BY <1>1, <1>2, <1>3 DEF IInv, TypeOK
<1>5. (NoOrphan /\ SandboxPerContainer /\ AtItem /\ NotRunning /\ InSandbox /\ StartsAssigned)'
  BY <1>1, <1>2 DEF IInv, NoOrphan, SandboxPerContainer, AtItem, NotRunning, InSandbox, StartsAssigned
<1>6. Copies'
  <2> SUFFICES ASSUME k.pc \in {"containers", "start"}, NEW q \in k.current, q # p PROVE CopyOf(q)'
    BY <1>2 DEF Copies
  <2>1. CopyOf(q) /\ pods'[q] = pods[q]
    BY <1>1 DEF IInv, TypeOK, KubeletState, Copies
  <2> QED
    BY <1>1, <1>2, <2>1 DEF CopyOf
<1> QED
  BY <1>4, <1>5, <1>6 DEF IInv

-----------------------------------------------------------------------------
(* The invariant and the theorems.                                         *)

LEMMA StepIInv == IInv /\ [Next]_vars => IInv'
<1> SUFFICES ASSUME IInv, [Next]_vars PROVE IInv'
  OBVIOUS
<1>1. ASSUME ReconcileFails PROVE IInv'
  BY <1>1, StepToWait DEF ReconcileFails, IInv, TypeOK
<1>2. ASSUME NEW p \in Pods, NoAddress(p) \/ NoImage(p) \/ StatusRefused(p) PROVE IInv'
  BY <1>1, <1>2 DEF NoAddress, NoImage, StatusRefused
<1>3. CASE Return
  BY <1>3, StepToWait DEF Return, IInv, TypeOK, KubeletState
<1>4. CASE CallFails
  <2>1. userWrites' \in 0..MaxUserWrites /\ failures' \in 0..MaxFailures
    BY <1>4, KubeletAssumption DEF CallFails, Failure, IInv, TypeOK
  <2> QED
    BY <1>4, <2>1, StepToWait DEF CallFails
<1>5. CASE UNCHANGED vars
  BY <1>5 DEF IInv, TypeOK, NoOrphan, SandboxPerContainer, AtItem, NotRunning, InSandbox, StartsAssigned,
              Copies, CopyOf, vars, world
<1>6. CASE KubeletStep
  BY <1>2, <1>3, <1>6, StepWake, StepListPods, StepListContainers, StepBeginStops, StepRunPodSandbox,
     StepRunInSandbox, StepUpdateStatus, StepStopContainer, StepStopPodSandbox DEF KubeletStep
<1> QED
  BY <1>4, <1>5, <1>6, StepRestartNode, StepExit, StepWritePod DEF Next

LEMMA Invariance == Spec => []IInv
BY InitIInv, StepIInv, PTL DEF Spec

(* The types of the node and of the kubelet, and a kubelet without copies  *)
(* between two turns.                                                      *)
THEOREM TypeCorrect == Spec => []TypeOK
BY Invariance, PTL DEF IInv

(* runInSandbox overwrites an entry of the runtime's map without a look;   *)
(* no order of exits, failures, writes and restarts makes the kubelet let  *)
(* it forget a running process.                                            *)
THEOREM NothingOrphaned == Spec => []NoOrphan
BY Invariance, PTL DEF IInv

(* A running container has its sandbox, and no two sandboxes an address,   *)
(* for the address cni's nextIP finds is one that no attachment has.       *)
THEOREM AddressesDistinct == Spec => []SandboxPerContainer
BY Invariance, PTL DEF IInv

(* updateStatus puts the whole object back; thanks to the resource version *)
(* it changes the status only, of a Pod that is there and bound here.      *)
THEOREM WritesStatusOnly == Spec => StatusOnly
<1> DEFINE Kept == \A p \in Pods : pods'[p] # pods[p] =>
             /\ pods[p] # None /\ pods[p].here
             /\ pods'[p] = [pods[p] EXCEPT !.running = TRUE, !.ip = pods'[p].ip]
             /\ pods'[p].ip \in {pods[p].ip, sandboxes[p]}
<1>1. IInv /\ [Next]_vars => [KubeletStep => Kept]_vars
  <2> SUFFICES ASSUME IInv, KubeletStep PROVE Kept
    OBVIOUS
  <2>1. ASSUME NEW p \in Pods, UpdateStatus(p) PROVE Kept
    <3>1. \A q \in Pods : pods'[q] = IF q = p THEN RunningCopy(p) ELSE pods[q]
      BY <2>1 DEF UpdateStatus, IInv, TypeOK
    <3> QED
      BY <2>1, <3>1, Reported, KubeletAssumption
  <2>2. ASSUME UNCHANGED pods PROVE Kept
    BY <2>2
  <2> QED
    BY <2>1, <2>2
    DEF KubeletStep, Wake, ListPods, ListContainers, BeginStops, Return, RunPodSandbox, NoAddress,
        RunInSandbox, NoImage, StatusRefused, StopContainer, StopPodSandbox, ReconcileFails, world
<1> QED
  BY <1>1, Invariance, PTL DEF Spec, StatusOnly

-----------------------------------------------------------------------------
(* A kubelet that rests has its node as the API server has it, and has     *)
(* said so, whatever was written or failed or ended during its turns.      *)
SettledAtRest ==
  k.pc = "wait" /\ ~k.woken =>
    /\ \A p \in Bound : containers[p] = "running" /\ pods[p].running
    /\ \A p \in Pods \ Bound : containers[p] # "running"

(* What a turn leaves. As long as nothing has woken the kubelet, its lists *)
(* are what is stored and what runs, and it has found nothing to do yet    *)
(* that it has done.                                                       *)
Undisturbed ==
  ~k.woken =>
    /\ k.pc \in {"containers", "start", "stop"} => k.pods = pods
    /\ k.pc \in {"start", "stop"} => k.containers = containers
    /\ k.pc = "start" => k.todo = ToStart(k.containers)
    /\ k.pc = "stop" => ToStart(k.containers) = {} /\ k.todo = Undesired

LEMMA StepUndisturbed ==
  ASSUME IInv, Undisturbed, SettledAtRest, [Next]_vars
  PROVE  Undisturbed' /\ SettledAtRest'
<1>1. k \in KubeletState
  BY DEF IInv, TypeOK
<1>2. ASSUME k'.woken PROVE Undisturbed' /\ SettledAtRest'
  BY <1>2 DEF Undisturbed, SettledAtRest
<1>3. CASE Wake
  <2>1. k'.pc = "pods"
    BY <1>1, <1>3 DEF Wake, KubeletState
  <2> QED
    BY <2>1 DEF Undisturbed, SettledAtRest
<1>4. CASE ListPods
  <2>1. k'.pc = "containers" /\ k'.pods = pods /\ pods' = pods
    BY <1>1, <1>4 DEF ListPods, KubeletState, world
  <2> QED
    BY <2>1 DEF Undisturbed, SettledAtRest
<1>5. CASE ListContainers
  <2>1. /\ k.pc = "containers" /\ k'.pc = "start" /\ k'.pods = k.pods /\ k'.woken = k.woken
        /\ k'.containers = containers /\ k'.todo = ToStart(containers) /\ UNCHANGED <<pods, containers>>
    BY <1>1, <1>5 DEF ListContainers, KubeletState, world
  <2> QED
    BY <2>1 DEF Undisturbed, SettledAtRest, ToStart, Assigned
<1>6. ASSUME NEW p \in Pods, RunPodSandbox(p), ~k'.woken PROVE Undisturbed' /\ SettledAtRest'
  <2>1. /\ k.pc = "start" /\ k'.pc = k.pc /\ k'.pods = k.pods /\ k'.woken = k.woken
        /\ k'.containers = k.containers /\ k'.todo = k.todo /\ UNCHANGED <<pods, containers>>
    BY <1>1, <1>6 DEF RunPodSandbox, Turn, KubeletState
  <2> QED
    BY <2>1 DEF Undisturbed, SettledAtRest, ToStart, Assigned
<1>7. CASE BeginStops
  <2>1. /\ k.pc = "start" /\ k.todo = {} /\ k'.pc = "stop" /\ k'.pods = k.pods /\ k'.woken = k.woken
        /\ k'.containers = k.containers /\ k'.todo = Undesired /\ UNCHANGED <<pods, containers>>
    BY <1>1, <1>7 DEF BeginStops, KubeletState, world
  <2> QED
    BY <2>1 DEF Undisturbed, SettledAtRest, ToStart, Assigned, Undesired
<1>8. CASE Return
  <2>1. /\ k.pc = "stop" /\ k.todo = {} /\ k'.pc = "wait" /\ k'.woken = k.woken
        /\ UNCHANGED <<pods, containers>>
    BY <1>8 DEF Return, Waiting, world
  <2>2. ASSUME ~k.woken
        PROVE  /\ \A p \in Bound : containers[p] = "running" /\ pods[p].running
               /\ \A p \in Pods \ Bound : containers[p] # "running"
    <3>1. k.pods = pods /\ k.containers = containers /\ ToStart(containers) = {} /\ Undesired = {}
      BY <2>1, <2>2 DEF Undisturbed
    <3>2. Assigned = Bound
      BY <3>1 DEF Assigned, Bound
    <3> QED
      BY <3>1, <3>2 DEF ToStart, Undesired, Bound
  <2> QED
    BY <2>1, <2>2 DEF Undisturbed, SettledAtRest, Bound
<1>9. ASSUME NEW p \in Pods, RunInSandbox(p) \/ StopContainer(p) \/ StopPodSandbox(p) \/ Exit(p)
      PROVE  k'.woken
  BY <1>1, <1>9 DEF RunInSandbox, StopContainer, StopPodSandbox, Exit, KubeletState
<1>10. ASSUME NEW p \in Pods, UpdateStatus(p) \/ \E x \in Pod \cup {None} : WritePod(p, x)
       PROVE  k'.woken
  BY <1>1, <1>10 DEF UpdateStatus, WritePod, PodWritten, KubeletState
<1>11. ASSUME NEW p \in Pods, NoAddress(p) \/ NoImage(p) \/ StatusRefused(p)
       PROVE  k'.woken
  BY <1>11 DEF NoAddress, NoImage, StatusRefused, ReconcileFails, Waiting
<1>12. ASSUME CallFails \/ RestartNode PROVE k'.woken
  BY <1>12 DEF CallFails, RestartNode, Waiting
<1>13. CASE UNCHANGED vars
  BY <1>13 DEF vars, world, Undisturbed, SettledAtRest, ToStart, Assigned, Undesired, Bound
<1> QED
  BY <1>2, <1>3, <1>4, <1>5, <1>6, <1>7, <1>8, <1>9, <1>10, <1>11, <1>12, <1>13 DEF Next, KubeletStep

(* When the kubelet goes to sleep, or sleeps, the containers that run are  *)
(* those of the Pods bound to its node, and their status says so: a failed *)
(* or refused call, a container that ended and a write that came too late  *)
(* for its lists all leave it with a wake-up. The safety part of Settles;  *)
(* Pods that cannot be started need no exception here, for they keep the   *)
(* kubelet from resting.                                                   *)
THEOREM RestsWhenSettled == Spec => []SettledAtRest
<1>1. Init => Undisturbed /\ SettledAtRest
  BY DEF Init, Waiting, Undisturbed, SettledAtRest
<1> QED
  BY <1>1, Invariance, StepUndisturbed, PTL DEF Spec
=============================================================================
