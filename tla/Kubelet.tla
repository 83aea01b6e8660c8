------------------------------ MODULE Kubelet ------------------------------
(***************************************************************************)
(* The kubelet of a worker, the CRI runtime and the CNI plugin it drives,  *)
(* and the Pod objects it shares with users and the scheduler. The         *)
(* manifest directory of the node is empty.                                *)
(*                                                                         *)
(* A Reconcile lists the Pods and the containers, keeps its copies, and    *)
(* makes one call per step, to the runtime or to the API server. As in     *)
(* ControllerManager, the kubelet knows which copies nobody has overtaken, *)
(* and a change since it opened its watches wakes it.                      *)
(***************************************************************************)
EXTENDS Integers

CONSTANTS
  Pods,           \* metadata.name of Pods
  Broken,         \* the Pods whose container cannot be started: no such image
  NumIPs,         \* how many addresses the CNI plugin can give out
  None,           \* no object, no address
  MaxUserWrites,  \* bound: writes of Pods by users and the scheduler
  MaxFailures     \* bound: failed calls, exits of containers, node restarts

IPs == 1..NumIPs

(* here: bound to this node. running: status.phase is Running.             *)
Pod == [here : BOOLEAN, running : BOOLEAN, ip : IPs \cup {None}]

ASSUME KubeletAssumption ==
  /\ Broken \subseteq Pods
  /\ NumIPs \in Nat /\ MaxUserWrites \in Nat /\ MaxFailures \in Nat
  /\ None \notin Pods /\ None \notin IPs /\ None \notin Pod

VARIABLES
  pods,         \* [Pods -> Pod \cup {None}]: the stored objects
  sandboxes,    \* [Pods -> IPs \cup {None}]: the Pod's sandbox, by its address
  containers,   \* [Pods -> ContainerState]: what the runtime's map says
  live,         \* [Pods -> Nat]: processes of the Pod's container, also those
                \* the runtime's map has forgotten
  k,            \* the kubelet: pc, wake-up and copies
  userWrites, failures

world == <<pods, sandboxes, containers, live>>
vars == <<world, k, userWrites, failures>>

ContainerState == {"none", "running", "stopped"}

KubeletState ==
  [pc : {"wait", "pods", "containers", "start", "stop"}, woken : BOOLEAN,
   pods : [Pods -> Pod \cup {None}], current : SUBSET Pods, containers : [Pods -> ContainerState],
   todo : SUBSET Pods, item : Pods \cup {None}]

Waiting(woken) ==
  [pc |-> "wait", woken |-> woken, pods |-> [p \in Pods |-> None], current |-> {},
   containers |-> [p \in Pods |-> "none"], todo |-> {}, item |-> None]

Init ==
  /\ pods = [p \in Pods |-> None]
  /\ sandboxes = [p \in Pods |-> None]
  /\ containers = [p \in Pods |-> "none"]
  /\ live = [p \in Pods |-> 0]
  /\ k = Waiting(TRUE)
  /\ userWrites = 0 /\ failures = 0

(* What the write of Pod p does to the kubelet's watch and copies.         *)
PodWritten(state, p) == [state EXCEPT !.woken = TRUE, !.current = @ \ {p}]

(* The Reconcile returns an error; its retry timer is as good as a wake-up.*)
ReconcileFails == k' = Waiting(TRUE) /\ UNCHANGED <<world, userWrites, failures>>

-----------------------------------------------------------------------------
(* Kubelet.Reconcile: the lists.                                           *)

Wake ==
  /\ k.pc = "wait" /\ k.woken
  /\ k' = [k EXCEPT !.pc = "pods", !.woken = FALSE]
  /\ UNCHANGED <<world, userWrites, failures>>

ListPods ==
  /\ k.pc = "pods"
  /\ k' = [k EXCEPT !.pc = "containers", !.pods = pods, !.current = {p \in Pods : pods[p] # None}]
  /\ UNCHANGED <<world, userWrites, failures>>

(* assignedPods, of the copies.                                            *)
Assigned == {p \in Pods : k.pods[p] # None /\ k.pods[p].here}

(* The Pods the first loop has something to do for. Fault: a container     *)
(* that ended is not started again.                                        *)
ToStartMissing(listed) == {p \in Assigned : listed[p] = "none"}
ToStart(listed) == {p \in Assigned : listed[p] # "running" \/ ~k.pods[p].running}

(* Fault: a container counts only if its Pod's status says Running.        *)
ListReported ==
  /\ k.pc = "containers"
  /\ LET listed == [p \in Pods |-> IF k.pods[p] # None /\ k.pods[p].running THEN containers[p] ELSE "none"]
     IN k' = [k EXCEPT !.pc = "start", !.containers = listed, !.todo = ToStart(listed)]
  /\ UNCHANGED <<world, userWrites, failures>>

ListContainers ==
  /\ k.pc = "containers"
  /\ k' = [k EXCEPT !.pc = "start", !.containers = containers, !.todo = ToStart(containers)]
  /\ UNCHANGED <<world, userWrites, failures>>

-----------------------------------------------------------------------------
(* The first loop, in any order of the Pods: runPod where no container     *)
(* runs, then updateStatus.                                                *)

Turn(pc, p) == k.pc = pc /\ p \in k.todo /\ k.item \in {p, None}
MustRun(p) == k.containers[p] # "running"

(* cni nextIP: the lowest address no attachment has. Fault: it counts only *)
(* the sandboxes with a running container.                                 *)
FreeIPsBesideRunning == IPs \ {sandboxes[p] : p \in {q \in Pods : containers[q] = "running"}}
FreeIPs == IPs \ {sandboxes[p] : p \in Pods}
NextIP(ip) == ip \in FreeIPs /\ \A other \in FreeIPs : ip <= other

(* The running sandbox of that name, or a new one with an address.         *)
RunPodSandbox(p) ==
  /\ Turn("start", p) /\ MustRun(p) /\ k.item = None
  /\ \/ sandboxes[p] # None /\ k' = [k EXCEPT !.item = p] /\ UNCHANGED sandboxes
     \/ /\ sandboxes[p] = None
        /\ \E ip \in IPs : NextIP(ip) /\ sandboxes' = [sandboxes EXCEPT ![p] = ip]
        /\ k' = [k EXCEPT !.item = p, !.woken = TRUE]
  /\ UNCHANGED <<pods, containers, live, userWrites, failures>>

NoAddress(p) ==
  /\ Turn("start", p) /\ MustRun(p) /\ k.item = None
  /\ sandboxes[p] = None /\ FreeIPs = {}
  /\ ReconcileFails

(* A new process, and its entry in the map in place of the old one.        *)
RunInSandbox(p) ==
  /\ Turn("start", p) /\ MustRun(p) /\ k.item = p /\ p \notin Broken
  /\ containers' = [containers EXCEPT ![p] = "running"]
  /\ live' = [live EXCEPT ![p] = @ + 1]
  /\ k' = [k EXCEPT !.containers[p] = "running", !.pods[p].ip = sandboxes[p], !.woken = TRUE]
  /\ UNCHANGED <<pods, sandboxes, userWrites, failures>>

NoImage(p) ==
  /\ Turn("start", p) /\ MustRun(p) /\ k.item = p /\ p \in Broken
  /\ ReconcileFails

(* PUT of the whole copy, refused with 409 when it was overtaken. Fault:   *)
(* refused only when the Pod is gone.                                      *)
StatusAcceptedBlindly(p) == pods[p] # None
StatusAccepted(p) == p \in k.current
RunningCopy(p) == [k.pods[p] EXCEPT !.running = TRUE]

UpdateStatus(p) ==
  /\ Turn("start", p) /\ ~MustRun(p) /\ StatusAccepted(p)
  /\ pods' = [pods EXCEPT ![p] = RunningCopy(p)]
  /\ k' = [PodWritten(k, p) EXCEPT !.todo = @ \ {p}, !.item = None]
  /\ UNCHANGED <<sandboxes, containers, live, userWrites, failures>>

StatusRefused(p) ==
  /\ Turn("start", p) /\ ~MustRun(p) /\ ~StatusAccepted(p)
  /\ ReconcileFails

-----------------------------------------------------------------------------
(* The second loop: the containers listed as running whose Pod is not      *)
(* assigned.                                                               *)

Undesired == {p \in Pods \ Assigned : k.containers[p] = "running"}

BeginStops ==
  /\ k.pc = "start" /\ k.todo = {}
  /\ k' = [k EXCEPT !.pc = "stop", !.todo = Undesired]
  /\ UNCHANGED <<world, userWrites, failures>>

(* SIGTERM to the process the map knows, and the wait for its end.         *)
EndProcess(p) ==
  /\ containers' = [containers EXCEPT ![p] = IF @ = "running" THEN "stopped" ELSE @]
  /\ live' = IF containers[p] = "running" THEN [live EXCEPT ![p] = @ - 1] ELSE live

StopContainer(p) ==
  /\ Turn("stop", p) /\ k.item = None
  /\ EndProcess(p)
  /\ k' = [k EXCEPT !.item = p, !.woken = TRUE]
  /\ UNCHANGED <<pods, sandboxes, userWrites, failures>>

StopPodSandbox(p) ==
  /\ Turn("stop", p) /\ k.item = p
  /\ EndProcess(p)
  /\ sandboxes' = [sandboxes EXCEPT ![p] = None]
  /\ k' = [k EXCEPT !.todo = @ \ {p}, !.item = None, !.woken = TRUE]
  /\ UNCHANGED <<pods, userWrites, failures>>

(* Fault: the copies are kept for the next turn.                           *)
ReturnWithCopies ==
  /\ k.pc = "stop" /\ k.todo = {}
  /\ k' = [k EXCEPT !.pc = "wait"]
  /\ UNCHANGED <<world, userWrites, failures>>

Return ==
  /\ k.pc = "stop" /\ k.todo = {}
  /\ k' = Waiting(k.woken)
  /\ UNCHANGED <<world, userWrites, failures>>

-----------------------------------------------------------------------------
(* What goes wrong.                                                        *)

Failure == failures < MaxFailures /\ failures' = failures + 1 /\ UNCHANGED userWrites

(* A call fails, or the answer to the call before was lost.                *)
CallFails ==
  /\ Failure
  /\ k.pc # "wait" /\ k' = Waiting(TRUE)
  /\ UNCHANGED world

(* A container ends by itself: waitForContainer and its event.             *)
Exit(p) ==
  /\ Failure
  /\ containers[p] = "running"
  /\ EndProcess(p)
  /\ k' = [k EXCEPT !.woken = TRUE]
  /\ UNCHANGED <<pods, sandboxes>>

(* The supervisor stops runtime and kubelet together; the node is started  *)
(* again with nothing running.                                             *)
RestartNode ==
  /\ Failure
  /\ sandboxes' = [p \in Pods |-> None]
  /\ containers' = [p \in Pods |-> "none"]
  /\ live' = [p \in Pods |-> 0]
  /\ k' = Waiting(TRUE)
  /\ UNCHANGED pods

-----------------------------------------------------------------------------
(* Users and the scheduler: a Pod is created, bound or not, with an empty  *)
(* status; bound or moved, or written again, with the status it has;       *)
(* deleted.                                                                *)
Written(p) ==
  IF pods[p] = None THEN [here : BOOLEAN, running : {FALSE}, ip : {None}]
                    ELSE {None} \cup {[pods[p] EXCEPT !.here = b] : b \in BOOLEAN}

WritePod(p, x) ==
  /\ userWrites < MaxUserWrites /\ userWrites' = userWrites + 1
  /\ x \in Written(p)
  /\ pods' = [pods EXCEPT ![p] = x]
  /\ k' = PodWritten(k, p)
  /\ UNCHANGED <<sandboxes, containers, live, failures>>

-----------------------------------------------------------------------------
KubeletStep ==
  \/ Wake \/ ListPods \/ ListContainers \/ BeginStops \/ Return
  \/ \E p \in Pods :
       \/ RunPodSandbox(p) \/ NoAddress(p) \/ RunInSandbox(p) \/ NoImage(p)
       \/ UpdateStatus(p) \/ StatusRefused(p)
       \/ StopContainer(p) \/ StopPodSandbox(p)

Next ==
  \/ KubeletStep \/ CallFails \/ RestartNode
  \/ \E p \in Pods : Exit(p) \/ \E x \in Pod \cup {None} : WritePod(p, x)

Spec == Init /\ [][Next]_vars

(* The runtime and the API server answer, and the retry timer fires.       *)
FairSpec == Spec /\ WF_vars(KubeletStep)

-----------------------------------------------------------------------------
(* Types; a kubelet that waits holds no copies.                            *)
TypeOK ==
  /\ pods \in [Pods -> Pod \cup {None}]
  /\ sandboxes \in [Pods -> IPs \cup {None}]
  /\ containers \in [Pods -> ContainerState]
  /\ live \in [Pods -> Nat]
  /\ k \in KubeletState /\ (k.pc = "wait" => k = Waiting(k.woken))
  /\ userWrites \in 0..MaxUserWrites
  /\ failures \in 0..MaxFailures

(* No process is forgotten: the runtime's map has room for one container   *)
(* per Pod name, and RunInSandbox overwrites the entry without a look. The *)
(* kubelet, on lists that are out of date by then, never makes it          *)
(* overwrite a running container.                                          *)
NoOrphan == \A p \in Pods : live[p] = IF containers[p] = "running" THEN 1 ELSE 0

(* A running container has its sandbox, and no two sandboxes an address.   *)
SandboxPerContainer ==
  /\ \A p \in Pods : containers[p] = "running" => sandboxes[p] # None
  /\ \A p, q \in Pods : sandboxes[p] = sandboxes[q] /\ sandboxes[p] # None => p = q

(* The kubelet writes the status of a Pod that exists and is bound to this *)
(* node at that moment, nothing else of it, and no address but the one the *)
(* Pod's sandbox has: a late status does not bring back or move a Pod.     *)
StatusOnly ==
  [][KubeletStep => \A p \in Pods : pods'[p] # pods[p] =>
       /\ pods[p] # None /\ pods[p].here
       /\ pods'[p] = [pods[p] EXCEPT !.running = TRUE, !.ip = pods'[p].ip]
       /\ pods'[p].ip \in {pods[p].ip, sandboxes[p]}]_vars

(* Two things keep the kubelet from its work for good: a Pod bound to the  *)
(* node without an image, and one for which no address is left.            *)
Bound == {p \in Pods : pods[p] # None /\ pods[p].here}
Startable == \A p \in Bound : p \notin Broken /\ (sandboxes[p] # None \/ FreeIPs # {})

(* Apart from these, when users and failures stop: a container runs, and   *)
(* is reported, for the Pods bound to the node and no others; and the      *)
(* kubelet rests, whose own writes and calls wake it.                      *)
Settles ==
  <>[](Startable => /\ \A p \in Bound : containers[p] = "running" /\ pods[p].running
                    /\ \A p \in Pods \ Bound : containers[p] # "running"
                    /\ k = Waiting(FALSE))

(* docs/architecture.md, of the Pod lifecycle: after deletion of the Pod   *)
(* as well as after the end of the process, the sandbox is stopped and its *)
(* address given back.                                                     *)
SandboxesReleased ==
  <>[](\A p \in Pods : pods[p] = None => sandboxes[p] = None)
=============================================================================
