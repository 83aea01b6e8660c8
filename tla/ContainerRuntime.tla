-------------------------- MODULE ContainerRuntime --------------------------
(***************************************************************************)
(* What a kubelet may take for granted of the CRI runtime, and the modules *)
(* Kubelet and StaticPods do: its calls take effect in one step each, a    *)
(* container is the only one of its Pod and goes before its sandbox, and   *)
(* whatever changes, the kubelet will look again.                          *)
(***************************************************************************)
CONSTANTS Pods

VARIABLES
  containers,  \* [Pods -> {"none", "running", "stopped"}]: what List returns
  sandboxes,   \* the Pods that have one
  woken,       \* the kubelet has been, or will be, told of a change
  looking      \* it has opened its watch and is about to list

vars == <<containers, sandboxes, woken, looking>>

Init == containers = [p \in Pods |-> "none"] /\ sandboxes = {} /\ woken = TRUE /\ looking = FALSE

RunPodSandbox(p) ==
  /\ p \notin sandboxes /\ sandboxes' = sandboxes \cup {p}
  /\ woken' = TRUE
  /\ UNCHANGED <<containers, looking>>

RunInSandbox(p) ==
  /\ p \in sandboxes /\ containers[p] # "running"
  /\ containers' = [containers EXCEPT ![p] = "running"]
  /\ woken' = TRUE
  /\ UNCHANGED <<sandboxes, looking>>

(* By itself, or because it was stopped.                                   *)
ContainerEnds(p) ==
  /\ containers[p] = "running"
  /\ containers' = [containers EXCEPT ![p] = "stopped"]
  /\ woken' = TRUE
  /\ UNCHANGED <<sandboxes, looking>>

StopPodSandbox(p) ==
  /\ p \in sandboxes /\ containers[p] # "running"
  /\ sandboxes' = sandboxes \ {p}
  /\ woken' = TRUE
  /\ UNCHANGED <<containers, looking>>

(* The kubelet is woken by something else, or a call of it fails.          *)
Wake ==
  /\ woken' = TRUE /\ looking' \in {looking, FALSE}
  /\ UNCHANGED <<containers, sandboxes>>

(* Nothing but a new watch makes up for what it was woken for.             *)
OpenWatch ==
  /\ woken /\ ~looking
  /\ woken' \in BOOLEAN /\ looking' = TRUE
  /\ UNCHANGED <<containers, sandboxes>>

List == looking /\ looking' = FALSE /\ UNCHANGED <<containers, sandboxes, woken>>

Next ==
  \/ Wake \/ OpenWatch \/ List
  \/ \E p \in Pods : RunPodSandbox(p) \/ RunInSandbox(p) \/ ContainerEnds(p) \/ StopPodSandbox(p)

Spec == Init /\ [][Next]_vars
=============================================================================
