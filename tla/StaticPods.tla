---------------------------- MODULE StaticPods -----------------------------
(***************************************************************************)
(* The kubelet's local Pods: the manifests of its directory, the           *)
(* containers it runs for them, and the mirror Pods that show them in the  *)
(* API server. On the control plane the API server and etcd are static     *)
(* Pods themselves, so that what the kubelet lists and watches is served   *)
(* by what it starts.                                                      *)
(*                                                                         *)
(* A step is one call, to the runtime or to the API server. No Pod of the  *)
(* API server is bound to this node: run.sh does not register it as Node.  *)
(***************************************************************************)
EXTENDS Integers

CONSTANTS
  NumPods,      \* how many static Pods there can be, in the order of files
  ApiPods,      \* those without which the API server does not answer
  StorePods,    \* those that hold its objects: etcd
  Specs,        \* what reconcileMirrorPods compares: spec and annotations
  Labels,       \* what it does not: the labels, and of a mirror its status
  Versions,     \* contents of a manifest or of a mirror
  Invalid,      \* a manifest that cannot be decoded, half written say
  Foreign,      \* a Pod with a mirror's name that is no mirror
  None,
  MaxWrites,    \* bound: writes of manifests and of objects by users
  MaxFailures   \* bound: failed calls and exits of containers

Names == 1..NumPods

ASSUME StaticPodsAssumption ==
  /\ NumPods \in Nat /\ MaxWrites \in Nat /\ MaxFailures \in Nat
  /\ StorePods \subseteq ApiPods /\ ApiPods \subseteq Names
  /\ Versions \subseteq [spec : Specs, labels : Labels]
  /\ Invalid \notin Versions /\ Foreign \notin Versions /\ None \notin Versions
  /\ Invalid # Foreign /\ Invalid # None /\ Foreign # None

VARIABLES
  hasClient,    \* the kubelet was given the URL of an API server; constant
  manifests,    \* [Names -> Versions \cup {Invalid, None}]: the directory
  sandboxes,    \* the Pods with a sandbox of source staticPod
  running,      \* [Names -> Versions \cup {None}]: the manifest version the
                \* Pod's running container was started from
  apiReady,     \* the API server answers
  mirrors,      \* [Names -> Versions \cup {Foreign, None}]: the stored Pods
                \* with the mirrors' names
  k,            \* the kubelet: pc, wake-up and copies
  kept,         \* history: the Pods whose container was running when the
                \* kubelet read another version of their manifest
  writes, failures

world == <<manifests, sandboxes, running, apiReady, mirrors>>
vars == <<hasClient, world, k, kept, writes, failures>>

Copy == [Names -> Versions \cup {None}]
Nothing == [n \in Names |-> None]

(* booting: Run reflects the manifests once before it opens any watch.     *)
(* loaded: the manifests as LoadStaticPods last returned them.             *)
KubeletState ==
  [pc : {"watch", "load", "containers", "sandboxes", "start", "stop",
         "mirrors", "write", "delete", "pods", "wait", "exited"},
   booting : BOOLEAN, woken : BOOLEAN, loaded : Copy, running : Copy,
   sandboxes : SUBSET Names, mirrors : Copy, current : SUBSET Names, todo : SUBSET Names]

Booting ==
  [pc |-> "load", booting |-> TRUE, woken |-> FALSE, loaded |-> Nothing, running |-> Nothing,
   sandboxes |-> {}, mirrors |-> Nothing, current |-> {}, todo |-> {}]

(* The node starts with nothing running, and etcd with nothing stored.     *)
Init ==
  /\ hasClient \in BOOLEAN
  /\ manifests \in [Names -> Versions \cup {None}]
  /\ sandboxes = {} /\ running = Nothing
  /\ apiReady = FALSE /\ mirrors = Nothing
  /\ k = Booting /\ kept = {}
  /\ writes = 0 /\ failures = 0

First(n, S) == n \in S /\ \A m \in S : n <= m
Desired == {n \in Names : k.loaded[n] # None}

(* The Reconcile is over: the copies are dropped, and so is the list of    *)
(* what is to be done. Fault: and an event that came in the meantime.      *)
FinishedUnwoken(pc) ==
  [k EXCEPT !.pc = pc, !.booting = FALSE, !.woken = FALSE, !.running = Nothing, !.sandboxes = {},
            !.mirrors = Nothing, !.current = {}, !.todo = {}]
Finished(pc) ==
  [k EXCEPT !.pc = pc, !.booting = FALSE, !.running = Nothing, !.sandboxes = {},
            !.mirrors = Nothing, !.current = {}, !.todo = {}]

(* It failed: an error before the loop ends the process, one in the loop   *)
(* is retried from the top, where the watches are opened.                  *)
Fails == k' = Finished(IF k.booting THEN "exited" ELSE "watch")

-----------------------------------------------------------------------------
(* api.Run and the watches: Pods and runtime with an API server, manifests *)
(* and runtime without.                                                    *)

WatchesManifests == ~hasClient

OpenWatches ==
  /\ k.pc = "watch" /\ (hasClient => apiReady)
  /\ k' = [k EXCEPT !.pc = "load", !.woken = FALSE]
  /\ UNCHANGED <<hasClient, world, kept, writes, failures>>

Wake ==
  /\ k.pc = "wait" /\ k.woken
  /\ k' = [k EXCEPT !.pc = "watch"]
  /\ UNCHANGED <<hasClient, world, kept, writes, failures>>

-----------------------------------------------------------------------------
(* LoadStaticPods and ReconcileStaticPods.                                 *)

LoadManifests ==
  /\ k.pc = "load"
  /\ IF \E n \in Names : manifests[n] = Invalid
       THEN Fails /\ UNCHANGED kept
       ELSE /\ k' = [k EXCEPT !.pc = "containers", !.loaded = manifests]
            /\ kept' = {n \in Names : running[n] # None /\ running[n] # manifests[n]}
  /\ UNCHANGED <<hasClient, world, writes, failures>>

ListContainers ==
  /\ k.pc = "containers"
  /\ k' = [k EXCEPT !.pc = "sandboxes", !.running = running]
  /\ UNCHANGED <<hasClient, world, kept, writes, failures>>

(* Fault: a container of another version is replaced without being stopped.*)
MustRunUpdated(n) == k.running[n] # k.loaded[n]
MustRun(n) == k.running[n] = None

ListSandboxes ==
  /\ k.pc = "sandboxes"
  /\ k' = [k EXCEPT !.pc = "start", !.sandboxes = sandboxes,
                    !.todo = {n \in Desired : n \notin sandboxes \/ MustRun(n)}]
  /\ UNCHANGED <<hasClient, world, kept, writes, failures>>

(* A new sandbox, in which no listed container is.                         *)
RunPodSandbox(n) ==
  /\ k.pc = "start" /\ First(n, k.todo) /\ n \notin k.sandboxes
  /\ sandboxes' = sandboxes \cup {n}
  /\ k' = [k EXCEPT !.sandboxes = @ \cup {n}, !.running[n] = None, !.woken = TRUE]
  /\ UNCHANGED <<hasClient, manifests, running, apiReady, mirrors, kept, writes, failures>>

RunInSandbox(n) ==
  /\ k.pc = "start" /\ First(n, k.todo) /\ n \in k.sandboxes /\ MustRun(n)
  /\ running' = [running EXCEPT ![n] = k.loaded[n]]
  /\ k' = [k EXCEPT !.todo = @ \ {n}, !.woken = TRUE]
  /\ UNCHANGED <<hasClient, manifests, sandboxes, apiReady, mirrors, kept, writes, failures>>

BeginStops ==
  /\ k.pc = "start" /\ k.todo = {}
  /\ k' = [k EXCEPT !.pc = "stop", !.todo = k.sandboxes \ Desired]
  /\ UNCHANGED <<hasClient, world, kept, writes, failures>>

(* Container n ends. Its root file system is a copy that is removed with   *)
(* it, and what etcd stored is in there.                                   *)
EndContainer(n) ==
  /\ running' = [running EXCEPT ![n] = None]
  /\ kept' = kept \ {n}
  /\ apiReady' = (apiReady /\ n \notin ApiPods)
  /\ mirrors' = IF n \in StorePods THEN Nothing ELSE mirrors

StopPodSandbox(n) ==
  /\ k.pc = "stop" /\ n \in k.todo
  /\ sandboxes' = sandboxes \ {n}
  /\ EndContainer(n)
  /\ k' = [k EXCEPT !.todo = @ \ {n}, !.woken = TRUE]
  /\ UNCHANGED <<hasClient, manifests, writes, failures>>

(* Fault: the copies of the first time are kept for the loop.              *)
StaticDoneWithCopies ==
  /\ k.pc = "stop" /\ k.todo = {}
  /\ k' = IF k.booting THEN [k EXCEPT !.pc = "watch", !.booting = FALSE]
          ELSE IF hasClient THEN [k EXCEPT !.pc = "mirrors"]
          ELSE Finished("wait")
  /\ UNCHANGED <<hasClient, world, kept, writes, failures>>

StaticDone ==
  /\ k.pc = "stop" /\ k.todo = {}
  /\ k' = IF k.booting THEN Finished("watch")
          ELSE IF hasClient THEN [k EXCEPT !.pc = "mirrors"]
          ELSE Finished("wait")
  /\ UNCHANGED <<hasClient, world, kept, writes, failures>>

-----------------------------------------------------------------------------
(* reconcileMirrorPods, then the workload part of Reconcile, which lists   *)
(* Pods and containers and finds nothing of its own to do.                 *)

(* The mirrors among the listed Pods, by their annotation.                 *)
MirrorsListed == [n \in Names |-> IF mirrors[n] = Foreign THEN None ELSE mirrors[n]]

(* The mirrors to be written: those that are missing or differ in what is  *)
(* compared. Fault: existing ones are left as they are.                    *)
MissingMirrors(listed) == {n \in Desired : listed[n] = None}
OutdatedMirrors(listed) ==
  {n \in Desired : listed[n] = None \/ listed[n].spec # k.loaded[n].spec}

ListMirrors ==
  /\ k.pc = "mirrors" /\ apiReady
  /\ k' = [k EXCEPT !.pc = "write", !.mirrors = MirrorsListed,
                    !.current = {n \in Names : mirrors[n] \notin {Foreign, None}},
                    !.todo = OutdatedMirrors(MirrorsListed)]
  /\ UNCHANGED <<hasClient, world, kept, writes, failures>>

(* POST is refused when the name is taken; PUT and DELETE when the mirror  *)
(* was written or deleted since it was listed. Fault: only when it is gone.*)
AcceptedIfStored(n) == IF k.mirrors[n] = None THEN mirrors[n] = None ELSE mirrors[n] # None
Accepted(n) == IF k.mirrors[n] = None THEN mirrors[n] = None ELSE n \in k.current

WriteMirror(n) ==
  /\ k.pc = "write" /\ First(n, k.todo) /\ apiReady
  /\ IF Accepted(n)
       THEN /\ mirrors' = [mirrors EXCEPT ![n] = k.loaded[n]]
            /\ k' = [k EXCEPT !.todo = @ \ {n}, !.current = @ \ {n}, !.woken = TRUE]
       ELSE Fails /\ UNCHANGED mirrors
  /\ UNCHANGED <<hasClient, manifests, sandboxes, running, apiReady, kept, writes, failures>>

BeginDeletes ==
  /\ k.pc = "write" /\ k.todo = {}
  /\ k' = [k EXCEPT !.pc = "delete", !.todo = {n \in Names \ Desired : k.mirrors[n] # None}]
  /\ UNCHANGED <<hasClient, world, kept, writes, failures>>

(* A DELETE that is refused finds nothing of that version: that is fine.   *)
DeleteMirror(n) ==
  /\ k.pc = "delete" /\ n \in k.todo /\ apiReady
  /\ mirrors' = IF Accepted(n) THEN [mirrors EXCEPT ![n] = None] ELSE mirrors
  /\ k' = [k EXCEPT !.todo = @ \ {n}, !.current = @ \ {n}, !.woken = @ \/ Accepted(n)]
  /\ UNCHANGED <<hasClient, manifests, sandboxes, running, apiReady, kept, writes, failures>>

MirrorsDone ==
  /\ k.pc = "delete" /\ k.todo = {}
  /\ k' = [k EXCEPT !.pc = "pods"]
  /\ UNCHANGED <<hasClient, world, kept, writes, failures>>

ListPods ==
  /\ k.pc = "pods" /\ apiReady
  /\ k' = Finished("wait")
  /\ UNCHANGED <<hasClient, world, kept, writes, failures>>

(* A call to an API server that does not answer.                           *)
NoAnswer ==
  /\ ~apiReady
  /\ \/ k.pc \in {"mirrors", "pods"}
     \/ k.pc \in {"write", "delete"} /\ k.todo # {}
  /\ Fails
  /\ UNCHANGED <<hasClient, world, kept, writes, failures>>

-----------------------------------------------------------------------------
(* What goes wrong, and what users do.                                     *)

Failure == failures < MaxFailures /\ failures' = failures + 1 /\ UNCHANGED <<hasClient, writes>>

(* A call fails, or the answer to the call before was lost.                *)
CallFails ==
  /\ Failure
  /\ k.pc \notin {"watch", "wait", "exited"} /\ Fails
  /\ UNCHANGED <<world, kept>>

(* The event of the runtime and, if it was the API server, the end of the  *)
(* Pod watch wake the kubelet.                                             *)
Exit(n) ==
  /\ Failure
  /\ running[n] # None /\ EndContainer(n)
  /\ k' = [k EXCEPT !.woken = TRUE, !.current = IF n \in StorePods THEN {} ELSE @]
  /\ UNCHANGED <<manifests, sandboxes>>

(* The API server listens, some time after its containers started.         *)
ApiComesUp ==
  /\ ~apiReady /\ \A n \in ApiPods : running[n] # None
  /\ apiReady' = TRUE
  /\ UNCHANGED <<hasClient, manifests, sandboxes, running, mirrors, k, kept, writes, failures>>

UserWrites == writes < MaxWrites /\ writes' = writes + 1 /\ UNCHANGED <<hasClient, kept, failures>>

(* inotify reports it only to a kubelet that watches the directory.        *)
WriteManifest(n, x) ==
  /\ UserWrites
  /\ x # manifests[n] /\ manifests' = [manifests EXCEPT ![n] = x]
  /\ k' = [k EXCEPT !.woken = @ \/ WatchesManifests]
  /\ UNCHANGED <<sandboxes, running, apiReady, mirrors>>

(* A user changes, deletes or creates the Pod with the name of a mirror.   *)
WriteObject(n, x) ==
  /\ UserWrites
  /\ hasClient /\ apiReady
  /\ x # mirrors[n] /\ mirrors' = [mirrors EXCEPT ![n] = x]
  /\ k' = [k EXCEPT !.woken = TRUE, !.current = @ \ {n}]
  /\ UNCHANGED <<manifests, sandboxes, running, apiReady>>

(* Any other Pod of the cluster is written.                                *)
WriteOtherPod ==
  /\ UserWrites
  /\ hasClient /\ apiReady
  /\ k' = [k EXCEPT !.woken = TRUE]
  /\ UNCHANGED world

-----------------------------------------------------------------------------
KubeletStep ==
  \/ OpenWatches \/ Wake
  \/ LoadManifests \/ ListContainers \/ ListSandboxes \/ BeginStops \/ StaticDone
  \/ ListMirrors \/ BeginDeletes \/ MirrorsDone \/ ListPods \/ NoAnswer
  \/ \E n \in Names :
       \/ RunPodSandbox(n) \/ RunInSandbox(n) \/ StopPodSandbox(n)
       \/ WriteMirror(n) \/ DeleteMirror(n)

Next ==
  \/ KubeletStep \/ ApiComesUp \/ CallFails \/ WriteOtherPod
  \/ \E n \in Names :
       \/ Exit(n)
       \/ \E x \in Versions \cup {Invalid, None} : WriteManifest(n, x)
       \/ \E x \in Versions \cup {Foreign, None} : WriteObject(n, x)

Spec == Init /\ [][Next]_vars

(* The runtime answers, the API server comes up once its containers run    *)
(* and answers then, and the retry timer fires.                            *)
Fairness == WF_vars(KubeletStep) /\ WF_vars(ApiComesUp)

FairSpec == Spec /\ Fairness

-----------------------------------------------------------------------------
(* Types; between two turns the kubelet holds no copies but of manifests.  *)
TypeOK ==
  /\ hasClient \in BOOLEAN /\ apiReady \in BOOLEAN
  /\ manifests \in [Names -> Versions \cup {Invalid, None}]
  /\ sandboxes \subseteq Names /\ kept \subseteq Names
  /\ running \in Copy
  /\ mirrors \in [Names -> Versions \cup {Foreign, None}]
  /\ k \in KubeletState
  /\ k.pc \in {"watch", "wait", "exited"} =>
       /\ ~k.booting /\ k.running = Nothing /\ k.mirrors = Nothing
       /\ k.sandboxes = {} /\ k.current = {} /\ k.todo = {}
  /\ writes \in 0..MaxWrites /\ failures \in 0..MaxFailures

(* No static container is started over one that runs: the runtime's map    *)
(* would forget the old process. The list that RunInSandbox goes by is out *)
(* of date by then, but only in one direction.                             *)
NeverTwice ==
  [][\A n \in Names : RunInSandbox(n) => running[n] = None]_vars

(* The kubelet overwrites and deletes only what it saw in its list: no Pod *)
(* of a user that has, or meanwhile got, the name of a mirror, and no      *)
(* mirror somebody changed since.                                          *)
WritesWhatItSaw ==
  [][\A n \in Names : (WriteMirror(n) \/ DeleteMirror(n)) /\ mirrors'[n] # mirrors[n] =>
       mirrors[n] = k.mirrors[n]]_vars

(* Three things keep the kubelet from its work: a manifest it cannot read, *)
(* an error before the loop, and an API server it waits for and is itself  *)
(* to start.                                                               *)
Loadable == \A n \in Names : manifests[n] # Invalid
Deadlocked == hasClient /\ k.pc = "watch" /\ \E n \in ApiPods : running[n] = None
AtWork == Loadable /\ k.pc # "exited" /\ ~Deadlocked
NoForeign == \A n \in Names : mirrors[n] # Foreign

(* Apart from these, when users and failures stop, the Pods of the         *)
(* manifests the kubelet read last run, and no others, whatever the API    *)
(* server and the mirrors are like; and a kubelet without API server has   *)
(* read what is in the directory. A container runs the version read last   *)
(* unless it was running when that was read: it is then left as it is, the *)
(* new version waits for its end (architecture.md:75 has it replaced).     *)
RunsLoaded ==
  \A n \in Names :
    /\ running[n] # None <=> k.loaded[n] # None
    /\ n \notin kept => running[n] = k.loaded[n]
LoadedRun == <>[](AtWork => RunsLoaded /\ (~hasClient => k.loaded = manifests))

(* A mirror Pod for each manifest read last, with its spec and annotations *)
(* (labels and status are not looked at), and no other, also after users   *)
(* edit or delete them, or etcd starts again with nothing stored; and the  *)
(* kubelet rests, whose own writes and calls wake it.                      *)
Shown(n) ==
  IF k.loaded[n] = None THEN mirrors[n] \in {None, Foreign}
  ELSE mirrors[n] \in Versions /\ mirrors[n].spec = k.loaded[n].spec
MirrorsShowLoaded ==
  <>[](AtWork /\ NoForeign =>
         (hasClient => \A n \in Names : Shown(n)) /\ k.pc = "wait" /\ ~k.woken)
=============================================================================
