-------------------------- MODULE StaticPodsProofs --------------------------
(***************************************************************************)
(* Proofs of the safety of StaticPods, for any manifests, writes, failures *)
(* and choice of the Pods the API server depends on.                       *)
(***************************************************************************)
EXTENDS StaticPods, TLAPS

-----------------------------------------------------------------------------
(* The inductive invariant: what the lists still say when the kubelet acts *)
(* on them.                                                                *)

InSandbox == \A n \in Names : running[n] # None => n \in sandboxes

(* Containers end without the kubelet, but only the kubelet starts them;   *)
(* sandboxes come and go by the kubelet alone.                             *)
NotRunning ==
  /\ k.pc = "sandboxes" => \A n \in Names : k.running[n] = None => running[n] = None
  /\ k.pc = "start" =>
       /\ \A n \in k.todo : k.running[n] = None => running[n] = None
       /\ k.sandboxes = sandboxes

(* A copy of a mirror nobody has overtaken is the mirror as it is.         *)
Copies ==
  /\ k.current # {} => k.pc \in {"write", "delete", "pods"}
  /\ \A n \in k.current : mirrors[n] = k.mirrors[n]

(* What runs and was not kept is what the kubelet read last.               *)
Versioned == \A n \in Names : running[n] # None /\ n \notin kept => running[n] = k.loaded[n]

IInv == TypeOK /\ InSandbox /\ NotRunning /\ Copies /\ Versioned

-----------------------------------------------------------------------------
LEMMA NothingType == Nothing \in Copy /\ \A n \in Names : Nothing[n] = None
BY DEF Nothing, Copy

LEMMA FinishedType ==
  ASSUME TypeOK, NEW pc \in {"watch", "wait", "exited"}
  PROVE  /\ Finished(pc) \in KubeletState /\ Finished(pc).pc = pc /\ ~Finished(pc).booting
         /\ Finished(pc).loaded = k.loaded /\ Finished(pc).running = Nothing /\ Finished(pc).mirrors = Nothing
         /\ Finished(pc).sandboxes = {} /\ Finished(pc).current = {} /\ Finished(pc).todo = {}
<1>1. k \in KubeletState /\ Nothing \in Copy
  BY NothingType DEF TypeOK
<1>2. pc \in {"watch", "load", "containers", "sandboxes", "start", "stop", "mirrors", "write", "delete", "pods", "wait", "exited"}
  OBVIOUS
<1> QED
  BY <1>1, <1>2 DEF Finished, KubeletState

(* The kubelet ends a Reconcile, or starts over.                           *)
LEMMA StepFinished ==
  ASSUME IInv, NEW pc \in {"watch", "wait", "exited"}, k' = Finished(pc),
         UNCHANGED <<hasClient, world, kept>>, writes' \in 0..MaxWrites, failures' \in 0..MaxFailures
  PROVE  IInv'
BY FinishedType DEF IInv, TypeOK, InSandbox, NotRunning, Copies, Versioned, world

(* Only pc, wake-up and lists of things to do change, not the copies.      *)
LEMMA StepOn ==
  ASSUME IInv, k' \in KubeletState, UNCHANGED <<hasClient, world, kept, writes, failures>>,
         k'.loaded = k.loaded, k'.pc \notin {"watch", "wait", "exited", "sandboxes", "start"},
         k'.mirrors = k.mirrors, k'.current = k.current,
         k'.current # {} => k'.pc \in {"write", "delete", "pods"}
  PROVE  IInv'
BY DEF IInv, TypeOK, InSandbox, NotRunning, Copies, Versioned, world

LEMMA InitIInv == Init => IInv
<1> SUFFICES ASSUME Init PROVE IInv
  OBVIOUS
<1>1. Nothing \in Copy /\ \A n \in Names : Nothing[n] = None
  BY NothingType
<1>2. k \in KubeletState
  BY <1>1 DEF Init, Booting, KubeletState
<1>3. /\ Nothing \in [Names -> Versions \cup {Foreign, None}]
      /\ manifests \in [Names -> Versions \cup {Invalid, None}]
  BY DEF Nothing, Init
<1>4. 0 \in 0..MaxWrites /\ 0 \in 0..MaxFailures
  BY StaticPodsAssumption
<1>5. TypeOK
  BY <1>1, <1>2, <1>3, <1>4 DEF Init, TypeOK, Booting
<1> QED
  BY <1>1, <1>5 DEF Init, IInv, InSandbox, NotRunning, Copies, Versioned, Booting

-----------------------------------------------------------------------------
(* One lemma per step of the kubelet.                                      *)

LEMMA StepFails ==
  ASSUME IInv, Fails, UNCHANGED <<hasClient, world, kept>>,
         writes' \in 0..MaxWrites, failures' \in 0..MaxFailures
  PROVE  IInv'
BY StepFinished DEF Fails

LEMMA StepWatches == ASSUME IInv, OpenWatches \/ Wake PROVE IInv'
<1>1. CASE OpenWatches
  BY <1>1, StepOn DEF OpenWatches, IInv, TypeOK, KubeletState
<1>2. CASE Wake
  BY <1>2 DEF Wake, IInv, TypeOK, KubeletState, InSandbox, NotRunning, Copies, Versioned, world
<1> QED
  BY <1>1, <1>2

LEMMA StepLoad == ASSUME IInv, LoadManifests PROVE IInv'
<1>1. CASE \E n \in Names : manifests[n] = Invalid
  BY <1>1, StepFails DEF LoadManifests, IInv, TypeOK
<1>2. CASE ~\E n \in Names : manifests[n] = Invalid
  <2>1. manifests \in Copy
    BY <1>2 DEF IInv, TypeOK, Copy
  <2>2. k' = [k EXCEPT !.pc = "containers", !.loaded = manifests] /\ UNCHANGED <<hasClient, world, writes, failures>>
    BY <1>2 DEF LoadManifests
  <2>3. /\ k' \in KubeletState /\ k'.pc = "containers" /\ k'.loaded = manifests
        /\ k'.mirrors = k.mirrors /\ k'.current = {}
    BY <2>1, <2>2 DEF LoadManifests, IInv, TypeOK, KubeletState, Copies
  <2>4. kept' = {n \in Names : running[n] # None /\ running[n] # manifests[n]}
    BY <1>2 DEF LoadManifests
  <2>5. Versioned' /\ kept' \subseteq Names
    BY <2>2, <2>3, <2>4 DEF Versioned, world
  <2> QED
    BY <2>2, <2>3, <2>5 DEF IInv, TypeOK, InSandbox, NotRunning, Copies, world
<1> QED
  BY <1>1, <1>2

LEMMA StepLists == ASSUME IInv, ListContainers \/ ListSandboxes PROVE IInv'
<1>1. CASE ListContainers
  <2>1. k' \in KubeletState
    BY <1>1 DEF ListContainers, IInv, TypeOK, KubeletState
  <2> QED
    BY <1>1, <2>1 DEF ListContainers, IInv, TypeOK, KubeletState, InSandbox, NotRunning, Copies, Versioned, world
<1>2. CASE ListSandboxes
  <2>1. {n \in Desired : n \notin sandboxes \/ MustRun(n)} \subseteq Names
    BY DEF Desired
  <2>2. k' \in KubeletState
    BY <1>2, <2>1 DEF ListSandboxes, IInv, TypeOK, KubeletState
  <2>3. /\ k'.pc = "start" /\ k'.running = k.running /\ k'.sandboxes = sandboxes
        /\ k'.loaded = k.loaded /\ k'.mirrors = k.mirrors /\ k'.current = k.current /\ k'.todo \subseteq Names
    BY <1>2, <2>1 DEF ListSandboxes, IInv, TypeOK, KubeletState
  <2> QED
    BY <1>2, <2>2, <2>3 DEF ListSandboxes, IInv, TypeOK, InSandbox, NotRunning, Copies, Versioned, world
<1> QED
  BY <1>1, <1>2

LEMMA StepRunPodSandbox == ASSUME IInv, NEW n \in Names, RunPodSandbox(n) PROVE IInv'
<1>1. k' \in KubeletState
  BY DEF RunPodSandbox, IInv, TypeOK, KubeletState, Copy
<1>2. /\ k'.pc = "start" /\ k'.running = [k.running EXCEPT ![n] = None] /\ k'.sandboxes = k.sandboxes \cup {n}
      /\ k'.loaded = k.loaded /\ k'.mirrors = k.mirrors /\ k'.current = k.current /\ k'.todo = k.todo
  BY DEF RunPodSandbox, IInv, TypeOK, KubeletState
<1>3. running[n] = None
  BY DEF RunPodSandbox, IInv, InSandbox, NotRunning
<1>4. (\A m \in Names : k'.running[m] = IF m = n THEN None ELSE k.running[m]) /\ k.todo \subseteq Names
  BY <1>2 DEF IInv, TypeOK, KubeletState, Copy
<1> QED
  BY <1>1, <1>2, <1>3, <1>4 DEF RunPodSandbox, IInv, TypeOK, InSandbox, NotRunning, Copies, Versioned

LEMMA StepRunInSandbox == ASSUME IInv, NEW n \in Names, RunInSandbox(n) PROVE IInv'
<1>1. k' \in KubeletState
  BY DEF RunInSandbox, IInv, TypeOK, KubeletState
<1>2. /\ k'.pc = "start" /\ k'.running = k.running /\ k'.sandboxes = k.sandboxes
      /\ k'.loaded = k.loaded /\ k'.mirrors = k.mirrors /\ k'.current = k.current /\ k'.todo = k.todo \ {n}
  BY DEF RunInSandbox, IInv, TypeOK, KubeletState
<1>3. /\ running' \in Copy /\ \A m \in Names : running'[m] = IF m = n THEN k.loaded[n] ELSE running[m]
      /\ k.todo \subseteq Names
  BY DEF RunInSandbox, IInv, TypeOK, KubeletState, Copy
<1> QED
  BY <1>1, <1>2, <1>3 DEF RunInSandbox, IInv, TypeOK, InSandbox, NotRunning, Copies, Versioned

LEMMA StepBeginStops == ASSUME IInv, BeginStops PROVE IInv'
<1>1. k' \in KubeletState /\ k'.pc = "stop" /\ k'.loaded = k.loaded /\ k'.mirrors = k.mirrors /\ k'.current = k.current
  BY DEF BeginStops, IInv, TypeOK, KubeletState
<1>2. k.current = {}
  BY DEF BeginStops, IInv, Copies
<1> QED
  BY <1>1, <1>2, StepOn DEF BeginStops

(* The end of a container, whoever caused it.                              *)
LEMMA ContainerEnds ==
  ASSUME TypeOK, NEW n \in Names, EndContainer(n)
  PROVE  /\ running' \in Copy /\ apiReady' \in BOOLEAN
         /\ mirrors' \in [Names -> Versions \cup {Foreign, None}]
         /\ kept' \subseteq Names /\ kept \subseteq kept' \cup {n}
         /\ \A m \in Names : running'[m] = IF m = n THEN None ELSE running[m]
         /\ n \notin StorePods => mirrors' = mirrors
<1>1. running' \in Copy /\ \A m \in Names : running'[m] = IF m = n THEN None ELSE running[m]
  BY DEF TypeOK, EndContainer, Copy
<1>2. apiReady' \in BOOLEAN
  BY Zenon DEF TypeOK, EndContainer
<1>3. mirrors' \in [Names -> Versions \cup {Foreign, None}]
  BY DEF TypeOK, EndContainer, Nothing
<1>4. kept' \subseteq Names /\ kept \subseteq kept' \cup {n}
  BY DEF TypeOK, EndContainer
<1> QED
  BY <1>1, <1>2, <1>3, <1>4 DEF EndContainer

LEMMA StepStopPodSandbox == ASSUME IInv, NEW n \in Names, StopPodSandbox(n) PROVE IInv'
<1>1. k' \in KubeletState /\ k'.pc = "stop" /\ k'.loaded = k.loaded /\ k'.mirrors = k.mirrors /\ k'.current = k.current
  BY DEF StopPodSandbox, IInv, TypeOK, KubeletState
<1>2. k.current = {}
  BY DEF StopPodSandbox, IInv, Copies
<1> QED
  BY <1>1, <1>2, ContainerEnds DEF StopPodSandbox, IInv, TypeOK, InSandbox, NotRunning, Copies, Versioned

LEMMA StepStaticDone == ASSUME IInv, StaticDone PROVE IInv'
<1>1. CASE k' = Finished("watch") \/ k' = Finished("wait")
  BY <1>1, StepFinished DEF StaticDone, IInv, TypeOK
<1>2. CASE k' = [k EXCEPT !.pc = "mirrors"]
  <2>1. k' \in KubeletState /\ k'.pc = "mirrors" /\ k'.loaded = k.loaded /\ k'.mirrors = k.mirrors /\ k'.current = k.current
    BY <1>2 DEF IInv, TypeOK, KubeletState
  <2>2. k.current = {}
    BY DEF StaticDone, IInv, Copies
  <2> QED
    BY <2>1, <2>2, StepOn DEF StaticDone
<1> QED
  BY <1>1, <1>2 DEF StaticDone

LEMMA StepListMirrors == ASSUME IInv, ListMirrors PROVE IInv'
<1>1. MirrorsListed \in Copy /\ \A n \in Names : mirrors[n] # Foreign => MirrorsListed[n] = mirrors[n]
  BY DEF MirrorsListed, Copy, IInv, TypeOK
<1>2. OutdatedMirrors(MirrorsListed) \subseteq Names
  BY DEF OutdatedMirrors, Desired
<1>3. k' \in KubeletState
  BY <1>1, <1>2 DEF ListMirrors, IInv, TypeOK, KubeletState
<1>4. /\ k'.pc = "write" /\ k'.mirrors = MirrorsListed
      /\ k'.current = {n \in Names : mirrors[n] \notin {Foreign, None}}
  BY DEF ListMirrors, IInv, TypeOK, KubeletState
<1> QED
  BY <1>1, <1>3, <1>4 DEF ListMirrors, IInv, TypeOK, InSandbox, NotRunning, Copies, Versioned, world

LEMMA StepWriteMirror == ASSUME IInv, NEW n \in Names, WriteMirror(n) PROVE IInv'
<1>1. CASE Accepted(n)
  <2>1. /\ mirrors' = [mirrors EXCEPT ![n] = k.loaded[n]]
        /\ k' = [k EXCEPT !.todo = @ \ {n}, !.current = @ \ {n}, !.woken = TRUE]
    BY <1>1 DEF WriteMirror
  <2>2. /\ k' \in KubeletState /\ k'.pc = "write" /\ k'.loaded = k.loaded /\ k'.mirrors = k.mirrors
        /\ k'.current = k.current \ {n} /\ k.current \subseteq Names
    BY <2>1 DEF WriteMirror, IInv, TypeOK, KubeletState
  <2>3. /\ mirrors' \in [Names -> Versions \cup {Foreign, None}]
        /\ \A m \in Names : m # n => mirrors'[m] = mirrors[m]
    BY <2>1 DEF IInv, TypeOK, KubeletState, Copy
  <2> QED
    BY <2>2, <2>3 DEF WriteMirror, IInv, TypeOK, InSandbox, NotRunning, Copies, Versioned
<1>2. CASE ~Accepted(n)
  BY <1>2, StepFails DEF WriteMirror, IInv, TypeOK, world
<1> QED
  BY <1>1, <1>2

LEMMA StepDeletes == ASSUME IInv, BeginDeletes \/ MirrorsDone PROVE IInv'
<1>1. /\ k' \in KubeletState /\ k'.pc \in {"delete", "pods"} /\ k'.loaded = k.loaded
      /\ k'.mirrors = k.mirrors /\ k'.current = k.current
  <2>1. k \in KubeletState
    BY DEF IInv, TypeOK
  <2>2. CASE BeginDeletes
    BY <2>1, <2>2 DEF BeginDeletes, KubeletState
  <2>3. CASE MirrorsDone
    BY <2>1, <2>3 DEF MirrorsDone, KubeletState
  <2> QED
    BY <2>2, <2>3
<1> QED
  BY <1>1, StepOn DEF BeginDeletes, MirrorsDone

LEMMA StepDeleteMirror == ASSUME IInv, NEW n \in Names, DeleteMirror(n) PROVE IInv'
<1>1. Accepted(n) \in BOOLEAN
  <2>1. CASE k.mirrors[n] = None
    <3>1. Accepted(n) = (mirrors[n] = None)
      BY <2>1, Zenon DEF Accepted
    <3> QED
      BY <3>1, Zenon
  <2>2. CASE k.mirrors[n] # None
    <3>1. Accepted(n) = (n \in k.current)
      BY <2>2, Zenon DEF Accepted
    <3>2. CASE n \in k.current
      BY <3>1, <3>2
    <3>3. CASE n \notin k.current
      BY <3>1, <3>3
    <3> QED
      BY <3>2, <3>3
  <2> QED
    BY <2>1, <2>2
<1>2. (k.woken \/ Accepted(n)) \in BOOLEAN
  BY <1>1
<1>3. /\ k' \in KubeletState /\ k'.pc = "delete" /\ k'.mirrors = k.mirrors
      /\ k'.current = k.current \ {n} /\ k.current \subseteq Names
  BY <1>2 DEF DeleteMirror, IInv, TypeOK, KubeletState
<1>4. /\ mirrors' \in [Names -> Versions \cup {Foreign, None}]
      /\ \A m \in Names : m # n => mirrors'[m] = mirrors[m]
  BY DEF DeleteMirror, IInv, TypeOK
<1> QED
  BY <1>3, <1>4 DEF DeleteMirror, IInv, TypeOK, InSandbox, NotRunning, Copies, Versioned

-----------------------------------------------------------------------------
(* Failures and users.                                                     *)

LEMMA StepExit == ASSUME IInv, NEW n \in Names, Exit(n) PROVE IInv'
<1>1. k' = [k EXCEPT !.woken = TRUE, !.current = IF n \in StorePods THEN {} ELSE @] /\ k \in KubeletState
  BY DEF Exit, IInv, TypeOK
<1>2. /\ k' \in KubeletState /\ k'.pc = k.pc /\ k'.booting = k.booting /\ k'.loaded = k.loaded /\ k'.running = k.running
      /\ k'.sandboxes = k.sandboxes /\ k'.mirrors = k.mirrors /\ k'.todo = k.todo
      /\ k'.current = IF n \in StorePods THEN {} ELSE k.current
  BY <1>1 DEF KubeletState
<1>3. failures' \in 0..MaxFailures
  BY StaticPodsAssumption DEF Exit, Failure, IInv, TypeOK
<1>4. (TypeOK /\ InSandbox)'
  BY <1>2, <1>3, ContainerEnds DEF Exit, Failure, IInv, TypeOK, InSandbox
<1>5. k.todo \subseteq Names
  BY DEF IInv, TypeOK, KubeletState
<1> QED
  BY <1>2, <1>4, <1>5, ContainerEnds DEF Exit, IInv, NotRunning, Copies, Versioned

(* Somebody else writes: the kubelet may be woken, and some of its copies  *)
(* are out of date.                                                        *)
LEMMA StepWrites ==
  ASSUME IInv, UserWrites, UNCHANGED <<sandboxes, running, apiReady>>,
         manifests' \in [Names -> Versions \cup {Invalid, None}],
         mirrors' \in [Names -> Versions \cup {Foreign, None}],
         NEW w \in BOOLEAN, NEW C \in SUBSET k.current,
         k' = [k EXCEPT !.woken = w, !.current = C],
         \A m \in C : mirrors'[m] = mirrors[m]
  PROVE  IInv'
<1>1. k \in KubeletState
  BY DEF IInv, TypeOK
<1>2. /\ k' \in KubeletState /\ k'.pc = k.pc /\ k'.booting = k.booting /\ k'.loaded = k.loaded /\ k'.running = k.running
      /\ k'.sandboxes = k.sandboxes /\ k'.mirrors = k.mirrors /\ k'.todo = k.todo /\ k'.current = C
  BY <1>1 DEF KubeletState
<1>3. writes' \in 0..MaxWrites
  BY StaticPodsAssumption DEF UserWrites, IInv, TypeOK
<1> QED
  BY <1>2, <1>3 DEF UserWrites, IInv, TypeOK, InSandbox, NotRunning, Copies, Versioned

LEMMA StepWriteManifest ==
  ASSUME IInv, NEW n \in Names, NEW x \in Versions \cup {Invalid, None}, WriteManifest(n, x)
  PROVE  IInv'
<1>1. WatchesManifests \in BOOLEAN
  BY DEF WatchesManifests
<1>2. (k.woken \/ WatchesManifests) \in BOOLEAN
  BY <1>1
<1>3. k' = [k EXCEPT !.woken = k.woken \/ WatchesManifests, !.current = k.current]
  BY DEF WriteManifest, IInv, TypeOK, KubeletState
<1>4. manifests' \in [Names -> Versions \cup {Invalid, None}]
  BY DEF WriteManifest, IInv, TypeOK
<1> QED
  BY <1>2, <1>3, <1>4, StepWrites DEF WriteManifest, IInv, TypeOK

LEMMA StepWriteObject ==
  ASSUME IInv, NEW n \in Names, NEW x \in Versions \cup {Foreign, None}, WriteObject(n, x)
  PROVE  IInv'
<1>1. /\ mirrors' \in [Names -> Versions \cup {Foreign, None}]
      /\ \A m \in Names : m # n => mirrors'[m] = mirrors[m]
  BY DEF WriteObject, IInv, TypeOK
<1>2. k.current \subseteq Names
  BY DEF IInv, TypeOK, KubeletState
<1>3. k.current \ {n} \in SUBSET k.current /\ \A m \in k.current \ {n} : mirrors'[m] = mirrors[m]
  BY <1>1, <1>2
<1>4. k' = [k EXCEPT !.woken = TRUE, !.current = k.current \ {n}]
  BY DEF WriteObject
<1>5. manifests' \in [Names -> Versions \cup {Invalid, None}] /\ UNCHANGED <<sandboxes, running, apiReady>>
  BY DEF WriteObject, IInv, TypeOK
<1> QED
  BY <1>1, <1>3, <1>4, <1>5, StepWrites DEF WriteObject

LEMMA StepWriteOtherPod == ASSUME IInv, WriteOtherPod PROVE IInv'
<1>1. k' = [k EXCEPT !.woken = TRUE, !.current = k.current]
  BY DEF WriteOtherPod, IInv, TypeOK, KubeletState
<1> QED
  BY <1>1, StepWrites DEF WriteOtherPod, world, IInv, TypeOK

-----------------------------------------------------------------------------
(* The invariant and the theorems.                                         *)

LEMMA StepIInv == IInv /\ [Next]_vars => IInv'
<1> SUFFICES ASSUME IInv, [Next]_vars PROVE IInv'
  OBVIOUS
<1>1. CASE ListPods
  BY <1>1, StepFinished DEF ListPods, IInv, TypeOK
<1>2. CASE NoAnswer
  BY <1>2, StepFails DEF NoAnswer, IInv, TypeOK
<1>3. CASE CallFails
  <2>1. failures' \in 0..MaxFailures
    BY <1>3, StaticPodsAssumption DEF CallFails, Failure, IInv, TypeOK
  <2> QED
    BY <1>3, <2>1, StepFails DEF CallFails, Failure, IInv, TypeOK
<1>4. CASE ApiComesUp
  BY <1>4 DEF ApiComesUp, IInv, TypeOK, InSandbox, NotRunning, Copies, Versioned
<1>5. CASE UNCHANGED vars
  BY <1>5 DEF IInv, TypeOK, InSandbox, NotRunning, Copies, Versioned, vars, world
<1>6. CASE KubeletStep
  BY <1>1, <1>2, <1>6, StepWatches, StepLoad, StepLists, StepRunPodSandbox, StepRunInSandbox,
     StepBeginStops, StepStopPodSandbox, StepStaticDone, StepListMirrors, StepWriteMirror, StepDeletes,
     StepDeleteMirror DEF KubeletStep
<1> QED
  BY <1>3, <1>4, <1>5, <1>6, StepExit, StepWriteManifest, StepWriteObject, StepWriteOtherPod DEF Next

LEMMA Invariance == Spec => []IInv
BY InitIInv, StepIInv, PTL DEF Spec

(* The types of the node and of the kubelet, and a kubelet without copies  *)
(* between two turns.                                                      *)
THEOREM TypeCorrect == Spec => []TypeOK
BY Invariance, PTL DEF IInv

(* The list of containers RunInSandbox goes by is older than that of       *)
(* sandboxes and than the starts before it; still the runtime never gets   *)
(* a second container for a static Pod whose first one runs.               *)
THEOREM NeverStartedTwice == Spec => NeverTwice
<1>1. IInv /\ [Next]_vars => [\A n \in Names : RunInSandbox(n) => running[n] = None]_vars
  BY DEF IInv, NotRunning, RunInSandbox, MustRun, First
<1> QED
  BY <1>1, Invariance, PTL DEF Spec, NeverTwice

(* reconcileMirrorPods writes back copies that users overtake at any time; *)
(* the resource version, and POST for what was not there, keep it from     *)
(* changing a Pod it has not seen.                                         *)
THEOREM WritesOnlyWhatItSaw == Spec => WritesWhatItSaw
<1> DEFINE Saw == \A n \in Names : (WriteMirror(n) \/ DeleteMirror(n)) /\ mirrors'[n] # mirrors[n] =>
                    mirrors[n] = k.mirrors[n]
<1>1. IInv /\ [Next]_vars => [Saw]_vars
  <2> SUFFICES ASSUME IInv, NEW n \in Names, WriteMirror(n) \/ DeleteMirror(n), mirrors'[n] # mirrors[n]
               PROVE  mirrors[n] = k.mirrors[n]
    OBVIOUS
  <2>1. Accepted(n)
    BY DEF WriteMirror, DeleteMirror
  <2> QED
    BY <2>1 DEF Accepted, IInv, Copies
<1> QED
  BY <1>1, Invariance, PTL DEF Spec, WritesWhatItSaw

-----------------------------------------------------------------------------
(* A kubelet that rests runs what the manifests it read last say, but for  *)
(* containers it kept when it read them, shows their specs in the API      *)
(* server, if it has one, and otherwise has read the directory as it is.   *)
MirrorsRight == \A n \in Names : Shown(n)
ShownAtRest ==
  k.pc = "wait" /\ ~k.woken =>
    RunsLoaded /\ IF hasClient THEN MirrorsRight ELSE k.loaded = manifests

(* What a turn leaves. As long as nothing has woken the kubelet, its lists *)
(* are what is stored and what runs, and it has done what they called for  *)
(* without there having been anything to do.                               *)

RunsDesired == \A n \in Names : running[n] # None <=> k.loaded[n] # None
ToRun == {n \in Desired : n \notin sandboxes \/ running[n] = None}

RunsUndisturbed ==
  /\ k.pc \in {"sandboxes", "start"} => k.running = running
  /\ k.pc \in {"start", "stop"} => k.sandboxes = sandboxes
  /\ k.pc = "start" => k.todo = ToRun
  /\ k.pc = "stop" => ToRun = {} /\ k.todo = sandboxes \ Desired
  /\ k.pc \in {"mirrors", "write", "delete", "pods", "wait"} => RunsDesired

MirrorsUndisturbed ==
  /\ k.pc \in {"write", "delete"} =>
       /\ k.mirrors = MirrorsListed
       /\ k.current = {n \in Names : k.mirrors[n] # None}
  /\ k.pc = "write" => k.todo = OutdatedMirrors(k.mirrors)
  /\ k.pc = "delete" =>
       OutdatedMirrors(k.mirrors) = {} /\ k.todo = {n \in Names \ Desired : k.mirrors[n] # None}
  /\ k.pc = "pods" \/ (k.pc = "wait" /\ hasClient) => MirrorsRight

ManifestsUndisturbed ==
  ~hasClient /\ k.pc \notin {"watch", "load", "exited"} => k.loaded = manifests

Undisturbed == ~k.woken => RunsUndisturbed /\ MirrorsUndisturbed /\ ManifestsUndisturbed

LEMMA NothingDueThere ==
  ASSUME k.pc \in {"watch", "load", "exited"}
  PROVE  Undisturbed
BY DEF Undisturbed, RunsUndisturbed, MirrorsUndisturbed, ManifestsUndisturbed

LEMMA UndisturbedFails == ASSUME IInv, Fails PROVE Undisturbed'
<1>1. k'.pc \in {"watch", "exited"}
  BY FinishedType DEF Fails, IInv
<1> QED
  BY <1>1 DEF Undisturbed, RunsUndisturbed, MirrorsUndisturbed, ManifestsUndisturbed

(* The lists, up to the end of the static Pods.                            *)
LEMMA UndisturbedRuns ==
  ASSUME IInv, Undisturbed,
         LoadManifests \/ ListContainers \/ ListSandboxes \/ BeginStops \/ StaticDone
  PROVE  Undisturbed'
<1>1. k \in KubeletState
  BY DEF IInv, TypeOK
<1>2. CASE LoadManifests
  <2>1. CASE Fails
    BY <2>1, UndisturbedFails
  <2>2. CASE k' = [k EXCEPT !.pc = "containers", !.loaded = manifests]
    BY <1>1, <1>2, <2>2 DEF LoadManifests, world, KubeletState, Undisturbed, RunsUndisturbed, MirrorsUndisturbed,
                       ManifestsUndisturbed
  <2> QED
    BY <1>2, <2>1, <2>2 DEF LoadManifests
<1>3. CASE ListContainers
  BY <1>1, <1>3 DEF ListContainers, world, KubeletState, Undisturbed, RunsUndisturbed, MirrorsUndisturbed,
                     ManifestsUndisturbed
<1>4. CASE ListSandboxes
  <2>1. /\ k.pc = "sandboxes" /\ k'.pc = "start" /\ k'.woken = k.woken /\ k'.loaded = k.loaded
        /\ k'.running = k.running /\ k'.sandboxes = sandboxes
        /\ k'.todo = {n \in Desired : n \notin sandboxes \/ MustRun(n)}
        /\ UNCHANGED <<hasClient, world>>
    BY <1>1, <1>4 DEF ListSandboxes, KubeletState
  <2> QED
    BY <2>1 DEF MustRun, ToRun, Desired, world, Undisturbed, RunsUndisturbed, MirrorsUndisturbed, ManifestsUndisturbed
<1>5. CASE BeginStops
  <2>1. /\ k.pc = "start" /\ k.todo = {} /\ k'.pc = "stop" /\ k'.woken = k.woken /\ k'.loaded = k.loaded
        /\ k'.sandboxes = k.sandboxes /\ k'.todo = k.sandboxes \ Desired
        /\ UNCHANGED <<hasClient, world>>
    BY <1>1, <1>5 DEF BeginStops, KubeletState
  <2> QED
    BY <2>1 DEF ToRun, Desired, world, Undisturbed, RunsUndisturbed, MirrorsUndisturbed, ManifestsUndisturbed
<1>6. CASE StaticDone
  <2>1. k.pc = "stop" /\ k.todo = {} /\ UNCHANGED <<hasClient, world>>
    BY <1>6 DEF StaticDone
  <2>2. /\ k'.woken = k.woken /\ k'.loaded = k.loaded
        /\ k'.pc \in {"watch", "mirrors"} \/ (k'.pc = "wait" /\ ~hasClient)
    <3>1. CASE k.booting
      BY <1>1, <1>6, <3>1 DEF StaticDone, Finished, KubeletState
    <3>2. CASE ~k.booting /\ hasClient
      BY <1>1, <1>6, <3>2 DEF StaticDone, KubeletState
    <3>3. CASE ~k.booting /\ ~hasClient
      BY <1>1, <1>6, <3>3 DEF StaticDone, Finished, KubeletState
    <3> QED
      BY <3>1, <3>2, <3>3
  <2>3. ~k.woken => RunsDesired
    BY <2>1 DEF Undisturbed, RunsUndisturbed, RunsDesired, ToRun, Desired, IInv, InSandbox
  <2> QED
    BY <2>1, <2>2, <2>3 DEF RunsDesired, world, Undisturbed, RunsUndisturbed, MirrorsUndisturbed, ManifestsUndisturbed
<1> QED
  BY <1>2, <1>3, <1>4, <1>5, <1>6

(* The mirror Pods. A write or a delete that changes one wakes the kubelet;*)
(* one that is refused is one of a mirror somebody else has written.       *)
LEMMA UndisturbedMirrors ==
  ASSUME IInv, Undisturbed, ListMirrors \/ BeginDeletes \/ MirrorsDone \/ ListPods
  PROVE  Undisturbed'
<1>1. k \in KubeletState
  BY DEF IInv, TypeOK
<1>2. CASE ListMirrors
  <2>1. /\ k.pc = "mirrors" /\ k'.pc = "write" /\ k'.woken = k.woken /\ k'.loaded = k.loaded
        /\ k'.mirrors = MirrorsListed /\ k'.current = {n \in Names : mirrors[n] \notin {Foreign, None}}
        /\ k'.todo = OutdatedMirrors(MirrorsListed)
        /\ UNCHANGED <<hasClient, world>>
    BY <1>1, <1>2 DEF ListMirrors, KubeletState
  <2>2. \A n \in Names : k'.mirrors[n] # None <=> mirrors[n] \notin {Foreign, None}
    BY <2>1 DEF MirrorsListed
  <2> QED
    BY <2>1, <2>2 DEF RunsDesired, MirrorsListed, OutdatedMirrors, Desired, world,
                      Undisturbed, RunsUndisturbed, MirrorsUndisturbed, ManifestsUndisturbed
<1>3. CASE BeginDeletes
  <2>1. /\ k.pc = "write" /\ k.todo = {} /\ k'.pc = "delete" /\ k'.woken = k.woken /\ k'.loaded = k.loaded
        /\ k'.loaded = k.loaded /\ k'.mirrors = k.mirrors /\ k'.current = k.current
        /\ k'.todo = {n \in Names \ Desired : k.mirrors[n] # None}
        /\ UNCHANGED <<hasClient, world>>
    BY <1>1, <1>3 DEF BeginDeletes, KubeletState
  <2> QED
    BY <2>1 DEF RunsDesired, MirrorsListed, OutdatedMirrors, Desired, world,
                Undisturbed, RunsUndisturbed, MirrorsUndisturbed, ManifestsUndisturbed
<1>4. CASE MirrorsDone
  <2>1. /\ k.pc = "delete" /\ k.todo = {} /\ k'.pc = "pods" /\ k'.woken = k.woken /\ k'.loaded = k.loaded
        /\ UNCHANGED <<hasClient, world>>
    BY <1>1, <1>4 DEF MirrorsDone, KubeletState
  <2>2. ASSUME ~k.woken, NEW n \in Names
        PROVE  Shown(n)
    <3>1. k.mirrors = MirrorsListed /\ OutdatedMirrors(k.mirrors) = {} /\ k.todo = {m \in Names \ Desired : k.mirrors[m] # None}
      BY <2>1, <2>2 DEF Undisturbed, MirrorsUndisturbed
    <3>2. k.mirrors[n] = IF mirrors[n] = Foreign THEN None ELSE mirrors[n]
      BY <3>1 DEF MirrorsListed
    <3>3. CASE k.loaded[n] # None
      <4>1. k.mirrors[n] # None /\ k.mirrors[n].spec = k.loaded[n].spec
        <5>1. n \in Desired /\ n \notin OutdatedMirrors(k.mirrors)
          BY <3>1, <3>3 DEF Desired
        <5> QED
          BY <5>1 DEF OutdatedMirrors
      <4>2. mirrors[n] \in Versions \cup {Foreign, None}
        BY DEF IInv, TypeOK
      <4> QED
        BY <3>2, <3>3, <4>1, <4>2 DEF Shown
    <3>4. CASE k.loaded[n] = None
      <4>1. k.mirrors[n] = None
        BY <2>1, <3>1, <3>4 DEF Desired
      <4> QED
        BY <3>2, <3>4, <4>1 DEF Shown
    <3> QED
      BY <3>3, <3>4
  <2> QED
    BY <2>1, <2>2 DEF RunsDesired, MirrorsRight, Shown, world, Undisturbed, RunsUndisturbed, MirrorsUndisturbed,
                      ManifestsUndisturbed
<1>5. CASE ListPods
  <2>1. /\ k.pc = "pods" /\ k'.pc = "wait" /\ k'.woken = k.woken /\ k'.loaded = k.loaded
        /\ UNCHANGED <<hasClient, world>>
    BY <1>1, <1>5 DEF ListPods, Finished, KubeletState
  <2> QED
    BY <2>1 DEF RunsDesired, MirrorsRight, Shown, world, Undisturbed, RunsUndisturbed, MirrorsUndisturbed,
                ManifestsUndisturbed
<1> QED
  BY <1>2, <1>3, <1>4, <1>5

LEMMA UndisturbedWrites ==
  ASSUME IInv, Undisturbed, NEW n \in Names, WriteMirror(n) \/ DeleteMirror(n)
  PROVE  Undisturbed'
<1>1. k \in KubeletState
  BY DEF IInv, TypeOK
<1>2. CASE Fails
  BY <1>2, UndisturbedFails
<1>3. CASE WriteMirror(n) /\ k'.woken
  BY <1>3 DEF Undisturbed
<1>4. CASE DeleteMirror(n)
  <2>1. k.pc = "delete" /\ n \in k.todo
    BY <1>4 DEF DeleteMirror
  <2>2. ~k.woken => Accepted(n)
    BY <2>1 DEF Undisturbed, MirrorsUndisturbed, Accepted
  <2>3. k.woken \/ Accepted(n) => k'.woken
    BY <1>1, <1>4 DEF DeleteMirror, KubeletState
  <2> QED
    BY <2>2, <2>3 DEF Undisturbed
<1>5. WriteMirror(n) => k'.woken \/ Fails
  BY <1>1 DEF WriteMirror, KubeletState
<1> QED
  BY <1>2, <1>3, <1>4, <1>5

LEMMA StepUndisturbed == ASSUME IInv, Undisturbed, [Next]_vars PROVE Undisturbed'
<1>1. k \in KubeletState
  BY DEF IInv, TypeOK
<1>2. ASSUME k'.woken PROVE Undisturbed'
  BY <1>2 DEF Undisturbed
<1>3. CASE OpenWatches \/ Wake
  <2>1. k'.pc \in {"watch", "load"}
    BY <1>1, <1>3 DEF OpenWatches, Wake, KubeletState
  <2> QED
    BY <2>1 DEF Undisturbed, RunsUndisturbed, MirrorsUndisturbed, ManifestsUndisturbed
<1>4. CASE NoAnswer \/ CallFails
  BY <1>4, UndisturbedFails DEF NoAnswer, CallFails
<1>5. ASSUME NEW n \in Names, RunPodSandbox(n) \/ RunInSandbox(n) \/ StopPodSandbox(n) \/ Exit(n)
      PROVE  k'.woken
  BY <1>1, <1>5 DEF RunPodSandbox, RunInSandbox, StopPodSandbox, Exit, KubeletState
<1>6. CASE ApiComesUp
  BY <1>6 DEF ApiComesUp, Undisturbed, RunsUndisturbed, MirrorsUndisturbed, ManifestsUndisturbed, ToRun, Desired,
              RunsDesired, MirrorsRight, Shown, MirrorsListed, OutdatedMirrors
<1>7. ASSUME NEW n \in Names, NEW x \in Versions \cup {Invalid, None}, WriteManifest(n, x)
      PROVE  Undisturbed'
  <2>1. /\ k'.pc = k.pc /\ k'.loaded = k.loaded /\ k'.running = k.running /\ k'.sandboxes = k.sandboxes
        /\ k'.loaded = k.loaded /\ k'.mirrors = k.mirrors /\ k'.current = k.current /\ k'.todo = k.todo
        /\ k'.woken = (k.woken \/ WatchesManifests)
        /\ UNCHANGED <<hasClient, sandboxes, running, mirrors>>
    BY <1>1, <1>7 DEF WriteManifest, UserWrites, KubeletState, WatchesManifests
  <2>2. ASSUME ~k.woken, hasClient PROVE Undisturbed'
    BY <2>1, <2>2 DEF Undisturbed, RunsUndisturbed, MirrorsUndisturbed, ManifestsUndisturbed, ToRun,
                      Desired, RunsDesired, MirrorsRight, Shown, MirrorsListed, OutdatedMirrors
  <2>3. ASSUME k.woken \/ ~hasClient PROVE k'.woken
    BY <2>1, <2>3 DEF WatchesManifests
  <2> QED
    BY <1>2, <2>2, <2>3
<1>8. ASSUME WriteOtherPod \/ \E n \in Names : \E x \in Versions \cup {Foreign, None} : WriteObject(n, x)
      PROVE  k'.woken
  BY <1>1, <1>8 DEF WriteOtherPod, WriteObject, KubeletState
<1>9. CASE UNCHANGED vars
  BY <1>9 DEF vars, world, Undisturbed, RunsUndisturbed, MirrorsUndisturbed, ManifestsUndisturbed, ToRun, Desired,
              RunsDesired, MirrorsRight, Shown, MirrorsListed, OutdatedMirrors
<1> QED
  BY <1>2, <1>3, <1>4, <1>5, <1>6, <1>7, <1>8, <1>9, UndisturbedRuns, UndisturbedMirrors, UndisturbedWrites
  DEF Next, KubeletStep

(* When the kubelet goes to sleep, or sleeps, it runs the Pods of the      *)
(* manifests it read last and no others, in that version but for the       *)
(* containers that ran when it read them; each has a mirror with its spec  *)
(* and annotations and there is no other mirror (but a user's Pod may have *)
(* its name); and without an API server what it read is what is there.     *)
(* Failed and refused calls, exits, users and an etcd that lost everything *)
(* leave it with a wake-up. The safety part of LoadedRun and               *)
(* MirrorsShowLoaded.                                                      *)
THEOREM RestsWhenShown == Spec => []ShownAtRest
<1>1. Init => Undisturbed
  BY NothingDueThere DEF Init, Booting
<1>2. IInv /\ Undisturbed => ShownAtRest
  <2> SUFFICES ASSUME IInv, Undisturbed, k.pc = "wait", ~k.woken
               PROVE  RunsLoaded /\ IF hasClient THEN MirrorsRight ELSE k.loaded = manifests
    BY DEF ShownAtRest
  <2>1. RunsDesired /\ (hasClient => MirrorsRight) /\ (~hasClient => k.loaded = manifests)
    BY DEF Undisturbed, RunsUndisturbed, MirrorsUndisturbed, ManifestsUndisturbed
  <2>2. RunsLoaded
    BY <2>1 DEF RunsDesired, RunsLoaded, IInv, Versioned
  <2> QED
    BY <2>1, <2>2
<1> QED
  BY <1>1, <1>2, Invariance, StepUndisturbed, PTL DEF Spec
=============================================================================
