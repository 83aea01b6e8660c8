--------------------------- MODULE RuntimeProofs ---------------------------
(***************************************************************************)
(* Proofs of the safety of Runtime, and that it keeps the promise of       *)
(* ContainerRuntime, for any Pods and any numbers of processes,            *)
(* connections, watches and troubles.                                      *)
(***************************************************************************)
EXTENDS Runtime, TLAPS

-----------------------------------------------------------------------------
(* The inductive invariant.                                                *)

(* A kubelet has one call under way, and the runtime serves no other.      *)
OneCall ==
  /\ \A c, d \in Conns : ~At(c, "idle") /\ ~At(d, "idle") => c = d
  /\ \A c \in Conns : ~At(c, "idle") /\ Up => kubelet.conn = c

(* What a handler knows from its earlier steps.                            *)
CallOK(c) ==
  /\ At(c, "idle") <=> calls[c].op = "none"
  /\ ~At(c, "idle") => calls[c].pod \in Pods
  /\ At(c, "register") =>
       /\ calls[c].op = "RunInSandbox" /\ calls[c].pod \in sandboxes
       /\ calls[c].id # 0
       /\ managed[calls[c].id].pod = calls[c].pod /\ managed[calls[c].id].waiter = "none"
  /\ calls[c].pc \in {"term", "kill"} =>
       calls[c].op \in {"Stop", "StopPodSandbox"} /\ calls[c].id # 0 /\ containers[calls[c].pod] = calls[c].id
  /\ At(c, "remove") => calls[c].op = "StopPodSandbox"
  /\ At(c, "publish") => calls[c].op # "Stop"
  /\ Ranging(c) => calls[c].pod \in sandboxes

CallsOK == \A c \in Conns : CallOK(c)

(* A call about a Pod that is not running yet, or not any more.            *)
BeforeStart(c) ==
  \/ calls[c].op = "RunPodSandbox"
  \/ calls[c].op = "RunInSandbox" /\ calls[c].pc \in {"begin", "register"}
AfterStop(c) ==
  \/ calls[c].op = "Stop" /\ At(c, "answer") /\ calls[c].ok
  \/ calls[c].op = "StopPodSandbox" /\ (calls[c].pc \in {"remove", "publish"} \/ (At(c, "answer") /\ calls[c].ok))
HasStarted(c) == calls[c].op = "RunInSandbox" /\ calls[c].pc \in {"publish", "answer"}

(* The kubelet starts only what its List returned as not running, and      *)
(* nobody else starts anything.                                            *)
NotRunning ==
  /\ \A c \in Conns : BeforeStart(c) \/ AfterStop(c) => ~Running(calls[c].pod)
  /\ \A p \in Pods :
       kubelet.plan[p] \in {"RunPodSandbox", "RunInSandbox"} /\ Running(p) =>
         \E c \in Conns : calls[c].pod = p /\ HasStarted(c)

(* No process is lost track of: one that has not ended is the map's, or    *)
(* about to be. What a waiter has closed has ended, and is marked.         *)
ProcessOK(i) ==
  /\ managed[i].process = "none" => managed[i] = Unborn
  /\ managed[i].process # "none" => managed[i].pod \in Pods
  /\ managed[i].waiter = "none" => managed[i].state = "Running"
  /\ managed[i].waiter \in {"publishes", "closed"} =>
       managed[i].process = "dead" /\ (containers[managed[i].pod] = i => managed[i].state = "Stopped")
  /\ managed[i].process \in {"live", "killed"} =>
       containers[managed[i].pod] = i \/ \E c \in Conns : At(c, "register") /\ calls[c].id = i

ProcessesOK == \A i \in Containers : ProcessOK(i)

Mapped ==
  \A p \in Pods : containers[p] # 0 => managed[containers[p]].pod = p /\ managed[containers[p]].waiter # "none"

(* As long as it has not been woken, the kubelet's watch is open.          *)
WatchOpen ==
  \/ kubelet.pc = "watch" \/ kubelet.woken
  \/ kubelet.watch # 0 /\ watchers[kubelet.watch].pc # "free" /\ watchers[kubelet.watch].open

MainOK == (main.id = 0 <=> main.pc \notin {"term", "kill"}) /\ (~Up => main.todo = {})

IInv == TypeOK /\ OneCall /\ CallsOK /\ NotRunning /\ ProcessesOK /\ Mapped /\ WatchOpen /\ MainOK

LEMMA InitIInv == Init => IInv
<1> SUFFICES ASSUME Init PROVE IInv
  OBVIOUS
<1>1. TypeOK
  <2>1. Unborn \in Managed /\ Free \in Watcher /\ NoCall \in Call
    BY DEF Unborn, Managed, Free, Watcher, NoCall, Call
  <2>2. kubelet \in Kubelet /\ main \in Main
    BY DEF Init, Kubelet, Main, NoPlan, Plans
  <2> QED
    BY <2>1, <2>2, RuntimeAssumption DEF Init, TypeOK, Unborn
<1>2. OneCall /\ CallsOK /\ NotRunning /\ Mapped
  BY DEF Init, OneCall, CallsOK, CallOK, NotRunning, BeforeStart, AfterStop, NoCall, At, Ranging, NoPlan, Running, Mapped
<1>3. ProcessesOK /\ WatchOpen /\ MainOK
  BY DEF Init, ProcessesOK, ProcessOK, Unborn, WatchOpen, MainOK, Up
<1> QED
  BY <1>1, <1>2, <1>3 DEF IInv

-----------------------------------------------------------------------------
(* What the operators of Runtime do.                                       *)

(* A process may end or get a signal; nothing else of an entry changes.    *)
KeepsEntries ==
  \A j \in Containers :
    \/ managed'[j] = managed[j]
    \/ /\ managed[j].process \in {"live", "killed"} /\ managed'[j].process \in {"killed", "dead"}
       /\ managed'[j].pod = managed[j].pod /\ managed'[j].state = managed[j].state
       /\ managed'[j].waiter = managed[j].waiter

(* What the entry of a container says of its process is true.              *)
TrueState(i) == managed[i].state = "Stopped" => managed[i].process = "dead" /\ managed[i].waiter # "waits"

LEMMA NothingKept == UNCHANGED managed => KeepsEntries
BY DEF KeepsEntries

LEMMA KillType ==
  ASSUME TypeOK, NEW i \in Containers \cup {0}, managed' = Kill(i)
  PROVE  managed' \in [Containers -> Managed] /\ KeepsEntries /\ \A j \in Containers : TrueState(j)'
<1>1. managed \in [Containers -> Managed] /\ \A j \in Containers : TrueState(j)
  BY DEF TypeOK, TrueState
<1>2. CASE i = 0
  <2>1. managed' = managed
    BY <1>1, <1>2 DEF Kill, Containers
  <2> QED
    BY <1>1, <2>1 DEF KeepsEntries, TrueState
<1>3. CASE i \in Containers
  <2>1. \A j \in Containers : j # i => managed'[j] = managed[j]
    BY <1>1 DEF Kill
  <2>2. /\ managed'[i].process = IF managed[i].process = "live" THEN "killed" ELSE managed[i].process
        /\ managed'[i] = [managed[i] EXCEPT !.process = managed'[i].process]
    BY <1>1, <1>3 DEF Kill, Managed
  <2>3. managed'[i] \in Managed /\ managed' \in [Containers -> Managed]
    BY <1>1, <1>3, <2>2 DEF Kill, Managed
  <2>4. managed[i].process # "live" => managed'[i] = managed[i]
    BY <1>1, <1>3, <2>2 DEF Managed
  <2>5. managed[i].process = "live" =>
          /\ managed'[i].process = "killed" /\ managed'[i].pod = managed[i].pod
          /\ managed'[i].state = managed[i].state /\ managed'[i].waiter = managed[i].waiter
    BY <1>1, <1>3, <2>2 DEF Managed
  <2>6. KeepsEntries
    BY <2>1, <2>4, <2>5 DEF KeepsEntries
  <2>7. \A j \in Containers : TrueState(j)'
    BY <1>1, <2>1, <2>4, <2>5 DEF TrueState
  <2> QED
    BY <2>3, <2>6, <2>7
<1> QED
  BY <1>2, <1>3

LEMMA PublishedType ==
  ASSUME TypeOK
  PROVE  /\ Published \in [Watches -> Watcher]
         /\ \A w \in Watches :
              /\ Published[w].pc = watchers[w].pc /\ Published[w].open = watchers[w].open
              /\ watchers[w].pc # "free" => Published[w].event
BY DEF TypeOK, Published, Watcher

(* Handler c goes on with the same call, and no other handler does a step. *)
Same(c) ==
  /\ calls' \in [Conns -> Call]
  /\ calls'[c].op = calls[c].op /\ calls'[c].pod = calls[c].pod
  /\ \A d \in Conns : d # c => calls'[d] = calls[d]

LEMMA GotoStep ==
  ASSUME TypeOK, NEW c \in Conns, NEW pc \in {"remove", "publish", "kill"}, Goto(c, pc)
  PROVE  Same(c) /\ calls'[c].pc = pc /\ calls'[c].id = calls[c].id /\ calls'[c].ok = calls[c].ok
BY DEF TypeOK, Goto, Same, Call

LEMMA ReplyStep ==
  ASSUME TypeOK, NEW c \in Conns, NEW ok \in BOOLEAN, Reply(c, ok)
  PROVE  Same(c) /\ calls'[c].pc = "answer" /\ calls'[c].id = calls[c].id /\ calls'[c].ok = ok
BY DEF TypeOK, Reply, Same, Call

(* ... with container i.                                                   *)
LEMMA TakeStep ==
  ASSUME TypeOK, NEW c \in Conns, NEW i \in Containers, NEW pc \in {"register", "term"},
         calls' = [calls EXCEPT ![c].pc = pc, ![c].id = i]
  PROVE  Same(c) /\ calls'[c].pc = pc /\ calls'[c].id = i /\ calls'[c].ok = calls[c].ok
BY DEF TypeOK, Same, Call

-----------------------------------------------------------------------------
(* Every step keeps the types.                                             *)

LEMMA TypeKubelet ==
  ASSUME IInv, List \/ Refused \/ Wake \/ ApiEvent \/ \E w \in Watches : OpenWatch(w)
  PROVE  TypeOK'
<1>1. UNCHANGED <<containers, managed, sandboxes, calls, main>> /\ TypeOK
  BY DEF List, Refused, Wake, ApiEvent, OpenWatch, IInv
<1>2. kubelet \in Kubelet /\ watchers \in [Watches -> Watcher]
  BY <1>1 DEF TypeOK
<1>3. CASE List \/ Wake
  <2>1. kubelet' \in Kubelet
    BY <1>2, <1>3 DEF List, Wake, Kubelet
  <2> QED
    BY <1>1, <1>3, <2>1 DEF List, Wake, TypeOK
<1>4. CASE Refused
  <2>1. kubelet' \in Kubelet
    BY <1>2, <1>4 DEF Refused, Abort, NoPlan, Plans, Kubelet
  <2> QED
    BY <1>1, <1>4, <2>1 DEF Refused, TypeOK
<1>5. CASE ApiEvent
  <2>1. kubelet' \in Kubelet
    BY <1>2, <1>5 DEF ApiEvent, Kubelet
  <2>2. watchers' \in [Watches -> Watcher]
    BY <1>2, <1>5 DEF ApiEvent, Watcher
  <2>3. troubles' \in 0..MaxTroubles
    BY <1>1, <1>5, RuntimeAssumption DEF ApiEvent, Trouble, TypeOK
  <2> QED
    BY <1>1, <2>1, <2>2, <2>3 DEF TypeOK
<1>6. ASSUME NEW w \in Watches, OpenWatch(w) PROVE TypeOK'
  <2>1. kubelet' \in Kubelet
    BY <1>2, <1>6 DEF OpenWatch, Kubelet
  <2>2. watchers' \in [Watches -> Watcher]
    BY <1>2, <1>6 DEF OpenWatch, Watcher
  <2> QED
    BY <1>1, <1>6, <2>1, <2>2 DEF OpenWatch, TypeOK
<1> QED
  BY <1>3, <1>4, <1>5, <1>6

LEMMA TypeCall ==
  ASSUME IInv, NEW c \in Conns, Answer(c) \/ \E p \in Pods : Request(c, p)
  PROVE  TypeOK'
<1>1. UNCHANGED <<containers, managed, sandboxes, watchers, main, troubles>> /\ TypeOK
  BY DEF Answer, Request, IInv
<1>2. CASE Answer(c)
  <2>1. calls' \in [Conns -> Call]
    BY <1>1, <1>2 DEF Answer, NoCall, Call, TypeOK
  <2>2. Abort \in Kubelet
    BY <1>1 DEF Abort, NoPlan, Plans, Kubelet, TypeOK
  <2>3. Following(calls[c].op) \in Plans
    BY DEF Following, Plans
  <2>4. kubelet' \in Kubelet
    BY <1>1, <1>2, <2>2, <2>3 DEF Answer, Kubelet, TypeOK
  <2> QED
    BY <1>1, <2>1, <2>4 DEF TypeOK
<1>3. ASSUME NEW p \in Pods, Request(c, p) PROVE TypeOK'
  <2>1. kubelet.plan[p] \in {"RunPodSandbox", "RunInSandbox", "Stop", "StopPodSandbox"}
    BY <1>1, <1>3 DEF Request, Kubelet, Plans, TypeOK
  <2>2. [NoCall EXCEPT !.pc = "begin", !.op = kubelet.plan[p], !.pod = p] \in Call
    BY <2>1 DEF NoCall, Call
  <2>3. calls' \in [Conns -> Call] /\ kubelet' \in Kubelet
    BY <1>1, <1>3, <2>2 DEF Request, Kubelet, TypeOK
  <2> QED
    BY <1>1, <2>3 DEF TypeOK
<1> QED
  BY <1>2, <1>3

LEMMA TypeWatch == ASSUME IInv, NEW w \in Watches, WatchStep(w) PROVE TypeOK'
<1>1. UNCHANGED <<containers, managed, sandboxes, calls, main, troubles>> /\ TypeOK
  BY DEF WatchStep, AcceptWatch, Receive, Send, IInv
<1>2. watchers' \in [Watches -> Watcher]
  <2>1. CASE AcceptWatch(w)
    BY <1>1, <2>1 DEF AcceptWatch, Watcher, TypeOK
  <2>2. CASE Receive(w)
    BY <1>1, <2>2 DEF Receive, Watcher, TypeOK
  <2>3. CASE Send(w)
    BY <1>1, <2>3 DEF Send, Ended, Free, Watcher, TypeOK
  <2> QED
    BY <2>1, <2>2, <2>3 DEF WatchStep
<1>3. kubelet' \in Kubelet
  <2>1. watchers[w].open \in BOOLEAN
    BY <1>1 DEF Watcher, TypeOK
  <2> QED
    BY <1>1, <2>1 DEF WatchStep, AcceptWatch, Receive, Send, Kubelet, TypeOK
<1> QED
  BY <1>1, <1>2, <1>3 DEF TypeOK

LEMMA TypeMain == ASSUME IInv, Terminate \/ StopAllStep PROVE TypeOK'
<1>1. UNCHANGED <<containers, sandboxes, watchers, calls, kubelet, troubles>> /\ TypeOK
  BY DEF Terminate, StopAllStep, OneStopped, OneTimesOut, ExitMain, StopOne, IInv
<1>2. main' \in Main
  <2>1. main \in Main
    BY <1>1 DEF TypeOK
  <2>2. CASE Terminate
    BY <2>1, <2>2 DEF Terminate, Main
  <2>3. CASE OneStopped \/ OneTimesOut \/ ExitMain
    BY <2>1, <2>3 DEF OneStopped, OneTimesOut, ExitMain, Main
  <2>4. ASSUME NEW p \in Pods, StopOne(p) PROVE main' \in Main
    <3>1. containers[p] \in Containers \cup {0}
      BY <1>1 DEF TypeOK
    <3> QED
      BY <2>1, <2>4, <3>1 DEF StopOne, Main
  <2> QED
    BY <2>2, <2>3, <2>4 DEF StopAllStep
<1>3. CASE OneTimesOut
  <2>1. managed' = Kill(main.id) /\ main.id \in Containers \cup {0}
    BY <1>1, <1>3 DEF OneTimesOut, Main, TypeOK
  <2> QED
    BY <1>1, <1>2, <2>1, KillType DEF TypeOK, TrueState
<1>4. CASE UNCHANGED managed
  BY <1>1, <1>2, <1>4 DEF TypeOK
<1> QED
  BY <1>3, <1>4 DEF Terminate, StopAllStep, OneStopped, ExitMain, StopOne

LEMMA TypeWaiter == ASSUME IInv, NEW i \in Containers, WaiterStep(i) \/ Exit(i) PROVE TypeOK'
<1>1. UNCHANGED <<containers, sandboxes, calls, main, kubelet, troubles>> /\ TypeOK /\ ProcessOK(i)
  BY DEF WaiterStep, MarkStopped, PublishStopped, Exit, IInv, ProcessesOK
<1>2. watchers' \in [Watches -> Watcher]
  BY <1>1, PublishedType DEF WaiterStep, MarkStopped, PublishStopped, Exit, TypeOK
<1>3. managed' \in [Containers -> Managed]
  <2>1. CASE MarkStopped(i)
    <3>1. Marked(i) \in Managed
      BY <1>1 DEF Marked, Managed, TypeOK
    <3> QED
      BY <1>1, <2>1, <3>1 DEF MarkStopped, TypeOK
  <2>2. CASE PublishStopped(i) \/ Exit(i)
    BY <1>1, <2>2 DEF PublishStopped, Exit, Managed, TypeOK
  <2> QED
    BY <2>1, <2>2 DEF WaiterStep
<1>4. \A j \in Containers : j # i => managed'[j] = managed[j]
  BY <1>1 DEF WaiterStep, MarkStopped, PublishStopped, Exit, TypeOK
<1>5. TrueState(i)'
  BY <1>1 DEF WaiterStep, MarkStopped, Marked, PublishStopped, Exit, Managed, TypeOK, TrueState, ProcessOK
<1> QED
  BY <1>1, <1>2, <1>3, <1>4, <1>5 DEF TypeOK, TrueState

LEMMA TypeHandler == ASSUME IInv, NEW c \in Conns, CallStep(c) \/ CallFails(c) PROVE TypeOK'
<1>1. TypeOK /\ CallOK(c) /\ UNCHANGED <<main, kubelet>>
  BY DEF CallStep, CallFails, RunPodSandbox, StartProcess, Register, BeginStop, BeginStopPodSandbox, Stopped,
         StopTimesOut, RemoveSandbox, PublishCall, IInv, CallsOK
<1>2. calls[c].pod \in Pods
  BY <1>1 DEF CallStep, CallFails, RunPodSandbox, StartProcess, Register, BeginStop, BeginStopPodSandbox, Stopped,
              StopTimesOut, RemoveSandbox, PublishCall, CallOK, At
<1>3. calls[c].id \in Containers \cup {0}
  BY <1>1 DEF TypeOK, Call
<1>4. CASE CallFails(c)
  <2>1. calls' \in [Conns -> Call]
    BY <1>1, <1>4, ReplyStep DEF CallFails, Same
  <2>2. troubles' \in 0..MaxTroubles
    BY <1>1, <1>4, RuntimeAssumption DEF CallFails, Trouble, TypeOK
  <2> QED
    BY <1>1, <1>4, <2>1, <2>2 DEF CallFails, TypeOK
<1>5. CASE RunPodSandbox(c) \/ RemoveSandbox(c) \/ Stopped(c) \/ PublishCall(c)
  <2>1. calls' \in [Conns -> Call]
    BY <1>1, <1>5, ReplyStep, GotoStep DEF RunPodSandbox, RemoveSandbox, Stopped, PublishCall, Same
  <2>2. watchers' \in [Watches -> Watcher]
    BY <1>1, <1>5, PublishedType DEF RunPodSandbox, RemoveSandbox, Stopped, PublishCall, TypeOK
  <2>3. sandboxes' \subseteq Pods /\ UNCHANGED <<containers, managed, troubles>>
    BY <1>1, <1>2, <1>5 DEF RunPodSandbox, RemoveSandbox, Stopped, PublishCall, TypeOK
  <2> QED
    BY <1>1, <2>1, <2>2, <2>3 DEF TypeOK
<1>6. CASE BeginStop(c) \/ BeginStopPodSandbox(c)
  <2>1. CASE Running(calls[c].pod) /\ calls' = [calls EXCEPT ![c].pc = "term", ![c].id = containers[calls[c].pod]]
    <3>1. containers[calls[c].pod] \in Containers
      BY <1>1, <1>2, <2>1 DEF Running, TypeOK
    <3>2. calls' \in [Conns -> Call]
      BY <1>1, <2>1, <3>1, TakeStep DEF Same
    <3> QED
      BY <1>1, <1>6, <3>2 DEF BeginStop, BeginStopPodSandbox, TypeOK
  <2>2. CASE Reply(c, containers[calls[c].pod] # 0) \/ Reply(c, FALSE) \/ Goto(c, "remove")
    <3>1. calls' \in [Conns -> Call]
      BY <1>1, <2>2, ReplyStep, GotoStep DEF Same
    <3> QED
      BY <1>1, <1>6, <3>1 DEF BeginStop, BeginStopPodSandbox, TypeOK
  <2> QED
    BY <1>6, <2>1, <2>2 DEF BeginStop, BeginStopPodSandbox
<1>7. CASE StopTimesOut(c)
  BY <1>1, <1>3, <1>7, GotoStep, KillType DEF StopTimesOut, Same, TypeOK, TrueState
<1>8. CASE StartProcess(c)
  <2> DEFINE unborn == {i \in Containers : managed[i].process = "none"}
  <2>1. CASE calls[c].pod \notin sandboxes \/ unborn = {}
    BY <1>1, <1>8, <2>1, ReplyStep DEF StartProcess, Same, TypeOK
  <2>2. CASE ~(calls[c].pod \notin sandboxes \/ unborn = {})
    <3>1. PICK i \in unborn :
            /\ managed' = [managed EXCEPT ![i].pod = calls[c].pod, ![i].process = "live"]
            /\ calls' = [calls EXCEPT ![c].pc = "register", ![c].id = i]
      BY <1>8, <2>2 DEF StartProcess
    <3>2. managed[i] = Unborn
      BY DEF IInv, ProcessesOK, ProcessOK
    <3>3. managed' \in [Containers -> Managed] /\ \A j \in Containers : TrueState(j)'
      BY <1>1, <1>2, <3>1, <3>2 DEF Unborn, Managed, TypeOK, TrueState
    <3> QED
      BY <1>1, <1>8, <3>1, <3>3, TakeStep DEF StartProcess, Same, TypeOK, TrueState
  <2> QED
    BY <2>1, <2>2
<1>9. CASE Register(c)
  <2>1. calls[c].id \in Containers /\ ProcessOK(calls[c].id) /\ managed[calls[c].id].waiter = "none"
    BY <1>1, <1>3, <1>9 DEF Register, CallOK, At, IInv, ProcessesOK
  <2>2. managed[calls[c].id].state = "Running"
    BY <2>1 DEF ProcessOK
  <2>3. managed' \in [Containers -> Managed] /\ \A j \in Containers : TrueState(j)'
    BY <1>1, <1>9, <2>1, <2>2 DEF Register, Managed, TypeOK, TrueState
  <2>4. calls' \in [Conns -> Call]
    BY <1>1, <1>9, GotoStep DEF Register, Same
  <2> QED
    BY <1>1, <1>2, <1>9, <2>1, <2>3, <2>4 DEF Register, TypeOK, TrueState
<1> QED
  BY <1>4, <1>5, <1>6, <1>7, <1>8, <1>9 DEF CallStep

LEMMA TypePreserved == IInv /\ [Next]_vars => TypeOK'
<1> SUFFICES ASSUME IInv, [Next]_vars PROVE TypeOK'
  OBVIOUS
<1>1. CASE KubeletStep \/ ApiEvent
  BY <1>1, TypeKubelet, TypeCall DEF KubeletStep
<1>2. CASE RuntimeStep \/ Terminate
  BY <1>2, TypeMain, TypeWatch, TypeWaiter, TypeHandler DEF RuntimeStep
<1>3. CASE \/ \E i \in Containers : Exit(i)
           \/ \E c \in Conns : CallFails(c)
  BY <1>3, TypeWaiter, TypeHandler
<1>4. CASE UNCHANGED vars
  BY <1>4 DEF vars, IInv, TypeOK
<1> QED
  BY <1>1, <1>2, <1>3, <1>4 DEF Next

-----------------------------------------------------------------------------
(* Every step keeps the rest of the invariant. First what the steps that   *)
(* touch no map have in common.                                            *)

LEMMA EntriesKept ==
  ASSUME IInv, KeepsEntries, UNCHANGED containers,
         \A c \in Conns : At(c, "register") => At(c, "register")' /\ calls'[c].id = calls[c].id
  PROVE  /\ ProcessesOK' /\ Mapped'
         /\ \A p \in Pods : Running(p)' <=> Running(p)
         /\ \A i \in Containers :
              managed'[i].pod = managed[i].pod /\ managed'[i].waiter = managed[i].waiter /\ managed'[i].state = managed[i].state
<1>1. \A i \in Containers :
        managed'[i].pod = managed[i].pod /\ managed'[i].waiter = managed[i].waiter /\ managed'[i].state = managed[i].state
  BY DEF KeepsEntries
<1>2. containers \in [Pods -> Containers \cup {0}]
  BY DEF IInv, TypeOK
<1>3. Mapped' /\ \A p \in Pods : Running(p)' <=> Running(p)
  BY <1>1, <1>2 DEF IInv, Mapped, Running
<1>4. ASSUME NEW i \in Containers PROVE ProcessOK(i)'
  <2>1. ProcessOK(i)
    BY DEF IInv, ProcessesOK
  <2>2. (\E c \in Conns : At(c, "register") /\ calls[c].id = i) => (\E c \in Conns : At(c, "register") /\ calls[c].id = i)'
    OBVIOUS
  <2>3. CASE managed'[i] = managed[i]
    BY <2>1, <2>2, <2>3 DEF ProcessOK
  <2>4. CASE managed'[i] # managed[i]
    <3>1. managed[i].process \in {"live", "killed"} /\ managed'[i].process \in {"killed", "dead"}
      BY <2>4 DEF KeepsEntries
    <3> QED
      BY <1>1, <2>1, <2>2, <3>1 DEF ProcessOK
  <2> QED
    BY <2>3, <2>4
<1> QED
  BY <1>1, <1>3, <1>4 DEF ProcessesOK

(* No handler does a step, and the kubelet does not plan to start more.    *)
LEMMA StepBeside ==
  ASSUME IInv, TypeOK', KeepsEntries, UNCHANGED <<containers, sandboxes, calls>>,
         \A p \in Pods :
           kubelet'.plan[p] \in {"RunPodSandbox", "RunInSandbox"} => kubelet.plan[p] = kubelet'.plan[p] \/ ~Running(p),
         OneCall', WatchOpen', MainOK'
  PROVE  IInv'
<1>1. /\ ProcessesOK' /\ Mapped'
      /\ \A p \in Pods : Running(p)' <=> Running(p)
      /\ \A i \in Containers : managed'[i].pod = managed[i].pod /\ managed'[i].waiter = managed[i].waiter
  BY EntriesKept DEF At
<1>2. ASSUME NEW c \in Conns PROVE CallOK(c)'
  <2>1. CallOK(c) /\ calls[c].id \in Containers \cup {0}
    BY DEF IInv, CallsOK, TypeOK, Call
  <2> QED
    BY <1>1, <2>1 DEF CallOK, At, Ranging
<1>3. NotRunning'
  <2>1. \A c \in Conns : BeforeStart(c) \/ AfterStop(c) => calls[c].pod \in Pods
    BY DEF IInv, CallsOK, CallOK, BeforeStart, AfterStop
  <2> QED
    BY <1>1, <2>1 DEF IInv, NotRunning, BeforeStart, AfterStop, HasStarted, At
<1> QED
  BY <1>1, <1>2, <1>3 DEF IInv, CallsOK

LEMMA OneHandler ==
  ASSUME IInv, NEW c \in Conns, ~At(c, "idle")
  PROVE  \A d \in Conns : d # c => At(d, "idle") /\ calls[d].op = "none"
BY DEF IInv, OneCall, CallsOK, CallOK

(* A step of the one handler that is at work, but for registering.         *)
LEMMA StepCall ==
  ASSUME IInv, TypeOK', NEW c \in Conns, ~At(c, "idle"), ~At(c, "register"), KeepsEntries,
         UNCHANGED <<containers, main, kubelet>>, WatchOpen',
         Same(c), ~At(c, "idle")', CallOK(c)',
         (BeforeStart(c) \/ AfterStop(c))' => ~Running(calls[c].pod),
         HasStarted(c) => HasStarted(c)'
  PROVE  IInv'
<1>1. /\ \A d \in Conns : d # c => calls'[d] = calls[d] /\ At(d, "idle") /\ calls[d].op = "none"
      /\ calls'[c].op = calls[c].op /\ calls'[c].pod = calls[c].pod
  BY OneHandler DEF Same
<1>2. OneCall' /\ MainOK'
  BY <1>1 DEF IInv, OneCall, At, Up, MainOK
<1>3. ProcessesOK' /\ Mapped' /\ \A p \in Pods : Running(p)' <=> Running(p)
  BY <1>1, EntriesKept DEF At
<1>4. ASSUME NEW d \in Conns, d # c PROVE CallOK(d)'
  BY <1>1, <1>4 DEF CallOK, At, Ranging
<1>5. calls[c].pod \in Pods
  BY DEF IInv, CallsOK, CallOK
<1>6. ASSUME NEW d \in Conns, (BeforeStart(d) \/ AfterStop(d))' PROVE ~Running(calls[d].pod)'
  <2>1. d = c
    BY <1>1, <1>6 DEF BeforeStart, AfterStop
  <2> QED
    BY <1>1, <1>3, <1>5, <1>6, <2>1
<1>7. ASSUME NEW p \in Pods, kubelet'.plan[p] \in {"RunPodSandbox", "RunInSandbox"}, Running(p)'
      PROVE  \E d \in Conns : calls'[d].pod = p /\ HasStarted(d)'
  <2>1. PICK d \in Conns : calls[d].pod = p /\ HasStarted(d)
    BY <1>3, <1>7 DEF IInv, NotRunning
  <2>2. d = c
    BY <1>1, <2>1 DEF HasStarted
  <2> QED
    BY <1>1, <2>1, <2>2
<1>8. NotRunning'
  BY <1>6, <1>7 DEF NotRunning
<1> QED
  BY <1>2, <1>3, <1>4, <1>8 DEF IInv, CallsOK

LEMMA StepKubelet ==
  ASSUME IInv, TypeOK', List \/ Refused \/ Wake \/ ApiEvent \/ \E w \in Watches : OpenWatch(w)
  PROVE  IInv'
<1>1. UNCHANGED <<containers, managed, sandboxes, calls, main>> /\ KeepsEntries
  BY NothingKept DEF List, Refused, Wake, ApiEvent, OpenWatch
<1>2. MainOK' /\ kubelet \in Kubelet /\ (Up' <=> Up) /\ WatchOpen /\ watchers \in [Watches -> Watcher]
  BY <1>1 DEF IInv, MainOK, Up, TypeOK
<1>3. CASE List
  <2>1. PICK plan \in [Pods -> Plans] :
          (\A p \in Pods : plan[p] \in ToBeCalled(p)) /\ kubelet' = [kubelet EXCEPT !.pc = "act", !.plan = plan]
    BY <1>3 DEF List
  <2>2. /\ kubelet'.pc = "act" /\ kubelet'.plan = plan /\ kubelet'.conn = kubelet.conn
        /\ kubelet'.watch = kubelet.watch /\ kubelet'.woken = kubelet.woken
    BY <1>2, <2>1 DEF Kubelet
  <2>3. OneCall' /\ WatchOpen'
    <3>1. UNCHANGED <<calls, watchers>> /\ OneCall
      BY <1>3 DEF List, IInv
    <3>2. OneCall'
      BY <1>2, <2>2, <3>1 DEF OneCall, At
    <3>3. WatchOpen'
      BY <1>2, <1>3, <2>2, <3>1 DEF List, WatchOpen
    <3> QED
      BY <3>2, <3>3
  <2>4. \A p \in Pods : plan[p] \in {"RunPodSandbox", "RunInSandbox"} => ~Running(p)
    BY <2>1 DEF ToBeCalled
  <2> QED
    BY <1>1, <1>2, <2>2, <2>3, <2>4, StepBeside
<1>4. CASE Refused
  <2>1. kubelet'.pc = "watch" /\ kubelet'.plan = NoPlan /\ kubelet'.conn = 0
    BY <1>2, <1>4 DEF Refused, Abort, Kubelet
  <2>2. OneCall'
    <3>1. Up => kubelet.conn = 0
      BY <1>4 DEF Refused
    <3> QED
      BY <1>1, <1>2, <2>1, <3>1 DEF IInv, OneCall, At
  <2>3. WatchOpen'
    BY <2>1 DEF WatchOpen
  <2> QED
    BY <1>1, <1>2, <2>1, <2>2, <2>3, StepBeside DEF NoPlan
<1>5. CASE Wake \/ ApiEvent
  <2>1. (kubelet'.pc = "watch" \/ kubelet'.woken) /\ kubelet'.plan = kubelet.plan /\ kubelet'.conn = kubelet.conn
    BY <1>2, <1>5 DEF Wake, ApiEvent, Kubelet
  <2>2. OneCall' /\ WatchOpen'
    BY <1>1, <1>2, <2>1 DEF IInv, OneCall, At, WatchOpen
  <2> QED
    BY <1>1, <1>2, <2>1, <2>2, StepBeside
<1>6. ASSUME NEW w \in Watches, OpenWatch(w) PROVE IInv'
  <2>1. kubelet'.plan = kubelet.plan /\ kubelet'.conn = kubelet.conn /\ kubelet'.watch = w
    BY <1>2, <1>6 DEF OpenWatch, Kubelet
  <2>2. watchers'[w].pc = "accept" /\ watchers'[w].open
    BY <1>2, <1>6 DEF OpenWatch
  <2>3. OneCall' /\ WatchOpen'
    BY <1>1, <1>2, <2>1, <2>2 DEF IInv, OneCall, At, WatchOpen, Watches
  <2> QED
    BY <1>1, <1>2, <2>1, <2>3, StepBeside
<1> QED
  BY <1>3, <1>4, <1>5, <1>6

LEMMA StepRequest ==
  ASSUME IInv, TypeOK', NEW c \in Conns, NEW p \in Pods, Request(c, p)
  PROVE  IInv'
<1>1. UNCHANGED <<containers, managed, sandboxes, watchers, main, troubles>> /\ KeepsEntries /\ Up /\ Up'
  BY NothingKept DEF Request, Serving, Up
<1>2. kubelet \in Kubelet /\ calls \in [Conns -> Call]
  BY DEF IInv, TypeOK
<1>3. \A d \in Conns : At(d, "idle") /\ calls[d].op = "none"
  BY <1>1 DEF Request, IInv, OneCall, CallsOK, CallOK, Conns
<1>4. /\ kubelet'.plan = kubelet.plan /\ kubelet'.conn = c /\ kubelet'.pc = kubelet.pc
      /\ kubelet'.watch = kubelet.watch /\ kubelet'.woken = kubelet.woken
  BY <1>2 DEF Request, Kubelet
<1>5. /\ calls'[c].pc = "begin" /\ calls'[c].op = kubelet.plan[p] /\ calls'[c].pod = p
      /\ \A d \in Conns : d # c => calls'[d] = calls[d]
  BY <1>2 DEF Request, NoCall
<1>6. kubelet.plan[p] \in {"RunPodSandbox", "RunInSandbox", "Stop", "StopPodSandbox"}
  BY <1>2 DEF Request, Kubelet, Plans
<1>7. OneCall' /\ WatchOpen' /\ MainOK'
  BY <1>1, <1>3, <1>4, <1>5 DEF IInv, OneCall, At, WatchOpen, MainOK, Up
<1>8. ProcessesOK' /\ Mapped' /\ \A q \in Pods : Running(q)' <=> Running(q)
  BY <1>1, <1>3, EntriesKept DEF At
<1>9. ASSUME NEW d \in Conns PROVE CallOK(d)'
  BY <1>3, <1>5, <1>6 DEF CallOK, At, Ranging
<1>10. \A q \in Pods : kubelet.plan[q] \in {"RunPodSandbox", "RunInSandbox"} => ~Running(q)
  BY <1>3 DEF IInv, NotRunning, HasStarted
<1>11. NotRunning'
  <2>1. ASSUME NEW d \in Conns, (BeforeStart(d) \/ AfterStop(d))' PROVE ~Running(calls[d].pod)'
    <3>1. d = c /\ kubelet.plan[p] \in {"RunPodSandbox", "RunInSandbox"}
      BY <1>3, <1>5, <2>1 DEF BeforeStart, AfterStop, At
    <3> QED
      BY <1>5, <1>8, <1>10, <3>1
  <2> QED
    BY <1>4, <1>8, <1>10, <2>1 DEF NotRunning
<1> QED
  BY <1>7, <1>8, <1>9, <1>11 DEF IInv, CallsOK

LEMMA StepAnswer == ASSUME IInv, TypeOK', NEW c \in Conns, Answer(c) PROVE IInv'
<1>1. UNCHANGED <<containers, managed, sandboxes, watchers, main, troubles>> /\ KeepsEntries /\ At(c, "answer")
  BY NothingKept DEF Answer, Over, At
<1>2. kubelet \in Kubelet /\ calls \in [Conns -> Call]
  BY DEF IInv, TypeOK
<1>3. \A d \in Conns : d # c => At(d, "idle") /\ calls[d].op = "none"
  BY <1>1, OneHandler DEF At
<1>4. calls'[c] = NoCall /\ \A d \in Conns : d # c => calls'[d] = calls[d]
  BY <1>1, <1>2 DEF Answer, At
<1>5. \A d \in Conns : calls'[d].pc = "idle" /\ calls'[d].op = "none"
  BY <1>3, <1>4 DEF NoCall, At
<1>6. OneCall' /\ MainOK'
  BY <1>1, <1>5 DEF IInv, OneCall, At, MainOK, Up
<1>7. ProcessesOK' /\ Mapped' /\ \A q \in Pods : Running(q)' <=> Running(q)
  BY <1>1, <1>3, EntriesKept DEF At
<1>8. \A d \in Conns : CallOK(d)'
  BY <1>5 DEF CallOK, At, Ranging
<1>9. calls[c].pod \in Pods /\ kubelet.plan \in [Pods -> Plans]
  BY <1>1, <1>2 DEF IInv, CallsOK, CallOK, At, Kubelet
<1>10. WatchOpen'
  BY <1>1, <1>2 DEF Answer, Abort, IInv, WatchOpen, Kubelet
<1>11. ASSUME NEW q \in Pods, kubelet'.plan[q] \in {"RunPodSandbox", "RunInSandbox"} PROVE ~Running(q)
  <2>1. calls[c].ok
    BY <1>2, <1>11 DEF Answer, Abort, NoPlan, Kubelet
  <2>2. kubelet'.plan = [kubelet.plan EXCEPT ![calls[c].pod] = Following(calls[c].op)]
    BY <1>2, <1>9, <2>1 DEF Answer, Kubelet
  <2>3. CASE q = calls[c].pod
    <3>1. calls[c].op = "RunPodSandbox"
      BY <1>9, <1>11, <2>2, <2>3 DEF Following
    <3> QED
      BY <2>3, <3>1 DEF IInv, NotRunning, BeforeStart
  <2>4. CASE q # calls[c].pod
    <3>1. kubelet.plan[q] \in {"RunPodSandbox", "RunInSandbox"}
      BY <1>9, <1>11, <2>2, <2>4
    <3>2. \A d \in Conns : ~(calls[d].pod = q /\ HasStarted(d))
      BY <1>3, <2>4 DEF HasStarted
    <3> QED
      BY <3>1, <3>2 DEF IInv, NotRunning
  <2> QED
    BY <2>3, <2>4
<1>12. NotRunning'
  BY <1>5, <1>7, <1>11 DEF NotRunning, BeforeStart, AfterStop, At
<1> QED
  BY <1>6, <1>7, <1>8, <1>10, <1>12 DEF IInv, CallsOK

LEMMA StepWatch == ASSUME IInv, TypeOK', NEW w \in Watches, WatchStep(w) PROVE IInv'
<1>1. UNCHANGED <<containers, managed, sandboxes, calls, main, troubles>> /\ KeepsEntries
  BY NothingKept DEF WatchStep, AcceptWatch, Receive, Send
<1>2. kubelet \in Kubelet /\ watchers \in [Watches -> Watcher]
  BY DEF IInv, TypeOK
<1>3. /\ kubelet'.plan = kubelet.plan /\ kubelet'.conn = kubelet.conn /\ kubelet'.pc = kubelet.pc
      /\ kubelet'.watch = kubelet.watch /\ (kubelet.woken => kubelet'.woken)
  BY <1>2 DEF WatchStep, AcceptWatch, Receive, Send, Kubelet
<1>4. \A v \in Watches : v # w => watchers'[v] = watchers[v]
  BY <1>2 DEF WatchStep, AcceptWatch, Receive, Send
<1>5. CASE AcceptWatch(w) \/ Receive(w)
  <2>1. watchers'[w].pc # "free" /\ watchers'[w].open = watchers[w].open
    BY <1>2, <1>5 DEF AcceptWatch, Receive, Watcher
  <2>2. WatchOpen'
    BY <1>3, <1>4, <2>1 DEF IInv, TypeOK, Kubelet, WatchOpen
  <2> QED
    BY <1>1, <1>3, <2>2, StepBeside DEF IInv, OneCall, At, Up, MainOK
<1>6. CASE Send(w)
  <2>1. w = kubelet.watch /\ watchers[w].open => kubelet'.woken
    BY <1>2, <1>6 DEF Send, Kubelet, Watcher
  <2>2. WatchOpen'
    BY <1>2, <1>3, <1>4, <2>1 DEF IInv, Kubelet, WatchOpen
  <2> QED
    BY <1>1, <1>3, <2>2, StepBeside DEF IInv, OneCall, At, Up, MainOK
<1> QED
  BY <1>5, <1>6 DEF WatchStep

LEMMA StepMain == ASSUME IInv, TypeOK', Terminate \/ StopAllStep PROVE IInv'
<1>1. UNCHANGED <<containers, sandboxes, watchers, calls, kubelet, troubles>>
  BY DEF Terminate, StopAllStep, OneStopped, OneTimesOut, ExitMain, StopOne
<1>2. main \in Main /\ Up /\ TypeOK /\ main.id \in Containers \cup {0} /\ MainOK
  BY DEF Terminate, StopAllStep, OneStopped, OneTimesOut, ExitMain, StopOne, Up, Serving, IInv, TypeOK, Main
<1>3. KeepsEntries
  <2>1. CASE OneTimesOut
    BY <1>2, <2>1, KillType DEF OneTimesOut
  <2>2. CASE UNCHANGED managed
    BY <2>2, NothingKept
  <2> QED
    BY <2>1, <2>2 DEF Terminate, StopAllStep, OneStopped, ExitMain, StopOne
<1>4. MainOK'
  <2>1. CASE Terminate
    BY <1>2, <2>1 DEF Terminate, Serving, Main, MainOK, Up
  <2>2. CASE OneStopped \/ OneTimesOut \/ ExitMain
    BY <1>2, <2>2 DEF OneStopped, OneTimesOut, ExitMain, Main, MainOK, Up
  <2>3. ASSUME NEW p \in Pods, StopOne(p) PROVE MainOK'
    BY <1>2, <2>3 DEF StopOne, Running, Main, MainOK, Up
  <2> QED
    BY <2>1, <2>2, <2>3 DEF StopAllStep
<1> QED
  BY <1>1, <1>2, <1>3, <1>4, StepBeside DEF IInv, OneCall, At, WatchOpen

LEMMA StepExit == ASSUME IInv, TypeOK', NEW i \in Containers, Exit(i) PROVE IInv'
<1>1. UNCHANGED <<containers, sandboxes, watchers, calls, main, kubelet, troubles>>
  BY DEF Exit
<1>2. KeepsEntries
  BY DEF Exit, KeepsEntries, IInv, TypeOK, Managed
<1> QED
  BY <1>1, <1>2, StepBeside DEF IInv, OneCall, At, Up, WatchOpen, MainOK

LEMMA WatchKept ==
  ASSUME IInv, UNCHANGED watchers \/ watchers' = Published, UNCHANGED kubelet
  PROVE  WatchOpen'
<1>1. WatchOpen /\ TypeOK /\ kubelet.watch \in Watches \cup {0}
  BY DEF IInv, TypeOK, Kubelet
<1> QED
  BY <1>1, PublishedType DEF WatchOpen

LEMMA StepWaiter == ASSUME IInv, TypeOK', NEW i \in Containers, WaiterStep(i) PROVE IInv'
<1>1. UNCHANGED <<containers, sandboxes, calls, main, kubelet, troubles>>
  BY DEF WaiterStep, MarkStopped, PublishStopped
<1>2. /\ managed \in [Containers -> Managed] /\ containers \in [Pods -> Containers \cup {0}]
      /\ ProcessOK(i) /\ managed[i].waiter \in {"waits", "publishes"}
  BY DEF WaiterStep, MarkStopped, PublishStopped, IInv, TypeOK, ProcessesOK
<1>3. OneCall' /\ WatchOpen' /\ MainOK'
  <2>1. UNCHANGED watchers \/ watchers' = Published
    BY DEF WaiterStep, MarkStopped, PublishStopped
  <2> QED
    BY <1>1, <2>1, WatchKept DEF IInv, OneCall, At, Up, MainOK
<1>4. /\ \A j \in Containers : j # i => managed'[j] = managed[j]
      /\ managed'[i].pod = managed[i].pod /\ managed'[i].process = managed[i].process
      /\ managed'[i].waiter \in {"publishes", "closed"}
      /\ managed'[i].state \in {managed[i].state, "Stopped"}
      /\ managed[i].process = "dead"
      /\ containers[managed[i].pod] = i => managed'[i].state = "Stopped"
  <2>1. CASE MarkStopped(i)
    <3>1. managed'[i] = Marked(i) /\ managed[i].process = "dead" /\ \A j \in Containers : j # i => managed'[j] = managed[j]
      BY <1>2, <2>1 DEF MarkStopped
    <3> QED
      BY <1>2, <3>1 DEF Marked, Managed
  <2>2. CASE PublishStopped(i)
    BY <1>2, <2>2 DEF PublishStopped, Managed, ProcessOK
  <2> QED
    BY <2>1, <2>2 DEF WaiterStep
<1>5. ProcessesOK'
  <2>1. ASSUME NEW j \in Containers PROVE ProcessOK(j)'
    <3>1. CASE j = i
      BY <1>1, <1>2, <1>4, <3>1 DEF ProcessOK
    <3>2. CASE j # i
      BY <1>1, <1>4, <3>2 DEF IInv, ProcessesOK, ProcessOK, At
    <3> QED
      BY <3>1, <3>2
  <2> QED
    BY <2>1 DEF ProcessesOK
<1>6. Mapped' /\ \A p \in Pods : Running(p)' => Running(p)
  BY <1>1, <1>2, <1>4 DEF IInv, Mapped, Running
<1>7. ASSUME NEW c \in Conns PROVE CallOK(c)'
  <2>1. CallOK(c) /\ calls[c].id \in Containers \cup {0}
    BY DEF IInv, CallsOK, TypeOK, Call
  <2>2. At(c, "register") => calls[c].id # i
    BY <1>2, <2>1 DEF CallOK
  <2> QED
    BY <1>1, <1>4, <2>1, <2>2 DEF CallOK, At, Ranging
<1>8. NotRunning'
  <2>1. \A c \in Conns : BeforeStart(c) \/ AfterStop(c) => calls[c].pod \in Pods
    BY DEF IInv, CallsOK, CallOK, BeforeStart, AfterStop
  <2> QED
    BY <1>1, <1>6, <2>1 DEF IInv, NotRunning, BeforeStart, AfterStop, HasStarted, At
<1> QED
  BY <1>3, <1>5, <1>6, <1>7, <1>8 DEF IInv, CallsOK

(* A handler answers, or goes on, and touches no map but the sandboxes'.   *)
LEMMA StepReply ==
  ASSUME IInv, TypeOK', NEW c \in Conns, NEW ok \in BOOLEAN, Reply(c, ok), ~At(c, "idle"), ~At(c, "register"),
         UNCHANGED <<containers, managed, main, kubelet>>, UNCHANGED watchers \/ watchers' = Published,
         ok /\ calls[c].op \in {"Stop", "StopPodSandbox"} => ~Running(calls[c].pod)
  PROVE  IInv'
<1>1. Same(c) /\ calls'[c].pc = "answer" /\ calls'[c].ok = ok /\ CallOK(c)
  BY ReplyStep DEF IInv, CallsOK
<1>2. CallOK(c)'
  BY <1>1 DEF Same, CallOK, At, Ranging
<1>3. (BeforeStart(c) \/ AfterStop(c))' => ~Running(calls[c].pod)
  BY <1>1 DEF Same, BeforeStart, AfterStop, At, IInv, NotRunning
<1>4. HasStarted(c) => HasStarted(c)'
  BY <1>1 DEF Same, HasStarted
<1> QED
  BY <1>1, <1>2, <1>3, <1>4, NothingKept, WatchKept, StepCall DEF At

LEMMA StepGoto ==
  ASSUME IInv, TypeOK', NEW c \in Conns, NEW pc \in {"remove", "publish"}, Goto(c, pc), ~At(c, "idle"), ~At(c, "register"),
         calls[c].op \in {"RunPodSandbox", "StopPodSandbox"}, pc = "remove" => calls[c].pod \in sandboxes',
         pc = "remove" => calls[c].op = "StopPodSandbox",
         UNCHANGED <<containers, managed, main, kubelet, watchers>>,
         ~Running(calls[c].pod)
  PROVE  IInv'
<1>1. Same(c) /\ calls'[c].pc = pc /\ CallOK(c)
  BY GotoStep DEF IInv, CallsOK
<1>2. CallOK(c)'
  BY <1>1 DEF Same, CallOK, At, Ranging
<1>3. HasStarted(c) => HasStarted(c)'
  BY DEF HasStarted
<1> QED
  BY <1>1, <1>2, <1>3, NothingKept, WatchKept, StepCall DEF At

LEMMA StepStart == ASSUME IInv, TypeOK', NEW c \in Conns, StartProcess(c) PROVE IInv'
<1> DEFINE unborn == {i \in Containers : managed[i].process = "none"}
<1>1. /\ UNCHANGED <<containers, sandboxes, watchers, main, kubelet, troubles>>
      /\ At(c, "begin") /\ calls[c].op = "RunInSandbox" /\ calls[c].pod \in Pods
  BY DEF StartProcess, IInv, CallsOK, CallOK, At
<1>2. CASE calls[c].pod \notin sandboxes \/ unborn = {}
  <2>1. Reply(c, FALSE) /\ UNCHANGED managed
    BY <1>2 DEF StartProcess
  <2> QED
    BY <1>1, <2>1, StepReply DEF At
<1>3. CASE ~(calls[c].pod \notin sandboxes \/ unborn = {})
  <2>1. PICK i \in unborn :
          /\ managed' = [managed EXCEPT ![i].pod = calls[c].pod, ![i].process = "live"]
          /\ calls' = [calls EXCEPT ![c].pc = "register", ![c].id = i]
    BY <1>3 DEF StartProcess
  <2>2. /\ managed \in [Containers -> Managed] /\ containers \in [Pods -> Containers \cup {0}]
        /\ i # 0 /\ managed[i] = Unborn /\ TypeOK
    BY DEF IInv, TypeOK, Containers, ProcessesOK, ProcessOK
  <2>3. /\ managed'[i].pod = calls[c].pod /\ managed'[i].process = "live" /\ managed'[i].waiter = "none"
        /\ managed'[i].state = "Running"
        /\ \A j \in Containers : j # i => managed'[j] = managed[j]
    BY <2>1, <2>2 DEF Unborn, Managed
  <2>4. /\ calls'[c].pc = "register" /\ calls'[c].id = i /\ calls'[c].op = "RunInSandbox"
        /\ calls'[c].pod = calls[c].pod
        /\ \A d \in Conns : d # c => calls'[d] = calls[d] /\ At(d, "idle") /\ calls[d].op = "none"
    BY <1>1, <2>1, <2>2, TakeStep, OneHandler DEF Same, At
  <2>5. \A p \in Pods : containers[p] # 0 => containers[p] \in Containers /\ containers[p] # i
    BY <2>2 DEF IInv, Mapped, Unborn
  <2>6. Mapped' /\ \A p \in Pods : Running(p)' <=> Running(p)
    BY <1>1, <2>3, <2>5 DEF Running, IInv, Mapped
  <2>7. OneCall' /\ MainOK' /\ WatchOpen'
    BY <1>1, <2>4 DEF IInv, OneCall, At, Up, MainOK, WatchOpen
  <2>8. ASSUME NEW d \in Conns PROVE CallOK(d)'
    BY <1>1, <1>3, <2>2, <2>3, <2>4 DEF CallOK, At, Ranging
  <2>9. ASSUME NEW j \in Containers PROVE ProcessOK(j)'
    <3>1. CASE j = i
      BY <1>1, <2>3, <2>4, <3>1 DEF ProcessOK, At
    <3>2. CASE j # i
      <4>1. ProcessOK(j) /\ \A d \in Conns : ~At(d, "register")
        BY <1>1, <2>4 DEF IInv, ProcessesOK, At
      <4> QED
        BY <1>1, <2>3, <3>2, <4>1 DEF ProcessOK
    <3> QED
      BY <3>1, <3>2
  <2>10. ~Running(calls[c].pod)
    BY <1>1 DEF IInv, NotRunning, BeforeStart, At
  <2>11. ASSUME NEW p \in Pods, kubelet.plan[p] \in {"RunPodSandbox", "RunInSandbox"} PROVE ~Running(p)
    <3>1. \A d \in Conns : ~HasStarted(d)
      BY <1>1, <2>4 DEF HasStarted, At
    <3> QED
      BY <2>11, <3>1 DEF IInv, NotRunning
  <2>12. ASSUME NEW d \in Conns, (BeforeStart(d) \/ AfterStop(d))' PROVE d = c
    BY <2>4, <2>12 DEF BeforeStart, AfterStop
  <2>13. NotRunning'
    BY <1>1, <2>4, <2>6, <2>10, <2>11, <2>12 DEF NotRunning
  <2> QED
    BY <2>6, <2>7, <2>8, <2>9, <2>13 DEF IInv, CallsOK, ProcessesOK
<1> QED
  BY <1>2, <1>3

LEMMA StepRegister == ASSUME IInv, TypeOK', NEW c \in Conns, Register(c) PROVE IInv'
<1>1. /\ UNCHANGED <<sandboxes, watchers, main, kubelet, troubles>> /\ At(c, "register") /\ TypeOK
      /\ calls[c].op = "RunInSandbox" /\ calls[c].pod \in sandboxes
  BY DEF Register, IInv, CallsOK, CallOK
<1>2. PICK p \in Pods, i \in Containers :
        /\ p = calls[c].pod /\ i = calls[c].id /\ i # 0
        /\ managed[i].pod = p /\ managed[i].waiter = "none"
  BY <1>1 DEF IInv, CallsOK, CallOK, At, TypeOK, Call
<1>3. managed \in [Containers -> Managed] /\ containers \in [Pods -> Containers \cup {0}] /\ ProcessOK(i)
  BY DEF IInv, TypeOK, ProcessesOK
<1>4. /\ calls'[c].pc = "publish" /\ calls'[c].op = "RunInSandbox" /\ calls'[c].pod = p
      /\ \A d \in Conns : d # c => calls'[d] = calls[d] /\ At(d, "idle") /\ calls[d].op = "none"
  BY <1>1, <1>2, GotoStep, OneHandler DEF Register, Same, At
<1>5. containers'[p] = i /\ \A q \in Pods : q # p => containers'[q] = containers[q]
  BY <1>2, <1>3 DEF Register
<1>6. /\ managed'[i].waiter = "waits" /\ managed'[i].pod = p /\ managed'[i].state = managed[i].state
      /\ managed'[i].process = managed[i].process
      /\ \A j \in Containers : j # i => managed'[j] = managed[j]
  BY <1>2, <1>3 DEF Register, Managed
<1>7. \A q \in Pods : containers[q] # 0 => containers[q] \in Containers /\ containers[q] # i
  BY <1>2, <1>3 DEF IInv, Mapped
<1>8. Mapped'
  BY <1>2, <1>5, <1>6, <1>7 DEF IInv, Mapped
<1>9. OneCall' /\ MainOK' /\ WatchOpen'
  BY <1>1, <1>4 DEF IInv, OneCall, At, Up, MainOK, WatchOpen
<1>10. ASSUME NEW d \in Conns PROVE CallOK(d)'
  BY <1>1, <1>2, <1>4 DEF CallOK, At, Ranging
<1>11. ~Running(p)
  BY <1>1, <1>2 DEF IInv, NotRunning, BeforeStart, At
<1>12. ASSUME NEW j \in Containers PROVE ProcessOK(j)'
  <2>1. CASE j = i
    <3>1. managed[i].process # "none"
      BY <1>2, <1>3, RuntimeAssumption DEF ProcessOK, Unborn
    <3> QED
      BY <1>2, <1>3, <1>5, <1>6, <2>1, <3>1 DEF ProcessOK
  <2>2. CASE j # i
    <3>1. ProcessOK(j) /\ \A d \in Conns : At(d, "register") => calls[d].id = i
      BY <1>2, <1>4 DEF IInv, ProcessesOK, At
    <3>2. managed[j].process \in {"live", "killed"} => managed[j].pod # p
      <4>1. SUFFICES ASSUME managed[j].process \in {"live", "killed"}, managed[j].pod = p PROVE FALSE
        OBVIOUS
      <4>2. containers[p] = j /\ j # 0
        BY <2>2, <3>1, <4>1 DEF ProcessOK, Containers
      <4>3. managed[j].state = "Running"
        BY <1>1, <1>3, <4>1 DEF TypeOK, Managed
      <4> QED
        BY <1>11, <4>2, <4>3 DEF Running
    <3> QED
      BY <1>2, <1>5, <1>6, <2>2, <3>1, <3>2 DEF ProcessOK
  <2> QED
    BY <2>1, <2>2
<1>13. NotRunning'
  <2>1. ASSUME NEW d \in Conns PROVE ~(BeforeStart(d) \/ AfterStop(d))'
    BY <1>4 DEF BeforeStart, AfterStop, At
  <2>2. \A q \in Pods : q # p => (Running(q)' <=> Running(q))
    BY <1>5, <1>6, <1>7 DEF Running
  <2>3. HasStarted(c)'
    BY <1>4 DEF HasStarted
  <2>4. ASSUME NEW q \in Pods, q # p, kubelet.plan[q] \in {"RunPodSandbox", "RunInSandbox"} PROVE ~Running(q)
    <3>1. \A d \in Conns : ~HasStarted(d)
      BY <1>1, <1>4 DEF HasStarted, At
    <3> QED
      BY <2>4, <3>1 DEF IInv, NotRunning
  <2> QED
    BY <1>1, <1>4, <2>1, <2>2, <2>3, <2>4 DEF NotRunning
<1> QED
  BY <1>8, <1>9, <1>10, <1>12, <1>13 DEF IInv, CallsOK, ProcessesOK

LEMMA StepHandler ==
  ASSUME IInv, TypeOK', NEW c \in Conns,
         \/ CallFails(c) \/ RunPodSandbox(c) \/ BeginStop(c) \/ BeginStopPodSandbox(c) \/ Stopped(c)
         \/ StopTimesOut(c) \/ RemoveSandbox(c) \/ PublishCall(c)
  PROVE  IInv'
<1> DEFINE p == calls[c].pod
<1>1. /\ UNCHANGED <<containers, main, kubelet>> /\ CallOK(c) /\ TypeOK /\ (UNCHANGED watchers \/ watchers' = Published)
      /\ ~At(c, "idle") /\ ~At(c, "register")
  BY DEF CallFails, RunPodSandbox, BeginStop, BeginStopPodSandbox, Stopped, StopTimesOut, RemoveSandbox, PublishCall,
         IInv, CallsOK, At
<1>2. p \in Pods /\ calls[c].id \in Containers \cup {0}
  BY <1>1 DEF CallOK, TypeOK, Call
<1>3. CASE CallFails(c)
  BY <1>1, <1>3, StepReply DEF CallFails
<1>4. CASE RunPodSandbox(c)
  <2>1. ~Running(p) /\ p \in sandboxes'
    BY <1>4 DEF RunPodSandbox, IInv, NotRunning, BeforeStart
  <2> QED
    BY <1>1, <1>4, <2>1, StepReply, StepGoto DEF RunPodSandbox
<1>5. ASSUME Running(p), calls' = [calls EXCEPT ![c].pc = "term", ![c].id = containers[p]],
             calls[c].op = "Stop" \/ (calls[c].op = "StopPodSandbox" /\ p \in sandboxes), At(c, "begin"),
             UNCHANGED <<managed, sandboxes, watchers>>
      PROVE  IInv'
  <2>1. containers[p] \in Containers /\ containers[p] # 0
    BY <1>1, <1>2, <1>5 DEF Running, TypeOK
  <2>2. Same(c) /\ calls'[c].pc = "term" /\ calls'[c].id = containers[p]
    BY <1>1, <1>5, <2>1, TakeStep
  <2>3. CallOK(c)'
    BY <1>1, <1>2, <1>5, <2>1, <2>2 DEF Same, CallOK, At, Ranging
  <2>4. ~(BeforeStart(c) \/ AfterStop(c))' /\ ~HasStarted(c)
    BY <1>5, <2>2 DEF Same, BeforeStart, AfterStop, HasStarted, At
  <2> QED
    BY <1>1, <1>5, <2>2, <2>3, <2>4, NothingKept, WatchKept, StepCall DEF At
<1>6. CASE BeginStop(c)
  <2>1. CASE Running(p)
    BY <1>5, <1>6, <2>1 DEF BeginStop
  <2>2. CASE ~Running(p)
    BY <1>1, <1>6, <2>2, StepReply DEF BeginStop
  <2> QED
    BY <2>1, <2>2
<1>7. CASE BeginStopPodSandbox(c)
  <2>1. CASE p \notin sandboxes
    BY <1>1, <1>7, <2>1, StepReply DEF BeginStopPodSandbox
  <2>2. CASE p \in sandboxes /\ Running(p)
    BY <1>5, <1>7, <2>2 DEF BeginStopPodSandbox
  <2>3. CASE p \in sandboxes /\ ~Running(p)
    BY <1>1, <1>7, <2>3, StepGoto DEF BeginStopPodSandbox
  <2> QED
    BY <2>1, <2>2, <2>3
<1>8. CASE Stopped(c)
  <2>1. /\ containers[p] = calls[c].id /\ calls[c].id \in Containers /\ calls[c].op \in {"Stop", "StopPodSandbox"}
        /\ managed[calls[c].id].waiter = "closed"
    BY <1>1, <1>2, <1>8 DEF Stopped, Done, CallOK
  <2>2. managed[calls[c].id].pod = p /\ ProcessOK(calls[c].id)
    BY <1>1, <1>2, <1>8, <2>1 DEF IInv, Mapped, ProcessesOK, CallOK, Stopped
  <2>3. ~Running(p)
    BY <2>1, <2>2 DEF ProcessOK, Running
  <2>4. calls[c].op = "StopPodSandbox" => p \in sandboxes
    BY <1>1, <1>8 DEF Stopped, CallOK, Ranging
  <2> QED
    BY <1>1, <1>8, <2>1, <2>3, <2>4, StepReply, StepGoto DEF Stopped
<1>9. CASE StopTimesOut(c)
  <2>1. Same(c) /\ calls'[c].pc = "kill" /\ calls'[c].id = calls[c].id
    BY <1>1, <1>9, GotoStep DEF StopTimesOut
  <2>2. KeepsEntries
    BY <1>1, <1>2, <1>9, KillType DEF StopTimesOut
  <2>3. CallOK(c)'
    BY <1>1, <1>9, <2>1 DEF StopTimesOut, Same, CallOK, At, Ranging
  <2>4. ~(BeforeStart(c) \/ AfterStop(c))' /\ ~HasStarted(c)
    BY <1>1, <1>9, <2>1 DEF StopTimesOut, Same, CallOK, BeforeStart, AfterStop, HasStarted, At
  <2> QED
    BY <1>1, <2>1, <2>2, <2>3, <2>4, WatchKept, StepCall DEF At
<1>10. CASE RemoveSandbox(c)
  <2>1. ~Running(p) /\ calls[c].op = "StopPodSandbox"
    BY <1>1, <1>10 DEF RemoveSandbox, CallOK, IInv, NotRunning, AfterStop, At
  <2> QED
    BY <1>1, <1>10, <2>1, StepGoto DEF RemoveSandbox
<1>11. CASE PublishCall(c)
  <2>1. calls[c].op \in {"Stop", "StopPodSandbox"} => ~Running(p)
    BY <1>1, <1>11 DEF PublishCall, CallOK, IInv, NotRunning, AfterStop, At
  <2> QED
    BY <1>1, <1>11, <2>1, StepReply DEF PublishCall
<1> QED
  BY <1>3, <1>4, <1>6, <1>7, <1>8, <1>9, <1>10, <1>11

LEMMA StepIInv == IInv /\ [Next]_vars => IInv'
<1> SUFFICES ASSUME IInv, [Next]_vars PROVE IInv'
  OBVIOUS
<1>1. TypeOK'
  BY TypePreserved
<1>2. CASE KubeletStep \/ ApiEvent
  BY <1>1, <1>2, StepKubelet, StepRequest, StepAnswer DEF KubeletStep
<1>3. CASE RuntimeStep \/ Terminate
  BY <1>1, <1>3, StepMain, StepWatch, StepWaiter, StepExit, StepStart, StepRegister, StepHandler DEF RuntimeStep, CallStep
<1>4. CASE \/ \E i \in Containers : Exit(i)
           \/ \E c \in Conns : CallFails(c)
  BY <1>1, <1>4, StepExit, StepHandler
<1>5. CASE UNCHANGED vars
  BY <1>1, <1>5, NothingKept, StepBeside DEF vars, IInv, OneCall, At, Up, WatchOpen, MainOK
<1> QED
  BY <1>2, <1>3, <1>4, <1>5 DEF Next

LEMMA Invariance == Spec => []IInv
BY InitIInv, StepIInv, PTL DEF Spec

-----------------------------------------------------------------------------
(* The types of the maps; and a container that List returns as stopped has *)
(* no process any more.                                                    *)
THEOREM TypeCorrect == Spec => []TypeOK
BY Invariance, PTL DEF IInv

(* stopPodSandbox ranges over the map of containers, and changes CNI's,    *)
(* without the lock: the kubelet's one call is what makes that safe.       *)
THEOREM NoRace == Spec => []NeverRaced
<1>1. IInv => NeverRaced
  BY DEF IInv, OneCall, CallsOK, CallOK, At, Ranging, NeverRaced
<1> QED
  BY <1>1, Invariance, PTL

(* When the kubelet is told that a Pod is stopped, no process of it is     *)
(* left, and List does not return it as running.                           *)
THEOREM StopsAreTrue == Spec => AnswersTrue
<1>1. ASSUME IInv, NEW c \in Conns, Answer(c), calls[c].ok, calls[c].op \in {"Stop", "StopPodSandbox"}
      PROVE  /\ ~Running(calls[c].pod)
             /\ \A i \in Containers : managed[i].pod = calls[c].pod => managed[i].process = "dead"
  <2>1. At(c, "answer") /\ calls[c].pod \in Pods
    BY <1>1 DEF Answer, Over, At, IInv, CallsOK, CallOK
  <2>2. ~Running(calls[c].pod)
    BY <1>1, <2>1 DEF IInv, NotRunning, AfterStop
  <2>3. ASSUME NEW i \in Containers, managed[i].pod = calls[c].pod, managed[i].process # "dead" PROVE FALSE
    <3>1. ProcessOK(i) /\ managed[i] \in Managed /\ managed[i].state = "Running"
      BY <1>1, <2>3 DEF IInv, ProcessesOK, TypeOK, Managed
    <3>2. managed[i].process # "none"
      BY <2>1, <2>3, <3>1, RuntimeAssumption DEF ProcessOK, Unborn
    <3>3. \A d \in Conns : ~At(d, "register")
      BY <1>1, <2>1, OneHandler DEF At
    <3>4. containers[calls[c].pod] = i /\ i # 0
      BY <2>3, <3>1, <3>2, <3>3 DEF ProcessOK, Managed, Containers
    <3> QED
      BY <2>2, <3>1, <3>4 DEF Running
  <2> QED
    BY <2>2, <2>3
<1>2. IInv =>
        [\A c \in Conns : Answer(c) /\ calls[c].ok /\ calls[c].op \in {"Stop", "StopPodSandbox"} =>
           /\ ~Running(calls[c].pod)
           /\ \A i \in Containers : managed[i].pod = calls[c].pod => managed[i].process = "dead"]_vars
  BY <1>1
<1> QED
  BY <1>2, Invariance, PTL DEF AnswersTrue

-----------------------------------------------------------------------------
(* The refinement. A step changes nothing the kubelet sees, or one thing,  *)
(* and then something is on its way to wake it.                            *)

LEMMA BarKept ==
  ASSUME \A p \in Pods : (containers'[p] = 0 <=> containers[p] = 0) /\ (Running(p)' <=> Running(p))
  PROVE  UNCHANGED ContainersBar
BY DEF ContainersBar

(* Only one Pod's container looks different after the step.                *)
LEMMA BarChanged ==
  ASSUME NEW p \in Pods, containers'[p] # 0,
         \A q \in Pods : q # p => (containers'[q] = 0 <=> containers[q] = 0) /\ (Running(q)' <=> Running(q))
  PROVE  ContainersBar' = [ContainersBar EXCEPT ![p] = IF Running(p)' THEN "running" ELSE "stopped"]
<1>1. \A q \in Pods : q # p => ContainersBar'[q] = ContainersBar[q]
  BY DEF ContainersBar
<1>2. ContainersBar'[p] = IF Running(p)' THEN "running" ELSE "stopped"
  BY DEF ContainersBar
<1>3. DOMAIN ContainersBar = Pods /\ ContainersBar' = [q \in Pods |-> ContainersBar'[q]]
  BY DEF ContainersBar
<1> QED
  BY <1>1, <1>2, <1>3

LEMMA BarKeptByEntries ==
  ASSUME IInv, KeepsEntries, UNCHANGED containers
  PROVE  UNCHANGED ContainersBar /\ \A i \in Containers : managed'[i].waiter = managed[i].waiter
<1>1. \A i \in Containers : managed'[i].waiter = managed[i].waiter /\ managed'[i].state = managed[i].state
  BY DEF KeepsEntries
<1>2. \A p \in Pods : Running(p)' <=> Running(p)
  BY <1>1 DEF Running, IInv, TypeOK
<1> QED
  BY <1>1, <1>2, BarKept

(* Something else wakes the kubelet, or nothing does.                      *)
LEMMA QuietStep ==
  ASSUME UNCHANGED <<ContainersBar, sandboxes>>, LookingBar' => LookingBar,
         WokenBar' \/ (LookingBar' = LookingBar /\ (WokenBar' <=> WokenBar))
  PROVE  [Promise!Next]_Promise!vars
<1>1. LookingBar \in BOOLEAN /\ LookingBar' \in BOOLEAN /\ WokenBar \in BOOLEAN /\ WokenBar' \in BOOLEAN
  BY DEF LookingBar, WokenBar
<1>2. CASE WokenBar'
  BY <1>1, <1>2 DEF Promise!Next, Promise!Wake
<1>3. CASE ~WokenBar'
  BY <1>1, <1>3 DEF Promise!vars
<1> QED
  BY <1>2, <1>3

(* An event that is published reaches the kubelet, or it looks anyway.     *)
LEMMA PublishedIsHeard ==
  ASSUME IInv, watchers' = Published, UNCHANGED kubelet
  PROVE  WokenBar'
<1>1. kubelet.watch \in Watches \cup {0}
  BY DEF IInv, TypeOK, Kubelet
<1>2. TypeOK
  BY DEF IInv
<1>3. kubelet.pc = "watch" \/ kubelet.woken \/ OnTheWay'
  BY <1>1, <1>2, PublishedType DEF IInv, WatchOpen, OnTheWay
<1> QED
  BY <1>3 DEF WokenBar

LEMMA KubeletRefines ==
  ASSUME IInv, IInv', List \/ Refused \/ Wake \/ ApiEvent \/ \E w \in Watches : OpenWatch(w)
  PROVE  [Promise!Next]_Promise!vars
<1>1. UNCHANGED <<containers, managed, sandboxes, calls, main>> /\ kubelet \in Kubelet
  BY DEF List, Refused, Wake, ApiEvent, OpenWatch, IInv, TypeOK
<1>2. UNCHANGED ContainersBar /\ (Publishing' <=> Publishing) /\ (Up' <=> Up)
  BY <1>1 DEF ContainersBar, Running, Publishing, Up
<1>3. LookingBar \in BOOLEAN /\ LookingBar' \in BOOLEAN /\ WokenBar \in BOOLEAN /\ WokenBar' \in BOOLEAN
  BY DEF LookingBar, WokenBar
<1>4. CASE List
  <2>1. PICK plan \in [Pods -> Plans] : kubelet' = [kubelet EXCEPT !.pc = "act", !.plan = plan]
    BY <1>4 DEF List
  <2>2. kubelet.pc = "list" /\ kubelet'.pc = "act" /\ kubelet'.woken = kubelet.woken /\ kubelet'.watch = kubelet.watch
    BY <1>1, <1>4, <2>1 DEF List, Kubelet
  <2>3. LookingBar /\ ~LookingBar'
    BY <2>2 DEF LookingBar
  <2>4. WokenBar' <=> WokenBar
    BY <1>2, <1>4, <2>2 DEF List, WokenBar, OnTheWay
  <2> QED
    BY <1>1, <1>2, <1>3, <2>3, <2>4 DEF Promise!Next, Promise!List
<1>5. ASSUME NEW w \in Watches, OpenWatch(w) PROVE [Promise!Next]_Promise!vars
  <2>1. kubelet.pc = "watch" /\ kubelet'.pc = "list"
    BY <1>1, <1>5 DEF OpenWatch, Kubelet
  <2>2. ~LookingBar /\ LookingBar' /\ WokenBar
    BY <2>1 DEF LookingBar, WokenBar
  <2> QED
    BY <1>1, <1>2, <1>3, <2>2 DEF Promise!Next, Promise!OpenWatch
<1>6. CASE Refused \/ Wake
  <2>1. kubelet'.pc = "watch"
    BY <1>1, <1>6 DEF Refused, Wake, Abort, Kubelet
  <2> QED
    BY <1>1, <1>2, <2>1, QuietStep DEF LookingBar, WokenBar
<1>7. CASE ApiEvent
  <2>1. kubelet'.pc = kubelet.pc /\ kubelet'.woken
    BY <1>1, <1>7 DEF ApiEvent, Kubelet
  <2> QED
    BY <1>1, <1>2, <2>1, QuietStep DEF LookingBar, WokenBar
<1> QED
  BY <1>4, <1>5, <1>6, <1>7

LEMMA RequestRefines ==
  ASSUME IInv, IInv', NEW c \in Conns, Answer(c) \/ \E p \in Pods : Request(c, p)
  PROVE  [Promise!Next]_Promise!vars
<1>1. UNCHANGED <<containers, managed, sandboxes, watchers, main>> /\ kubelet \in Kubelet /\ calls \in [Conns -> Call]
  BY DEF Request, Answer, IInv, TypeOK
<1>2. UNCHANGED ContainersBar /\ (Up' <=> Up)
  BY <1>1 DEF ContainersBar, Running, Up
<1>3. Publishing' <=> Publishing
  <2>1. \A d \in Conns : calls[d].pc = "publish" <=> calls'[d].pc = "publish"
    <3>1. CASE Answer(c)
      BY <1>1, <3>1 DEF Answer, Over, NoCall
    <3>2. ASSUME NEW p \in Pods, Request(c, p)
          PROVE  \A d \in Conns : calls[d].pc = "publish" <=> calls'[d].pc = "publish"
      <4>1. calls[c].pc = "idle" /\ calls'[c].pc = "begin" /\ \A d \in Conns : d # c => calls'[d] = calls[d]
        BY <1>1, <3>2 DEF Request, NoCall
      <4> QED
        BY <4>1
    <3> QED
      BY <3>1, <3>2
  <2> QED
    BY <1>1, <2>1 DEF Publishing
<1>4. \/ kubelet'.pc = "watch"
      \/ kubelet'.pc = kubelet.pc /\ kubelet'.woken = kubelet.woken /\ kubelet'.watch = kubelet.watch
  BY <1>1 DEF Request, Answer, Abort, Kubelet
<1> QED
  BY <1>1, <1>2, <1>3, <1>4, QuietStep DEF LookingBar, WokenBar, OnTheWay

LEMMA WatchRefines == ASSUME IInv, IInv', NEW w \in Watches, WatchStep(w) PROVE [Promise!Next]_Promise!vars
<1>1. UNCHANGED <<containers, managed, sandboxes, calls, main>>
  BY DEF WatchStep, AcceptWatch, Receive, Send
<1>2. kubelet \in Kubelet /\ watchers \in [Watches -> Watcher]
  BY DEF IInv, TypeOK
<1>3. UNCHANGED ContainersBar /\ (Publishing' <=> Publishing) /\ (Up' <=> Up)
  BY <1>1 DEF ContainersBar, Running, Publishing, Up
<1>4. kubelet'.pc = kubelet.pc /\ kubelet'.watch = kubelet.watch
  BY <1>2 DEF WatchStep, AcceptWatch, Receive, Send, Kubelet
<1>5. CASE kubelet.watch # w
  <2>1. kubelet'.woken = kubelet.woken
    BY <1>2, <1>5 DEF WatchStep, AcceptWatch, Receive, Send, Kubelet
  <2>2. kubelet.watch # 0 => watchers'[kubelet.watch] = watchers[kubelet.watch]
    BY <1>2, <1>5 DEF WatchStep, AcceptWatch, Receive, Send, Kubelet
  <2> QED
    BY <1>1, <1>3, <1>4, <2>1, <2>2, QuietStep DEF LookingBar, WokenBar, OnTheWay
<1>6. CASE kubelet.watch = w /\ AcceptWatch(w)
  <2>1. watchers'[w].event = watchers[w].event /\ watchers[w].pc # "sending" /\ watchers'[w].pc # "sending"
    BY <1>2, <1>6 DEF AcceptWatch, Watcher
  <2> QED
    BY <1>1, <1>3, <1>6, <2>1, QuietStep DEF AcceptWatch, LookingBar, WokenBar, OnTheWay
<1>7. CASE kubelet.watch = w /\ Receive(w)
  <2>1. watchers'[w].pc = "sending" /\ w # 0
    BY <1>2, <1>7 DEF Receive, Watcher, Watches
  <2> QED
    BY <1>1, <1>3, <1>7, <2>1, QuietStep DEF Receive, LookingBar, WokenBar, OnTheWay
<1>8. CASE kubelet.watch = w /\ Send(w)
  <2>1. kubelet'.pc = "watch" \/ kubelet'.woken
    BY <1>2, <1>4, <1>8 DEF Send, Kubelet, Watcher, IInv, WatchOpen
  <2> QED
    BY <1>1, <1>3, <1>4, <2>1, QuietStep DEF LookingBar, WokenBar
<1> QED
  BY <1>5, <1>6, <1>7, <1>8 DEF WatchStep

LEMMA MainRefines ==
  ASSUME IInv, IInv', Terminate \/ StopAllStep \/ \E i \in Containers : Exit(i)
  PROVE  [Promise!Next]_Promise!vars
<1>1. UNCHANGED <<containers, sandboxes, watchers, calls, kubelet>>
  BY DEF Terminate, StopAllStep, OneStopped, OneTimesOut, ExitMain, StopOne, Exit
<1>2. main \in Main /\ Up /\ TypeOK
  BY DEF Terminate, StopAllStep, OneStopped, OneTimesOut, ExitMain, StopOne, Exit, Up, Serving, IInv, TypeOK
<1>3. KeepsEntries
  <2>1. CASE OneTimesOut
    BY <1>2, <2>1, KillType DEF OneTimesOut, Main
  <2>2. ASSUME NEW i \in Containers, Exit(i) PROVE KeepsEntries
    BY <1>2, <2>2 DEF Exit, KeepsEntries, TypeOK, Managed
  <2>3. CASE UNCHANGED managed
    BY <2>3, NothingKept
  <2> QED
    BY <2>1, <2>2, <2>3 DEF Terminate, StopAllStep, OneStopped, ExitMain, StopOne
<1>4. UNCHANGED ContainersBar /\ (Publishing' <=> Publishing)
  BY <1>1, <1>3, BarKeptByEntries DEF Publishing
<1> QED
  BY <1>1, <1>2, <1>4, QuietStep DEF LookingBar, WokenBar, OnTheWay

LEMMA WaiterRefines == ASSUME IInv, IInv', NEW i \in Containers, WaiterStep(i) PROVE [Promise!Next]_Promise!vars
<1>1. UNCHANGED <<containers, sandboxes, calls, main, kubelet>>
  BY DEF WaiterStep, MarkStopped, PublishStopped
<1>2. managed \in [Containers -> Managed] /\ containers \in [Pods -> Containers \cup {0}] /\ ProcessOK(i)
  BY DEF IInv, TypeOK, ProcessesOK
<1>3. \A j \in Containers : j # i => managed'[j] = managed[j]
  BY <1>2 DEF WaiterStep, MarkStopped, PublishStopped
<1>4. CASE PublishStopped(i)
  <2>1. managed'[i].state = managed[i].state
    BY <1>2, <1>4 DEF PublishStopped, Managed
  <2>2. \A q \in Pods : Running(q)' <=> Running(q)
    BY <1>1, <1>2, <1>3, <2>1 DEF Running
  <2>3. UNCHANGED ContainersBar
    BY <1>1, <2>2, BarKept
  <2> QED
    BY <1>1, <1>4, <2>3, PublishedIsHeard, QuietStep DEF PublishStopped, LookingBar
<1>5. CASE MarkStopped(i) /\ containers[managed[i].pod] # i
  <2>1. /\ managed'[i].state = managed[i].state /\ managed'[i].waiter = "closed" /\ managed[i].waiter = "waits"
        /\ UNCHANGED watchers
    BY <1>2, <1>5 DEF MarkStopped, Marked, Managed
  <2>2. \A q \in Pods : Running(q)' <=> Running(q)
    BY <1>1, <1>2, <1>3, <2>1 DEF Running
  <2>3. Publishing' <=> Publishing
    BY <1>1, <1>3, <2>1 DEF Publishing
  <2>4. UNCHANGED ContainersBar
    BY <1>1, <2>2, BarKept
  <2> QED
    BY <1>1, <2>1, <2>3, <2>4, QuietStep DEF LookingBar, WokenBar, OnTheWay, Up
<1>6. CASE MarkStopped(i) /\ containers[managed[i].pod] = i
  <2>1. /\ managed[i].state = "Running" /\ managed[i].process = "dead" /\ managed[i].waiter = "waits"
        /\ managed'[i].state = "Stopped" /\ managed'[i].waiter = "publishes"
    BY <1>2, <1>6 DEF MarkStopped, Marked, Managed, IInv, TypeOK
  <2>2. PICK p \in Pods : p = managed[i].pod
    BY <1>2, <2>1 DEF ProcessOK
  <2>3. \A q \in Pods : q # p => containers[q] # i
    BY <1>2, <2>2 DEF IInv, Mapped, Containers
  <2>4. \A q \in Pods : q # p => (Running(q)' <=> Running(q))
    BY <1>1, <1>2, <1>3, <2>3 DEF Running
  <2>5. containers[p] = i /\ containers'[p] = i /\ i # 0
    BY <1>1, <1>6, <2>2 DEF Containers
  <2>6. Running(p) /\ ~Running(p)'
    BY <2>1, <2>5 DEF Running
  <2>7. ContainersBar[p] = "running"
    BY <2>5, <2>6 DEF ContainersBar
  <2>8. ContainersBar' = [ContainersBar EXCEPT ![p] = "stopped"]
    BY <1>1, <2>4, <2>5, <2>6, BarChanged
  <2>9. WokenBar' = TRUE /\ UNCHANGED LookingBar
    BY <1>1, <2>1 DEF WokenBar, Publishing, LookingBar
  <2> QED
    BY <1>1, <2>7, <2>8, <2>9 DEF Promise!Next, Promise!ContainerEnds
<1> QED
  BY <1>4, <1>5, <1>6 DEF WaiterStep

(* A step of handler c after which the maps look as before.                *)
LEMMA HandlerQuiet ==
  ASSUME IInv, NEW c \in Conns, KeepsEntries, UNCHANGED <<containers, sandboxes, main, kubelet>>,
         \A d \in Conns : d # c => calls'[d] = calls[d],
         \/ UNCHANGED watchers /\ ~At(c, "publish")
         \/ watchers' = Published
  PROVE  [Promise!Next]_Promise!vars
<1>1. UNCHANGED ContainersBar /\ \A i \in Containers : managed'[i].waiter = managed[i].waiter
  BY BarKeptByEntries
<1>2. CASE watchers' = Published
  BY <1>1, <1>2, PublishedIsHeard, QuietStep DEF LookingBar
<1>3. CASE UNCHANGED watchers /\ ~At(c, "publish")
  <2>1. Publishing => Publishing'
    BY <1>1, <1>3 DEF Publishing, At
  <2>2. CASE Publishing'
    BY <1>1, <2>2, QuietStep DEF LookingBar, WokenBar
  <2>3. CASE ~Publishing'
    BY <1>1, <1>3, <2>1, <2>3, QuietStep DEF LookingBar, WokenBar, OnTheWay, Up
  <2> QED
    BY <2>2, <2>3
<1> QED
  BY <1>2, <1>3

LEMMA HandlerRefines ==
  ASSUME IInv, IInv', NEW c \in Conns, CallStep(c) \/ CallFails(c)
  PROVE  [Promise!Next]_Promise!vars
<1>1. /\ CallOK(c) /\ calls \in [Conns -> Call] /\ containers \in [Pods -> Containers \cup {0}]
      /\ managed \in [Containers -> Managed] /\ TypeOK
  BY DEF IInv, TypeOK, CallsOK
<1>2. \A d \in Conns : d # c => calls'[d] = calls[d]
  BY <1>1 DEF CallStep, CallFails, Reply, Goto, RunPodSandbox, StartProcess, Register, BeginStop,
              BeginStopPodSandbox, Stopped, StopTimesOut, RemoveSandbox, PublishCall
<1>3. CASE CallFails(c)
  BY <1>2, <1>3, HandlerQuiet, NothingKept DEF CallFails, At
<1>4. CASE BeginStop(c) \/ BeginStopPodSandbox(c) \/ Stopped(c) \/ PublishCall(c)
  BY <1>2, <1>4, HandlerQuiet, NothingKept DEF BeginStop, BeginStopPodSandbox, Stopped, PublishCall, At
<1>5. CASE StopTimesOut(c)
  <2>1. KeepsEntries
    BY <1>1, <1>5, KillType DEF StopTimesOut, Call
  <2> QED
    BY <1>2, <1>5, <2>1, HandlerQuiet DEF StopTimesOut, At
<1>6. PICK p : p = calls[c].pod
  OBVIOUS
<1>7. CASE StartProcess(c)
  <2> DEFINE unborn == {i \in Containers : managed[i].process = "none"}
  <2>1. CASE p \notin sandboxes \/ unborn = {}
    <3>1. Reply(c, FALSE) /\ UNCHANGED managed
      BY <1>6, <1>7, <2>1 DEF StartProcess
    <3> QED
      BY <1>2, <1>7, <3>1, HandlerQuiet, NothingKept DEF StartProcess, At
  <2>2. CASE ~(p \notin sandboxes \/ unborn = {})
    <3>1. PICK i \in unborn :
            /\ managed' = [managed EXCEPT ![i].pod = p, ![i].process = "live"]
            /\ calls' = [calls EXCEPT ![c].pc = "register", ![c].id = i]
      BY <1>6, <1>7, <2>2 DEF StartProcess
    <3>2. \A j \in Containers : managed'[j].state = managed[j].state /\ managed'[j].waiter = managed[j].waiter
      BY <1>1, <3>1 DEF Managed
    <3>3. \A q \in Pods : Running(q)' <=> Running(q)
      BY <1>1, <1>7, <3>2 DEF StartProcess, Running
    <3>4. UNCHANGED ContainersBar
      BY <1>7, <3>3, BarKept DEF StartProcess
    <3>5. calls[c].pc # "publish" /\ calls'[c].pc # "publish"
      BY <1>1, <1>7, <3>1 DEF StartProcess, At, Call
    <3>6. Publishing' <=> Publishing
      BY <1>2, <3>2, <3>5 DEF Publishing
    <3> QED
      BY <1>7, <3>4, <3>6, QuietStep DEF StartProcess, LookingBar, WokenBar, OnTheWay, Up
  <2> QED
    BY <2>1, <2>2
<1>8. CASE RunPodSandbox(c)
  <2>1. CASE p \in sandboxes
    <3>1. sandboxes' = sandboxes
      BY <1>6, <1>8, <2>1 DEF RunPodSandbox
    <3> QED
      BY <1>2, <1>8, <3>1, HandlerQuiet, NothingKept DEF RunPodSandbox, At
  <2>2. CASE p \notin sandboxes
    <3>1. p \in Pods
      BY <1>1, <1>6, <1>8 DEF RunPodSandbox, CallOK, At
    <3>2. calls'[c].pc = "publish"
      BY <1>1, <1>6, <1>8, <2>2, GotoStep DEF RunPodSandbox
    <3>3. WokenBar' = TRUE /\ UNCHANGED <<LookingBar, ContainersBar>>
      BY <1>8, <3>2 DEF RunPodSandbox, WokenBar, Publishing, LookingBar, ContainersBar, Running
    <3> QED
      BY <1>6, <1>8, <2>2, <3>1, <3>3 DEF RunPodSandbox, Promise!Next, Promise!RunPodSandbox
  <2> QED
    BY <2>1, <2>2
<1>9. CASE Register(c)
  <2>1. PICK i \in Containers : i = calls[c].id
    BY <1>1, <1>9 DEF Register, CallOK, At, Call
  <2>2. /\ i # 0 /\ p \in Pods /\ p \in sandboxes
        /\ calls[c].op = "RunInSandbox" /\ managed[i].waiter = "none" /\ managed[i].state = "Running"
    BY <1>1, <1>6, <1>9, <2>1 DEF Register, CallOK, At, IInv, ProcessesOK, ProcessOK
  <2>3. ~Running(p)
    BY <1>6, <1>9, <2>2 DEF Register, At, IInv, NotRunning, BeforeStart
  <2>4. containers'[p] = i /\ \A q \in Pods : q # p => containers'[q] = containers[q]
    BY <1>1, <1>6, <1>9, <2>1, <2>2 DEF Register
  <2>5. managed'[i].state = "Running" /\ \A j \in Containers : j # i => managed'[j] = managed[j]
    BY <1>1, <1>9, <2>1, <2>2 DEF Register, Managed
  <2>6. \A q \in Pods : containers[q] # 0 => containers[q] \in Containers /\ containers[q] # i
    BY <1>1, <2>2 DEF IInv, Mapped
  <2>7. Running(p)'
    BY <2>2, <2>4, <2>5 DEF Running
  <2>8. \A q \in Pods : q # p => (Running(q)' <=> Running(q))
    BY <2>4, <2>5, <2>6 DEF Running
  <2>9. ContainersBar[p] # "running"
    BY <2>2, <2>3 DEF ContainersBar
  <2>10. ContainersBar' = [ContainersBar EXCEPT ![p] = "running"]
    BY <2>2, <2>4, <2>7, <2>8, BarChanged
  <2>11. calls'[c].pc = "publish" /\ UNCHANGED <<sandboxes, kubelet>>
    BY <1>1, <1>9, GotoStep DEF Register
  <2>12. WokenBar' = TRUE /\ UNCHANGED LookingBar
    BY <2>11 DEF WokenBar, Publishing, LookingBar
  <2> QED
    BY <2>2, <2>9, <2>10, <2>11, <2>12 DEF Promise!Next, Promise!RunInSandbox
<1>10. CASE RemoveSandbox(c)
  <2>1. p \in Pods /\ p \in sandboxes /\ ~Running(p)
    BY <1>1, <1>6, <1>10 DEF RemoveSandbox, CallOK, At, Ranging, IInv, NotRunning, AfterStop
  <2>2. calls'[c].pc = "publish"
    BY <1>1, <1>10, GotoStep DEF RemoveSandbox
  <2>3. ContainersBar[p] # "running"
    BY <2>1 DEF ContainersBar
  <2>4. WokenBar' = TRUE /\ UNCHANGED <<LookingBar, ContainersBar>>
    BY <1>10, <2>2 DEF RemoveSandbox, WokenBar, Publishing, LookingBar, ContainersBar, Running
  <2> QED
    BY <1>6, <1>10, <2>1, <2>3, <2>4 DEF RemoveSandbox, Promise!Next, Promise!StopPodSandbox
<1> QED
  BY <1>3, <1>4, <1>5, <1>7, <1>8, <1>9, <1>10 DEF CallStep

LEMMA InitRefines == Init => Promise!Init
<1> SUFFICES ASSUME Init PROVE Promise!Init
  OBVIOUS
<1>1. ContainersBar = [p \in Pods |-> "none"]
  BY DEF Init, ContainersBar
<1> QED
  BY <1>1 DEF Init, Promise!Init, LookingBar, WokenBar

LEMMA StepRefines == IInv /\ IInv' /\ [Next]_vars => [Promise!Next]_Promise!vars
<1> SUFFICES ASSUME IInv, IInv', [Next]_vars PROVE [Promise!Next]_Promise!vars
  OBVIOUS
<1>1. CASE KubeletStep \/ ApiEvent
  BY <1>1, KubeletRefines, RequestRefines DEF KubeletStep
<1>2. CASE RuntimeStep \/ Terminate
  BY <1>2, MainRefines, WatchRefines, WaiterRefines, HandlerRefines DEF RuntimeStep
<1>3. CASE \/ \E i \in Containers : Exit(i)
           \/ \E c \in Conns : CallFails(c)
  BY <1>3, MainRefines, HandlerRefines
<1>4. CASE UNCHANGED vars
  BY <1>4, QuietStep DEF vars, ContainersBar, Running, LookingBar, WokenBar, Publishing, OnTheWay, Up
<1> QED
  BY <1>1, <1>2, <1>3, <1>4 DEF Next

(* The runtime is to the kubelet what ContainerRuntime says: no container  *)
(* beside another of its Pod or without its sandbox, and after any change  *)
(* something is on its way that makes the kubelet look again.              *)
THEOREM Implements == Spec => KeepsPromise
BY Invariance, InitRefines, StepRefines, PTL DEF Spec, KeepsPromise, Promise!Spec

-----------------------------------------------------------------------------
(* What StopAll leaves: a container that is in the map is on StopAll's     *)
(* list, or being stopped, until its process has ended.                    *)

Covered(i) ==
  /\ managed[i].waiter # "none"
  /\ \/ managed[i].process = "dead"
     \/ /\ containers[managed[i].pod] = i
        /\ Serving \/ managed[i].pod \in main.todo \/ main.id = i

(* An entry that is registered stays what it is, and it stays the map's    *)
(* until the process has ended.                                            *)
LEMMA EntryStays ==
  ASSUME IInv, [Next]_vars, NEW i \in Containers, managed[i].waiter # "none"
  PROVE  /\ managed'[i].waiter # "none" /\ managed'[i].pod = managed[i].pod
         /\ managed[i].process = "dead" => managed'[i].process = "dead"
         /\ containers'[managed[i].pod] = containers[managed[i].pod] \/ containers[managed[i].pod] # i \/ managed[i].process = "dead"
<1>1. /\ managed \in [Containers -> Managed] /\ containers \in [Pods -> Containers \cup {0}] /\ TypeOK
      /\ ProcessOK(i) /\ managed[i].process # "none"
  BY DEF IInv, TypeOK, ProcessesOK, ProcessOK, Unborn
<1>2. CASE KeepsEntries /\ UNCHANGED containers
  <2>1. /\ managed'[i].pod = managed[i].pod /\ managed'[i].waiter = managed[i].waiter
        /\ managed[i].process = "dead" => managed'[i].process = "dead"
    BY <1>2 DEF KeepsEntries
  <2> QED
    BY <1>2, <2>1
<1>3. ASSUME NEW j \in Containers, WaiterStep(j)
      PROVE  /\ UNCHANGED containers /\ managed'[i].waiter # "none" /\ managed'[i].pod = managed[i].pod
             /\ managed'[i].process = managed[i].process
  <2>1. CASE MarkStopped(j)
    <3>1. managed' = [managed EXCEPT ![j] = Marked(j)] /\ UNCHANGED containers
      BY <2>1 DEF MarkStopped
    <3> QED
      BY <1>1, <3>1 DEF Marked, Managed
  <2>2. CASE PublishStopped(j)
    BY <1>1, <2>2 DEF PublishStopped, Managed
  <2> QED
    BY <1>3, <2>1, <2>2 DEF WaiterStep
<1>4. ASSUME NEW c \in Conns, StartProcess(c)
      PROVE  UNCHANGED containers /\ managed'[i] = managed[i]
  BY <1>1, <1>4 DEF StartProcess
<1>5. ASSUME NEW c \in Conns, Register(c)
      PROVE  /\ managed'[i].waiter # "none" /\ managed'[i].pod = managed[i].pod /\ managed'[i].process = managed[i].process
             /\ containers'[managed[i].pod] = containers[managed[i].pod] \/ containers[managed[i].pod] # i
                  \/ managed[i].process = "dead"
  <2>1. calls[c].id # i /\ managed'[i] = managed[i]
    BY <1>1, <1>5 DEF Register, At, IInv, CallsOK, CallOK
  <2>2. ~Running(calls[c].pod)
    BY <1>5 DEF Register, At, IInv, CallsOK, CallOK, NotRunning, BeforeStart
  <2>3. CASE managed[i].pod = calls[c].pod /\ containers[managed[i].pod] = i
    <3>1. managed[i].state # "Running"
      BY <2>2, <2>3 DEF Running, Containers
    <3>2. managed[i].process = "dead"
      BY <1>1, <3>1 DEF Managed, TypeOK
    <3> QED
      BY <2>1, <3>2
  <2>4. CASE managed[i].pod # calls[c].pod
    BY <1>1, <1>5, <2>1, <2>4 DEF Register
  <2> QED
    BY <2>1, <2>3, <2>4
<1>6. ASSUME NEW c \in Conns, StopTimesOut(c) PROVE KeepsEntries /\ UNCHANGED containers
  BY <1>1, <1>6, KillType DEF StopTimesOut, Call, TypeOK
<1>7. ASSUME OneTimesOut PROVE KeepsEntries /\ UNCHANGED containers
  BY <1>1, <1>7, KillType DEF OneTimesOut, Main, TypeOK
<1>8. ASSUME NEW j \in Containers, Exit(j) PROVE KeepsEntries /\ UNCHANGED containers
  BY <1>1, <1>8 DEF Exit, KeepsEntries, Managed
<1>9. CASE UNCHANGED <<managed, containers>>
  BY <1>2, <1>9, NothingKept
<1>10. \/ UNCHANGED <<managed, containers>> \/ OneTimesOut \/ \E j \in Containers : WaiterStep(j) \/ Exit(j)
       \/ \E c \in Conns : StartProcess(c) \/ Register(c) \/ StopTimesOut(c)
  <2>1. CASE KubeletStep \/ ApiEvent
    BY <2>1 DEF KubeletStep, ApiEvent, List, Refused, Wake, OpenWatch, Answer, Request
  <2>2. CASE Terminate \/ StopAllStep
    BY <2>2 DEF Terminate, StopAllStep, OneStopped, ExitMain, StopOne
  <2>3. ASSUME NEW w \in Watches, WatchStep(w) PROVE UNCHANGED <<managed, containers>>
    BY <2>3 DEF WatchStep, AcceptWatch, Receive, Send
  <2>4. ASSUME NEW c \in Conns, CallStep(c) \/ CallFails(c)
        PROVE  UNCHANGED <<managed, containers>> \/ StartProcess(c) \/ Register(c) \/ StopTimesOut(c)
    BY <2>4 DEF CallStep, CallFails, RunPodSandbox, BeginStop, BeginStopPodSandbox, Stopped, RemoveSandbox, PublishCall
  <2> QED
    BY <2>1, <2>2, <2>3, <2>4 DEF Next, RuntimeStep, vars
<1> QED
  BY <1>2, <1>3, <1>4, <1>5, <1>6, <1>7, <1>8, <1>9, <1>10

LEMMA StepCovered ==
  ASSUME NEW i \in Containers
  PROVE  IInv /\ Covered(i) /\ [Next]_vars => Covered(i)'
<1> SUFFICES ASSUME IInv, Covered(i), [Next]_vars PROVE Covered(i)'
  OBVIOUS
<1>1. /\ managed'[i].waiter # "none" /\ managed'[i].pod = managed[i].pod
      /\ managed[i].process = "dead" => managed'[i].process = "dead"
      /\ containers'[managed[i].pod] = containers[managed[i].pod] \/ containers[managed[i].pod] # i \/ managed[i].process = "dead"
  BY EntryStays DEF Covered
<1>2. CASE managed[i].process = "dead"
  BY <1>1, <1>2 DEF Covered
<1>3. CASE managed[i].process # "dead"
  <2>1. /\ containers[managed[i].pod] = i /\ containers'[managed[i].pod] = i
        /\ Serving \/ managed[i].pod \in main.todo \/ main.id = i
        /\ managed[i].pod \in Pods /\ Running(managed[i].pod) /\ i # 0
    BY <1>1, <1>3 DEF Covered, IInv, TypeOK, Managed, ProcessesOK, ProcessOK, Unborn, Running, Containers
  <2>2. Serving' \/ managed[i].pod \in main'.todo \/ main'.id = i
    <3>1. main \in Main /\ MainOK
      BY DEF IInv, TypeOK
    <3>2. CASE UNCHANGED main
      BY <2>1, <3>2 DEF Serving
    <3>3. CASE Terminate
      BY <2>1, <3>1, <3>3 DEF Terminate, Main
    <3>4. CASE OneStopped
      <4>1. main.id # i
        BY <1>3, <3>4 DEF OneStopped, Done, IInv, ProcessesOK, ProcessOK
      <4> QED
        BY <2>1, <3>1, <3>4, <4>1 DEF OneStopped, Serving, Main
    <3>5. CASE OneTimesOut \/ ExitMain
      BY <2>1, <3>1, <3>5 DEF OneTimesOut, ExitMain, Serving, Main
    <3>6. ASSUME NEW p \in Pods, StopOne(p) PROVE Serving' \/ managed[i].pod \in main'.todo \/ main'.id = i
      <4>1. CASE p = managed[i].pod
        BY <2>1, <3>1, <3>6, <4>1 DEF StopOne
      <4>2. CASE p # managed[i].pod
        BY <2>1, <3>1, <3>6, <4>2 DEF StopOne, Serving, Main, MainOK
      <4> QED
        BY <4>1, <4>2
    <3>7. UNCHANGED main \/ Terminate \/ StopAllStep
      <4>1. CASE KubeletStep \/ ApiEvent
        BY <4>1 DEF KubeletStep, ApiEvent, List, Refused, Wake, OpenWatch, Answer, Request
      <4>2. ASSUME NEW w \in Watches, WatchStep(w) PROVE UNCHANGED main
        BY <4>2 DEF WatchStep, AcceptWatch, Receive, Send
      <4>3. ASSUME NEW c \in Conns, CallStep(c) \/ CallFails(c) PROVE UNCHANGED main
        BY <4>3 DEF CallStep, CallFails, RunPodSandbox, StartProcess, Register, BeginStop, BeginStopPodSandbox, Stopped,
                    StopTimesOut, RemoveSandbox, PublishCall
      <4>4. ASSUME NEW j \in Containers, WaiterStep(j) \/ Exit(j) PROVE UNCHANGED main
        BY <4>4 DEF WaiterStep, MarkStopped, PublishStopped, Exit
      <4> QED
        BY <4>1, <4>2, <4>3, <4>4 DEF Next, RuntimeStep, vars
    <3> QED
      BY <3>2, <3>3, <3>4, <3>5, <3>6, <3>7 DEF StopAllStep
  <2> QED
    BY <1>1, <2>1, <2>2 DEF Covered, Serving
<1> QED
  BY <1>2, <1>3

LEMMA LeftDead ==
  ASSUME NEW i \in Containers
  PROVE  Spec => [](managed[i].waiter # "none" /\ Serving => [](~Up => managed[i].process = "dead"))
<1>1. IInv /\ managed[i].waiter # "none" /\ Serving => Covered(i)
  BY DEF IInv, TypeOK, Managed, ProcessesOK, ProcessOK, Unborn, CallsOK, CallOK, Covered
<1>2. IInv /\ Covered(i) => (~Up => managed[i].process = "dead")
  BY DEF IInv, MainOK, Covered, Up, Serving, Containers
<1> QED
  BY <1>1, <1>2, StepCovered, Invariance, PTL DEF Spec

(* When the runtime is gone, so are the processes of the containers it     *)
(* knew of when SIGTERM came.                                              *)
THEOREM StopAllStops == Spec => NobodyLeft
BY LeftDead DEF NobodyLeft

=============================================================================
