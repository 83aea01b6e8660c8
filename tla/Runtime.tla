------------------------------ MODULE Runtime ------------------------------
(***************************************************************************)
(* The CRI runtime of a node and the kubelet's client of it: a goroutine   *)
(* per connection, one per watch, one that waits for each container, and   *)
(* main, which stops the containers after SIGTERM. They share maps under   *)
(* one lock; a step is what one of them does under the lock, or between.   *)
(*                                                                         *)
(* Pods have a sandbox of one source, whose id the kubelet knows from its  *)
(* lists or answers. Module Kubelet has the addresses of sandboxes.        *)
(***************************************************************************)
EXTENDS Integers

CONSTANTS
  Pods,         \* names of Pods: the keys of the containers map
  None,
  MaxStarts,    \* bound: processes of containers, numbered as they start
  MaxConns,     \* bound: connections that serve a call
  MaxWatches,   \* bound: connections that serve a watch
  MaxTroubles   \* bound: failed calls, and wake-ups by the API server

ASSUME RuntimeAssumption ==
  /\ MaxStarts \in Nat /\ MaxTroubles \in Nat
  /\ MaxConns \in Nat \ {0} /\ MaxWatches \in Nat \ {0}
  /\ None \notin Pods

Containers == 1..MaxStarts
Conns == 1..MaxConns
Watches == 1..MaxWatches

VARIABLES
  containers,   \* [Pods -> Containers \cup {0}]: the map; 0: no entry
  managed,      \* [Containers -> Managed]: the entries there are and were
  sandboxes,    \* the Pods with a sandbox
  watchers,     \* [Watches -> Watcher]: the watch handlers
  calls,        \* [Conns -> Call]: the handlers of the other requests
  main,         \* Serve, then StopAll
  kubelet,      \* its loop, the calls it is to make, its open watch
  troubles

vars == <<containers, managed, sandboxes, watchers, calls, main, kubelet, troubles>>

(* process: "killed" has got SIGKILL. waiter: waitForContainer, of an      *)
(* entry that is registered; it closes done as its last step.              *)
Managed ==
  [pod : Pods \cup {None}, process : {"none", "live", "killed", "dead"}, state : {"Running", "Stopped"},
   waiter : {"none", "waits", "publishes", "closed"}]
Unborn == [pod |-> None, process |-> "none", state |-> "Running", waiter |-> "none"]

(* event: in the watcher's buffer of one. open: the client's end.          *)
Watcher == [pc : {"free", "accept", "idle", "sending"}, event : BOOLEAN, open : BOOLEAN]
Free == [pc |-> "free", event |-> FALSE, open |-> FALSE]

(* id: the container the call starts or stops. ok: the answer.             *)
Call ==
  [pc : {"idle", "begin", "register", "term", "kill", "remove", "publish", "answer"},
   op : {"none", "RunPodSandbox", "RunInSandbox", "Stop", "StopPodSandbox"},
   pod : Pods \cup {None}, id : Containers \cup {0}, ok : BOOLEAN]
NoCall == [pc |-> "idle", op |-> "none", pod |-> None, id |-> 0, ok |-> FALSE]

(* The calls a Reconcile makes for one Pod, by the next one.               *)
Plans == {"keep", "RunPodSandbox", "RunInSandbox", "Stop", "StopPodSandbox"}

Main == [pc : {"serve", "stop", "term", "kill", "exited"}, todo : SUBSET Pods, id : Containers \cup {0}]

Kubelet ==
  [pc : {"watch", "list", "act"}, plan : [Pods -> Plans], conn : Conns \cup {0},
   watch : Watches \cup {0}, woken : BOOLEAN]

NoPlan == [p \in Pods |-> "keep"]

Init ==
  /\ containers = [p \in Pods |-> 0]
  /\ managed = [i \in Containers |-> Unborn]
  /\ sandboxes = {}
  /\ watchers = [w \in Watches |-> Free]
  /\ calls = [c \in Conns |-> NoCall]
  /\ main = [pc |-> "serve", todo |-> {}, id |-> 0]
  /\ kubelet = [pc |-> "watch", plan |-> NoPlan, conn |-> 0, watch |-> 0, woken |-> FALSE]
  /\ troubles = 0

Serving == main.pc = "serve"
Up == main.pc # "exited"
Running(p) == containers[p] # 0 /\ managed[containers[p]].state = "Running"
Trouble == troubles < MaxTroubles /\ troubles' = troubles + 1

-----------------------------------------------------------------------------
(* The kubelet: api.Run opens the watch, Reconcile lists and calls.        *)

OpenWatch(w) ==
  /\ kubelet.pc = "watch" /\ Serving
  /\ watchers[w].pc = "free" /\ \A v \in Watches : watchers[v].pc = "free" => w <= v
  /\ watchers' = [watchers EXCEPT ![w] = [pc |-> "accept", event |-> FALSE, open |-> TRUE]]
  /\ kubelet' = [kubelet EXCEPT !.pc = "list", !.watch = w, !.woken = FALSE]
  /\ UNCHANGED <<containers, managed, sandboxes, calls, main, troubles>>

(* A Pod that runs is stopped or kept, one that does not is started or     *)
(* not; a static Pod's sandbox is removed in any case.                     *)
ToBeCalled(p) ==
  {"keep", IF Running(p) THEN "Stop" ELSE "RunPodSandbox"} \cup {s \in {"StopPodSandbox"} : p \in sandboxes}

List ==
  /\ kubelet.pc = "list" /\ Serving
  /\ \E plan \in [Pods -> Plans] :
       /\ \A p \in Pods : plan[p] \in ToBeCalled(p)
       /\ kubelet' = [kubelet EXCEPT !.pc = "act", !.plan = plan]
  /\ UNCHANGED <<containers, managed, sandboxes, watchers, calls, main, troubles>>

Request(c, p) ==
  /\ kubelet.pc = "act" /\ kubelet.conn = 0 /\ kubelet.plan[p] # "keep" /\ Serving
  /\ calls[c].pc = "idle" /\ \A d \in Conns : calls[d].pc = "idle" => c <= d
  /\ calls' = [calls EXCEPT ![c] = [NoCall EXCEPT !.pc = "begin", !.op = kubelet.plan[p], !.pod = p]]
  /\ kubelet' = [kubelet EXCEPT !.conn = c]
  /\ UNCHANGED <<containers, managed, sandboxes, watchers, main, troubles>>

Following(op) ==
  CASE op = "RunPodSandbox" -> "RunInSandbox"
    [] op = "Stop" -> "StopPodSandbox"
    [] OTHER -> "keep"

(* The Reconcile returns an error: its watch stays open, until an event.   *)
Abort == [kubelet EXCEPT !.pc = "watch", !.plan = NoPlan, !.conn = 0]

(* A call without deadline waits for its answer. Fault: five seconds.      *)
OverInTime(c) == calls[c].pc # "idle"
Over(c) == calls[c].pc = "answer"

Answer(c) ==
  /\ kubelet.conn = c /\ Over(c) /\ Up
  /\ kubelet' = IF calls[c].ok
                  THEN [kubelet EXCEPT !.plan[calls[c].pod] = Following(calls[c].op), !.conn = 0]
                  ELSE Abort
  /\ calls' = IF calls[c].pc = "answer" THEN [calls EXCEPT ![c] = NoCall] ELSE calls
  /\ UNCHANGED <<containers, managed, sandboxes, watchers, main, troubles>>

(* Nothing more to do: it waits for an event.                              *)
Waiting == kubelet.pc = "act" /\ kubelet.conn = 0 /\ kubelet.plan = NoPlan

(* No runtime listens: no call is possible, and those there are break off. *)
Refused ==
  /\ kubelet.pc # "watch"
  /\ \/ ~Serving /\ kubelet.conn = 0 /\ ~Waiting
     \/ ~Up
  /\ kubelet' = Abort
  /\ UNCHANGED <<containers, managed, sandboxes, watchers, calls, main, troubles>>

Wake ==
  /\ Waiting /\ kubelet.woken
  /\ kubelet' = [kubelet EXCEPT !.pc = "watch"]
  /\ UNCHANGED <<containers, managed, sandboxes, watchers, calls, main, troubles>>

(* An event of the API server; CombineWatches cancels both watches.        *)
ApiEvent ==
  /\ Trouble
  /\ kubelet.pc # "watch" /\ ~kubelet.woken
  /\ kubelet' = [kubelet EXCEPT !.woken = TRUE]
  /\ watchers' = [watchers EXCEPT ![kubelet.watch].open = FALSE]
  /\ UNCHANGED <<containers, managed, sandboxes, calls, main>>

-----------------------------------------------------------------------------
(* Runtime.watch and publish.                                              *)

(* A watcher whose buffer is full has an event to come. Fault: the channel *)
(* has no buffer, and only a handler that is about to receive gets it.     *)
PublishedUnbuffered ==
  [w \in Watches |-> IF watchers[w].pc = "idle" THEN [watchers[w] EXCEPT !.pc = "sending"] ELSE watchers[w]]
Published ==
  [w \in Watches |-> IF watchers[w].pc = "free" THEN watchers[w] ELSE [watchers[w] EXCEPT !.event = TRUE]]

AcceptWatch(w) ==
  /\ watchers[w].pc = "accept"
  /\ watchers' = [watchers EXCEPT ![w].pc = "idle"]
  /\ UNCHANGED <<containers, managed, sandboxes, calls, main, kubelet, troubles>>

Receive(w) ==
  /\ watchers[w].pc = "idle" /\ watchers[w].event
  /\ watchers' = [watchers EXCEPT ![w].pc = "sending", ![w].event = FALSE]
  /\ UNCHANGED <<containers, managed, sandboxes, calls, main, kubelet, troubles>>

(* The client takes one event and closes the connection; encoding the next *)
(* fails, and that ends the handler. Fault: it goes on all the same.       *)
EndedUnheard == [Free EXCEPT !.pc = "idle"]
Ended == Free

Send(w) ==
  /\ watchers[w].pc = "sending"
  /\ watchers' = [watchers EXCEPT ![w] = IF @.open THEN [@ EXCEPT !.pc = "idle", !.open = FALSE] ELSE Ended]
  /\ kubelet' = [kubelet EXCEPT !.woken = @ \/ (w = kubelet.watch /\ watchers[w].open)]
  /\ UNCHANGED <<containers, managed, sandboxes, calls, main, troubles>>

WatchStep(w) == Up /\ (AcceptWatch(w) \/ Receive(w) \/ Send(w))

-----------------------------------------------------------------------------
(* waitForContainer, and the processes it waits for, while the runtime is  *)
(* there.                                                                  *)

Exit(i) ==
  /\ Up /\ managed[i].process \in {"live", "killed"}
  /\ managed' = [managed EXCEPT ![i].process = "dead"]
  /\ UNCHANGED <<containers, sandboxes, watchers, calls, main, kubelet, troubles>>

(* An entry that is the map's own is marked, and its end published.        *)
Marked(i) ==
  IF containers[managed[i].pod] = i THEN [managed[i] EXCEPT !.state = "Stopped", !.waiter = "publishes"]
                                    ELSE [managed[i] EXCEPT !.waiter = "closed"]

MarkStopped(i) ==
  /\ managed[i].waiter = "waits" /\ managed[i].process = "dead"
  /\ managed' = [managed EXCEPT ![i] = Marked(i)]
  /\ UNCHANGED <<containers, sandboxes, watchers, calls, main, kubelet, troubles>>

(* ... and close(done), which lets stop's callers go.                      *)
PublishStopped(i) ==
  /\ managed[i].waiter = "publishes"
  /\ managed' = [managed EXCEPT ![i].waiter = "closed"]
  /\ watchers' = Published
  /\ UNCHANGED <<containers, sandboxes, calls, main, kubelet, troubles>>

(* Fault: stop waits for the end of the process, but not for its waiter.   *)
DoneUnmarked(i) == managed[i].process = "dead"
Done(i) == managed[i].waiter = "closed"
WaiterStep(i) == Up /\ (MarkStopped(i) \/ PublishStopped(i))

(* SIGKILL ends a process; SIGTERM only one that listens to it. Faults:    *)
(* the second signal is like the first; stop marks the entry itself.       *)
TermAgain(i) == managed
KillAndMark(i) == [managed EXCEPT ![i].process = IF @ = "live" THEN "killed" ELSE @, ![i].state = "Stopped"]
Kill(i) == [managed EXCEPT ![i].process = IF @ = "live" THEN "killed" ELSE @]

-----------------------------------------------------------------------------
(* handleRequest.                                                          *)

At(c, pc) == calls[c].pc = pc
Goto(c, pc) == calls' = [calls EXCEPT ![c].pc = pc]
Reply(c, ok) == calls' = [calls EXCEPT ![c].pc = "answer", ![c].ok = ok]

(* CNI ADD, a copy, a start fails: what was begun is undone.               *)
CallFails(c) ==
  /\ Trouble
  /\ At(c, "begin") /\ calls[c].op \in {"RunPodSandbox", "RunInSandbox"}
  /\ Reply(c, FALSE)
  /\ UNCHANGED <<containers, managed, sandboxes, watchers, main, kubelet>>

RunPodSandbox(c) ==
  /\ At(c, "begin") /\ calls[c].op = "RunPodSandbox"
  /\ IF calls[c].pod \in sandboxes THEN Reply(c, TRUE) ELSE Goto(c, "publish")
  /\ sandboxes' = sandboxes \cup {calls[c].pod}
  /\ UNCHANGED <<containers, managed, watchers, main, kubelet, troubles>>

(* A copy of the bundle and a process, which no map knows of yet. (No more *)
(* than the bound: as if the start had failed.)                            *)
StartProcess(c) ==
  /\ At(c, "begin") /\ calls[c].op = "RunInSandbox"
  /\ LET unborn == {i \in Containers : managed[i].process = "none"} IN
       IF calls[c].pod \notin sandboxes \/ unborn = {}
         THEN Reply(c, FALSE) /\ UNCHANGED managed
         ELSE \E i \in unborn :
                /\ \A j \in unborn : i <= j
                /\ managed' = [managed EXCEPT ![i].pod = calls[c].pod, ![i].process = "live"]
                /\ calls' = [calls EXCEPT ![c].pc = "register", ![c].id = i]
  /\ UNCHANGED <<containers, sandboxes, watchers, main, kubelet, troubles>>

Register(c) ==
  /\ At(c, "register")
  /\ containers' = [containers EXCEPT ![calls[c].pod] = calls[c].id]
  /\ managed' = [managed EXCEPT ![calls[c].id].waiter = "waits"]
  /\ Goto(c, "publish")
  /\ UNCHANGED <<sandboxes, watchers, main, kubelet, troubles>>

(* stop: nothing to do for a container that is marked, else SIGTERM.       *)
BeginStop(c) ==
  /\ At(c, "begin") /\ calls[c].op = "Stop"
  /\ IF Running(calls[c].pod)
       THEN calls' = [calls EXCEPT ![c].pc = "term", ![c].id = containers[calls[c].pod]]
       ELSE Reply(c, containers[calls[c].pod] # 0)
  /\ UNCHANGED <<containers, managed, sandboxes, watchers, main, kubelet, troubles>>

(* stopPodSandbox ranges over the map without the lock, and stops what is  *)
(* in the sandbox.                                                         *)
BeginStopPodSandbox(c) ==
  /\ At(c, "begin") /\ calls[c].op = "StopPodSandbox"
  /\ IF calls[c].pod \notin sandboxes THEN Reply(c, FALSE)
     ELSE IF Running(calls[c].pod)
       THEN calls' = [calls EXCEPT ![c].pc = "term", ![c].id = containers[calls[c].pod]]
     ELSE Goto(c, "remove")
  /\ UNCHANGED <<containers, managed, sandboxes, watchers, main, kubelet, troubles>>

Stopped(c) ==
  /\ calls[c].pc \in {"term", "kill"} /\ Done(calls[c].id)
  /\ IF calls[c].op = "Stop" THEN Reply(c, TRUE) ELSE Goto(c, "remove")
  /\ UNCHANGED <<containers, managed, sandboxes, watchers, main, kubelet, troubles>>

StopTimesOut(c) ==
  /\ At(c, "term")
  /\ managed' = Kill(calls[c].id)
  /\ Goto(c, "kill")
  /\ UNCHANGED <<containers, sandboxes, watchers, main, kubelet, troubles>>

(* CNI DEL and SIGKILL to the sandbox's process, then the map.             *)
RemoveSandbox(c) ==
  /\ At(c, "remove")
  /\ sandboxes' = sandboxes \ {calls[c].pod}
  /\ Goto(c, "publish")
  /\ UNCHANGED <<containers, managed, watchers, main, kubelet, troubles>>

PublishCall(c) ==
  /\ At(c, "publish")
  /\ watchers' = Published
  /\ Reply(c, TRUE)
  /\ UNCHANGED <<containers, managed, sandboxes, main, kubelet, troubles>>

CallStep(c) ==
  /\ Up
  /\ \/ RunPodSandbox(c) \/ StartProcess(c) \/ Register(c)
     \/ BeginStop(c) \/ BeginStopPodSandbox(c) \/ Stopped(c) \/ StopTimesOut(c)
     \/ RemoveSandbox(c) \/ PublishCall(c)

-----------------------------------------------------------------------------
(* main: Serve until SIGTERM, then StopAll, one container after another,   *)
(* beside the handlers that are still at work.                             *)

(* SIGTERM: Serve returns, and StopAll takes its list.                     *)
Terminate ==
  /\ Serving
  /\ main' = [main EXCEPT !.pc = "stop", !.todo = {p \in Pods : containers[p] # 0}]
  /\ UNCHANGED <<containers, managed, sandboxes, watchers, calls, kubelet, troubles>>

StopOne(p) ==
  /\ main.pc = "stop" /\ p \in main.todo
  /\ main' = IF Running(p) THEN [pc |-> "term", todo |-> main.todo \ {p}, id |-> containers[p]]
                           ELSE [main EXCEPT !.todo = @ \ {p}]
  /\ UNCHANGED <<containers, managed, sandboxes, watchers, calls, kubelet, troubles>>

OneStopped ==
  /\ main.pc \in {"term", "kill"} /\ Done(main.id)
  /\ main' = [main EXCEPT !.pc = "stop", !.id = 0]
  /\ UNCHANGED <<containers, managed, sandboxes, watchers, calls, kubelet, troubles>>

OneTimesOut ==
  /\ main.pc = "term"
  /\ managed' = Kill(main.id)
  /\ main' = [main EXCEPT !.pc = "kill"]
  /\ UNCHANGED <<containers, sandboxes, watchers, calls, kubelet, troubles>>

ExitMain ==
  /\ main.pc = "stop" /\ main.todo = {}
  /\ main' = [main EXCEPT !.pc = "exited"]
  /\ UNCHANGED <<containers, managed, sandboxes, watchers, calls, kubelet, troubles>>

StopAllStep == OneStopped \/ OneTimesOut \/ ExitMain \/ \E p \in Pods : StopOne(p)

-----------------------------------------------------------------------------
KubeletStep ==
  \/ List \/ Refused \/ Wake
  \/ \E w \in Watches : OpenWatch(w)
  \/ \E c \in Conns : Answer(c) \/ \E p \in Pods : Request(c, p)

RuntimeStep ==
  \/ StopAllStep
  \/ \E w \in Watches : WatchStep(w)
  \/ \E i \in Containers : WaiterStep(i) \/ (managed[i].process = "killed" /\ Exit(i))
  \/ \E c \in Conns : CallStep(c)

Next ==
  \/ KubeletStep \/ ApiEvent \/ RuntimeStep \/ Terminate
  \/ \E i \in Containers : Exit(i)
  \/ \E c \in Conns : CallFails(c)

Spec == Init /\ [][Next]_vars

(* Goroutines run, five seconds pass, and SIGKILL works. Nothing makes a   *)
(* process heed SIGTERM, nor is there ever to be one.                      *)
FairSpec == Spec /\ WF_vars(KubeletStep) /\ WF_vars(RuntimeStep)

-----------------------------------------------------------------------------
TypeOK ==
  /\ containers \in [Pods -> Containers \cup {0}]
  /\ managed \in [Containers -> Managed]
  /\ sandboxes \subseteq Pods
  /\ watchers \in [Watches -> Watcher]
  /\ calls \in [Conns -> Call]
  /\ main \in Main
  /\ kubelet \in Kubelet
  /\ troubles \in 0..MaxTroubles
  /\ \A i \in Containers : managed[i].state = "Stopped" => managed[i].process = "dead" /\ managed[i].waiter # "waits"

(* What the kubelet is promised, and relies on in Kubelet and StaticPods.  *)
(* An event is on its way while somebody is about to publish, and while it *)
(* is in the buffer or the handler of the watch the kubelet has open.      *)
Publishing ==
  \/ \E c \in Conns : calls[c].pc = "publish"
  \/ \E i \in Containers : managed[i].waiter = "publishes"
OnTheWay == kubelet.watch # 0 /\ (watchers[kubelet.watch].event \/ watchers[kubelet.watch].pc = "sending")

ContainersBar ==
  [p \in Pods |-> IF containers[p] = 0 THEN "none" ELSE IF Running(p) THEN "running" ELSE "stopped"]
LookingBar == kubelet.pc = "list"
WokenBar == ~Up \/ kubelet.pc = "watch" \/ kubelet.woken \/ Publishing \/ OnTheWay

Promise ==
  INSTANCE ContainerRuntime WITH containers <- ContainersBar, looking <- LookingBar, woken <- WokenBar
KeepsPromise == Promise!Spec

(* stopPodSandbox ranges over the containers and has CNI DEL change its map*)
(* without the lock. That is safe only as long as no other call writes the *)
(* one, or has CNI ADD change the other, in the meantime.                  *)
Ranging(c) == calls[c].op = "StopPodSandbox" /\ calls[c].pc \in {"term", "kill", "remove"}
NeverRaced ==
  \A c, d \in Conns :
    Ranging(c) => calls[d].pc # "register" /\ ~(calls[d].pc = "begin" /\ calls[d].op = "RunPodSandbox")

(* An answer is true when it is given: of a Pod that is stopped, by either *)
(* call, no process is left, and the next List says so.                    *)
AnswersTrue ==
  [][\A c \in Conns : Answer(c) /\ calls[c].ok /\ calls[c].op \in {"Stop", "StopPodSandbox"} =>
       /\ ~Running(calls[c].pod)
       /\ \A i \in Containers : managed[i].pod = calls[c].pod => managed[i].process = "dead"]_vars

(* A change reaches the kubelet, if the runtime is not on its way out; and *)
(* the handler of a watch nobody reads any more goes with the next event.  *)
EventsArrive ==
  /\ Publishing \/ OnTheWay ~> kubelet.pc = "watch" \/ ~Serving
  /\ \A w \in Watches :
       watchers[w].pc # "free" /\ ~watchers[w].open /\ watchers[w].event ~> watchers[w].pc = "free" \/ ~Up

(* StopAll leaves no process that was in the map before. (A call that was  *)
(* being served may start one after that.)                                 *)
NobodyLeft ==
  \A i \in Containers :
    [](managed[i].waiter # "none" /\ Serving => [](~Up => managed[i].process = "dead"))

(* Every call ends, also the stop of a process that ignores SIGTERM, and   *)
(* so does StopAll.                                                        *)
StopsEnd ==
  /\ kubelet.conn # 0 ~> kubelet.conn = 0
  /\ ~Serving ~> ~Up
  /\ NobodyLeft
=============================================================================
