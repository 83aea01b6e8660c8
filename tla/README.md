# A TLA+ model of toy-kubernetes

toy-kubernetes is a small Kubernetes: an API server in front of etcd, a
controller manager, a scheduler, and on every node a kubelet, a container
runtime with a CNI plugin, and kube-proxy. All of them communicate through the
objects of the API server only. This directory holds TLA+ modules translated
from the Go code, configurations that check them with TLC, and proofs that the
TLA+ proof system (TLAPS) checks. Line numbers below are those of `src/`.

## 1. The system

| Component | State it keeps | Operations |
|---|---|---|
| etcd client (`etcd/etcd.go`) | none; etcd has one revision counter and per key a value with its ModRevision | Get, List, Create (if absent), Update (if ModRevision unchanged), Delete (if ModRevision unchanged, or unconditionally), Watch from a revision |
| API server (`apiserver/server.go`) | none between requests | GET/POST of a collection, GET/PUT/DELETE of an object, watch stream; for Services also the choice of ClusterIP and NodePort |
| API client (`apiserver/client.go`) | one reader goroutine per open watch | List, Get, Create, Update, Delete, Watch, `WatchErrors` |
| Reconcile loop (`api/reconcile.go`) | per turn: a context, a one-element events channel, a forwarder per watch | `Run`, `waitForRetry`, `CombineWatches` |
| Deployment controller (`controller-manager/controllers.go`) | none between turns | Reconcile: list, list, then Create/Update per Deployment |
| ReplicaSet controller (same file) | none between turns | Reconcile: list, list, then create/delete Pods and write the status, per ReplicaSet |
| Scheduler (`scheduler/scheduler.go`) | `nextNode`, an index into the last list of Nodes | Reconcile: bind each unbound Pod to the next Ready Node |
| Kubelet (`kubelet/kubelet.go`) | none between turns | Reconcile: start what is missing, write status, stop what is not wanted |
| Static and mirror Pods (`kubelet/static_pods.go`, `mirror_pods.go`) | none between turns | read manifests, start and stop their Pods, create, update and delete mirror Pods |
| CRI runtime (`cri/runtime/runtime.go`) | maps of sandboxes and containers, a goroutine per container and per connection, watchers with a buffer of one event | RunPodSandbox, RunInSandbox, List, Stop, StopPodSandbox, watch, StopAll |
| CNI plugin (`cni/cni.go`) | attachments by Pod name | Add (picks the lowest free address), Del |
| kube-proxy (`kube-proxy/proxy.go`) | an nftables table | replace the table by one built from Services and Pods |
| Node supervisor (`node/supervisor.go`) | the child processes | start all, stop all as soon as one ends |
| Node network (`bootstrap/bootstrap.go`, `node/network.go`) | none | subnets and addresses from a node index |
| toyctl (`cmd/toyctl/main.go`) | none | apply (Get, then Update or Create), delete, get, describe |

**Interaction.** Every component but the runtime is an `api.Run` loop: it lists
and opens watches of its resources, reconciles, sleeps until a watch reports any
change, cancels everything and starts over. Components never call each other;
they write objects of the API server that wake others. A kubelet calls the
runtime over a Unix socket, one call at a time.

**What is hard.** (1) Every Reconcile works on copies that others overtake while
it works; the only protection is the resource version of the one object it
writes. (2) A write may be accepted and its answer lost. (3) A change may fall
between the List, the opening of the watch and the Reconcile. (4) The goroutines
of a turn outlive it. (5) Two controllers write the same ReplicaSet, each the
whole object. (6) A Reconcile stops at the first error, so that later objects
are not looked at. (7) Allocation (addresses, ports, nodes, names) is done from
a list that is out of date when the pick is written. (8) Starting and stopping a
Pod takes several calls, and any of them may fail. (9) On the control plane the
kubelet starts the API server and etcd that it lists and watches, and loses what
they stored with their containers. (10) The runtime serves every connection in a
goroutine of its own and does not hold its lock throughout; it drops events. (11)
kube-proxy replaces its table in three commands. (12) The supervisor's deadlines
race the ends it waits for.

**What makes each part correct.**

- *Store*: an accepted update is based on the version it overwrites; a version
  names one content for ever; a create never overwrites.
- *Loop*: a component never sleeps through a change its Reconcile did not see;
  it does not wake itself; its forwarding goroutines end.
- *Controllers*: neither damages the other's part of a ReplicaSet; no surplus of
  Pods, whatever is lost or retried; in the end the Pods a Deployment asks for,
  and rest.
- *Service allocation*: no address or port twice; a Service keeps its address.
- *Scheduler*: it binds only unbound Pods, spreads them evenly, and leaves none
  unbound while a Node is Ready.
- *Kubelet and runtime*: no process is lost track of; no address twice; only the
  status is written, and never of a Pod that is gone or elsewhere; in the end
  exactly the Pods bound to the node run, are reported, and give back what they
  held.
- *Static Pods*: none is started twice; only the kubelet's own mirrors are
  written, as they were seen; in the end the Pods of the manifests run and the
  mirrors say so.
- *Runtime*: its calls look like single steps to the kubelet; what it answers is
  true; a change leads to another look; every stop ends, and SIGTERM leaves no
  container that was registered.
- *kube-proxy*: at rest, the node forwards to the endpoints there are and to no
  others.
- *Supervisor*: when one unit ends, all do, and none is forgotten.

## 2. Modules

Each component has one module. The components are composed by assumption and
promise, not by one big state space: `ApiStore` is shown to implement
`OptimisticStore` (an accepted update is based on what it overwrites), and the
controllers, the scheduler and the kubelet are modelled on that promise, by the
set `current` of copies nobody has overtaken. `WatchLoop` is shown to implement
`ReconcileLoop`: turns that read everything anew, and no rest while something has
changed since it was read. The components are modelled on that, by a flag `woken`
that every write of what they watch sets. `Runtime` is shown to implement `ContainerRuntime`: each
call takes effect in one step, and every change of it wakes the kubelet. `Kubelet`
and `StaticPods` are modelled on that.

```
OptimisticStore  <--implements-- ApiStore     ReconcileLoop <--implements-- WatchLoop
       |  `current`                                  |  `woken`
       +-----> ControllerManager, Scheduler, <-------+
       |       Kubelet, StaticPods, KubeProxy
       +-----> ServiceAllocation (`fresh`)       Kubelet, StaticPods
                                                       ^
                 ContainerRuntime  ---- calls, `woken` +
                        ^
                        +--implements-- Runtime          Supervisor
```

### ApiStore, OptimisticStore (`apiserver/server.go`, `etcd/etcd.go`)

`objects[n]` is the stored object with the revision that wrote it, `revision`
etcd's counter, `copy[c]` the object client `c` read last or wrote last. Each
HTTP handler is one action, for each makes one etcd transaction
(`server.go:68-106`, `218-279`). `Commit` is the transaction of
`EtcdClient.Update`; an update or create may be accepted and its answer lost, in
which case the client keeps its old copy. `DELETE` with a resource version
compares it like an update; without one it only asks that the object exists
(`etcd.go:142-160`). `OptimisticStore` has no revisions: it records which copies
are still current, and an update is accepted for these only. `KeepsPromise` is
the refinement, with `current` mapped to "the copy's version is the stored one".

### WatchLoop, ReconcileLoop (`api/reconcile.go`, `apiserver/client.go`, `server.go:285-339`)

`Run` is a process with a program counter (`pc`), a generation per turn (`gen`),
and a forwarding goroutine per generation and watch (`stage`). A resource is
only the revision of its last change. `from[g][w]` is the revision after which
the stream of watch `w` starts, the one its List returned. `full` and
`cancelled` are the events channels and contexts of the generations; all
generations stay in the state, for their goroutines do. The reader of the HTTP
stream, `WatchErrors` and the forwarder act as one in `Fire`, since each only
passes on what it got. `Fails` is a call or stream that fails, by its context or
by bounded bad luck.

`ReconcileLoop` knows turns only. A turn begins if one is due (`woken`), has to read
every resource (`toRead`) before it may succeed, and a change makes the next turn
due, whatever the component is doing. The refinement maps the Reconcile of `Run`
to the turn and everything else it does to rest; the next turn is due when the
component has not yet come to its Reconcile, or when a report of its generation
is in the channel, in a forwarder or in an open stream (`Pending`). A stop ends
what is promised.

### ControllerManager (`controller-manager/controllers.go`)

`deployments`, `replicaSets` and `pods` are the stored objects; since owner
references match by name (no code sets a UID), the ReplicaSet of Deployment `d`
is `d-rs` and its Pods are `d-rs-1`, `d-rs-2`, ..., known here by their label.
`dc` and `rc` are the controllers: program counter, wake-up, copies. A Reconcile
takes one step per API call, a list as well as a write; between two steps
anybody may write. `DCTodo` and `RCTodo` are what the loops still have to do in
the copies; the objects are taken in key order (`First`), which is the order of
List. Surplus Pods are deleted from the first after the desired number on, in the
order of their names (`SurplusPod`), which is an order of strings: `NameBefore` is
any total order of the numbers. Refused calls (409, 404) end the Reconcile, a lost answer ends it with the
write done. Users apply and delete Deployments, delete ReplicaSets and Pods, and
other components write Pods.

### ServiceAllocation (`apiserver/server.go:108-211`, `cmd/toyctl/main.go:181-195`)

A request is one `toyctl apply`: Get, choice of the ClusterIP, choice of the
NodePort, write. Its manifest may name an address or a port of its own, which is
kept; the address is then stored without a look at others (`server.go:154`).
`services` are the stored Services; `fresh` says that nobody overtook what Get
returned. Two histories say what the properties except: `brought`, the Services
whose ClusterIP a manifest named, and `raced[n]`, the Services that were written
between the choice of `n`'s address and its write. Addresses and ports are 1, 2, ... up to the
number there is; 0 is the field left empty.

### Scheduler (`scheduler/scheduler.go`)

`s` is the scheduler with `nextNode`, kept between turns as the code does, and
its copies; `binds` is a history variable that counts the binds to each Node
since the scheduler's list of Nodes last changed, `lost` one that counts those of
them whose answer was lost. `NextReadyNode(n)` is the node
`nextReadyNode` finds: the Ready one with the smallest offset from `nextNode`,
modulo the length of the list. Nodes appear, vanish and are applied with and
without status; Pods are created, bound by others, rewritten and deleted.

### Kubelet (`kubelet/kubelet.go`, `cri/runtime/runtime.go`, `cni/cni.go`)

`pods` are the objects (bound here or not, Running or not, podIP), `sandboxes`
and `containers` the runtime's maps, `live` the processes that really exist, `k`
the kubelet with its copies. A step is one call to the runtime or the API
server: list, list, then for each Pod to start RunPodSandbox, RunInSandbox and
the status, then for each container to stop Stop and StopPodSandbox. The order
within the loops is that of Go maps and lists and is left open. Any call may
fail, or be carried out and its answer lost; containers end by themselves; the
node restarts with nothing running.

### StaticPods (`kubelet/static_pods.go`, `mirror_pods.go`, `kubelet.go`)

The kubelet of a node with a manifest directory, with or without the URL of an
API server (`hasClient`). A version of a manifest or mirror has a `spec`, which is
what `mirror_pods.go:47` compares (spec and annotations), and `labels`, for what it
does not. `manifests` is the directory, `running` which version of a manifest the
Pod's container was started from, `kept` (a history) the Pods whose container was
running when the kubelet read another version of the manifest, `mirrors` the stored Pods of
the mirrors' names: `Foreign` is a Pod without the mirror annotation. Some of the
Pods are the API server (`ApiPods`: while one of them does not run, no call is
answered) and its memory (`StorePods`: etcd keeps its data in a root file system
that goes with the container, `runtime.go:449`). `k` is the kubelet: it boots by
reflecting the manifests once, then opens its watches, loads, lists, starts and
stops Pods, lists, writes and deletes mirrors, and sleeps. Users change manifests,
also into ones that cannot be decoded, and objects. A manifest that changes wakes
only a kubelet without API server, the only one that watches the directory
(`kubelet.go:185-191`). A changed manifest of a container that runs changes
nothing but the mirror, and that only if spec or annotations differ
(`static_pods.go:158`, `mirror_pods.go:47`). `run.sh` registers the control
plane as no Node, so the workload part of `Reconcile` only lists here.

### ContainerRuntime, Runtime (`cri/runtime/runtime.go`, `cri/cri.go`)

`containers` is the runtime's map from Pod names to entries, `managed` the
entries there are and were, each with its process and its `waitForContainer`
goroutine, for an entry that the map has lost still has both. `watchers` are the
watch handlers with their buffer of one event, `calls` the handlers of the other
connections, `main` is `Serve` and then `StopAll`. A step is what a goroutine does
under the lock, or between two such sections; `stopPodSandbox`, which ranges over
the map without the lock, stays at that for as long as its stops take. `kubelet`
is the client: one watch open, one call at a time, and per Pod any of the calls
that a `Reconcile`, of `kubelet.go` or `static_pods.go`, makes after what it
listed. A process may ignore SIGTERM; nothing survives SIGKILL.

`ContainerRuntime` has no goroutines and no events: `containers[p]` is what List
says, a call is one step, and `woken` says that the kubelet has been or will be
told. `KeepsPromise` maps `woken` to: an event is in the buffer or handler of the
kubelet's watch, or about to be published, or the kubelet is up anyway.

### KubeProxy (`kube-proxy/proxy.go`)

A table is a function from destinations (address and port) to where they go,
which is what the first matching rule says (`Target`); rules are ordered as
`serviceRules` sorts them. `Elsewhere` is any address that is no ClusterIP. A
Reconcile lists Services, lists Pods, deletes the table and adds it. `ProbeFails`
is an `nft list` that fails for another reason than a missing table
(`proxy.go:156`): then rules are added behind those that are there, and `stale`
says so until the table is next deleted. A ClusterIP of a complete Service, or a
PodIP of a Running Pod that one selects, that is no IPv4 address fails the whole
Reconcile (`Parses`). The addresses of Services overlap in the
instance, since overlapping applies and clients that bring a ClusterIP along
allow it; NodePorts do not.

### Supervisor (`node/supervisor.go`, `cmd/node-supervisor/main.go`)

`process` are the units' processes: live, dead, and "reaped" once the goroutine
that waits for it has reported on the channel `done`, of which only the length
matters (`run.done`); `run.count` is the number of ends that `waitForExit` is
still to see. Units start in order, the runtime with a path to wait for, which an
earlier run may have left behind. Units end whenever they like, or never.

## 3. Runs

| Run | What it asks | Bounds | Result |
|---|---|---|---|
| `api_store` | Does the ModRevision comparison keep a write from being based on an overtaken copy, and does a version name one content? (`VersionNamesContent`, `KeepsPromise`) | 2 clients, 2 objects, 2 contents, 4 revisions | holds |
| `watch_loop` | Does the loop sleep through a change (`NoMissedChange`), wake itself or leave streams behind (`Frugal`)? Does it implement `ReconcileLoop` (`KeepsPromise`)? Does it end asleep on the latest state (`Converges`), and do its forwarding goroutines end (`GoroutinesEnd`)? | 2 watches, 2 disturbances, of which up to 2 changes and 1 failure, a stop | holds |
| `controllers` | Do the controllers damage each other's fields (`OwnFields`) or make a surplus of Pods (`NoSurplus`)? Do the Pods converge and the controllers rest (`Converges`)? | 2 Deployments, replicas -1, 1 and 2, 2 labels, 2 disturbances, of which up to 2 writes of others and 1 failure | holds |
| `services` | Does a Service keep its ClusterIP unless a manifest names another (`StableClusterIP`); are addresses and ports unique but for picks that raced and addresses that manifests name (`DistinctUnlessRaced`)? | 2 Services, 2 applies, 2 addresses, 1 port, 4 writes | holds |
| `scheduler` | Does it move or revive a Pod (`BindsUnbound`), spread evenly the binds that were answered (`Even`), leave a Pod unbound (`AllBound`)? | 3 Nodes, 3 Pods, 2 writes of others, 1 failure or lost answer | holds |
| `kubelet` | Is a process lost (`NoOrphan`), an address given twice or a container without sandbox (`SandboxPerContainer`), somebody's write undone (`StatusOnly`)? Do exactly the Pods of the node run in the end, reported, and does the kubelet rest (`Settles`)? | 3 Pods, one without image, 2 addresses, 4 writes of Pods, 2 failures | holds |
| `static_pods` | Is a container started over one that runs (`NeverTwice`), an object overwritten that the kubelet did not see (`WritesWhatItSaw`)? Do the Pods of the manifests run in the end (`LoadedRun`), and do the mirrors show them (`MirrorsShowLoaded`)? | 3 Pods (etcd, API server, one more), 3 versions, with and without API server, 2 writes of users, 2 failures | holds |
| `runtime` | Does the runtime implement `ContainerRuntime` (`KeepsPromise`)? Are its maps used without the lock only while nobody writes them (`NeverRaced`)? Are its answers true (`AnswersTrue`), do events arrive (`EventsArrive`), do stops end (`StopsEnd`)? | 1 Pod, 2 containers, 2 calls, 2 watches, 1 trouble, SIGTERM | holds |
| `kube_proxy` | Is the table right whenever the proxy rests (`RightWhenQuiet`), and in the end (`Converges`)? | 2 Services of 5 specifications, 2 Pods, 2 addresses of each kind and one that does not parse, 2 ports, 2 writes, 1 failure | holds |
| `supervisor` | Is a unit left that was not told to end (`NobodyForgotten`)? Does one end bring all to an end (`AllEnd`)? | 3 units, 1 with a path | holds |
| `kubelet_leak` | Is the sandbox of a deleted Pod stopped? (`SandboxesReleased`) | 2 Pods, 2 writes, 1 exit | **violated** |
| `kube_proxy_node_port` | Does TCP to a Service reach that Service? (`ReachesItsOwn`) | 2 Services, 1 NodePort, 1 write | **violated** |

Every module has one type invariant (`TypeOK`, `ServicesTypeOK`, `SupervisorTypeOK`;
definitions of two modules with one proof module differ in their names), which also says that a component
between two turns holds no copies. Deadlock is not checked: with the bounded
writes and failures used up and everything asleep, the systems rightly stop.

**Why the bounds are enough to be interesting.** Two clients and two objects are
what an overtaken copy and a confusion of keys need; four revisions allow a
create, a delete, a second create and an update with the first copy. Two watches
are what every component of the control plane opens, and what a sibling's
cancellation needs; two changes allow one on each side of the List. Replicas -1,
1 and 2 include the negative case, scaling in both directions, and a number below
that of the names there are, so that a repeated create could make a Pod too many.
Two Deployments let one hold up the other. They begin with one of the two labels
(`InitOfOneApp`): a Pod's label is compared with that of its own ReplicaSet only,
so that the labels may be exchanged for each Deployment on its own; the first
begins with one Pod or two, the second with two, and users bring the other
numbers. Two addresses for two Services, of which a manifest may name either, and
for three Pods, and a single port, exhaust the ranges. The constant `Elsewhere`,
addresses outside the range that a manifest may name, is empty in the run: such
an address collides with nothing that is picked. Three Nodes are the least for
which a skipped Node differs from a swapped one, and two writes can remove a Node
and bring it back. Four writes of Pods are create, create, delete, create. Three
static Pods are etcd, the API server, and one more on each side of which one of
the others may fail. Their three versions are one, and two that differ from it in
spec and in labels; the manifests there are at the start are in the first
(`InitFromFirst`), writes bring the others. For the runtime, two containers are
one and the one that replaces it; two calls are one that goes on and the one a
client that did not wait would make; two watches are the open one and a stale
one. Two Pods already have more than sixteen million states, and would add
little: the handlers share the maps, but the entries of two Pods never meet.
kube-proxy's specifications are a plain Service, one with NodePort, one whose
port is the number of that NodePort, an incomplete one and one that does not
parse.

**Symmetry** is used in `services` only, over Services and over applies: nothing
in the module orders them, and its properties are safety properties.

**Fairness.** `FairSpec` asks of each component only that it goes on when it can:
a call to a live API server or runtime returns (with an answer or an error), the
retry timer of one second fires (`reconcile.go:62-71`), a runnable goroutine
runs, etcd delivers the events of an open stream. Users, failures, exits and a
stop are never fair; they are bounded, which stands for "stop happening".
Each controller's weak fairness is for all of its steps together, since it is
sequential; the forwarders of `WatchLoop` are goroutines and fair one by one.
In `StaticPods` the API server comes up once its Pods run. In `Runtime` the
goroutines of the runtime are fair as a whole, which is less than the Go scheduler
gives; timeouts of five seconds fire, and a process ends after SIGKILL, never
because of SIGTERM. The same holds of the units of `Supervisor`.

## 4. Proofs

TLAPS proves the following for all values of the constants, under the named
assumptions of the modules, which give the constants their types and ask `None`
to be no value.

| Module | Theorem | States |
|---|---|---|
| `ApiServerProofs` | `TypeCorrect` | `TypeOK` |
| | `VersionsIdentify` | `VersionNamesContent`: a version names one content, for ever |
| | `Implements` | `KeepsPromise`: `ApiStore` implements `OptimisticStore` |
| | `ServicesTypeCorrect` | `ServicesTypeOK` |
| | `ClusterIPStable` | `StableClusterIP`: only the address a manifest names replaces a ClusterIP, with any number of overlapping applies |
| | `SharedOnlyByRace` | `DistinctUnlessRaced`, with any number of overlapping applies |
| `WatchLoopProofs` | `TypeCorrect` | `TypeOK` |
| | `WatchBeforeReconcile` | `NoMissedChange`, for any number of watches |
| | `NoIdleWork` | `Frugal`: no turn without a cause, no streams left behind but by a failure |
| | `Implements` | `KeepsPromise`: `WatchLoop` implements `ReconcileLoop` |
| | `EnoughGenerations` | `GenerationLeft`: the bound on the generations refuses no turn |
| `ControllerManagerProofs` | `TypeCorrect` | `TypeOK` |
| | `ControllersKeepApart` | `OwnFields`: each controller changes its part of a ReplicaSet only |
| | `NoSurplusEver` | `NoSurplus`, for any replicas, failures and writes of others |
| | `RestsWhenConverged` | `ConvergedAtRest`, the safety part of `Converges` |
| `SchedulerProofs` | `TypeCorrect` | `TypeOK`, in particular `nextNode` within the list of Nodes |
| | `BindsOnlyUnbound` | `BindsUnbound` |
| | `SharesEvenly` | `Even`, over any number of turns, refusals and failures, for the binds that were answered |
| | `RestsWhenBound` | `BoundAtRest`, the safety part of `AllBound` |
| `KubeletProofs` | `TypeCorrect` | `TypeOK` |
| | `NothingOrphaned` | `NoOrphan` |
| | `AddressesDistinct` | `SandboxPerContainer` |
| | `WritesStatusOnly` | `StatusOnly` |
| | `RestsWhenSettled` | `SettledAtRest`, the safety part of `Settles` |
| `StaticPodsProofs` | `TypeCorrect` | `TypeOK` |
| | `NeverStartedTwice` | `NeverTwice`, for any number of static Pods and failures |
| | `WritesOnlyWhatItSaw` | `WritesWhatItSaw` |
| | `RestsWhenShown` | `ShownAtRest`, the safety part of `LoadedRun` and `MirrorsShowLoaded` |
| `RuntimeProofs` | `TypeCorrect` | `TypeOK` |
| | `NoRace` | `NeverRaced`: the sections without the lock are never raced |
| | `StopsAreTrue` | `AnswersTrue`, for any Pods, containers and watches |
| | `Implements` | `KeepsPromise`: `Runtime` implements `ContainerRuntime` |
| | `StopAllStops` | `NobodyLeft`, the safety part of `StopsEnd` |
| `NodeProofs` | `TypeCorrect` | `TypeOK` of `KubeProxy` |
| | `TableRight` | `RightWhenQuiet`, for any Services, Pods and ports |
| | `SupervisorTypeCorrect` | `SupervisorTypeOK`: neither the channel nor the count of ends runs over |
| | `NobodyIsForgotten` | `NobodyForgotten`, for any number of units |

**ApiStore.** The inductive invariant adds to the types that no stored object
and no copy has a version beyond `revision`, and that equal versions of a name
are equal objects. Without the first, a new revision could collide with a copy's.
The refinement follows: a copy whose version is the stored one *is* the stored
object, so an accepted update is one of a current copy; a write gives the object
a version no copy has, so all copies of it stop being current, as the abstract
specification says.

**WatchLoop.** `NoMissedChange` is not inductive: it speaks of sleeping only. The
invariant follows a turn: while `CombineWatches` works, every earlier watch has
its stream (`Opening`); while Reconcile reads, what it has read of a resource it
read no earlier than the revision from which that resource's stream reports
(`Covered`); and as long as Run listens, either its channel holds the event or
none of its goroutines has ended and its context is not done (`Reported`). The
order "watch first, reconcile then" is what makes the step to `wait` preserve it.

`Frugal` is an accounting, which is not inductive by itself either. There are as many
changes and failures as generations before the current one, and one more once that
one has reported or its Reconcile has failed; an open stream keeps the revision
that shows it, for it reports only what is later than its List (`Caused`). Every
generation that was left with its streams open has a failure of its own
(`Accounted`), a count of generations that each step of Run may change by one.
`EnoughGenerations` follows from `Caused`: as many generations as changes and
failures, and one more, are all that Run can ask for.

For `Implements`, each step of `WatchLoop` is one of `ReconcileLoop` or none: the last
opening of a watch begins the turn, a read is a read, a stream that ends by itself
is a disturbance. What has to be shown is that a change wakes (by `Reading`, `Asleep`
and `Reported` the resource has an open stream that starts earlier, or a report
is already on its way), that a forwarder that gives up takes no report with it
(`Reported`), and that what was just read is not unread (`LastIssued`).

**ServiceAllocation.** `ClusterIPStable` rests on `CarriesIP`: an update that can
still be accepted, and whose manifest names no ClusterIP, carries that of the
stored Service, because whatever changes that Service makes the update stale.
`SharedOnlyByRace` needs to know of every apply that has chosen its address or
port (`RacesNoted`): whatever Service has the same was written after the choice,
and is noted in `raced` of the apply, which its write adds to the Service's own.
A choice is made among what no stored Service has (`FreeHosts`, `FreePorts`), and
`Others`, which leaves out the Service itself, is the same set for an update that
is accepted.

**ControllerManager.** The invariant says what the copies still tell after
others have written: a copy of a ReplicaSet that nobody has overtaken is the
stored ReplicaSet (`DCFresh`, `RCFresh`), so that the parts of it a controller
copies are those it overwrites; and, since nobody else creates Pods, every Pod
that exists is in the ReplicaSet controller's list, which may also have some that
are gone (`PodsListed`). `NoSurplus` then is a count: the Pods of the label after
a create are among those the controller manages in its list, fewer than the
replicas, and the new one. The assumption that `Replicas` is finite makes the
set of Pod numbers finite, without which there is no counting.

**Scheduler.** One conjunct is enough beside the types: a copy of a Pod nobody
has overtaken is the stored Pod (`Copies`). That `nextNode` stays within the list
follows from the remainder by its length, which is not 0 since a Ready Node is
in it (`AfterInList`). `Even` alone is not inductive: it would allow that the Node
whose turn it is has already one Pod more. `InOrder` adds that, walked around from
`nextNode`, the Nodes that come first have no more Pods than those that come
later, counting binds that were answered (`Counted`); a bind moves the first to the end and keeps the order of the others, which
is a lemma about remainders (`Distances`) and about positions in a list
(`Positions`). A bind without answer leaves both
counts and `nextNode` as they are. A changed list forgets the binds and starts
again.

**Kubelet.** `NoOrphan` is about the call `runInSandbox`, which overwrites the
map entry of a Pod name. It is inductive with: the Pods to start had no running
container in the kubelet's list, and containers are started by nobody else, so
they have none now (`NotRunning`); a sandbox has been made or found for the Pod
the kubelet is at (`InSandbox`, `AtItem`). `StatusOnly` rests on `Copies`: a copy
nobody has overtaken is the stored Pod, but for the address that the kubelet has
filled in, which is the one of the sandbox (`StartsAssigned`: all these Pods are
bound here).

**StaticPods.** `NeverTwice` needs what the kubelet's stale list of containers
still tells: a Pod it is to start and lists as not running does not run now, for
nobody else starts containers, and they end by themselves only (`NotRunning`,
with `InSandbox`: what runs has its sandbox). For `WritesWhatItSaw` the invariant
says of every mirror in `current`, and of every name at which nothing was listed
and the create can be accepted, that what is stored is what was listed (`Copies`). `Versioned` says that a
container that was not kept runs the version read last: it was started from it, or
had it already when it was read.

**KubeProxy.** The inductive invariant (`Fresh`) follows a turn: as long as no
event has come, the copy of the Services is what is stored, the rules are those of
the stored Services and Pods, and the table that was added last forwards by them.
That the table of such rules is right rests on lemmas about `Target`: among the
rules that match there is a first one (the order is compared number by number,
and a set of natural numbers has a least element), it belongs to a Service that
serves the destination, and every Service with an endpoint has a rule.

**Runtime.** The invariant says of each goroutine what it may still rely on when
it takes the lock again. The kubelet waits for its answers, so the runtime serves
one call at a time (`OneCall`); with that, `NeverRaced` follows, although
`stopPodSandbox` holds no lock. A handler between two sections has the entry it
looked up, and of a stop that is still the map's (`CallsOK`). The kubelet starts
only what its List returned as not running, and nobody else starts anything, so
what a call is about to start does not run (`NotRunning`). A process that has not
ended is the map's or is about to be registered, and what a waiter has closed has
ended and is marked (`ProcessesOK`): this is what makes an answer true. As long as
the kubelet has not been woken, its watch is open (`WatchOpen`), so that what is
published reaches it. With all this each step of a goroutine is a step of
`ContainerRuntime` or none. For `NobodyLeft`, a container that was registered before
SIGTERM is dead, or it is the map's and on the list of `StopAll` or being stopped
(`Covered`).

**Supervisor.** `NobodyForgotten` speaks of the moment at which Run returns; the
invariant counts until then (`EndsCounted`): the processes that have been waited for
are as many as the ends in the channel and those `waitForExit` has seen. It returns
with a count of 0 only if all of them were, and at the deadline it has killed
all. A Run that fails has not started all units, because the one whose path it
waits for is never the last (`LastHasPath`): the assumption
`NumUnits \notin WithPath`, which `cmd/node-supervisor/main.go:55-82` makes true, is
needed here, and an instance without it violates `NobodyForgotten`.

**At rest.** A component rests when it waits and nothing has woken it; what it leaves
then is stated in the proof modules, next to the proofs (`ConvergedAtRest`,
`BoundAtRest`, `SettledAtRest`, `ShownAtRest`; for kube-proxy it is `RightWhenQuiet`).
The argument is the same for all: every write of what a component watches, its own
included, wakes it, and so does a failure; so as long as it has not been woken, its
lists are what is stored and what runs (`Undisturbed`), and a turn that ends so has
found nothing to do in them. Three exceptions of the liveness properties are not
needed here: a name that cannot be used (`Stuck`), a Pod that cannot be
started (`Startable`) and an API server that is awaited (`Deadlocked`) keep the
component from resting, not from resting rightly. What is left to fairness, and
to TLC, is that the components come to rest at all.

**Only model-checked.** Liveness (TLAPS has no support for fairness and
ENABLED): `Converges`, `GoroutinesEnd`, `AllBound`, `Settles`, `LoadedRun`,
`MirrorsShowLoaded`, `EventsArrive`, `AllEnd`, and of `StopsEnd` the two parts
that say that calls and `StopAll` end. All invariants and action properties of the
runs, and the three refinements, are proved. The `TypeOK` of `ApiStore` and of
`WatchLoop` are proved, not checked by a run.

## 5. Where code and documentation disagree

Two disagreements have a run that shows them:

- **A sandbox is never stopped** (`kubelet_leak`). `architecture.md:136` applies
  the lifecycle to deletion and to the end of the process. The second loop of
  `Reconcile` (`kubelet.go:108-119`) looks at Running containers only: if the
  process ends and the Pod is deleted before it is started again, its sandbox
  and address stay. Likewise when `StopPodSandbox` fails after `Stop`.
- **A NodePort takes another Service's traffic** (`kube_proxy_node_port`).
  `architecture.md:87` says that TCP to a Service's ClusterIP and port goes to an
  endpoint of it. The rule of a NodePort (`proxy.go:172`) matches the port for
  every destination address. A Service that has the number as its own port, and a
  ClusterIP later in the order of rules, is answered by the other's Pods.

The others bound what the properties claim:

- **Relabelled Deployments.** The comment at `controllers.go:178` promises
  convergence to the desired replicas. After a change of the label, the old Pods
  are not managed any more but keep their names; `nextPodName`
  (`controllers.go:278`) avoids the names of managed Pods only, so every turn
  tries a name that exists, gets 409, and ends. Nobody deletes the old Pods.
  `Converges` is claimed of a Deployment while neither its ReplicaSet nor one that
  is listed before it is held up like this (`Stuck`); the controllers sleep unless
  one is.
- **One ClusterIP for two Services.** The test at `server_test.go:123` says that
  services receive distinct ClusterIPs. `allocateServiceIP` (`server.go:112`) picks
  from a List, and the Create that follows guards the key of the new Service only:
  when another Service is written between the pick and the write, both may store
  one address. And a ClusterIP that the manifest names is stored without a look at
  the others (`server.go:154`), also over that of an existing Service
  (`main.go:184`). Hence `DistinctUnlessRaced`, which excepts Services that
  `raced` and addresses that were `brought`, and `StableClusterIP`, which excepts
  the latter.
- **A bind without answer.** `scheduler.go:47-51` advances `nextNode` only after an
  answer. When the Pod is bound and the answer lost, the same Node gets the next
  Pod too, and so may have two more than another: `Even` counts the binds that were
  answered.
- **A changed manifest** is, by `architecture.md:75`, detected and carried out by
  starting and stopping static Pods. `ReconcileStaticPods` compares no versions:
  it leaves a container that runs as it is (`static_pods.go:158`), until it ends
  for another reason. `LoadedRun` asks for the version read last of all containers
  but those that ran when it was read (`kept`).
- **Labels and status of mirrors.** `architecture.md:75` calls the manifest the
  source of truth of a mirror Pod. `mirror_pods.go:47` compares spec and annotations
  only: labels and status that a user edits, and labels that change in the
  manifest, stay as they are in the API server. `MirrorsShowLoaded` says as much as
  is compared.
- **One address that does not parse.** A ClusterIP, or a PodIP of a Running Pod
  that a Service selects, that is no IPv4 address ends every Reconcile of
  kube-proxy (`proxy.go:107-129`), so the table stays as it was for all Services.
  Anybody who writes a Service or a Pod's status can store one; `Converges` of
  `KubeProxy` is claimed while there is none (`Parses`).
- **Running without podIP.** `architecture.md:112` says the Pod becomes Running
  and receives podIP. A Pod deleted and created again before the kubelet looks
  finds its container running; `Reconcile` writes Running from the new object,
  which has no podIP (`kubelet.go:101`), and from then on has nothing to do for
  it. `Settles` asks for Running, not for the address.
- **A Pod that cannot be started** ends `Reconcile` before its second loop
  (`kubelet.go:89`), so `Settles` is claimed only while all Pods of the node can
  be started (`Startable`).
- **Manifests of a kubelet with API server.** `architecture.md:73` and `75` say
  that the control plane's kubelet watches its manifest directory.
  `kubelet.go:186-190` does that only without an API server, so a changed manifest
  waits for another event: `LoadedRun` says `loaded = manifests` for `~hasClient`
  only. Such a kubelet also opens its watches before it starts Pods, so that when
  its API server's Pod is not running at that moment it waits for itself
  (`Deadlocked`).
- **No restart of units.** `architecture.md:206` names restart among what the
  supervisor does; `Run` has none: when one unit ends, all end (`AllEnd`).

## 6. Not modelled, and why

- *Node network arithmetic* (`bootstrap/bootstrap.go`, `node/network.go`): a pure
  computation and commands to the kernel, without state or order of steps.
- *The image of a Pod* (`kubelet.go:88`): a Pod created again with another image
  keeps its container; no document says otherwise.
- *The reader goroutine of the API client* (`client.go:165`), which blocks on a
  second event that nobody takes: the forwarders of `WatchLoop` take one event,
  after which nothing of the loop depends on the reader. `GoroutinesEnd` is about
  the forwarders; the reader and its connection do not end.
- *The end of the runtime by its supervisor*: `supervisor.go:105-109` sends SIGKILL
  five seconds after SIGTERM, also to a runtime whose `StopAll` is still waiting;
  `StopsEnd` is about a runtime that is left to finish.
- *`toyctl apply` of a ReplicaSet*: the model's ReplicaSets are written by the
  controllers and deleted by users.
- *The sandbox process*: its end is noticed by nobody (`runtime.go:318`), and a
  sandbox whose process is gone stays Running in the map. In the models it ends
  with its sandbox only.
- *Two nodes with manifests, and static and workload Pods of one name on one
  node*: `run.sh` starts neither (one manifest directory, on the control plane,
  which is registered as no Node). `mirror_pods.go:55` and `cni.go:52` would not
  be safe there.
- *etcd, the kernel (netlink, nftables, namespaces)*: external; only what the code
  relies on is in the models.
- *JSON, YAML, HTTP framing, validation, printing*: no property depends on them.
  A refused request changes nothing.
- *Time*: a call returns or fails, a deadline may fire at any moment after it was
  set, the retry interval is fairness.
- *Command mains, scripts, images, manifests*: wiring and data.

## 7. Plan

Done: the store, the loop, the controllers, the allocation, the scheduler, the
kubelet with its static Pods, the runtime, kube-proxy and the supervisor
(sections 2 to 4). What would add most from here:

1. **Kubelet, deeper**: the image of a Pod, and two nodes that hand a Pod over.
2. **Cluster**: controllers, scheduler and kubelets over one store: a Deployment
   ends up as Running Pods.
