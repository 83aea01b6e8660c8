----------------------------- MODULE Scheduler -----------------------------
(***************************************************************************)
(* kube-scheduler, with the users, controllers and kubelets that write     *)
(* Nodes and Pods while it works. A Reconcile lists, keeps its copies, and *)
(* binds one Pod per step; as in ControllerManager, the scheduler knows    *)
(* which copies nobody has overtaken, and a change since it opened its     *)
(* watches wakes it.                                                       *)
(***************************************************************************)
EXTENDS Integers, FiniteSets

CONSTANTS
  NumNodes,    \* Nodes are called 1, 2, ... in key order
  NumPods,     \* and so are Pods
  None,        \* no object
  MaxWrites,   \* bound: writes by everybody else
  MaxFailures, \* bound: failed calls, lost answers and restarts
  MaxBinds     \* bound: how far binds counts

Phases == {"Ready", ""}    \* status.phase of a Node

ASSUME SchedulerAssumption ==
  /\ NumNodes \in Nat /\ NumPods \in Nat
  /\ None \notin Phases /\ None \notin 0..NumNodes
  /\ MaxWrites \in Nat /\ MaxFailures \in Nat /\ MaxBinds \in Nat

Nodes == 1..NumNodes
Pods == 1..NumPods
Unbound == 0               \* spec.nodeName = ""

VARIABLES
  nodes,     \* [Nodes -> Phases \cup {None}]: status.phase
  pods,      \* [Pods -> Nodes \cup {Unbound, None}]: spec.nodeName
  s,         \* the scheduler: pc, wake-up, copies and nextNode
  binds,     \* history: how often it bound to each Node since the list of
             \* Nodes it works with last changed
  lost,      \* history: how many of these binds had no answer
  writes, failures

vars == <<nodes, pods, s, binds, lost, writes, failures>>

NodeList == [Nodes -> Phases \cup {None}]
PodList == [Pods -> Nodes \cup {Unbound, None}]
SchedulerState ==
  [pc : {"wait", "nodes", "pods", "items"}, woken : BOOLEAN, nodes : NodeList,
   pods : PodList, current : SUBSET Pods, nextNode : 0..NumNodes]

NoBinds == [n \in Nodes |-> 0]
NoNodes == [n \in Nodes |-> None]

(* Between two turns the scheduler keeps nextNode; the list of Nodes only  *)
(* tells binds whether it changed.                                         *)
Waiting(woken, list, position) ==
  [pc |-> "wait", woken |-> woken, nodes |-> list, pods |-> [p \in Pods |-> None],
   current |-> {}, nextNode |-> position]

Init ==
  /\ nodes \in NodeList
  /\ pods \in [Pods -> {Unbound, None}]
  /\ s = Waiting(TRUE, NoNodes, 0)
  /\ binds = NoBinds /\ lost = NoBinds
  /\ writes = 0 /\ failures = 0

-----------------------------------------------------------------------------
(* nextReadyNode: the first Ready Node of the list, from position start on *)
(* and around. start comes from an earlier list and may be past the end.   *)
Listed == {n \in Nodes : s.nodes[n] # None}
Ready == {n \in Nodes : s.nodes[n] = "Ready"}
Index(n) == Cardinality({m \in Listed : m < n})
Offset(n) == (Index(n) - s.nextNode) % Cardinality(Listed)
NextReadyNode(n) == n \in Ready /\ \A m \in Ready : Offset(n) <= Offset(m)
(* Fault: one position too far.                                            *)
AfterNext(n) == (Index(n) + 2) % Cardinality(Listed)

After(n) == (Index(n) + 1) % Cardinality(Listed)

-----------------------------------------------------------------------------
(* Scheduler.Reconcile.                                                    *)

Wake ==
  /\ s.pc = "wait" /\ s.woken
  /\ s' = [s EXCEPT !.pc = "nodes", !.woken = FALSE]
  /\ UNCHANGED <<nodes, pods, binds, lost, writes, failures>>

ListNodes ==
  /\ s.pc = "nodes"
  /\ s' = [s EXCEPT !.pc = "pods", !.nodes = nodes]
  /\ IF nodes = s.nodes THEN UNCHANGED <<binds, lost>> ELSE binds' = NoBinds /\ lost' = NoBinds
  /\ UNCHANGED <<nodes, pods, writes, failures>>

ListPods ==
  /\ s.pc = "pods"
  /\ s' = [s EXCEPT !.pc = "items", !.pods = pods, !.current = {p \in Pods : pods[p] # None}]
  /\ UNCHANGED <<nodes, pods, binds, lost, writes, failures>>

(* The next Pod of the list that is not bound.                             *)
Todo == {p \in Pods : s.pods[p] = Unbound}
Turn(p) == s.pc = "items" /\ p \in Todo /\ (\A q \in Todo : p <= q) /\ Ready # {}

(* Fault: no retry timer.                                                  *)
FailedForGood == s' = Waiting(FALSE, s.nodes, s.nextNode)

Failed == s' = Waiting(TRUE, s.nodes, s.nextNode)

(* Whether the API server accepts the copy. Fault: any copy will do.       *)
BindAcceptedBlindly(p) == pods[p] # None
BindAccepted(p) == p \in s.current

(* PUT of the copy with its nodeName set; without an answer, the Reconcile *)
(* fails although the Pod is bound, and nextNode stays where it is.        *)
Bind(p, n) ==
  /\ Turn(p) /\ NextReadyNode(n) /\ BindAccepted(p)
  /\ pods' = [pods EXCEPT ![p] = n]
  /\ binds[n] < MaxBinds /\ binds' = [binds EXCEPT ![n] = @ + 1]
  /\ \/ /\ s' = [s EXCEPT !.pods[p] = n, !.current = @ \ {p}, !.nextNode = After(n), !.woken = TRUE]
        /\ UNCHANGED <<lost, failures>>
     \/ /\ failures < MaxFailures /\ failures' = failures + 1
        /\ Failed /\ lost' = [lost EXCEPT ![n] = @ + 1]
  /\ UNCHANGED <<nodes, writes>>

(* 409, and the Pods after this one are not looked at.                     *)
BindRefused(p) ==
  /\ Turn(p) /\ ~BindAccepted(p)
  /\ Failed
  /\ UNCHANGED <<nodes, pods, binds, lost, writes, failures>>

(* Fault: the copies are kept for the next turn.                           *)
ReturnWithCopies ==
  /\ s.pc = "items" /\ (Todo = {} \/ Ready = {})
  /\ s' = [s EXCEPT !.pc = "wait"]
  /\ UNCHANGED <<nodes, pods, binds, lost, writes, failures>>

(* Nothing is left to bind, or no Node is Ready.                           *)
Return ==
  /\ s.pc = "items" /\ (Todo = {} \/ Ready = {})
  /\ s' = Waiting(s.woken, s.nodes, s.nextNode)
  /\ UNCHANGED <<nodes, pods, binds, lost, writes, failures>>

CallFails ==
  /\ s.pc # "wait"
  /\ failures < MaxFailures /\ failures' = failures + 1
  /\ Failed
  /\ UNCHANGED <<nodes, pods, binds, lost, writes>>

Restart ==
  /\ failures < MaxFailures /\ failures' = failures + 1
  /\ s' = Waiting(TRUE, NoNodes, 0) /\ binds' = NoBinds /\ lost' = NoBinds
  /\ UNCHANGED <<nodes, pods, writes>>

-----------------------------------------------------------------------------
(* Everybody else: a kubelet registers its Node, a user applies one (whose *)
(* status a manifest may leave out) or deletes it; a Pod is created, bound *)
(* or not, moved, written otherwise, or deleted.                           *)
Write == writes < MaxWrites /\ writes' = writes + 1 /\ UNCHANGED <<binds, lost, failures>>

WriteNode(n, x) ==
  /\ Write
  /\ nodes[n] # None \/ x # None
  /\ nodes' = [nodes EXCEPT ![n] = x]
  /\ s' = [s EXCEPT !.woken = TRUE]
  /\ UNCHANGED pods

WritePod(p, x) ==
  /\ Write
  /\ pods[p] # None \/ x # None
  /\ x = Unbound => pods[p] \in {Unbound, None}
  /\ pods' = [pods EXCEPT ![p] = x]
  /\ s' = [s EXCEPT !.woken = TRUE, !.current = @ \ {p}]
  /\ UNCHANGED nodes

-----------------------------------------------------------------------------
SchedulerStep ==
  \/ Wake \/ ListNodes \/ ListPods \/ Return
  \/ \E p \in Pods : BindRefused(p) \/ \E n \in Nodes : Bind(p, n)

Next ==
  \/ SchedulerStep \/ CallFails \/ Restart
  \/ \E n \in Nodes, x \in Phases \cup {None} : WriteNode(n, x)
  \/ \E p \in Pods, x \in Nodes \cup {Unbound, None} : WritePod(p, x)

Spec == Init /\ [][Next]_vars

(* The API server answers and the retry timer fires.                       *)
FairSpec == Spec /\ WF_vars(SchedulerStep)

-----------------------------------------------------------------------------
(* Types; a scheduler that waits has no copies of Pods.                    *)
TypeOK ==
  /\ nodes \in NodeList
  /\ pods \in PodList
  /\ s \in SchedulerState /\ (s.pc = "wait" => s = Waiting(s.woken, s.nodes, s.nextNode))
  /\ binds \in [Nodes -> 0..MaxBinds]
  /\ lost \in [Nodes -> 0..MaxBinds] /\ \A n \in Nodes : lost[n] <= binds[n]
  /\ writes \in 0..MaxWrites
  /\ failures \in 0..MaxFailures

(* The scheduler never moves a Pod and never brings one back: what it      *)
(* writes is a Pod that exists and is bound to no Node at that moment.     *)
BindsUnbound ==
  [][SchedulerStep => \A p \in Pods : pods'[p] # pods[p] => pods[p] = Unbound /\ pods'[p] \in Ready]_vars

(* Round-robin, over several turns and in spite of refused calls: while    *)
(* the list of Nodes stays the same, no Ready Node gets two Pods more than *)
(* another, not counting the binds whose answer was lost: each of these    *)
(* gives the Node it binds to one Pod more than its share.                 *)
Answered(n) == binds[n] - lost[n]
Even == \A m, n \in Ready : Answered(m) <= Answered(n) + 1

(* When the others and the failures stop, no Pod is left unbound while a   *)
(* Node is Ready.                                                          *)
AllBound ==
  <>[]((\E n \in Nodes : nodes[n] = "Ready") => \A p \in Pods : pods[p] # Unbound)
=============================================================================
