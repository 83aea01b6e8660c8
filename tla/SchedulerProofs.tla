--------------------------- MODULE SchedulerProofs ---------------------------
(***************************************************************************)
(* Proofs of the safety of Scheduler, for any Nodes, Pods, writes and      *)
(* failures.                                                               *)
(***************************************************************************)
EXTENDS Scheduler, FiniteSetTheorems, TLAPS

-----------------------------------------------------------------------------
(* The inductive invariant: a copy nobody has overtaken is the stored Pod. *)
Copies == s.pc = "items" => \A p \in s.current : s.pods[p] = pods[p]

Typed(x) == x \in SchedulerState /\ (x.pc = "wait" => x = Waiting(x.woken, x.nodes, x.nextNode))

IInv == TypeOK /\ Copies

-----------------------------------------------------------------------------
(* Facts about single states.                                              *)

LEMMA WaitingTyped ==
  ASSUME NEW woken \in BOOLEAN, NEW list \in NodeList, NEW position \in 0..NumNodes
  PROVE  LET x == Waiting(woken, list, position) IN Typed(x) /\ x.pc = "wait"
<1> DEFINE x == Waiting(woken, list, position)
<1>1. /\ x.pc = "wait" /\ x.woken = woken /\ x.nodes = list /\ x.nextNode = position
      /\ x \in SchedulerState
  BY DEF Waiting, SchedulerState, PodList
<1> QED
  BY <1>1 DEF Typed

(* A write between two turns leaves nothing but the wake-up.               *)
LEMMA StaysTyped ==
  ASSUME TypeOK, NEW x \in SchedulerState,
         x.pc = s.pc, x.nodes = s.nodes, x.pods = s.pods, x.nextNode = s.nextNode, x.current \subseteq s.current
  PROVE  Typed(x)
<1> SUFFICES ASSUME s.pc = "wait" PROVE x = Waiting(x.woken, x.nodes, x.nextNode)
  BY DEF Typed
<1> DEFINE w == s.woken
           list == s.nodes
           position == s.nextNode
           noPods == [p \in Pods |-> None]
<1> HIDE DEF w, list, position
<1>1. s = Waiting(w, list, position)
  BY DEF TypeOK, w, list, position
<1>2. s.pods = noPods /\ s.current = {}
  BY <1>1 DEF Waiting
<1>3. x = [pc |-> x.pc, woken |-> x.woken, nodes |-> x.nodes, pods |-> x.pods,
           current |-> x.current, nextNode |-> x.nextNode]
  BY DEF SchedulerState
<1>4. x.current = {}
  BY <1>2
<1>5. Waiting(x.woken, x.nodes, x.nextNode) =
        [pc |-> "wait", woken |-> x.woken, nodes |-> x.nodes, pods |-> noPods,
         current |-> {}, nextNode |-> x.nextNode]
  BY DEF Waiting
<1> HIDE DEF noPods
<1> QED
  BY <1>2, <1>3, <1>4, <1>5

(* nextNode stays within the list of Nodes.                                *)
LEMMA AfterInList == ASSUME TypeOK, NEW n \in Ready PROVE After(n) \in 0..NumNodes
<1>1. NumNodes \in Nat /\ n \in Listed /\ Listed \in SUBSET (1..NumNodes)
  BY SchedulerAssumption DEF Ready, Listed, Nodes, Phases
<1>2. IsFiniteSet(1..NumNodes) /\ Cardinality(1..NumNodes) = NumNodes
  BY <1>1, FS_Interval
<1>3. IsFiniteSet(Listed) /\ Cardinality(Listed) <= NumNodes
  BY <1>1, <1>2, FS_Subset
<1>4. Cardinality(Listed) \in Nat /\ Cardinality(Listed) # 0
  BY <1>1, <1>3, FS_CardinalityType, FS_EmptySet
<1>5. {m \in Listed : m < n} \in SUBSET Listed
  OBVIOUS
<1>6. Index(n) \in Nat
  BY <1>3, <1>5, FS_Subset, FS_CardinalityType DEF Index
<1> DEFINE length == Cardinality(Listed)
           index == Index(n)
<1> HIDE DEF length, index
<1>7. length \in Nat /\ length # 0 /\ length <= NumNodes /\ index \in Nat
  BY <1>3, <1>4, <1>6 DEF length, index
<1>8. (index + 1) % length \in 0..NumNodes
  BY <1>1, <1>7
<1> QED
  BY <1>8 DEF After, length, index

(* The histories.                                                          *)
Counted(all, unanswered) ==
  /\ all \in [Nodes -> 0..MaxBinds]
  /\ unanswered \in [Nodes -> 0..MaxBinds] /\ \A n \in Nodes : unanswered[n] <= all[n]

LEMMA InitIInv == Init => IInv
<1> SUFFICES ASSUME Init PROVE IInv
  OBVIOUS
<1>1. NoNodes \in NodeList /\ 0 \in 0..NumNodes
  BY SchedulerAssumption DEF NoNodes, NodeList
<1>2. Typed(s) /\ s.pc = "wait"
  BY <1>1, WaitingTyped DEF Init
<1>3. pods \in PodList /\ Counted(binds, lost) /\ writes \in 0..MaxWrites /\ failures \in 0..MaxFailures
  BY SchedulerAssumption DEF Counted, Init, PodList, NoBinds
<1> QED
  BY <1>2, <1>3 DEF Init, IInv, TypeOK, Typed, Copies, Counted

-----------------------------------------------------------------------------
(* Steps of the invariant.                                                 *)

(* The Reconcile ends, and only the scheduler changes.                     *)
LEMMA StepEnds ==
  ASSUME IInv, NEW woken \in BOOLEAN, NEW list \in NodeList, NEW position \in 0..NumNodes,
         s' = Waiting(woken, list, position), nodes' \in NodeList, pods' \in PodList,
         Counted(binds', lost'), writes' \in 0..MaxWrites, failures' \in 0..MaxFailures
  PROVE  IInv'
<1>1. Typed(s') /\ s'.pc = "wait"
  BY WaitingTyped
<1> QED
  BY <1>1 DEF IInv, TypeOK, Typed, Copies, Counted

LEMMA StepReads == ASSUME IInv, Wake \/ ListNodes \/ ListPods PROVE IInv'
<1>1. /\ s \in SchedulerState /\ nodes \in NodeList /\ pods \in PodList
      /\ UNCHANGED <<nodes, pods, writes, failures>> /\ {p \in Pods : pods[p] # None} \subseteq Pods
  BY DEF IInv, TypeOK, Wake, ListNodes, ListPods
<1>2. Counted(binds', lost')
  <2>1. Counted(binds, lost) /\ Counted(NoBinds, NoBinds)
    BY SchedulerAssumption DEF IInv, TypeOK, Counted, NoBinds
  <2>2. UNCHANGED <<binds, lost>> \/ (binds' = NoBinds /\ lost' = NoBinds)
    BY DEF Wake, ListNodes, ListPods
  <2> QED
    BY <2>1, <2>2
<1>3. CASE Wake
  <2>1. s' \in SchedulerState /\ s'.pc = "nodes"
    BY <1>1, <1>3 DEF Wake, SchedulerState
  <2> QED
    BY <1>1, <1>2, <2>1 DEF IInv, TypeOK, Copies, Counted
<1>4. CASE ListNodes
  <2>1. s' \in SchedulerState /\ s'.pc = "pods"
    BY <1>1, <1>4 DEF ListNodes, SchedulerState
  <2> QED
    BY <1>1, <1>2, <2>1 DEF IInv, TypeOK, Copies, Counted
<1>5. CASE ListPods
  <2>1. s' \in SchedulerState /\ s'.pc = "items" /\ s'.pods = pods
    BY <1>1, <1>5 DEF ListPods, SchedulerState
  <2> QED
    BY <1>1, <1>2, <2>1 DEF IInv, TypeOK, Copies, Counted
<1> QED
  BY <1>3, <1>4, <1>5

LEMMA StepBind == ASSUME IInv, NEW p \in Pods, NEW n \in Nodes, Bind(p, n) PROVE IInv'
<1>1. /\ s \in SchedulerState /\ s.pc = "items" /\ n \in Ready /\ nodes' = nodes
      /\ writes' \in 0..MaxWrites /\ pods \in PodList /\ pods' = [pods EXCEPT ![p] = n]
  BY DEF IInv, TypeOK, Bind, Turn, NextReadyNode
<1>2. pods' \in PodList /\ \A q \in Pods \ {p} : pods'[q] = pods[q]
  BY <1>1 DEF PodList
<1>0. binds[n] < MaxBinds /\ binds' = [binds EXCEPT ![n] = @ + 1] /\ Counted(binds, lost)
  BY DEF Bind, IInv, TypeOK, Counted
<1>3. CASE s' = [s EXCEPT !.pods[p] = n, !.current = @ \ {p}, !.nextNode = After(n), !.woken = TRUE]
           /\ UNCHANGED <<lost, failures>>
  <2> DEFINE list == [s.pods EXCEPT ![p] = n]
             current == s.current \ {p}
             position == After(n)
  <2>1. list \in PodList /\ current \in SUBSET Pods /\ position \in 0..NumNodes
    BY <1>1, AfterInList DEF IInv, SchedulerState, PodList
  <2>2. \A q \in current : list[q] = s.pods[q] /\ q # p
    BY <1>1 DEF SchedulerState, PodList
  <2>3. s' = [s EXCEPT !.pods = list, !.current = current, !.nextNode = position, !.woken = TRUE]
    BY <1>1, <1>3 DEF SchedulerState
  <2> HIDE DEF list, current, position
  <2>4. s' \in SchedulerState /\ s'.pc = "items" /\ s'.pods = list /\ s'.current = current
    BY <1>1, <2>1, <2>3 DEF SchedulerState
  <2>5. current \subseteq s.current
    BY DEF current
  <2>6. Copies'
    BY <1>1, <1>2, <2>1, <2>2, <2>4, <2>5 DEF IInv, Copies
  <2>7. Counted(binds', lost')
    BY <1>0, <1>3, SchedulerAssumption DEF Counted
  <2> QED
    BY <1>1, <1>2, <1>3, <2>4, <2>6, <2>7 DEF IInv, TypeOK, Counted
<1>4. CASE /\ failures < MaxFailures /\ failures' = failures + 1
           /\ Failed /\ lost' = [lost EXCEPT ![n] = @ + 1]
  <2>1. failures' \in 0..MaxFailures
    BY <1>4, SchedulerAssumption DEF IInv, TypeOK
  <2>2. Counted(binds', lost')
    BY <1>0, <1>4, SchedulerAssumption DEF Counted
  <2> QED
    BY <1>1, <1>2, <1>4, <2>1, <2>2, StepEnds DEF Failed, IInv, TypeOK, SchedulerState
<1> QED
  BY <1>3, <1>4 DEF Bind

LEMMA StepOthers ==
  ASSUME IInv,
         \/ \E n \in Nodes, x \in Phases \cup {None} : WriteNode(n, x)
         \/ \E p \in Pods, x \in Nodes \cup {Unbound, None} : WritePod(p, x)
  PROVE  IInv'
<1>1. /\ s \in SchedulerState /\ UNCHANGED <<binds, lost, failures>> /\ writes' \in 0..MaxWrites
  <2>1. Write
    BY DEF WriteNode, WritePod
  <2> QED
    BY <2>1, SchedulerAssumption DEF IInv, TypeOK, Write
<1>2. ASSUME NEW n \in Nodes, NEW x \in Phases \cup {None}, WriteNode(n, x) PROVE IInv'
  <2>1. /\ s' \in SchedulerState /\ s'.pc = s.pc /\ s'.nodes = s.nodes /\ s'.pods = s.pods
        /\ s'.nextNode = s.nextNode /\ s'.current = s.current
    BY <1>1, <1>2 DEF WriteNode, SchedulerState
  <2>2. Typed(s')
    BY <2>1, StaysTyped DEF IInv
  <2>3. nodes' \in NodeList /\ pods' = pods
    BY <1>2 DEF WriteNode, IInv, TypeOK, NodeList
  <2> QED
    BY <1>1, <2>1, <2>2, <2>3 DEF IInv, TypeOK, Typed, Copies
<1>3. ASSUME NEW p \in Pods, NEW x \in Nodes \cup {Unbound, None}, WritePod(p, x) PROVE IInv'
  <2>1. /\ s' \in SchedulerState /\ s'.pc = s.pc /\ s'.nodes = s.nodes /\ s'.pods = s.pods
        /\ s'.nextNode = s.nextNode /\ s'.current = s.current \ {p} /\ s'.current \subseteq Pods
    BY <1>1, <1>3 DEF WritePod, SchedulerState
  <2>2. Typed(s')
    BY <2>1, StaysTyped DEF IInv
  <2>3. nodes' = nodes /\ pods' \in PodList /\ \A q \in Pods \ {p} : pods'[q] = pods[q]
    BY <1>3 DEF WritePod, IInv, TypeOK, PodList
  <2>4. Copies'
    BY <2>1, <2>3 DEF IInv, Copies
  <2> QED
    BY <1>1, <2>2, <2>3, <2>4 DEF IInv, TypeOK, Typed
<1> QED
  BY <1>2, <1>3

LEMMA StepIInv == IInv /\ [Next]_vars => IInv'
<1> SUFFICES ASSUME IInv, [Next]_vars PROVE IInv'
  OBVIOUS
<1>1. /\ s.woken \in BOOLEAN /\ s.nodes \in NodeList /\ s.nextNode \in 0..NumNodes
      /\ nodes \in NodeList /\ pods \in PodList /\ Counted(binds, lost)
      /\ writes \in 0..MaxWrites /\ failures \in 0..MaxFailures
  BY DEF IInv, TypeOK, SchedulerState, Counted
<1>2. CASE Wake \/ ListNodes \/ ListPods
  BY <1>2, StepReads
<1>3. CASE Return
  BY <1>1, <1>3, StepEnds DEF Return
<1>4. CASE \E p \in Pods : BindRefused(p)
  BY <1>1, <1>4, StepEnds DEF BindRefused, Failed
<1>5. CASE \E p \in Pods, n \in Nodes : Bind(p, n)
  BY <1>5, StepBind
<1>6. CASE CallFails \/ Restart
  <2>1. failures' \in 0..MaxFailures
    <3>1. failures < MaxFailures /\ failures' = failures + 1
      BY <1>6 DEF CallFails, Restart
    <3> QED
      BY <1>1, <3>1, SchedulerAssumption
  <2>2. NoNodes \in NodeList /\ 0 \in 0..NumNodes /\ Counted(NoBinds, NoBinds)
    BY SchedulerAssumption DEF NoNodes, NodeList, NoBinds, Counted
  <2>3. CASE CallFails
    BY <1>1, <2>1, <2>3, StepEnds DEF CallFails, Failed
  <2>4. CASE Restart
    BY <1>1, <2>1, <2>2, <2>4, StepEnds DEF Restart
  <2> QED
    BY <1>6, <2>3, <2>4
<1>7. CASE \/ \E n \in Nodes, x \in Phases \cup {None} : WriteNode(n, x)
           \/ \E p \in Pods, x \in Nodes \cup {Unbound, None} : WritePod(p, x)
  BY <1>7, StepOthers
<1>8. CASE UNCHANGED vars
  BY <1>8 DEF vars, IInv, TypeOK, Copies
<1> QED
  BY <1>2, <1>3, <1>4, <1>5, <1>6, <1>7, <1>8 DEF Next, SchedulerStep

LEMMA Invariance == Spec => []IInv
BY InitIInv, StepIInv, PTL DEF Spec

-----------------------------------------------------------------------------
(* Types, for any Nodes and Pods; in particular nextNode stays within the  *)
(* list it was computed from, and a scheduler that waits keeps no Pods.    *)
THEOREM TypeCorrect == Spec => []TypeOK
<1>1. IInv => TypeOK
  BY DEF IInv
<1> QED
  BY <1>1, Invariance, PTL

LEMMA BindsUnboundPods ==
  ASSUME IInv, SchedulerStep, NEW p \in Pods, pods'[p] # pods[p]
  PROVE  pods[p] = Unbound /\ pods'[p] \in Ready
<1>1. PICK q \in Pods, n \in Nodes : Bind(q, n)
  BY DEF SchedulerStep, Wake, ListNodes, ListPods, Return, BindRefused
<1>2. /\ pods' = [pods EXCEPT ![q] = n] /\ n \in Ready
      /\ s.pc = "items" /\ s.pods[q] = Unbound /\ q \in s.current
  BY <1>1 DEF Bind, Turn, Todo, NextReadyNode, BindAccepted
<1>3. p = q /\ pods'[p] = n
  BY <1>2 DEF IInv, TypeOK, PodList
<1> QED
  BY <1>2, <1>3 DEF IInv, Copies

(* Reconcile works through a list of Pods that others bind, rewrite and    *)
(* delete meanwhile: it still never moves a Pod that is bound nor brings   *)
(* back one that is gone, and it binds to a Node its list has as Ready.    *)
THEOREM BindsOnlyUnbound == Spec => BindsUnbound
<1>1. IInv /\ [Next]_vars =>
        [SchedulerStep => \A p \in Pods : pods'[p] # pods[p] => pods[p] = Unbound /\ pods'[p] \in Ready]_vars
  BY BindsUnboundPods
<1> QED
  BY <1>1, Invariance, PTL DEF Spec, BindsUnbound

-----------------------------------------------------------------------------
(* Round-robin. In order of offset, the next Ready Node first, the Nodes   *)
(* still to get a Pod in this round come before those that have theirs;    *)
(* without the positions, Even is not inductive.                           *)
InOrder == \A m, n \in Ready : Offset(m) < Offset(n) => Answered(m) <= Answered(n)

InTurn == Even /\ InOrder

(* Positions of a list of some length that is walked around.               *)
LEMMA Division ==
  ASSUME NEW length \in Nat \ {0}, NEW a \in Int
  PROVE  /\ a % length \in 0..(length - 1) /\ a \div length \in Int
         /\ a = length * (a \div length) + (a % length)
BY Z3

LEMMA Within ==
  ASSUME NEW length \in Nat \ {0}, NEW i \in 0..(length - 1)
  PROVE  i % length = i /\ (i - length) % length = i
OBVIOUS

LEMMA OnceAround ==
  ASSUME NEW length \in Nat \ {0}, NEW k \in Int, NEW e \in Int, NEW x \in Int,
         x = length * k + e, 0 < e, e < length, x < length, -length < x
  PROVE  e = IF x > 0 THEN x ELSE x + length
<1>1. k >= 1 => length * k >= length
  OBVIOUS
<1>2. k <= -2 => length * k <= -2 * length
  OBVIOUS
<1>3. k = 0 \/ k = -1
  BY <1>1, <1>2
<1> QED
  BY <1>3

(* Two positions differ by as much as their distances from a third, and    *)
(* seen from just after one, the other is that much less one away.         *)
LEMMA Distances ==
  ASSUME NEW length \in Nat \ {0}, NEW start \in Int, NEW i \in 0..(length - 1), NEW j \in 0..(length - 1), i # j
  PROVE  /\ (i - start) % length # (j - start) % length
         /\ (i - start) % length < (j - start) % length =>
              (j - ((i + 1) % length)) % length = ((j - start) % length) - ((i - start) % length) - 1
         /\ (i - ((i + 1) % length)) % length = length - 1
<1> DEFINE oi == (i - start) % length
           oj == (j - start) % length
           ki == (i - start) \div length
           kj == (j - start) \div length
           after == (i + 1) % length
<1>1. /\ oi \in 0..(length - 1) /\ ki \in Int /\ i - start = length * ki + oi
      /\ oj \in 0..(length - 1) /\ kj \in Int /\ j - start = length * kj + oj
  <2>1. i - start \in Int /\ j - start \in Int
    OBVIOUS
  <2> QED
    BY <2>1, Division, Zenon
<1>2. after = IF i + 1 < length THEN i + 1 ELSE 0
  <2>1. CASE i + 1 < length
    BY <2>1, Within
  <2>2. CASE ~(i + 1 < length)
    <3>1. i + 1 = length
      BY <2>2
    <3> QED
      BY <3>1, Within
  <2> QED
    BY <2>1, <2>2
<1> HIDE DEF oi, oj, ki, kj, after
<1>3. length * kj - length * ki = length * (kj - ki)
  BY <1>1
<1>4. j - i = length * (kj - ki) + (oj - oi)
  BY <1>1, <1>3
<1>5. oi # oj
  <2> SUFFICES ASSUME oi = oj PROVE FALSE
    OBVIOUS
  <2> DEFINE k == kj - ki
  <2>1. k \in Int /\ j - i = length * k
    BY <1>1, <1>4
  <2> HIDE DEF k
  <2>2. k >= 1 => length * k >= length
    BY <2>1
  <2>3. k <= -1 => length * k <= -length
    BY <2>1
  <2>4. k = 0
    BY <2>1, <2>2, <2>3
  <2> QED
    BY <2>1, <2>4
<1>6. ASSUME oi < oj PROVE (j - after) % length = oj - oi - 1
  <2> DEFINE k == kj - ki
             e == oj - oi
             x == j - i
  <2>1. k \in Int /\ e \in Int /\ x \in Int /\ x = length * k + e /\ 0 < e /\ e < length /\ x < length /\ -length < x
    BY <1>1, <1>4, <1>6
  <2> HIDE DEF k, e
  <2>2. e = IF x > 0 THEN x ELSE x + length
    BY <2>1, OnceAround
  <2>3. e - 1 \in 0..(length - 1)
    BY <2>1
  <2>4. j - after = e - 1 \/ j - after = e - 1 - length
    BY <2>1, <2>2, <1>2
  <2>5. (j - after) % length = e - 1
    BY <2>3, <2>4, Within
  <2> QED
    BY <2>5, <1>1 DEF e
<1>7. (i - after) % length = length - 1
  <2>1. length - 1 \in 0..(length - 1) /\ (i - after = length - 1 \/ i - after = (length - 1) - length)
    BY <1>2
  <2> QED
    BY <2>1, Within
<1> QED
  BY <1>5, <1>6, <1>7 DEF oi, oj, after

(* The Nodes of the list have different positions in it.                   *)
LEMMA Positions ==
  ASSUME TypeOK
  PROVE  /\ Ready # {} => Cardinality(Listed) \in Nat \ {0}
         /\ \A n \in Ready : Index(n) \in 0..(Cardinality(Listed) - 1)
         /\ \A m, n \in Ready : m # n => Index(m) # Index(n)
<1>1. NumNodes \in Nat /\ Listed \in SUBSET (1..NumNodes) /\ Ready \subseteq Listed
  BY SchedulerAssumption DEF Ready, Listed, Nodes, Phases
<1>2. IsFiniteSet(Listed)
  <2>1. IsFiniteSet(1..NumNodes)
    BY <1>1, FS_Interval
  <2> QED
    BY <1>1, <2>1, FS_Subset
<1> DEFINE Before(n) == {m \in Listed : m < n}
<1>3. \A n \in Listed : n \in Int
  BY <1>1
<1>4. ASSUME NEW S \in SUBSET Listed, NEW n \in Listed \ S
      PROVE  Cardinality(S) < Cardinality(Listed) /\ Cardinality(S) \in Nat /\ Cardinality(Listed) \in Nat
  <2>1. IsFiniteSet(S) /\ Cardinality(S) \in Nat /\ Cardinality(Listed) \in Nat
    BY <1>2, FS_Subset, FS_CardinalityType
  <2>2. IsFiniteSet(S \cup {n}) /\ Cardinality(S \cup {n}) = Cardinality(S) + 1
    BY <2>1, FS_AddElement
  <2>3. Cardinality(S \cup {n}) <= Cardinality(Listed)
    BY <1>2, FS_Subset
  <2> QED
    BY <2>1, <2>2, <2>3
<1>5. \A n \in Listed : Index(n) \in Nat /\ Index(n) < Cardinality(Listed) /\ Cardinality(Listed) \in Nat
  BY <1>3, <1>4, \A n \in Listed : Before(n) \in SUBSET Listed /\ n \in Listed \ Before(n) DEF Index
<1>6. ASSUME NEW m \in Listed, NEW n \in Listed, m < n PROVE Index(m) < Index(n)
  <2>1. /\ Before(m) \cup {m} \subseteq Before(n) /\ m \notin Before(m)
        /\ IsFiniteSet(Before(n)) /\ IsFiniteSet(Before(m))
    <3>1. \A o \in Listed : o < m => o < n
      BY <1>3, <1>6
    <3>2. Before(m) \cup {m} \subseteq Before(n) /\ m \notin Before(m)
      BY <1>3, <1>6, <3>1
    <3>3. Before(n) \subseteq Listed /\ Before(m) \subseteq Listed
      OBVIOUS
    <3> QED
      BY <1>2, <3>2, <3>3, FS_Subset
  <2>2. Cardinality(Before(m) \cup {m}) = Cardinality(Before(m)) + 1 /\ Cardinality(Before(m)) \in Nat
    BY <2>1, FS_AddElement, FS_CardinalityType
  <2>3. Cardinality(Before(m) \cup {m}) <= Cardinality(Before(n)) /\ Cardinality(Before(n)) \in Nat
    BY <2>1, FS_Subset, FS_CardinalityType
  <2> QED
    BY <2>2, <2>3 DEF Index
<1>7. \A m, n \in Listed : m # n => Index(m) # Index(n)
  <2> SUFFICES ASSUME NEW m \in Listed, NEW n \in Listed, m # n PROVE Index(m) # Index(n)
    OBVIOUS
  <2>1. m < n \/ n < m
    BY <1>3
  <2> QED
    BY <1>5, <1>6, <2>1
<1>8. \A n \in Listed : Cardinality(Listed) \in Nat \ {0} /\ Index(n) \in 0..(Cardinality(Listed) - 1)
  BY <1>5
<1> QED
  BY <1>1, <1>7, <1>8

(* Without a bind, all Nodes are as good.                                  *)
LEMMA NobodyAhead == binds = NoBinds /\ lost = NoBinds => InTurn
BY DEF InTurn, Even, InOrder, Answered, NoBinds, Ready

(* A step that keeps the list, the position and the answered binds.        *)
LEMMA StepSameTurn ==
  ASSUME InTurn, s'.nodes = s.nodes, s'.nextNode = s.nextNode,
         \A n \in Nodes : Answered(n)' = Answered(n)
  PROVE  InTurn'
<1>1. Ready' = Ready /\ Listed' = Listed /\ Ready \subseteq Nodes
  BY DEF Ready, Listed
<1>2. \A n : Index(n)' = Index(n)
  BY <1>1 DEF Index
<1>3. \A n : Offset(n)' = Offset(n)
  BY <1>1, <1>2 DEF Offset
<1> QED
  BY <1>1, <1>3 DEF InTurn, Even, InOrder

(* The bound Node, which was the first, becomes the last; the others keep  *)
(* their order.                                                            *)
LEMMA StepNextTurn ==
  ASSUME TypeOK, InTurn, NEW n \in Nodes, NextReadyNode(n),
         s'.nodes = s.nodes, s'.nextNode = After(n), binds' = [binds EXCEPT ![n] = @ + 1], lost' = lost
  PROVE  InTurn'
<1>1. Ready' = Ready /\ Listed' = Listed /\ n \in Ready /\ Ready \subseteq Nodes /\ s.nextNode \in Int
  BY SchedulerAssumption DEF Ready, Listed, NextReadyNode, TypeOK, SchedulerState
<1>2. \A m : Index(m)' = Index(m)
  BY <1>1 DEF Index
<1> DEFINE length == Cardinality(Listed)
<1>3. length \in Nat \ {0} /\ \A m \in Ready : Index(m) \in 0..(length - 1)
  BY <1>1, Positions
<1>4. \A m \in Ready : Offset(m)' = (Index(m) - After(n)) % length /\ Offset(m) = (Index(m) - s.nextNode) % length
  BY <1>1, <1>2 DEF Offset
<1>5. \A m \in Ready : Offset(m) \in 0..(length - 1) /\ Offset(m)' \in 0..(length - 1)
  <2>1. After(n) \in Int
    BY <1>1, <1>3, Division DEF After
  <2> QED
    <3>1. \A m \in Ready : Index(m) - After(n) \in Int /\ Index(m) - s.nextNode \in Int
      BY <1>1, <1>3, <2>1
    <3> HIDE DEF length
    <3> QED
      BY <1>3, <1>4, <3>1, Division, Zenon
<1>6. ASSUME NEW m \in Ready \ {n}
      PROVE  Offset(n) < Offset(m) /\ Offset(m)' = Offset(m) - Offset(n) - 1 /\ Offset(n)' = length - 1
  <2> DEFINE i == Index(n)
             j == Index(m)
             start == s.nextNode
  <2>1. i \in 0..(length - 1) /\ j \in 0..(length - 1) /\ i # j /\ start \in Int
    BY <1>1, <1>3, Positions
  <2>2. Offset(n) <= Offset(m)
    BY DEF NextReadyNode
  <2>3. Offset(n) = (i - start) % length /\ Offset(m) = (j - start) % length /\ After(n) = (i + 1) % length
    BY <1>1, <1>4 DEF After
  <2>4. Offset(m)' = (j - ((i + 1) % length)) % length /\ Offset(n)' = (i - ((i + 1) % length)) % length
    BY <1>1, <1>4 DEF After
  <2> HIDE DEF i, j, start, length
  <2>5. length \in Nat \ {0}
    BY <1>3
  <2>6. /\ (i - start) % length # (j - start) % length
        /\ (i - start) % length < (j - start) % length =>
             (j - ((i + 1) % length)) % length = ((j - start) % length) - ((i - start) % length) - 1
        /\ (i - ((i + 1) % length)) % length = length - 1
    BY <2>5, <2>1, Distances, Zenon
  <2>7. Offset(n) < Offset(m)
    BY <1>1, <1>5, <2>2, <2>3, <2>6
  <2> QED
    BY <2>3, <2>4, <2>6, <2>7
<1>7. /\ \A m \in Ready : Answered(m) \in Int
      /\ Answered(n)' = Answered(n) + 1 /\ \A m \in Ready \ {n} : Answered(m)' = Answered(m)
  BY <1>1, SchedulerAssumption DEF TypeOK, Answered
<1>8. \A m \in Ready : Answered(n) <= Answered(m) /\ Answered(m) <= Answered(n) + 1
  BY <1>1, <1>6, <1>7 DEF InTurn, Even, InOrder
<1>9. \A m, o \in Ready : Answered(m) <= Answered(o) + 1
  BY DEF InTurn, Even
<1>10. Even'
  BY <1>1, <1>7, <1>8, <1>9 DEF Even
<1>11. InOrder'
  <2> SUFFICES ASSUME NEW m \in Ready, NEW o \in Ready, Offset(m)' < Offset(o)' PROVE Answered(m)' <= Answered(o)'
    BY <1>1 DEF InOrder
  <2> HIDE DEF length
  <2>1. CASE o = n
    <3>1. m # n
      BY <1>5, <2>1
    <3> QED
      BY <1>7, <1>8, <2>1, <3>1
  <2>2. CASE o # n /\ m = n
    <3>1. Offset(n)' = length - 1 /\ Offset(o)' \in 0..(length - 1)
      BY <1>5, <1>6, <2>2
    <3> QED
      BY <1>3, <2>2, <3>1
  <2>3. CASE o # n /\ m # n
    <3>1. Offset(m)' = Offset(m) - Offset(n) - 1 /\ Offset(o)' = Offset(o) - Offset(n) - 1
      BY <1>6, <2>3
    <3>2. Offset(m) \in Int /\ Offset(n) \in Int /\ Offset(o) \in Int
      BY <1>1, <1>5
    <3>3. Offset(m) < Offset(o)
      BY <3>1, <3>2
    <3> QED
      BY <1>7, <2>3, <3>3 DEF InTurn, InOrder
  <2> QED
    BY <2>1, <2>2, <2>3
<1> QED
  BY <1>10, <1>11 DEF InTurn

LEMMA StepInTurn == IInv /\ InTurn /\ [Next]_vars => InTurn'
<1> SUFFICES ASSUME IInv, InTurn, [Next]_vars PROVE InTurn'
  OBVIOUS
<1>1. s \in SchedulerState /\ TypeOK
  BY DEF IInv, TypeOK
<1> DEFINE Same == s'.nodes = s.nodes /\ s'.nextNode = s.nextNode /\ \A n \in Nodes : Answered(n)' = Answered(n)
<1>2. CASE Wake \/ ListPods
  <2>1. Same
    BY <1>1, <1>2 DEF Wake, ListPods, SchedulerState, Answered
  <2> QED
    BY <2>1, StepSameTurn
<1>3. CASE ListNodes
  <2>1. CASE nodes = s.nodes
    <3>1. Same
      BY <1>1, <1>3, <2>1 DEF ListNodes, SchedulerState, Answered
    <3> QED
      BY <3>1, StepSameTurn
  <2>2. CASE nodes # s.nodes
    <3>1. binds' = NoBinds /\ lost' = NoBinds
      BY <1>3, <2>2 DEF ListNodes
    <3>2. NoBinds' = NoBinds
      BY DEF NoBinds
    <3>3. (binds = NoBinds /\ lost = NoBinds)' => InTurn'
      BY DEF InTurn, Even, InOrder, Answered, NoBinds, Ready
    <3> QED
      BY <3>1, <3>2, <3>3
  <2> QED
    BY <2>1, <2>2
<1>4. CASE Return \/ CallFails \/ \E p \in Pods : BindRefused(p)
  <2>1. Same
    BY <1>1, <1>4 DEF Return, CallFails, BindRefused, Failed, Waiting, Answered
  <2> QED
    BY <2>1, StepSameTurn
<1>5. ASSUME NEW p \in Pods, NEW n \in Nodes, Bind(p, n) PROVE InTurn'
  <2>1. CASE Failed /\ lost' = [lost EXCEPT ![n] = @ + 1]
    <3>1. binds' = [binds EXCEPT ![n] = @ + 1]
      BY <1>5 DEF Bind
    <3>2. \A m \in Nodes : Answered(m)' = Answered(m)
      BY <1>1, <2>1, <3>1, SchedulerAssumption DEF Answered, TypeOK
    <3> QED
      BY <2>1, <3>2, StepSameTurn DEF Failed, Waiting
  <2>2. CASE /\ s' = [s EXCEPT !.pods[p] = n, !.current = @ \ {p}, !.nextNode = After(n), !.woken = TRUE]
             /\ UNCHANGED lost
    <3>1. s'.nodes = s.nodes /\ s'.nextNode = After(n) /\ binds' = [binds EXCEPT ![n] = @ + 1]
      BY <1>1, <1>5, <2>2 DEF Bind, SchedulerState
    <3>2. NextReadyNode(n)
      BY <1>5 DEF Bind
    <3> QED
      BY <1>1, <2>2, <3>1, <3>2, StepNextTurn
  <2> QED
    BY <1>5, <2>1, <2>2 DEF Bind
<1>6. CASE Restart
  <2>1. binds' = NoBinds /\ lost' = NoBinds /\ NoBinds' = NoBinds
    BY <1>6 DEF Restart, NoBinds
  <2>2. (binds = NoBinds /\ lost = NoBinds)' => InTurn'
    BY DEF InTurn, Even, InOrder, Answered, NoBinds, Ready
  <2> QED
    BY <2>1, <2>2
<1>7. CASE \/ \E n \in Nodes, x \in Phases \cup {None} : WriteNode(n, x)
           \/ \E p \in Pods, x \in Nodes \cup {Unbound, None} : WritePod(p, x)
  <2>1. Same
    BY <1>1, <1>7 DEF WriteNode, WritePod, Write, SchedulerState, Answered
  <2> QED
    BY <2>1, StepSameTurn
<1>8. CASE UNCHANGED vars
  <2>1. Same
    BY <1>8 DEF vars, Answered
  <2> QED
    BY <2>1, StepSameTurn
<1> QED
  BY <1>2, <1>3, <1>4, <1>5, <1>6, <1>7, <1>8 DEF Next, SchedulerStep

(* nextReadyNode shares the Pods out evenly: over any number of turns and  *)
(* refused calls, as long as the list of Nodes is the same, no Ready Node  *)
(* gets two Pods more than another by answered binds; a bind whose answer  *)
(* was lost puts its Node one Pod ahead, and no other bind does.           *)
THEOREM SharesEvenly == Spec => []Even
<1>1. Init => InTurn
  BY NobodyAhead DEF Init
<1>2. InTurn => Even
  BY DEF InTurn
<1> QED
  BY <1>1, <1>2, Invariance, StepInTurn, PTL DEF Spec

-----------------------------------------------------------------------------
(* A scheduler that rests has left no Pod unbound while a Node is Ready,   *)
(* whatever was written or failed during its turns.                        *)
BoundAtRest ==
  s.pc = "wait" /\ ~s.woken /\ (\E n \in Nodes : nodes[n] = "Ready") =>
    \A p \in Pods : pods[p] # Unbound

(* What a turn leaves. As long as nothing has woken the scheduler, its     *)
(* copies are what is stored.                                              *)
Undisturbed ==
  ~s.woken =>
    /\ s.pc \in {"pods", "items"} => s.nodes = nodes
    /\ s.pc = "items" => s.pods = pods

LEMMA StepUndisturbed ==
  ASSUME IInv, Undisturbed, BoundAtRest, [Next]_vars
  PROVE  Undisturbed' /\ BoundAtRest'
<1>1. s \in SchedulerState
  BY DEF IInv, TypeOK
<1>2. ASSUME s'.woken PROVE Undisturbed' /\ BoundAtRest'
  BY <1>2 DEF Undisturbed, BoundAtRest
<1>3. CASE Failed
  <2>1. s'.woken
    BY <1>3 DEF Failed, Waiting
  <2> QED
    BY <1>2, <2>1
<1>4. CASE Wake
  <2>1. s'.pc = "nodes"
    BY <1>1, <1>4 DEF Wake, SchedulerState
  <2> QED
    BY <2>1 DEF Undisturbed, BoundAtRest
<1>5. CASE ListNodes
  <2>1. s'.pc = "pods" /\ s'.nodes = nodes /\ nodes' = nodes
    BY <1>1, <1>5 DEF ListNodes, SchedulerState
  <2> QED
    BY <2>1 DEF Undisturbed, BoundAtRest
<1>6. CASE ListPods
  <2>1. /\ s.pc = "pods" /\ s'.pc = "items" /\ s'.nodes = s.nodes /\ s'.pods = pods /\ s'.woken = s.woken
        /\ UNCHANGED <<nodes, pods>>
    BY <1>1, <1>6 DEF ListPods, SchedulerState
  <2> QED
    BY <2>1 DEF Undisturbed, BoundAtRest
<1>7. CASE Return
  <2>1. /\ s.pc = "items" /\ s'.pc = "wait" /\ s'.woken = s.woken /\ UNCHANGED <<nodes, pods>>
        /\ Todo = {} \/ Ready = {}
    BY <1>7 DEF Return, Waiting
  <2>2. ASSUME ~s.woken, NEW n \in Nodes, nodes[n] = "Ready", NEW p \in Pods PROVE pods[p] # Unbound
    <3>1. s.nodes = nodes /\ s.pods = pods
      BY <2>1, <2>2 DEF Undisturbed
    <3>2. Todo = {}
      BY <2>1, <2>2, <3>1 DEF Ready
    <3> QED
      BY <3>1, <3>2 DEF Todo
  <2> QED
    BY <2>1, <2>2 DEF Undisturbed, BoundAtRest
<1>8. ASSUME NEW p \in Pods, NEW n \in Nodes, Bind(p, n), ~Failed PROVE s'.woken
  BY <1>1, <1>8 DEF Bind, SchedulerState
<1>9. CASE Restart
  <2>1. s'.woken
    BY <1>9 DEF Restart, Waiting
  <2> QED
    BY <1>2, <2>1
<1>10. CASE \/ \E n \in Nodes, x \in Phases \cup {None} : WriteNode(n, x)
            \/ \E p \in Pods, x \in Nodes \cup {Unbound, None} : WritePod(p, x)
  <2>1. s'.woken
    BY <1>1, <1>10 DEF WriteNode, WritePod, SchedulerState
  <2> QED
    BY <1>2, <2>1
<1>11. CASE UNCHANGED vars
  BY <1>11 DEF vars, Undisturbed, BoundAtRest
<1>12. CASE CallFails \/ \E p \in Pods : BindRefused(p)
  BY <1>3, <1>12 DEF CallFails, BindRefused
<1> QED
  BY <1>2, <1>3, <1>4, <1>5, <1>6, <1>7, <1>8, <1>9, <1>10, <1>11, <1>12 DEF Next, SchedulerStep

(* When the scheduler goes to sleep, or sleeps, it has bound every Pod, if *)
(* there is a Ready Node: a failed, refused or overtaken call leaves it    *)
(* with a wake-up, for any Nodes and Pods. The safety part of AllBound.    *)
THEOREM RestsWhenBound == Spec => []BoundAtRest
<1>1. Init => Undisturbed /\ BoundAtRest
  BY DEF Init, Waiting, Undisturbed, BoundAtRest
<1> QED
  BY <1>1, Invariance, StepUndisturbed, PTL DEF Spec
=============================================================================
