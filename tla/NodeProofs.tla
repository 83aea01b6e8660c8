----------------------------- MODULE NodeProofs -----------------------------
(***************************************************************************)
(* Proofs about two of the processes of a node: the safety of KubeProxy,   *)
(* for any Services, Pods, ports, writes and failures, and that of the     *)
(* Supervisor that starts and ends it, for any number of units.            *)
(***************************************************************************)
EXTENDS KubeProxy, Supervisor, FiniteSetTheorems, WellFoundedInduction, TLAPS

-----------------------------------------------------------------------------
(* kube-proxy. Its inductive invariant: as long as nothing has woken the   *)
(* proxy, its copies, and then its rules, are of what is stored; so is a   *)
(* table that replaced one.                                                *)
Current == Parses(services, pods) /\ proxy.rules = ServiceRules(services, pods)

Fresh ==
  ~proxy.woken =>
    /\ proxy.pc = "pods" => proxy.services = services
    /\ proxy.pc \in {"replace", "add"} => Current
    /\ proxy.pc = "wait" /\ ~stale => table = Forwarding(ServiceRules(services, pods)) /\ Parses(services, pods)

IInv == TypeOK /\ Fresh

-----------------------------------------------------------------------------
(* serviceRules sorts, and so there is a first rule.                       *)

(* Of some natural numbers one is the least.                               *)
LEMMA Least == ASSUME NEW S \in SUBSET Nat, S # {} PROVE \E x \in S : \A y \in S : x <= y
<1> DEFINE R == OpToRel(<, Nat)
<1>1. IsWellFoundedOn(R, Nat)
  BY NatLessThanWellFounded
<1>2. \A x, y \in Nat : x < y => <<x, y>> \in R
  BY DEF OpToRel
<1> HIDE DEF R
<1>3. PICK x \in S : \A y \in S : ~ (<<y, x>> \in R)
  BY <1>1, WFMin
<1>4. \A y \in S : x \in Nat /\ y \in Nat /\ ~ (y < x)
  BY <1>2, <1>3
<1>5. \A y \in S : x <= y
  BY <1>4
<1> QED
  BY <1>5

(* Least ClusterIP, of those the least port, of those the least PodIP.     *)
LEMMA FirstRule ==
  ASSUME NEW rules \in SUBSET Rule, rules # {}
  PROVE  \E r \in rules : \A q \in rules : Before(r, q)
<1>1. \A r \in rules : r.ip \in Nat /\ r.port \in Nat /\ r.pod \in Nat
  <2> SUFFICES ASSUME NEW r \in rules PROVE r.ip \in Nat /\ r.port \in Nat /\ r.pod \in Nat
    OBVIOUS
  <2>1. r.ip \in 1..NumIPs /\ r.port \in Ports /\ r.pod \in 1..NumPodIPs
    BY DEF Rule, ClusterIPs, PodIPs
  <2>2. NumIPs \in Nat /\ NumPodIPs \in Nat /\ Ports \subseteq Nat
    BY KubeProxyAssumption
  <2>3. (\A n \in 1..NumIPs : n \in Nat) /\ (\A n \in 1..NumPodIPs : n \in Nat)
    BY <2>2
  <2> QED
    BY <2>1, <2>2, <2>3
<1>2. PICK i \in {r.ip : r \in rules} : \A j \in {r.ip : r \in rules} : i <= j
  <2>1. {r.ip : r \in rules} \in SUBSET Nat /\ {r.ip : r \in rules} # {}
    BY <1>1
  <2> QED
    BY <2>1, Least
<1> DEFINE A == {r \in rules : r.ip = i}
<1>3. PICK k \in {r.port : r \in A} : \A j \in {r.port : r \in A} : k <= j
  <2>1. {r.port : r \in A} \in SUBSET Nat /\ {r.port : r \in A} # {}
    BY <1>1, <1>2
  <2> QED
    BY <2>1, Least
<1> DEFINE B == {r \in A : r.port = k}
<1>4. PICK m \in {r.pod : r \in B} : \A j \in {r.pod : r \in B} : m <= j
  <2>1. {r.pod : r \in B} \in SUBSET Nat /\ {r.pod : r \in B} # {}
    BY <1>1, <1>3
  <2> QED
    BY <2>1, Least
<1>5. PICK r \in B : r.pod = m
  BY <1>4
<1>6. ASSUME NEW q \in rules PROVE Before(r, q)
  <2>1. r \in rules /\ r.ip = i /\ r.port = k /\ r.ip <= q.ip /\ r.ip \in Nat /\ q.ip \in Nat
    BY <1>1, <1>2, <1>5
  <2>2. q.ip = i => r.port <= q.port /\ r.port \in Nat /\ q.port \in Nat
    BY <1>1, <1>3, <2>1
  <2>3. q.ip = i /\ q.port = k => r.pod <= q.pod
    BY <1>4, <1>5
  <2> QED
    BY <2>1, <2>2, <2>3 DEF Before
<1> QED
  BY <1>5, <1>6

(* What is forwarded goes to the Pod of a rule that matches.               *)
LEMMA TargetOfRule ==
  ASSUME NEW rules \in SUBSET Rule, NEW d
  PROVE  \/ Target(rules, d) = None /\ \A r \in rules : ~Matches(r, d)
         \/ \E r \in rules : Matches(r, d) /\ Target(rules, d) = r.pod
<1> DEFINE matching == {r \in rules : Matches(r, d)}
<1>1. CASE matching = {}
  BY <1>1 DEF Target
<1>2. CASE matching # {}
  <2> DEFINE first == CHOOSE r \in matching : \A q \in matching : Before(r, q)
  <2>1. matching \in SUBSET Rule
    OBVIOUS
  <2>2. first \in matching
    BY <1>2, <2>1, FirstRule
  <2>3. Target(rules, d) = first.pod
    BY <1>2 DEF Target
  <2> QED
    BY <2>2, <2>3
<1> QED
  BY <1>1, <1>2

LEMMA TargetTyped ==
  ASSUME NEW rules \in SUBSET Rule, NEW d PROVE Target(rules, d) \in PodIPs \cup {None}
BY TargetOfRule DEF Rule

LEMMA RulesTyped ==
  ASSUME NEW list \in ServiceList, NEW podList \in PodList, Parses(list, podList)
  PROVE  ServiceRules(list, podList) \in SUBSET Rule
<1> SUFFICES ASSUME NEW s \in Services, Complete(list[s]), NEW a \in Endpoints(podList, s)
             PROVE  [ip |-> list[s].ip, port |-> list[s].port, node |-> list[s].node, pod |-> a] \in Rule
  BY DEF ServiceRules
<1>1. list[s] \in ServiceSpec /\ list[s].ip # Invalid /\ list[s].port # Unset
  BY KubeProxyAssumption DEF ServiceList, Parses, Complete
<1>2. a \in PodIPs
  <2>1. PICK p \in Pods : podList[p] # None /\ a = podList[p].ip /\ a \notin {Unset, InvalidPodIP}
    BY DEF Endpoints, Parses
  <2>2. podList[p] \in Pod
    BY <2>1 DEF PodList
  <2> QED
    BY <2>1, <2>2 DEF Pod
<1> QED
  BY <1>1, <1>2 DEF ServiceSpec, Rule

(* A table that forwards by the rules of what is stored is right.          *)
LEMMA ForwardingRight ==
  ASSUME TypeOK, Parses(services, pods), table = Forwarding(ServiceRules(services, pods))
  PROVE  Right
<1> DEFINE rules == ServiceRules(services, pods)
           ends(d) == UNION {Endpoints(pods, s) : s \in {t \in Services : Serves(t, d)}}
<1>1. rules \in SUBSET Rule
  BY RulesTyped DEF TypeOK
<1>2. table # None
  <2>1. \A d : Target(rules, d) \in PodIPs \cup {None}
    BY <1>1, TargetTyped
  <2>2. Forwarding(rules) \in Table
    BY <2>1 DEF Forwarding, Table
  <2> QED
    BY <2>2, KubeProxyAssumption
<1>3. ASSUME NEW d \in Destination PROVE IF ends(d) = {} THEN table[d] = None ELSE table[d] \in ends(d)
  <2>1. \A r \in rules : Matches(r, d) => r.pod \in ends(d)
    <3> SUFFICES ASSUME NEW r \in rules, Matches(r, d) PROVE r.pod \in ends(d)
      OBVIOUS
    <3>1. PICK s \in Services : /\ Complete(services[s]) /\ r.pod \in Endpoints(pods, s)
                                /\ r.ip = services[s].ip /\ r.port = services[s].port /\ r.node = services[s].node
      BY DEF ServiceRules
    <3>2. Serves(s, d)
      BY <3>1 DEF Serves, Matches
    <3> QED
      BY <3>1, <3>2
  <2>2. \A a \in ends(d) : \E r \in rules : Matches(r, d)
    <3> SUFFICES ASSUME NEW a \in ends(d) PROVE \E r \in rules : Matches(r, d)
      OBVIOUS
    <3>1. PICK s \in Services : Serves(s, d) /\ a \in Endpoints(pods, s)
      OBVIOUS
    <3> DEFINE r == [ip |-> services[s].ip, port |-> services[s].port, node |-> services[s].node, pod |-> a]
    <3>2. r \in rules
      BY <3>1 DEF ServiceRules, Serves
    <3>3. Matches(r, d)
      BY <3>1 DEF Serves, Matches
    <3> QED
      BY <3>2, <3>3
  <2>3. table[d] = Target(rules, d)
    BY DEF Forwarding
  <2> HIDE DEF rules, ends
  <2>4. CASE \E r \in rules : Matches(r, d) /\ table[d] = r.pod
    BY <2>1, <2>4
  <2>5. CASE table[d] = None /\ \A r \in rules : ~Matches(r, d)
    BY <2>2, <2>5
  <2> QED
    BY <1>1, <2>3, <2>4, <2>5, TargetOfRule
<1> QED
  BY <1>2, <1>3 DEF Right

-----------------------------------------------------------------------------
(* Steps of the invariant.                                                 *)

LEMMA WaitingTyped ==
  ASSUME NEW woken \in BOOLEAN
  PROVE  LET x == Waiting(woken) IN x \in Proxy /\ x.pc = "wait" /\ x.woken = woken
<1>1. NoServices \in ServiceList
  BY DEF NoServices, ServiceList
<1> QED
  BY <1>1 DEF Waiting, Proxy

LEMMA InitIInv == Init => IInv
<1> SUFFICES ASSUME Init PROVE IInv
  OBVIOUS
<1>1. proxy \in Proxy /\ proxy.pc = "wait" /\ proxy.woken = TRUE /\ proxy = Waiting(proxy.woken)
  BY WaitingTyped DEF Init
<1>2. 0 \in 0..MaxWrites /\ 0 \in 0..MaxFailures
  BY KubeProxyAssumption
<1> QED
  BY <1>1, <1>2 DEF Init, IInv, TypeOK, Fresh

(* Reconcile fails, or the node is new: the proxy is to begin again.       *)
LEMMA StepFails ==
  ASSUME IInv, proxy' = Waiting(TRUE), UNCHANGED <<services, pods, writes>>,
         table' \in {table, None}, stale' \in BOOLEAN, failures' \in 0..MaxFailures
  PROVE  IInv'
<1>1. proxy' \in Proxy /\ proxy'.pc = "wait" /\ proxy'.woken = TRUE /\ proxy' = Waiting(proxy'.woken)
  BY WaitingTyped
<1>2. table' \in Table \cup {None}
  BY DEF IInv, TypeOK
<1> QED
  BY <1>1, <1>2 DEF IInv, TypeOK, Fresh

(* Changes wake the proxy, and leave everything else of it.                *)
LEMMA StepWrites ==
  ASSUME IInv, Write, services' \in ServiceList, pods' \in PodList, UNCHANGED <<table, stale, failures>>
  PROVE  IInv'
<1>1. proxy \in Proxy /\ writes' \in 0..MaxWrites
  BY KubeProxyAssumption DEF IInv, TypeOK, Write
<1>2. proxy' \in Proxy /\ proxy'.woken = TRUE /\ proxy'.pc = proxy.pc
  BY <1>1 DEF Write, Proxy
<1>3. ASSUME proxy.pc = "wait" PROVE proxy' = Waiting(TRUE)
  <2>1. proxy = Waiting(proxy.woken)
    BY <1>3 DEF IInv, TypeOK
  <2>2. proxy.pc = "wait" /\ proxy.services = NoServices /\ proxy.rules = {}
    BY <2>1 DEF Waiting
  <2>3. proxy' = [pc |-> proxy.pc, woken |-> TRUE, services |-> proxy.services, rules |-> proxy.rules]
    BY <1>1 DEF Write, Proxy
  <2> QED
    BY <2>2, <2>3 DEF Waiting
<1> QED
  BY <1>1, <1>2, <1>3 DEF IInv, TypeOK, Fresh

LEMMA StepReads == ASSUME IInv, Wake \/ ListServices \/ ListPods PROVE IInv'
<1>1. proxy \in Proxy /\ services \in ServiceList /\ pods \in PodList /\ UNCHANGED <<services, pods, table, stale, writes, failures>>
  BY DEF IInv, TypeOK, Wake, ListServices, ListPods
<1>2. CASE Wake
  <2>1. proxy' \in Proxy /\ proxy'.pc = "services"
    BY <1>1, <1>2 DEF Wake, Proxy
  <2> QED
    BY <1>1, <2>1 DEF IInv, TypeOK, Fresh
<1>3. CASE ListServices
  <2>1. proxy' \in Proxy /\ proxy'.pc = "pods" /\ proxy'.services = services
    BY <1>1, <1>3 DEF ListServices, Proxy
  <2> QED
    BY <1>1, <2>1 DEF IInv, TypeOK, Fresh
<1>4. CASE ListPods
  <2>1. CASE ~Parses(proxy.services, pods)
    BY <1>1, <1>4, <2>1, StepFails DEF ListPods, Failed, IInv, TypeOK
  <2>2. CASE Parses(proxy.services, pods)
    <3>1. proxy.pc = "pods" /\ proxy' = [proxy EXCEPT !.pc = "replace", !.rules = ServiceRules(proxy.services, pods)]
      BY <1>4, <2>2 DEF ListPods
    <3>2. ServiceRules(proxy.services, pods) \in SUBSET Rule
      BY <1>1, <2>2, RulesTyped DEF Proxy
    <3>3. proxy' \in Proxy /\ proxy'.pc = "replace" /\ proxy'.woken = proxy.woken
          /\ proxy'.rules = ServiceRules(proxy.services, pods)
      BY <1>1, <3>1, <3>2 DEF Proxy
    <3>4. ~proxy'.woken => Current'
      <4> SUFFICES ASSUME ~proxy'.woken PROVE Current'
        OBVIOUS
      <4>1. proxy.services = services
        BY <3>1, <3>3 DEF IInv, Fresh
      <4> QED
        BY <1>1, <2>2, <3>3, <4>1 DEF Current, Parses, ServiceRules
    <3> QED
      BY <1>1, <3>3, <3>4 DEF IInv, TypeOK, Fresh
  <2> QED
    BY <2>1, <2>2
<1> QED
  BY <1>2, <1>3, <1>4

(* nft delete, or no nft delete: the rules stay what they are.             *)
LEMMA StepToAdd == ASSUME IInv, DeleteTable \/ ProbeFails PROVE IInv'
<1>1. /\ proxy.pc = "replace" /\ proxy' = [proxy EXCEPT !.pc = "add"] /\ UNCHANGED <<services, pods, writes>>
      /\ table' \in Table \cup {None}
  BY DEF IInv, TypeOK, DeleteTable, ProbeFails
<1>2. stale' \in BOOLEAN
  BY DEF IInv, TypeOK, DeleteTable, ProbeFails
<1>3. failures' \in 0..MaxFailures
  BY KubeProxyAssumption DEF IInv, TypeOK, DeleteTable, ProbeFails
<1>4. proxy' \in Proxy /\ proxy'.pc = "add" /\ proxy'.woken = proxy.woken /\ proxy'.rules = proxy.rules
  BY <1>1 DEF IInv, TypeOK, Proxy
<1>5. ~proxy'.woken => Current'
  BY <1>1, <1>4 DEF IInv, Fresh, Current, Parses, ServiceRules
<1> QED
  BY <1>1, <1>2, <1>3, <1>4, <1>5 DEF IInv, TypeOK, Fresh

LEMMA StepAdds == ASSUME IInv, AddTable PROVE IInv'
<1>1. /\ proxy.pc = "add" /\ proxy \in Proxy /\ proxy' = Waiting(proxy.woken) /\ table' = Added
      /\ UNCHANGED <<services, pods, writes, failures>>
  BY DEF IInv, TypeOK, AddTable
<1>2. proxy.woken \in BOOLEAN /\ proxy.rules \in SUBSET Rule
  BY <1>1 DEF Proxy
<1>3. proxy' \in Proxy /\ proxy'.pc = "wait" /\ proxy'.woken = proxy.woken /\ proxy' = Waiting(proxy'.woken)
  BY <1>1, <1>2, WaitingTyped
<1>4. \A d : Target(proxy.rules, d) \in PodIPs \cup {None}
  BY <1>2, TargetTyped
<1>5. table' \in Table
  <2>1. CASE table = None
    BY <1>1, <1>4, <2>1 DEF Added, Forwarding, Table
  <2>2. CASE table # None
    BY <1>1, <1>4, <2>2 DEF IInv, TypeOK, Added, Table
  <2> QED
    BY <2>1, <2>2
<1>6. stale' = (table # None)
  BY DEF AddTable
<1>7. ASSUME ~proxy'.woken, ~stale'
      PROVE  (table = Forwarding(ServiceRules(services, pods)) /\ Parses(services, pods))'
  <2>1. table = None /\ Current
    BY <1>1, <1>3, <1>6, <1>7 DEF IInv, Fresh
  <2>2. table' = Forwarding(ServiceRules(services, pods))
    BY <1>1, <2>1 DEF Added, Current
  <2> QED
    BY <1>1, <2>1, <2>2 DEF Current, Parses, Forwarding, ServiceRules
<1>8. stale' \in BOOLEAN
  BY <1>6
<1> QED
  BY <1>1, <1>3, <1>5, <1>7, <1>8 DEF IInv, TypeOK, Fresh

LEMMA StepIInv == IInv /\ [Next]_vars => IInv'
<1> SUFFICES ASSUME IInv, [Next]_vars PROVE IInv'
  OBVIOUS
<1>1. CASE Wake \/ ListServices \/ ListPods
  BY <1>1, StepReads
<1>2. CASE DeleteTable \/ ProbeFails
  BY <1>2, StepToAdd
<1>3. CASE AddTable
  BY <1>3, StepAdds
<1>4. CASE CallFails
  <2>1. proxy' = Waiting(TRUE) /\ UNCHANGED <<services, pods, table, stale, writes>> /\ failures' \in 0..MaxFailures
    BY <1>4, KubeProxyAssumption DEF CallFails, Failed, IInv, TypeOK
  <2>2. stale' \in BOOLEAN
    BY <2>1 DEF IInv, TypeOK
  <2> QED
    BY <2>1, <2>2, StepFails
<1>5. CASE RestartNode
  <2>1. proxy' = Waiting(TRUE) /\ UNCHANGED <<services, pods, writes>> /\ table' = None /\ stale' = FALSE
        /\ failures' \in 0..MaxFailures
    BY <1>5, KubeProxyAssumption DEF RestartNode, IInv, TypeOK
  <2> QED
    BY <2>1, StepFails
<1>6. ASSUME NEW s \in Services, NEW x \in Specs \cup {None}, WriteService(s, x) PROVE IInv'
  <2>1. services' \in ServiceList /\ pods' \in PodList /\ Write /\ UNCHANGED <<table, stale, failures>>
    BY <1>6 DEF WriteService, IInv, TypeOK, ServiceList
  <2> QED
    BY <2>1, StepWrites
<1>7. ASSUME NEW p \in Pods, NEW x \in Pod \cup {None}, WritePod(p, x) PROVE IInv'
  <2>1. services' \in ServiceList /\ pods' \in PodList /\ Write /\ UNCHANGED <<table, stale, failures>>
    BY <1>7 DEF WritePod, IInv, TypeOK, PodList
  <2> QED
    BY <2>1, StepWrites
<1>8. CASE UNCHANGED vars
  BY <1>8 DEF vars, IInv, TypeOK, Fresh, Current, Parses, ServiceRules, Forwarding
<1> QED
  BY <1>1, <1>2, <1>3, <1>4, <1>5, <1>6, <1>7, <1>8 DEF Next, ProxyStep

-----------------------------------------------------------------------------
(* The table, the copies and the rules have their types in every state: of *)
(* KubeProxy.Reconcile and Replace.                                        *)
THEOREM TypeCorrect == Spec => []TypeOK
<1>1. IInv => TypeOK
  BY DEF IInv
<1> QED
  BY <1>1, InitIInv, StepIInv, PTL DEF Spec

(* A kube-proxy that waits, and did not misjudge nft list, has a table that*)
(* sends every destination of a Service to one of its endpoints, if it has *)
(* any, and everything else nowhere: of serviceRules, its order, and the   *)
(* replacement of the table while Services and Pods change.                *)
THEOREM TableRight == Spec => []RightWhenQuiet
<1>1. IInv => RightWhenQuiet
  BY ForwardingRight DEF IInv, Fresh, RightWhenQuiet
<1> QED
  BY <1>1, InitIInv, StepIInv, PTL DEF Spec

-----------------------------------------------------------------------------
(* The supervisor. Its inductive invariant counts: every process that was  *)
(* waited for is an end in the channel, or one waitForExit has seen. The   *)
(* units are started in order, and the last one has no ReadyPath, so a Run *)
(* that fails has not started them all.                                    *)
Reaped == {u \in Units : process[u] = "reaped"}

StartedInOrder == \A u, v \in Units : v \in Procs /\ u < v => u \in Procs

NobodyWaitedFor ==
  At("start") \/ At("ready") => Reaped = {} /\ run.done = 0

LastHasPath == At("ready") => \E u \in WithPath : Last(u)

EndsCounted ==
  /\ At("wait") => Procs = Units /\ run.done = Cardinality(Reaped)
  /\ At("exits") =>
       /\ Procs = Units /\ \A u \in Units : signal[u] # "none"
       /\ run.done + NumUnits = run.count + Cardinality(Reaped)

AllTold ==
  At("returned") =>
    /\ \A u \in Procs : signal[u] # "none"
    /\ Procs = Units => Reaped = Units \/ \A u \in Units : signal[u] = "SIGKILL"

SupervisorInv ==
  SupervisorTypeOK /\ StartedInOrder /\ NobodyWaitedFor /\ LastHasPath /\ EndsCounted /\ AllTold

LEMMA UnitsCounted ==
  /\ NumUnits \in Nat \ {0} /\ NumUnits \in Units
  /\ IsFiniteSet(Units) /\ Cardinality(Units) = NumUnits
  /\ IsFiniteSet(Reaped) /\ Cardinality(Reaped) \in 0..NumUnits
  /\ Cardinality(Reaped) = NumUnits => Reaped = Units
<1>1. NumUnits \in Nat \ {0} /\ NumUnits \in Units
  BY SupervisorAssumption DEF Units
<1>2. IsFiniteSet(Units) /\ Cardinality(Units) = NumUnits
  BY <1>1, FS_Interval DEF Units
<1>3. Reaped \in SUBSET Units
  BY DEF Reaped
<1>4. /\ IsFiniteSet(Reaped) /\ Cardinality(Reaped) <= NumUnits
      /\ Cardinality(Reaped) = NumUnits => Reaped = Units
  BY <1>2, <1>3, FS_Subset
<1>5. Cardinality(Reaped) \in Nat
  BY <1>4, FS_CardinalityType
<1> QED
  BY <1>1, <1>2, <1>4, <1>5

LEMMA InitSupervisorInv == SupervisorInit => SupervisorInv
<1> SUFFICES ASSUME SupervisorInit PROVE SupervisorInv
  OBVIOUS
<1>1. 0 \in 0..NumUnits
  BY SupervisorAssumption
<1>2. SupervisorTypeOK
  BY <1>1 DEF SupervisorInit, SupervisorTypeOK, RunState, Process, Signal
<1> QED
  BY <1>2 DEF SupervisorInit, SupervisorInv, StartedInOrder, NobodyWaitedFor, LastHasPath, EndsCounted, AllTold,
              Procs, Reaped, At

(* A step that leaves the processes alone.                                 *)
LEMMA ProcsKept == process' = process => Procs' = Procs /\ Reaped' = Reaped
BY DEF Procs, Reaped

(* While units are being started.                                          *)
LEMMA StepStarts ==
  ASSUME SupervisorInv, PathExists \/ WaitForOne \/ \E u \in Units : StartUnit(u)
  PROVE  SupervisorInv'
<1>1. run \in RunState
  BY DEF SupervisorInv, SupervisorTypeOK
<1>2. CASE PathExists
  <2>1. /\ run' \in RunState
        /\ run.pc = "ready" /\ run'.pc = "start" /\ run'.done = run.done /\ UNCHANGED <<process, signal, paths>>
    BY <1>1, <1>2 DEF RunState, PathExists, At, Goto
  <2>2. Procs' = Procs /\ Reaped' = Reaped
    BY <2>1, ProcsKept
  <2> QED
    BY <2>1, <2>2 DEF SupervisorInv, SupervisorTypeOK, StartedInOrder, NobodyWaitedFor, LastHasPath, EndsCounted,
                      AllTold, At
<1>3. CASE WaitForOne
  <2>1. /\ run' \in RunState
        /\ run.pc = "start" /\ run'.pc = "wait" /\ run'.done = run.done /\ Procs = Units
        /\ UNCHANGED <<process, signal, paths>>
    BY <1>1, <1>3 DEF RunState, WaitForOne, At, Goto
  <2>2. Procs' = Procs /\ Reaped' = Reaped
    BY <2>1, ProcsKept
  <2>3. run.done = Cardinality(Reaped)
    BY <2>1, FS_EmptySet DEF SupervisorInv, NobodyWaitedFor, At
  <2> QED
    BY <2>1, <2>2, <2>3 DEF SupervisorInv, SupervisorTypeOK, StartedInOrder, NobodyWaitedFor, LastHasPath,
                            EndsCounted, AllTold, At
<1>4. ASSUME NEW u \in Units, StartUnit(u) PROVE SupervisorInv'
  <2>1. /\ run' \in RunState
        /\ run.pc = "start" /\ run'.pc = (IF u \in WithPath THEN "ready" ELSE "start") /\ run'.done = run.done
        /\ UNCHANGED <<signal, paths>> /\ u \notin Procs /\ \A v \in Units : v < u => v \in Procs
        /\ process' = [process EXCEPT ![u] = "live"]
    BY <1>1, <1>4 DEF RunState, StartUnit, At, Goto
  <2>2. process' \in [Units -> Process] /\ \A v \in Units : process'[v] = IF v = u THEN "live" ELSE process[v]
    BY <2>1 DEF SupervisorInv, SupervisorTypeOK, Process
  <2>3. Procs' = Procs \cup {u} /\ Reaped' = {}
    BY <2>1, <2>2 DEF SupervisorInv, NobodyWaitedFor, Procs, Reaped, At
  <2>4. \A v \in Units : v \in Int
    BY SupervisorAssumption DEF Units
  <2>5. \A v \in Procs : v < u
    BY <2>1, <2>4 DEF SupervisorInv, StartedInOrder, Procs
  <2>6. StartedInOrder'
    BY <2>1, <2>3, <2>4, <2>5 DEF SupervisorInv, StartedInOrder
  <2>7. Last(u)'
    BY <2>3, <2>4, <2>5 DEF Last, Procs
  <2>8. LastHasPath'
    BY <2>1, <2>7 DEF LastHasPath, At
  <2>9. SupervisorTypeOK'
    BY <2>1, <2>2 DEF SupervisorInv, SupervisorTypeOK
  <2> QED
    BY <2>1, <2>3, <2>6, <2>8, <2>9 DEF SupervisorInv, NobodyWaitedFor, EndsCounted, AllTold, At
<1> QED
  BY <1>2, <1>3, <1>4

(* Who gets a signal has one.                                              *)
LEMMA SendSignals ==
  ASSUME SupervisorInv, NEW x \in {"SIGTERM", "SIGKILL"}, Send(x)
  PROVE  signal' \in [Units -> Signal] /\ \A u \in Procs : signal'[u] = x
BY DEF SupervisorInv, SupervisorTypeOK, Send, Signal, Procs

LEMMA StepStartFails == ASSUME SupervisorInv, StartFails PROVE SupervisorInv'
<1>1. /\ run' \in RunState
      /\ run'.pc = "returned" /\ UNCHANGED <<process, paths>> /\ Send("SIGTERM")
      /\ (At("start") /\ Procs # Units) \/ At("ready")
  BY DEF RunState, SupervisorInv, SupervisorTypeOK, StartFails, Goto, Stop
<1>2. Procs' = Procs /\ Reaped' = Reaped
  BY <1>1, ProcsKept
<1>3. signal' \in [Units -> Signal] /\ \A u \in Procs : signal'[u] = "SIGTERM"
  BY <1>1, SendSignals
<1>4. Procs # Units
  <2>1. CASE At("ready")
    <3>1. PICK u \in WithPath : Last(u)
      BY <2>1 DEF SupervisorInv, LastHasPath
    <3>2. u < NumUnits
      BY <3>1, SupervisorAssumption DEF Units
    <3>3. NumUnits \in Units /\ u \in Int
      BY SupervisorAssumption DEF Units
    <3> QED
      BY <3>1, <3>2, <3>3, SupervisorAssumption DEF Last
  <2> QED
    BY <1>1, <2>1
<1> QED
  BY <1>1, <1>2, <1>3, <1>4 DEF SupervisorInv, SupervisorTypeOK, StartedInOrder, NobodyWaitedFor, LastHasPath,
                                EndsCounted, AllTold, At

(* The goroutine of u puts its end into the channel, which has room.       *)
LEMMA StepReport == ASSUME SupervisorInv, NEW u \in Units, Report(u) PROVE SupervisorInv'
<1>1. /\ run \in RunState
      /\ process \in [Units -> Process]
      /\ run.pc \in {"wait", "exits"} /\ process[u] = "dead" /\ process' = [process EXCEPT ![u] = "reaped"]
      /\ run' = [run EXCEPT !.done = @ + 1] /\ UNCHANGED <<signal, paths>>
  BY DEF SupervisorInv, SupervisorTypeOK, Report, At
<1>2. /\ process' \in [Units -> Process]
      /\ \A v \in Units : process'[v] = IF v = u THEN "reaped" ELSE process[v]
  BY <1>1 DEF Process
<1>3. Procs' = Procs /\ Reaped' = Reaped \cup {u} /\ u \notin Reaped
  BY <1>1, <1>2 DEF Procs, Reaped
<1>4. Cardinality(Reaped') = Cardinality(Reaped) + 1 /\ Cardinality(Reaped) \in 0..NumUnits
  BY <1>3, UnitsCounted, FS_AddElement
<1>5. Cardinality(Reaped') \in 0..NumUnits
  <2>1. Reaped' \in SUBSET Units
    BY DEF Reaped
  <2>2. Cardinality(Reaped') <= NumUnits
    BY <2>1, UnitsCounted, FS_Subset
  <2> QED
    BY <1>4, <2>2, SupervisorAssumption
<1>6. run.done \in 0..NumUnits /\ run.count \in 0..NumUnits /\ NumUnits \in Nat
  BY <1>1, SupervisorAssumption DEF RunState
<1>7. run.done + 1 \in 0..NumUnits
  <2>1. CASE run.pc = "wait"
    BY <1>4, <1>5, <2>1 DEF SupervisorInv, EndsCounted, At
  <2>2. CASE run.pc = "exits"
    <3>1. run.done + NumUnits = run.count + Cardinality(Reaped)
      BY <2>2 DEF SupervisorInv, EndsCounted, At
    <3> QED
      BY <1>4, <1>5, <1>6, <3>1
  <2> QED
    BY <1>1, <2>1, <2>2
<1>8. /\ run' \in RunState
      /\ run'.pc = run.pc /\ run'.done = run.done + 1 /\ run'.count = run.count
  BY <1>1, <1>7 DEF RunState
<1>9. EndsCounted'
  <2>1. CASE run.pc = "wait"
    BY <1>3, <1>4, <1>8, <2>1 DEF SupervisorInv, EndsCounted, At
  <2>2. CASE run.pc = "exits"
    <3>1. /\ Procs = Units /\ \A v \in Units : signal[v] # "none"
          /\ run.done + NumUnits = run.count + Cardinality(Reaped)
      BY <2>2 DEF SupervisorInv, EndsCounted, At
    <3>2. run'.done + NumUnits = run'.count + Cardinality(Reaped')
      BY <1>4, <1>6, <1>8, <3>1
    <3> QED
      BY <1>1, <1>3, <1>8, <2>2, <3>1, <3>2 DEF EndsCounted, At
  <2> QED
    BY <1>1, <2>1, <2>2
<1> QED
  BY <1>1, <1>2, <1>3, <1>8, <1>9 DEF SupervisorInv, SupervisorTypeOK, StartedInOrder, NobodyWaitedFor, LastHasPath,
                                      AllTold, At

(* From the first end, or the SIGTERM, to the last end or the deadline.    *)
LEMMA StepEnds == ASSUME SupervisorInv, OnCancel \/ OnExit \/ OneExits \/ AllExited \/ Deadline PROVE SupervisorInv'
<1>1. /\ run \in RunState
      /\ process \in [Units -> Process] /\ signal \in [Units -> Signal] /\ UNCHANGED <<process, paths>>
      /\ run.pc \in {"wait", "exits"}
  BY DEF SupervisorInv, SupervisorTypeOK, OnCancel, OnExit, OneExits, AllExited, Deadline, At
<1>2. run.done \in 0..NumUnits /\ run.count \in 0..NumUnits /\ NumUnits \in Nat \ {0}
  BY <1>1, SupervisorAssumption DEF RunState
<1>3. Procs' = Procs /\ Reaped' = Reaped /\ Procs = Units
  BY <1>1, ProcsKept DEF SupervisorInv, EndsCounted, At
<1>4. Cardinality(Reaped) \in 0..NumUnits /\ Cardinality(Procs) = NumUnits
  BY <1>3, UnitsCounted
<1>5. ASSUME SupervisorTypeOK', EndsCounted', AllTold', run'.pc \in {"exits", "returned"} PROVE SupervisorInv'
  BY <1>3, <1>5 DEF SupervisorInv, StartedInOrder, NobodyWaitedFor, LastHasPath, At
<1>6. CASE OnCancel \/ OnExit
  <2>1. run.pc = "wait" /\ run.done = Cardinality(Reaped) /\ Send("SIGTERM")
    BY <1>6 DEF SupervisorInv, EndsCounted, OnCancel, OnExit, At, Stop
  <2>2. signal' \in [Units -> Signal] /\ \A u \in Units : signal'[u] # "none"
    BY <1>3, <2>1, SendSignals
  <2>3. \/ run' = [run EXCEPT !.pc = "exits", !.count = NumUnits]
        \/ run.done > 0 /\ run' = [run EXCEPT !.pc = "exits", !.count = NumUnits - 1, !.done = @ - 1]
    BY <1>4, <1>6 DEF OnCancel, OnExit, All
  <2>4. /\ run' \in RunState
        /\ run'.pc = "exits" /\ run'.done + NumUnits = run'.count + run.done
    <3>1. CASE run' = [run EXCEPT !.pc = "exits", !.count = NumUnits]
      <4>1. NumUnits \in 0..NumUnits
        BY <1>2
      <4>2. run' \in RunState /\ run'.pc = "exits" /\ run'.done = run.done /\ run'.count = NumUnits
        BY <1>1, <3>1, <4>1 DEF RunState
      <4> QED
        BY <1>2, <4>2
    <3>2. CASE run.done > 0 /\ run' = [run EXCEPT !.pc = "exits", !.count = NumUnits - 1, !.done = @ - 1]
      <4>1. NumUnits - 1 \in 0..NumUnits /\ run.done - 1 \in 0..NumUnits
        BY <1>2, <3>2
      <4>2. run' \in RunState /\ run'.pc = "exits" /\ run'.done = run.done - 1 /\ run'.count = NumUnits - 1
        BY <1>1, <3>2, <4>1 DEF RunState
      <4> QED
        BY <1>2, <4>2
    <3> QED
      BY <2>3, <3>1, <3>2
  <2>5. EndsCounted' /\ AllTold'
    BY <1>3, <2>1, <2>2, <2>4 DEF EndsCounted, AllTold, At
  <2> QED
    BY <1>1, <1>5, <2>2, <2>4, <2>5 DEF SupervisorInv, SupervisorTypeOK
<1>7. CASE OneExits
  <2>1. /\ run.pc = "exits" /\ run.done + NumUnits = run.count + Cardinality(Reaped)
        /\ \A u \in Units : signal[u] # "none"
        /\ signal' = signal
        /\ run.count > 0 /\ run.done > 0 /\ run' = [run EXCEPT !.count = @ - 1, !.done = @ - 1]
    BY <1>7 DEF SupervisorInv, EndsCounted, OneExits, At
  <2>2. /\ run' \in RunState
        /\ run'.pc = "exits" /\ run'.done = run.done - 1 /\ run'.count = run.count - 1
    <3>1. run.count - 1 \in 0..NumUnits /\ run.done - 1 \in 0..NumUnits
      BY <1>2, <2>1
    <3> QED
      BY <1>1, <2>1, <3>1 DEF RunState
  <2>3. run'.done + NumUnits = run'.count + Cardinality(Reaped)
    BY <1>2, <1>4, <2>1, <2>2
  <2>4. EndsCounted' /\ AllTold'
    BY <1>3, <2>1, <2>2, <2>3 DEF EndsCounted, AllTold, At
  <2> QED
    BY <1>1, <1>5, <2>1, <2>2, <2>4 DEF SupervisorInv, SupervisorTypeOK
<1>8. CASE AllExited
  <2>1. /\ run.pc = "exits" /\ run.done + NumUnits = run.count + Cardinality(Reaped) /\ run.count = 0
        /\ \A u \in Units : signal[u] # "none"
        /\ signal' = signal
        /\ run' = [run EXCEPT !.pc = "returned"]
    BY <1>8 DEF SupervisorInv, EndsCounted, AllExited, Goto, At
  <2>2. Cardinality(Reaped) = NumUnits
    BY <1>2, <1>4, <2>1
  <2>3. Reaped = Units
    BY <2>2, UnitsCounted
  <2>4. /\ run' \in RunState /\ run'.pc = "returned"
    BY <1>1, <2>1 DEF RunState
  <2>5. EndsCounted' /\ AllTold'
    BY <1>3, <2>1, <2>3, <2>4 DEF EndsCounted, AllTold, At
  <2> QED
    BY <1>1, <1>5, <2>1, <2>4, <2>5 DEF SupervisorInv, SupervisorTypeOK
<1>9. CASE Deadline
  <2>1. run' = [run EXCEPT !.pc = "returned"] /\ Send("SIGKILL")
    BY <1>9 DEF Deadline, Goto
  <2>2. signal' \in [Units -> Signal] /\ \A u \in Units : signal'[u] = "SIGKILL"
    BY <1>3, <2>1, SendSignals
  <2>3. /\ run' \in RunState /\ run'.pc = "returned"
    BY <1>1, <2>1 DEF RunState
  <2>4. EndsCounted' /\ AllTold'
    BY <1>3, <2>2, <2>3 DEF EndsCounted, AllTold, At
  <2> QED
    BY <1>1, <1>5, <2>2, <2>3, <2>4 DEF SupervisorInv, SupervisorTypeOK
<1> QED
  BY <1>6, <1>7, <1>8, <1>9

LEMMA StepUnits == ASSUME SupervisorInv, Cancel \/ \E u \in Units : Listen(u) \/ Exit(u) PROVE SupervisorInv'
<1>1. /\ run \in RunState
      /\ process \in [Units -> Process] /\ signal' = signal
  BY DEF SupervisorInv, SupervisorTypeOK, Cancel, Listen, Exit
<1>2. /\ run' \in RunState
      /\ run'.pc = run.pc /\ run'.done = run.done /\ run'.count = run.count
  BY <1>1 DEF RunState, Cancel, Listen, Exit
<1>3. process' \in [Units -> Process] /\ Procs' = Procs /\ Reaped' = Reaped
  <2>1. CASE \E u \in Units : Exit(u)
    <3>1. PICK u \in Units : process[u] = "live" /\ process' = [process EXCEPT ![u] = "dead"]
      BY <2>1 DEF Exit
    <3>2. /\ process' \in [Units -> Process]
          /\ \A v \in Units : process'[v] = IF v = u THEN "dead" ELSE process[v]
      BY <1>1, <3>1 DEF Process
    <3> QED
      BY <3>1, <3>2 DEF Procs, Reaped
  <2>2. CASE Cancel \/ \E u \in Units : Listen(u)
    <3>1. process' = process
      BY <2>2 DEF Cancel, Listen
    <3> QED
      BY <1>1, <3>1, ProcsKept
  <2> QED
    BY <2>1, <2>2
<1>4. paths' \subseteq WithPath
  BY DEF SupervisorInv, SupervisorTypeOK, Cancel, Listen, Exit
<1> QED
  BY <1>1, <1>2, <1>3, <1>4 DEF SupervisorInv, SupervisorTypeOK, StartedInOrder, NobodyWaitedFor, LastHasPath, Last,
                                EndsCounted, AllTold, At

LEMMA StepSupervisorInv == SupervisorInv /\ [SupervisorNext]_supervisorVars => SupervisorInv'
<1> SUFFICES ASSUME SupervisorInv, [SupervisorNext]_supervisorVars PROVE SupervisorInv'
  OBVIOUS
<1>1. CASE UNCHANGED supervisorVars
  BY <1>1 DEF supervisorVars, SupervisorInv, SupervisorTypeOK, StartedInOrder, NobodyWaitedFor, LastHasPath, Last,
              EndsCounted, AllTold, At, Procs, Reaped
<1>2. CASE SupervisorNext
  BY <1>2, StepStarts, StepStartFails, StepReport, StepEnds, StepUnits DEF SupervisorNext, SupervisorStep
<1> QED
  BY <1>1, <1>2

LEMMA SupervisorInvariance == SupervisorSpec => []SupervisorInv
BY InitSupervisorInv, StepSupervisorInv, PTL DEF SupervisorSpec

(* Types, for any number of units: neither the channel nor the count of    *)
(* ends still to be seen runs over, however ends and signals fall together.*)
THEOREM SupervisorTypeCorrect == SupervisorSpec => []SupervisorTypeOK
<1>1. SupervisorInv => SupervisorTypeOK
  BY DEF SupervisorInv
<1> QED
  BY <1>1, SupervisorInvariance, PTL

(* Run returns only after it told every process it started to end, and a   *)
(* Run that had started them all returns only when each has ended or was   *)
(* killed: no unit outlives its node, for any number of them.              *)
THEOREM NobodyIsForgotten == SupervisorSpec => []NobodyForgotten
<1>1. SupervisorInv => NobodyForgotten
  BY DEF SupervisorInv, AllTold, NobodyForgotten, Reaped, Procs, Ended
<1> QED
  BY <1>1, SupervisorInvariance, PTL
=============================================================================
