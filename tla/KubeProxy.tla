----------------------------- MODULE KubeProxy -----------------------------
(***************************************************************************)
(* kube-proxy of one node and its nftables table. A Reconcile lists the    *)
(* Services, then the Pods, computes the rules, deletes the table and adds *)
(* it anew: two runs of nft, with a node that forwards nothing in between. *)
(*                                                                         *)
(* A table stands for what it forwards: a destination goes where the first *)
(* rule that matches it says. Services and Pods change all the while; as   *)
(* in WatchLoop, a change since the watches were opened wakes the proxy.   *)
(***************************************************************************)
EXTENDS Integers

CONSTANTS
  Services,    \* metadata.name of Services; app = s is the selector of s
  Pods,
  NumIPs,      \* ClusterIPs are 1, 2, ... in the order rules are sorted in
  NumPodIPs,   \* and so are PodIPs
  Ports,       \* numbers of TCP ports; a NodePort is one of them
  Specs,       \* the specifications Services get
  None,        \* no object, no table, nowhere
  MaxWrites,   \* bound: writes of Services and Pods
  MaxFailures  \* bound: failed calls, failed runs of nft, new nodes

ClusterIPs == 1..NumIPs
PodIPs == 1..NumPodIPs
Invalid == NumIPs + 1      \* a ClusterIP that is not an IPv4 address
InvalidPodIP == NumPodIPs + 1
Elsewhere == 0             \* an address that is no ClusterIP: the node's, say
Unset == 0

(* port = Unset: Port or TargetPort is missing, or ClusterIP is.           *)
ServiceSpec == [ip : ClusterIPs \cup {Invalid}, port : Ports \cup {Unset}, node : Ports \cup {Unset}]

(* ip = Unset: the Pod is not Running, or has no PodIP; whoever writes its *)
(* status can set one that is not an IPv4 address.                         *)
Pod == [app : Services, ip : PodIPs \cup {InvalidPodIP, Unset}]

ServiceList == [Services -> Specs \cup {None}]
PodList == [Pods -> Pod \cup {None}]
Destination == [ip : ClusterIPs \cup {Elsewhere}, port : Ports]
Rule == [ip : ClusterIPs, port : Ports, node : Ports \cup {Unset}, pod : PodIPs]
Table == [Destination -> PodIPs \cup {None}]

ASSUME KubeProxyAssumption ==
  /\ NumIPs \in Nat /\ NumPodIPs \in Nat /\ MaxWrites \in Nat /\ MaxFailures \in Nat
  /\ Ports \subseteq Nat \ {Unset} /\ Specs \subseteq ServiceSpec
  /\ None \notin ServiceSpec /\ None \notin Pod /\ None \notin PodIPs /\ None \notin Table

VARIABLES
  services,  \* ServiceList: the API server's
  pods,      \* PodList: the API server's
  proxy,     \* where Reconcile is, its copies, its wake-up
  table,     \* Table \cup {None}: the table in the kernel
  stale,     \* history: the table was added to one that was there
  writes, failures

vars == <<services, pods, proxy, table, stale, writes, failures>>

NoServices == [s \in Services |-> None]
Proxy == [pc : {"wait", "services", "pods", "replace", "add"}, woken : BOOLEAN, services : ServiceList, rules : SUBSET Rule]
Waiting(woken) == [pc |-> "wait", woken |-> woken, services |-> NoServices, rules |-> {}]

Init ==
  /\ services \in ServiceList /\ pods \in PodList
  /\ \A s, t \in Services :
       s # t /\ services[s] # None /\ services[t] # None /\ services[s].node # Unset => services[s].node # services[t].node
  /\ proxy = Waiting(TRUE)
  /\ table = None /\ stale = FALSE
  /\ writes = 0 /\ failures = 0

-----------------------------------------------------------------------------
(* serviceRules.                                                           *)

Complete(x) == x # None /\ x.port # Unset

(* The PodIPs of the Running Pods the selector selects.                    *)
Endpoints(list, s) == {list[p].ip : p \in {q \in Pods : list[q] # None /\ list[q].app = s}} \ {Unset}

(* One ClusterIP that does not parse is an error for all Services, and so  *)
(* is one PodIP of a Pod that one of them selects.                         *)
Parses(list, podList) ==
  \A s \in Services :
    Complete(list[s]) => list[s].ip # Invalid /\ InvalidPodIP \notin Endpoints(podList, s)

ServiceRules(list, podList) ==
  UNION {{[ip |-> list[s].ip, port |-> list[s].port, node |-> list[s].node, pod |-> a] : a \in Endpoints(podList, s)} :
           s \in {t \in Services : Complete(list[t])}}

(* The order rules are sorted in.                                          *)
Before(q, r) ==
  \/ q.ip < r.ip
  \/ q.ip = r.ip /\ q.port < r.port
  \/ q.ip = r.ip /\ q.port = r.port /\ q.pod <= r.pod

(* The two nft rules of a Rule; the one of the NodePort names no address.  *)
Matches(r, d) == (d.ip = r.ip /\ d.port = r.port) \/ (r.node # Unset /\ d.port = r.node)

Target(rules, d) ==
  LET matching == {r \in rules : Matches(r, d)} IN
    IF matching = {} THEN None ELSE (CHOOSE r \in matching : \A q \in matching : Before(r, q)).pod

Forwarding(rules) == [d \in Destination |-> Target(rules, d)]

-----------------------------------------------------------------------------
(* KubeProxy.Reconcile.                                                    *)

(* api.Run opens the watches; waitForRetry is a wake-up too.               *)
Wake ==
  /\ proxy.pc = "wait" /\ proxy.woken
  /\ proxy' = [proxy EXCEPT !.pc = "services", !.woken = FALSE]
  /\ UNCHANGED <<services, pods, table, stale, writes, failures>>

ListServices ==
  /\ proxy.pc = "services"
  /\ proxy' = [proxy EXCEPT !.pc = "pods", !.services = services]
  /\ UNCHANGED <<services, pods, table, stale, writes, failures>>

(* Fault: nothing is tried again.                                          *)
FailedForGood == Waiting(FALSE)
Failed == Waiting(TRUE)

ListPods ==
  /\ proxy.pc = "pods"
  /\ proxy' = IF Parses(proxy.services, pods)
                THEN [proxy EXCEPT !.pc = "replace", !.rules = ServiceRules(proxy.services, pods)]
                ELSE Failed
  /\ UNCHANGED <<services, pods, table, stale, writes, failures>>

(* Replace: nft list finds the table, and nft delete deletes it.           *)
DeleteTable ==
  /\ proxy.pc = "replace"
  /\ table' = None /\ stale' = FALSE
  /\ proxy' = [proxy EXCEPT !.pc = "add"]
  /\ UNCHANGED <<services, pods, writes, failures>>

(* Whatever makes nft list fail is taken for a table that is not there.    *)
ProbeFails ==
  /\ proxy.pc = "replace" /\ table # None
  /\ failures < MaxFailures /\ failures' = failures + 1
  /\ proxy' = [proxy EXCEPT !.pc = "add"]
  /\ UNCHANGED <<services, pods, table, stale, writes>>

(* nft -f is one transaction; what it adds to a table comes after the      *)
(* rules that are there.                                                   *)
Added ==
  IF table = None THEN Forwarding(proxy.rules)
  ELSE [d \in Destination |-> IF table[d] # None THEN table[d] ELSE Target(proxy.rules, d)]

(* Faults: the wake-up that came during the Reconcile is gone; the copies  *)
(* are kept for the next one.                                              *)
AddTableAndSleep ==
  /\ proxy.pc = "add"
  /\ table' = Added /\ stale' = (table # None)
  /\ proxy' = Waiting(FALSE)
  /\ UNCHANGED <<services, pods, writes, failures>>

AddTableKeepCopies ==
  /\ proxy.pc = "add"
  /\ table' = Added /\ stale' = (table # None)
  /\ proxy' = [proxy EXCEPT !.pc = "wait"]
  /\ UNCHANGED <<services, pods, writes, failures>>

AddTable ==
  /\ proxy.pc = "add"
  /\ table' = Added /\ stale' = (table # None)
  /\ proxy' = Waiting(proxy.woken)
  /\ UNCHANGED <<services, pods, writes, failures>>

(* A list, nft delete or nft -f fails, and Reconcile is tried again.       *)
CallFails ==
  /\ proxy.pc # "wait"
  /\ failures < MaxFailures /\ failures' = failures + 1
  /\ proxy' = Failed
  /\ UNCHANGED <<services, pods, table, stale, writes>>

(* The node goes, with its network namespace, and comes back.              *)
RestartNode ==
  /\ failures < MaxFailures /\ failures' = failures + 1
  /\ proxy' = Waiting(TRUE) /\ table' = None /\ stale' = FALSE
  /\ UNCHANGED <<services, pods, writes>>

-----------------------------------------------------------------------------
(* Everybody else. No two Services have one NodePort: ServiceAllocation.   *)
Write == writes < MaxWrites /\ writes' = writes + 1 /\ proxy' = [proxy EXCEPT !.woken = TRUE]

WriteService(s, x) ==
  /\ Write
  /\ services[s] # x
  /\ x # None /\ x.node # Unset => \A t \in Services \ {s} : services[t] # None => services[t].node # x.node
  /\ services' = [services EXCEPT ![s] = x]
  /\ UNCHANGED <<pods, table, stale, failures>>

WritePod(p, x) ==
  /\ Write
  /\ pods[p] # x
  /\ pods' = [pods EXCEPT ![p] = x]
  /\ UNCHANGED <<services, table, stale, failures>>

-----------------------------------------------------------------------------
ProxyStep == Wake \/ ListServices \/ ListPods \/ DeleteTable \/ AddTable

Next ==
  \/ ProxyStep \/ ProbeFails \/ CallFails \/ RestartNode
  \/ \E s \in Services, x \in Specs \cup {None} : WriteService(s, x)
  \/ \E p \in Pods, x \in Pod \cup {None} : WritePod(p, x)

Spec == Init /\ [][Next]_vars

(* The API server and nft answer, and the retry timer fires.               *)
FairSpec == Spec /\ WF_vars(ProxyStep)

-----------------------------------------------------------------------------
(* Types; a proxy that waits has no copies.                                *)
TypeOK ==
  /\ services \in ServiceList /\ pods \in PodList
  /\ proxy \in Proxy /\ (proxy.pc = "wait" => proxy = Waiting(proxy.woken))
  /\ table \in Table \cup {None} /\ stale \in BOOLEAN
  /\ writes \in 0..MaxWrites /\ failures \in 0..MaxFailures

(* Whose destination d is: a ClusterIP and port, or a NodePort.            *)
Serves(s, d) ==
  /\ Complete(services[s])
  /\ \/ d.ip = services[s].ip /\ d.port = services[s].port
     \/ services[s].node # Unset /\ d.port = services[s].node

(* The table is right: where somebody serves a destination and has an      *)
(* endpoint, it goes to an endpoint, and otherwise nowhere.                *)
Right ==
  /\ table # None
  /\ \A d \in Destination :
       LET ends == UNION {Endpoints(pods, s) : s \in {t \in Services : Serves(t, d)}} IN
         IF ends = {} THEN table[d] = None ELSE table[d] \in ends

(* However changes, lists and failures interleave, a proxy that waits for  *)
(* an event has put right what it replaced: no rule is left of a Pod or    *)
(* Service that is gone. The table may be stale only where nft list failed.*)
RightWhenQuiet == proxy.pc = "wait" /\ ~proxy.woken /\ ~stale => Right

(* When changes and failures stop, the node forwards what it should, unless*)
(* a Service has a ClusterIP, or a Running Pod that one selects a PodIP,   *)
(* that is no IPv4 address: one of them stops the rules of all Services.   *)
Converges == <>[](Parses(services, pods) /\ ~stale => Right)

(* architecture.md, of kube-proxy: TCP to a Service's ClusterIP and port,   *)
(* or to its NodePort on a node, goes to an endpoint of that Service. (Here *)
(* no two Services have one ClusterIP.)                                     *)
ReachesItsOwn ==
  proxy.pc = "wait" /\ ~proxy.woken /\ ~stale =>
    \A s \in Services, d \in Destination :
      /\ Complete(services[s]) /\ Endpoints(pods, s) # {}
      /\ d \in {[ip |-> services[s].ip, port |-> services[s].port], [ip |-> Elsewhere, port |-> services[s].node]}
      /\ \A t \in Services \ {s} : services[t] # None => services[t].ip # services[s].ip
      => table[d] \in Endpoints(pods, s)
=============================================================================
