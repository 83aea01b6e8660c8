------------------------- MODULE ServiceAllocation -------------------------
(***************************************************************************)
(* How a Service gets its ClusterIP and its NodePort: toyctl apply reads   *)
(* the Service, and the API server's prepareService lists all of them,     *)
(* picks what is free and only then writes this one. Nothing holds a pick  *)
(* until it is written; the resource version guards the Service itself,    *)
(* not the list the pick was made from. A ClusterIP that the manifest      *)
(* names is stored as it is.                                               *)
(***************************************************************************)
EXTENDS Integers

CONSTANTS
  ServiceNames, \* metadata.name of Services
  Requests,     \* the applies that may be under way at the same time
  NumHosts,     \* how many addresses of ServiceCIDR can be given out
  Elsewhere,    \* other addresses that a manifest may name
  NumPorts,     \* how many NodePorts there are
  NoService,    \* no Service
  MaxWrites     \* bound: Services written or deleted

ASSUME AllocationAssumption ==
  /\ NumHosts \in Nat /\ NumPorts \in Nat /\ MaxWrites \in Nat
  /\ 0 \notin Elsewhere

Hosts == 1..NumHosts      \* host parts firstServiceHost to lastHost - 1
Addresses == Hosts \cup Elsewhere
Ports == 1..NumPorts      \* firstNodePort to lastNodePort
Unset == 0                \* spec.clusterIP = "", spec.nodePort = 0

Types == {"ClusterIP", "NodePort"}
Service == [type : Types, ip : Addresses, port : Ports \cup {Unset}]

VARIABLES
  services,    \* [ServiceNames -> Service \cup {NoService}]: what is stored
  req,         \* [Requests -> Request]: the applies
  brought,     \* history: the Services whose ClusterIP a manifest named
  raced,       \* history: for each, the others written between its choice and its write
  writes

servicesVars == <<services, req, brought, raced, writes>>

(* put: an update of the copy Get returned, otherwise a create.            *)
(* fresh: nobody wrote the Service since Get. brought: the manifest names  *)
(* the ClusterIP. raced: the Services written since the ClusterIP was      *)
(* chosen.                                                                 *)
Request ==
  [pc : {"idle", "ip", "port", "commit"}, name : ServiceNames \cup {NoService}, type : Types,
   ip : Addresses \cup {Unset}, port : Ports \cup {Unset}, put : BOOLEAN, fresh : BOOLEAN,
   brought : BOOLEAN, raced : SUBSET ServiceNames]

NoApply ==
  [pc |-> "idle", name |-> NoService, type |-> "ClusterIP", ip |-> Unset, port |-> Unset,
   put |-> FALSE, fresh |-> FALSE, brought |-> FALSE, raced |-> {}]

StoredServices == {n \in ServiceNames : services[n] # NoService}

ServicesInit ==
  /\ services = [n \in ServiceNames |-> NoService]
  /\ req = [r \in Requests |-> NoApply]
  /\ brought = {} /\ raced = [n \in ServiceNames |-> {}]
  /\ writes = 0

-----------------------------------------------------------------------------
(* applyResource of toyctl: Get, then Update, where the manifest names no  *)
(* ClusterIP or no NodePort with those of what Get returned. Whatever      *)
(* error Get returns, it goes on with Create.                              *)
Apply(r, n, type, ip, port) ==
  /\ req[r].pc = "idle"
  /\ \E found \in BOOLEAN :
       /\ found => n \in StoredServices
       /\ req' = [req EXCEPT ![r] =
            [pc |-> "ip", name |-> n, type |-> type,
             ip |-> IF found /\ ip = Unset THEN services[n].ip ELSE ip,
             port |-> IF found /\ port = Unset THEN services[n].port ELSE port,
             put |-> found, fresh |-> found, brought |-> ip # Unset, raced |-> {}]]
  /\ UNCHANGED <<services, brought, raced, writes>>

(* The request r is refused, and toyctl gives up.                          *)
Refuse(r) ==
  /\ req' = [req EXCEPT ![r] = NoApply]
  /\ UNCHANGED <<services, brought, raced, writes>>

Lowest(S, x) == x \in S /\ \A y \in S : x <= y

(* allocateServiceIP, when there is no ClusterIP yet.                      *)
(* Fault: only the addresses of ClusterIP Services are taken.              *)
FreeHostsAmongClusterIP ==
  Hosts \ {services[n].ip : n \in {m \in StoredServices : services[m].type = "ClusterIP"}}

FreeHosts == Hosts \ {services[n].ip : n \in StoredServices}

PickIP(r) ==
  /\ req[r].pc = "ip"
  /\ \/ /\ req[r].ip # Unset
        /\ req' = [req EXCEPT ![r].pc = "port"]
     \/ /\ req[r].ip = Unset
        /\ \E h \in FreeHosts : Lowest(FreeHosts, h) /\ req' = [req EXCEPT ![r].pc = "port", ![r].ip = h]
  /\ UNCHANGED <<services, brought, raced, writes>>

NoIP(r) ==
  /\ req[r].pc = "ip" /\ req[r].ip = Unset /\ FreeHosts = {}
  /\ Refuse(r)

(* allocateNodePort, for a NodePort Service; an update does not count the  *)
(* port the Service itself has.                                            *)
Others(r) == IF req[r].put THEN StoredServices \ {req[r].name} ELSE StoredServices
FreePorts(r) == Ports \ {services[n].port : n \in Others(r)}

(* Fault: a ClusterIP Service with a NodePort is not refused.              *)
PickPortOfAnyType(r) ==
  /\ req[r].pc = "port"
  /\ \/ /\ req[r].type = "ClusterIP" \/ req[r].port \in FreePorts(r)
        /\ req' = [req EXCEPT ![r].pc = "commit"]
     \/ /\ req[r].type = "NodePort" /\ req[r].port = Unset
        /\ \E p \in FreePorts(r) : Lowest(FreePorts(r), p) /\ req' = [req EXCEPT ![r].pc = "commit", ![r].port = p]
  /\ UNCHANGED <<services, brought, raced, writes>>

PickPort(r) ==
  /\ req[r].pc = "port"
  /\ \/ /\ req[r].type = "ClusterIP" /\ req[r].port = Unset
        /\ req' = [req EXCEPT ![r].pc = "commit"]
     \/ /\ req[r].type = "NodePort" /\ req[r].port \in FreePorts(r)
        /\ req' = [req EXCEPT ![r].pc = "commit"]
     \/ /\ req[r].type = "NodePort" /\ req[r].port = Unset
        /\ \E p \in FreePorts(r) : Lowest(FreePorts(r), p) /\ req' = [req EXCEPT ![r].pc = "commit", ![r].port = p]
  /\ UNCHANGED <<services, brought, raced, writes>>

NoPort(r) ==
  /\ req[r].pc = "port"
  /\ \/ req[r].type = "ClusterIP" /\ req[r].port # Unset
     \/ req[r].type = "NodePort" /\ req[r].port # Unset /\ req[r].port \notin FreePorts(r)
     \/ req[r].type = "NodePort" /\ req[r].port = Unset /\ FreePorts(r) = {}
  /\ Refuse(r)

(* A write of n overtakes the copies of n, and the choices made from lists *)
(* without it.                                                             *)
Overtaken(n, requests) ==
  [r \in Requests |->
     [requests[r] EXCEPT
        !.fresh = @ /\ requests[r].name # n,
        !.raced = IF requests[r].pc \in {"port", "commit"} THEN @ \cup ({n} \ {requests[r].name}) ELSE @]]

(* EtcdClient.Create or EtcdClient.Update. Fault: the latter compares no   *)
(* version.                                                                *)
AcceptedIfStored(r) == req[r].put = (req[r].name \in StoredServices)
Accepted(r) == IF req[r].put THEN req[r].fresh ELSE req[r].name \notin StoredServices

CommitService(r) ==
  /\ req[r].pc = "commit" /\ Accepted(r)
  /\ writes < MaxWrites /\ writes' = writes + 1
  /\ services' = [services EXCEPT ![req[r].name] =
                    [type |-> req[r].type, ip |-> req[r].ip, port |-> req[r].port]]
  /\ req' = Overtaken(req[r].name, [req EXCEPT ![r] = NoApply])
  /\ brought' = IF req[r].brought THEN brought \cup {req[r].name} ELSE brought
  /\ raced' = [raced EXCEPT ![req[r].name] = @ \cup req[r].raced]

Conflict(r) ==
  /\ req[r].pc = "commit" /\ ~Accepted(r)
  /\ Refuse(r)

(* toyctl delete, by anybody; what is gone races nobody.                   *)
Delete(n) ==
  /\ n \in StoredServices
  /\ writes < MaxWrites /\ writes' = writes + 1
  /\ services' = [services EXCEPT ![n] = NoService]
  /\ req' = [r \in Requests |-> [req[r] EXCEPT !.fresh = @ /\ req[r].name # n, !.raced = @ \ {n}]]
  /\ brought' = brought \ {n}
  /\ raced' = [m \in ServiceNames |-> IF m = n THEN {} ELSE raced[m] \ {n}]

ServicesNext ==
  \/ \E r \in Requests :
       \/ \E n \in ServiceNames, type \in Types, ip \in Addresses \cup {Unset}, port \in Ports \cup {Unset} :
            Apply(r, n, type, ip, port)
       \/ PickIP(r) \/ NoIP(r) \/ PickPort(r) \/ NoPort(r) \/ CommitService(r) \/ Conflict(r)
  \/ \E n \in ServiceNames : Delete(n)

ServicesSpec == ServicesInit /\ [][ServicesNext]_servicesVars

-----------------------------------------------------------------------------
(* Types; a Service that is stored has its ClusterIP, and a NodePort if    *)
(* and only if it is of that type.                                         *)
ServicesTypeOK ==
  /\ services \in [ServiceNames -> Service \cup {NoService}]
  /\ req \in [Requests -> Request]
  /\ brought \in SUBSET ServiceNames
  /\ raced \in [ServiceNames -> SUBSET ServiceNames]
  /\ writes \in 0..MaxWrites
  /\ \A n \in StoredServices : services[n].type = "NodePort" <=> services[n].port # Unset

(* One of the two was written while the other was between the choice of    *)
(* its address and its write.                                              *)
Raced(m, n) == m \in raced[n] \/ n \in raced[m]

(* Two Services share a ClusterIP only if they raced, or the manifest of   *)
(* one named it; and a NodePort, which is compared also when the manifest  *)
(* names it, only if they raced. Applies that overlap without this order   *)
(* of steps, refusals and deletes do no harm.                              *)
DistinctUnlessRaced ==
  \A m, n \in StoredServices :
    m # n /\ ~Raced(m, n) =>
      /\ services[m].ip = services[n].ip => m \in brought \/ n \in brought
      /\ services[m].port = services[n].port => services[n].port = Unset

(* A Service keeps its ClusterIP for as long as it exists, whatever stale  *)
(* apply comes in, also one that read an earlier Service of that name: it  *)
(* changes only to the one that a manifest names, and not by an apply that *)
(* read something else than what is stored.                                *)
StableClusterIP ==
  [][\A n \in ServiceNames :
       services[n] # NoService /\ services'[n] # NoService /\ services'[n].ip # services[n].ip =>
         \E r \in Requests :
           /\ req[r].pc = "commit" /\ req[r].name = n /\ req[r].put /\ req[r].fresh
           /\ req[r].brought /\ req[r].ip = services'[n].ip]_servicesVars
=============================================================================
