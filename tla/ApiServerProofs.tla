--------------------------- MODULE ApiServerProofs ---------------------------
(***************************************************************************)
(* Proofs about the API server. ApiStore, for any number of clients, names *)
(* and writes: its invariants, and that it implements the promise of       *)
(* OptimisticStore. ServiceAllocation, for any Services, addresses and     *)
(* ports: what the resource version protects with any number of applies at *)
(* the same time, and which of them may get the same address or port.      *)
(***************************************************************************)
EXTENDS ApiStore, ServiceAllocation, TLAPS

-----------------------------------------------------------------------------
(* The store.                                                              *)

(* The version comparison is safe because a version is issued only once.   *)
IInv == TypeOK /\ VersionsIssued /\ VersionNamesContent

LEMMA InitIInv == Init => IInv
<1> SUFFICES ASSUME Init PROVE IInv
  OBVIOUS
<1>1. Missing \in Object /\ 0 \in 0..MaxRevision
  BY StoreAssumption DEF Missing, Object
<1>2. TypeOK
  BY <1>1 DEF Init, TypeOK, Stored, Missing
<1> QED
  BY <1>2 DEF Init, IInv, VersionsIssued, VersionNamesContent, Stored, Missing

(* A committed write stores a version nobody has, or nothing.              *)
Fresh(o) ==
  \/ o = Missing
  \/ o.version = revision + 1 /\ o.content \in Contents

LEMMA StepCommit ==
  ASSUME IInv, NEW c \in Clients, NEW n \in Names, NEW o \in [version : Nat, content : Contents \cup {None}],
         Fresh(o), Commit(c, n, o)
  PROVE  IInv'
<1>1. revision \in Nat /\ revision + 1 \in 0..MaxRevision
  BY StoreAssumption DEF IInv, TypeOK, Commit
<1>2. o \in Object /\ (o.version > 0 <=> o.content # None) /\ o.version <= revision + 1
  BY <1>1, StoreAssumption DEF Fresh, Missing, Object
<1>3. \A d \in Clients, m \in Names :
        copy'[d][m] = copy[d][m] \/ (d = c /\ m = n /\ copy'[d][m] = o)
  BY DEF IInv, TypeOK, Commit
<1>4. \A m \in Names : objects'[m] = IF m = n THEN o ELSE objects[m]
  BY DEF IInv, TypeOK, Commit
<1>5. TypeOK'
  <2>1. objects' \in [Names -> Object]
    BY <1>2 DEF IInv, TypeOK, Commit
  <2>2. copy' \in [Clients -> [Names -> Object]]
    BY <1>2 DEF IInv, TypeOK, Commit
  <2>3. \A m \in Names : Stored(m)' <=> objects'[m].content # None
    BY <1>2, <1>4 DEF IInv, TypeOK, Stored
  <2> QED
    BY <1>1, <2>1, <2>2, <2>3 DEF TypeOK, Commit
<1>6. \A d \in Clients, m \in Names : copy[d][m].version \in Nat /\ copy[d][m].version <= revision
  BY DEF IInv, TypeOK, Object, VersionsIssued
<1>7. VersionsIssued'
  <2>1. revision' = revision + 1
    BY DEF Commit
  <2>2. \A m \in Names : objects[m].version \in Nat /\ objects[m].version <= revision
    BY DEF IInv, TypeOK, Object, VersionsIssued
  <2> QED
    BY <1>1, <1>2, <1>3, <1>4, <1>6, <2>1, <2>2 DEF VersionsIssued
<1>8. VersionNamesContent'
  <2> SUFFICES ASSUME NEW d \in Clients, NEW m \in Names,
                      copy'[d][m].version = objects'[m].version, Stored(m)'
               PROVE  copy'[d][m].content = objects'[m].content
    BY DEF VersionNamesContent
  <2>1. CASE m # n
    BY <2>1, <1>3, <1>4 DEF IInv, VersionNamesContent, Stored
  <2>2. CASE m = n
    <3>1. objects'[m] = o /\ o.version = revision + 1
      BY <2>2, <1>4 DEF Fresh, Missing, Stored
    <3>2. copy'[d][m] # copy[d][m]
      BY <3>1, <1>1, <1>6
    <3> QED
      BY <3>1, <3>2, <1>3
  <2> QED
    BY <2>1, <2>2
<1> QED
  BY <1>5, <1>7, <1>8 DEF IInv

LEMMA StepIInv == IInv /\ [Next]_vars => IInv'
<1> SUFFICES ASSUME IInv, [Next]_vars PROVE IInv'
  OBVIOUS
<1>1. revision \in Nat
  BY DEF IInv, TypeOK
<1>2. ASSUME NEW c \in Clients, ListObjects(c) PROVE IInv'
  <2>1. copy' \in [Clients -> [Names -> Object]]
    BY <1>2 DEF IInv, TypeOK, ListObjects
  <2> QED
    BY <1>2, <2>1 DEF IInv, TypeOK, VersionsIssued, VersionNamesContent, Stored, ListObjects
<1>3. ASSUME NEW c \in Clients, NEW n \in Names, GetObject(c, n) PROVE IInv'
  <2>1. copy' \in [Clients -> [Names -> Object]]
    BY <1>3 DEF IInv, TypeOK, GetObject
  <2>2. \A d \in Clients, m \in Names : copy'[d][m] \in {copy[d][m], objects[m]}
    BY <1>3 DEF IInv, TypeOK, GetObject
  <2> QED
    BY <1>3, <2>1, <2>2 DEF IInv, TypeOK, VersionsIssued, VersionNamesContent, Stored, GetObject
<1>4. ASSUME NEW c \in Clients, NEW n \in Names, NEW x \in Contents,
             CreateObject(c, n, x) \/ UpdateObject(c, n, x)
      PROVE  IInv'
  <2>1. NewObject(x) \in [version : Nat, content : Contents \cup {None}] /\ Fresh(NewObject(x))
    BY <1>1 DEF NewObject, Fresh
  <2> QED
    BY <1>4, <2>1, StepCommit DEF CreateObject, UpdateObject
<1>5. ASSUME NEW c \in Clients, NEW n \in Names, DeleteObject(c, n) \/ DeleteUnconditionally(c, n)
      PROVE  IInv'
  <2>1. Missing \in [version : Nat, content : Contents \cup {None}] /\ Fresh(Missing)
    BY DEF Missing, Fresh
  <2> QED
    BY <1>5, <2>1, StepCommit DEF DeleteObject, DeleteUnconditionally
<1>6. CASE UNCHANGED vars
  BY <1>6 DEF IInv, TypeOK, VersionsIssued, VersionNamesContent, Stored, vars
<1> QED
  BY <1>2, <1>3, <1>4, <1>5, <1>6 DEF Next

LEMMA Invariance == Spec => []IInv
BY InitIInv, StepIInv, PTL DEF Spec

(* Stored objects and copies keep their types, and a name has a version    *)
(* exactly when it has an object.                                          *)
THEOREM TypeCorrect == Spec => []TypeOK
BY Invariance, PTL DEF IInv

(* The comparison of ModRevision in etcd.go never mistakes an object for   *)
(* the one a client read: equal versions mean equal contents, whatever was *)
(* written, deleted and created again in between.                          *)
THEOREM VersionsIdentify == Spec => []VersionNamesContent
BY Invariance, PTL DEF IInv

-----------------------------------------------------------------------------
(* Refinement: the steps of ApiStore are steps of OptimisticStore.         *)

ContentBar == [n \in Names |-> objects[n].content]
ViewBar == [c \in Clients |-> [n \in Names |-> copy[c][n].content]]
CurrentBar ==
  [c \in Clients |-> {n \in Names : Stored(n) /\ copy[c][n].version = objects[n].version}]

LEMMA InitPromise == Init => Promise!Init
BY DEF Init, Promise!Init, Missing, Stored

(* A read is an observation of the objects it returns.                     *)
LEMMA ReadObserves ==
  ASSUME IInv, NEW c \in Clients, NEW S \in SUBSET Names, UNCHANGED objects,
         copy' = [copy EXCEPT ![c] = [n \in Names |-> IF n \in S THEN objects[n] ELSE copy[c][n]]]
  PROVE  Promise!Observe(c, S)
<1>1. UNCHANGED ContentBar
  BY DEF ContentBar
<1>2. ViewBar' = [ViewBar EXCEPT ![c] = [n \in Names |-> IF n \in S THEN ContentBar[n] ELSE ViewBar[c][n]]]
  BY DEF ViewBar, ContentBar, IInv, TypeOK
<1>3. CurrentBar' = [CurrentBar EXCEPT ![c] = (CurrentBar[c] \ S) \cup {n \in S : ContentBar[n] # None}]
  <2>1. ASSUME NEW d \in Clients, d # c PROVE CurrentBar'[d] = CurrentBar[d]
    BY <2>1 DEF CurrentBar, Stored, IInv, TypeOK
  <2>2. CurrentBar'[c] = (CurrentBar[c] \ S) \cup {n \in S : ContentBar[n] # None}
    <3>1. ASSUME NEW n \in Names
          PROVE  n \in CurrentBar'[c] <=> n \in (CurrentBar[c] \ S) \cup {m \in S : ContentBar[m] # None}
      BY DEF CurrentBar, ContentBar, Stored, IInv, TypeOK
    <3> QED
      BY <3>1 DEF CurrentBar
  <2> QED
    BY <2>1, <2>2 DEF CurrentBar
<1> QED
  BY <1>1, <1>2, <1>3 DEF Promise!Observe, Promise!Exists, ContentBar, ViewBar, CurrentBar

(* A commit overtakes every copy but the writer's own.                     *)
LEMMA CommitOvertakes ==
  ASSUME IInv, NEW c \in Clients, NEW n \in Names, NEW o \in [version : Nat, content : Contents \cup {None}],
         Fresh(o), Commit(c, n, o)
  PROVE  Promise!Overtake(c, n, o.content)
<1>1. objects' = [objects EXCEPT ![n] = o] /\ objects \in [Names -> Object]
  BY DEF Commit, IInv, TypeOK
<1>2. ContentBar' = [ContentBar EXCEPT ![n] = o.content]
  BY <1>1 DEF ContentBar
<1>3. \A d \in Clients : copy[d][n].version # o.version \/ ~(o.version > 0)
  <2> SUFFICES ASSUME NEW d \in Clients PROVE copy[d][n].version # o.version \/ ~(o.version > 0)
    OBVIOUS
  <2>1. copy[d][n] \in Object /\ revision \in Nat
    BY DEF IInv, TypeOK
  <2>2. copy[d][n].version \in Nat /\ copy[d][n].version <= revision
    BY <2>1 DEF IInv, Object, VersionsIssued
  <2>3. CASE o = Missing
    BY <2>3 DEF Missing
  <2>4. CASE o.version = revision + 1
    BY <2>1, <2>2, <2>4
  <2> QED
    BY <2>3, <2>4 DEF Fresh
<1>4. ASSUME NEW d \in Clients, copy'[d] = copy[d]
      PROVE  CurrentBar'[d] = CurrentBar[d] \ {n}
  BY <1>1, <1>3, <1>4 DEF CurrentBar, Stored
<1>5. CASE UNCHANGED copy
  <2>1. UNCHANGED ViewBar
    BY <1>5 DEF ViewBar
  <2>2. CurrentBar' = [d \in Clients |-> CurrentBar[d] \ {n}]
    BY <1>4, <1>5 DEF CurrentBar
  <2> QED
    BY <1>2, <2>1, <2>2 DEF Promise!Overtake, ContentBar, ViewBar, CurrentBar
<1>6. CASE o.content # None /\ copy' = [copy EXCEPT ![c][n] = o]
  <2>1. ViewBar' = [ViewBar EXCEPT ![c][n] = o.content]
    BY <1>6 DEF ViewBar, IInv, TypeOK
  <2>2. o.version > 0
    BY <1>6 DEF Fresh, Missing, IInv, TypeOK
  <2>3. CurrentBar'[c] = CurrentBar[c] \cup {n}
    <3>1. ASSUME NEW m \in Names PROVE m \in CurrentBar'[c] <=> m \in CurrentBar[c] \cup {n}
      BY <1>1, <1>6, <2>2 DEF CurrentBar, Stored, IInv, TypeOK
    <3> QED
      BY <3>1 DEF CurrentBar
  <2>4. \A d \in Clients : d # c => copy'[d] = copy[d]
    BY <1>6 DEF IInv, TypeOK
  <2>5. CurrentBar' = [d \in Clients |-> IF d = c THEN CurrentBar[d] \cup {n} ELSE CurrentBar[d] \ {n}]
    BY <1>4, <2>3, <2>4 DEF CurrentBar
  <2> QED
    BY <1>2, <1>6, <2>1, <2>5 DEF Promise!Overtake, ContentBar, ViewBar, CurrentBar
<1> QED
  BY <1>5, <1>6 DEF Commit

LEMMA StepPromise == IInv /\ [Next]_vars => [Promise!Next]_(Promise!storeVars)
<1> SUFFICES ASSUME IInv, [Next]_vars PROVE [Promise!Next]_(Promise!storeVars)
  OBVIOUS
<1>1. revision \in Nat
  BY DEF IInv, TypeOK
<1>2. ASSUME NEW c \in Clients, ListObjects(c) PROVE Promise!Next
  <2>1. Promise!Observe(c, Names)
    BY <1>2, ReadObserves DEF ListObjects, IInv, TypeOK
  <2> QED
    BY <2>1 DEF Promise!Next
<1>3. ASSUME NEW c \in Clients, NEW n \in Names, GetObject(c, n) PROVE Promise!Next
  <2>1. copy' = [copy EXCEPT ![c] = [m \in Names |-> IF m \in {n} THEN objects[m] ELSE copy[c][m]]]
    BY <1>3 DEF GetObject, IInv, TypeOK
  <2>2. {n} \in SUBSET Names /\ UNCHANGED objects
    BY <1>3 DEF GetObject
  <2>3. Promise!Observe(c, {n})
    BY <2>1, <2>2, ReadObserves
  <2> QED
    BY <2>2, <2>3 DEF Promise!Next
<1>4. ASSUME NEW c \in Clients, NEW n \in Names, NEW x \in Contents,
             CreateObject(c, n, x) \/ UpdateObject(c, n, x)
      PROVE  Promise!Next
  <2>1. NewObject(x) \in [version : Nat, content : Contents \cup {None}] /\ Fresh(NewObject(x))
    BY <1>1 DEF NewObject, Fresh
  <2>2. Promise!Overtake(c, n, x)
    BY <1>4, <2>1, CommitOvertakes DEF CreateObject, UpdateObject, NewObject
  <2>3. CreateObject(c, n, x) => ContentBar[n] = None
    BY DEF CreateObject, ContentBar, IInv, TypeOK
  <2>4. UpdateObject(c, n, x) => n \in CurrentBar[c]
    BY DEF UpdateObject, CurrentBar, Stored, IInv, TypeOK, Object
  <2> QED
    BY <1>4, <2>2, <2>3, <2>4
    DEF Promise!Next, Promise!Create, Promise!Update, Promise!Exists, ContentBar, CurrentBar
<1>5. ASSUME NEW c \in Clients, NEW n \in Names, DeleteObject(c, n) \/ DeleteUnconditionally(c, n)
      PROVE  Promise!Next
  <2>1. Missing \in [version : Nat, content : Contents \cup {None}] /\ Fresh(Missing)
    BY DEF Missing, Fresh
  <2>2. Promise!Overtake(c, n, None)
    BY <1>5, <2>1, CommitOvertakes DEF DeleteObject, DeleteUnconditionally, Missing
  <2>3. DeleteObject(c, n) => n \in CurrentBar[c]
    BY DEF DeleteObject, CurrentBar, Stored, IInv, TypeOK, Object
  <2>4. DeleteUnconditionally(c, n) => ContentBar[n] # None
    BY DEF DeleteUnconditionally, ContentBar, IInv, TypeOK
  <2> QED
    BY <1>5, <2>2, <2>3, <2>4
    DEF Promise!Next, Promise!Delete, Promise!ForceDelete, Promise!Exists, ContentBar, CurrentBar
<1>6. CASE UNCHANGED vars
  BY <1>6 DEF vars, Promise!storeVars, Stored
<1> QED
  BY <1>2, <1>3, <1>4, <1>5, <1>6 DEF Next

(* The API server keeps the promise of OptimisticStore: whatever the       *)
(* clients do, a conditional write succeeds only on a copy that no write,  *)
(* deletion or recreation has overtaken.                                   *)
THEOREM Implements == Spec => KeepsPromise
<1>1. Spec => Promise!Init /\ [][Promise!Next]_(Promise!storeVars)
  BY InitPromise, StepPromise, Invariance, PTL DEF Spec
<1> QED
  BY <1>1 DEF KeepsPromise, Promise!Spec

-----------------------------------------------------------------------------
(* The allocation of Services.                                             *)

(* An update that may still be accepted carries the ClusterIP it found, or *)
(* the one its manifest names.                                             *)
CarriesIP ==
  \A r \in Requests :
    req[r].put /\ req[r].fresh =>
      /\ services[req[r].name] # NoService
      /\ req[r].brought \/ req[r].ip = services[req[r].name].ip

(* What prepareService has decided by the time of the write.               *)
Prepared(r) ==
  req[r].pc = "commit" => (req[r].type = "NodePort" <=> req[r].port # Unset)

HasIP(r) == req[r].pc \in {"port", "commit"} => req[r].ip # Unset
Named(r) == req[r].pc # "idle" \/ req[r].put => req[r].name \in ServiceNames

ServicesInv ==
  /\ ServicesTypeOK
  /\ CarriesIP
  /\ \A r \in Requests : Prepared(r) /\ HasIP(r) /\ Named(r)

LEMMA NoneIsNoService ==
  ASSUME ServicesInv, NEW n \in ServiceNames, services[n] # NoService
  PROVE  services[n] \in Service
BY DEF ServicesInv, ServicesTypeOK

LEMMA NoApplyType == NoApply \in Request
<1>1. Unset \in Addresses \cup {Unset} /\ Unset \in Ports \cup {Unset} /\ {} \in SUBSET ServiceNames
  OBVIOUS
<1> QED
  BY <1>1 DEF NoApply, Request, Types

LEMMA InitServicesInv == ServicesInit => ServicesInv
<1> SUFFICES ASSUME ServicesInit PROVE ServicesInv
  OBVIOUS
<1>1. req \in [Requests -> Request] /\ \A r \in Requests : req[r].pc = "idle" /\ ~req[r].put
  BY NoApplyType DEF ServicesInit, NoApply
<1>2. brought \in SUBSET ServiceNames /\ raced \in [ServiceNames -> SUBSET ServiceNames]
  BY DEF ServicesInit
<1>3. services \in [ServiceNames -> Service \cup {NoService}] /\ writes \in 0..MaxWrites /\ StoredServices = {}
  BY AllocationAssumption DEF ServicesInit, StoredServices
<1>4. ServicesTypeOK
  BY <1>1, <1>2, <1>3, Zenon DEF ServicesTypeOK
<1> QED
  BY <1>1, <1>4 DEF ServicesInv, CarriesIP, Prepared, HasIP, Named

(* A step of r that writes no Service.                                     *)
LEMMA StepRequest ==
  ASSUME ServicesInv, NEW r \in Requests, NEW q \in Request,
         req' = [req EXCEPT ![r] = q], UNCHANGED <<services, brought, raced, writes>>,
         q.put /\ q.fresh => services[q.name] # NoService /\ (q.brought \/ q.ip = services[q.name].ip),
         q.pc = "commit" => (q.type = "NodePort" <=> q.port # Unset),
         q.pc \in {"port", "commit"} => q.ip # Unset,
         q.pc # "idle" \/ q.put => q.name \in ServiceNames
  PROVE  ServicesInv'
<1>1. \A s \in Requests : req'[s] = IF s = r THEN q ELSE req[s]
  BY DEF ServicesInv, ServicesTypeOK
<1>2. ServicesTypeOK'
  BY DEF ServicesInv, ServicesTypeOK, StoredServices
<1>3. CarriesIP'
  BY <1>1 DEF ServicesInv, CarriesIP
<1> QED
  BY <1>1, <1>2, <1>3 DEF ServicesInv, Prepared, HasIP, Named

LEMMA StepPickIP == ASSUME ServicesInv, NEW r \in Requests, PickIP(r) PROVE ServicesInv'
<1>1. req[r] \in Request /\ req[r].name \in ServiceNames
  BY DEF ServicesInv, ServicesTypeOK, Named, PickIP
<1>2. CASE req[r].ip # Unset /\ req' = [req EXCEPT ![r].pc = "port"]
  <2> DEFINE q == [req[r] EXCEPT !.pc = "port"]
  <2>1. q \in Request /\ req' = [req EXCEPT ![r] = q]
    BY <1>1, <1>2 DEF Request, ServicesInv, ServicesTypeOK
  <2> QED
    BY <1>1, <1>2, <2>1, StepRequest DEF PickIP, Request, ServicesInv, CarriesIP
<1>3. CASE req[r].ip = Unset /\ \E h \in FreeHosts : req' = [req EXCEPT ![r].pc = "port", ![r].ip = h]
  <2>1. PICK h \in FreeHosts : req' = [req EXCEPT ![r].pc = "port", ![r].ip = h]
    BY <1>3
  <2> DEFINE q == [req[r] EXCEPT !.pc = "port", !.ip = h]
  <2>2. h \in Addresses /\ h # Unset
    BY DEF FreeHosts, Hosts, Addresses, Unset
  <2>3. q \in Request /\ req' = [req EXCEPT ![r] = q]
    BY <1>1, <2>1, <2>2 DEF Request, ServicesInv, ServicesTypeOK
  <2>4. req[r].put /\ req[r].fresh => services[req[r].name] # NoService /\ req[r].brought
    <3>1. Unset \notin Addresses
      BY AllocationAssumption DEF Addresses, Hosts, Unset
    <3> QED
      BY <1>1, <1>3, <3>1, NoneIsNoService DEF ServicesInv, CarriesIP, Service
  <2> QED
    BY <1>1, <2>2, <2>3, <2>4, StepRequest DEF PickIP, Request
<1> QED
  BY <1>2, <1>3 DEF PickIP

LEMMA StepPickPort == ASSUME ServicesInv, NEW r \in Requests, PickPort(r) PROVE ServicesInv'
<1>1. req[r] \in Request /\ req[r].ip # Unset /\ req[r].name \in ServiceNames
  BY DEF ServicesInv, ServicesTypeOK, HasIP, Named, PickPort
<1>2. CASE \/ req[r].type = "ClusterIP" /\ req[r].port = Unset
           \/ req[r].type = "NodePort" /\ req[r].port \in FreePorts(r)
      /\ req' = [req EXCEPT ![r].pc = "commit"]
  <2> DEFINE q == [req[r] EXCEPT !.pc = "commit"]
  <2>1. q \in Request /\ req' = [req EXCEPT ![r] = q]
    BY <1>1, <1>2 DEF Request, ServicesInv, ServicesTypeOK
  <2>2. req[r].type = "NodePort" <=> req[r].port # Unset
    BY <1>2 DEF FreePorts, Ports, Unset
  <2> QED
    BY <1>1, <2>1, <2>2, StepRequest DEF PickPort, Request, ServicesInv, CarriesIP
<1>3. CASE /\ req[r].type = "NodePort" /\ req[r].port = Unset
           /\ \E p \in FreePorts(r) : req' = [req EXCEPT ![r].pc = "commit", ![r].port = p]
  <2>1. PICK p \in FreePorts(r) : req' = [req EXCEPT ![r].pc = "commit", ![r].port = p]
    BY <1>3
  <2> DEFINE q == [req[r] EXCEPT !.pc = "commit", !.port = p]
  <2>2. p \in Ports /\ p # Unset
    BY DEF FreePorts, Ports, Unset
  <2>3. q \in Request /\ req' = [req EXCEPT ![r] = q]
    BY <1>1, <2>1, <2>2 DEF Request, ServicesInv, ServicesTypeOK
  <2> QED
    BY <1>1, <1>3, <2>2, <2>3, StepRequest DEF PickPort, Request, ServicesInv, CarriesIP
<1>4. \/ /\ req[r].type = "ClusterIP" /\ req[r].port = Unset
         /\ req' = [req EXCEPT ![r].pc = "commit"]
      \/ /\ req[r].type = "NodePort" /\ req[r].port \in FreePorts(r)
         /\ req' = [req EXCEPT ![r].pc = "commit"]
      \/ /\ req[r].type = "NodePort" /\ req[r].port = Unset
         /\ \E p \in FreePorts(r) : req' = [req EXCEPT ![r].pc = "commit", ![r].port = p]
  BY DEF PickPort
<1> QED
  BY <1>2, <1>3, <1>4

LEMMA StepApply ==
  ASSUME ServicesInv, NEW r \in Requests, NEW n \in ServiceNames, NEW type \in Types,
         NEW ip \in Addresses \cup {Unset}, NEW port \in Ports \cup {Unset},
         Apply(r, n, type, ip, port)
  PROVE  ServicesInv'
<1>1. PICK found \in BOOLEAN :
        /\ found => n \in StoredServices
        /\ req' = [req EXCEPT ![r] =
             [pc |-> "ip", name |-> n, type |-> type,
              ip |-> IF found /\ ip = Unset THEN services[n].ip ELSE ip,
              port |-> IF found /\ port = Unset THEN services[n].port ELSE port,
              put |-> found, fresh |-> found, brought |-> ip # Unset, raced |-> {}]]
  BY DEF Apply
<1> DEFINE q == [pc |-> "ip", name |-> n, type |-> type,
                 ip |-> IF found /\ ip = Unset THEN services[n].ip ELSE ip,
                 port |-> IF found /\ port = Unset THEN services[n].port ELSE port,
                 put |-> found, fresh |-> found, brought |-> ip # Unset, raced |-> {}]
<1>2. found => services[n] # NoService /\ services[n] \in Service
  BY <1>1, NoneIsNoService DEF StoredServices
<1>3. /\ q.ip \in Addresses \cup {Unset} /\ q.port \in Ports \cup {Unset}
      /\ (ip # Unset) \in BOOLEAN /\ {} \in SUBSET ServiceNames
  BY <1>2 DEF Service
<1>4. q \in Request
  BY <1>3 DEF Request
<1> QED
  BY <1>1, <1>2, <1>4, StepRequest DEF Apply

LEMMA StepRefuse == ASSUME ServicesInv, NEW r \in Requests, Refuse(r) PROVE ServicesInv'
<1>1. NoApply.pc = "idle" /\ ~NoApply.put
  BY DEF NoApply
<1> QED
  BY <1>1, NoApplyType, StepRequest DEF Refuse

(* A write of n leaves r what it was, but for what the histories note, or  *)
(* ends it.                                                                *)
Left(r, n) ==
  \/ req'[r] = NoApply
  \/ /\ req'[r].pc = req[r].pc /\ req'[r].name = req[r].name /\ req'[r].type = req[r].type
     /\ req'[r].ip = req[r].ip /\ req'[r].port = req[r].port /\ req'[r].put = req[r].put
     /\ req'[r].brought = req[r].brought
     /\ req'[r].fresh => req[r].fresh /\ req[r].name # n

(* Service n is written, x in place of what it was.                        *)
LEMMA StepWrite ==
  ASSUME ServicesInv, NEW n \in ServiceNames, NEW x \in Service \cup {NoService},
         services' = [services EXCEPT ![n] = x],
         req' \in [Requests -> Request], \A r \in Requests : Left(r, n),
         x # NoService => (x.type = "NodePort" <=> x.port # Unset),
         brought' \in SUBSET ServiceNames, raced' \in [ServiceNames -> SUBSET ServiceNames],
         writes' \in 0..MaxWrites
  PROVE  ServicesInv'
<1>1. services' \in [ServiceNames -> Service \cup {NoService}] /\ services'[n] = x
  BY DEF ServicesInv, ServicesTypeOK
<1>2. \A m \in ServiceNames : m # n => services'[m] = services[m]
  BY DEF ServicesInv, ServicesTypeOK
<1>3. \A m \in StoredServices' : services'[m].type = "NodePort" <=> services'[m].port # Unset
  BY <1>1, <1>2 DEF ServicesInv, ServicesTypeOK, StoredServices
<1>4. NoApply.pc = "idle" /\ ~NoApply.put
  BY DEF NoApply
<1>5. CarriesIP'
  BY <1>2, <1>4 DEF ServicesInv, CarriesIP, Left, Named
<1>6. \A r \in Requests : Prepared(r)' /\ HasIP(r)' /\ Named(r)'
  BY <1>4 DEF ServicesInv, Prepared, HasIP, Named, Left
<1> QED
  BY <1>1, <1>3, <1>5, <1>6 DEF ServicesInv, ServicesTypeOK

(* What a commit stores is a Service.                                      *)
LEMMA CommitStores ==
  ASSUME ServicesInv, NEW r \in Requests, CommitService(r)
  PROVE  /\ req[r].name \in ServiceNames
         /\ [type |-> req[r].type, ip |-> req[r].ip, port |-> req[r].port] \in Service
         /\ req[r].type = "NodePort" <=> req[r].port # Unset
<1>1. req[r] \in Request /\ req[r].ip # Unset /\ req[r].name \in ServiceNames
  BY DEF ServicesInv, ServicesTypeOK, HasIP, Named, CommitService
<1> QED
  BY <1>1 DEF Request, Service, ServicesInv, Prepared, CommitService

(* What a commit and a delete make of the other applies.                   *)
LEMMA CommitLeaves ==
  ASSUME ServicesInv, NEW r \in Requests, CommitService(r)
  PROVE  /\ req' \in [Requests -> Request] /\ req'[r] = NoApply
         /\ \A s \in Requests \ {r} :
              /\ Left(s, req[r].name) /\ req'[s].pc = req[s].pc
              /\ req'[s].raced = IF req[s].pc \in {"port", "commit"}
                                 THEN req[s].raced \cup ({req[r].name} \ {req[s].name}) ELSE req[s].raced
<1> DEFINE n == req[r].name
           requests == [req EXCEPT ![r] = NoApply]
           written(q) == [q EXCEPT !.fresh = (q.fresh /\ q.name # n),
                                   !.raced = IF q.pc \in {"port", "commit"}
                                             THEN q.raced \cup ({n} \ {q.name}) ELSE q.raced]
<1>1. n \in ServiceNames
  BY CommitStores
<1>2. \A s \in Requests : requests[s] = IF s = r THEN NoApply ELSE req[s]
  BY DEF ServicesInv, ServicesTypeOK
<1>3. req' = [s \in Requests |-> written(requests[s])]
  BY DEF CommitService, Overtaken
<1>4. written(NoApply) = NoApply
  <2> DEFINE fresh == NoApply.fresh /\ NoApply.name # n
             noted == IF NoApply.pc \in {"port", "commit"} THEN NoApply.raced \cup ({n} \ {NoApply.name}) ELSE NoApply.raced
  <2>1. fresh = FALSE /\ noted = {}
    BY DEF NoApply
  <2>2. written(NoApply) = [NoApply EXCEPT !.fresh = fresh, !.raced = noted]
    OBVIOUS
  <2> HIDE DEF fresh, noted, written
  <2> QED
    BY <2>1, <2>2 DEF NoApply
<1> HIDE DEF requests, n
<1>5. ASSUME NEW q \in Request
      PROVE  /\ written(q) \in Request /\ written(q).pc = q.pc /\ written(q).name = q.name
             /\ written(q).type = q.type /\ written(q).ip = q.ip /\ written(q).port = q.port
             /\ written(q).put = q.put /\ written(q).brought = q.brought
             /\ written(q).fresh => q.fresh /\ q.name # n
             /\ written(q).raced = IF q.pc \in {"port", "commit"} THEN q.raced \cup ({n} \ {q.name}) ELSE q.raced
  <2>1. /\ (q.fresh /\ q.name # n) \in BOOLEAN
        /\ (IF q.pc \in {"port", "commit"} THEN q.raced \cup ({n} \ {q.name}) ELSE q.raced) \in SUBSET ServiceNames
    BY <1>1 DEF Request
  <2> QED
    BY <2>1 DEF Request
<1>6. \A s \in Requests : req'[s] = written(requests[s])
  BY <1>3
<1>7. \A s \in Requests : req[s] \in Request
  BY DEF ServicesInv, ServicesTypeOK
<1> HIDE DEF written
<1>8. req' \in [Requests -> Request]
  BY <1>2, <1>3, <1>5, <1>7, NoApplyType
<1>9. req'[r] = NoApply
  BY <1>2, <1>4, <1>6
<1>10. \A s \in Requests \ {r} : req'[s] = written(req[s])
  BY <1>2, <1>6
<1>11. \A s \in Requests \ {r} :
         /\ Left(s, n) /\ req'[s].pc = req[s].pc
         /\ req'[s].raced = IF req[s].pc \in {"port", "commit"}
                            THEN req[s].raced \cup ({n} \ {req[s].name}) ELSE req[s].raced
  BY <1>5, <1>7, <1>10 DEF Left
<1> QED
  BY <1>8, <1>9, <1>11 DEF n

LEMMA DeleteLeaves ==
  ASSUME ServicesInv, NEW n \in ServiceNames, Delete(n)
  PROVE  /\ req' \in [Requests -> Request]
         /\ \A s \in Requests : Left(s, n) /\ req'[s].pc = req[s].pc /\ req'[s].raced = req[s].raced \ {n}
<1> DEFINE written(q) == [q EXCEPT !.fresh = (q.fresh /\ q.name # n), !.raced = q.raced \ {n}]
<1>1. req' = [s \in Requests |-> written(req[s])]
  BY DEF Delete
<1>2. ASSUME NEW q \in Request
      PROVE  /\ written(q) \in Request /\ written(q).pc = q.pc /\ written(q).name = q.name
             /\ written(q).type = q.type /\ written(q).ip = q.ip /\ written(q).port = q.port
             /\ written(q).put = q.put /\ written(q).brought = q.brought
             /\ written(q).fresh => q.fresh /\ q.name # n
             /\ written(q).raced = q.raced \ {n}
  <2>1. (q.fresh /\ q.name # n) \in BOOLEAN /\ q.raced \ {n} \in SUBSET ServiceNames
    BY DEF Request
  <2> QED
    BY <2>1 DEF Request
<1>3. \A s \in Requests : req[s] \in Request /\ req'[s] = written(req[s])
  BY <1>1 DEF ServicesInv, ServicesTypeOK
<1> HIDE DEF written
<1>4. req' \in [Requests -> Request]
  BY <1>1, <1>2, <1>3
<1> QED
  BY <1>2, <1>3, <1>4 DEF Left

LEMMA StepCommitService == ASSUME ServicesInv, NEW r \in Requests, CommitService(r) PROVE ServicesInv'
<1> DEFINE x == [type |-> req[r].type, ip |-> req[r].ip, port |-> req[r].port]
<1>1. /\ x \in Service \cup {NoService} /\ req[r].name \in ServiceNames
      /\ x # NoService => (x.type = "NodePort" <=> x.port # Unset)
  BY CommitStores
<1>2. writes' \in 0..MaxWrites
  BY AllocationAssumption DEF ServicesInv, ServicesTypeOK, CommitService
<1>3. services' = [services EXCEPT ![req[r].name] = x]
  BY DEF CommitService
<1>4. req' \in [Requests -> Request] /\ \A s \in Requests : Left(s, req[r].name)
  BY CommitLeaves DEF Left
<1>5. req[r].raced \in SUBSET ServiceNames
  BY DEF ServicesInv, ServicesTypeOK, Request
<1>6. brought' \in SUBSET ServiceNames /\ raced' \in [ServiceNames -> SUBSET ServiceNames]
  BY <1>1, <1>5 DEF CommitService, ServicesInv, ServicesTypeOK
<1> HIDE DEF x
<1> QED
  BY <1>1, <1>2, <1>3, <1>4, <1>6, StepWrite

LEMMA StepDelete == ASSUME ServicesInv, NEW n \in ServiceNames, Delete(n) PROVE ServicesInv'
<1>0. writes < MaxWrites /\ writes' = writes + 1
  BY Zenon DEF Delete
<1>1. writes' \in 0..MaxWrites
  BY <1>0, AllocationAssumption DEF ServicesInv, ServicesTypeOK
<1>2. services' = [services EXCEPT ![n] = NoService]
  BY DEF Delete
<1>3. brought' \in SUBSET ServiceNames /\ raced' \in [ServiceNames -> SUBSET ServiceNames]
  BY DEF Delete, ServicesInv, ServicesTypeOK
<1> QED
  BY <1>1, <1>2, <1>3, DeleteLeaves, StepWrite

LEMMA StepServicesInv == ServicesInv /\ [ServicesNext]_servicesVars => ServicesInv'
<1> SUFFICES ASSUME ServicesInv, [ServicesNext]_servicesVars PROVE ServicesInv'
  OBVIOUS
<1>1. ASSUME NEW r \in Requests, NoIP(r) \/ NoPort(r) \/ Conflict(r) PROVE ServicesInv'
  BY <1>1, StepRefuse DEF NoIP, NoPort, Conflict
<1>2. CASE UNCHANGED servicesVars
  BY <1>2 DEF ServicesInv, ServicesTypeOK, CarriesIP, Prepared, HasIP, Named, StoredServices, servicesVars
<1> QED
  BY <1>1, <1>2, StepApply, StepPickIP, StepPickPort, StepCommitService, StepDelete DEF ServicesNext

LEMMA ServicesInvariance == ServicesSpec => []ServicesInv
BY InitServicesInv, StepServicesInv, PTL DEF ServicesSpec

(* Services and applies keep their types: what prepareService lets through *)
(* has a ClusterIP, and a NodePort exactly for a NodePort Service.         *)
THEOREM ServicesTypeCorrect == ServicesSpec => []ServicesTypeOK
BY ServicesInvariance, PTL DEF ServicesInv

(* However many applies run at the same time, the resource version keeps   *)
(* the ClusterIP of a Service from being replaced by one that belonged to  *)
(* an earlier state of it: only the one that a manifest names replaces it, *)
(* by an update of what is stored.                                         *)
THEOREM ClusterIPStable == ServicesSpec => StableClusterIP
<1> DEFINE Replaced(n) == \E r \in Requests :
             /\ req[r].pc = "commit" /\ req[r].name = n /\ req[r].put /\ req[r].fresh
             /\ req[r].brought /\ req[r].ip = services'[n].ip
           Kept == \A n \in ServiceNames :
             services[n] # NoService /\ services'[n] # NoService /\ services'[n].ip # services[n].ip => Replaced(n)
<1>1. ServicesInv /\ [ServicesNext]_servicesVars => [Kept]_servicesVars
  <2> SUFFICES ASSUME ServicesInv, ServicesNext PROVE Kept
    OBVIOUS
  <2>1. ASSUME NEW r \in Requests, CommitService(r) PROVE Kept
    <3> DEFINE x == [type |-> req[r].type, ip |-> req[r].ip, port |-> req[r].port]
    <3>1. req[r].name \in ServiceNames /\ req[r].pc = "commit"
      BY <2>1, CommitStores DEF CommitService
    <3>2. services[req[r].name] # NoService => req[r].put /\ req[r].fresh
      BY <2>1, <3>1 DEF CommitService, Accepted, StoredServices
    <3>3. services[req[r].name] # NoService => req[r].brought \/ req[r].ip = services[req[r].name].ip
      BY <3>2 DEF ServicesInv, CarriesIP
    <3>4. \A n \in ServiceNames : services'[n] = IF n = req[r].name THEN x ELSE services[n]
      BY <2>1 DEF CommitService, ServicesInv, ServicesTypeOK
    <3>5. services'[req[r].name].ip = req[r].ip
      BY <3>1, <3>4
    <3>6. services[req[r].name] # NoService /\ services'[req[r].name].ip # services[req[r].name].ip
            => Replaced(req[r].name)
      BY <3>1, <3>2, <3>3, <3>5
    <3> QED
      BY <3>4, <3>6
  <2>2. ASSUME NEW n \in ServiceNames, Delete(n) PROVE Kept
    BY <2>2 DEF Delete, ServicesInv, ServicesTypeOK
  <2>3. ASSUME UNCHANGED services PROVE Kept
    BY <2>3
  <2> QED
    BY <2>1, <2>2, <2>3
    DEF ServicesNext, Apply, PickIP, NoIP, PickPort, NoPort, Conflict, Refuse
<1> QED
  BY <1>1, ServicesInvariance, PTL DEF ServicesSpec, StableClusterIP

-----------------------------------------------------------------------------
(* Who has what an apply has chosen was written after the choice.          *)

Unpicked(r) == req[r].pc = "ip" /\ ~req[r].put /\ ~req[r].brought => req[r].ip = Unset

IPChosen(r) ==
  req[r].pc \in {"port", "commit"} /\ ~req[r].put /\ ~req[r].brought =>
    \A n \in StoredServices \ {req[r].name} : services[n].ip = req[r].ip => n \in req[r].raced

PortChosen(r) ==
  req[r].pc = "commit" /\ req[r].port # Unset =>
    \A n \in StoredServices \ {req[r].name} : services[n].port = req[r].port => n \in req[r].raced

RacesNoted ==
  /\ DistinctUnlessRaced
  /\ \A r \in Requests : Unpicked(r) /\ IPChosen(r) /\ PortChosen(r)

(* A step of r that writes no Service.                                     *)
LEMMA StepRacesRequest ==
  ASSUME RacesNoted, NEW r \in Requests, UNCHANGED <<services, brought, raced>>,
         \A t \in Requests \ {r} : req'[t] = req[t],
         (Unpicked(r) /\ IPChosen(r) /\ PortChosen(r))'
  PROVE  RacesNoted'
<1>1. DistinctUnlessRaced'
  BY DEF RacesNoted, DistinctUnlessRaced, StoredServices, Raced
<1>2. \A t \in Requests \ {r} : (Unpicked(t) /\ IPChosen(t) /\ PortChosen(t))'
  BY DEF RacesNoted, Unpicked, IPChosen, PortChosen, StoredServices
<1> QED
  BY <1>1, <1>2 DEF RacesNoted

(* A commit finds a Service that has its address or port noted, and is     *)
(* noted where it is the one that was written after the choice.            *)
LEMMA StepRacesCommit ==
  ASSUME ServicesInv, RacesNoted, NEW r \in Requests, CommitService(r)
  PROVE  RacesNoted'
<1>1. PICK n \in ServiceNames, x \in Service :
        /\ n = req[r].name /\ req[r].pc = "commit"
        /\ x = [type |-> req[r].type, ip |-> req[r].ip, port |-> req[r].port]
  BY CommitStores DEF CommitService
<1>2. services' = [services EXCEPT ![n] = x] /\ services \in [ServiceNames -> Service \cup {NoService}]
  BY <1>1 DEF CommitService, ServicesInv, ServicesTypeOK
<1>3. /\ \A m \in ServiceNames : services'[m] = IF m = n THEN x ELSE services[m]
      /\ StoredServices' \subseteq StoredServices \cup {n}
  BY <1>2 DEF StoredServices
<1>4. /\ \A m \in ServiceNames : raced[m] \subseteq raced'[m]
      /\ req[r].raced \subseteq raced'[n]
      /\ brought \subseteq brought' /\ (req[r].brought => n \in brought')
  BY <1>1 DEF CommitService, ServicesInv, ServicesTypeOK
<1>5. ASSUME NEW m \in StoredServices, m # n, services[m].ip = x.ip, ~Raced(m, n)'
      PROVE  m \in brought' \/ n \in brought'
  <2>1. m \in ServiceNames /\ ~Raced(m, n) /\ m \notin req[r].raced
    BY <1>1, <1>4, <1>5 DEF Raced, StoredServices
  <2>2. CASE req[r].put /\ ~req[r].brought
    <3>1. n \in StoredServices /\ services[n].ip = x.ip
      BY <1>1, <2>2 DEF CommitService, Accepted, ServicesInv, CarriesIP, StoredServices
    <3>2. m \in brought \/ n \in brought
      BY <1>5, <2>1, <3>1 DEF RacesNoted, DistinctUnlessRaced
    <3> QED
      BY <1>4, <3>2
  <2>3. CASE ~req[r].put /\ ~req[r].brought
    BY <1>1, <1>5, <2>1, <2>3 DEF RacesNoted, IPChosen
  <2> QED
    BY <1>4, <2>2, <2>3
<1>6. ASSUME NEW m \in StoredServices, m # n, services[m].port = x.port, ~Raced(m, n)'
      PROVE  x.port = Unset
  <2>1. m \in ServiceNames /\ m \notin req[r].raced
    BY <1>1, <1>4, <1>6 DEF Raced, StoredServices
  <2> QED
    BY <1>1, <1>6, <2>1 DEF RacesNoted, PortChosen
<1>7. \A m, o \in ServiceNames : Raced(m, o) => Raced(m, o)'
  BY <1>4 DEF Raced
<1> DEFINE Apart(m, o) ==
             m # o /\ ~Raced(m, o) =>
               /\ services[m].ip = services[o].ip => m \in brought \/ o \in brought
               /\ services[m].port = services[o].port => services[o].port = Unset
<1>8. ASSUME NEW m \in StoredServices, m # n PROVE Apart(m, n)' /\ Apart(n, m)'
  <2>1. m \in ServiceNames /\ services'[m] = services[m] /\ services'[n] = x
    BY <1>1, <1>3, <1>8 DEF StoredServices
  <2>2. Raced(m, n)' <=> Raced(n, m)'
    BY DEF Raced
  <2> QED
    BY <1>5, <1>6, <1>8, <2>1, <2>2
<1>9. ASSUME NEW m \in StoredServices, NEW o \in StoredServices, m # n, o # n PROVE Apart(m, o)'
  <2>1. m \in ServiceNames /\ o \in ServiceNames /\ services'[m] = services[m] /\ services'[o] = services[o]
    BY <1>3, <1>9 DEF StoredServices
  <2>2. Apart(m, o)
    BY DEF RacesNoted, DistinctUnlessRaced
  <2> QED
    BY <1>4, <1>7, <2>1, <2>2
<1>10. DistinctUnlessRaced'
  <2>1. \A m, o \in StoredServices' : Apart(m, o)'
    BY <1>3, <1>8, <1>9
  <2> QED
    BY <2>1 DEF DistinctUnlessRaced
<1>11. ASSUME NEW s \in Requests PROVE (Unpicked(s) /\ IPChosen(s) /\ PortChosen(s))'
  <2>1. CASE s = r
    <3>1. req'[s].pc = "idle"
      BY <2>1, CommitLeaves DEF NoApply
    <3> QED
      BY <3>1 DEF Unpicked, IPChosen, PortChosen
  <2>2. CASE s # r
    <3>1. /\ Left(s, n) /\ req'[s].pc = req[s].pc
          /\ req'[s].raced = IF req[s].pc \in {"port", "commit"}
                             THEN req[s].raced \cup ({n} \ {req[s].name}) ELSE req[s].raced
      BY <1>1, <2>2, CommitLeaves
    <3>2. CASE req'[s] = NoApply
      BY <3>2 DEF NoApply, Unpicked, IPChosen, PortChosen
    <3>3. CASE /\ req'[s].name = req[s].name
               /\ req'[s].ip = req[s].ip /\ req'[s].port = req[s].port /\ req'[s].put = req[s].put
               /\ req'[s].brought = req[s].brought
      <4>1. Unpicked(s)'
        BY <3>1, <3>3 DEF RacesNoted, Unpicked
      <4>2. IPChosen(s)'
        BY <1>3, <3>1, <3>3 DEF RacesNoted, IPChosen, StoredServices
      <4>3. PortChosen(s)'
        BY <1>3, <3>1, <3>3 DEF RacesNoted, PortChosen, StoredServices
      <4> QED
        BY <4>1, <4>2, <4>3
    <3> QED
      BY <3>1, <3>2, <3>3 DEF Left
  <2> QED
    BY <2>1, <2>2
<1> QED
  BY <1>10, <1>11 DEF RacesNoted

LEMMA StepRacesDelete ==
  ASSUME ServicesInv, RacesNoted, NEW n \in ServiceNames, Delete(n)
  PROVE  RacesNoted'
<1>1. /\ StoredServices' \subseteq StoredServices \ {n}
      /\ \A m \in StoredServices' : services'[m] = services[m]
  BY DEF Delete, StoredServices, ServicesInv, ServicesTypeOK
<1>2. \A m, o \in StoredServices' : (m \in brought => m \in brought') /\ (Raced(m, o) => Raced(m, o)')
  BY <1>1 DEF Delete, Raced, StoredServices
<1>3. DistinctUnlessRaced'
  BY <1>1, <1>2 DEF RacesNoted, DistinctUnlessRaced
<1>4. ASSUME NEW s \in Requests PROVE (Unpicked(s) /\ IPChosen(s) /\ PortChosen(s))'
  <2>1. Left(s, n) /\ req'[s].pc = req[s].pc /\ req'[s].raced = req[s].raced \ {n}
    BY DeleteLeaves
  <2>2. CASE req'[s] = NoApply
    BY <2>2 DEF NoApply, Unpicked, IPChosen, PortChosen
  <2>3. CASE /\ req'[s].name = req[s].name
             /\ req'[s].ip = req[s].ip /\ req'[s].port = req[s].port /\ req'[s].put = req[s].put
             /\ req'[s].brought = req[s].brought
    <3>1. Unpicked(s)'
      BY <2>1, <2>3 DEF RacesNoted, Unpicked
    <3>2. IPChosen(s)'
      BY <1>1, <2>1, <2>3 DEF RacesNoted, IPChosen
    <3>3. PortChosen(s)'
      BY <1>1, <2>1, <2>3 DEF RacesNoted, PortChosen
    <3> QED
      BY <3>1, <3>2, <3>3
  <2> QED
    BY <2>1, <2>2, <2>3 DEF Left
<1> QED
  BY <1>3, <1>4 DEF RacesNoted

LEMMA StepRaces ==
  ASSUME ServicesInv, RacesNoted, [ServicesNext]_servicesVars
  PROVE  RacesNoted'
<1>1. req \in [Requests -> Request]
  BY DEF ServicesInv, ServicesTypeOK
<1>2. ASSUME NEW r \in Requests, NEW n \in ServiceNames, NEW type \in Types,
             NEW ip \in Addresses \cup {Unset}, NEW port \in Ports \cup {Unset}, Apply(r, n, type, ip, port)
      PROVE  RacesNoted'
  <2>1. req'[r].pc = "ip" /\ (~req'[r].put /\ ~req'[r].brought => req'[r].ip = Unset)
    <3>1. PICK found \in BOOLEAN : req' = [req EXCEPT ![r] =
            [pc |-> "ip", name |-> n, type |-> type,
             ip |-> IF found /\ ip = Unset THEN services[n].ip ELSE ip,
             port |-> IF found /\ port = Unset THEN services[n].port ELSE port,
             put |-> found, fresh |-> found, brought |-> ip # Unset, raced |-> {}]]
      BY <1>2 DEF Apply
    <3>2. /\ req'[r].pc = "ip" /\ req'[r].put = found /\ req'[r].brought = (ip # Unset)
          /\ req'[r].ip = IF found /\ ip = Unset THEN services[n].ip ELSE ip
      BY <1>1, <3>1
    <3> QED
      BY <3>2
  <2>2. \A t \in Requests \ {r} : req'[t] = req[t]
    BY <1>1, <1>2 DEF Apply
  <2> QED
    BY <1>2, <2>1, <2>2, StepRacesRequest DEF Apply, Unpicked, IPChosen, PortChosen
<1>3. ASSUME NEW r \in Requests, NoIP(r) \/ NoPort(r) \/ Conflict(r) PROVE RacesNoted'
  <2>1. req'[r].pc = "idle" /\ \A t \in Requests \ {r} : req'[t] = req[t]
    BY <1>1, <1>3 DEF NoIP, NoPort, Conflict, Refuse, NoApply
  <2>2. UNCHANGED <<services, brought, raced>>
    BY <1>3 DEF NoIP, NoPort, Conflict, Refuse
  <2> QED
    BY <2>1, <2>2, StepRacesRequest DEF Unpicked, IPChosen, PortChosen
<1>4. ASSUME NEW r \in Requests, PickIP(r) PROVE RacesNoted'
  <2>1. /\ req[r].pc = "ip" /\ req'[r].pc = "port" /\ req'[r].put = req[r].put
        /\ req'[r].brought = req[r].brought /\ UNCHANGED <<services, brought, raced>>
        /\ \A t \in Requests \ {r} : req'[t] = req[t]
    BY <1>1, <1>4 DEF PickIP, Request
  <2>2. ~req[r].put /\ ~req[r].brought => req'[r].ip \in FreeHosts
    BY <1>1, <1>4 DEF PickIP, Request, RacesNoted, Unpicked
  <2>3. IPChosen(r)'
    BY <2>1, <2>2 DEF IPChosen, FreeHosts, StoredServices
  <2> QED
    BY <2>1, <2>3, StepRacesRequest DEF Unpicked, PortChosen
<1>5. ASSUME NEW r \in Requests, PickPort(r) PROVE RacesNoted'
  <2>1. /\ req[r].pc = "port" /\ req'[r].pc = "commit" /\ UNCHANGED <<services, brought, raced>>
        /\ req'[r].put = req[r].put /\ req'[r].ip = req[r].ip /\ req'[r].name = req[r].name
        /\ req'[r].brought = req[r].brought /\ req'[r].raced = req[r].raced
        /\ \A t \in Requests \ {r} : req'[t] = req[t]
    BY <1>1, <1>5 DEF PickPort, Request
  <2>2. req'[r].port # Unset => req'[r].port \in FreePorts(r)
    BY <1>1, <1>5 DEF PickPort, Request
  <2>3. PortChosen(r)'
    BY <2>1, <2>2 DEF PortChosen, FreePorts, Others, StoredServices
  <2>4. IPChosen(r)'
    BY <2>1 DEF RacesNoted, IPChosen, StoredServices
  <2> QED
    BY <2>1, <2>3, <2>4, StepRacesRequest DEF Unpicked
<1>6. CASE UNCHANGED servicesVars
  BY <1>6 DEF servicesVars, RacesNoted, DistinctUnlessRaced, Raced, Unpicked, IPChosen, PortChosen, StoredServices
<1> QED
  BY <1>2, <1>3, <1>4, <1>5, <1>6, StepRacesCommit, StepRacesDelete DEF ServicesNext

(* What toyctl and the API server guarantee together, for any number of    *)
(* applies at the same time: a Service shares its ClusterIP or NodePort    *)
(* with another only if one of the two was written between the other's     *)
(* choice and its write, or if a manifest named the ClusterIP. The test of *)
(* server_test.go creates its Services one after the other, and names none.*)
THEOREM SharedOnlyByRace == ServicesSpec => []DistinctUnlessRaced
<1>1. ServicesInit => RacesNoted
  BY DEF ServicesInit, NoApply, RacesNoted, DistinctUnlessRaced, Unpicked, IPChosen, PortChosen, StoredServices
<1> QED
  BY <1>1, StepRaces, ServicesInvariance, PTL DEF ServicesSpec, RacesNoted
=============================================================================
