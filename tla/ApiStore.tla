------------------------------ MODULE ApiStore ------------------------------
(***************************************************************************)
(* The shared state of the cluster: etcd behind the API server, for one    *)
(* kind of resource other than Service (module ServiceAllocation), and the *)
(* copies its clients hold. Each HTTP handler of apiserver/server.go makes *)
(* one etcd transaction, so one action is one request. A request that is   *)
(* refused (404, 409, 400) changes nothing and is no action here.          *)
(***************************************************************************)
EXTENDS Integers

CONSTANTS
  Clients,      \* components that call the API server
  Names,        \* metadata.name of the objects of the kind
  Contents,     \* what an object holds besides its version
  None,         \* the content of a name that has no object
  MaxRevision   \* bound: the number of writes to etcd in a behaviour

ASSUME StoreAssumption ==
  /\ None \notin Contents
  /\ MaxRevision \in Nat

VARIABLES
  revision,     \* etcd's revision: one more with every write
  objects,      \* [Names -> Object]: what is stored, version 0 for nothing
  copy          \* [Clients -> [Names -> Object]]: what each client read last

vars == <<revision, objects, copy>>

Object == [version : 0..MaxRevision, content : Contents \cup {None}]
Missing == [version |-> 0, content |-> None]

Stored(n) == objects[n].version > 0

Init ==
  /\ revision = 0
  /\ objects = [n \in Names |-> Missing]
  /\ copy = [c \in Clients |-> [n \in Names |-> Missing]]

(* GET /<resources>/<name>: the object with its ModRevision as version. *)
GetObject(c, n) ==
  /\ Stored(n)
  /\ copy' = [copy EXCEPT ![c][n] = objects[n]]
  /\ UNCHANGED <<revision, objects>>

(* GET /<resources>: every object, read at one revision. *)
ListObjects(c) ==
  /\ copy' = [copy EXCEPT ![c] = objects]
  /\ UNCHANGED <<revision, objects>>

(* Fault: the version is etcd's Version(key), which starts again at 1 when *)
(* a name is deleted and created again.                                    *)
CommitCountingWrites(c, n, o) ==
  /\ revision < MaxRevision
  /\ revision' = revision + 1
  /\ LET stored == IF o = Missing THEN o ELSE [o EXCEPT !.version = objects[n].version + 1]
     IN /\ objects' = [objects EXCEPT ![n] = stored]
        /\ \/ UNCHANGED copy
           \/ o # Missing /\ copy' = [copy EXCEPT ![c][n] = stored]

(* A committed transaction stores o under n. The answer carries o back to  *)
(* the caller c, or is lost on the way and c keeps the copy it had.        *)
Commit(c, n, o) ==
  /\ revision < MaxRevision
  /\ revision' = revision + 1
  /\ objects' = [objects EXCEPT ![n] = o]
  /\ \/ UNCHANGED copy
     \/ o.content # None /\ copy' = [copy EXCEPT ![c][n] = o]

NewObject(x) == [version |-> revision + 1, content |-> x]

(* POST /<resources>: put if Version(key) = 0. *)
CreateObject(c, n, x) ==
  /\ ~Stored(n)
  /\ Commit(c, n, NewObject(x))

(* Fault: PUT only asks whether the object still exists.                   *)
UpdateBlindly(c, n, x) ==
  /\ copy[c][n].version # 0
  /\ Stored(n)
  /\ Commit(c, n, NewObject(x))

(* PUT /<resources>/<name>: put if ModRevision(key) is the body's version, *)
(* which must not be 0.                                                    *)
UpdateObject(c, n, x) ==
  /\ copy[c][n].version # 0
  /\ objects[n].version = copy[c][n].version
  /\ Commit(c, n, NewObject(x))

(* DELETE with ?resourceVersion=v, v at least 1: delete if ModRevision(key) = v. *)
DeleteObject(c, n) ==
  /\ copy[c][n].version # 0
  /\ objects[n].version = copy[c][n].version
  /\ Commit(c, n, Missing)

(* DELETE with no resourceVersion: delete if Version(key) > 0. *)
DeleteUnconditionally(c, n) ==
  /\ Stored(n)
  /\ Commit(c, n, Missing)

Next ==
  \E c \in Clients :
    \/ ListObjects(c)
    \/ \E n \in Names :
         \/ GetObject(c, n)
         \/ \E x \in Contents : CreateObject(c, n, x) \/ UpdateObject(c, n, x)
         \/ DeleteObject(c, n)
         \/ DeleteUnconditionally(c, n)

Spec == Init /\ [][Next]_vars

-----------------------------------------------------------------------------
(* Types; a name has version 0 exactly when it has no content, so that the *)
(* two ways the code asks "does it exist" agree.                           *)
TypeOK ==
  /\ revision \in 0..MaxRevision
  /\ objects \in [Names -> Object]
  /\ copy \in [Clients -> [Names -> Object]]
  /\ \A n \in Names : Stored(n) <=> objects[n].content # None

(* A version names one write: a copy whose version is the stored one holds *)
(* the stored content, so the comparison in EtcdClient.Update protects the *)
(* write that is based on it, even when the name was deleted and created   *)
(* again in between.                                                       *)
VersionNamesContent ==
  \A c \in Clients, n \in Names :
    copy[c][n].version = objects[n].version /\ Stored(n)
      => copy[c][n].content = objects[n].content

(* No version is ahead of etcd's revision: the next write's version is new *)
(* to every client.                                                        *)
VersionsIssued ==
  /\ \A n \in Names : objects[n].version <= revision
  /\ \A c \in Clients, n \in Names : copy[c][n].version <= revision

(* The version comparison implements the promise of OptimisticStore: a     *)
(* conditional PUT or DELETE succeeds only on a copy nobody overtook.      *)
Promise == INSTANCE OptimisticStore WITH
  content <- [n \in Names |-> objects[n].content],
  view <- [c \in Clients |-> [n \in Names |-> copy[c][n].content]],
  current <- [c \in Clients |-> {n \in Names : Stored(n) /\ copy[c][n].version = objects[n].version}]

KeepsPromise == Promise!Spec
=============================================================================
