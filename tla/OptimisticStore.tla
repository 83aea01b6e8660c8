-------------------------- MODULE OptimisticStore --------------------------
(***************************************************************************)
(* What the API server promises its clients about one kind of resource,    *)
(* with no resource versions in sight: a client works on copies it read    *)
(* earlier, and a conditional write succeeds only while the object has not *)
(* been written, deleted or created again since that copy was taken.       *)
(* Module ApiStore shows that the version comparison of etcd/etcd.go       *)
(* implements this promise; the controller modules are written against it. *)
(***************************************************************************)
CONSTANTS
  Clients,   \* components that call the API server
  Names,     \* metadata.name of the objects of the kind
  Contents,  \* what an object holds besides its version
  None       \* the content of a name that has no object

VARIABLES
  content,   \* [Names -> Contents \cup {None}]: the stored objects
  view,      \* [Clients -> [Names -> Contents \cup {None}]]: the copies
  current    \* [Clients -> SUBSET Names]: the copies nobody overtook

storeVars == <<content, view, current>>

Exists(n) == content[n] # None

Init ==
  /\ content = [n \in Names |-> None]
  /\ view = [c \in Clients |-> [n \in Names |-> None]]
  /\ current = [c \in Clients |-> {}]

(* c takes copies of the objects named in S; the others keep their state. *)
Observe(c, S) ==
  /\ view' = [view EXCEPT ![c] = [n \in Names |-> IF n \in S THEN content[n] ELSE view[c][n]]]
  /\ current' = [current EXCEPT ![c] = (@ \ S) \cup {n \in S : Exists(n)}]
  /\ UNCHANGED content

(* The object n becomes x. Every copy of it is overtaken, except the       *)
(* writer's own when the answer reaches it.                                *)
Overtake(c, n, x) ==
  /\ content' = [content EXCEPT ![n] = x]
  /\ \/ /\ current' = [d \in Clients |-> current[d] \ {n}]
        /\ UNCHANGED view
     \/ /\ x # None
        /\ current' = [d \in Clients |-> IF d = c THEN current[d] \cup {n} ELSE current[d] \ {n}]
        /\ view' = [view EXCEPT ![c][n] = x]

Create(c, n, x) == ~Exists(n) /\ Overtake(c, n, x)
Update(c, n, x) == n \in current[c] /\ Overtake(c, n, x)
Delete(c, n) == n \in current[c] /\ Overtake(c, n, None)
ForceDelete(c, n) == Exists(n) /\ Overtake(c, n, None)

Next ==
  \E c \in Clients :
    \/ \E S \in SUBSET Names : Observe(c, S)
    \/ \E n \in Names :
         \/ \E x \in Contents : Create(c, n, x) \/ Update(c, n, x)
         \/ Delete(c, n)
         \/ ForceDelete(c, n)

Spec == Init /\ [][Next]_storeVars
=============================================================================
