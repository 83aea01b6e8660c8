---------------------------- MODULE ReconcileLoop ----------------------------
(***************************************************************************)
(* What the reconcile loop promises its component, with no streams,        *)
(* contexts or generations in sight: the component works in turns, a turn  *)
(* reads every resource anew, a turn that failed is repeated, and nobody   *)
(* rests on a resource that changed after the turn read it. Turns nobody   *)
(* needed are allowed. Module WatchLoop shows that api.Run keeps this      *)
(* promise; the controller modules take their turns by it.                 *)
(***************************************************************************)
CONSTANT Resources   \* what the component watches and reads

VARIABLES
  turn,     \* "rest" between two turns, "work" during one, "over" at the end
  woken,    \* TRUE when another turn is certain to come
  unread,   \* the resources that changed after the component read them
  toRead    \* the resources this turn has still to read

loopVars == <<turn, woken, unread, toRead>>

Init == turn = "rest" /\ woken = TRUE /\ unread = {} /\ toRead = {}

(* A resource changes; also while a turn is under way.                     *)
Change(r) ==
  /\ turn # "over"
  /\ woken' = TRUE
  /\ unread' = unread \cup {r}
  /\ UNCHANGED <<turn, toRead>>

(* A turn that was due begins. What happened while the streams were opened *)
(* may already have made the next one due.                                 *)
Begin ==
  /\ turn = "rest" /\ woken
  /\ turn' = "work"
  /\ woken' \in BOOLEAN
  /\ toRead' = Resources
  /\ UNCHANGED unread

Read(r) ==
  /\ turn = "work"
  /\ toRead' = toRead \ {r}
  /\ unread' = unread \ {r}
  /\ UNCHANGED <<turn, woken>>

(* A turn succeeds only after it has read everything.                      *)
Succeed ==
  /\ turn = "work" /\ toRead = {}
  /\ turn' = "rest"
  /\ UNCHANGED <<woken, unread, toRead>>

Fail ==
  /\ turn = "work"
  /\ turn' = "rest" /\ woken' = TRUE /\ toRead' = {}
  /\ UNCHANGED unread

(* A turn without a change: a stream ended by itself.                      *)
Disturb ==
  /\ turn # "over"
  /\ woken' = TRUE
  /\ UNCHANGED <<turn, unread, toRead>>

End == turn' = "over" /\ woken' = FALSE /\ unread' = {} /\ toRead' = {}

Next ==
  \/ \E r \in Resources : Change(r) \/ Read(r)
  \/ Begin \/ Succeed \/ Fail \/ Disturb \/ End

Spec == Init /\ [][Next]_loopVars
=============================================================================
