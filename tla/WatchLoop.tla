----------------------------- MODULE WatchLoop -----------------------------
(***************************************************************************)
(* The loop every controller, the scheduler and kube-proxy run             *)
(* (api.Run): open one watch per resource, reconcile, sleep until one of   *)
(* the watches reports, start over. Each turn of the loop is a generation  *)
(* with a context and a channel of its own; the goroutines of a generation *)
(* outlive the turn that started them.                                     *)
(*                                                                         *)
(* A resource is known here only by the revision of its latest change.     *)
(***************************************************************************)
EXTENDS Integers, FiniteSets

CONSTANTS
  NumWatches,    \* how many resources the component watches and reads
  MaxRevision,   \* bound: the number of changes to the watched resources
  MaxFailures,   \* bound: failed calls and streams that end by themselves
  MaxDisturbances \* bound: changes and failures together

ASSUME WatchLoopAssumption ==
  /\ NumWatches \in Nat \ {0}
  /\ MaxRevision \in Nat
  /\ MaxFailures \in Nat
  /\ MaxDisturbances \in Nat

Watches == 1..NumWatches

(* Enough for every turn that Run wants to take (EnoughGenerations).       *)
MaxGen == MaxDisturbances + 1
Generations == 1..MaxGen

VARIABLES
  revision,   \* etcd's revision
  last,       \* [Watches -> Nat]: the revision of the latest change of each
  failures,   \* how many calls and streams have failed so far
  parent,     \* TRUE once the process is told to stop (ctx of Run)
  pc,         \* what Run is doing
  next,       \* the resource Run is opening a watch of, or reading
  gen,        \* the current generation
  seen,       \* [Watches -> Nat]: the revision Reconcile last read each at
  cancelled,  \* the generations whose watchContext is done
  from,       \* [Generations -> [Watches -> Nat]]: the revision an open
              \* stream starts after (0 before and after that)
  stage,      \* [Generations -> [Watches -> Stage]]: the forwarding goroutine
  full        \* the generations whose events channel holds its one event

runVars == <<pc, next, gen, seen>>
fwdVars == <<cancelled, from, stage, full>>
envVars == <<revision, last, failures, parent>>
vars == <<envVars, runVars, fwdVars>>

(* none: not started; open: waiting for its stream; fired: at the select   *)
(* that sends on the events channel; done: ended.                          *)
Stage == {"none", "open", "fired", "done"}
PC == {"list", "watch", "reconcile", "wait", "backoff", "stopped"}

Init ==
  /\ revision = 0 /\ last = [w \in Watches |-> 0]
  /\ failures = 0 /\ parent = FALSE
  /\ pc = "list" /\ next = 1 /\ gen = 1
  /\ seen = [w \in Watches |-> 0]
  /\ cancelled = {} /\ full = {}
  /\ from = [g \in Generations |-> [w \in Watches |-> 0]]
  /\ stage = [g \in Generations |-> [w \in Watches |-> "none"]]

-----------------------------------------------------------------------------
(* The environment: somebody writes a resource; the process is stopped.    *)

Change(w) ==
  /\ revision < MaxRevision /\ revision + failures < MaxDisturbances
  /\ revision' = revision + 1
  /\ last' = [last EXCEPT ![w] = revision + 1]
  /\ UNCHANGED <<failures, parent, runVars, fwdVars>>

Stop ==
  /\ ~parent
  /\ parent' = TRUE
  /\ cancelled' = Generations
  /\ UNCHANGED <<revision, last, failures, runVars, from, stage, full>>

(* A call fails because its context is done, or by the bounded bad luck of *)
(* a refused connection, a 409, an unreadable answer.                      *)
Fails(contextDone) ==
  /\ \/ contextDone /\ UNCHANGED failures
     \/ /\ failures < MaxFailures /\ revision + failures < MaxDisturbances
        /\ failures' = failures + 1
  /\ UNCHANGED <<revision, last, parent>>

-----------------------------------------------------------------------------
(* CombineWatches, called by Run.                                          *)

(* The List of watchX: its revision is where the stream will start.        *)
ListResource ==
  /\ pc = "list"
  /\ gen \notin cancelled
  /\ from' = [from EXCEPT ![gen][next] = revision]
  /\ pc' = "watch"
  /\ UNCHANGED <<envVars, next, gen, seen, cancelled, stage, full>>

(* The Watch of watchX, and its forwarding goroutine.                      *)
OpenStream ==
  /\ pc = "watch"
  /\ gen \notin cancelled
  /\ stage' = [stage EXCEPT ![gen][next] = "open"]
  /\ IF next < NumWatches THEN next' = next + 1 /\ pc' = "list"
                          ELSE next' = 1 /\ pc' = "reconcile"
  /\ UNCHANGED <<envVars, gen, seen, cancelled, from, full>>

(* Either call fails, for one thing when a watch that is already open      *)
(* reported and cancelled the context of its siblings.                     *)
WatchFails ==
  /\ pc \in {"list", "watch"}
  /\ Fails(gen \in cancelled)
  /\ cancelled' = cancelled \cup {gen}
  /\ pc' = "backoff"
  /\ from' = [from EXCEPT ![gen][next] = 0]
  /\ UNCHANGED <<next, gen, seen, stage, full>>

-----------------------------------------------------------------------------
(* Run itself.                                                             *)

(* Reconcile reads the resources one after the other ...                   *)
ReadResource ==
  /\ pc = "reconcile" /\ next <= NumWatches
  /\ ~parent
  /\ seen' = [seen EXCEPT ![next] = revision]
  /\ next' = next + 1
  /\ UNCHANGED <<envVars, pc, gen, fwdVars>>

(* ... acts on what it read, and returns.                                  *)
ReconcileDone ==
  /\ pc = "reconcile" /\ next > NumWatches
  /\ pc' = "wait"
  /\ UNCHANGED <<envVars, next, gen, seen, fwdVars>>

(* The events channel of the generation is dropped, its context is not     *)
(* cancelled.                                                              *)
ReconcileFails ==
  /\ pc = "reconcile"
  /\ Fails(parent)
  /\ pc' = "backoff"
  /\ UNCHANGED <<next, gen, seen, fwdVars>>

NextGeneration ==
  /\ gen < MaxGen
  /\ gen' = gen + 1
  /\ next' = 1
  /\ pc' = "list"

Wake ==
  /\ pc = "wait" /\ gen \in full
  /\ full' = full \ {gen}
  /\ NextGeneration
  /\ UNCHANGED <<envVars, seen, cancelled, from, stage>>

(* Fault: the next turn goes on with the watches there are.                *)
RetryReconcile ==
  /\ pc = "backoff"
  /\ pc' = "reconcile" /\ next' = 1
  /\ UNCHANGED <<envVars, gen, seen, fwdVars>>

(* A turn after a failure begins like every other one, with its watches.   *)
Retry ==
  /\ pc = "backoff"
  /\ NextGeneration
  /\ UNCHANGED <<envVars, seen, fwdVars>>

Return ==
  /\ pc \in {"wait", "backoff"} /\ parent
  /\ pc' = "stopped"
  /\ UNCHANGED <<envVars, next, gen, seen, fwdVars>>

-----------------------------------------------------------------------------
(* The goroutines of generation g for the watch of w: the reader of the    *)
(* HTTP stream, WatchErrors, and the forwarder of CombineWatches.          *)

(* Faults: the stream starts one revision late, or one early.              *)
EventDueLate(g, w) == last[w] > from[g][w] + 1
EventDueEarly(g, w) == last[w] >= from[g][w]

EventDue(g, w) == last[w] > from[g][w]

(* Fault: the forwarder of a stream that ended just ends.                  *)
FireOnlyEvents(g, w) ==
  /\ stage[g][w] = "open"
  /\ \/ EventDue(g, w) /\ UNCHANGED envVars /\ stage' = [stage EXCEPT ![g][w] = "fired"]
     \/ Fails(g \in cancelled) /\ stage' = [stage EXCEPT ![g][w] = "done"]
  /\ from' = [from EXCEPT ![g][w] = 0]
  /\ UNCHANGED <<runVars, cancelled, full>>

(* The forwarder's receive returns: with an event, or because the channel  *)
(* of WatchErrors was closed after the stream ended or the context was     *)
(* cancelled. It goes on in the same way.                                  *)
Fire(g, w) ==
  /\ stage[g][w] = "open"
  /\ \/ EventDue(g, w) /\ UNCHANGED envVars
     \/ Fails(g \in cancelled)
  /\ stage' = [stage EXCEPT ![g][w] = "fired"]
  /\ from' = [from EXCEPT ![g][w] = 0]
  /\ UNCHANGED <<runVars, cancelled, full>>

(* Fault: the forwarder does not call cancel.                              *)
ForwardOnly(g, w) ==
  /\ stage[g][w] = "fired" /\ g \notin full
  /\ full' = full \cup {g}
  /\ stage' = [stage EXCEPT ![g][w] = "done"]
  /\ UNCHANGED <<envVars, runVars, from, cancelled>>

(* The select takes the send; the cancel that follows at once is part of   *)
(* this step, for what Run does in between does not depend on a context    *)
(* whose generation has reported.                                          *)
Forward(g, w) ==
  /\ stage[g][w] = "fired" /\ g \notin full
  /\ full' = full \cup {g}
  /\ cancelled' = cancelled \cup {g}
  /\ stage' = [stage EXCEPT ![g][w] = "done"]
  /\ UNCHANGED <<envVars, runVars, from>>

(* The select takes the end of the context: a sibling reported first, or   *)
(* the process stops.                                                      *)
GiveUp(g, w) ==
  /\ stage[g][w] = "fired" /\ g \in cancelled
  /\ stage' = [stage EXCEPT ![g][w] = "done"]
  /\ UNCHANGED <<envVars, runVars, cancelled, from, full>>

-----------------------------------------------------------------------------
RunStep ==
  \/ ListResource \/ OpenStream \/ WatchFails
  \/ ReadResource \/ ReconcileDone \/ ReconcileFails
  \/ Wake \/ Retry \/ Return

Forwarder(g, w) == Fire(g, w) \/ Forward(g, w) \/ GiveUp(g, w)

Next ==
  \/ Stop
  \/ \E w \in Watches : Change(w)
  \/ RunStep
  \/ \E g \in Generations, w \in Watches : Forwarder(g, w)

Spec == Init /\ [][Next]_vars

(* A goroutine that can run does, a call returns, the retry timer fires    *)
(* and etcd delivers the events of an open stream. Nobody has to change a  *)
(* resource or to stop the process.                                        *)
FairSpec ==
  /\ Spec
  /\ WF_vars(RunStep)
  /\ \A g \in Generations, w \in Watches : WF_vars(Forwarder(g, w))

-----------------------------------------------------------------------------
(* Types of the variables.                                                 *)
TypeOK ==
  /\ revision \in 0..MaxRevision
  /\ last \in [Watches -> 0..MaxRevision]
  /\ failures \in 0..MaxFailures
  /\ parent \in BOOLEAN
  /\ pc \in PC
  /\ next \in 1..(NumWatches + 1)
  /\ gen \in Generations
  /\ seen \in [Watches -> 0..MaxRevision]
  /\ cancelled \subseteq Generations
  /\ full \subseteq Generations
  /\ from \in [Generations -> [Watches -> 0..MaxRevision]]
  /\ stage \in [Generations -> [Watches -> Stage]]

(* A report of w is on its way to the Run of generation g.                 *)
Pending(g, w) ==
  \/ g \in full
  \/ stage[g][w] = "fired"
  \/ stage[g][w] = "open" /\ EventDue(g, w)

(* The reason Run watches first and reconciles then: while Run sleeps, a   *)
(* change that its last Reconcile did not see is about to wake it, unless  *)
(* the process stops.                                                      *)
NoMissedChange ==
  pc = "wait" /\ ~parent =>
    \A w \in Watches : last[w] > seen[w] => Pending(gen, w)

(* The loop makes no work of its own. A turn that ended leaves its streams *)
(* open only if its Reconcile failed. Every turn after the first was caused*)
(* by a change or a failure: a stream that started at the revision of its  *)
(* List would report the change the List had already returned.             *)
Frugal ==
  /\ Cardinality({g \in 1..(gen - 1) : g \notin cancelled}) <= failures
  /\ ~parent => gen <= revision + failures + 1

(* When the changes and the failures end, Run ends up asleep on what it    *)
(* last read (or stopped).                                                 *)
Converges ==
  <>[](pc = "stopped" \/ (pc = "wait" /\ \A w \in Watches : last[w] <= seen[w]))

(* The comment of CombineWatches: an event, also one for a generation Run  *)
(* has left, leads to the cancellation of its context. And once the process*)
(* is told to stop, Run returns and no forwarding goroutine of any         *)
(* generation stays behind.                                                *)
GoroutinesEnd ==
  /\ \A g \in Generations, w \in Watches :
       stage[g][w] = "open" /\ EventDue(g, w) ~> g \in cancelled
  /\ parent ~> /\ pc = "stopped"
               /\ \A g \in Generations, w \in Watches : stage[g][w] \in {"none", "done"}

-----------------------------------------------------------------------------
(* Seen from outside. The turn of a component is its Reconcile; sleeping,  *)
(* opening watches and waiting for a retry are rest. Once the process is   *)
(* told to stop nothing is promised any more.                              *)
TurnBar == IF parent THEN "over" ELSE IF pc = "reconcile" THEN "work" ELSE "rest"

WokenBar ==
  ~parent /\ (pc \in {"reconcile", "wait"} => \E w \in Watches : Pending(gen, w))

UnreadBar == {w \in Watches : ~parent /\ last[w] > seen[w]}

ToReadBar == {w \in Watches : ~parent /\ pc = "reconcile" /\ w >= next}

Promise == INSTANCE ReconcileLoop
  WITH Resources <- Watches, turn <- TurnBar, woken <- WokenBar, unread <- UnreadBar, toRead <- ToReadBar

(* The comment of Run, in full: the loop of streams, contexts and          *)
(* generations is a loop of turns that reads everything in every turn and  *)
(* never rests while a resource changed behind its back, whether the       *)
(* change came before, during or after the opening of the watches.         *)
KeepsPromise == Promise!Spec
=============================================================================
