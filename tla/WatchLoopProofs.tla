-------------------------- MODULE WatchLoopProofs --------------------------
(***************************************************************************)
(* Proofs of the safety of WatchLoop, for any number of watches, changes   *)
(* and failures.                                                           *)
(***************************************************************************)
EXTENDS WatchLoop, FiniteSetTheorems, TLAPS

-----------------------------------------------------------------------------
(* The inductive invariant.                                                *)

(* No stream starts in the future.                                         *)
FromIssued == \A g \in Generations, w \in Watches : from[g][w] <= revision

(* A generation that has not begun has nothing yet.                        *)
Unborn(g) ==
  /\ g \notin full
  /\ g \in cancelled => parent
  /\ \A w \in Watches : stage[g][w] = "none"

(* How far CombineWatches is.                                              *)
Opening ==
  pc \in {"list", "watch"} =>
    /\ next \in Watches
    /\ \A w \in Watches : w < next => stage[gen][w] # "none"

(* Watch first, reconcile then: what Reconcile has read it read after the  *)
(* revision from which the stream of the same resource reports.            *)
Covered(w) == stage[gen][w] # "none" /\ from[gen][w] <= seen[w]

Reading ==
  pc = "reconcile" =>
    \A w \in Watches : stage[gen][w] # "none" /\ (w < next => Covered(w))

Asleep == pc = "wait" => \A w \in Watches : Covered(w)

(* While Run listens, a goroutine of its generation ends, or cancels its   *)
(* siblings, only with a report in the channel.                            *)
Listening == pc \in {"list", "watch", "reconcile", "wait"} /\ ~parent

Reported ==
  Listening => \/ gen \in full
               \/ /\ gen \notin cancelled
                  /\ \A w \in Watches : stage[gen][w] # "done"

IInv ==
  /\ TypeOK
  /\ FromIssued
  /\ \A g \in Generations : g > gen => Unborn(g)
  /\ Opening
  /\ Reading
  /\ Asleep
  /\ Reported

-----------------------------------------------------------------------------
(* Types.                                                                  *)

LEMMA InitTypeOK == Init => TypeOK
<1> SUFFICES ASSUME Init PROVE TypeOK
  OBVIOUS
<1>1. 0 \in 0..MaxRevision /\ 0 \in 0..MaxFailures /\ 1 \in 1..(NumWatches + 1) /\ 1 \in Generations
  BY WatchLoopAssumption DEF Generations, MaxGen
<1> QED
  BY <1>1 DEF TypeOK, Init, PC, Stage

LEMMA StepTypeOK == TypeOK /\ [Next]_vars => TypeOK'
<1> SUFFICES ASSUME TypeOK, [Next]_vars PROVE TypeOK'
  OBVIOUS
<1>1. CASE Stop
  BY <1>1 DEF TypeOK, Stop, runVars
<1>2. ASSUME NEW w \in Watches, Change(w) PROVE TypeOK'
  BY <1>2, WatchLoopAssumption DEF TypeOK, Change, runVars, fwdVars
<1>3. CASE ListResource
  BY <1>3 DEF TypeOK, ListResource, envVars, PC
<1>4. CASE OpenStream
  <2>1. stage' \in [Generations -> [Watches -> Stage]]
    BY <1>4 DEF TypeOK, OpenStream, Stage
  <2>2. next' \in 1..(NumWatches + 1) /\ pc' \in PC
    BY <1>4, WatchLoopAssumption DEF TypeOK, OpenStream, PC
  <2> QED
    BY <1>4, <2>1, <2>2 DEF TypeOK, OpenStream, envVars
<1>5. CASE WatchFails
  <2>1. 0 \in 0..MaxRevision
    BY WatchLoopAssumption
  <2>2. [from[gen] EXCEPT ![next] = 0] \in [Watches -> 0..MaxRevision]
    BY <2>1 DEF TypeOK
  <2>3. from' \in [Generations -> [Watches -> 0..MaxRevision]]
    BY <1>5, <2>2 DEF TypeOK, WatchFails
  <2>4. failures' \in 0..MaxFailures
    BY <1>5, WatchLoopAssumption DEF TypeOK, WatchFails, Fails
  <2> QED
    BY <1>5, <2>3, <2>4 DEF TypeOK, WatchFails, Fails, PC
<1>6. CASE ReadResource
  <2>1. next' \in 1..(NumWatches + 1)
    BY <1>6, WatchLoopAssumption DEF TypeOK, ReadResource
  <2>2. seen' \in [Watches -> 0..MaxRevision]
    BY <1>6 DEF TypeOK, ReadResource
  <2> QED
    BY <1>6, <2>1, <2>2 DEF TypeOK, ReadResource, envVars, fwdVars
<1>7. CASE ReconcileDone
  BY <1>7 DEF TypeOK, ReconcileDone, envVars, fwdVars, PC
<1>8. CASE ReconcileFails
  BY <1>8, WatchLoopAssumption DEF TypeOK, ReconcileFails, Fails, fwdVars, PC
<1>9. CASE Wake
  BY <1>9, WatchLoopAssumption DEF TypeOK, Wake, NextGeneration, envVars, PC, Generations, MaxGen
<1>10. CASE Retry
  BY <1>10, WatchLoopAssumption
  DEF TypeOK, Retry, NextGeneration, envVars, fwdVars, PC, Generations, MaxGen
<1>11. CASE Return
  BY <1>11 DEF TypeOK, Return, envVars, fwdVars, PC
<1>12. ASSUME NEW g \in Generations, NEW w \in Watches, Fire(g, w) PROVE TypeOK'
  <2>1. from' \in [Generations -> [Watches -> 0..MaxRevision]]
    BY <1>12, WatchLoopAssumption DEF TypeOK, Fire
  <2>2. stage' \in [Generations -> [Watches -> Stage]]
    BY <1>12 DEF TypeOK, Fire, Stage
  <2>3. failures' \in 0..MaxFailures
    BY <1>12, WatchLoopAssumption DEF TypeOK, Fire, Fails, envVars
  <2> QED
    BY <1>12, <2>1, <2>2, <2>3 DEF TypeOK, Fire, Fails, envVars, runVars
<1>13. ASSUME NEW g \in Generations, NEW w \in Watches, Forward(g, w) PROVE TypeOK'
  BY <1>13 DEF TypeOK, Forward, Stage, envVars, runVars
<1>14. ASSUME NEW g \in Generations, NEW w \in Watches, GiveUp(g, w) PROVE TypeOK'
  BY <1>14 DEF TypeOK, GiveUp, Stage, envVars, runVars
<1>15. CASE UNCHANGED vars
  BY <1>15 DEF TypeOK, vars, envVars, runVars, fwdVars
<1> QED
  BY <1>1, <1>2, <1>3, <1>4, <1>5, <1>6, <1>7, <1>8, <1>9, <1>10, <1>11, <1>12, <1>13,
     <1>14, <1>15 DEF Next, RunStep, Forwarder

(* The variables of the loop and of its goroutines keep their types: no    *)
(* step leaves the ranges that TypeOK gives them.                          *)
THEOREM TypeCorrect == Spec => []TypeOK
BY InitTypeOK, StepTypeOK, PTL DEF Spec

-----------------------------------------------------------------------------
(* The invariant is inductive.                                             *)

LEMMA InitIInv == Init => IInv
<1> SUFFICES ASSUME Init PROVE IInv
  OBVIOUS
<1>1. TypeOK
  BY InitTypeOK
<1>2. Generations \subseteq Int /\ 1 \in Generations /\ 1 \in Watches
  BY WatchLoopAssumption DEF Generations, MaxGen, Watches
<1>3. FromIssued /\ \A g \in Generations : g > gen => Unborn(g)
  BY <1>2 DEF Init, FromIssued, Unborn
<1>4. Opening /\ Reading /\ Asleep /\ Reported
  BY <1>2, WatchLoopAssumption DEF Init, Opening, Reading, Asleep, Reported, Watches
<1> QED
  BY <1>1, <1>3, <1>4 DEF IInv

(* Steps that leave Run and the streams alone.                             *)
LEMMA StepEnvironment ==
  ASSUME IInv, TypeOK', Stop \/ \E w \in Watches : Change(w)
  PROVE  IInv'
<1>1. FromIssued'
  BY WatchLoopAssumption DEF IInv, TypeOK, FromIssued, Stop, Change, runVars, fwdVars
<1>2. \A g \in Generations : g > gen' => Unborn(g)'
  BY DEF IInv, Unborn, Stop, Change, runVars, fwdVars
<1>3. (Opening /\ Reading /\ Asleep)'
  BY DEF IInv, Opening, Reading, Asleep, Covered, Stop, Change, runVars, fwdVars
<1>4. Reported'
  BY DEF IInv, Reported, Listening, Stop, Change, runVars, fwdVars
<1> QED
  BY <1>1, <1>2, <1>3, <1>4 DEF IInv

(* CombineWatches opens its streams.                                       *)
LEMMA StepOpening ==
  ASSUME IInv, TypeOK', ListResource \/ OpenStream \/ WatchFails
  PROVE  IInv'
<1>0. gen \in Generations /\ Generations \subseteq Int /\ Watches \subseteq Int
  BY DEF IInv, TypeOK, Generations, Watches
<1>1. CASE ListResource
  <2>1. FromIssued'
    BY <1>1, <1>0 DEF IInv, TypeOK, FromIssued, ListResource, envVars
  <2>2. \A g \in Generations : g > gen' => Unborn(g)'
    BY <1>1 DEF IInv, Unborn, ListResource, envVars
  <2>3. (Opening /\ Reading /\ Asleep)'
    BY <1>1 DEF IInv, Opening, Reading, Asleep, ListResource
  <2>4. Reported'
    BY <1>1 DEF IInv, Reported, Listening, ListResource, envVars
  <2> QED
    BY <2>1, <2>2, <2>3, <2>4 DEF IInv
<1>2. CASE OpenStream
  <2>1. FromIssued'
    BY <1>2 DEF IInv, FromIssued, OpenStream, envVars
  <2>2. \A g \in Generations : g > gen' => Unborn(g)'
    BY <1>2, <1>0 DEF IInv, TypeOK, Unborn, OpenStream, envVars
  <2>3. \A w \in Watches : w <= next => stage'[gen][w] # "none"
    BY <1>2, <1>0 DEF IInv, TypeOK, Opening, OpenStream
  <2>4. next \in Watches
    BY <1>2 DEF IInv, Opening, OpenStream
  <2>5. (Opening /\ Reading /\ Asleep)'
    <3>1. CASE next < NumWatches
      <4>1. next' = next + 1 /\ pc' = "list" /\ gen' = gen /\ next' \in Watches
        BY <1>2, <2>4, <3>1, WatchLoopAssumption DEF OpenStream, Watches
      <4> QED
        BY <2>3, <2>4, <4>1, <1>0 DEF Opening, Reading, Asleep
    <3>2. CASE ~(next < NumWatches)
      <4>1. next' = 1 /\ pc' = "reconcile" /\ gen' = gen
        BY <1>2, <3>2 DEF OpenStream
      <4>2. \A w \in Watches : w <= next /\ ~(w < 1)
        BY <2>4, <3>2, WatchLoopAssumption DEF Watches
      <4> QED
        BY <2>3, <4>1, <4>2 DEF Opening, Reading, Asleep
    <3> QED
      BY <3>1, <3>2
  <2>6. Reported'
    BY <1>2, <1>0 DEF IInv, TypeOK, Reported, Listening, OpenStream, envVars
  <2> QED
    BY <2>1, <2>2, <2>5, <2>6 DEF IInv
<1>3. CASE WatchFails
  <2>1. FromIssued'
    BY <1>3, <1>0 DEF IInv, TypeOK, FromIssued, WatchFails, Fails
  <2>2. \A g \in Generations : g > gen' => Unborn(g)'
    BY <1>3, <1>0 DEF IInv, Unborn, WatchFails, Fails
  <2>3. (Opening /\ Reading /\ Asleep /\ Reported)'
    BY <1>3 DEF Opening, Reading, Asleep, Reported, Listening, WatchFails
  <2> QED
    BY <2>1, <2>2, <2>3 DEF IInv
<1> QED
  BY <1>1, <1>2, <1>3

(* Run reconciles, or turns to its next generation.                        *)
LEMMA StepRun ==
  ASSUME IInv, TypeOK',
         ReadResource \/ ReconcileDone \/ ReconcileFails \/ Wake \/ Retry \/ Return
  PROVE  IInv'
<1>0. gen \in Generations /\ Generations \subseteq Int /\ Watches \subseteq Int
  BY DEF IInv, TypeOK, Generations, Watches
<1>1. CASE ReadResource
  <2>1. FromIssued' /\ Opening' /\ Asleep' /\ Reported'
    BY <1>1 DEF IInv, FromIssued, Opening, Asleep, Reported, Listening, ReadResource, envVars, fwdVars
  <2>2. \A g \in Generations : g > gen' => Unborn(g)'
    BY <1>1 DEF IInv, Unborn, ReadResource, envVars, fwdVars
  <2>3. ASSUME NEW w \in Watches, w < next'
        PROVE  Covered(w)'
    <3>1. CASE w = next
      BY <1>1, <3>1, <1>0
      DEF IInv, TypeOK, FromIssued, Reading, Covered, ReadResource, envVars, fwdVars
    <3>2. CASE w # next
      <4>1. w < next
        BY <1>1, <2>3, <3>2, <1>0 DEF IInv, TypeOK, ReadResource
      <4> QED
        BY <1>1, <3>2, <4>1 DEF IInv, TypeOK, Reading, Covered, ReadResource, fwdVars
    <3> QED
      BY <3>1, <3>2
  <2>4. Reading'
    BY <1>1, <2>3 DEF IInv, Reading, ReadResource, fwdVars
  <2> QED
    BY <2>1, <2>2, <2>4 DEF IInv
<1>2. CASE ReconcileDone
  <2>1. \A w \in Watches : w < next
    BY <1>2, WatchLoopAssumption DEF IInv, TypeOK, Watches, ReconcileDone
  <2>2. Asleep'
    BY <1>2, <2>1 DEF IInv, Reading, Asleep, Covered, ReconcileDone, fwdVars
  <2> QED
    BY <1>2, <2>2
    DEF IInv, FromIssued, Unborn, Opening, Reading, Reported, Listening, ReconcileDone, envVars, fwdVars
<1>3. CASE ReconcileFails \/ Return
  BY <1>3
  DEF IInv, FromIssued, Unborn, Opening, Reading, Asleep, Reported, Listening, ReconcileFails,
      Return, Fails, envVars, fwdVars
<1>4. CASE Wake \/ Retry
  <2>1. gen' = gen + 1 /\ gen' \in Generations /\ next' = 1 /\ pc' = "list"
    BY <1>4, <1>0 DEF TypeOK, Wake, Retry, NextGeneration
  <2>2. UNCHANGED <<envVars, from, stage, cancelled>> /\ full' \subseteq full
    BY <1>4 DEF Wake, Retry, fwdVars
  <2>3. FromIssued'
    BY <2>2 DEF IInv, FromIssued, envVars
  <2>4. \A g \in Generations : g > gen' => Unborn(g)'
    BY <2>1, <2>2, <1>0 DEF IInv, Unborn, envVars
  <2>5. (Opening /\ Reading /\ Asleep)'
    BY <2>1, WatchLoopAssumption DEF Opening, Reading, Asleep, Watches
  <2>6. Unborn(gen')
    BY <2>1, <1>0 DEF IInv
  <2>7. Reported'
    BY <2>1, <2>2, <2>6 DEF Unborn, Reported, Listening, envVars
  <2> QED
    BY <2>3, <2>4, <2>5, <2>7 DEF IInv
<1> QED
  BY <1>1, <1>2, <1>3, <1>4

(* A goroutine of generation g takes a step.                               *)
LEMMA StepForwarder ==
  ASSUME IInv, TypeOK', NEW g \in Generations, NEW w \in Watches, Forwarder(g, w)
  PROVE  IInv'
<1>0. gen \in Generations /\ Generations \subseteq Int /\ Watches \subseteq Int
  BY DEF IInv, TypeOK, Generations, Watches
<1>1. ~(g > gen) /\ stage[g][w] # "none"
  BY DEF IInv, Unborn, Forwarder, Fire, Forward, GiveUp
<1>2. UNCHANGED <<revision, parent, runVars>>
  BY DEF Forwarder, Fire, Forward, GiveUp, Fails, envVars
<1>3. \A h \in Generations, v \in Watches :
        /\ from'[h][v] \in {from[h][v], 0}
        /\ (stage'[h][v] = "none") <=> (stage[h][v] = "none")
  BY <1>1 DEF IInv, TypeOK, Forwarder, Fire, Forward, GiveUp
<1>4. FromIssued'
  <2> SUFFICES ASSUME NEW h \in Generations, NEW v \in Watches PROVE from'[h][v] <= revision'
    BY DEF FromIssued
  <2>1. from[h][v] <= revision /\ 0 <= revision
    BY DEF IInv, TypeOK, FromIssued
  <2> QED
    BY <2>1, <1>2, <1>3
<1>5. \A h \in Generations : h > gen' => Unborn(h)'
  <2> SUFFICES ASSUME NEW h \in Generations, h > gen PROVE Unborn(h)'
    BY <1>2 DEF runVars
  <2>1. h # g /\ Unborn(h)
    BY <1>1 DEF IInv
  <2>2. h \notin full'
    BY <2>1 DEF Unborn, Forwarder, Fire, Forward, GiveUp
  <2>3. h \in cancelled' => parent'
    BY <2>1, <1>2 DEF Unborn, Forwarder, Fire, Forward, GiveUp
  <2> QED
    BY <2>1, <2>2, <2>3, <1>3 DEF Unborn
<1>6. \A v \in Watches : Covered(v) => Covered(v)'
  <2> SUFFICES ASSUME NEW v \in Watches, Covered(v) PROVE Covered(v)'
    OBVIOUS
  <2>1. gen' = gen /\ seen' = seen /\ 0 <= seen[v]
    BY <1>2 DEF IInv, TypeOK, runVars
  <2> QED
    BY <2>1, <1>0, <1>3 DEF Covered
<1>7. (Opening /\ Reading /\ Asleep)'
  BY <1>0, <1>2, <1>3, <1>6 DEF IInv, Opening, Reading, Asleep, runVars
<1>8. Reported'
  <2>1. CASE Fire(g, w)
    BY <2>1, <1>2 DEF IInv, TypeOK, Reported, Listening, Fire, runVars
  <2>2. CASE Forward(g, w)
    BY <2>2, <1>2 DEF IInv, TypeOK, Reported, Listening, Forward, runVars
  <2>3. CASE GiveUp(g, w)
    BY <2>3, <1>2 DEF IInv, TypeOK, Reported, Listening, GiveUp, runVars
  <2> QED
    BY <2>1, <2>2, <2>3 DEF Forwarder
<1> QED
  BY <1>4, <1>5, <1>7, <1>8 DEF IInv

LEMMA StepIInv == IInv /\ [Next]_vars => IInv'
<1> SUFFICES ASSUME IInv, [Next]_vars PROVE IInv'
  OBVIOUS
<1>1. TypeOK'
  BY StepTypeOK DEF IInv
<1>2. CASE UNCHANGED vars
  BY <1>1, <1>2
  DEF IInv, FromIssued, Unborn, Opening, Reading, Asleep, Covered, Reported, Listening,
      vars, envVars, runVars, fwdVars
<1> QED
  BY <1>1, <1>2, StepEnvironment, StepOpening, StepRun, StepForwarder DEF Next, RunStep

LEMMA Invariance == Spec => []IInv
BY InitIInv, StepIInv, PTL DEF Spec

(* A component never sleeps on a state older than what it was told about:  *)
(* for any number of watches, a change that the last Reconcile of api.Run  *)
(* did not read is always on its way to wake it.                           *)
THEOREM WatchBeforeReconcile == Spec => []NoMissedChange
<1>1. IInv => NoMissedChange
  <2> SUFFICES ASSUME IInv, pc = "wait", ~parent, NEW w \in Watches, last[w] > seen[w]
               PROVE  Pending(gen, w)
    BY DEF NoMissedChange
  <2>1. stage[gen][w] \in {"open", "fired", "done"} /\ from[gen][w] <= seen[w]
    BY DEF IInv, TypeOK, Asleep, Covered, Stage
  <2>2. stage[gen][w] = "open" => EventDue(gen, w)
    BY <2>1 DEF IInv, TypeOK, EventDue
  <2>3. stage[gen][w] = "done" => gen \in full
    BY DEF IInv, Reported, Listening
  <2> QED
    BY <2>1, <2>2, <2>3 DEF Pending
<1> QED
  BY <1>1, Invariance, PTL
-----------------------------------------------------------------------------
(* Why the loop is frugal. Every generation was caused: there are as many  *)
(* changes and failures as generations before the current one, and one     *)
(* more once that one has reported or failed; a stream keeps the revision  *)
(* that shows it.                                                          *)

LastIssued == \A w \in Watches : last[w] <= revision

(* CombineWatches opens its streams one after the other.                   *)
NotYet == pc \in {"list", "watch"} => \A w \in Watches : w >= next => stage[gen][w] = "none"

Reports(g) == g \in full \/ g \in cancelled \/ \E w \in Watches : stage[g][w] \in {"fired", "done"}

Caused ==
  ~parent =>
    /\ gen <= revision + failures + 1
    /\ \A w \in Watches :
         stage[gen][w] = "open" \/ (pc = "watch" /\ next = w) => gen <= from[gen][w] + failures + 1
    /\ Reports(gen) \/ pc = "backoff" => gen <= revision + failures

(* Every generation that Run has left, or is to leave, with its streams    *)
(* open has cost a failure of its own.                                     *)
Left == {g \in 1..gen : g \notin cancelled /\ (g < gen \/ pc = "backoff")}

Accounted ==
  /\ full \subseteq cancelled /\ (parent => cancelled = Generations)
  /\ Cardinality(Left) <= failures

FInv == LastIssued /\ NotYet /\ Caused /\ Accounted

LEMMA LeftFinite ==
  ASSUME TypeOK
  PROVE  IsFiniteSet(Left) /\ Cardinality(Left) \in Nat
<1>1. gen \in Int /\ 1 \in Int
  BY DEF TypeOK, Generations
<1>2. IsFiniteSet(1..gen) /\ Left \subseteq 1..gen
  BY <1>1, FS_Interval DEF Left
<1> QED
  BY <1>2, FS_Subset, FS_CardinalityType

LEMMA InitFInv == Init => FInv
<1> SUFFICES ASSUME Init PROVE FInv
  OBVIOUS
<1>1. 1 \in Generations /\ Watches \subseteq Int
  BY WatchLoopAssumption DEF Generations, MaxGen, Watches
<1>2. LastIssued /\ NotYet /\ Caused
  BY <1>1 DEF Init, LastIssued, NotYet, Caused, Reports
<1>3. Left = {}
  BY DEF Init, Left
<1> QED
  BY <1>2, <1>3, FS_EmptySet DEF Init, FInv, Accounted

LEMMA StepLastIssued == IInv /\ LastIssued /\ [Next]_vars => LastIssued'
<1> SUFFICES ASSUME IInv, LastIssued, [Next]_vars PROVE LastIssued'
  OBVIOUS
<1>1. ASSUME NEW w \in Watches, Change(w) PROVE LastIssued'
  BY <1>1 DEF IInv, TypeOK, LastIssued, Change
<1>2. CASE UNCHANGED <<last, revision>>
  BY <1>2 DEF LastIssued
<1> QED
  BY <1>1, <1>2 DEF Next, RunStep, Forwarder, Stop, ListResource, OpenStream, WatchFails, ReadResource, ReconcileDone,
     ReconcileFails, Wake, Retry, Return, Fire, Forward, GiveUp, Fails, vars, envVars

LEMMA StepNotYet == IInv /\ NotYet /\ [Next]_vars => NotYet'
<1> SUFFICES ASSUME IInv, NotYet, [Next]_vars PROVE NotYet'
  OBVIOUS
<1>1. /\ gen \in Generations /\ Generations \subseteq Int /\ Watches \subseteq Int /\ next \in Int
      /\ stage \in [Generations -> [Watches -> Stage]]
  BY DEF IInv, TypeOK, Generations, Watches
<1>2. CASE OpenStream
  BY <1>1, <1>2 DEF OpenStream, NotYet
<1>3. CASE Wake \/ Retry
  <2>1. gen' = gen + 1 /\ gen' \in Generations /\ stage' = stage
    <3>1. gen < MaxGen /\ gen' = gen + 1 /\ stage' = stage
      BY <1>3 DEF Wake, Retry, NextGeneration, fwdVars
    <3> QED
      BY <1>1, <3>1, WatchLoopAssumption DEF Generations, MaxGen
  <2>2. Unborn(gen')
    BY <1>1, <2>1 DEF IInv
  <2> QED
    BY <2>1, <2>2 DEF Unborn, NotYet
<1>4. ASSUME NEW g \in Generations, NEW w \in Watches, Forwarder(g, w) PROVE NotYet'
  <2>1. UNCHANGED <<pc, next, gen>> /\ stage[g][w] # "none"
    BY <1>4 DEF Forwarder, Fire, Forward, GiveUp, runVars
  <2>2. \A v \in Watches : stage[gen][v] = "none" => stage'[gen][v] = "none"
    BY <1>1, <1>4, <2>1 DEF Forwarder, Fire, Forward, GiveUp
  <2> QED
    BY <2>1, <2>2 DEF NotYet
<1>5. ASSUME pc' \notin {"list", "watch"} PROVE NotYet'
  BY <1>5 DEF NotYet
<1>6. CASE Stop \/ (\E w \in Watches : Change(w)) \/ ListResource \/ UNCHANGED vars
  <2>1. UNCHANGED <<next, gen, stage>> /\ (pc' \in {"list", "watch"} => pc \in {"list", "watch"})
    BY <1>6 DEF Stop, Change, ListResource, vars, runVars, fwdVars
  <2> QED
    BY <2>1 DEF NotYet
<1>7. CASE WatchFails \/ ReadResource \/ ReconcileDone \/ ReconcileFails \/ Return
  BY <1>7, <1>5 DEF WatchFails, ReadResource, ReconcileDone, ReconcileFails, Return
<1> QED
  BY <1>2, <1>3, <1>4, <1>6, <1>7 DEF Next, RunStep

(* A generation that has no cause is one the parent context has ended.     *)
LEMMA StepCaused == IInv /\ FInv /\ [Next]_vars => Caused'
<1> SUFFICES ASSUME IInv, FInv, [Next]_vars, ~parent' PROVE Caused'
  BY DEF Caused
<1>1. /\ ~parent /\ gen \in Int /\ revision \in Int /\ failures \in Int /\ 0 <= revision /\ 0 <= failures
      /\ gen \in Generations /\ Generations \subseteq Int /\ Watches \subseteq Int /\ next \in Int
      /\ from \in [Generations -> [Watches -> 0..MaxRevision]] /\ stage \in [Generations -> [Watches -> Stage]]
  <2>1. ~parent
    BY DEF Next, RunStep, Forwarder, Stop, Change, ListResource, OpenStream, WatchFails, ReadResource, ReconcileDone,
       ReconcileFails, Wake, Retry, Return, Fire, Forward, GiveUp, Fails, vars, envVars
  <2> QED
    BY <2>1, WatchLoopAssumption DEF IInv, TypeOK, Generations, Watches
<1>2. /\ gen <= revision + failures + 1
      /\ \A w \in Watches : stage[gen][w] = "open" \/ (pc = "watch" /\ next = w) => gen <= from[gen][w] + failures + 1
      /\ Reports(gen) \/ pc = "backoff" => gen <= revision + failures
  BY <1>1 DEF FInv, Caused
<1>3. \A w \in Watches : from[gen][w] \in Int
  BY <1>1
<1>4. ASSUME NEW w \in Watches, Change(w) PROVE Caused'
  BY <1>1, <1>2, <1>3, <1>4 DEF Change, Caused, Reports, runVars, fwdVars
<1>5. CASE ListResource
  <2>1. /\ revision' = revision /\ failures' = failures /\ gen' = gen /\ next' = next /\ pc = "list" /\ pc' = "watch"
        /\ UNCHANGED <<cancelled, stage, full>>
    BY <1>5 DEF ListResource, envVars
  <2>2. next \in Watches /\ from'[gen][next] = revision /\ \A w \in Watches : w # next => from'[gen][w] = from[gen][w]
    BY <1>1, <1>5 DEF ListResource, IInv, Opening
  <2>3. ~Reports(gen)'  \/ gen <= revision + failures
    BY <1>2, <2>1 DEF Reports
  <2> QED
    BY <1>1, <1>2, <1>3, <2>1, <2>2, <2>3 DEF Caused
<1>6. CASE OpenStream
  <2>1. /\ UNCHANGED <<revision, failures, gen, cancelled, from, full>> /\ pc = "watch" /\ pc' \in {"list", "reconcile"}
    BY <1>6 DEF OpenStream, envVars
  <2>2. next \in Watches /\ stage'[gen][next] = "open" /\ \A w \in Watches : w # next => stage'[gen][w] = stage[gen][w]
    BY <1>1, <1>6 DEF OpenStream, IInv, Opening
  <2>3. ~Reports(gen)' \/ gen <= revision + failures
    BY <1>2, <2>1, <2>2 DEF Reports
  <2> QED
    BY <1>1, <1>2, <1>3, <2>1, <2>2, <2>3 DEF Caused
<1>7. CASE WatchFails
  <2>1. /\ UNCHANGED <<revision, gen, stage, full>> /\ pc' = "backoff" /\ next \in Watches
        /\ (gen \in cancelled /\ failures' = failures) \/ failures' = failures + 1
    BY <1>7 DEF WatchFails, Fails, IInv, Opening
  <2>2. gen <= revision + failures'
    BY <1>1, <1>2, <2>1 DEF Reports
  <2>3. \A w \in Watches : stage'[gen][w] = "open" => from'[gen][w] = from[gen][w]
    <3>1. stage[gen][next] = "none"
      BY <1>1, <1>7, <2>1 DEF FInv, NotYet, WatchFails
    <3> QED
      BY <1>1, <1>7, <3>1 DEF WatchFails
  <2>4. failures <= failures'
    BY <1>1, <2>1
  <2> QED
    BY <1>1, <1>2, <1>3, <2>1, <2>2, <2>3, <2>4 DEF Caused
<1>8. CASE ReadResource \/ ReconcileDone \/ Return \/ UNCHANGED vars
  BY <1>1, <1>2, <1>8 DEF ReadResource, ReconcileDone, Return, Caused, Reports, vars, envVars, runVars, fwdVars
<1>9. CASE ReconcileFails
  BY <1>1, <1>2, <1>3, <1>9 DEF ReconcileFails, Fails, Caused, Reports, fwdVars
<1>10. CASE Wake \/ Retry
  <2>1. /\ UNCHANGED <<revision, failures, from, stage, cancelled>> /\ gen' = gen + 1 /\ gen' \in Generations
        /\ pc' = "list" /\ full' \subseteq full
    <3>1. gen < MaxGen /\ gen' = gen + 1 /\ pc' = "list" /\ full' \subseteq full
      BY <1>10 DEF Wake, Retry, NextGeneration, fwdVars
    <3>2. UNCHANGED <<revision, failures, from, stage, cancelled>>
      BY <1>10 DEF Wake, Retry, envVars, fwdVars
    <3> QED
      BY <1>1, <3>1, <3>2, WatchLoopAssumption DEF Generations, MaxGen
  <2>2. gen <= revision + failures
    BY <1>2, <1>10 DEF Wake, Retry, Reports
  <2>3. Unborn(gen')
    BY <1>1, <2>1 DEF IInv
  <2>4. ~Reports(gen)' /\ \A w \in Watches : stage'[gen'][w] = "none"
    BY <1>1, <2>1, <2>3 DEF Unborn, Reports
  <2> QED
    BY <1>1, <2>1, <2>2, <2>4 DEF Caused
<1>11. ASSUME NEW g \in Generations, NEW w \in Watches, Forwarder(g, w) PROVE Caused'
  <2>1. UNCHANGED <<revision, gen, pc, next, parent>>
    BY <1>11 DEF Forwarder, Fire, Forward, GiveUp, Fails, envVars, runVars
  <2>2. CASE Fire(g, w)
    <3>1. failures' \in Int /\ failures <= failures'
      BY <1>1, <2>2 DEF Fire, Fails, envVars
    <3>2. /\ gen <= revision + failures => gen <= revision + failures'
          /\ gen <= revision + failures + 1 => gen <= revision + failures' + 1
          /\ \A v \in Watches : gen <= from[gen][v] + failures + 1 => gen <= from[gen][v] + failures' + 1
      <4>1. ASSUME NEW v \in Watches, gen <= from[gen][v] + failures + 1 PROVE gen <= from[gen][v] + failures' + 1
        <5>1. from[gen][v] \in Int
          BY <1>3
        <5> QED
          BY <1>1, <3>1, <4>1, <5>1
      <4>2. gen \in Int /\ revision \in Int /\ failures \in Int
        BY <1>1
      <4>3. \A a, b, c, d \in Int : c <= d /\ a <= b + c => a <= b + d
        OBVIOUS
      <4>4. gen <= revision + failures => gen <= revision + failures'
        BY <3>1, <4>2, <4>3
      <4>5. gen <= revision + failures + 1 => gen <= revision + failures' + 1
        <5>1. revision + failures + 1 = (revision + 1) + failures /\ revision + failures' + 1 = (revision + 1) + failures'
          BY <3>1, <4>2
        <5>2. revision + 1 \in Int
          BY <4>2
        <5> QED
          BY <3>1, <4>2, <4>3, <5>1, <5>2
      <4> QED
        BY <4>1, <4>4, <4>5
    <3>3. /\ \A v \in Watches : stage'[gen][v] = "open" => stage[gen][v] = "open"
          /\ \A v \in Watches : (gen = g /\ v = w) \/ from'[gen][v] = from[gen][v]
          /\ stage[g][w] = "open" /\ stage'[g][w] = "fired"
      BY <1>1, <2>2 DEF Fire
    <3>4. pc = "watch" /\ gen = g => next # w
      BY <1>1, <3>3 DEF FInv, NotYet
    <3>5. Reports(gen)' => gen <= revision + failures'
      <4>1. CASE g # gen
        <5>1. Reports(gen)' => Reports(gen)
          BY <1>1, <2>1, <2>2, <4>1 DEF Fire, Reports
        <5> QED
          BY <1>2, <3>2, <5>1
      <4>2. CASE g = gen /\ EventDue(g, w)
        <5>1. last[w] <= revision /\ last[w] \in Int /\ from[gen][w] < last[w]
          BY <4>2 DEF FInv, LastIssued, EventDue, IInv, TypeOK
        <5> QED
          <6>1. gen <= from[gen][w] + failures + 1
            BY <1>2, <3>3, <4>2
          <6>2. from[gen][w] + failures + 1 <= revision + failures
            BY <1>1, <1>3, <5>1
          <6>3. gen <= revision + failures
            BY <1>1, <1>3, <6>1, <6>2
          <6> QED
            BY <3>2, <6>3
      <4>3. CASE g = gen /\ gen \in cancelled
        BY <1>2, <3>2, <4>3 DEF Reports
      <4>4. CASE g = gen /\ failures' = failures + 1
        <5>1. gen <= revision + failures + 1
          BY <1>2
        <5> QED
          BY <1>1, <4>4, <5>1
      <4> QED
        BY <2>2, <4>1, <4>2, <4>3, <4>4 DEF Fire, Fails
    <3>6. pc = "backoff" => gen <= revision + failures'
      BY <1>2, <3>2
    <3>7. ASSUME NEW v \in Watches, stage'[gen][v] = "open" \/ (pc = "watch" /\ next = v)
          PROVE  gen <= from'[gen][v] + failures' + 1
      <4>1. from'[gen][v] = from[gen][v]
        BY <3>3, <3>4, <3>7
      <4>2. gen <= from[gen][v] + failures + 1
        BY <1>2, <3>3, <3>7
      <4> QED
        BY <3>2, <4>1, <4>2
    <3>8. gen <= revision + failures' + 1
      BY <1>2, <3>2
    <3> QED
      BY <2>1, <3>5, <3>6, <3>7, <3>8 DEF Caused
  <2>3. CASE Forward(g, w) \/ GiveUp(g, w)
    <3>1. UNCHANGED <<failures, from>> /\ stage[g][w] = "fired"
      BY <2>3 DEF Forward, GiveUp, envVars
    <3>2. \A v \in Watches : stage'[gen][v] = "open" => stage[gen][v] = "open"
      BY <1>1, <2>3 DEF Forward, GiveUp
    <3>3. Reports(gen)' => Reports(gen)
      <4>1. CASE g = gen
        BY <3>1, <4>1 DEF Reports
      <4>2. CASE g # gen
        BY <1>1, <2>1, <2>3, <4>2 DEF Forward, GiveUp, Reports
      <4> QED
        BY <4>1, <4>2
    <3> QED
      BY <1>1, <1>2, <2>1, <3>1, <3>2, <3>3 DEF Caused
  <2> QED
    BY <1>11, <2>2, <2>3 DEF Forwarder
<1>12. ~Stop
  BY DEF Stop
<1> QED
  BY <1>4, <1>5, <1>6, <1>7, <1>8, <1>9, <1>10, <1>11, <1>12 DEF Next, RunStep

LEMMA StepAccounted == IInv /\ FInv /\ [Next]_vars => Accounted'
<1> SUFFICES ASSUME IInv, FInv, [Next]_vars PROVE Accounted'
  OBVIOUS
<1>1. /\ full \subseteq cancelled /\ (parent => cancelled = Generations) /\ Cardinality(Left) <= failures
      /\ gen \in Generations /\ cancelled \subseteq Generations
  BY DEF FInv, Accounted, IInv, TypeOK
<1>2. /\ gen \in Int /\ failures \in Int /\ 1 \in Int /\ Generations = 1..MaxGen /\ MaxGen \in Int
  BY <1>1, WatchLoopAssumption DEF IInv, TypeOK, Generations, MaxGen
<1>3. IsFiniteSet(Left) /\ Cardinality(Left) \in Nat
  BY LeftFinite DEF IInv
<1>4. ASSUME Left' \subseteq Left, failures' \in Int, failures <= failures' PROVE Cardinality(Left)' <= failures'
  <2>1. Cardinality(Left') <= Cardinality(Left) /\ IsFiniteSet(Left')
    BY <1>3, <1>4, FS_Subset
  <2>2. Cardinality(Left') \in Nat
    BY <2>1, FS_CardinalityType
  <2> QED
    BY <1>1, <1>2, <1>3, <1>4, <2>1, <2>2
<1>5. ASSUME Left' \subseteq Left \cup {gen}, failures' = failures + 1 PROVE Cardinality(Left)' <= failures'
  <2>1. IsFiniteSet(Left \cup {gen}) /\ Cardinality(Left \cup {gen}) <= Cardinality(Left) + 1
    <3> DEFINE L == Left
    <3> HIDE DEF L
    <3>1. IsFiniteSet(L) /\ Cardinality(L) \in Nat
      BY <1>3 DEF L
    <3>2. /\ IsFiniteSet(L \cup {gen})
          /\ Cardinality(L \cup {gen}) = IF gen \in L THEN Cardinality(L) ELSE Cardinality(L) + 1
      BY <3>1, FS_AddElement
    <3>3. IsFiniteSet(L \cup {gen}) /\ Cardinality(L \cup {gen}) <= Cardinality(L) + 1
      BY <3>1, <3>2
    <3> QED
      BY <3>3 DEF L
  <2>2. Cardinality(Left') <= Cardinality(Left \cup {gen}) /\ IsFiniteSet(Left')
    BY <1>5, <2>1, FS_Subset
  <2>3. Cardinality(Left') \in Nat /\ Cardinality(Left \cup {gen}) \in Nat
    BY <2>1, <2>2, FS_CardinalityType
  <2> QED
    BY <1>1, <1>2, <1>3, <1>5, <2>1, <2>2, <2>3
<1>6. ASSUME cancelled' = Generations, gen' \in Generations PROVE Left' \subseteq Left
  BY <1>2, <1>6 DEF Left
<1>7. full' \subseteq cancelled' /\ cancelled \subseteq cancelled' /\ (parent' => cancelled' = Generations)
  <2>1. CASE Stop
    BY <1>1, <2>1 DEF Stop
  <2>2. CASE Wake
    BY <1>1, <2>2 DEF Wake, envVars
  <2>3. CASE WatchFails
    BY <1>1, <2>3 DEF WatchFails, Fails
  <2>4. ASSUME NEW g \in Generations, NEW w \in Watches, Forwarder(g, w)
        PROVE  full' \subseteq cancelled' /\ cancelled \subseteq cancelled' /\ (parent' => cancelled' = Generations)
    BY <1>1, <2>4 DEF Forwarder, Fire, Forward, GiveUp, Fails, envVars
  <2>5. CASE UNCHANGED <<full, cancelled, parent>>
    BY <1>1, <2>5
  <2> QED
    BY <2>1, <2>2, <2>3, <2>4, <2>5 DEF Next, RunStep, Change, ListResource, OpenStream, ReadResource, ReconcileDone,
       ReconcileFails, Retry, Return, Fails, vars, envVars, fwdVars
<1>8. CASE \/ Stop \/ UNCHANGED vars \/ \E w \in Watches : Change(w)
           \/ ListResource \/ OpenStream \/ ReadResource \/ ReconcileDone
  <2>1. failures' = failures /\ gen' = gen /\ (pc' = "backoff" <=> pc = "backoff")
    BY <1>8 DEF Stop, Change, ListResource, OpenStream, ReadResource, ReconcileDone, vars, envVars, runVars
  <2> QED
    BY <1>2, <1>4, <1>7, <2>1 DEF Left, Accounted
<1>9. ASSUME NEW g \in Generations, NEW w \in Watches, Forwarder(g, w) PROVE Accounted'
  <2>1. failures' \in Int /\ failures <= failures' /\ gen' = gen /\ pc' = pc
    BY <1>2, <1>9 DEF Forwarder, Fire, Forward, GiveUp, Fails, envVars, runVars
  <2> QED
    BY <1>4, <1>7, <2>1 DEF Left, Accounted
<1>10. CASE WatchFails
  <2>1. failures' \in Int /\ failures <= failures' /\ gen' = gen /\ gen \in cancelled'
    BY <1>2, <1>10 DEF WatchFails, Fails
  <2>2. Left' \subseteq Left
    BY <1>2, <1>7, <2>1 DEF Left
  <2> QED
    BY <1>4, <1>7, <2>1, <2>2 DEF Accounted
<1>11. CASE ReconcileFails
  <2>1. gen' = gen /\ (failures' = failures + 1 \/ (parent' /\ failures' = failures))
    BY <1>11 DEF ReconcileFails, Fails
  <2>2. Left' \subseteq Left \cup {gen}
    BY <1>2, <1>7, <2>1 DEF Left
  <2> QED
    BY <1>1, <1>2, <1>4, <1>5, <1>6, <1>7, <2>1, <2>2 DEF Accounted
<1>12. CASE Wake \/ Retry
  <2>1. gen' = gen + 1 /\ UNCHANGED failures /\ pc' = "list" /\ (pc = "backoff" \/ gen \in cancelled)
    BY <1>1, <1>12 DEF Wake, Retry, NextGeneration, envVars
  <2>2. Left' \subseteq Left
    BY <1>2, <1>7, <2>1 DEF Left
  <2> QED
    BY <1>2, <1>4, <1>7, <2>1, <2>2 DEF Accounted
<1>13. CASE Return
  <2>1. UNCHANGED <<failures, gen>> /\ parent'
    BY <1>13 DEF Return, envVars
  <2> QED
    BY <1>1, <1>2, <1>4, <1>6, <1>7, <2>1 DEF Accounted
<1> QED
  BY <1>8, <1>9, <1>10, <1>11, <1>12, <1>13 DEF Next, RunStep

LEMMA FrugalInvariance == Spec => [](IInv /\ FInv)
<1>1. IInv /\ FInv /\ [Next]_vars => FInv'
  BY StepLastIssued, StepNotYet, StepCaused, StepAccounted DEF FInv
<1> QED
  BY <1>1, InitIInv, InitFInv, StepIInv, PTL DEF Spec

(* The loop makes no work of its own, whatever the number of watches: no   *)
(* generation without a change or a failure that caused it, and one with   *)
(* open streams that Run has left only for a failure of its Reconcile.     *)
THEOREM NoIdleWork == Spec => []Frugal
<1>1. IInv /\ FInv => Frugal
  <2> SUFFICES ASSUME IInv, FInv PROVE Frugal
    OBVIOUS
  <2> DEFINE left == {g \in 1..(gen - 1) : g \notin cancelled}
  <2>1. gen \in Int /\ failures \in Int
    BY DEF IInv, TypeOK, Generations
  <2>2. left \subseteq Left
    BY <2>1 DEF Left
  <2>3. IsFiniteSet(Left) /\ Cardinality(Left) \in Nat /\ Cardinality(Left) <= failures
    BY LeftFinite DEF IInv, FInv, Accounted
  <2>4. IsFiniteSet(left) /\ Cardinality(left) <= Cardinality(Left)
    BY <2>2, <2>3, FS_Subset
  <2>5. Cardinality(left) \in Nat
    BY <2>4, FS_CardinalityType
  <2>6. Cardinality(left) <= failures
    BY <2>1, <2>3, <2>4, <2>5
  <2> QED
    BY <2>6 DEF FInv, Caused, Frugal
<1> QED
  BY <1>1, FrugalInvariance, PTL

(* The bound on the generations never bites: when Run wakes or tries again *)
(* there is a generation left, so the model leaves out no turn that the    *)
(* code would take.                                                        *)
GenerationLeft == ~parent /\ (pc = "backoff" \/ (pc = "wait" /\ gen \in full)) => gen < MaxGen

Bounded == revision + failures <= MaxDisturbances

LEMMA StepBounded == IInv /\ Bounded /\ [Next]_vars => Bounded'
<1> SUFFICES ASSUME IInv, Bounded, [Next]_vars PROVE Bounded'
  OBVIOUS
<1>1. revision \in Int /\ failures \in Int /\ MaxDisturbances \in Int
  BY WatchLoopAssumption DEF IInv, TypeOK
<1>2. \/ UNCHANGED <<revision, failures>>
      \/ /\ revision + failures < MaxDisturbances
         /\ \/ revision' = revision + 1 /\ failures' = failures
            \/ revision' = revision /\ failures' = failures + 1
  BY DEF Next, RunStep, Forwarder, Stop, Change, ListResource, OpenStream, WatchFails, ReadResource, ReconcileDone,
     ReconcileFails, Wake, Retry, Return, Fire, Forward, GiveUp, Fails, vars, envVars
<1> QED
  BY <1>1, <1>2 DEF Bounded

(* However long the changes and failures are allowed to go on, they use up *)
(* the generations no faster than the bound provides them: a further turn  *)
(* that Run wants to take is never refused by the bound.                   *)
THEOREM EnoughGenerations == Spec => []GenerationLeft
<1>1. Init => Bounded
  BY WatchLoopAssumption DEF Init, Bounded
<1>2. Spec => []Bounded
  BY <1>1, StepBounded, Invariance, PTL DEF Spec
<1>3. IInv /\ FInv /\ Bounded => GenerationLeft
  <2> SUFFICES ASSUME IInv, FInv, Bounded, ~parent, pc = "backoff" \/ gen \in full PROVE gen < MaxGen
    BY DEF GenerationLeft
  <2>1. gen \in Int /\ revision \in Int /\ failures \in Int /\ MaxDisturbances \in Int
    BY WatchLoopAssumption DEF IInv, TypeOK, Generations
  <2>2. gen <= revision + failures
    BY DEF FInv, Caused, Reports
  <2> QED
    BY <2>1, <2>2 DEF Bounded, MaxGen
<1> QED
  BY <1>2, <1>3, FrugalInvariance, PTL

-----------------------------------------------------------------------------
(* That the loop keeps the promise of ReconcileLoop.                       *)

SeenIssued == \A w \in Watches : seen[w] <= revision

LEMMA StepSeenIssued == IInv /\ SeenIssued /\ [Next]_vars => SeenIssued'
<1> SUFFICES ASSUME IInv, SeenIssued, [Next]_vars PROVE SeenIssued'
  OBVIOUS
<1>1. revision \in Int /\ seen \in [Watches -> 0..MaxRevision]
  BY DEF IInv, TypeOK
<1>2. CASE UNCHANGED seen /\ (revision' = revision \/ revision' = revision + 1)
  BY <1>1, <1>2 DEF SeenIssued
<1>3. CASE ReadResource
  BY <1>1, <1>3 DEF ReadResource, SeenIssued, envVars
<1> QED
  BY <1>2, <1>3 DEF Next, RunStep, Forwarder, Stop, Change, ListResource, OpenStream, WatchFails, ReconcileDone,
     ReconcileFails, Wake, Retry, Return, Fire, Forward, GiveUp, Fails, vars, envVars, runVars

LEMMA InitRefines == Init => Promise!Init
<1> SUFFICES ASSUME Init PROVE Promise!Init
  OBVIOUS
<1>1. TurnBar = "rest" /\ ToReadBar = {}
  BY DEF Init, TurnBar, ToReadBar
<1>2. WokenBar = TRUE
  BY DEF Init, WokenBar
<1>3. UnreadBar = {}
  BY DEF Init, UnreadBar
<1> QED
  BY <1>1, <1>2, <1>3 DEF Promise!Init

(* After the end nothing is promised.                                      *)
LEMMA EndRefines ==
  ASSUME parent'
  PROVE  Promise!Next
<1>1. TurnBar' = "over" /\ WokenBar' = FALSE /\ UnreadBar' = {} /\ ToReadBar' = {}
  BY DEF TurnBar, WokenBar, UnreadBar, ToReadBar
<1> QED
  BY <1>1 DEF Promise!Next, Promise!End

(* A change of any resource makes the next turn due.                       *)
LEMMA ChangeRefines ==
  ASSUME IInv, SeenIssued, ~parent, NEW w \in Watches, Change(w)
  PROVE  Promise!Change(w)
<1>1. /\ ~parent' /\ UNCHANGED <<pc, next, gen, seen, stage, from, full, cancelled>>
      /\ revision' = revision + 1
      /\ last' = [last EXCEPT ![w] = revision + 1]
  BY DEF Change, runVars, fwdVars
<1>2. /\ revision \in Int /\ gen \in Generations
      /\ last \in [Watches -> 0..MaxRevision] /\ seen \in [Watches -> 0..MaxRevision]
      /\ stage[gen][w] \in Stage /\ from[gen][w] \in Int
  BY DEF IInv, TypeOK
<1>3. TurnBar # "over" /\ UNCHANGED <<TurnBar, ToReadBar>>
  BY <1>1 DEF TurnBar, ToReadBar
<1>4. seen[w] <= revision /\ from[gen][w] <= revision
  BY <1>2 DEF SeenIssued, IInv, FromIssued
<1>5. UnreadBar' = UnreadBar \cup {w}
  BY <1>1, <1>2, <1>4 DEF UnreadBar
<1>6. ASSUME pc \in {"reconcile", "wait"} PROVE Pending(gen, w)'
  <2>1. stage[gen][w] # "none"
    BY <1>6 DEF IInv, Reading, Asleep, Covered
  <2>2. gen \in full \/ stage[gen][w] \in {"open", "fired"}
    BY <1>2, <1>6, <2>1 DEF IInv, Reported, Listening, Stage
  <2>3. last'[w] > from[gen][w]
    BY <1>1, <1>2, <1>4
  <2> QED
    BY <1>1, <2>2, <2>3 DEF Pending, EventDue
<1>7. WokenBar' = TRUE
  BY <1>1, <1>6 DEF WokenBar
<1> QED
  BY <1>3, <1>5, <1>7 DEF Promise!Change

(* A step of Run outside its Reconcile and its sleep is none of the        *)
(* component's.                                                            *)
LEMMA RestRefines ==
  ASSUME ~parent, UNCHANGED <<parent, last, seen>>, WokenBar, WokenBar',
         pc # "reconcile", pc' # "reconcile"
  PROVE  UNCHANGED Promise!loopVars
<1>1. UNCHANGED TurnBar /\ UNCHANGED ToReadBar /\ UNCHANGED UnreadBar
  BY DEF TurnBar, ToReadBar, UnreadBar
<1>2. UNCHANGED WokenBar
  BY DEF WokenBar
<1> QED
  BY <1>1, <1>2 DEF Promise!loopVars

LEMMA RunRefines ==
  ASSUME IInv, FInv, ~parent, ~parent', RunStep
  PROVE  Promise!Next \/ UNCHANGED Promise!loopVars
<1>1. /\ next \in Int /\ NumWatches \in Nat \ {0} /\ Watches = 1..NumWatches
      /\ revision \in Int /\ last \in [Watches -> 0..MaxRevision] /\ seen \in [Watches -> 0..MaxRevision]
  BY WatchLoopAssumption DEF IInv, TypeOK, Watches
<1>2. UNCHANGED parent
  BY DEF RunStep, ListResource, OpenStream, WatchFails, ReadResource, ReconcileDone, ReconcileFails, Wake, Retry, Return,
     Fails, envVars
<1>3. CASE ListResource \/ WatchFails \/ Retry
  <2>1. UNCHANGED <<last, seen>>
    BY <1>3 DEF ListResource, WatchFails, Fails, Retry, envVars
  <2>2. pc \in {"list", "watch", "backoff"} /\ pc' \in {"list", "watch", "backoff"}
    BY <1>3 DEF ListResource, WatchFails, Retry, NextGeneration
  <2> QED
    BY <1>2, <2>1, <2>2, RestRefines DEF WokenBar
<1>4. CASE Wake
  <2>1. UNCHANGED <<last, seen>> /\ pc = "wait" /\ pc' = "list" /\ gen \in full
    BY <1>4 DEF Wake, NextGeneration, envVars
  <2>2. Pending(gen, 1) /\ 1 \in Watches
    BY <1>1, <2>1 DEF Pending
  <2>3. WokenBar /\ WokenBar'
    BY <2>1, <2>2 DEF WokenBar
  <2> QED
    BY <1>2, <2>1, <2>3, RestRefines
<1>5. CASE OpenStream
  <2>1. UNCHANGED <<last, seen>> /\ pc = "watch"
    BY <1>5 DEF OpenStream, envVars
  <2>2. CASE next < NumWatches
    BY <1>2, <1>5, <2>1, <2>2, RestRefines DEF OpenStream, WokenBar
  <2>3. CASE ~(next < NumWatches)
    <3>1. pc' = "reconcile" /\ next' = 1
      BY <1>5, <2>3 DEF OpenStream
    <3>2. TurnBar = "rest" /\ TurnBar' = "work" /\ WokenBar
      BY <2>1, <3>1 DEF TurnBar, WokenBar
    <3>3. ToReadBar' = Watches
      BY <1>1, <3>1 DEF ToReadBar
    <3>4. WokenBar' \in BOOLEAN
      BY DEF WokenBar
    <3>5. UNCHANGED UnreadBar
      BY <1>2, <2>1 DEF UnreadBar
    <3> QED
      BY <3>2, <3>3, <3>4, <3>5 DEF Promise!Next, Promise!Begin
  <2> QED
    BY <2>2, <2>3
<1>6. CASE ReadResource
  <2>1. /\ pc = "reconcile" /\ next \in Watches /\ next' = next + 1 /\ seen' = [seen EXCEPT ![next] = revision]
        /\ UNCHANGED <<pc, gen, last, stage, from, full>>
    BY <1>1, <1>6 DEF ReadResource, envVars, fwdVars, IInv, TypeOK
  <2>2. last[next] <= revision
    BY <2>1 DEF FInv, LastIssued
  <2>3. UnreadBar' = UnreadBar \ {next}
    BY <1>1, <2>1, <2>2 DEF UnreadBar
  <2>4. ToReadBar' = ToReadBar \ {next}
    BY <1>1, <2>1 DEF ToReadBar
  <2>5. TurnBar = "work" /\ UNCHANGED TurnBar
    BY <2>1 DEF TurnBar
  <2>6. UNCHANGED WokenBar
    BY <2>1 DEF WokenBar, Pending, EventDue
  <2> QED
    BY <2>1, <2>3, <2>4, <2>5, <2>6 DEF Promise!Next, Promise!Read
<1>7. CASE ReconcileDone
  <2>1. /\ pc = "reconcile" /\ pc' = "wait" /\ next > NumWatches
        /\ UNCHANGED <<next, gen, seen, last, stage, from, full>>
    BY <1>7 DEF ReconcileDone, envVars, fwdVars
  <2>2. TurnBar = "work" /\ TurnBar' = "rest" /\ UNCHANGED UnreadBar
    BY <2>1 DEF TurnBar, UnreadBar
  <2>3. ToReadBar = {} /\ ToReadBar' = {}
    BY <1>1, <2>1 DEF ToReadBar
  <2>4. UNCHANGED WokenBar
    BY <2>1 DEF WokenBar, Pending, EventDue
  <2> QED
    BY <2>2, <2>3, <2>4 DEF Promise!Next, Promise!Succeed
<1>8. CASE ReconcileFails
  <2>1. pc = "reconcile" /\ pc' = "backoff" /\ UNCHANGED <<last, seen>>
    BY <1>8 DEF ReconcileFails, Fails
  <2>2. TurnBar = "work" /\ TurnBar' = "rest" /\ UNCHANGED UnreadBar /\ ToReadBar' = {}
    BY <2>1 DEF TurnBar, UnreadBar, ToReadBar
  <2>3. WokenBar' = TRUE
    BY <2>1 DEF WokenBar
  <2> QED
    BY <2>2, <2>3 DEF Promise!Next, Promise!Fail
<1>9. ~Return
  BY DEF Return
<1> QED
  BY <1>3, <1>4, <1>5, <1>6, <1>7, <1>8, <1>9 DEF RunStep

LEMMA ForwarderRefines ==
  ASSUME IInv, ~parent, ~parent', NEW g \in Generations, NEW w \in Watches, Forwarder(g, w)
  PROVE  Promise!Next \/ UNCHANGED Promise!loopVars
<1>1. UNCHANGED <<parent, last, pc, next, gen, seen>>
  BY DEF Forwarder, Fire, Forward, GiveUp, Fails, envVars, runVars
<1>2. UNCHANGED <<TurnBar, UnreadBar, ToReadBar>> /\ TurnBar # "over"
  BY <1>1 DEF TurnBar, UnreadBar, ToReadBar
<1>3. CASE g = gen
  <2>1. stage \in [Generations -> [Watches -> Stage]]
    BY DEF IInv, TypeOK
  <2>2. ASSUME Fire(gen, w) PROVE WokenBar'
    <3>1. stage'[gen][w] = "fired"
      BY <1>3, <2>1, <2>2 DEF Fire
    <3> QED
      BY <1>1, <3>1 DEF WokenBar, Pending
  <2>3. ASSUME Forward(gen, w) PROVE WokenBar'
    BY <1>1, <2>3 DEF Forward, WokenBar, Pending
  <2>4. ASSUME GiveUp(gen, w) PROVE WokenBar'
    <3>1. Listening => gen \in full /\ gen \in full'
      BY <2>4 DEF GiveUp, IInv, Reported
    <3> QED
      BY <1>1, <3>1 DEF WokenBar, Pending, Listening
  <2>5. WokenBar' = TRUE
    BY <1>3, <2>2, <2>3, <2>4 DEF Forwarder, WokenBar
  <2> QED
    BY <1>2, <2>5 DEF Promise!Next, Promise!Disturb
<1>4. CASE g # gen
  <2>1. \A v \in Watches : UNCHANGED <<stage[gen][v], from[gen][v]>>
    <3>1. stage \in [Generations -> [Watches -> Stage]] /\ from \in [Generations -> [Watches -> 0..MaxRevision]]
      BY DEF IInv, TypeOK
    <3>2. stage'[gen] = stage[gen] /\ from'[gen] = from[gen]
      <4>1. CASE Fire(g, w)
        BY <1>4, <3>1, <4>1 DEF Fire
      <4>2. CASE Forward(g, w)
        BY <1>4, <3>1, <4>2 DEF Forward
      <4>3. CASE GiveUp(g, w)
        BY <1>4, <3>1, <4>3 DEF GiveUp
      <4> QED
        BY <4>1, <4>2, <4>3 DEF Forwarder
    <3> QED
      BY <1>1, <3>2
  <2>2. gen \in full' <=> gen \in full
    BY <1>4 DEF Forwarder, Fire, Forward, GiveUp
  <2>3. \A v \in Watches : Pending(gen, v)' <=> Pending(gen, v)
    BY <1>1, <2>1, <2>2 DEF Pending, EventDue
  <2>4. UNCHANGED WokenBar
    BY <1>1, <2>3 DEF WokenBar
  <2> QED
    BY <1>2, <2>4 DEF Promise!loopVars
<1> QED
  BY <1>3, <1>4

LEMMA StepRefines == IInv /\ FInv /\ SeenIssued /\ [Next]_vars => [Promise!Next]_Promise!loopVars
<1> SUFFICES ASSUME IInv, FInv, SeenIssued, [Next]_vars PROVE Promise!Next \/ UNCHANGED Promise!loopVars
  OBVIOUS
<1>1. CASE parent'
  BY <1>1, EndRefines
<1>2. CASE ~parent'
  <2>1. ~parent
    BY <1>2 DEF Next, RunStep, Forwarder, Stop, Change, ListResource, OpenStream, WatchFails, ReadResource, ReconcileDone,
       ReconcileFails, Wake, Retry, Return, Fire, Forward, GiveUp, Fails, vars, envVars
  <2>2. ASSUME NEW w \in Watches, Change(w) PROVE Promise!Next
    BY <2>1, <2>2, ChangeRefines DEF Promise!Next
  <2>3. CASE RunStep
    BY <1>2, <2>1, <2>3, RunRefines
  <2>4. ASSUME NEW g \in Generations, NEW w \in Watches, Forwarder(g, w)
        PROVE  Promise!Next \/ UNCHANGED Promise!loopVars
    BY <1>2, <2>1, <2>4, ForwarderRefines
  <2>5. CASE UNCHANGED vars
    BY <2>5 DEF vars, envVars, runVars, fwdVars, Promise!loopVars, TurnBar, WokenBar, UnreadBar, ToReadBar, Pending, EventDue
  <2>6. ~Stop
    BY <1>2 DEF Stop
  <2> QED
    BY <2>2, <2>3, <2>4, <2>5, <2>6 DEF Next
<1> QED
  BY <1>1, <1>2

(* api.Run keeps the promise of ReconcileLoop, for any number of watches:  *)
(* every turn reads everything anew, and the component never rests while a *)
(* resource has changed since it read it.                                  *)
THEOREM Implements == Spec => KeepsPromise
<1>1. Init => SeenIssued
  BY DEF Init, SeenIssued
<1>2. Spec => []SeenIssued
  BY <1>1, StepSeenIssued, Invariance, PTL DEF Spec
<1> QED
  BY <1>2, FrugalInvariance, InitRefines, StepRefines, PTL DEF Spec, KeepsPromise, Promise!Spec
=============================================================================
