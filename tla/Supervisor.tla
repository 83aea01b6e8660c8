----------------------------- MODULE Supervisor -----------------------------
(***************************************************************************)
(* The node supervisor: it starts its units one after another, waits until *)
(* one of them ends or it is told to, and then ends all of them. Beside it *)
(* run the units, and a goroutine per unit that waits for its process.     *)
(***************************************************************************)
EXTENDS Integers, FiniteSets

CONSTANTS
  NumUnits,    \* runtime, kubelet and, on a worker, kube-proxy
  WithPath     \* the units with a ReadyPath: the runtime

Units == 1..NumUnits

(* The kubelet, or kube-proxy, comes last and has no ReadyPath.            *)
ASSUME SupervisorAssumption ==
  NumUnits \in Nat \ {0} /\ WithPath \subseteq Units /\ NumUnits \notin WithPath

VARIABLES
  run,         \* where Run is, the length of its channel done, how many more
               \* ends waitForExit is to see, whether SIGTERM has come
  process,     \* [Units -> Process]: of a unit; "reaped": Wait has returned
  signal,      \* [Units -> Signal]: the last one sent to it
  paths        \* the units whose ReadyPath exists

supervisorVars == <<run, process, signal, paths>>

Process == {"none", "live", "dead", "reaped"}
Signal == {"none", "SIGTERM", "SIGKILL"}
RunState ==
  [pc : {"start", "ready", "wait", "exits", "returned"}, done : 0..NumUnits, count : 0..NumUnits, cancelled : BOOLEAN]
Procs == {u \in Units : process[u] # "none"}
Ended(u) == process[u] \in {"dead", "reaped"}

(* A socket of an earlier run may be there still.                          *)
SupervisorInit ==
  /\ run = [pc |-> "start", done |-> 0, count |-> 0, cancelled |-> FALSE]
  /\ process = [u \in Units |-> "none"] /\ signal = [u \in Units |-> "none"]
  /\ paths \in SUBSET WithPath

-----------------------------------------------------------------------------
At(pc) == run.pc = pc
Goto(pc) == run' = [run EXCEPT !.pc = pc]
Send(s) == signal' = [u \in Units |-> IF u \in Procs THEN s ELSE signal[u]]
Stop == Send("SIGTERM")

StartUnit(u) ==
  /\ At("start") /\ u \notin Procs /\ \A v \in Units : v < u => v \in Procs
  /\ process' = [process EXCEPT ![u] = "live"]
  /\ Goto(IF u \in WithPath THEN "ready" ELSE "start")
  /\ UNCHANGED <<signal, paths>>

(* startUnit fails, or waitForPath: the path of the unit that was started  *)
(* last is not there after five seconds, or when SIGTERM comes.            *)
Last(u) == u \in Procs /\ \A v \in Procs : v <= u

StartFails ==
  /\ (At("start") /\ Procs # Units) \/ (At("ready") /\ \E u \in Units \ paths : Last(u))
  /\ Stop /\ Goto("returned")
  /\ UNCHANGED <<process, paths>>

PathExists ==
  /\ At("ready") /\ \E u \in paths : Last(u)
  /\ Goto("start")
  /\ UNCHANGED <<process, signal, paths>>

(* The goroutines begin once all units have been started.                  *)
WaitForOne ==
  /\ At("start") /\ Procs = Units
  /\ Goto("wait")
  /\ UNCHANGED <<process, signal, paths>>

Report(u) ==
  /\ At("wait") \/ At("exits")
  /\ process[u] = "dead"
  /\ process' = [process EXCEPT ![u] = "reaped"]
  /\ run' = [run EXCEPT !.done = @ + 1]
  /\ UNCHANGED <<signal, paths>>

(* How many ends are still to be seen, all in all. Fault: one too few.     *)
AllButOne == Cardinality(Procs) - 1
All == Cardinality(Procs)

OnCancel ==
  /\ At("wait") /\ run.cancelled
  /\ Stop /\ run' = [run EXCEPT !.pc = "exits", !.count = All]
  /\ UNCHANGED <<process, paths>>

OnExit ==
  /\ At("wait") /\ run.done > 0
  /\ Stop /\ run' = [run EXCEPT !.pc = "exits", !.count = All - 1, !.done = @ - 1]
  /\ UNCHANGED <<process, paths>>

(* waitForExit: an end that is not the last, and the last.                 *)
OneExits ==
  /\ At("exits") /\ run.count > 0 /\ run.done > 0
  /\ run' = [run EXCEPT !.count = @ - 1, !.done = @ - 1]
  /\ UNCHANGED <<process, signal, paths>>

AllExited ==
  /\ At("exits") /\ run.count = 0
  /\ Goto("returned")
  /\ UNCHANGED <<process, signal, paths>>

(* Five seconds have passed; processes, not their groups, get SIGKILL.     *)
(* Faults: there is no deadline; it does not end waitForExit.              *)
NoDeadline == FALSE /\ UNCHANGED supervisorVars
DeadlineKeepsCount ==
  /\ At("exits") /\ run.count > 0
  /\ Send("SIGKILL") /\ run' = [run EXCEPT !.count = @ + 1]
  /\ UNCHANGED <<process, paths>>

Deadline ==
  /\ At("exits") /\ run.count > 0
  /\ Send("SIGKILL") /\ Goto("returned")
  /\ UNCHANGED <<process, paths>>

-----------------------------------------------------------------------------
(* The units: one listens, one ends, with or without having been told to.  *)
Listen(u) ==
  /\ process[u] = "live" /\ u \in WithPath \ paths
  /\ paths' = paths \cup {u}
  /\ UNCHANGED <<run, process, signal>>

Exit(u) ==
  /\ process[u] = "live"
  /\ process' = [process EXCEPT ![u] = "dead"]
  /\ UNCHANGED <<run, signal, paths>>

Cancel ==
  /\ ~run.cancelled /\ ~At("returned")
  /\ run' = [run EXCEPT !.cancelled = TRUE]
  /\ UNCHANGED <<process, signal, paths>>

-----------------------------------------------------------------------------
SupervisorStep ==
  \/ StartFails \/ PathExists \/ WaitForOne \/ OnCancel \/ OnExit \/ OneExits \/ AllExited \/ Deadline
  \/ \E u \in Units : StartUnit(u) \/ Report(u)

SupervisorNext == SupervisorStep \/ Cancel \/ \E u \in Units : Listen(u) \/ Exit(u)

SupervisorSpec == SupervisorInit /\ [][SupervisorNext]_supervisorVars

(* Goroutines run and time passes; SIGKILL works. Nothing makes a unit end *)
(* by itself, or heed SIGTERM.                                             *)
SupervisorFairSpec ==
  /\ SupervisorSpec /\ WF_supervisorVars(SupervisorStep)
  /\ \A u \in Units : WF_supervisorVars(signal[u] = "SIGKILL" /\ Exit(u))

-----------------------------------------------------------------------------
(* Types; the channel and the count never run over.                        *)
SupervisorTypeOK ==
  /\ run \in RunState
  /\ process \in [Units -> Process] /\ signal \in [Units -> Signal]
  /\ paths \subseteq WithPath

(* When Run returns, every process it started was told to end; and if all  *)
(* were started, none is left that was not killed, however the ends, the   *)
(* SIGTERM and the five seconds fall together. (A Run that fails earlier   *)
(* leaves its units without waiting for them.)                             *)
NobodyForgotten ==
  At("returned") =>
    \A u \in Procs : signal[u] # "none" /\ (Procs = Units => Ended(u) \/ signal[u] = "SIGKILL")

(* Units live and die together: once one has ended, or the supervisor is   *)
(* told to, Run returns, whatever the other units do; and a supervisor that*)
(* had started them all leaves none.                                       *)
AllEnd ==
  /\ run.cancelled \/ (\E u \in Units : Ended(u)) ~> At("returned")
  /\ At("exits") ~> \A u \in Units : Ended(u)
=============================================================================
