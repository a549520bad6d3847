------------------------------- MODULE Server -------------------------------
(***************************************************************************)
(* The krun-api process: an HTTP server whose requests are the calls of    *)
(* module Manager, and a main goroutine that on SIGTERM runs StopAll, then *)
(* shuts the server down for at most five seconds, then exits.  What is    *)
(* left of a child after that runs on without a manager.  A listener that  *)
(* fails ends the process without StopAll.                                 *)
(***************************************************************************)
EXTENDS Manager

CONSTANT Main  \* the main goroutine

ASSUME ServerAssumption ==
  Main \in Procs /\ Main \notin Starters \cup Stoppers \cup Deleters

VARIABLES
  main,      \* where the main goroutine is outside Stop
  unread,    \* machines StopAll has yet to look at
  todo,      \* ids: the machines it has yet to stop
  disturbed  \* did SIGTERM find a request under way, did one follow it, or
             \* did the listener fail?

mainVars == <<main, unread, todo, disturbed>>
serverVars == <<vars, mainVars>>

-----------------------------------------------------------------------------

(* SIGTERM arrives and StopAll takes mgr.mu for reading.  Its other users  *)
(* in the model take it for writing, so it is held like a write lock.      *)
Sigterm ==
  /\ main = "serving"
  /\ mu = None
  /\ mu' = Main
  /\ disturbed' = \E p \in Procs : pc[p] # "idle"
  /\ main' = "scan"
  /\ unread' = machines
  /\ UNCHANGED <<todo, registry, state, calls, mon, child, net>>

(* States are read one by one; they may change in between.                 *)
ScanMachine(m) ==
  /\ main = "scan"
  /\ m \in unread
  /\ unread' = unread \ {m}
  /\ todo' = IF state[m] = "running" THEN todo \cup {m} ELSE todo
  /\ UNCHANGED <<main, disturbed, vars>>

(* StopAll that calls Stop with mgr.mu held.                               *)
ScanKeepsLock ==
  /\ main = "scan"
  /\ unread = {}
  /\ main' = "stopping"
  /\ UNCHANGED <<unread, todo, disturbed, vars>>

ScanDone ==
  /\ main = "scan"
  /\ unread = {}
  /\ mu' = None
  /\ main' = "stopping"
  /\ UNCHANGED <<unread, todo, disturbed, registry, state, calls, mon, child, net>>

(* One Stop after the other, in the order of a map: any order.  An error   *)
(* is logged and the next machine is stopped.                              *)
StopNext(m) ==
  /\ main = "stopping"
  /\ m \in todo
  /\ Call(Main, m, "stop", None)
  /\ todo' = todo \ {m}
  /\ UNCHANGED <<main, unread, disturbed>>

(* StopAll that gives up before every machine has been stopped.            *)
FirstOnly ==
  /\ main = "stopping"
  /\ pc[Main] = "idle"
  /\ main' = "draining"
  /\ UNCHANGED <<unread, todo, disturbed, vars>>

StopAllDone ==
  /\ main = "stopping"
  /\ todo = {}
  /\ pc[Main] = "idle"
  /\ main' = "draining"
  /\ UNCHANGED <<unread, todo, disturbed, vars>>

(* srv.Shutdown returns when no request is active or after five seconds.   *)
Exit ==
  /\ main = "draining"
  /\ main' = "exited"
  /\ UNCHANGED <<unread, todo, disturbed, vars>>

MainStep ==
  \/ \E m \in Machines : ScanMachine(m) \/ StopNext(m)
  \/ ScanDone \/ StopAllDone \/ Exit

(* Connections are accepted until srv.Shutdown, StopAll included.          *)
Request ==
  /\ main \notin {"draining", "exited"}
  /\ Arrive
  /\ disturbed' = (disturbed \/ main # "serving")
  /\ UNCHANGED <<main, unread, todo>>

Inside(A) == main # "exited" /\ A /\ UNCHANGED mainVars

(* ListenAndServe fails, before or after SIGTERM: os.Exit(1), at once.     *)
ListenFails ==
  /\ main \notin {"draining", "exited"}
  /\ main' = "exited"
  /\ disturbed' = TRUE
  /\ UNCHANGED <<unread, todo, vars>>

(* Children are processes of their own and survive the server.             *)
Orphan == main = "exited" /\ (\E v \in VMs : VmmBoot(v) \/ VmmExit(v))
                          /\ UNCHANGED mainVars

ServerInit ==
  Init /\ main = "serving" /\ unread = {} /\ todo = {} /\ disturbed = FALSE

ServerNext ==
  \/ Sigterm \/ MainStep \/ ListenFails
  \/ Request \/ Inside(Work) \/ Inside(Outside)
  \/ Orphan

(* Goroutines run and get mgr.mu in the end, for as long as the process    *)
(* lives.  Nothing is asked of children, monitors and networks.            *)
ServerFairness ==
  /\ SF_serverVars(MainStep)
  /\ \A p \in Procs : SF_serverVars(Inside(Step(p)))

ServerSpec == ServerInit /\ [][ServerNext]_serverVars

FairServerSpec == ServerSpec /\ ServerFairness

-----------------------------------------------------------------------------

(* A server that was not disturbed leaves no child process behind: StopAll *)
(* finds every machine that has one, whatever its guest and its monitor do *)
(* meanwhile, and Stop kills what does not shut down.                      *)
UndisturbedExitLeavesNoVM ==
  main = "exited" /\ ~disturbed => \A m \in Machines : ~Up(m)

(* The server exits after SIGTERM, whatever the guests do and whichever of *)
(* the clients' Starts, Stops and Deletes are under way or still arrive:   *)
(* no Stop blocks StopAll and no lock is kept (manager.go:318-334, main.go *)
(* 122-131).  Where Overlap is FALSE a client's Start overlaps the Stops   *)
(* of StopAll and nothing else.                                            *)
ShutdownCompletes == main = "scan" ~> main = "exited"

=============================================================================
