---------------------------- MODULE ServerProofs ----------------------------
(***************************************************************************)
(* For any number of machines, goroutines and incarnations, when a Start   *)
(* overlaps nothing: a server that was not disturbed leaves no child       *)
(* behind.  The manager under it is the orderly one whose proofs are in    *)
(* ManagerProofs, but for two things: the main goroutine is a caller of    *)
(* Stop, and while it scans, mgr.mu is read-locked, which the manager's    *)
(* own proofs know nothing of.                                             *)
(***************************************************************************)
EXTENDS Server, TLAPS

(* mgr.mu as Start, Stop, Delete and monitors hold it.                     *)
View == IF main = "scan" THEN None ELSE mu

M == INSTANCE ManagerProofs WITH mu <- View, Stoppers <- Stoppers \cup {Main}

LEMMA Assumption ==
  /\ Starters \cup (Stoppers \cup {Main}) \cup Deleters \subseteq Procs
  /\ None \notin Machines \cup VMs \cup Procs
  /\ Overlap \in BOOLEAN
BY ManagerAssumption, ServerAssumption

AfterMark == {"noVM", "close", "rpc", "wait", "kill", "poll", "sleep", "forceState"}

(* A machine is "stopping" only while a Stop is at it.                     *)
StoppingHasStop ==
  \A m \in Machines : state[m] = "stopping" =>
    \E p \in Procs : target[p] = m /\ pc[p] \in AfterMark

(* The main goroutine has yet to look at the machine, to stop it, or is    *)
(* stopping it.                                                            *)
Due(m) ==
  \/ m \in todo
  \/ main = "scan" /\ m \in unread
  \/ pc[Main] \in StopPCs /\ target[Main] = m

MainAlone ==
  /\ main \in {"serving", "scan", "stopping", "draining", "exited"}
  /\ main = "scan" => mu = Main
  /\ main # "serving" => \A p \in Procs \ {Main} : pc[p] = "idle"
  /\ main # "stopping" => pc[Main] = "idle"
  /\ pc[Main] \in StopPCs \cup {"idle"}
  /\ main \in {"draining", "exited"} => todo = {}

Undisturbed ==
  /\ M!IInv /\ M!Order
  /\ MainAlone /\ StoppingHasStop
  /\ main # "serving" => \A m \in Machines : Up(m) => Due(m)

SInv ==
  /\ disturbed \in BOOLEAN
  /\ main = "serving" => disturbed = FALSE
  /\ disturbed = FALSE => Undisturbed

-----------------------------------------------------------------------------
(* Outside the scan a step of the server's goroutines is the manager's     *)

LEMMA SameStart ==
  ASSUME View = mu, View' = mu', NEW p \in Procs, StartStep(p) PROVE M!StartStep(p)
<1>. USE DEF Goto, Return, SetState, Local, Close, Unregister, registry,
             calls, child, AtRest, Running, M!Goto, M!Return, M!SetState,
             M!Local, M!Close, M!Unregister, M!registry, M!calls, M!child,
             M!AtRest, M!Running
<1>1. CASE StartRefused(p)
  BY <1>1 DEF StartRefused, M!StartRefused, M!StartStep
<1>2. CASE StartAccepted(p)
  BY <1>2 DEF StartAccepted, M!StartAccepted, M!StartStep
<1>3. CASE StartMark(p)
  BY <1>3 DEF StartMark, M!StartMark, M!StartStep
<1>4. CASE StartNetwork(p)
  BY <1>4 DEF StartNetwork, M!StartNetwork, M!StartStep
<1>5. CASE StartNoNetwork(p)
  BY <1>5 DEF StartNoNetwork, M!StartNoNetwork, M!StartStep
<1>6. CASE StartSpawn(p)
  BY <1>6 DEF StartSpawn, M!StartSpawn, M!StartStep
<1>7. CASE StartNoSpawn(p)
  BY <1>7 DEF StartNoSpawn, M!StartNoSpawn, M!StartStep
<1>8. CASE StartCloseNet(p)
  BY <1>8 DEF StartCloseNet, M!StartCloseNet, M!StartStep
<1>9. CASE StartFail(p)
  BY <1>9 DEF StartFail, M!StartFail, M!StartStep
<1>10. CASE StartRegister(p)
  BY <1>10 DEF StartRegister, M!StartRegister, M!StartStep
<1>11. CASE StartRunning(p)
  BY <1>11 DEF StartRunning, M!StartRunning, M!StartStep
<1>. QED
  BY <1>1, <1>2, <1>3, <1>4, <1>5, <1>6, <1>7, <1>8, <1>9, <1>10, <1>11 DEF
     StartStep

LEMMA SameStop ==
  ASSUME View = mu, View' = mu', NEW p \in Procs, StopStep(p) PROVE M!StopStep(p)
<1>. USE DEF Goto, Return, SetState, Local, Close, Unregister, registry,
             calls, child, AtRest, Running, M!Goto, M!Return, M!SetState,
             M!Local, M!Close, M!Unregister, M!registry, M!calls, M!child,
             M!AtRest, M!Running
<1>1. CASE StopNotFound(p)
  BY <1>1 DEF StopNotFound, M!StopNotFound, M!StopStep
<1>2. CASE StopLookup(p)
  BY <1>2 DEF StopLookup, M!StopLookup, M!StopStep
<1>3. CASE StopRefused(p)
  BY <1>3 DEF StopRefused, M!StopRefused, M!StopStep
<1>4. CASE StopAccepted(p)
  BY <1>4 DEF StopAccepted, M!StopAccepted, M!StopStep
<1>5. CASE StopMark(p)
  BY <1>5 DEF StopMark, M!StopMark, M!StopStep
<1>6. CASE StopNoVM(p)
  BY <1>6 DEF StopNoVM, M!StopNoVM, M!StopStep
<1>7. CASE StopClose(p)
  BY <1>7 DEF StopClose, M!StopClose, M!StopStep
<1>8. CASE StopRPC(p)
  BY <1>8 DEF StopRPC, M!StopRPC, M!StopStep
<1>9. CASE StopRPCFailed(p)
  BY <1>9 DEF StopRPCFailed, M!StopRPCFailed, M!StopStep
<1>10. CASE StopExited(p)
  BY <1>10 DEF StopExited, M!StopExited, M!StopStep
<1>11. CASE StopWaitTimeout(p)
  BY <1>11 DEF StopWaitTimeout, M!StopWaitTimeout, M!StopStep
<1>12. CASE StopKill(p)
  BY <1>12 DEF StopKill, M!StopKill, M!StopStep
<1>13. CASE StopPoll(p)
  BY <1>13 DEF StopPoll, M!StopPoll, M!StopStep
<1>14. CASE StopWake(p)
  BY <1>14 DEF StopWake, M!StopWake, M!StopStep
<1>15. CASE StopDeadline(p)
  BY <1>15 DEF StopDeadline, M!StopDeadline, M!StopStep
<1>16. CASE StopForceState(p)
  BY <1>16 DEF StopForceState, M!StopForceState, M!StopStep
<1>17. CASE StopForceDelete(p)
  BY <1>17 DEF StopForceDelete, M!StopForceDelete, M!StopStep
<1>. QED
  BY <1>1, <1>2, <1>3, <1>4, <1>5, <1>6, <1>7, <1>8, <1>9, <1>10, <1>11,
     <1>12, <1>13, <1>14, <1>15, <1>16, <1>17 DEF StopStep

LEMMA SameDelete ==
  ASSUME View = mu, View' = mu', NEW p \in Procs, DeleteStep(p)
  PROVE  M!DeleteStep(p)
<1>. USE DEF Goto, Return, SetState, Local, Close, Unregister, registry,
             calls, child, AtRest, Running, M!Goto, M!Return, M!SetState,
             M!Local, M!Close, M!Unregister, M!registry, M!calls, M!child,
             M!AtRest, M!Running
<1>1. CASE DeleteRefused(p)
  BY <1>1 DEF DeleteRefused, M!DeleteRefused, M!DeleteStep
<1>2. CASE DeleteRecord(p)
  BY <1>2 DEF DeleteRecord, M!DeleteRecord, M!DeleteStep
<1>3. CASE DeleteRootfs(p)
  BY <1>3 DEF DeleteRootfs, M!DeleteRootfs, M!DeleteStep
<1>. QED
  BY <1>1, <1>2, <1>3 DEF DeleteStep

LEMMA SameBackground ==
  ASSUME NEW v \in VMs, Monitor(v) \/ External(v),
         main' = main, main = "scan" => mu = Main
  PROVE  M!Monitor(v) \/ M!External(v)
<1>. USE Assumption DEF Goto, Return, SetState, Local, Close, Unregister, registry,
             calls, child, AtRest, Running, M!Goto, M!Return, M!SetState,
             M!Local, M!Close, M!Unregister, M!registry, M!calls, M!child,
             M!AtRest, M!Running, View
<1>1. CASE MonitorClose(v)
  BY <1>1 DEF MonitorClose, M!MonitorClose, M!Monitor
<1>2. CASE MonitorStopped(v)
  BY <1>2 DEF MonitorStopped, M!MonitorStopped, M!Monitor
<1>3. CASE MonitorDelete(v)
  BY <1>3 DEF MonitorDelete, M!MonitorDelete, M!Monitor
<1>4. CASE VmmBoot(v)
  BY <1>4 DEF VmmBoot, M!VmmBoot, M!External
<1>5. CASE VmmExit(v)
  BY <1>5 DEF VmmExit, M!VmmExit, M!External
<1>6. CASE NetExit(v)
  BY <1>6 DEF NetExit, M!NetExit, M!External
<1>. QED
  BY <1>1, <1>2, <1>3, <1>4, <1>5, <1>6 DEF Monitor, External

LEMMA SameArrive ==
  ASSUME View = mu, View' = mu', Arrive PROVE M!Arrive
<1>. USE DEF Local, M!Local, registry, M!registry, calls, M!calls, child, M!child,
             SetState, M!SetState
<1>1. ASSUME NEW m \in Machines, Create(m) PROVE M!Create(m)
  BY <1>1 DEF Create, M!Create
<1>2. ASSUME NEW m \in Machines, NEW p \in Starters, CallStart(p, m)
      PROVE  M!CallStart(p, m)
  BY <1>2 DEF CallStart, M!CallStart, Call, M!Call, Quiet, M!Quiet, Fresh, M!Fresh
<1>3. ASSUME NEW m \in Machines, NEW p \in Stoppers, CallStop(p, m)
      PROVE  M!CallStop(p, m)
  BY <1>3 DEF CallStop, M!CallStop, Call, M!Call, Starting, M!Starting,
     StartPCs, M!StartPCs
<1>4. ASSUME NEW m \in Machines, NEW p \in Deleters, CallDelete(p, m)
      PROVE  M!CallDelete(p, m)
  BY <1>4 DEF CallDelete, M!CallDelete, Call, M!Call, Starting, M!Starting,
     StartPCs, M!StartPCs
<1>. QED
  BY <1>1, <1>2, <1>3, <1>4 DEF Arrive, M!Arrive

(* StopNext is a call of Stop that no Start overlaps; what else the main   *)
(* goroutine does, the manager does not see.                               *)
LEMMA Simulates ==
  ASSUME SInv, ServerNext, disturbed' = FALSE
  PROVE  disturbed = FALSE /\ (M!Next \/ UNCHANGED M!vars)
<1>0. disturbed = FALSE /\ MainAlone
  BY DEF SInv, Undisturbed, ServerNext, MainStep, Sigterm, ScanMachine,
     ScanDone, StopNext, StopAllDone, Exit, ListenFails, Request, Inside,
     Orphan, mainVars
<1>. USE Assumption DEF vars, registry, calls, child, M!vars, M!registry,
             M!calls, M!child, mainVars, View
<1>1. CASE Sigterm
  BY <1>0, <1>1 DEF Sigterm
<1>2. ASSUME NEW m \in Machines, ScanMachine(m) PROVE UNCHANGED M!vars
  BY <1>2 DEF ScanMachine
<1>3. ASSUME NEW m \in Machines, StopNext(m) PROVE M!Next
  <2>1. ~M!Starting(m)
    BY <1>0, <1>3 DEF StopNext, MainAlone, M!Starting, M!StartPCs, Call
  <2>2. M!CallStop(Main, m)
    BY <1>3, <2>1 DEF StopNext, M!CallStop, Call, M!Call, Local, M!Local
  <2>. QED
    BY <2>2 DEF M!Next, M!Arrive
<1>4. CASE ScanDone
  BY <1>0, <1>4 DEF ScanDone
<1>5. CASE StopAllDone \/ Exit
  BY <1>5 DEF StopAllDone, Exit
<1>6. CASE ListenFails
  BY <1>6 DEF ListenFails
<1>7. CASE Request
  <2>1. main' = main /\ Arrive /\ (disturbed' <=> disturbed \/ main # "serving")
    BY <1>7 DEF Request
  <2>2. main = "serving"
    BY <1>0, <2>1, Zenon
  <2>. QED
    BY <2>1, <2>2, SameArrive DEF M!Next
<1>8. ASSUME NEW p \in Procs, Inside(Step(p)) PROVE M!Next
  <2>1. main # "scan" /\ main' = main
    BY <1>0, <1>8 DEF MainAlone, Inside, Step, StartStep, StopStep, DeleteStep,
       StartRefused, StartAccepted, StartMark, StartNetwork, StartNoNetwork,
       StartSpawn, StartNoSpawn, StartCloseNet, StartFail, StartRegister,
       StartRunning, StopNotFound, StopLookup, StopRefused, StopAccepted,
       StopMark, StopNoVM, StopClose, StopRPC, StopRPCFailed, StopExited,
       StopWaitTimeout, StopKill, StopPoll, StopWake, StopDeadline,
       StopForceState, StopForceDelete, DeleteRefused, DeleteRecord,
       DeleteRootfs
  <2>. QED
    BY <1>8, <2>1, SameStart, SameStop, SameDelete
       DEF Inside, Step, M!Step, M!Work, M!Next
<1>9. ASSUME NEW v \in VMs,
             \/ Inside(Monitor(v)) \/ Inside(External(v))
             \/ main = "exited" /\ (VmmBoot(v) \/ VmmExit(v)) /\ UNCHANGED mainVars
      PROVE  M!Next
  BY <1>0, <1>9, SameBackground DEF Inside, External, MainAlone, M!Work,
     M!Outside, M!Next
<1>. QED
  BY <1>0, <1>1, <1>2, <1>3, <1>4, <1>5, <1>6, <1>7, <1>8, <1>9
     DEF ServerNext, MainStep, Inside, Work, Outside, Orphan

-----------------------------------------------------------------------------
(* What the server adds to the manager's invariant                         *)

Types == M!TypeOK /\ StoppingHasStop

(* Who marks a machine stopping is past its mark, and leaves by setting it *)
(* to stopped or on finding it so.                                         *)
LEMMA StopKeepsMark ==
  ASSUME Types, NEW p \in Procs, StopStep(p) PROVE StoppingHasStop'
<1>. SUFFICES ASSUME NEW m \in Machines, state'[m] = "stopping"
              PROVE  \E q \in Procs : target'[q] = m /\ pc'[q] \in AfterMark
  BY DEF StoppingHasStop
<1>. USE DEF Types, M!TypeOK, AfterMark, Goto, Return, SetState, Local,
             registry, child
<1>. USE DEF StopStep, StopNotFound, StopLookup, StopRefused, StopAccepted,
             StopMark, StopNoVM, StopClose, StopRPC, StopRPCFailed, StopExited,
             StopWaitTimeout, StopKill, StopPoll, StopWake, StopDeadline,
             StopForceState, StopForceDelete
<1>1. CASE state[m] = "stopping"
  <2>1. PICK q \in Procs : target[q] = m /\ pc[q] \in AfterMark
    BY <1>1 DEF StoppingHasStop
  <2>2. CASE q = p
    BY <1>1, <2>1, <2>2
  <2>3. CASE q # p
    BY <2>1, <2>3
  <2>. QED
    BY <2>2, <2>3
<1>2. CASE state[m] # "stopping"
  BY <1>2
<1>. QED
  BY <1>1, <1>2

(* Nobody else marks a machine so, or moves a Stop past its mark.          *)
LEMMA OthersKeepMark ==
  ASSUME Types,
         \/ \E p \in Procs : StartStep(p) \/ DeleteStep(p)
         \/ \E v \in VMs : Monitor(v) \/ External(v)
         \/ Arrive
         \/ \E m \in Machines : Call(Main, m, "stop", None)
         \/ UNCHANGED <<state, pc, target>>
  PROVE  StoppingHasStop'
<1>. SUFFICES ASSUME NEW m \in Machines, state'[m] = "stopping"
              PROVE  \E q \in Procs : target'[q] = m /\ pc'[q] \in AfterMark
  BY DEF StoppingHasStop
<1>. USE DEF Types, M!TypeOK, Goto, Return, SetState, Local, registry, calls, child
<1>1. state[m] = "stopping"
  <2>1. ASSUME NEW p \in Procs, StartStep(p) \/ DeleteStep(p)
        PROVE  state[m] = "stopping"
    BY <2>1 DEF StartStep, DeleteStep, StartRefused, StartAccepted, StartMark,
       StartNetwork, StartNoNetwork, StartSpawn, StartNoSpawn, StartCloseNet,
       StartFail, StartRegister, StartRunning, DeleteRefused, DeleteRecord,
       DeleteRootfs
  <2>2. ASSUME NEW v \in VMs, Monitor(v) \/ External(v) PROVE state[m] = "stopping"
    BY <2>2 DEF Monitor, External, MonitorClose, MonitorStopped, MonitorDelete,
       VmmBoot, VmmExit, NetExit
  <2>3. ASSUME Arrive PROVE state[m] = "stopping"
    BY <2>3 DEF Arrive, Create, CallStart, CallStop, CallDelete, Call
  <2>. QED
    BY <2>1, <2>2, <2>3 DEF Call
<1>2. PICK q \in Procs : target[q] = m /\ pc[q] \in AfterMark
  BY <1>1 DEF StoppingHasStop
<1>3. target'[q] = m /\ pc'[q] = pc[q]
  <2>0. pc[q] \notin StartPCs \cup DeletePCs \cup {"idle"}
    BY <1>2 DEF AfterMark, StartPCs, DeletePCs
  <2>1. ASSUME NEW p \in Procs, StartStep(p) \/ DeleteStep(p)
        PROVE  p # q /\ target'[q] = m /\ pc'[q] = pc[q]
    <3>1. p # q
      BY <2>0, <2>1 DEF StartPCs, DeletePCs, StartStep, DeleteStep,
         StartRefused, StartAccepted, StartMark, StartNetwork, StartNoNetwork,
         StartSpawn, StartNoSpawn, StartCloseNet, StartFail, StartRegister,
         StartRunning, DeleteRefused, DeleteRecord, DeleteRootfs
    <3>2. /\ \E c : pc' = [pc EXCEPT ![p] = c]
          /\ target' = target \/ target' = [target EXCEPT ![p] = None]
      BY <2>1, Zenon DEF StartStep, DeleteStep,
         StartRefused, StartAccepted, StartMark, StartNetwork, StartNoNetwork,
         StartSpawn, StartNoSpawn, StartCloseNet, StartFail, StartRegister,
         StartRunning, DeleteRefused, DeleteRecord, DeleteRootfs
    <3>. QED BY <1>2, <3>1, <3>2
  <2>2. ASSUME NEW v \in VMs, Monitor(v) \/ External(v)
        PROVE  target'[q] = m /\ pc'[q] = pc[q]
    BY <1>2, <2>2 DEF Monitor, External, MonitorClose, MonitorStopped,
       MonitorDelete, VmmBoot, VmmExit, NetExit
  <2>3. ASSUME Arrive PROVE target'[q] = m /\ pc'[q] = pc[q]
    BY <1>2, <2>0, <2>3 DEF Arrive, Create, CallStart, CallStop, CallDelete, Call
  <2>. QED
    BY <1>2, <2>0, <2>1, <2>2, <2>3 DEF Call
<1>. QED
  BY <1>2, <1>3

-----------------------------------------------------------------------------
(* What the main goroutine's own Stop does to a machine                    *)

(* A child it could see is in the maps, since nobody is starting one; and  *)
(* the machine is "stopping" only by its own doing.                        *)
LEMMA SoleStop ==
  ASSUME Undisturbed, main # "serving", NEW m \in Machines, Up(m)
  PROVE  /\ m \in machines
         /\ state[m] \in {"running", "stopping"}
         /\ state[m] = "stopping" => target[Main] = m /\ pc[Main] \in AfterMark
<1>1. PICK v \in VMs : owner[v] = m /\ vmState[v] \in Running
  BY DEF Up
<1>2. pc[Main] \notin {"register", "running"}
  BY DEF Undisturbed, MainAlone, StopPCs
<1>3. \A p \in Procs : pc[p] \notin {"register", "running"}
  BY <1>2 DEF Undisturbed, MainAlone
<1>4. m \in machines /\ state[m] \in {"running", "stopping"}
  BY <1>1, <1>3 DEF Undisturbed, M!Order, M!ChildHasKeeper, Running, M!Running
<1>5. state[m] = "stopping" => target[Main] = m /\ pc[Main] \in AfterMark
  BY DEF Undisturbed, StoppingHasStop, MainAlone, AfterMark
<1>. QED
  BY <1>4, <1>5

(* It does not return while the child runs.                                *)
LEMMA MainStops ==
  ASSUME Undisturbed, main # "serving", StopStep(Main), NEW m \in Machines, Up(m)'
  PROVE  /\ Up(m)
         /\ target[Main] = m => pc'[Main] \in StopPCs /\ target'[Main] = m
<1>1. PICK v \in VMs : owner'[v] = m /\ vmState'[v] \in Running
  BY DEF Up
<1>0. /\ Main \in Procs /\ vmState \in [VMs -> VMStates]
      /\ pc \in [Procs -> PCs] /\ target \in [Procs -> Machines \cup {None}]
  BY ServerAssumption DEF Undisturbed, M!IInv, M!TypeOK, VMStates, M!VMStates,
     Running, M!Running, PCs, M!PCs, StartPCs, M!StartPCs, StopPCs, M!StopPCs,
     DeletePCs, M!DeletePCs
<1>2. owner[v] = m /\ vmState[v] \in Running
  BY <1>0, <1>1 DEF StopStep, Local, child, Goto, Return, Running,
     StopNotFound, StopLookup, StopRefused, StopAccepted, StopMark, StopNoVM,
     StopClose, StopRPC, StopRPCFailed, StopExited, StopWaitTimeout, StopKill,
     StopPoll, StopWake, StopDeadline, StopForceState, StopForceDelete
<1>3. Up(m)
  BY <1>2 DEF Up
<1>4. ASSUME target[Main] = m PROVE pc'[Main] \in StopPCs /\ target'[Main] = m
  <2>1. pc[Main] \in M!Handled => vm[Main] = v
    BY <1>0, <1>2, <1>4 DEF Undisturbed, M!Order, M!StopHolds, Running, M!Running
  <2>2. /\ pc[Main] = "noVM" => vm[Main] = None
        /\ pc[Main] \in {"poll", "sleep", "forceState", "forceDelete"} =>
             vmState[vm[Main]] \in {"killed", "exited"}
    BY <1>0 DEF Undisturbed, M!Order, M!StopHolds, M!Handled, M!StopPCs
  <2>3. pc[Main] \notin {"noVM", "poll", "sleep", "forceState", "forceDelete"}
    BY <1>2, <2>1, <2>2, ManagerAssumption DEF M!Handled, M!StopPCs, Running
  <2>4. m \in machines /\ (pc[Main] = "check" => state[m] = "running")
    BY <1>3, SoleStop DEF AfterMark
  <2>. QED
    BY <1>0, <1>4, <2>3, <2>4 DEF StopPCs, StopStep, Goto, Return,
       StopNotFound, StopLookup, StopRefused, StopAccepted, StopMark,
       StopNoVM, StopClose, StopRPC, StopRPCFailed, StopExited,
       StopWaitTimeout, StopKill, StopPoll, StopWake, StopDeadline,
       StopForceState, StopForceDelete
<1>. QED
  BY <1>3, <1>4

(* After SIGTERM no child is started.                                      *)
LEMMA NoNewChild ==
  ASSUME M!TypeOK, NEW m \in Machines, Up(m)',
         \/ \E v \in VMs : Monitor(v) \/ External(v)
         \/ UNCHANGED <<owner, vmState>>
  PROVE  Up(m)
<1>1. PICK w \in VMs : owner'[w] = m /\ vmState'[w] \in Running
  BY DEF Up
<1>2. owner[w] = m /\ vmState[w] \in Running
  BY <1>1 DEF M!TypeOK, Monitor, External, child, Running, MonitorClose,
     MonitorStopped, MonitorDelete, VmmBoot, VmmExit, NetExit
<1>. QED
  BY <1>2 DEF Up

-----------------------------------------------------------------------------
(* A server that was not disturbed                                         *)

Covered == main # "serving" => \A m \in Machines : Up(m) => Due(m)

LEMMA InitSInv == ServerInit => SInv
<1>. SUFFICES ASSUME ServerInit PROVE SInv
  OBVIOUS
<1>1. M!Init
  BY DEF ServerInit, Init, M!Init, View
<1>2. M!IInv /\ M!Order
  BY <1>1, M!InitInv, M!InitOrder, Assumption
<1>3. MainAlone /\ StoppingHasStop
  BY ServerAssumption DEF ServerInit, Init, MainAlone, StoppingHasStop
<1>. QED
  BY <1>2, <1>3 DEF SInv, Undisturbed, ServerInit

(* Once SIGTERM has come, only the main goroutine takes steps of requests. *)
LEMMA OnlyMain ==
  ASSUME MainAlone, NEW p \in Procs, Step(p)
  PROVE  \/ main = "serving" /\ p # Main
         \/ main = "stopping" /\ p = Main /\ StopStep(Main)
<1>1. pc[p] # "idle" /\ (pc[p] \in StopPCs => StopStep(p))
  BY DEF Step, StopPCs, StartStep, StopStep, DeleteStep,
     StartRefused, StartAccepted, StartMark, StartNetwork, StartNoNetwork,
     StartSpawn, StartNoSpawn, StartCloseNet, StartFail, StartRegister,
     StartRunning, StopNotFound, StopLookup, StopRefused, StopAccepted,
     StopMark, StopNoVM, StopClose, StopRPC, StopRPCFailed, StopExited,
     StopWaitTimeout, StopKill, StopPoll, StopWake, StopDeadline,
     StopForceState, StopForceDelete, DeleteRefused, DeleteRecord,
     DeleteRootfs
<1>. QED
  BY <1>1 DEF MainAlone

(* What a step of the server does, if nothing disturbs it.                 *)
LEMMA Cases ==
  ASSUME SInv, ServerNext, disturbed' = FALSE
  PROVE  /\ Undisturbed
         /\ \/ Sigterm
            \/ \E m \in Machines : ScanMachine(m)
            \/ \E m \in Machines : StopNext(m)
            \/ ScanDone
            \/ StopAllDone
            \/ Exit
            \/ main = "serving" /\ Arrive /\ UNCHANGED <<main, unread, todo>>
            \/ /\ main = "serving" /\ UNCHANGED mainVars
               /\ \E p \in Procs \ {Main} : Step(p)
            \/ main = "stopping" /\ StopStep(Main) /\ UNCHANGED mainVars
            \/ /\ \E v \in VMs : Monitor(v) \/ External(v)
               /\ UNCHANGED mainVars
<1>1. Undisturbed
  BY Simulates DEF SInv
<1>2. MainAlone
  BY <1>1 DEF Undisturbed
<1>3. ASSUME Request
      PROVE  main = "serving" /\ Arrive /\ UNCHANGED <<main, unread, todo>>
  <2>1. /\ Arrive /\ UNCHANGED <<main, unread, todo>>
        /\ disturbed' <=> disturbed \/ main # "serving"
    BY <1>3 DEF Request
  <2>2. main = "serving"
    BY <2>1, Zenon
  <2>. QED
    BY <2>1, <2>2
<1>4. ASSUME Inside(Work)
      PROVE  \/ /\ main = "serving" /\ UNCHANGED mainVars
                /\ \E p \in Procs \ {Main} : Step(p)
             \/ main = "stopping" /\ StopStep(Main) /\ UNCHANGED mainVars
             \/ (\E v \in VMs : Monitor(v)) /\ UNCHANGED mainVars
  BY <1>2, <1>4, OnlyMain DEF Inside, Work
<1>5. ASSUME Inside(Outside) \/ Orphan
      PROVE  (\E v \in VMs : External(v)) /\ UNCHANGED mainVars
  BY <1>5 DEF Inside, Outside, Orphan, External
<1>6. ~ListenFails
  BY DEF ListenFails
<1>. QED
  BY <1>1, <1>3, <1>4, <1>5, <1>6 DEF ServerNext, MainStep

LEMMA MainAloneKept ==
  ASSUME SInv, ServerNext, disturbed' = FALSE PROVE MainAlone'
<1>0. MainAlone /\ pc \in [Procs -> PCs] /\ Main \in Procs
  BY Cases, ServerAssumption DEF Undisturbed, M!IInv, M!TypeOK, PCs, M!PCs,
     StartPCs, M!StartPCs, StopPCs, M!StopPCs, DeletePCs, M!DeletePCs
<1>1. CASE Sigterm
  <2>1. disturbed' <=> \E p \in Procs : pc[p] # "idle"
    BY <1>1 DEF Sigterm
  <2>2. \A p \in Procs : pc[p] = "idle"
    BY <2>1, Zenon
  <2>. QED
    BY <1>0, <1>1, <2>2 DEF Sigterm, MainAlone, calls
<1>2. ASSUME NEW m \in Machines, ScanMachine(m) PROVE MainAlone'
  BY <1>0, <1>2 DEF ScanMachine, MainAlone, vars, calls
<1>3. ASSUME NEW m \in Machines, StopNext(m) PROVE MainAlone'
  BY <1>0, <1>3 DEF StopNext, MainAlone, Call, Local, StopPCs
<1>4. CASE ScanDone \/ StopAllDone \/ Exit
  BY <1>0, <1>4 DEF ScanDone, StopAllDone, Exit, MainAlone, vars, calls
<1>5. CASE main = "serving" /\ Arrive /\ UNCHANGED <<main, unread, todo>>
  BY <1>0, <1>5, ServerAssumption
     DEF MainAlone, Arrive, Create, CallStart, CallStop, CallDelete, Call, calls
<1>6. ASSUME main = "serving", UNCHANGED mainVars,
             NEW p \in Procs \ {Main}, Step(p) PROVE MainAlone'
  <2>1. pc'[Main] = pc[Main]
    BY <1>0, <1>6 DEF Step, Goto, Return, StartStep, StopStep, DeleteStep, calls,
       StartRefused, StartAccepted, StartMark, StartNetwork, StartNoNetwork,
       StartSpawn, StartNoSpawn, StartCloseNet, StartFail, StartRegister,
       StartRunning, StopNotFound, StopLookup, StopRefused, StopAccepted,
       StopMark, StopNoVM, StopClose, StopRPC, StopRPCFailed, StopExited,
       StopWaitTimeout, StopKill, StopPoll, StopWake, StopDeadline,
       StopForceState, StopForceDelete, DeleteRefused, DeleteRecord,
       DeleteRootfs
  <2>. QED
    BY <1>0, <1>6, <2>1 DEF MainAlone, mainVars
<1>7. CASE main = "stopping" /\ StopStep(Main) /\ UNCHANGED mainVars
  <2>1. /\ \A p \in Procs \ {Main} : pc'[p] = pc[p]
        /\ pc'[Main] \in StopPCs \cup {"idle"}
    BY <1>0, <1>7 DEF Goto, Return, StopStep, StopPCs,
       StopNotFound, StopLookup, StopRefused, StopAccepted,
       StopMark, StopNoVM, StopClose, StopRPC, StopRPCFailed, StopExited,
       StopWaitTimeout, StopKill, StopPoll, StopWake, StopDeadline,
       StopForceState, StopForceDelete
  <2>. QED
    BY <1>0, <1>7, <2>1 DEF MainAlone, mainVars
<1>8. ASSUME NEW v \in VMs, Monitor(v) \/ External(v), UNCHANGED mainVars
      PROVE  MainAlone'
  BY <1>0, <1>8 DEF MainAlone, mainVars, Monitor, External, calls, MonitorClose,
     MonitorStopped, MonitorDelete, VmmBoot, VmmExit, NetExit
<1>. QED
  BY <1>1, <1>2, <1>3, <1>4, <1>5, <1>6, <1>7, <1>8, Cases

LEMMA MarkKept ==
  ASSUME SInv, ServerNext, disturbed' = FALSE PROVE StoppingHasStop'
<1>1. Types
  BY Cases DEF Undisturbed, M!IInv, Types
<1>2. CASE \/ Sigterm \/ ScanDone \/ StopAllDone \/ Exit
           \/ \E m \in Machines : ScanMachine(m)
  <2>1. UNCHANGED <<state, pc, target>>
    BY <1>2 DEF Sigterm, ScanMachine, ScanDone, StopAllDone, Exit, vars, calls
  <2>. QED
    BY <1>1, <2>1, OthersKeepMark
<1>3. ASSUME NEW m \in Machines, StopNext(m) PROVE StoppingHasStop'
  BY <1>1, <1>3, OthersKeepMark DEF StopNext
<1>4. ASSUME NEW p \in Procs, Step(p) PROVE StoppingHasStop'
  BY <1>1, <1>4, OthersKeepMark, StopKeepsMark DEF Step
<1>. QED
  BY <1>1, <1>2, <1>3, <1>4, OthersKeepMark, StopKeepsMark, ServerAssumption, Cases

LEMMA CoveredKept ==
  ASSUME SInv, ServerNext, disturbed' = FALSE PROVE Covered'
<1>. SUFFICES ASSUME main' # "serving", NEW m \in Machines, Up(m)' PROVE Due(m)'
  BY DEF Covered
<1>0. /\ Undisturbed /\ MainAlone /\ M!TypeOK
      /\ pc \in [Procs -> PCs] /\ target \in [Procs -> Machines \cup {None}]
      /\ Main \in Procs
      /\ main # "serving" /\ Up(m) => Due(m)
  BY Cases, ServerAssumption DEF Undisturbed, M!IInv, M!TypeOK, PCs, M!PCs,
     StartPCs, M!StartPCs, StopPCs, M!StopPCs, DeletePCs, M!DeletePCs
<1>1. CASE Sigterm
  <2>1. disturbed' <=> \E p \in Procs : pc[p] # "idle"
    BY <1>1 DEF Sigterm
  <2>2. \A p \in Procs : pc[p] = "idle"
    BY <2>1, Zenon
  <2>3. Up(m)
    BY <1>1 DEF Sigterm, child, Up
  <2>4. PICK v \in VMs : owner[v] = m /\ vmState[v] \in Running
    BY <2>3 DEF Up
  <2>5. m \in machines
    BY <1>0, <2>2, <2>4 DEF Undisturbed, M!Order, M!ChildHasKeeper, Running,
       M!Running
  <2>. QED
    BY <1>1, <2>5 DEF Sigterm, Due
<1>2. ASSUME NEW n \in Machines, ScanMachine(n) PROVE Due(m)'
  <2>1. main = "scan" /\ Up(m)
    BY <1>2 DEF ScanMachine, vars, child, Up
  <2>2. state[m] = "running"
    BY <1>0, <2>1, SoleStop DEF MainAlone, AfterMark
  <2>. QED
    BY <1>0, <1>2, <2>1, <2>2 DEF ScanMachine, Due, vars, calls
<1>3. ASSUME NEW n \in Machines, StopNext(n) PROVE Due(m)'
  <2>1. main = "stopping" /\ Up(m)
    BY <1>3 DEF StopNext, Call, Local, child, Up
  <2>. QED
    BY <1>0, <1>3, <2>1 DEF StopNext, Call, Due, StopPCs
<1>4. CASE ScanDone \/ StopAllDone \/ Exit
  <2>1. main # "serving" /\ Up(m)
    BY <1>4 DEF ScanDone, StopAllDone, Exit, vars, child, Up
  <2>. QED
    BY <1>0, <1>4, <2>1 DEF ScanDone, StopAllDone, Exit, Due, MainAlone, StopPCs,
       vars, calls
<1>5. CASE main = "serving"
  BY <1>1, <1>5, Cases DEF ScanMachine, StopNext, ScanDone, StopAllDone, Exit,
     mainVars
<1>6. CASE main = "stopping" /\ StopStep(Main) /\ UNCHANGED mainVars
  <2>1. Up(m) /\ (target[Main] = m => pc'[Main] \in StopPCs /\ target'[Main] = m)
    BY <1>0, <1>6, MainStops
  <2>. QED
    BY <1>0, <1>6, <2>1 DEF Due, mainVars
<1>7. ASSUME NEW v \in VMs, Monitor(v) \/ External(v), UNCHANGED mainVars
      PROVE  Due(m)'
  <2>1. Up(m) /\ main # "serving"
    BY <1>0, <1>7, NoNewChild DEF mainVars
  <2>2. UNCHANGED <<pc, target>>
    BY <1>7 DEF Monitor, External, calls, MonitorClose, MonitorStopped,
       MonitorDelete, VmmBoot, VmmExit, NetExit
  <2>. QED
    BY <1>0, <1>7, <2>1, <2>2 DEF Due, mainVars
<1>. QED
  BY <1>1, <1>2, <1>3, <1>4, <1>5, <1>6, <1>7, Cases

LEMMA NextSInv == ASSUME ~Overlap PROVE SInv /\ [ServerNext]_serverVars => SInv'
<1>1. ASSUME SInv, UNCHANGED serverVars PROVE SInv'
  <2>1. UNCHANGED View /\ UNCHANGED M!vars
    BY <1>1 DEF serverVars, mainVars, vars, registry, calls, child, View, M!vars,
       M!registry, M!calls, M!child
  <2>2. disturbed = FALSE => M!IInv' /\ M!Order'
    BY <1>1, <2>1, M!NextInv, M!NextOrder, Assumption DEF SInv, Undisturbed
  <2>3. disturbed = FALSE => MainAlone' /\ StoppingHasStop' /\ Covered'
    BY <1>1 DEF SInv, Undisturbed, MainAlone, StoppingHasStop, Covered, Up, Due,
       serverVars, mainVars, vars, registry, calls, child
  <2>. QED
    BY <1>1, <2>2, <2>3 DEF SInv, Undisturbed, Covered, serverVars, mainVars
<1>2. ASSUME SInv, ServerNext PROVE SInv'
  <2>1. disturbed' \in BOOLEAN
    BY <1>2 DEF SInv, ServerNext, MainStep, Sigterm, ScanMachine, ScanDone,
       StopNext, StopAllDone, Exit, ListenFails, Request, Inside, Orphan,
       mainVars
  <2>2. main' = "serving" => disturbed' = FALSE
    <3>1. CASE Request
      <4>1. main' = main /\ (disturbed' <=> disturbed \/ main # "serving")
        BY <3>1 DEF Request
      <4>2. main = "serving" => disturbed = FALSE
        BY <1>2 DEF SInv
      <4>3. main' = "serving" => ~disturbed'
        BY <4>1, <4>2, Zenon
      <4>. QED
        BY <2>1, <4>3
    <3>. QED
      BY <1>2, <3>1 DEF SInv, ServerNext, MainStep, Sigterm, ScanMachine, ScanDone,
         StopNext, StopAllDone, Exit, ListenFails, Inside, Orphan, mainVars
  <2>3. ASSUME disturbed' = FALSE PROVE M!IInv' /\ M!Order'
    <3>1. /\ M!IInv /\ M!Order
          /\ M!Next \/ UNCHANGED M!vars
      BY <1>2, <2>3, Simulates DEF SInv, Undisturbed
    <3>. QED
      BY <3>1, M!NextInv, M!NextOrder, Assumption
  <2>. QED
    BY <1>2, <2>1, <2>2, <2>3, MainAloneKept, MarkKept, CoveredKept
       DEF SInv, Undisturbed, Covered
<1>. QED
  BY <1>1, <1>2

(* An exit that nothing disturbed leaves no child behind, whatever the     *)
(* guests, the monitors and the clocks do while machines are stopped.      *)
THEOREM UndisturbedExit ==
  ASSUME ~Overlap PROVE ServerSpec => []UndisturbedExitLeavesNoVM
<1>1. ASSUME SInv PROVE UndisturbedExitLeavesNoVM
  <2>. SUFFICES ASSUME main = "exited", ~disturbed, NEW m \in Machines, Up(m)
                PROVE  FALSE
    BY DEF UndisturbedExitLeavesNoVM
  <2>1. disturbed = FALSE
    BY <1>1 DEF SInv
  <2>2. Due(m) /\ MainAlone
    BY <1>1, <2>1 DEF SInv, Undisturbed
  <2>. QED
    BY <2>2 DEF Due, MainAlone, StopPCs
<1>. QED
  BY <1>1, InitSInv, NextSInv, PTL DEF ServerSpec

=============================================================================
