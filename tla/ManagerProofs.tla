---------------------------- MODULE ManagerProofs ----------------------------
(***************************************************************************)
(* For any number of machines, goroutines and incarnations.  Whatever      *)
(* overlaps: the manager's state is well formed, no goroutine dereferences *)
(* a nil vm or vmNet, and every registered VM has a goroutine that will    *)
(* clear it from the maps.  When a Start overlaps nothing, for any overlap *)
(* of Stops, Deletes and monitors: a machine at rest has no child and no   *)
(* machine has two, the root directory of a running child is kept, a guest *)
(* is shut down with its network closed, and every behaviour is one that   *)
(* module Lifecycle allows.                                                *)
(***************************************************************************)
EXTENDS Manager, FiniteSetTheorems, TLAPS

USE ManagerAssumption


-----------------------------------------------------------------------------
(* Type correctness: TypeOK is inductive                                   *)

LEMMA InitType == Init => TypeOK
BY DEF Init, TypeOK, States, PCs, HandlePCs, VMStates, Running, StartPCs,
       StopPCs, DeletePCs

LEMMA ArriveType == TypeOK /\ Arrive => TypeOK'
<1>. USE DEF TypeOK, States, PCs, HandlePCs, StartPCs, StopPCs, DeletePCs,
             registry, child, calls, Local
<1>1. ASSUME TypeOK, NEW m \in Machines, Create(m) PROVE TypeOK'
  BY <1>1 DEF Create, SetState
<1>2. ASSUME TypeOK, NEW m \in Machines, NEW p \in Starters, CallStart(p, m)
      PROVE  TypeOK'
  BY <1>2 DEF CallStart, Call
<1>3. ASSUME TypeOK, NEW m \in Machines, NEW p \in Stoppers, CallStop(p, m)
      PROVE  TypeOK'
  BY <1>3 DEF CallStop, Call
<1>4. ASSUME TypeOK, NEW m \in Machines, NEW p \in Deleters, CallDelete(p, m)
      PROVE  TypeOK'
  BY <1>4 DEF CallDelete, Call
<1>. QED
  BY <1>1, <1>2, <1>3, <1>4 DEF Arrive

LEMMA StartType ==
  ASSUME TypeOK, NEW p \in Procs, StartStep(p) PROVE TypeOK'
<1>. USE DEF TypeOK, States, PCs, HandlePCs, StartPCs, StopPCs, DeletePCs,
             registry, child, calls, Local, Goto, Return, SetState
<1>1. CASE StartRefused(p)
  BY <1>1 DEF StartRefused
<1>2. CASE StartAccepted(p)
  BY <1>2 DEF StartAccepted
<1>3. CASE StartMark(p)
  BY <1>3 DEF StartMark
<1>4. CASE StartNetwork(p)
  BY <1>4 DEF StartNetwork
<1>5. CASE StartNoNetwork(p)
  BY <1>5 DEF StartNoNetwork
<1>6. CASE StartSpawn(p)
  BY <1>6 DEF StartSpawn, VMStates, Running
<1>7. CASE StartNoSpawn(p)
  BY <1>7 DEF StartNoSpawn, VMStates
<1>8. CASE StartCloseNet(p)
  BY <1>8 DEF StartCloseNet, Close
<1>9. CASE StartFail(p)
  BY <1>9 DEF StartFail
<1>10. CASE StartRegister(p)
  BY <1>10 DEF StartRegister
<1>11. CASE StartRunning(p)
  BY <1>11 DEF StartRunning
<1>. QED
  BY <1>1, <1>2, <1>3, <1>4, <1>5, <1>6, <1>7, <1>8, <1>9, <1>10, <1>11
     DEF StartStep

LEMMA StopType ==
  ASSUME TypeOK, NEW p \in Procs, StopStep(p) PROVE TypeOK'
<1>. USE DEF TypeOK, States, PCs, HandlePCs, StartPCs, StopPCs, DeletePCs,
             registry, child, calls, Local, Goto, Return, SetState
<1>1. CASE StopNotFound(p)
  BY <1>1 DEF StopNotFound
<1>2. CASE StopLookup(p)
  BY <1>2 DEF StopLookup
<1>3. CASE StopRefused(p)
  BY <1>3 DEF StopRefused
<1>4. CASE StopAccepted(p)
  BY <1>4 DEF StopAccepted
<1>5. CASE StopMark(p)
  BY <1>5 DEF StopMark
<1>6. CASE StopNoVM(p)
  BY <1>6 DEF StopNoVM
<1>7. CASE StopClose(p)
  BY <1>7 DEF StopClose, Close
<1>8. CASE StopRPC(p)
  BY <1>8 DEF StopRPC, VMStates, Running
<1>9. CASE StopRPCFailed(p)
  BY <1>9 DEF StopRPCFailed
<1>10. CASE StopExited(p)
  BY <1>10 DEF StopExited
<1>11. CASE StopWaitTimeout(p)
  BY <1>11 DEF StopWaitTimeout
<1>12. CASE StopKill(p)
  BY <1>12 DEF StopKill, VMStates
<1>13. CASE StopPoll(p)
  BY <1>13 DEF StopPoll
<1>14. CASE StopWake(p)
  BY <1>14 DEF StopWake
<1>15. CASE StopDeadline(p)
  BY <1>15 DEF StopDeadline, Close
<1>16. CASE StopForceState(p)
  BY <1>16 DEF StopForceState
<1>17. CASE StopForceDelete(p)
  BY <1>17 DEF StopForceDelete, Unregister
<1>. QED
  BY <1>1, <1>2, <1>3, <1>4, <1>5, <1>6, <1>7, <1>8, <1>9, <1>10, <1>11,
     <1>12, <1>13, <1>14, <1>15, <1>16, <1>17 DEF StopStep

LEMMA DeleteType ==
  ASSUME TypeOK, NEW p \in Procs, DeleteStep(p) PROVE TypeOK'
<1>. USE DEF TypeOK, States, PCs, HandlePCs, StartPCs, StopPCs, DeletePCs,
             registry, child, calls, Local, Goto, Return
<1>1. CASE DeleteRefused(p)
  BY <1>1 DEF DeleteRefused
<1>2. CASE DeleteRecord(p)
  BY <1>2 DEF DeleteRecord
<1>3. CASE DeleteRootfs(p)
  BY <1>3 DEF DeleteRootfs
<1>. QED
  BY <1>1, <1>2, <1>3 DEF DeleteStep

LEMMA BackgroundType ==
  ASSUME TypeOK, NEW v \in VMs, Monitor(v) \/ External(v) PROVE TypeOK'
<1>. USE DEF TypeOK, States, registry, child, calls
<1>1. CASE MonitorClose(v)
  BY <1>1 DEF MonitorClose, Close
<1>2. CASE MonitorStopped(v)
  BY <1>2 DEF MonitorStopped, SetState
<1>3. CASE MonitorDelete(v)
  BY <1>3 DEF MonitorDelete, Unregister
<1>4. CASE VmmBoot(v)
  BY <1>4 DEF VmmBoot, VMStates, Running
<1>5. CASE VmmExit(v)
  BY <1>5 DEF VmmExit, VMStates
<1>6. CASE NetExit(v)
  BY <1>6 DEF NetExit
<1>. QED
  BY <1>1, <1>2, <1>3, <1>4, <1>5, <1>6 DEF Monitor, External

LEMMA NextType == TypeOK /\ [Next]_vars => TypeOK'
<1>1. ASSUME TypeOK, UNCHANGED vars PROVE TypeOK'
  BY <1>1 DEF vars, registry, calls, child, TypeOK
<1>2. ASSUME TypeOK, Next PROVE TypeOK'
  BY <1>2, ArriveType, StartType, StopType, DeleteType, BackgroundType
     DEF Next, Work, Outside, Step
<1>. QED
  BY <1>1, <1>2

(* The manager's state is well formed, mgr.mu is held across steps only by *)
(* a Start between its check and its mark, and vm and vmNet are not nil    *)
(* where Start and Stop use them.                                          *)
THEOREM TypeCorrect == Spec => []TypeOK
BY InitType, NextType, PTL DEF Spec

-----------------------------------------------------------------------------
(* Entries of the maps are monitored                                       *)

(* A Start holds an incarnation of its own from the request until it lets  *)
(* the monitor have it: no other Start has it, and no monitor runs yet.    *)
Launch == StartPCs \ {"fail"}

Preparing ==
  /\ \A p, q \in Procs : pc[p] \in Launch /\ pc[q] \in Launch /\ p # q
       => vm[p] # vm[q]
  /\ \A p \in Procs :
       /\ pc[p] \in Launch => mon[vm[p]] = "idle"
       /\ pc[p] \in {"spawn", "register", "running"} =>
            owner[vm[p]] = target[p]
       /\ pc[p] \in {"register", "running"} => vmState[vm[p]] # "unused"
  /\ \A v \in VMs : vmState[v] = "unused" => mon[v] = "idle"

IInv == TypeOK /\ RegisteredIsMonitored /\ Preparing

LEMMA InitInv == Init => IInv
<1>. SUFFICES ASSUME Init PROVE IInv
  OBVIOUS
<1>1. RegisteredIsMonitored
  BY DEF Init, RegisteredIsMonitored
<1>2. Preparing
  BY DEF Init, Preparing, Launch, StartPCs
<1>. QED
  BY <1>1, <1>2, InitType DEF IInv

(* What an action may change without a reason of its own to keep the       *)
(* invariant: states, handles and positions of goroutines outside Launch,  *)
(* networks, sockets, and the fate of a child that was started.            *)
LEMMA Frame ==
  ASSUME IInv, TypeOK', UNCHANGED <<vms, owner, mon>>,
         \A p \in Procs :
           \/ pc[p] = pc'[p] /\ vm[p] = vm'[p] /\ target[p] = target'[p]
           \/ pc[p] # "running" /\ pc'[p] \notin Launch
           \/ /\ pc[p] \in Launch \ {"running"} /\ pc'[p] \in Launch
              /\ pc'[p] \in {"start", "mark", "net", "closeNet"}
              /\ vm[p] = vm'[p] /\ target[p] = target'[p],
         \A v \in VMs : vmState'[v] = "unused" <=> vmState[v] = "unused"
  PROVE  IInv'
<1>1. RegisteredIsMonitored'
  BY DEF IInv, RegisteredIsMonitored, TypeOK
<1>2. Preparing'
  BY DEF IInv, Preparing, TypeOK, Launch, StartPCs, HandlePCs
<1>. QED
  BY <1>1, <1>2 DEF IInv

(* An incarnation that a Start prepares is not registered yet.             *)
LEMMA NotYetRegistered ==
  ASSUME IInv, NEW p \in Procs, pc[p] \in Launch \ {"running"}, NEW m \in Machines
  PROVE  vms[m] # vm[p]
<1>1. vm[p] # None /\ mon[vm[p]] = "idle"
  BY DEF IInv, TypeOK, Preparing, Launch, HandlePCs
<1>. QED
  BY <1>1 DEF IInv, RegisteredIsMonitored, Preparing, Launch, StartPCs

LEMMA ArriveInv == IInv /\ Arrive => IInv'
<1>. SUFFICES ASSUME IInv, Arrive PROVE IInv'
  OBVIOUS
<1>0. TypeOK'
  BY ArriveType DEF IInv
<1>. USE DEF registry, calls, child, Local
<1>1. ASSUME NEW m \in Machines, Create(m) PROVE IInv'
  BY <1>0, <1>1, Frame DEF Create
<1>2. ASSUME NEW m \in Machines, NEW p \in Starters, CallStart(p, m) PROVE IInv'
  <2>1. PICK v \in VMs : Fresh(v) /\ Call(p, m, "start", v)
    BY <1>2 DEF CallStart
  <2>2. RegisteredIsMonitored'
    BY <1>0, <2>1 DEF Call, IInv, TypeOK, RegisteredIsMonitored
  <2>3. Preparing'
    BY <1>0, <2>1
       DEF Call, Fresh, IInv, TypeOK, Preparing, Launch, StartPCs
  <2>. QED
    BY <1>0, <2>2, <2>3 DEF IInv
<1>3. ASSUME NEW m \in Machines, NEW p \in Stoppers, CallStop(p, m) PROVE IInv'
  BY <1>0, <1>3, Frame DEF CallStop, Call, IInv, TypeOK, Launch, StartPCs
<1>4. ASSUME NEW m \in Machines, NEW p \in Deleters, CallDelete(p, m) PROVE IInv'
  BY <1>0, <1>4, Frame DEF CallDelete, Call, IInv, TypeOK, Launch, StartPCs
<1>. QED
  BY <1>1, <1>2, <1>3, <1>4 DEF Arrive

LEMMA StartInv ==
  ASSUME IInv, NEW p \in Procs, StartStep(p) PROVE IInv'
<1>0. TypeOK'
  BY StartType DEF IInv
<1>. USE DEF registry, calls, child, Local, Goto, Return, SetState, Launch, StartPCs
<1>1. CASE StartRefused(p)
  BY <1>0, <1>1, Frame DEF StartRefused, IInv, TypeOK
<1>2. CASE StartAccepted(p)
  BY <1>0, <1>2, Frame DEF StartAccepted, IInv, TypeOK
<1>3. CASE StartMark(p)
  BY <1>0, <1>3, Frame DEF StartMark, IInv, TypeOK
<1>4. CASE StartNetwork(p)
  <2>0. vm[p] \in VMs
    BY <1>4 DEF StartNetwork, IInv, TypeOK, HandlePCs
  <2>1. RegisteredIsMonitored'
    BY <1>0, <1>4, <2>0, NotYetRegistered
       DEF StartNetwork, IInv, TypeOK, RegisteredIsMonitored
  <2>2. Preparing'
    BY <1>0, <1>4, <2>0 DEF StartNetwork, IInv, TypeOK, Preparing
  <2>. QED
    BY <1>0, <2>1, <2>2 DEF IInv
<1>5. CASE StartNoNetwork(p)
  BY <1>0, <1>5, Frame DEF StartNoNetwork, IInv, TypeOK
<1>6. CASE StartSpawn(p)
  <2>0. vm[p] \in VMs
    BY <1>6 DEF StartSpawn, IInv, TypeOK, HandlePCs
  <2>1. RegisteredIsMonitored'
    BY <1>0, <1>6 DEF StartSpawn, IInv, TypeOK, RegisteredIsMonitored
  <2>2. Preparing'
    BY <1>0, <1>6, <2>0 DEF StartSpawn, IInv, TypeOK, Preparing
  <2>. QED
    BY <1>0, <2>1, <2>2 DEF IInv
<1>7. CASE StartNoSpawn(p)
  <2>0. vm[p] \in VMs
    BY <1>7 DEF StartNoSpawn, IInv, TypeOK, HandlePCs
  <2>1. RegisteredIsMonitored'
    BY <1>0, <1>7 DEF StartNoSpawn, IInv, TypeOK, RegisteredIsMonitored
  <2>2. Preparing'
    BY <1>0, <1>7, <2>0 DEF StartNoSpawn, IInv, TypeOK, Preparing
  <2>. QED
    BY <1>0, <2>1, <2>2 DEF IInv
<1>8. CASE StartCloseNet(p)
  BY <1>0, <1>8, Frame DEF StartCloseNet, IInv, TypeOK
<1>9. CASE StartFail(p)
  BY <1>0, <1>9, Frame DEF StartFail, IInv, TypeOK
<1>10. CASE StartRegister(p)
  <2>0. vm[p] \in VMs /\ owner[vm[p]] = target[p] /\ pc[p] = "register"
    BY <1>10 DEF StartRegister, IInv, TypeOK, HandlePCs, Preparing
  <2>1. RegisteredIsMonitored'
    BY <1>0, <1>10, <2>0
       DEF StartRegister, IInv, TypeOK, RegisteredIsMonitored
  <2>2. Preparing'
    BY <1>0, <1>10, <2>0 DEF StartRegister, IInv, TypeOK, Preparing
  <2>. QED
    BY <1>0, <2>1, <2>2 DEF IInv
<1>11. CASE StartRunning(p)
  <2>0. vm[p] \in VMs /\ pc[p] = "running" /\ vmState[vm[p]] # "unused"
    BY <1>11 DEF StartRunning, IInv, TypeOK, HandlePCs, Preparing
  <2>1. RegisteredIsMonitored'
    BY <1>0, <1>11, <2>0
       DEF StartRunning, IInv, TypeOK, RegisteredIsMonitored
  <2>2. Preparing'
    BY <1>0, <1>11, <2>0 DEF StartRunning, IInv, TypeOK, Preparing, HandlePCs
  <2>. QED
    BY <1>0, <2>1, <2>2 DEF IInv
<1>. QED
  BY <1>1, <1>2, <1>3, <1>4, <1>5, <1>6, <1>7, <1>8, <1>9, <1>10, <1>11
     DEF StartStep

(* Clearing an entry of the maps never hurts: what is left is monitored.   *)
LEMMA ClearEntry ==
  ASSUME IInv, TypeOK', NEW m \in Machines \cup {None}, Unregister(m),
         UNCHANGED <<owner, mon>>,
         \A p \in Procs : pc[p] = "running" =>
           pc'[p] = "running" /\ vm'[p] = vm[p]
  PROVE  RegisteredIsMonitored'
BY DEF Unregister, IInv, TypeOK, RegisteredIsMonitored

LEMMA StopInv ==
  ASSUME IInv, NEW p \in Procs, StopStep(p) PROVE IInv'
<1>0. TypeOK'
  BY StopType DEF IInv
<1>. USE DEF registry, calls, child, Local, Goto, Return, SetState, Launch, StartPCs
<1>1. CASE StopNotFound(p) \/ StopLookup(p) \/ StopRefused(p) \/ StopAccepted(p)
  BY <1>0, <1>1, Frame
     DEF StopNotFound, StopLookup, StopRefused, StopAccepted, IInv, TypeOK
<1>2. CASE StopMark(p) \/ StopNoVM(p) \/ StopClose(p)
  BY <1>0, <1>2, Frame DEF StopMark, StopNoVM, StopClose, IInv, TypeOK
<1>3. CASE StopRPC(p)
  BY <1>0, <1>3, Frame DEF StopRPC, IInv, TypeOK
<1>4. CASE StopKill(p)
  BY <1>0, <1>4, Frame DEF StopKill, Running, IInv, TypeOK
<1>5. CASE StopRPCFailed(p) \/ StopExited(p) \/ StopWaitTimeout(p)
  BY <1>0, <1>5, Frame
     DEF StopRPCFailed, StopExited, StopWaitTimeout, IInv, TypeOK
<1>6. CASE StopPoll(p) \/ StopWake(p) \/ StopDeadline(p) \/ StopForceState(p)
  BY <1>0, <1>6, Frame
     DEF StopPoll, StopWake, StopDeadline, StopForceState, IInv, TypeOK
<1>7. CASE StopForceDelete(p)
  <2>1. RegisteredIsMonitored'
    BY <1>0, <1>7, ClearEntry DEF StopForceDelete, IInv, TypeOK
  <2>2. Preparing'
    BY <1>0, <1>7 DEF StopForceDelete, IInv, TypeOK, Preparing
  <2>. QED
    BY <1>0, <2>1, <2>2 DEF IInv
<1>. QED
  BY <1>1, <1>2, <1>3, <1>4, <1>5, <1>6, <1>7 DEF StopStep

LEMMA DeleteInv ==
  ASSUME IInv, NEW p \in Procs, DeleteStep(p) PROVE IInv'
<1>0. TypeOK'
  BY DeleteType DEF IInv
<1>1. CASE DeleteRefused(p)
  BY <1>0, <1>1, Frame DEF DeleteRefused, registry, child, Local, Return,
                           Launch, StartPCs, IInv, TypeOK
<1>2. CASE DeleteRecord(p)
  BY <1>0, <1>2, Frame DEF DeleteRecord, child, Return, Goto,
                           Launch, StartPCs, IInv, TypeOK
<1>3. CASE DeleteRootfs(p)
  BY <1>0, <1>3, Frame DEF DeleteRootfs, child, Return,
                           Launch, StartPCs, IInv, TypeOK
<1>. QED
  BY <1>1, <1>2, <1>3 DEF DeleteStep

(* A monitor advances, clears the entry of its own machine and ends; only  *)
(* its last step could leave an entry that nobody watches.                 *)
LEMMA BackgroundInv ==
  ASSUME IInv, NEW v \in VMs, Monitor(v) \/ External(v) PROVE IInv'
<1>0. TypeOK'
  BY BackgroundType DEF IInv
<1>. USE DEF registry, calls, child
<1>1. CASE MonitorClose(v) \/ MonitorStopped(v)
  <2>1. RegisteredIsMonitored'
    BY <1>1 DEF MonitorClose, MonitorStopped, IInv, TypeOK, RegisteredIsMonitored
  <2>2. Preparing'
    BY <1>1 DEF MonitorClose, MonitorStopped, IInv, TypeOK, Preparing, Launch,
                HandlePCs
  <2>. QED
    BY <1>0, <2>1, <2>2 DEF IInv
<1>2. CASE MonitorDelete(v)
  <2>1. RegisteredIsMonitored'
    BY <1>0, <1>2
       DEF MonitorDelete, Unregister, IInv, TypeOK, RegisteredIsMonitored
  <2>2. Preparing'
    BY <1>2 DEF MonitorDelete, IInv, TypeOK, Preparing, Launch, HandlePCs
  <2>. QED
    BY <1>0, <2>1, <2>2 DEF IInv
<1>3. CASE VmmBoot(v)
  BY <1>0, <1>3, Frame DEF VmmBoot, IInv, TypeOK
<1>4. CASE VmmExit(v)
  BY <1>0, <1>4, Frame DEF VmmExit, Running, IInv, TypeOK
<1>5. CASE NetExit(v)
  BY <1>0, <1>5, Frame DEF NetExit
<1>. QED
  BY <1>1, <1>2, <1>3, <1>4, <1>5 DEF Monitor, External

LEMMA NextInv == IInv /\ [Next]_vars => IInv'
<1>1. ASSUME IInv, UNCHANGED vars PROVE IInv'
  BY <1>1 DEF vars, registry, calls, child, IInv, TypeOK, RegisteredIsMonitored,
              Preparing
<1>2. ASSUME IInv, Next PROVE IInv'
  BY <1>2, ArriveInv, StartInv, StopInv, DeleteInv, BackgroundInv
     DEF Next, Work, Outside, Step
<1>. QED
  BY <1>1, <1>2

(* No entry of mgr.vms or mgr.networks outlives the goroutine that clears  *)
(* it, for any number of overlapping Starts, Stops and Deletes.            *)
THEOREM EntriesAreMonitored == Spec => []RegisteredIsMonitored
<1>1. IInv => RegisteredIsMonitored
  BY DEF IInv
<1>. QED
  BY <1>1, InitInv, NextInv, PTL DEF Spec

-----------------------------------------------------------------------------
(* When a Start overlaps nothing                                           *)

Active == {"wait", "closed", "stopped"}

Decided == {"mark", "net", "spawn", "closeNet", "fail", "register", "running"}

Handled == StopPCs \ {"stop"}

(* A Start has its machine to itself.                                      *)
Alone ==
  \A p \in Procs : pc[p] \in StartPCs =>
    /\ \A q \in Procs : target[q] = target[p] => q = p
    /\ \A v \in VMs : owner[v] = target[p] => mon[v] \in {"idle", "done"}

OneMonitor ==
  \A v, w \in VMs :
    mon[v] \in Active /\ mon[w] \in Active /\ owner[v] = owner[w] => v = w

(* What a Start finds as it left it.                                       *)
StartKeeps ==
  \A p \in Procs :
    /\ pc[p] = "mark" => state[target[p]] \in AtRest
    /\ pc[p] \in Decided \ {"mark"} => state[target[p]] = "starting"
    /\ pc[p] \in Decided => target[p] \in machines
    /\ pc[p] \in {"start", "mark", "net", "spawn"} => vmState[vm[p]] = "unused"
    /\ pc[p] = "running" => vms[target[p]] = vm[p]

(* Whose business a running child is.                                      *)
ChildHasKeeper ==
  \A v \in VMs : vmState[v] \in Running =>
    \/ \E p \in Procs : pc[p] \in {"register", "running"} /\ vm[p] = v
    \/ /\ mon[v] = "wait"
       /\ owner[v] \in machines
       /\ state[owner[v]] \in {"running", "stopping"}
       /\ vms[owner[v]] = v

(* A Stop has hold of the only child there may be, and has killed it or    *)
(* seen it exit before it takes it for gone.                               *)
StopHolds ==
  \A p \in Procs : pc[p] \in Handled =>
    /\ \A v \in VMs : owner[v] = target[p] /\ vmState[v] \in Running => vm[p] = v
    /\ vm[p] # None => vmState[vm[p]] # "unused"
    /\ pc[p] = "noVM" => vm[p] = None
    /\ pc[p] \in {"poll", "sleep", "forceState", "forceDelete"} =>
         vmState[vm[p]] \in {"killed", "exited"}
    /\ pc[p] \in {"rpc", "wait", "kill"} => net[vm[p]] # "open"

(* A machine that a monitor or an accepted Stop has to do with has run.    *)
HasRun(m) == m \in Machines /\ state[m] \in {"running", "stopping", "stopped"}

BusyHasRun ==
  /\ \A v \in VMs : mon[v] \in Active => HasRun(owner[v])
  /\ \A p \in Procs : pc[p] \in Handled \ {"check"} => HasRun(target[p])

MonitorSawExit ==
  \A v \in VMs : mon[v] \in {"closed", "stopped", "done"} => vmState[v] = "exited"

Records ==
  /\ \A p \in Procs : pc[p] # "idle" => state[target[p]] # "absent"
  /\ \A p \in Procs : pc[p] = "rmroot" => target[p] \notin machines
  /\ machines \subseteq rootfs
  /\ \A m \in Machines, v \in VMs :
       listener[m] = v => owner[v] = m /\ vmState[v] # "unused"

Order ==
  /\ Alone /\ OneMonitor /\ StartKeeps /\ ChildHasKeeper /\ StopHolds
  /\ BusyHasRun /\ MonitorSawExit /\ Records /\ NetworkClosedFirst


LEMMA InitOrder == Init => Order
BY DEF Init, Order, Alone, OneMonitor, StartKeeps, ChildHasKeeper, StopHolds,
   BusyHasRun, MonitorSawExit, Records, NetworkClosedFirst, Active, Decided,
   Handled, StartPCs, StopPCs, Running

-----------------------------------------------------------------------------
(* Every step keeps each part of Order                                     *)

(* A Start arrives at a quiet machine, requests wait for it to return, and *)
(* only StartRunning launches a monitor.                                   *)
LEMMA AloneKept ==
  ASSUME ~Overlap, IInv, TypeOK', Order, Next PROVE Alone'
<1>. USE DEF registry, calls, child, Local, Goto, Return, SetState, Close,
     Unregister, IInv, Order, Alone, Preparing, TypeOK, Launch, StartPCs,
     StopPCs, HandlePCs
<1>1. CASE Arrive
  BY <1>1 DEF Arrive, Create, CallStart, CallStop, CallDelete, Call, Quiet, Fresh,
              Starting
<1>2. ASSUME NEW p \in Procs, StartStep(p) PROVE Alone'
  <2>1. CASE StartNetwork(p)
    BY <2>1 DEF StartNetwork
  <2>2. CASE StartRunning(p)
    BY <2>2 DEF StartRunning
  <2>3. CASE StartRefused(p) \/ StartAccepted(p) \/ StartMark(p) \/
            StartNoNetwork(p) \/ StartSpawn(p) \/ StartNoSpawn(p) \/
            StartCloseNet(p) \/ StartFail(p) \/ StartRegister(p)
    BY <2>3 DEF StartRefused, StartAccepted, StartMark, StartNoNetwork,
         StartSpawn, StartNoSpawn, StartCloseNet, StartFail, StartRegister
  <2>. QED
    BY <1>2, <2>1, <2>2, <2>3 DEF StartStep
<1>3. ASSUME NEW p \in Procs, StopStep(p) PROVE Alone'
  BY <1>3 DEF StopStep, StopNotFound, StopLookup, StopRefused, StopAccepted,
       StopMark, StopNoVM, StopClose, StopRPC, StopRPCFailed, StopExited,
       StopWaitTimeout, StopKill, StopPoll, StopWake, StopDeadline,
       StopForceState, StopForceDelete
<1>4. ASSUME NEW p \in Procs, DeleteStep(p) PROVE Alone'
  BY <1>4 DEF DeleteStep, DeleteRefused, DeleteRecord, DeleteRootfs
<1>5. ASSUME NEW v \in VMs, Monitor(v) PROVE Alone'
  BY <1>5 DEF Monitor, MonitorClose, MonitorStopped, MonitorDelete
<1>6. ASSUME NEW v \in VMs, External(v) PROVE Alone'
  BY <1>6 DEF External, VmmBoot, VmmExit, NetExit
<1>. QED
  BY <1>1, <1>2, <1>3, <1>4, <1>5, <1>6 DEF Next, Work, Outside, Step

(* A monitor is launched by a Start, which finds none for its machine.     *)
LEMMA OneMonitorKept ==
  ASSUME ~Overlap, IInv, TypeOK', Order, Next PROVE OneMonitor'
<1>. USE DEF registry, calls, child, Local, Goto, Return, SetState, Close,
     Unregister, IInv, Order, OneMonitor, Alone, Preparing, TypeOK, Active,
     Launch, StartPCs, HandlePCs
<1>1. CASE Arrive
  BY <1>1 DEF Arrive, Create, CallStart, CallStop, CallDelete, Call, Quiet, Fresh,
              Starting
<1>2. ASSUME NEW p \in Procs, StartStep(p) PROVE OneMonitor'
  <2>1. CASE StartNetwork(p)
    BY <2>1 DEF StartNetwork
  <2>2. CASE StartRunning(p)
    BY <2>2 DEF StartRunning
  <2>3. CASE StartRefused(p) \/ StartAccepted(p) \/ StartMark(p) \/
            StartNoNetwork(p) \/ StartSpawn(p) \/ StartNoSpawn(p) \/
            StartCloseNet(p) \/ StartFail(p) \/ StartRegister(p)
    BY <2>3 DEF StartRefused, StartAccepted, StartMark, StartNoNetwork,
         StartSpawn, StartNoSpawn, StartCloseNet, StartFail, StartRegister
  <2>. QED
    BY <1>2, <2>1, <2>2, <2>3 DEF StartStep
<1>3. ASSUME NEW p \in Procs, StopStep(p) PROVE OneMonitor'
  BY <1>3 DEF StopStep, StopNotFound, StopLookup, StopRefused, StopAccepted,
       StopMark, StopNoVM, StopClose, StopRPC, StopRPCFailed, StopExited,
       StopWaitTimeout, StopKill, StopPoll, StopWake, StopDeadline,
       StopForceState, StopForceDelete
<1>4. ASSUME NEW p \in Procs, DeleteStep(p) PROVE OneMonitor'
  BY <1>4 DEF DeleteStep, DeleteRefused, DeleteRecord, DeleteRootfs
<1>5. ASSUME NEW v \in VMs, Monitor(v) PROVE OneMonitor'
  BY <1>5 DEF Monitor, MonitorClose, MonitorStopped, MonitorDelete
<1>6. ASSUME NEW v \in VMs, External(v) PROVE OneMonitor'
  BY <1>6 DEF External, VmmBoot, VmmExit, NetExit
<1>. QED
  BY <1>1, <1>2, <1>3, <1>4, <1>5, <1>6 DEF Next, Work, Outside, Step

(* While a Start works, no other goroutine and no monitor writes the       *)
(* state, the record or the map entries of its machine.                    *)
LEMMA StartKeepsKept ==
  ASSUME ~Overlap, IInv, TypeOK', Order, Next PROVE StartKeeps'
<1>. USE DEF registry, calls, child, Local, Goto, Return, SetState, Close,
     Unregister, IInv, Order, StartKeeps, Alone, Records, Preparing, TypeOK,
     AtRest, Decided, Launch, StartPCs, StopPCs, HandlePCs, Running
<1>1. CASE Arrive
  BY <1>1 DEF Arrive, Create, CallStart, CallStop, CallDelete, Call, Quiet, Fresh,
              Starting
<1>2. ASSUME NEW p \in Procs, StartStep(p) PROVE StartKeeps'
  BY <1>2 DEF StartStep, StartRefused, StartAccepted, StartMark, StartNetwork,
       StartNoNetwork, StartSpawn, StartNoSpawn, StartCloseNet, StartFail,
       StartRegister, StartRunning
<1>3. ASSUME NEW p \in Procs, StopStep(p) PROVE StartKeeps'
  BY <1>3 DEF StopStep, StopNotFound, StopLookup, StopRefused, StopAccepted,
       StopMark, StopNoVM, StopClose, StopRPC, StopRPCFailed, StopExited,
       StopWaitTimeout, StopKill, StopPoll, StopWake, StopDeadline,
       StopForceState, StopForceDelete
<1>4. ASSUME NEW p \in Procs, DeleteStep(p) PROVE StartKeeps'
  BY <1>4 DEF DeleteStep, DeleteRefused, DeleteRecord, DeleteRootfs
<1>5. ASSUME NEW v \in VMs, Monitor(v) PROVE StartKeeps'
  BY <1>5 DEF Monitor, MonitorClose, MonitorStopped, MonitorDelete
<1>6. ASSUME NEW v \in VMs, External(v) PROVE StartKeeps'
  BY <1>6 DEF External, VmmBoot, VmmExit, NetExit
<1>. QED
  BY <1>1, <1>2, <1>3, <1>4, <1>5, <1>6 DEF Next, Work, Outside, Step

(* The steps that set a machine to stopped or clear its entries --         *)
(* StopNoVM, StopForceState, StopForceDelete, StartFail and the monitor's  *)
(* -- come when the child they are about is no longer running; Delete      *)
(* wants a machine at rest.                                                *)
LEMMA ChildHasKeeperKept ==
  ASSUME ~Overlap, IInv, TypeOK', Order, Next PROVE ChildHasKeeper'
<1>. USE DEF registry, calls, child, Local, Goto, Return, SetState, Close,
     Unregister, IInv, Order, ChildHasKeeper, Alone, OneMonitor, StartKeeps,
     StopHolds, Records, Preparing, TypeOK, AtRest, Active, Decided, Launch,
     StartPCs, StopPCs, Handled, HandlePCs, Running
<1>1. CASE Arrive
  BY <1>1 DEF Arrive, Create, CallStart, CallStop, CallDelete, Call, Quiet, Fresh,
              Starting
<1>2. ASSUME NEW p \in Procs, StartStep(p) PROVE ChildHasKeeper'
  <2>1. CASE StartMark(p)
    BY <2>1 DEF StartMark
  <2>2. CASE StartSpawn(p)
    BY <2>2 DEF StartSpawn
  <2>3. CASE StartFail(p)
    BY <2>3 DEF StartFail
  <2>4. CASE StartRegister(p)
    BY <2>4 DEF StartRegister
  <2>5. CASE StartRunning(p)
    BY <2>5 DEF StartRunning
  <2>6. CASE StartRefused(p) \/ StartAccepted(p) \/ StartNetwork(p) \/
            StartNoNetwork(p) \/ StartNoSpawn(p) \/ StartCloseNet(p)
    BY <2>6 DEF StartRefused, StartAccepted, StartNetwork, StartNoNetwork,
         StartNoSpawn, StartCloseNet
  <2>. QED
    BY <1>2, <2>1, <2>2, <2>3, <2>4, <2>5, <2>6 DEF StartStep
<1>3. ASSUME NEW p \in Procs, StopStep(p) PROVE ChildHasKeeper'
  <2>1. CASE StopMark(p)
    BY <2>1 DEF StopMark
  <2>2. CASE StopNoVM(p)
    BY <2>2 DEF StopNoVM
  <2>3. CASE StopRPC(p)
    BY <2>3 DEF StopRPC
  <2>4. CASE StopKill(p)
    BY <2>4 DEF StopKill
  <2>5. CASE StopForceState(p)
    BY <2>5 DEF StopForceState
  <2>6. CASE StopForceDelete(p)
    BY <2>6 DEF StopForceDelete
  <2>7. CASE StopNotFound(p) \/ StopLookup(p) \/ StopRefused(p) \/
            StopAccepted(p) \/ StopClose(p) \/ StopRPCFailed(p) \/
            StopExited(p) \/ StopWaitTimeout(p) \/ StopPoll(p) \/
            StopWake(p) \/ StopDeadline(p)
    BY <2>7 DEF StopNotFound, StopLookup, StopRefused, StopAccepted,
         StopClose, StopRPCFailed, StopExited, StopWaitTimeout, StopPoll,
         StopWake, StopDeadline
  <2>. QED
    BY <1>3, <2>1, <2>2, <2>3, <2>4, <2>5, <2>6, <2>7 DEF StopStep
<1>4. ASSUME NEW p \in Procs, DeleteStep(p) PROVE ChildHasKeeper'
  <2>1. CASE DeleteRecord(p)
    BY <2>1 DEF DeleteRecord
  <2>2. CASE DeleteRefused(p) \/ DeleteRootfs(p)
    BY <2>2 DEF DeleteRefused, DeleteRootfs
  <2>. QED
    BY <1>4, <2>1, <2>2 DEF DeleteStep
<1>5. ASSUME NEW v \in VMs, Monitor(v) PROVE ChildHasKeeper'
  <2>1. CASE MonitorClose(v)
    BY <2>1 DEF MonitorClose
  <2>2. CASE MonitorStopped(v)
    BY <2>2 DEF MonitorStopped
  <2>3. CASE MonitorDelete(v)
    BY <2>3 DEF MonitorDelete
  <2>. QED
    BY <1>5, <2>1, <2>2, <2>3 DEF Monitor
<1>6. ASSUME NEW v \in VMs, External(v) PROVE ChildHasKeeper'
  BY <1>6 DEF External, VmmBoot, VmmExit, NetExit
<1>. QED
  BY <1>1, <1>2, <1>3, <1>4, <1>5, <1>6 DEF Next, Work, Outside, Step

(* StopLookup finds the running child in the map, for no Start has one     *)
(* that it has yet to register; from then on no Start gives the machine    *)
(* another, and only StopExited and StopKill lead on to the steps that     *)
(* take the child for gone.                                                *)
LEMMA StopHoldsKept ==
  ASSUME ~Overlap, IInv, TypeOK', Order, Next PROVE StopHolds'
<1>. USE DEF registry, calls, child, Local, Goto, Return, SetState, Close,
     Unregister, IInv, Order, StopHolds, Alone, ChildHasKeeper, StartKeeps,
     MonitorSawExit, RegisteredIsMonitored, Preparing, TypeOK, VMStates,
     Launch, StartPCs, StopPCs, Handled, HandlePCs, Running
<1>1. CASE Arrive
  BY <1>1 DEF Arrive, Create, CallStart, CallStop, CallDelete, Call, Quiet, Fresh,
              Starting
<1>2. ASSUME NEW p \in Procs, StartStep(p) PROVE StopHolds'
  <2>1. CASE StartNetwork(p)
    BY <2>1 DEF StartNetwork
  <2>2. CASE StartSpawn(p)
    BY <2>2 DEF StartSpawn
  <2>3. CASE StartNoSpawn(p)
    BY <2>3 DEF StartNoSpawn
  <2>4. CASE StartRefused(p) \/ StartAccepted(p) \/ StartMark(p) \/
            StartNoNetwork(p) \/ StartCloseNet(p) \/ StartFail(p) \/
            StartRegister(p) \/ StartRunning(p)
    BY <2>4 DEF StartRefused, StartAccepted, StartMark, StartNoNetwork,
         StartCloseNet, StartFail, StartRegister, StartRunning
  <2>. QED
    BY <1>2, <2>1, <2>2, <2>3, <2>4 DEF StartStep
<1>3. ASSUME NEW p \in Procs, StopStep(p) PROVE StopHolds'
  <2>1. CASE StopLookup(p)
    BY <2>1 DEF StopLookup
  <2>2. CASE StopMark(p)
    BY <2>2 DEF StopMark
  <2>3. CASE StopClose(p)
    BY <2>3 DEF StopClose
  <2>4. CASE StopRPC(p)
    BY <2>4 DEF StopRPC
  <2>5. CASE StopExited(p)
    BY <2>5 DEF StopExited
  <2>6. CASE StopKill(p)
    BY <2>6 DEF StopKill
  <2>7. CASE StopNotFound(p) \/ StopRefused(p) \/ StopAccepted(p) \/
            StopNoVM(p) \/ StopRPCFailed(p) \/ StopWaitTimeout(p) \/
            StopPoll(p) \/ StopWake(p) \/ StopDeadline(p) \/
            StopForceState(p) \/ StopForceDelete(p)
    BY <2>7 DEF StopNotFound, StopRefused, StopAccepted, StopNoVM,
         StopRPCFailed, StopWaitTimeout, StopPoll, StopWake, StopDeadline,
         StopForceState, StopForceDelete
  <2>. QED
    BY <1>3, <2>1, <2>2, <2>3, <2>4, <2>5, <2>6, <2>7 DEF StopStep
<1>4. ASSUME NEW p \in Procs, DeleteStep(p) PROVE StopHolds'
  BY <1>4 DEF DeleteStep, DeleteRefused, DeleteRecord, DeleteRootfs
<1>5. ASSUME NEW v \in VMs, Monitor(v) PROVE StopHolds'
  BY <1>5 DEF Monitor, MonitorClose, MonitorStopped, MonitorDelete
<1>6. ASSUME NEW v \in VMs, External(v) PROVE StopHolds'
  BY <1>6 DEF External, VmmBoot, VmmExit, NetExit
<1>. QED
  BY <1>1, <1>2, <1>3, <1>4, <1>5, <1>6 DEF Next, Work, Outside, Step

(* Create takes an id that was never used and StartMark a machine that     *)
(* nothing else is busy with; every other write of the state is running,   *)
(* stopping or stopped.                                                    *)
LEMMA BusyHasRunKept ==
  ASSUME ~Overlap, IInv, TypeOK', Order, Next PROVE BusyHasRun'
<1>. USE DEF registry, calls, child, Local, Goto, Return, SetState, Close,
     Unregister, IInv, Order, BusyHasRun, HasRun, Alone, Records, Preparing,
     TypeOK, Active, Handled, Launch, StartPCs, StopPCs, HandlePCs
<1>1. CASE Arrive
  BY <1>1 DEF Arrive, Create, CallStart, CallStop, CallDelete, Call, Quiet, Fresh,
              Starting
<1>2. ASSUME NEW p \in Procs, StartStep(p) PROVE BusyHasRun'
  <2>1. CASE StartMark(p)
    BY <2>1 DEF StartMark
  <2>2. CASE StartNetwork(p)
    BY <2>2 DEF StartNetwork
  <2>3. CASE StartRunning(p)
    BY <2>3 DEF StartRunning
  <2>4. CASE StartRefused(p) \/ StartAccepted(p) \/ StartNoNetwork(p) \/
            StartSpawn(p) \/ StartNoSpawn(p) \/ StartCloseNet(p) \/
            StartFail(p) \/ StartRegister(p)
    BY <2>4 DEF StartRefused, StartAccepted, StartNoNetwork, StartSpawn,
         StartNoSpawn, StartCloseNet, StartFail, StartRegister
  <2>. QED
    BY <1>2, <2>1, <2>2, <2>3, <2>4 DEF StartStep
<1>3. ASSUME NEW p \in Procs, StopStep(p) PROVE BusyHasRun'
  <2>1. CASE StopAccepted(p)
    BY <2>1 DEF StopAccepted
  <2>2. CASE StopNotFound(p) \/ StopLookup(p) \/ StopRefused(p) \/
            StopMark(p) \/ StopNoVM(p) \/ StopClose(p) \/ StopRPC(p) \/
            StopRPCFailed(p) \/ StopExited(p) \/ StopWaitTimeout(p) \/
            StopKill(p) \/ StopPoll(p) \/ StopWake(p) \/ StopDeadline(p)
            \/ StopForceState(p) \/ StopForceDelete(p)
    BY <2>2 DEF StopNotFound, StopLookup, StopRefused, StopMark, StopNoVM,
         StopClose, StopRPC, StopRPCFailed, StopExited, StopWaitTimeout,
         StopKill, StopPoll, StopWake, StopDeadline, StopForceState,
         StopForceDelete
  <2>. QED
    BY <1>3, <2>1, <2>2 DEF StopStep
<1>4. ASSUME NEW p \in Procs, DeleteStep(p) PROVE BusyHasRun'
  BY <1>4 DEF DeleteStep, DeleteRefused, DeleteRecord, DeleteRootfs
<1>5. ASSUME NEW v \in VMs, Monitor(v) PROVE BusyHasRun'
  BY <1>5 DEF Monitor, MonitorClose, MonitorStopped, MonitorDelete
<1>6. ASSUME NEW v \in VMs, External(v) PROVE BusyHasRun'
  BY <1>6 DEF External, VmmBoot, VmmExit, NetExit
<1>. QED
  BY <1>1, <1>2, <1>3, <1>4, <1>5, <1>6 DEF Next, Work, Outside, Step

(* A child that exited does not run again.                                 *)
LEMMA MonitorSawExitKept ==
  ASSUME ~Overlap, IInv, TypeOK', Order, Next PROVE MonitorSawExit'
<1>. USE DEF registry, calls, child, Local, Goto, Return, SetState, Close,
     Unregister, IInv, Order, MonitorSawExit, Preparing, TypeOK, Launch,
     StartPCs, HandlePCs, Running
<1>1. CASE Arrive
  BY <1>1 DEF Arrive, Create, CallStart, CallStop, CallDelete, Call, Quiet, Fresh,
              Starting
<1>2. ASSUME NEW p \in Procs, StartStep(p) PROVE MonitorSawExit'
  BY <1>2 DEF StartStep, StartRefused, StartAccepted, StartMark, StartNetwork,
       StartNoNetwork, StartSpawn, StartNoSpawn, StartCloseNet, StartFail,
       StartRegister, StartRunning
<1>3. ASSUME NEW p \in Procs, StopStep(p) PROVE MonitorSawExit'
  BY <1>3 DEF StopStep, StopNotFound, StopLookup, StopRefused, StopAccepted,
       StopMark, StopNoVM, StopClose, StopRPC, StopRPCFailed, StopExited,
       StopWaitTimeout, StopKill, StopPoll, StopWake, StopDeadline,
       StopForceState, StopForceDelete
<1>4. ASSUME NEW p \in Procs, DeleteStep(p) PROVE MonitorSawExit'
  BY <1>4 DEF DeleteStep, DeleteRefused, DeleteRecord, DeleteRootfs
<1>5. ASSUME NEW v \in VMs, Monitor(v) PROVE MonitorSawExit'
  BY <1>5 DEF Monitor, MonitorClose, MonitorStopped, MonitorDelete
<1>6. ASSUME NEW v \in VMs, External(v) PROVE MonitorSawExit'
  BY <1>6 DEF External, VmmBoot, VmmExit, NetExit
<1>. QED
  BY <1>1, <1>2, <1>3, <1>4, <1>5, <1>6 DEF Next, Work, Outside, Step

(* Delete removes the record before the root directory, and an id is not   *)
(* used again while a request has it.                                      *)
LEMMA RecordsKept ==
  ASSUME ~Overlap, IInv, TypeOK', Order, Next PROVE Records'
<1>. USE DEF registry, calls, child, Local, Goto, Return, SetState, Close,
     Unregister, IInv, Order, Records, StartKeeps, Preparing, TypeOK, Launch,
     Decided, StartPCs, StopPCs, HandlePCs, Running
<1>1. CASE Arrive
  BY <1>1 DEF Arrive, Create, CallStart, CallStop, CallDelete, Call, Quiet, Fresh,
              Starting
<1>2. ASSUME NEW p \in Procs, StartStep(p) PROVE Records'
  <2>1. CASE StartNetwork(p)
    BY <2>1 DEF StartNetwork
  <2>2. CASE StartRefused(p) \/ StartAccepted(p) \/ StartMark(p) \/
            StartNoNetwork(p) \/ StartSpawn(p) \/ StartNoSpawn(p) \/
            StartCloseNet(p) \/ StartFail(p) \/ StartRegister(p) \/
            StartRunning(p)
    BY <2>2 DEF StartRefused, StartAccepted, StartMark, StartNoNetwork,
         StartSpawn, StartNoSpawn, StartCloseNet, StartFail, StartRegister,
         StartRunning
  <2>. QED
    BY <1>2, <2>1, <2>2 DEF StartStep
<1>3. ASSUME NEW p \in Procs, StopStep(p) PROVE Records'
  BY <1>3 DEF StopStep, StopNotFound, StopLookup, StopRefused, StopAccepted,
       StopMark, StopNoVM, StopClose, StopRPC, StopRPCFailed, StopExited,
       StopWaitTimeout, StopKill, StopPoll, StopWake, StopDeadline,
       StopForceState, StopForceDelete
<1>4. ASSUME NEW p \in Procs, DeleteStep(p) PROVE Records'
  <2>1. CASE DeleteRecord(p)
    BY <2>1 DEF DeleteRecord
  <2>2. CASE DeleteRootfs(p)
    BY <2>2 DEF DeleteRootfs
  <2>3. CASE DeleteRefused(p)
    BY <2>3 DEF DeleteRefused
  <2>. QED
    BY <1>4, <2>1, <2>2, <2>3 DEF DeleteStep
<1>5. ASSUME NEW v \in VMs, Monitor(v) PROVE Records'
  BY <1>5 DEF Monitor, MonitorClose, MonitorStopped, MonitorDelete
<1>6. ASSUME NEW v \in VMs, External(v) PROVE Records'
  BY <1>6 DEF External, VmmBoot, VmmExit, NetExit
<1>. QED
  BY <1>1, <1>2, <1>3, <1>4, <1>5, <1>6 DEF Next, Work, Outside, Step

(* The child that answers on the machine's socket is the one whose network *)
(* the caller has closed.                                                  *)
LEMMA NetworkClosedFirstKept ==
  ASSUME ~Overlap, IInv, TypeOK', Order, Next PROVE NetworkClosedFirst'
<1>. USE DEF registry, calls, child, Local, Goto, Return, SetState, Close,
     Unregister, IInv, Order, NetworkClosedFirst, StopHolds, StartKeeps,
     Records, TypeOK, StartPCs, StopPCs, Handled, HandlePCs, Running
<1>1. CASE Arrive
  BY <1>1 DEF Arrive, Create, CallStart, CallStop, CallDelete, Call, Quiet, Fresh,
              Starting
<1>2. ASSUME NEW p \in Procs, StartStep(p) PROVE NetworkClosedFirst'
  <2>1. CASE StartNetwork(p)
    BY <2>1 DEF StartNetwork
  <2>2. CASE StartRefused(p) \/ StartAccepted(p) \/ StartMark(p) \/
            StartNoNetwork(p) \/ StartSpawn(p) \/ StartNoSpawn(p) \/
            StartCloseNet(p) \/ StartFail(p) \/ StartRegister(p) \/
            StartRunning(p)
    BY <2>2 DEF StartRefused, StartAccepted, StartMark, StartNoNetwork,
         StartSpawn, StartNoSpawn, StartCloseNet, StartFail, StartRegister,
         StartRunning
  <2>. QED
    BY <1>2, <2>1, <2>2 DEF StartStep
<1>3. ASSUME NEW p \in Procs, StopStep(p) PROVE NetworkClosedFirst'
  <2>1. CASE StopRPC(p)
    BY <2>1 DEF StopRPC
  <2>2. CASE StopNotFound(p) \/ StopLookup(p) \/ StopRefused(p) \/
            StopAccepted(p) \/ StopMark(p) \/ StopNoVM(p) \/ StopClose(p)
            \/ StopRPCFailed(p) \/ StopExited(p) \/ StopWaitTimeout(p) \/
            StopKill(p) \/ StopPoll(p) \/ StopWake(p) \/ StopDeadline(p)
            \/ StopForceState(p) \/ StopForceDelete(p)
    BY <2>2 DEF StopNotFound, StopLookup, StopRefused, StopAccepted, StopMark,
         StopNoVM, StopClose, StopRPCFailed, StopExited, StopWaitTimeout,
         StopKill, StopPoll, StopWake, StopDeadline, StopForceState,
         StopForceDelete
  <2>. QED
    BY <1>3, <2>1, <2>2 DEF StopStep
<1>4. ASSUME NEW p \in Procs, DeleteStep(p) PROVE NetworkClosedFirst'
  BY <1>4 DEF DeleteStep, DeleteRefused, DeleteRecord, DeleteRootfs
<1>5. ASSUME NEW v \in VMs, Monitor(v) PROVE NetworkClosedFirst'
  BY <1>5 DEF Monitor, MonitorClose, MonitorStopped, MonitorDelete
<1>6. ASSUME NEW v \in VMs, External(v) PROVE NetworkClosedFirst'
  BY <1>6 DEF External, VmmBoot, VmmExit, NetExit
<1>. QED
  BY <1>1, <1>2, <1>3, <1>4, <1>5, <1>6 DEF Next, Work, Outside, Step

LEMMA NextOrder == ASSUME ~Overlap PROVE IInv /\ Order /\ [Next]_vars => Order'
<1>1. ASSUME Order, UNCHANGED vars PROVE Order'
  BY <1>1 DEF vars, registry, calls, child, Order, Alone, OneMonitor, StartKeeps,
              ChildHasKeeper, StopHolds, BusyHasRun, HasRun, MonitorSawExit,
              Records, NetworkClosedFirst
<1>2. ASSUME IInv, Order, Next PROVE Order'
  <2>1. TypeOK'
    BY <1>2, NextType DEF IInv
  <2>. QED
    BY <1>2, <2>1, AloneKept, OneMonitorKept, StartKeepsKept, ChildHasKeeperKept,
       StopHoldsKept, BusyHasRunKept, MonitorSawExitKept, RecordsKept,
       NetworkClosedFirstKept
       DEF Order
<1>. QED
  BY <1>1, <1>2

LEMMA Orderly == ASSUME ~Overlap PROVE Spec => [](IInv /\ Order)
BY InitInv, InitOrder, NextInv, NextOrder, PTL DEF Spec

-----------------------------------------------------------------------------
(* What follows                                                            *)

(* The running child of a machine is held by the Start that is about to    *)
(* register it, or it is the registered one and the machine is not at rest.*)
LEMMA KeptChild ==
  ASSUME IInv, Order, NEW m \in Machines, NEW v \in VMs,
         owner[v] = m, vmState[v] \in Running
  PROVE  /\ m \in machines
         /\ state[m] \notin AtRest
         /\ \A w \in VMs : owner[w] = m /\ vmState[w] \in Running => w = v
<1>. USE DEF IInv, Order, ChildHasKeeper, Alone, StartKeeps, Preparing, TypeOK,
             AtRest, Decided, Launch, StartPCs, HandlePCs
<1>1. CASE \E p \in Procs : pc[p] \in {"register", "running"} /\ vm[p] = v
  <2>1. PICK p \in Procs : pc[p] \in {"register", "running"} /\ vm[p] = v
    BY <1>1
  <2>2. target[p] = m
    BY <2>1
  <2>3. m \in machines /\ state[m] = "starting"
    BY <2>1, <2>2
  <2>4. ASSUME NEW w \in VMs, owner[w] = m, vmState[w] \in Running PROVE w = v
    <3>1. mon[w] # "wait"
      BY <2>1, <2>2, <2>4
    <3>2. PICK q \in Procs : pc[q] \in {"register", "running"} /\ vm[q] = w
      BY <2>4, <3>1
    <3>3. target[q] = m
      BY <2>4, <3>2
    <3>. QED
      BY <2>1, <2>2, <3>2, <3>3
  <2>. QED
    BY <2>3, <2>4
<1>2. CASE /\ mon[v] = "wait"
           /\ m \in machines
           /\ state[m] \in {"running", "stopping"}
           /\ vms[m] = v
  <2>1. ASSUME NEW w \in VMs, owner[w] = m, vmState[w] \in Running PROVE w = v
    BY <1>2, <2>1
  <2>. QED
    BY <1>2, <2>1
<1>. QED
  BY <1>1, <1>2

(* A machine at rest has no child running, and no machine has two.         *)
THEOREM OneChild == ASSUME ~Overlap PROVE Spec => []OneChildNoneAtRest
<1>1. ASSUME IInv, Order PROVE OneChildNoneAtRest
  <2>. SUFFICES ASSUME NEW m \in Machines
                PROVE  /\ state[m] \in AtRest => ~Up(m)
                       /\ Cardinality({v \in VMs : owner[v] = m /\ vmState[v] \in Running}) <= 1
    BY DEF OneChildNoneAtRest
  <2>. DEFINE Children == {v \in VMs : owner[v] = m /\ vmState[v] \in Running}
  <2>1. state[m] \in AtRest => ~Up(m)
    BY <1>1, KeptChild DEF Up
  <2>2. CASE Children = {}
    BY <2>1, <2>2, FS_EmptySet
  <2>3. CASE Children # {}
    <3>1. PICK v \in VMs : owner[v] = m /\ vmState[v] \in Running
      BY <2>3
    <3>2. Children = {v}
      BY <1>1, <3>1, KeptChild
    <3>. QED
      BY <2>1, <3>2, FS_Singleton
  <2>. QED
    BY <2>2, <2>3
<1>. QED
  BY <1>1, Orderly, PTL

(* The root directory of a machine with a running child is not removed,    *)
(* whichever Stops, Deletes and monitors overlap.                          *)
THEOREM RootfsIsKept == ASSUME ~Overlap PROVE Spec => []RootfsOutlivesChild
<1>1. ASSUME IInv, Order PROVE RootfsOutlivesChild
  BY <1>1, KeptChild DEF RootfsOutlivesChild, Up, Order, Records
<1>. QED
  BY <1>1, Orderly, PTL

(* A guest is asked to shut down only once its network is closed.          *)
THEOREM NetworkIsClosed == ASSUME ~Overlap PROVE Spec => []NetworkClosedFirst
<1>1. Order => NetworkClosedFirst
  BY DEF Order
<1>. QED
  BY <1>1, Orderly, PTL

-----------------------------------------------------------------------------
(* The refinement of module Lifecycle                                      *)

Live == {m \in Machines : Up(m)}

(* What the abstract specification sees of a step of the manager.          *)
Seen(m) == Abstract!LStep(m)

Unseen == UNCHANGED <<state, Live, machines>>

-----------------------------------------------------------------------------

(* Nothing shows of a step that starts and ends no child.                  *)
LEMMA SameLive ==
  ASSUME \A v \in VMs : vmState[v] \in Running <=> vmState'[v] \in Running,
         \A v \in VMs : vmState[v] \in Running => owner'[v] = owner[v]
  PROVE  Live' = Live
BY DEF Live, Up

(* While a Start has the machine and has not spawned a child, none runs.   *)
LEMMA NoneWhileStarting ==
  ASSUME IInv, Order, NEW p \in Procs,
         pc[p] \in StartPCs \ {"register", "running"}
  PROVE  target[p] \in Machines \ Live
BY DEF IInv, Order, ChildHasKeeper, Alone, Preparing, TypeOK, Live, Up, Launch,
       StartPCs, HandlePCs

LEMMA StartSeen ==
  ASSUME IInv, Order, NEW p \in Procs, StartStep(p)
  PROVE  Unseen \/ \E m \in Machines : Seen(m)
<1>. USE DEF registry, calls, child, Local, Goto, Return, SetState, Unseen, Seen
<1>0. target[p] \in Machines /\ (pc[p] \in HandlePCs => vm[p] \in VMs)
  BY DEF IInv, TypeOK, StartStep, StartRefused, StartAccepted, StartMark,
     StartNetwork, StartNoNetwork, StartSpawn, StartNoSpawn, StartCloseNet,
     StartFail, StartRegister, StartRunning
<1>1. CASE \/ StartRefused(p) \/ StartAccepted(p) \/ StartNoNetwork(p)
           \/ StartCloseNet(p) \/ StartRegister(p)
  BY <1>1, SameLive
     DEF StartRefused, StartAccepted, StartNoNetwork, StartCloseNet, StartRegister
<1>2. CASE StartMark(p)
  <2>1. target[p] \in machines \ Live /\ state[target[p]] \in Abstract!AtRest
    BY <1>2, NoneWhileStarting
       DEF StartMark, Order, StartKeeps, Decided, StartPCs, AtRest, Abstract!AtRest
  <2>2. Live' = Live
    BY <1>2, SameLive DEF StartMark
  <2>3. Abstract!LStart(target[p])
    BY <1>2, <2>1, <2>2 DEF StartMark, Abstract!LStart, Abstract!Become, Live
  <2>. QED
    BY <1>0, <2>3 DEF Abstract!LStep
<1>3. CASE StartNetwork(p) \/ StartNoSpawn(p)
  <2>1. vmState[vm[p]] = "unused"
    BY <1>3 DEF StartNetwork, StartNoSpawn, Order, StartKeeps
  <2>2. Live' = Live
    BY <1>0, <1>3, <2>1, SameLive
       DEF StartNetwork, StartNoSpawn, IInv, TypeOK, Running
  <2>. QED
    BY <1>3, <2>2 DEF StartNetwork, StartNoSpawn
<1>4. CASE StartSpawn(p)
  <2>1. vm[p] \in VMs /\ owner[vm[p]] = target[p] /\ state[target[p]] = "starting"
    BY <1>0, <1>4 DEF StartSpawn, IInv, Preparing, Order, StartKeeps, Decided,
       HandlePCs, StartPCs
  <2>2. target[p] \notin Live
    BY <1>4, NoneWhileStarting DEF StartSpawn, StartPCs
  <2>3. Live' = Live \cup {target[p]}
    BY <1>0, <1>4, <2>1 DEF StartSpawn, IInv, TypeOK, Live, Up, Running
  <2>4. Abstract!LLaunch(target[p])
    BY <1>4, <2>1, <2>2, <2>3 DEF StartSpawn, Abstract!LLaunch, Live
  <2>. QED
    BY <1>0, <2>4 DEF Abstract!LStep
<1>5. CASE StartFail(p)
  <2>1. target[p] \notin Live /\ state[target[p]] = "starting"
    BY <1>5, NoneWhileStarting
       DEF StartFail, Order, StartKeeps, Decided, StartPCs
  <2>2. Live' = Live
    BY <1>5, SameLive DEF StartFail
  <2>3. Abstract!LFail(target[p])
    BY <1>5, <2>1, <2>2 DEF StartFail, Abstract!LFail, Abstract!Become, Live
  <2>. QED
    BY <1>0, <2>3 DEF Abstract!LStep
<1>6. CASE StartRunning(p)
  <2>1. state[target[p]] = "starting"
    BY <1>6 DEF StartRunning, Order, StartKeeps, Decided
  <2>2. Live' = Live
    BY <1>6, SameLive DEF StartRunning
  <2>3. Abstract!LReady(target[p])
    BY <1>6, <2>1, <2>2 DEF StartRunning, Abstract!LReady, Abstract!Become, Live
  <2>. QED
    BY <1>0, <2>3 DEF Abstract!LStep
<1>. QED
  BY <1>1, <1>2, <1>3, <1>4, <1>5, <1>6 DEF StartStep

(* A machine that has run and has no child settles, or has settled.        *)
LEMMA Settles ==
  ASSUME IInv, NEW m \in Machines, HasRun(m), m \notin Live, Live' = Live,
         SetState(m, "stopped"), UNCHANGED machines
  PROVE  Unseen \/ Seen(m)
<1>1. CASE state[m] = "stopped"
  BY <1>1 DEF SetState, Unseen, IInv, TypeOK
<1>2. CASE state[m] # "stopped"
  <2>1. Abstract!LSettle(m)
    BY <1>2 DEF SetState, HasRun, Abstract!LSettle, Abstract!Become, Live
  <2>. QED
    BY <2>1 DEF Seen, Abstract!LStep
<1>. QED
  BY <1>1, <1>2

(* The machine of a child that ends has no other.                          *)
LEMMA Exits ==
  ASSUME IInv, Order, NEW v \in VMs, vmState[v] \in Running,
         NEW s \in {"killed", "exited"}, vmState' = [vmState EXCEPT ![v] = s],
         UNCHANGED <<owner, state, machines>>
  PROVE  \E m \in Machines : Seen(m)
<1>1. owner[v] \in Machines
  BY DEF IInv, Order, ChildHasKeeper, Preparing, TypeOK, Launch, StartPCs, HandlePCs
<1>2. \A w \in VMs : owner[w] = owner[v] /\ vmState[w] \in Running => w = v
  BY <1>1, KeptChild
<1>3. owner[v] \in Live /\ Live' = Live \ {owner[v]}
  BY <1>1, <1>2 DEF IInv, TypeOK, Live, Up, Running
<1>4. Abstract!LExit(owner[v])
  BY <1>3 DEF Abstract!LExit, Live
<1>. QED
  BY <1>1, <1>4 DEF Seen, Abstract!LStep

LEMMA StopSeen ==
  ASSUME IInv, Order, NEW p \in Procs, StopStep(p)
  PROVE  Unseen \/ \E m \in Machines : Seen(m)
<1>. USE DEF registry, calls, child, Local, Goto, Return, Unseen
<1>1. CASE \/ StopNotFound(p) \/ StopLookup(p) \/ StopRefused(p) \/ StopAccepted(p)
           \/ StopClose(p) \/ StopRPCFailed(p) \/ StopExited(p) \/ StopWaitTimeout(p)
           \/ StopPoll(p) \/ StopWake(p) \/ StopDeadline(p) \/ StopForceDelete(p)
  BY <1>1, SameLive
     DEF StopNotFound, StopLookup, StopRefused, StopAccepted, StopClose,
         StopRPCFailed, StopExited, StopWaitTimeout, StopPoll, StopWake,
         StopDeadline, StopForceDelete, Unregister
<1>2. CASE StopMark(p)
  <2>1. HasRun(target[p])
    BY <1>2 DEF StopMark, Order, BusyHasRun, Handled, StopPCs
  <2>2. Live' = Live
    BY <1>2, SameLive DEF StopMark
  <2>3. CASE state[target[p]] = "stopping"
    BY <1>2, <2>2, <2>3 DEF StopMark, SetState, IInv, TypeOK
  <2>4. CASE state[target[p]] # "stopping"
    <3>1. state[target[p]] = "stopped" => target[p] \notin Live
      BY <2>1, KeptChild DEF HasRun, Live, Up, AtRest
    <3>2. Abstract!LStop(target[p])
      BY <1>2, <2>1, <2>2, <2>4, <3>1
         DEF StopMark, SetState, HasRun, Abstract!LStop, Abstract!Become, Live
    <3>. QED
      BY <2>1, <3>2 DEF HasRun, Seen, Abstract!LStep
  <2>. QED
    BY <2>3, <2>4
<1>3. CASE StopNoVM(p) \/ StopForceState(p)
  <2>1. HasRun(target[p])
    BY <1>3 DEF StopNoVM, StopForceState, Order, BusyHasRun, Handled, StopPCs
  <2>2. target[p] \notin Live
    BY <1>3 DEF StopNoVM, StopForceState, Order, StopHolds, Handled, StopPCs,
                Live, Up, Running
  <2>3. Live' = Live
    BY <1>3, SameLive DEF StopNoVM, StopForceState
  <2>. QED
    BY <1>3, <2>1, <2>2, <2>3, Settles DEF StopNoVM, StopForceState, HasRun
<1>4. CASE StopRPC(p)
  <2>1. Live' = Live
    BY <1>4, SameLive DEF StopRPC, IInv, TypeOK, Running
  <2>. QED
    BY <1>4, <2>1 DEF StopRPC
<1>5. CASE StopKill(p)
  <2>1. vm[p] \in VMs
    BY <1>5 DEF StopKill, IInv, TypeOK, HandlePCs, StopPCs
  <2>2. CASE vmState[vm[p]] \in Running
    BY <1>5, <2>1, <2>2, Exits DEF StopKill
  <2>3. CASE vmState[vm[p]] \notin Running
    <3>1. Live' = Live
      BY <1>5, <2>1, <2>3, SameLive DEF StopKill, IInv, TypeOK
    <3>. QED
      BY <1>5, <3>1 DEF StopKill
  <2>. QED
    BY <2>2, <2>3
<1>. QED
  BY <1>1, <1>2, <1>3, <1>4, <1>5 DEF StopStep

LEMMA DeleteSeen ==
  ASSUME IInv, Order, NEW p \in Procs, DeleteStep(p)
  PROVE  Unseen \/ \E m \in Machines : Seen(m)
<1>. USE DEF registry, calls, child, Local, Goto, Return, Unseen
<1>1. CASE DeleteRefused(p) \/ DeleteRootfs(p)
  BY <1>1, SameLive DEF DeleteRefused, DeleteRootfs
<1>2. CASE DeleteRecord(p)
  <2>1. target[p] \in machines \ Live /\ state[target[p]] \in Abstract!AtRest
    BY <1>2, KeptChild
       DEF DeleteRecord, IInv, TypeOK, Live, Up, AtRest, Abstract!AtRest
  <2>2. Live' = Live
    BY <1>2, SameLive DEF DeleteRecord
  <2>3. Abstract!LDelete(target[p])
    BY <1>2, <2>1, <2>2 DEF DeleteRecord, Abstract!LDelete, Live
  <2>. QED
    BY <2>1, <2>3 DEF IInv, TypeOK, Seen, Abstract!LStep
<1>. QED
  BY <1>1, <1>2 DEF DeleteStep

LEMMA BackgroundSeen ==
  ASSUME IInv, Order, NEW v \in VMs, Monitor(v) \/ External(v)
  PROVE  Unseen \/ \E m \in Machines : Seen(m)
<1>. USE DEF registry, calls, child, Unseen
<1>1. CASE MonitorClose(v) \/ MonitorDelete(v) \/ NetExit(v)
  BY <1>1, SameLive DEF MonitorClose, MonitorDelete, NetExit, Unregister
<1>2. CASE MonitorStopped(v)
  <2>1. HasRun(owner[v])
    BY <1>2 DEF MonitorStopped, Order, BusyHasRun, Active
  <2>2. vmState[v] = "exited"
    BY <1>2 DEF MonitorStopped, Order, MonitorSawExit
  <2>3. owner[v] \notin Live
    <3>. SUFFICES ASSUME NEW w \in VMs, owner[w] = owner[v], vmState[w] \in Running
                  PROVE  FALSE
      BY DEF Live, Up
    <3>1. state[owner[v]] \notin AtRest /\ owner[v] \in Machines
      BY <2>1, KeptChild DEF HasRun
    <3>2. mon[w] # "wait"
      BY <1>2, <2>2 DEF MonitorStopped, Order, OneMonitor, Active, Running
    <3>3. PICK p \in Procs : pc[p] \in {"register", "running"} /\ vm[p] = w
      BY <3>2 DEF Order, ChildHasKeeper
    <3>4. target[p] = owner[v]
      BY <3>3 DEF IInv, Preparing
    <3>. QED
      BY <1>2, <3>3, <3>4 DEF MonitorStopped, Order, Alone, StartPCs
  <2>4. Live' = Live
    BY <1>2, SameLive DEF MonitorStopped
  <2>. QED
    BY <1>2, <2>1, <2>3, <2>4, Settles DEF MonitorStopped, HasRun
<1>3. CASE VmmBoot(v)
  <2>1. Live' = Live
    BY <1>3, SameLive DEF VmmBoot, IInv, TypeOK, Running
  <2>. QED
    BY <1>3, <2>1 DEF VmmBoot
<1>4. CASE VmmExit(v)
  <2>1. CASE vmState[v] \in Running
    BY <1>4, <2>1, Exits DEF VmmExit
  <2>2. CASE vmState[v] = "killed"
    <3>1. Live' = Live
      BY <1>4, <2>2, SameLive DEF VmmExit, IInv, TypeOK, Running
    <3>. QED
      BY <1>4, <3>1 DEF VmmExit
  <2>. QED
    BY <1>4, <2>1, <2>2 DEF VmmExit
<1>. QED
  BY <1>1, <1>2, <1>3, <1>4 DEF Monitor, External

LEMMA ArriveSeen ==
  ASSUME IInv, Arrive PROVE Unseen \/ \E m \in Machines : Seen(m)
<1>. USE DEF registry, calls, child, Local, Unseen
<1>1. ASSUME NEW m \in Machines, Create(m) PROVE Seen(m)
  <2>1. Live' = Live
    BY <1>1, SameLive DEF Create
  <2>2. Abstract!LCreate(m)
    BY <1>1, <2>1 DEF Create, SetState, Abstract!LCreate, Abstract!Become, Live
  <2>. QED
    BY <2>2 DEF Seen, Abstract!LStep
<1>2. ASSUME NEW m \in Machines, NEW p \in Procs,
             CallStart(p, m) \/ CallStop(p, m) \/ CallDelete(p, m)
      PROVE  Unseen
  BY <1>2, SameLive DEF CallStart, CallStop, CallDelete, Call
<1>. QED
  BY <1>1, <1>2 DEF Arrive

-----------------------------------------------------------------------------

(* The machine lifecycle of module Lifecycle, its fairness apart, is what  *)
(* clients of the manager see: machine.State, Get, List and the children.  *)
THEOREM ImplementsLifecycle == ASSUME ~Overlap PROVE Spec => Abstract!LSafe
<1>1. Init => Abstract!LInit
  BY DEF Init, Abstract!LInit, Up, Running
<1>2. ASSUME IInv, Order, [Next]_vars PROVE [Abstract!LNext]_(Abstract!lvars)
  <2>1. CASE UNCHANGED vars
    BY <2>1, SameLive
       DEF vars, registry, calls, child, Abstract!lvars, Live
  <2>2. CASE Next
    <3>1. Unseen \/ \E m \in Machines : Seen(m)
      BY <1>2, <2>2, ArriveSeen, StartSeen, StopSeen, DeleteSeen, BackgroundSeen
         DEF Next, Work, Outside, Step
    <3>. QED
      BY <3>1 DEF Unseen, Seen, Live, Abstract!LNext, Abstract!lvars
  <2>. QED
    BY <1>2, <2>1, <2>2
<1>. QED
  BY <1>1, <1>2, Orderly, PTL DEF Spec, Abstract!LSafe

=============================================================================
