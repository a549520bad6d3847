------------------------------ MODULE Manager ------------------------------
(***************************************************************************)
(* machine.Manager: the registry of machines and the goroutines that act   *)
(* on it -- one per API request, one monitor per child process -- together *)
(* with what they use of krun.VM (the child process and its Shutdown RPC)  *)
(* and network.VMNetwork (the virtual network and its accept goroutine).   *)
(*                                                                         *)
(* A step is what a goroutine does between two points where another can    *)
(* run: one critical section of mgr.mu, one access to a machine's state    *)
(* (which has a lock of its own), or one blocking call.                    *)
(***************************************************************************)
EXTENDS Naturals, FiniteSets

CONSTANTS
  Machines,  \* machine ids
  Procs,     \* goroutines that run Start, Stop and Delete
  Starters,  \* those of them that serve requests to start a machine,
  Stoppers,  \* to stop one
  Deleters,  \* and to delete one; the server lets any goroutine do any
  VMs,       \* incarnations: one krun.VM and one VMNetwork per Start
  None,      \* nil
  Overlap    \* may a Start overlap other work on its machine?  It does when
             \* clients do not coordinate: the server has no such rule

ASSUME ManagerAssumption ==
  /\ Starters \cup Stoppers \cup Deleters \subseteq Procs
  /\ None \notin Machines \cup VMs \cup Procs
  /\ Overlap \in BOOLEAN

VARIABLES
  \* machine.Machine and machine.Manager
  machines,  \* keys of mgr.machines
  state,     \* Machine.State, kept for goroutines that hold a deleted machine
  rootfs,    \* machines whose cloned root directory exists
  vms,       \* mgr.vms and mgr.networks, which always change together
  mu,        \* the goroutine inside a multi-step critical section of mgr.mu
  \* goroutines
  pc,        \* where each one is
  target,    \* the machine id it was called with
  vm,        \* its local vm and vmNet
  mon,       \* the monitor goroutine of each incarnation
  \* krun.VM and network.VMNetwork
  owner,     \* the machine an incarnation was made for
  vmState,   \* the child process
  net,       \* the accept goroutine of the virtual network
  listener   \* the incarnation whose child bound <id>.shutdown.sock

registry == <<machines, rootfs, vms>>
calls == <<pc, target, vm>>
child == <<owner, vmState, listener>>
vars == <<registry, state, mu, calls, mon, child, net>>

-----------------------------------------------------------------------------

States == {"absent", "created", "starting", "running", "stopping", "stopped"}
AtRest == {"created", "stopped"}

StartPCs == {"start", "mark", "net", "spawn", "closeNet", "fail",
             "register", "running"}
StopPCs == {"stop", "check", "stopping", "noVM", "close", "rpc", "wait",
            "kill", "poll", "sleep", "forceState", "forceDelete"}
DeletePCs == {"delete", "rmroot"}
PCs == {"idle"} \cup StartPCs \cup StopPCs \cup DeletePCs

(* The points at which vm or vmNet is dereferenced.                        *)
HandlePCs == (StartPCs \ {"fail"}) \cup
             (StopPCs \ {"stop", "check", "stopping", "noVM"})

(* A child is running guest code, or is about to, in these states.  It is  *)
(* "killed" from SIGKILL to its reaping.                                   *)
Running == {"spawned", "up", "halting"}
VMStates == {"unused", "killed", "exited"} \cup Running

Up(m) == \E v \in VMs : owner[v] = m /\ vmState[v] \in Running

(* No two goroutines prepare the same incarnation.                         *)
Fresh(v) == vmState[v] = "unused" /\ \A p \in Procs : vm[p] # v

Goto(p, l) == pc' = [pc EXCEPT ![p] = l] /\ UNCHANGED <<target, vm>>

Return(p) == pc' = [pc EXCEPT ![p] = "idle"]
             /\ target' = [target EXCEPT ![p] = None]
             /\ vm' = [vm EXCEPT ![p] = None]

SetState(m, s) == state' = [state EXCEPT ![m] = s]

(* A step of a goroutine that changes nothing it shares with others.       *)
Local == UNCHANGED <<registry, state, mu, mon, child, net>>

(* VMNetwork.Close cancels the context and closes the listening socket,    *)
(* then waits at most three seconds for the accept goroutine.  That wait   *)
(* may end early or late, so it is only the gap before the next step.      *)
NeverClose(v) == net' = net
Close(v) == net' = [net EXCEPT ![v] = IF @ = "open" THEN "cancelled" ELSE @]

Unregister(m) == vms' = [vms EXCEPT ![m] = None] /\ UNCHANGED <<machines, rootfs>>

-----------------------------------------------------------------------------
(* Requests.  Without Overlap a Start arrives only when no other request   *)
(* for its machine is being served and the monitor of its last child is    *)
(* done, and nothing else arrives until it returns.  Any number of Stops   *)
(* and Deletes may overlap one another and the monitor in either case.     *)

Starting(m) == \E p \in Procs : pc[p] \in StartPCs /\ target[p] = m

Quiet(m) ==
  /\ \A p \in Procs : target[p] # m
  /\ \A v \in VMs : owner[v] = m => mon[v] \in {"idle", "done"}

Call(p, m, l, v) ==
  /\ pc[p] = "idle"
  /\ state[m] # "absent"
  /\ pc' = [pc EXCEPT ![p] = l]
  /\ target' = [target EXCEPT ![p] = m]
  /\ vm' = [vm EXCEPT ![p] = v]
  /\ Local

CallStart(p, m) ==
  /\ Overlap \/ Quiet(m)
  /\ \E v \in VMs : Fresh(v) /\ Call(p, m, "start", v)

CallStop(p, m) == (Overlap \/ ~Starting(m)) /\ Call(p, m, "stop", None)

CallDelete(p, m) == (Overlap \/ ~Starting(m)) /\ Call(p, m, "delete", None)

(* Create clones the base image, then lists the machine.                   *)
Create(m) ==
  /\ state[m] = "absent"
  /\ mu = None
  /\ machines' = machines \cup {m}
  /\ SetState(m, "created")
  /\ rootfs' = rootfs \cup {m}
  /\ UNCHANGED <<vms, mu, calls, mon, child, net>>

-----------------------------------------------------------------------------
(* Manager.Start                                                           *)

StartRefused(p) ==
  /\ pc[p] = "start"
  /\ mu = None
  /\ target[p] \notin machines \/ state[target[p]] \notin AtRest
  /\ Return(p)
  /\ Local

(* The check and the write of the state are two accesses under mgr.mu;     *)
(* SetState calls made without mgr.mu may fall between them.               *)
StartAccepted(p) ==
  /\ pc[p] = "start"
  /\ mu = None
  /\ target[p] \in machines
  /\ state[target[p]] \in AtRest
  /\ mu' = p
  /\ Goto(p, "mark")
  /\ UNCHANGED <<registry, state, mon, child, net>>

StartMark(p) ==
  /\ pc[p] = "mark"
  /\ SetState(target[p], "starting")
  /\ mu' = None
  /\ Goto(p, "net")
  /\ UNCHANGED <<registry, mon, child, net>>

(* NewVMNetwork succeeds, and the shutdown socket of an earlier run is     *)
(* removed, before krun.NewVM.                                             *)
StartNetwork(p) ==
  /\ pc[p] = "net"
  /\ net' = [net EXCEPT ![vm[p]] = "open"]
  /\ owner' = [owner EXCEPT ![vm[p]] = target[p]]
  /\ listener' = [listener EXCEPT ![target[p]] = None]
  /\ Goto(p, "spawn")
  /\ UNCHANGED <<registry, state, mu, mon, vmState>>

StartNoNetwork(p) == pc[p] = "net" /\ Goto(p, "fail") /\ Local

(* vm.Start spawned krun-vmm and wrote its configuration.                  *)
StartSpawn(p) ==
  /\ pc[p] = "spawn"
  /\ vmState' = [vmState EXCEPT ![vm[p]] = "spawned"]
  /\ Goto(p, "register")
  /\ UNCHANGED <<registry, state, mu, mon, owner, listener, net>>

(* vm.Start failed: no child, or one that was killed when the write of its *)
(* configuration failed.                                                   *)
StartNoSpawn(p) ==
  /\ pc[p] = "spawn"
  /\ \E s \in {"exited", "killed"} : vmState' = [vmState EXCEPT ![vm[p]] = s]
  /\ Goto(p, "closeNet")
  /\ UNCHANGED <<registry, state, mu, mon, owner, listener, net>>

StartCloseNet(p) ==
  /\ pc[p] = "closeNet"
  /\ Close(vm[p])
  /\ Goto(p, "fail")
  /\ UNCHANGED <<registry, state, mu, mon, child>>

(* A failed start that leaves the machine in the starting state.           *)
FailWithoutReset(p) == pc[p] = "fail" /\ Return(p) /\ Local

StartFail(p) ==
  /\ pc[p] = "fail"
  /\ SetState(target[p], "stopped")
  /\ Return(p)
  /\ UNCHANGED <<registry, mu, mon, child, net>>

StartRegister(p) ==
  /\ pc[p] = "register"
  /\ mu = None
  /\ vms' = [vms EXCEPT ![target[p]] = vm[p]]
  /\ Goto(p, "running")
  /\ UNCHANGED <<machines, rootfs, state, mu, mon, child, net>>

StartRunning(p) ==
  /\ pc[p] = "running"
  /\ SetState(target[p], "running")
  /\ mon' = [mon EXCEPT ![vm[p]] = "wait"]
  /\ Return(p)
  /\ UNCHANGED <<registry, mu, child, net>>

-----------------------------------------------------------------------------
(* The monitor goroutine of incarnation v                                  *)

MonitorClose(v) ==
  /\ mon[v] = "wait"
  /\ vmState[v] = "exited"
  /\ Close(v)
  /\ mon' = [mon EXCEPT ![v] = "closed"]
  /\ UNCHANGED <<registry, state, mu, calls, child>>

MonitorStopped(v) ==
  /\ mon[v] = "closed"
  /\ SetState(owner[v], "stopped")
  /\ mon' = [mon EXCEPT ![v] = "stopped"]
  /\ UNCHANGED <<registry, mu, calls, child, net>>

(* The monitor that ends without clearing the maps.                        *)
MonitorLeavesEntry(v) ==
  /\ mon[v] = "stopped"
  /\ mon' = [mon EXCEPT ![v] = "done"]
  /\ UNCHANGED <<registry, state, mu, calls, child, net>>

MonitorDelete(v) ==
  /\ mon[v] = "stopped"
  /\ mu = None
  /\ Unregister(owner[v])
  /\ mon' = [mon EXCEPT ![v] = "done"]
  /\ UNCHANGED <<state, mu, calls, child, net>>

-----------------------------------------------------------------------------
(* Manager.Stop and, inside it, VM.Stop                                    *)

StopNotFound(p) ==
  /\ pc[p] = "stop"
  /\ mu = None
  /\ target[p] \notin machines
  /\ Return(p)
  /\ Local

StopLookup(p) ==
  /\ pc[p] = "stop"
  /\ mu = None
  /\ target[p] \in machines
  /\ pc' = [pc EXCEPT ![p] = "check"]
  /\ vm' = [vm EXCEPT ![p] = vms[target[p]]]
  /\ UNCHANGED target
  /\ Local

StopRefused(p) ==
  /\ pc[p] = "check"
  /\ state[target[p]] # "running"
  /\ Return(p)
  /\ Local

StopAccepted(p) ==
  /\ pc[p] = "check"
  /\ state[target[p]] = "running"
  /\ Goto(p, "stopping")
  /\ Local

(* Stop without its hasVM and hasNet tests.                                *)
MarkWithoutHandleTest(p) ==
  /\ pc[p] = "stopping"
  /\ SetState(target[p], "stopping")
  /\ Goto(p, "close")
  /\ UNCHANGED <<registry, mu, mon, child, net>>

StopMark(p) ==
  /\ pc[p] = "stopping"
  /\ SetState(target[p], "stopping")
  /\ Goto(p, IF vm[p] = None THEN "noVM" ELSE "close")
  /\ UNCHANGED <<registry, mu, mon, child, net>>

StopNoVM(p) ==
  /\ pc[p] = "noVM"
  /\ SetState(target[p], "stopped")
  /\ Return(p)
  /\ UNCHANGED <<registry, mu, mon, child, net>>

(* Stop that leaves the network to the monitor.                            *)
SkipClose(p) == pc[p] = "close" /\ Goto(p, "rpc") /\ Local

StopClose(p) ==
  /\ pc[p] = "close"
  /\ Close(vm[p])
  /\ Goto(p, "rpc")
  /\ UNCHANGED <<registry, state, mu, mon, child>>

(* The Shutdown RPC goes to whichever child listens on the machine's       *)
(* socket.  vminit serves it once: a second call closes a closed channel,  *)
(* panics and is answered with an error.  The answer may be lost.          *)
StopRPC(p) ==
  /\ pc[p] = "rpc"
  /\ \E v \in VMs :
       /\ listener[target[p]] = v
       /\ vmState[v] = "up"
       /\ vmState' = [vmState EXCEPT ![v] = "halting"]
  /\ \E next \in {"wait", "kill"} : Goto(p, next)
  /\ UNCHANGED <<registry, state, mu, mon, owner, listener, net>>

StopRPCFailed(p) == pc[p] = "rpc" /\ Goto(p, "kill") /\ Local

(* WaitTimeout(10s) sees the child exit, or runs out.                      *)
StopExited(p) ==
  /\ pc[p] = "wait"
  /\ vmState[vm[p]] = "exited"
  /\ Goto(p, "poll")
  /\ Local

(* A timeout after which Stop takes the child for gone.                    *)
TimeoutWithoutKill(p) == pc[p] = "wait" /\ Goto(p, "poll") /\ Local

StopWaitTimeout(p) == pc[p] = "wait" /\ Goto(p, "kill") /\ Local

(* Process.Kill.  The outcome of the five-second wait that follows is not  *)
(* used, so like that of Close it is only the gap before the next step.    *)
StopKill(p) ==
  /\ pc[p] = "kill"
  /\ vmState' = [vmState EXCEPT ![vm[p]] =
                   IF @ \in Running THEN "killed" ELSE @]
  /\ Goto(p, "poll")
  /\ UNCHANGED <<registry, state, mu, mon, owner, listener, net>>

(* The loop that waits for the monitor looks at the state, then blocks in  *)
(* select until a later look finds the machine stopped or the ten-second   *)
(* deadline passes.  A look that finds anything else changes nothing.      *)
StopPoll(p) ==
  /\ pc[p] = "poll"
  /\ IF state[target[p]] = "stopped" THEN Return(p) ELSE Goto(p, "sleep")
  /\ Local

StopWake(p) ==
  /\ pc[p] = "sleep"
  /\ state[target[p]] = "stopped"
  /\ Return(p)
  /\ Local

(* A loop that polls without a deadline.                                   *)
NoDeadline(p) == FALSE

StopDeadline(p) ==
  /\ pc[p] = "sleep"
  /\ Close(vm[p])
  /\ Goto(p, "forceState")
  /\ UNCHANGED <<registry, state, mu, mon, child>>

StopForceState(p) ==
  /\ pc[p] = "forceState"
  /\ SetState(target[p], "stopped")
  /\ Goto(p, "forceDelete")
  /\ UNCHANGED <<registry, mu, mon, child, net>>

StopForceDelete(p) ==
  /\ pc[p] = "forceDelete"
  /\ mu = None
  /\ Unregister(target[p])
  /\ Return(p)
  /\ UNCHANGED <<state, mu, mon, child, net>>

-----------------------------------------------------------------------------
(* Manager.Delete                                                          *)

DeleteRefused(p) ==
  /\ pc[p] = "delete"
  /\ mu = None
  /\ target[p] \notin machines \/ state[target[p]] \notin AtRest
  /\ Return(p)
  /\ Local

(* Delete without the test of the state.                                   *)
DeleteAnyState(p) ==
  /\ pc[p] = "delete"
  /\ mu = None
  /\ machines' = machines \ {target[p]}
  /\ Return(p) \/ Goto(p, "rmroot")
  /\ UNCHANGED <<rootfs, vms, state, mu, mon, child, net>>

(* delete_rootfs asks for the second step; every machine made through the  *)
(* API has a cloned root directory.                                        *)
DeleteRecord(p) ==
  /\ pc[p] = "delete"
  /\ mu = None
  /\ target[p] \in machines
  /\ state[target[p]] \in AtRest
  /\ machines' = machines \ {target[p]}
  /\ Return(p) \/ Goto(p, "rmroot")
  /\ UNCHANGED <<rootfs, vms, state, mu, mon, child, net>>

DeleteRootfs(p) ==
  /\ pc[p] = "rmroot"
  /\ rootfs' = rootfs \ {target[p]}
  /\ Return(p)
  /\ UNCHANGED <<machines, vms, state, mu, mon, child, net>>

-----------------------------------------------------------------------------
(* The child process and the network                                       *)

(* The guest boots once libkrun has bound the shutdown socket; it refuses  *)
(* a path that exists, and krun-vmm then exits.                            *)
VmmBoot(v) ==
  /\ vmState[v] = "spawned"
  /\ listener[owner[v]] = None
  /\ vmState' = [vmState EXCEPT ![v] = "up"]
  /\ listener' = [listener EXCEPT ![owner[v]] = v]
  /\ UNCHANGED <<registry, state, mu, calls, mon, owner, net>>

(* A configuration error, a crash, a guest that powers off, or SIGKILL.    *)
VmmExit(v) ==
  /\ vmState[v] \in Running \cup {"killed"}
  /\ vmState' = [vmState EXCEPT ![v] = "exited"]
  /\ UNCHANGED <<registry, state, mu, calls, mon, owner, listener, net>>

(* The accept goroutine ends: it was cancelled, or its socket failed.      *)
NetExit(v) ==
  /\ net[v] \in {"open", "cancelled"}
  /\ net' = [net EXCEPT ![v] = "done"]
  /\ UNCHANGED <<registry, state, mu, calls, mon, child>>

-----------------------------------------------------------------------------

Init ==
  /\ machines = {}
  /\ state = [m \in Machines |-> "absent"]
  /\ rootfs = {}
  /\ vms = [m \in Machines |-> None]
  /\ mu = None
  /\ pc = [p \in Procs |-> "idle"]
  /\ target = [p \in Procs |-> None]
  /\ vm = [p \in Procs |-> None]
  /\ mon = [v \in VMs |-> "idle"]
  /\ owner = [v \in VMs |-> None]
  /\ vmState = [v \in VMs |-> "unused"]
  /\ net = [v \in VMs |-> "none"]
  /\ listener = [m \in Machines |-> None]

Arrive ==
  \E m \in Machines :
    \/ Create(m)
    \/ \E p \in Starters : CallStart(p, m)
    \/ \E p \in Stoppers : CallStop(p, m)
    \/ \E p \in Deleters : CallDelete(p, m)

StartStep(p) ==
  \/ StartRefused(p) \/ StartAccepted(p) \/ StartMark(p)
  \/ StartNetwork(p) \/ StartNoNetwork(p)
  \/ StartSpawn(p) \/ StartNoSpawn(p) \/ StartCloseNet(p) \/ StartFail(p)
  \/ StartRegister(p) \/ StartRunning(p)

StopStep(p) ==
  \/ StopNotFound(p) \/ StopLookup(p) \/ StopRefused(p) \/ StopAccepted(p)
  \/ StopMark(p) \/ StopNoVM(p) \/ StopClose(p)
  \/ StopRPC(p) \/ StopRPCFailed(p)
  \/ StopExited(p) \/ StopWaitTimeout(p) \/ StopKill(p)
  \/ StopPoll(p) \/ StopWake(p) \/ StopDeadline(p)
  \/ StopForceState(p) \/ StopForceDelete(p)

DeleteStep(p) == DeleteRefused(p) \/ DeleteRecord(p) \/ DeleteRootfs(p)

Step(p) == StartStep(p) \/ StopStep(p) \/ DeleteStep(p)

Monitor(v) == MonitorClose(v) \/ MonitorStopped(v) \/ MonitorDelete(v)

External(v) == VmmBoot(v) \/ VmmExit(v) \/ NetExit(v)

Work == (\E p \in Procs : Step(p)) \/ (\E v \in VMs : Monitor(v))

Outside == \E v \in VMs : External(v)

Next == Arrive \/ Work \/ Outside

(* Goroutines are scheduled, sync.RWMutex starves nobody, timers fire, the *)
(* kernel carries out SIGKILL and a cancelled accept goroutine returns.    *)
(* Nothing obliges a client to call or a guest to exit on its own.         *)
Fairness ==
  /\ \A p \in Procs : SF_vars(Step(p))
  /\ \A v \in VMs : SF_vars(Monitor(v))
  /\ \A v \in VMs : WF_vars(vmState[v] = "killed" /\ VmmExit(v))
  /\ \A v \in VMs : WF_vars(net[v] = "cancelled" /\ NetExit(v))

Spec == Init /\ [][Next]_vars

FairSpec == Spec /\ Fairness

-----------------------------------------------------------------------------
(* Whatever overlaps                                                       *)

(* Values keep their types; mgr.mu is held across steps only between the   *)
(* check and the mark of Start; and no goroutine dereferences a nil vm or  *)
(* vmNet: Stop reads both from maps that others clear (manager.go:228-255).*)
TypeOK ==
  /\ machines \subseteq Machines
  /\ state \in [Machines -> States]
  /\ rootfs \subseteq Machines
  /\ vms \in [Machines -> VMs \cup {None}]
  /\ mu \in Procs \cup {None}
  /\ pc \in [Procs -> PCs]
  /\ target \in [Procs -> Machines \cup {None}]
  /\ vm \in [Procs -> VMs \cup {None}]
  /\ mon \in [VMs -> {"idle", "wait", "closed", "stopped", "done"}]
  /\ owner \in [VMs -> Machines \cup {None}]
  /\ vmState \in [VMs -> VMStates]
  /\ net \in [VMs -> {"none", "open", "cancelled", "done"}]
  /\ listener \in [Machines -> VMs \cup {None}]
  /\ \A p \in Procs :
       /\ pc[p] # "idle" => target[p] \in Machines
       /\ pc[p] \in HandlePCs => vm[p] \in VMs
       /\ mu = p <=> pc[p] = "mark"

(* Every entry of mgr.vms and mgr.networks belongs to the machine it is    *)
(* filed under and has a goroutine that has yet to clear it: its monitor,  *)
(* or the Start that is about to launch the monitor.  Entries do not       *)
(* outlive their VM, however many Starts and Stops of a machine overlap.   *)
RegisteredIsMonitored ==
  \A m \in Machines : vms[m] # None =>
    /\ owner[vms[m]] = m
    /\ \/ mon[vms[m]] \in {"wait", "closed", "stopped"}
       \/ \E p \in Procs : pc[p] = "running" /\ vm[p] = vms[m]

(* Start, Stop and Delete return, though Stop waits for a guest that need  *)
(* not answer, a child that may not exit and a state others may overwrite. *)
CallsReturn == \A p \in Procs : pc[p] # "idle" ~> pc[p] = "idle"

(* A machine does not stay in a state from which neither Start, Stop nor   *)
(* Delete is accepted, whichever step of a Start or Stop failed.           *)
TransientStatesSettle ==
  \A m \in Machines :
    state[m] \in {"starting", "stopping"} ~>
    state[m] \notin {"starting", "stopping"}

(* The virtual network of a child that is gone is shut down and its accept *)
(* goroutine ends, also when vm.Start failed.                              *)
ExitedNetworkCloses ==
  \A v \in VMs : vmState[v] = "exited" ~> net[v] \in {"none", "done"}

-----------------------------------------------------------------------------
(* When a Start overlaps nothing                                           *)

(* A machine that is created or stopped -- the states in which Start and   *)
(* Delete are accepted -- has no child running, and no machine has two:    *)
(* though Stop sets the state without having seen the child exit.          *)
OneChildNoneAtRest ==
  \A m \in Machines :
    /\ state[m] \in AtRest => ~Up(m)
    /\ Cardinality({v \in VMs : owner[v] = m /\ vmState[v] \in Running}) <= 1

(* The root directory of a machine with a running child is not removed.    *)
RootfsOutlivesChild == \A m \in Machines : Up(m) => m \in rootfs

(* A guest is asked to shut down only once its network is closed           *)
(* (manager.go:239-242), also when several Stops of a machine overlap.     *)
NetworkClosedFirst ==
  \A v \in VMs : vmState[v] = "halting" => net[v] # "open"

Abstract == INSTANCE Lifecycle WITH
  live <- {m \in Machines : Up(m)},
  listed <- machines

(* The manager implements the machine lifecycle, liveness included.        *)
Implements == Abstract!LSpec

-----------------------------------------------------------------------------
(* What a comment in manager.go says and overlapping calls refute          *)

(* manager.go:278, "No VM running": the branch Stop takes when the maps    *)
(* had no VM for the machine.                                              *)
StopFindsNoVM == \A p \in Procs : pc[p] = "noVM" => ~Up(target[p])

=============================================================================
