------------------------------- MODULE Sockets -------------------------------
(***************************************************************************)
(* The socket files of one machine over its successive runs.  Every run    *)
(* uses the same three paths: the datagram socket of its network, which    *)
(* Start binds and the network's accept goroutine removes, and the two     *)
(* vsock sockets, shutdown and exec, which the child binds and the next    *)
(* Start removes.  Whoever is late acts on the files of another run.       *)
(*                                                                         *)
(* One client, which starts the machine when its monitor is done, as in    *)
(* module Manager without Overlap; the monitors run beside it.             *)
(***************************************************************************)
EXTENDS FiniteSets

CONSTANTS
  Runs,  \* one VM and one VMNetwork each
  None

ASSUME SocketsAssumption == None \notin Runs

VARIABLES
  state,      \* Machine.State; "stopped" stands for "created" too
  call,       \* where the client's Start or Stop is
  run,        \* the run it is about: the machine's last
  monitor,    \* the monitor goroutine of each run
  child,      \* its krun-vmm
  accept,     \* its accept goroutine
  cancelled,  \* runs whose network was told to close
  listening,  \* runs whose datagram socket is open
  done,       \* runs whose done channel is closed
  netFile,    \* whose socket <id>.sock is
  vsock,      \* whose sockets <id>.shutdown.sock and <id>.exec.sock are
  late        \* runs for which a Close gave up waiting

client == <<state, call, run>>
network == <<accept, cancelled, listening, done, late>>
files == <<netFile, vsock>>
vars == <<client, monitor, child, network, files>>

-----------------------------------------------------------------------------

Alive == {"boot", "up"}
Gone == {"failed", "exited"}

Fresh(v) == child[v] = "none" /\ accept[v] = "none" /\ run # v

Quiet == call = "idle" /\ \A v \in Runs : monitor[v] \in {"none", "done"}

-----------------------------------------------------------------------------
(* VMNetwork.Close, by Start, Stop and the monitor                         *)

(* A Close that leaves the socket open.                                    *)
CancelOnly(v) ==
  cancelled' = cancelled \cup {v} /\ UNCHANGED <<accept, listening, done, late>>

Close(v) ==
  /\ cancelled' = cancelled \cup {v}
  /\ listening' = listening \ {v}
  /\ UNCHANGED <<accept, done, late>>

(* Its wait ends with the goroutine, or after three seconds.               *)
Waited(v) ==
  /\ late' = IF v \in done THEN late ELSE late \cup {v}
  /\ UNCHANGED <<accept, cancelled, listening, done>>

-----------------------------------------------------------------------------
(* Manager.Start                                                           *)

(* Start without its test of the state.                                    *)
StartAnyState(v) ==
  /\ call = "idle"
  /\ Fresh(v)
  /\ call' = "net" /\ run' = v /\ state' = "starting"
  /\ UNCHANGED <<monitor, child, network, files>>

Start(v) ==
  /\ Quiet /\ state = "stopped"
  /\ Fresh(v)
  /\ call' = "net" /\ run' = v /\ state' = "starting"
  /\ UNCHANGED <<monitor, child, network, files>>

(* NewVMNetwork removes what is at the path, then binds its own socket.    *)
Bind ==
  /\ call = "net"
  /\ netFile' = run
  /\ accept' = [accept EXCEPT ![run] = "accept"]
  /\ listening' = listening \cup {run}
  /\ call' = "clean"
  /\ UNCHANGED <<state, run, monitor, child, cancelled, done, late, vsock>>

NoNetwork ==
  /\ call = "net"
  /\ netFile' \in {netFile, None}
  /\ call' = "idle" /\ state' = "stopped"
  /\ UNCHANGED <<run, monitor, child, network, vsock>>

Clean ==
  /\ call = "clean"
  /\ vsock' = None
  /\ call' = "spawn"
  /\ UNCHANGED <<state, run, monitor, child, network, netFile>>

Spawn ==
  /\ call = "spawn"
  /\ child' = [child EXCEPT ![run] = "boot"]
  /\ monitor' = [monitor EXCEPT ![run] = "wait"]
  /\ call' = "idle" /\ state' = "running"
  /\ UNCHANGED <<run, network, files>>

(* A failed start that forgets its network.                                *)
LeakNetwork ==
  /\ call = "spawn"
  /\ call' = "idle" /\ state' = "stopped"
  /\ UNCHANGED <<run, monitor, child, network, files>>

SpawnFails ==
  /\ call = "spawn"
  /\ Close(run)
  /\ call' = "abandon"
  /\ UNCHANGED <<state, run, monitor, child, files>>

Abandon ==
  /\ call = "abandon"
  /\ Waited(run)
  /\ call' = "idle" /\ state' = "stopped"
  /\ UNCHANGED <<run, monitor, child, files>>

-----------------------------------------------------------------------------
(* Manager.Stop and the monitor                                            *)

Goto(l) == call' = l /\ UNCHANGED <<state, run>>

StopCheck ==
  /\ call = "idle" /\ state = "running"
  /\ Goto("mark")
  /\ UNCHANGED <<monitor, child, network, files>>

StopMark ==
  /\ call = "mark"
  /\ state' = "stopping" /\ call' = "close"
  /\ UNCHANGED <<run, monitor, child, network, files>>

StopClose ==
  /\ call = "close"
  /\ Close(run)
  /\ Goto("wait")
  /\ UNCHANGED <<monitor, child, files>>

StopWaited ==
  /\ call = "wait"
  /\ Waited(run)
  /\ Goto("end")
  /\ UNCHANGED <<monitor, child, files>>

(* VM.Stop: the child has shut down, or has been killed.                   *)
StopVM ==
  /\ call = "end"
  /\ \E s \in {"exited", "killed"} :
       child' = [child EXCEPT ![run] = IF @ \in Alive THEN s ELSE @]
  /\ Goto("poll")
  /\ UNCHANGED <<monitor, network, files>>

StopDone ==
  /\ call = "poll" /\ state = "stopped"
  /\ Goto("idle")
  /\ UNCHANGED <<monitor, child, network, files>>

StopDeadline ==
  /\ call = "poll"
  /\ Close(run)
  /\ Goto("force")
  /\ UNCHANGED <<monitor, child, files>>

StopForce ==
  /\ call = "force"
  /\ Waited(run)
  /\ call' = "idle" /\ state' = "stopped"
  /\ UNCHANGED <<run, monitor, child, files>>

MonitorClose(v) ==
  /\ monitor[v] = "wait" /\ child[v] \in Gone
  /\ Close(v)
  /\ monitor' = [monitor EXCEPT ![v] = "close"]
  /\ UNCHANGED <<client, child, files>>

MonitorStopped(v) ==
  /\ monitor[v] = "close"
  /\ Waited(v)
  /\ monitor' = [monitor EXCEPT ![v] = "done"]
  /\ state' = "stopped"
  /\ UNCHANGED <<call, run, child, files>>

-----------------------------------------------------------------------------
(* The child, and libkrun in it                                            *)

(* It connects to the network's socket and binds its own, none of which    *)
(* may exist.                                                              *)
Boot(v) ==
  /\ child[v] = "boot"
  /\ netFile = v /\ vsock = None
  /\ child' = [child EXCEPT ![v] = "up"]
  /\ vsock' = v
  /\ UNCHANGED <<client, monitor, network, netFile>>

BootFails(v) ==
  /\ child[v] = "boot"
  /\ netFile # v \/ vsock # None
  /\ child' = [child EXCEPT ![v] = "failed"]
  /\ UNCHANGED <<client, monitor, network, files>>

(* For a reason of its own, or killed.                                     *)
Exit(v) ==
  /\ child[v] \in Alive \cup {"killed"}
  /\ child' = [child EXCEPT ![v] = "exited"]
  /\ UNCHANGED <<client, monitor, network, files>>

-----------------------------------------------------------------------------
(* The accept goroutine and its deferred calls                             *)

Becomes(v, l) == accept' = [accept EXCEPT ![v] = l]

(* The guest's first datagram.                                             *)
Connect(v) ==
  /\ accept[v] = "accept" /\ v \in listening /\ child[v] = "up"
  /\ Becomes(v, "serve")
  /\ UNCHANGED <<client, monitor, child, cancelled, listening, done, late, files>>

(* AcceptVfkit fails when its socket is closed.                            *)
AcceptFails(v) ==
  /\ accept[v] = "accept" /\ v \notin listening
  /\ Becomes(v, "remove")
  /\ UNCHANGED <<client, monitor, child, cancelled, listening, done, late, files>>

(* The loop ends when it is cancelled, or on an error.                     *)
ServeEnds(v) ==
  /\ accept[v] = "serve"
  /\ Becomes(v, "remove")
  /\ UNCHANGED <<client, monitor, child, cancelled, listening, done, late, files>>

(* Defers in another order: the channel is closed before the file goes.    *)
SignalThenRemove(v) ==
  /\ accept[v] = "remove"
  /\ IF v \in done
       THEN netFile' = None /\ Becomes(v, "close") /\ UNCHANGED done
       ELSE done' = done \cup {v} /\ UNCHANGED <<netFile, accept>>
  /\ UNCHANGED <<client, monitor, child, cancelled, listening, late, vsock>>

(* Whatever is at the path by now.                                         *)
Remove(v) ==
  /\ accept[v] = "remove"
  /\ netFile' = None
  /\ Becomes(v, "close")
  /\ UNCHANGED <<client, monitor, child, cancelled, listening, done, late, vsock>>

CloseListen(v) ==
  /\ accept[v] = "close"
  /\ listening' = listening \ {v}
  /\ Becomes(v, "signal")
  /\ UNCHANGED <<client, monitor, child, cancelled, done, late, files>>

Signal(v) ==
  /\ accept[v] = "signal"
  /\ done' = done \cup {v}
  /\ Becomes(v, "gone")
  /\ UNCHANGED <<client, monitor, child, cancelled, listening, late, files>>

Deferred(v) == Remove(v) \/ CloseListen(v) \/ Signal(v)

Goroutine(v) == Connect(v) \/ AcceptFails(v) \/ ServeEnds(v) \/ Deferred(v)

-----------------------------------------------------------------------------

Init ==
  /\ state = "stopped" /\ call = "idle" /\ run = None
  /\ monitor = [v \in Runs |-> "none"]
  /\ child = [v \in Runs |-> "none"]
  /\ accept = [v \in Runs |-> "none"]
  /\ cancelled = {} /\ listening = {} /\ done = {} /\ late = {}
  /\ netFile = None /\ vsock = None

StartStep == Bind \/ NoNetwork \/ Clean \/ Spawn \/ SpawnFails \/ Abandon

StopStep ==
  \/ StopMark \/ StopClose \/ StopWaited \/ StopVM \/ StopDone
  \/ StopDeadline \/ StopForce

Next ==
  \/ StartStep \/ StopCheck \/ StopStep
  \/ \E v \in Runs :
       \/ Start(v) \/ MonitorClose(v) \/ MonitorStopped(v)
       \/ Boot(v) \/ BootFails(v) \/ Exit(v) \/ Goroutine(v)

(* Of the network, only what cancelling it and closing its socket cause.   *)
Fairness ==
  \A v \in Runs :
    /\ WF_vars(AcceptFails(v))
    /\ WF_vars(v \in cancelled /\ ServeEnds(v))
    /\ WF_vars(Deferred(v))

Spec == Init /\ [][Next]_vars

FairSpec == Spec /\ Fairness

-----------------------------------------------------------------------------

(* A child does not fail for the sockets it finds unless its network was   *)
(* told to close meanwhile, or an accept goroutine outlived the three      *)
(* seconds it is given: then its Remove may take the file of a later run   *)
(* (network.go:66,105-108, manager.go:144-151).                            *)
BootFindsItsSockets ==
  \A v \in Runs : child[v] = "failed" => v \in cancelled \/ late # {}

(* No network of an earlier run is there when a run starts, but for those  *)
(* a Close did not wait for: Start, Stop and monitor each close theirs.    *)
NoNetworkLingers ==
  \A v \in Runs \ {run} : accept[v] \in {"none", "gone"} \/ v \in late

(* The shutdown and exec sockets of a child that is up stay its own, so    *)
(* the RPC of a Stop and an exec session reach the VM they are for.        *)
UpHasItsSockets == \A v \in Runs : child[v] = "up" => vsock = v

(* A network that is closed ends its goroutine, also when the guest never  *)
(* connected (network.go:103).                                             *)
CloseEndsGoroutine ==
  \A v \in Runs : v \in cancelled ~> accept[v] = "gone"

=============================================================================
