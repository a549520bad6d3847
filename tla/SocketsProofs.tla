---------------------------- MODULE SocketsProofs ----------------------------
(***************************************************************************)
(* However often a machine is started: each child finds the socket files   *)
(* it needs and keeps its own, and no network is there but the last run's, *)
(* save what outlived the wait of a Close.                                 *)
(***************************************************************************)
EXTENDS Sockets, TLAPS

Types ==
  /\ state \in {"stopped", "starting", "running", "stopping"}
  /\ call \in {"idle", "net", "clean", "spawn", "abandon", "mark", "close",
               "wait", "end", "poll", "force"}
  /\ run \in Runs \cup {None}
  /\ call # "idle" \/ state # "stopped" => run \in Runs
  /\ monitor \in [Runs -> {"none", "wait", "close", "done"}]
  /\ child \in [Runs -> {"none", "boot", "up", "failed", "killed", "exited"}]
  /\ accept \in [Runs -> {"none", "accept", "serve", "remove", "close",
                          "signal", "gone"}]
  /\ cancelled \subseteq Runs /\ listening \subseteq Runs
  /\ done \subseteq Runs /\ late \subseteq Runs
  /\ netFile \in Runs \cup {None} /\ vsock \in Runs \cup {None}

Settled(v) == accept[v] \in {"none", "gone"} \/ v \in late

(* The machine's earlier runs are over.                                    *)
Past(v) ==
  v # run => monitor[v] \in {"none", "done"} /\ child[v] \notin Alive /\ Settled(v)

(* The last one: what its Start has yet to do, and what a machine that is  *)
(* stopped may be started on.                                              *)
Last(v) ==
  v = run =>
    /\ call \in {"net", "clean", "spawn", "abandon"} =>
         state = "starting" /\ monitor[v] = "none" /\ child[v] = "none"
    /\ call = "net" => accept[v] = "none"
    /\ call \in {"poll", "force"} \/ state = "stopped" => child[v] \notin Alive
    /\ state = "stopped" => Settled(v)

Ready(v) == netFile = v \/ v \in cancelled \/ late # {}

(* The files, from Bind to Boot.                                           *)
Files(v) ==
  /\ v = run /\ call \in {"clean", "spawn"} => Ready(v)
  /\ v = run /\ call = "spawn" => vsock = None
  /\ child[v] = "boot" => Ready(v) /\ vsock = None

Steps(v) ==
  /\ monitor[v] \in {"close", "done"} => child[v] \in Gone
  /\ v \in done => accept[v] = "gone"
  /\ accept[v] = "accept" => v \in listening \cup cancelled
  /\ child[v] \in {"none", "boot"} /\ accept[v] \notin {"none", "accept"} =>
       v \in cancelled
  /\ child[v] = "failed" => v \in cancelled \/ late # {}
  /\ child[v] = "up" => vsock = v

RunInv(v) == Past(v) /\ Last(v) /\ Files(v) /\ Steps(v)

IInv == Types /\ \A v \in Runs : RunInv(v)

-----------------------------------------------------------------------------

LEMMA InitInv == Init => IInv
  BY SocketsAssumption DEF Init, IInv, Types, RunInv, Past, Last, Settled,
     Files, Ready, Steps, Alive, Gone

(* A Start finds the runs before its own over.                             *)
LEMMA StartInv ==
  ASSUME IInv, NEW t \in Runs, NEW w \in Runs,
         Start(w)
  PROVE  Types' /\ RunInv(t)'
<1>. USE SocketsAssumption DEF IInv, Types, Alive, Gone, client, network, files,
               Quiet, Fresh
<1>1. CASE Start(w)
  <2>1. Types'
    BY <1>1 DEF Start
  <2>2. RunInv(t)'
    BY <1>1 DEF Start, RunInv, Past, Last, Settled, Files, Ready, Steps
  <2>. QED
    BY <2>1, <2>2
<1>. QED
  BY <1>1

(* Its steps make the last run ready.                                      *)
LEMMA StartStepInv ==
  ASSUME IInv, NEW t \in Runs,
         Bind \/ NoNetwork \/ Clean \/ Spawn \/ SpawnFails \/ Abandon
  PROVE  Types' /\ RunInv(t)'
<1>. USE SocketsAssumption DEF IInv, Types, Alive, Gone, client, network, files,
               Close, Waited
<1>1. CASE Bind
  <2>1. Types'
    BY <1>1 DEF Bind
  <2>2. RunInv(t)'
    BY <1>1 DEF Bind, RunInv, Past, Last, Settled, Files, Ready, Steps
  <2>. QED
    BY <2>1, <2>2
<1>2. CASE NoNetwork
  <2>1. Types'
    BY <1>2 DEF NoNetwork
  <2>2. RunInv(t)'
    BY <1>2 DEF NoNetwork, RunInv, Past, Last, Settled, Files, Ready, Steps
  <2>. QED
    BY <2>1, <2>2
<1>3. CASE Clean
  <2>1. Types'
    BY <1>3 DEF Clean
  <2>2. RunInv(t)'
    BY <1>3 DEF Clean, RunInv, Past, Last, Settled, Files, Ready, Steps
  <2>. QED
    BY <2>1, <2>2
<1>4. CASE Spawn
  <2>1. Types'
    BY <1>4 DEF Spawn
  <2>2. RunInv(t)'
    BY <1>4 DEF Spawn, RunInv, Past, Last, Settled, Files, Ready, Steps
  <2>. QED
    BY <2>1, <2>2
<1>5. CASE SpawnFails
  <2>1. Types'
    BY <1>5 DEF SpawnFails
  <2>2. RunInv(t)'
    BY <1>5 DEF SpawnFails, RunInv, Past, Last, Settled, Files, Ready, Steps
  <2>. QED
    BY <2>1, <2>2
<1>6. CASE Abandon
  <2>1. Types'
    BY <1>6 DEF Abandon
  <2>2. RunInv(t)'
    BY <1>6 DEF Abandon, RunInv, Past, Last, Settled, Files, Ready, Steps
  <2>. QED
    BY <2>1, <2>2
<1>. QED
  BY <1>1, <1>2, <1>3, <1>4, <1>5, <1>6

(* A Stop ends the last run.                                               *)
LEMMA StopInv ==
  ASSUME IInv, NEW t \in Runs,
         StopCheck \/ StopMark \/ StopClose \/ StopWaited \/ StopVM \/
         StopDone \/ StopDeadline \/ StopForce
  PROVE  Types' /\ RunInv(t)'
<1>. USE SocketsAssumption DEF IInv, Types, Alive, Gone, client, network, files,
               Close, Waited, Goto
<1>1. CASE StopCheck
  <2>1. Types'
    BY <1>1 DEF StopCheck
  <2>2. RunInv(t)'
    BY <1>1 DEF StopCheck, RunInv, Past, Last, Settled, Files, Ready, Steps
  <2>. QED
    BY <2>1, <2>2
<1>2. CASE StopMark
  <2>1. Types'
    BY <1>2 DEF StopMark
  <2>2. RunInv(t)'
    BY <1>2 DEF StopMark, RunInv, Past, Last, Settled, Files, Ready, Steps
  <2>. QED
    BY <2>1, <2>2
<1>3. CASE StopClose
  <2>1. Types'
    BY <1>3 DEF StopClose
  <2>2. RunInv(t)'
    BY <1>3 DEF StopClose, RunInv, Past, Last, Settled, Files, Ready, Steps
  <2>. QED
    BY <2>1, <2>2
<1>4. CASE StopWaited
  <2>1. Types'
    BY <1>4 DEF StopWaited
  <2>2. RunInv(t)'
    BY <1>4 DEF StopWaited, RunInv, Past, Last, Settled, Files, Ready, Steps
  <2>. QED
    BY <2>1, <2>2
<1>5. CASE StopVM
  <2>1. Types'
    BY <1>5 DEF StopVM
  <2>2. RunInv(t)'
    BY <1>5 DEF StopVM, RunInv, Past, Last, Settled, Files, Ready, Steps
  <2>. QED
    BY <2>1, <2>2
<1>6. CASE StopDone
  <2>1. Types'
    BY <1>6 DEF StopDone
  <2>2. RunInv(t)'
    BY <1>6 DEF StopDone, RunInv, Past, Last, Settled, Files, Ready, Steps
  <2>. QED
    BY <2>1, <2>2
<1>7. CASE StopDeadline
  <2>1. Types'
    BY <1>7 DEF StopDeadline
  <2>2. RunInv(t)'
    BY <1>7 DEF StopDeadline, RunInv, Past, Last, Settled, Files, Ready, Steps
  <2>. QED
    BY <2>1, <2>2
<1>8. CASE StopForce
  <2>1. Types'
    BY <1>8 DEF StopForce
  <2>2. RunInv(t)'
    BY <1>8 DEF StopForce, RunInv, Past, Last, Settled, Files, Ready, Steps
  <2>. QED
    BY <2>1, <2>2
<1>. QED
  BY <1>1, <1>2, <1>3, <1>4, <1>5, <1>6, <1>7, <1>8

(* Monitor and child.                                                      *)
LEMMA RunStepInv ==
  ASSUME IInv, NEW t \in Runs, NEW w \in Runs,
         MonitorClose(w) \/ MonitorStopped(w) \/ Boot(w) \/ BootFails(w) \/
         Exit(w)
  PROVE  Types' /\ RunInv(t)'
<1>. USE SocketsAssumption DEF IInv, Types, Alive, Gone, client, network, files,
               Close, Waited
<1>1. CASE MonitorClose(w)
  <2>1. Types'
    BY <1>1 DEF MonitorClose
  <2>2. RunInv(t)'
    BY <1>1 DEF MonitorClose, RunInv, Past, Last, Settled, Files, Ready, Steps
  <2>. QED
    BY <2>1, <2>2
<1>2. CASE MonitorStopped(w)
  <2>1. Types'
    BY <1>2 DEF MonitorStopped
  <2>2. RunInv(t)'
    BY <1>2 DEF MonitorStopped, RunInv, Past, Last, Settled, Files, Ready, Steps
  <2>. QED
    BY <2>1, <2>2
<1>3. CASE Boot(w)
  <2>1. Types'
    BY <1>3 DEF Boot
  <2>2. RunInv(t)'
    BY <1>3 DEF Boot, RunInv, Past, Last, Settled, Files, Ready, Steps
  <2>. QED
    BY <2>1, <2>2
<1>4. CASE BootFails(w)
  <2>1. Types'
    BY <1>4 DEF BootFails
  <2>2. RunInv(t)'
    BY <1>4 DEF BootFails, RunInv, Past, Last, Settled, Files, Ready, Steps
  <2>. QED
    BY <2>1, <2>2
<1>5. CASE Exit(w)
  <2>1. Types'
    BY <1>5 DEF Exit
  <2>2. RunInv(t)'
    BY <1>5 DEF Exit, RunInv, Past, Last, Settled, Files, Ready, Steps
  <2>. QED
    BY <2>1, <2>2
<1>. QED
  BY <1>1, <1>2, <1>3, <1>4, <1>5

(* The accept goroutine, which removes the file of another run only late.  *)
LEMMA GoroutineInv ==
  ASSUME IInv, NEW t \in Runs, NEW w \in Runs,
         Connect(w) \/ AcceptFails(w) \/ ServeEnds(w) \/ Remove(w) \/
         CloseListen(w) \/ Signal(w)
  PROVE  Types' /\ RunInv(t)'
<1>. USE SocketsAssumption DEF IInv, Types, Alive, Gone, client, network, files,
             Becomes
<1>1. CASE Connect(w)
  <2>1. Types'
    BY <1>1 DEF Connect
  <2>2. RunInv(t)'
    BY <1>1 DEF Connect, RunInv, Past, Last, Settled, Files, Ready, Steps
  <2>. QED
    BY <2>1, <2>2
<1>2. CASE AcceptFails(w)
  <2>1. Types'
    BY <1>2 DEF AcceptFails
  <2>2. RunInv(t)'
    BY <1>2 DEF AcceptFails, RunInv, Past, Last, Settled, Files, Ready, Steps
  <2>. QED
    BY <2>1, <2>2
<1>3. CASE ServeEnds(w)
  <2>1. Types'
    BY <1>3 DEF ServeEnds
  <2>2. RunInv(t)'
    BY <1>3 DEF ServeEnds, RunInv, Past, Last, Settled, Files, Ready, Steps
  <2>. QED
    BY <2>1, <2>2
<1>4. CASE Remove(w)
  <2>1. Types'
    BY <1>4 DEF Remove
  <2>2. RunInv(t)'
    BY <1>4 DEF Remove, RunInv, Past, Last, Settled, Files, Ready, Steps
  <2>. QED
    BY <2>1, <2>2
<1>5. CASE CloseListen(w)
  <2>1. Types'
    BY <1>5 DEF CloseListen
  <2>2. RunInv(t)'
    BY <1>5 DEF CloseListen, RunInv, Past, Last, Settled, Files, Ready, Steps
  <2>. QED
    BY <2>1, <2>2
<1>6. CASE Signal(w)
  <2>1. Types'
    BY <1>6 DEF Signal
  <2>2. RunInv(t)'
    BY <1>6 DEF Signal, RunInv, Past, Last, Settled, Files, Ready, Steps
  <2>. QED
    BY <2>1, <2>2
<1>. QED
  BY <1>1, <1>2, <1>3, <1>4, <1>5, <1>6

LEMMA NextInv == IInv /\ [Next]_vars => IInv'
<1>. SUFFICES ASSUME IInv, [Next]_vars PROVE IInv'
  OBVIOUS
<1>1. CASE UNCHANGED vars
  BY <1>1 DEF vars, client, network, files, IInv, Types, RunInv, Past, Last,
     Settled, Files, Ready, Steps
<1>2. ASSUME NEW t \in Runs, Next PROVE Types' /\ RunInv(t)'
  <2>1. CASE StartStep
    BY <2>1, StartStepInv DEF StartStep
  <2>2. CASE StopCheck \/ StopStep
    BY <2>2, StopInv DEF StopStep
  <2>3. ASSUME NEW w \in Runs,
               \/ Start(w) \/ MonitorClose(w) \/ MonitorStopped(w)
               \/ Boot(w) \/ BootFails(w) \/ Exit(w) \/ Goroutine(w)
        PROVE  Types' /\ RunInv(t)'
    <3>1. CASE Start(w)
      BY <3>1, StartInv
    <3>2. CASE \/ MonitorClose(w) \/ MonitorStopped(w)
               \/ Boot(w) \/ BootFails(w) \/ Exit(w)
      BY <3>2, RunStepInv
    <3>3. CASE Goroutine(w)
      BY <3>3, GoroutineInv DEF Goroutine, Deferred
    <3>. QED
      BY <2>3, <3>1, <3>2, <3>3
  <2>. QED
    BY <1>2, <2>1, <2>2, <2>3 DEF Next
<1>3. CASE Next /\ Runs # {}
  BY <1>2, <1>3 DEF IInv
<1>4. CASE Next /\ Runs = {}
  BY <1>4 DEF IInv, Types, Next, StartStep, StopCheck, StopStep, Bind,
     NoNetwork, Clean, Spawn, SpawnFails, Abandon, StopMark, StopClose,
     StopWaited, StopVM, StopDone, StopDeadline, StopForce
<1>. QED
  BY <1>1, <1>3, <1>4

LEMMA Inductive == Spec => []IInv
  BY InitInv, NextInv, PTL DEF Spec

-----------------------------------------------------------------------------

(* A child fails for its sockets only in a run that is being closed, or    *)
(* after a goroutine outlasted a Close (network.go:66,105-108).            *)
THEOREM BootFinds == Spec => []BootFindsItsSockets
<1>1. IInv => BootFindsItsSockets
  BY DEF IInv, RunInv, Steps, BootFindsItsSockets
<1>. QED
  BY <1>1, Inductive, PTL

(* A run meets no network of an earlier one, but for those a Close gave up *)
(* on (manager.go:131-184,202,242,262).                                    *)
THEOREM NoLingering == Spec => []NoNetworkLingers
<1>1. IInv => NoNetworkLingers
  BY DEF IInv, RunInv, Past, Settled, NoNetworkLingers
<1>. QED
  BY <1>1, Inductive, PTL

(* A child that is up keeps its shutdown and exec sockets                  *)
(* (manager.go:146-151).                                                   *)
THEOREM UpKeepsSockets == Spec => []UpHasItsSockets
<1>1. IInv => UpHasItsSockets
  BY DEF IInv, RunInv, Steps, UpHasItsSockets
<1>. QED
  BY <1>1, Inductive, PTL

=============================================================================
