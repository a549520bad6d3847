----------------------------- MODULE Lifecycle -----------------------------
(***************************************************************************)
(* What machine.Manager promises of one machine, without goroutines, locks *)
(* or process handles: the five states of machine/machine.go, whether a    *)
(* krun-vmm child process is running for the machine, and whether the      *)
(* machine is still listed.  Module Manager is shown to implement it when  *)
(* requests for one machine do not overlap.                                *)
(***************************************************************************)

CONSTANT Machines     \* the ids uuid.New() may hand out

VARIABLES
  state,    \* State of each machine, "absent" before Create
  live,     \* the machines for which a child process is running
  listed    \* the machines that Get and List return

lvars == <<state, live, listed>>

States == {"created", "starting", "running", "stopping", "stopped"}

(* A machine is at rest before its first Start and after a Stop or an exit:*)
(* the states from which Start and Delete are accepted.                    *)
AtRest == {"created", "stopped"}

LInit ==
  /\ state = [m \in Machines |-> "absent"]
  /\ live = {}
  /\ listed = {}

Become(m, s) == state' = [state EXCEPT ![m] = s]

LCreate(m) ==
  /\ state[m] = "absent"
  /\ Become(m, "created")
  /\ listed' = listed \cup {m}
  /\ UNCHANGED live

LStart(m) ==
  /\ m \in listed \ live
  /\ state[m] \in AtRest
  /\ Become(m, "starting")
  /\ UNCHANGED <<live, listed>>

LLaunch(m) ==
  /\ state[m] = "starting"
  /\ m \notin live
  /\ live' = live \cup {m}
  /\ UNCHANGED <<state, listed>>

LReady(m) ==
  /\ state[m] = "starting"
  /\ Become(m, "running")
  /\ UNCHANGED <<live, listed>>

LFail(m) ==
  /\ state[m] = "starting"
  /\ m \notin live
  /\ Become(m, "stopped")
  /\ UNCHANGED <<live, listed>>

(* The child goes away: on its own at any time, or because it was asked to.*)
LExit(m) ==
  /\ m \in live
  /\ live' = live \ {m}
  /\ UNCHANGED <<state, listed>>

(* Stop marks a running machine; it may also re-mark one whose child exited*)
(* between Stop's look at the state and its write.                         *)
LStop(m) ==
  /\ \/ state[m] = "running"
     \/ state[m] = "stopped" /\ m \notin live
  /\ Become(m, "stopping")
  /\ UNCHANGED <<live, listed>>

LSettle(m) ==
  /\ state[m] \in {"running", "stopping"}
  /\ m \notin live
  /\ Become(m, "stopped")
  /\ UNCHANGED <<live, listed>>

LDelete(m) ==
  /\ m \in listed \ live
  /\ state[m] \in AtRest
  /\ listed' = listed \ {m}
  /\ UNCHANGED <<state, live>>

LStep(m) ==
  \/ LCreate(m) \/ LStart(m) \/ LLaunch(m) \/ LReady(m) \/ LFail(m)
  \/ LExit(m) \/ LStop(m) \/ LSettle(m) \/ LDelete(m)

LNext == \E m \in Machines : LStep(m)

(* A start is decided, and a machine that is being stopped loses its child *)
(* and comes to rest.                                                      *)
LFairness ==
  \A m \in Machines :
    /\ WF_lvars(LReady(m) \/ LFail(m))
    /\ WF_lvars(state[m] = "stopping" /\ LExit(m))
    /\ WF_lvars(LSettle(m))

LSafe == LInit /\ [][LNext]_lvars

LSpec == LSafe /\ LFairness

=============================================================================
