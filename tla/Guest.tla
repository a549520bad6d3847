-------------------------------- MODULE Guest --------------------------------
(***************************************************************************)
(* vminit, PID 1 of the guest: main with the command it runs, the Shutdown *)
(* RPC, and the goroutine that reaps zombies.  The exec server and the     *)
(* forwarding of other signals take no part in how a guest ends.           *)
(***************************************************************************)
EXTENDS Naturals, FiniteSets

CONSTANTS
  Calls,    \* Shutdown RPCs the host may make
  Orphans   \* processes of the guest whose parent PID 1 becomes

VARIABLES
  main,      \* where main is, "off" after reboot(POWER_OFF), "dead" if the
             \* VM went away under it
  server,    \* the RPC server
  rpc,       \* the handler of each call
  closed,    \* is shutdownCh closed?
  command,   \* the user's command; "killed" from SIGKILL to its death
  waited,    \* the goroutine around cmd.Wait, "done" once childDone is filled
  reaper,    \* the goroutine in reapZombies
  sigchld,   \* is a SIGCHLD in its channel, which has room for one?
  orphan,    \* each orphan; "zombie" from its death to its reaping
  dirty,     \* has the command written since the last sync()?
  gaveUp     \* did main stop waiting for the command?

mainState == <<main, server, closed, waited, gaveUp>>
processes == <<command, reaper, sigchld, orphan>>
guestVars == <<mainState, rpc, processes, dirty>>

Alive == main \notin {"off", "dead"}

GoTo(l) == main' = l

-----------------------------------------------------------------------------
(* main                                                                    *)

(* setupGuest ran and both vsock ports are bound: RPCs are served before   *)
(* there is a command.                                                     *)
Boot ==
  /\ main = "boot"
  /\ GoTo("serving")
  /\ server' = "up"
  /\ UNCHANGED <<closed, waited, gaveUp, rpc, processes, dirty>>

(* log.Fatal exits PID 1, which brings the guest down.                     *)
BootFailed ==
  /\ main \in {"boot", "serving"}
  /\ GoTo("dead")
  /\ UNCHANGED <<server, closed, waited, gaveUp, rpc, processes, dirty>>

StartCommand ==
  /\ main = "serving"
  /\ command' = "running"
  /\ waited' = "waiting"
  /\ GoTo("select")
  /\ UNCHANGED <<server, closed, gaveUp, rpc, reaper, sigchld, orphan, dirty>>

(* select takes any case that is ready.                                    *)
CommandEnded ==
  /\ main = "select"
  /\ waited = "done"
  /\ GoTo("sync")
  /\ UNCHANGED <<server, closed, waited, gaveUp, rpc, processes, dirty>>

Signal(from, to) == command' = IF command \in from THEN to ELSE command

(* A shutdown that does not wait for the command.                          *)
TermWithoutWait ==
  /\ main = "select"
  /\ closed
  /\ Signal({"running"}, "asked")
  /\ GoTo("sync")
  /\ UNCHANGED <<server, closed, waited, gaveUp, rpc, reaper, sigchld, orphan,
                 dirty>>

ShutdownRequested ==
  /\ main = "select"
  /\ closed
  /\ Signal({"running"}, "asked")
  /\ GoTo("term")
  /\ UNCHANGED <<server, closed, waited, gaveUp, rpc, reaper, sigchld, orphan,
                 dirty>>

CommandObeyed ==
  /\ main = "term"
  /\ waited = "done"
  /\ GoTo("sync")
  /\ UNCHANGED <<server, closed, waited, gaveUp, rpc, processes, dirty>>

(* Waiting for a command that ignores SIGTERM.                             *)
NoTimeout == FALSE

(* Five seconds.  SIGKILL is sent and its effect is not waited for.        *)
CommandTimeout ==
  /\ main = "term"
  /\ Signal({"running", "asked"}, "killed")
  /\ gaveUp' = TRUE
  /\ GoTo("sync")
  /\ UNCHANGED <<server, closed, waited, rpc, reaper, sigchld, orphan, dirty>>

ServerFailed ==
  /\ main = "select"
  /\ server = "failed"
  /\ Signal({"running", "asked"}, "killed")
  /\ gaveUp' = TRUE
  /\ GoTo("sync")
  /\ UNCHANGED <<server, closed, waited, rpc, reaper, sigchld, orphan, dirty>>

PowerOffSync ==
  /\ main = "sync"
  /\ dirty' = FALSE
  /\ GoTo("reboot")
  /\ UNCHANGED <<server, closed, waited, gaveUp, rpc, processes>>

PowerOff ==
  /\ main = "reboot"
  /\ GoTo("off")
  /\ UNCHANGED <<server, closed, waited, gaveUp, rpc, processes, dirty>>

-----------------------------------------------------------------------------
(* serveRPC and Shutdown, one handler per call                             *)

Serve(c) ==
  /\ Alive
  /\ server = "up"
  /\ rpc[c] = "none"
  /\ rpc' = [rpc EXCEPT ![c] = "sync"]
  /\ UNCHANGED <<mainState, processes, dirty>>

HandlerSync(c) ==
  /\ Alive
  /\ rpc[c] = "sync"
  /\ dirty' = FALSE
  /\ rpc' = [rpc EXCEPT ![c] = "close"]
  /\ UNCHANGED <<mainState, processes>>

(* close(shutdownCh) panics when the channel is closed; net/http recovers  *)
(* and drops the connection.                                               *)
HandlerClose(c) ==
  /\ Alive
  /\ rpc[c] = "close"
  /\ rpc' = [rpc EXCEPT ![c] = IF closed THEN "panicked" ELSE "answered"]
  /\ closed' = TRUE
  /\ UNCHANGED <<main, server, waited, gaveUp, processes, dirty>>

(* Serve returns an error: accept failed.                                  *)
ServeFails ==
  /\ Alive
  /\ server = "up"
  /\ server' = "failed"
  /\ UNCHANGED <<main, closed, waited, gaveUp, rpc, processes, dirty>>

-----------------------------------------------------------------------------
(* Processes of the guest and their reaping                                *)

CommandWrites ==
  /\ Alive
  /\ command \in {"running", "asked", "killed"}
  /\ dirty' = TRUE
  /\ UNCHANGED <<mainState, rpc, processes>>

(* SIGCHLD goes to the channel of reapZombies, or nowhere when there is    *)
(* one in it or reapZombies has yet to ask for it.                         *)
PostSigchld == sigchld' = (sigchld \/ reaper # "off")

(* The command ends of itself, of SIGTERM if it heeds it, or of SIGKILL.   *)
CommandExits ==
  /\ Alive
  /\ command \in {"running", "asked", "killed"}
  /\ command' = "zombie"
  /\ PostSigchld
  /\ UNCHANGED <<mainState, rpc, reaper, orphan, dirty>>

OrphanExits(o) ==
  /\ Alive
  /\ command # "none"
  /\ orphan[o] = "running"
  /\ orphan' = [orphan EXCEPT ![o] = "zombie"]
  /\ PostSigchld
  /\ UNCHANGED <<mainState, rpc, command, reaper, dirty>>

(* A wait that ends with the status only.                                  *)
WaitForStatus ==
  /\ Alive
  /\ waited = "waiting"
  /\ command = "zombie"
  /\ command' = "reaped"
  /\ waited' = "done"
  /\ UNCHANGED <<main, server, closed, gaveUp, rpc, reaper, sigchld, orphan, dirty>>

(* cmd.Wait returns the status, or an error if the reaper took it.         *)
WaitReturns ==
  /\ Alive
  /\ waited = "waiting"
  /\ command \in {"zombie", "reaped"}
  /\ command' = "reaped"
  /\ waited' = "done"
  /\ UNCHANGED <<main, server, closed, gaveUp, rpc, reaper, sigchld, orphan, dirty>>

ReaperStarts ==
  /\ Alive
  /\ command # "none"
  /\ reaper = "off"
  /\ reaper' = "idle"
  /\ UNCHANGED <<mainState, rpc, command, sigchld, orphan, dirty>>

ReaperWakes ==
  /\ Alive
  /\ reaper = "idle"
  /\ sigchld
  /\ sigchld' = FALSE
  /\ reaper' = "reaping"
  /\ UNCHANGED <<mainState, rpc, command, orphan, dirty>>

(* One wait4 for each SIGCHLD.                                             *)
ReapOnePerSignal ==
  /\ Alive
  /\ reaper = "reaping"
  /\ reaper' = "idle"
  /\ \/ command = "zombie" /\ command' = "reaped" /\ UNCHANGED orphan
     \/ /\ \E o \in Orphans : orphan[o] = "zombie" /\
                              orphan' = [orphan EXCEPT ![o] = "gone"]
        /\ UNCHANGED command
  /\ UNCHANGED <<mainState, rpc, sigchld, dirty>>

(* wait4(-1, WNOHANG) takes any zombie, the command included.              *)
Reap ==
  /\ Alive
  /\ reaper = "reaping"
  /\ \/ /\ command = "zombie"
        /\ command' = "reaped"
        /\ UNCHANGED orphan
     \/ /\ \E o \in Orphans : orphan[o] = "zombie" /\
                              orphan' = [orphan EXCEPT ![o] = "gone"]
        /\ UNCHANGED command
  /\ UNCHANGED <<mainState, rpc, reaper, sigchld, dirty>>

ReaperSleeps ==
  /\ Alive
  /\ reaper = "reaping"
  /\ command # "zombie"
  /\ \A o \in Orphans : orphan[o] # "zombie"
  /\ reaper' = "idle"
  /\ UNCHANGED <<mainState, rpc, command, sigchld, orphan, dirty>>

-----------------------------------------------------------------------------

GuestInit ==
  /\ main = "boot"
  /\ server = "down"
  /\ rpc = [c \in Calls |-> "none"]
  /\ closed = FALSE
  /\ command = "none"
  /\ waited = "none"
  /\ reaper = "off"
  /\ sigchld = FALSE
  /\ orphan = [o \in Orphans |-> "running"]
  /\ dirty = FALSE
  /\ gaveUp = FALSE

(* The VM ends and takes everything in it along, bar an answer on its way. *)
GuestGone ==
  /\ main' = "dead" /\ server' = "down" /\ closed' = FALSE
  /\ waited' = "none" /\ gaveUp' = FALSE /\ dirty' = FALSE
  /\ command' = "none" /\ reaper' = "off" /\ sigchld' = FALSE
  /\ orphan' = [o \in Orphans |-> "gone"]
  /\ rpc' = [c \in Calls |-> IF rpc[c] = "answered" THEN "answered" ELSE "none"]

MainStep ==
  \/ Boot \/ StartCommand \/ CommandEnded \/ ShutdownRequested
  \/ CommandObeyed \/ CommandTimeout \/ ServerFailed \/ PowerOffSync \/ PowerOff

Handler(c) == HandlerSync(c) \/ HandlerClose(c)

Reaper == ReaperStarts \/ ReaperWakes \/ Reap \/ ReaperSleeps

GuestStep ==
  \/ MainStep \/ BootFailed \/ ServeFails
  \/ \E c \in Calls : Handler(c)
  \/ WaitReturns \/ Reaper
  \/ CommandWrites \/ CommandExits
  \/ \E o \in Orphans : OrphanExits(o)

GuestTypeOK ==
  /\ main \in {"boot", "serving", "select", "term", "sync", "reboot", "off", "dead"}
  /\ server \in {"down", "up", "failed"}
  /\ rpc \in [Calls -> {"none", "sync", "close", "answered", "panicked"}]
  /\ closed \in BOOLEAN
  /\ command \in {"none", "running", "asked", "killed", "zombie", "reaped"}
  /\ waited \in {"none", "waiting", "done"}
  /\ reaper \in {"off", "idle", "reaping"}
  /\ sigchld \in BOOLEAN
  /\ orphan \in [Orphans -> {"running", "zombie", "gone"}]
  /\ dirty \in BOOLEAN
  /\ gaveUp \in BOOLEAN

=============================================================================
