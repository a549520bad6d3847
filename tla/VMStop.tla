------------------------------- MODULE VMStop -------------------------------
(***************************************************************************)
(* krun.VM after Start, against the guest of module Guest: calls of Stop,  *)
(* the goroutine that waits for the krun-vmm process and passes its fate   *)
(* on through errC, and the reader of errC in Wait.  A channel with room   *)
(* for one value is read by all of them, and closed.                       *)
(***************************************************************************)
EXTENDS Guest

VARIABLES
  stop,       \* each call of VM.Stop, which makes the RPC of the same name
  vmm,        \* the krun-vmm process; "killed" from SIGKILL to its death
  waiter,     \* the goroutine around vm.cmd.Wait
  errs,       \* number of values in errC
  errClosed,  \* is errC closed?
  monitor     \* the caller of VM.Wait

host == <<stop, waiter, errs, errClosed, monitor>>
vars == <<guestVars, host, vmm>>

GoOn(c, l) == stop' = [stop EXCEPT ![c] = l]

-----------------------------------------------------------------------------
(* VM.Stop                                                                 *)

Stop(c) ==
  /\ stop[c] = "idle"
  /\ GoOn(c, "rpc")
  /\ UNCHANGED <<guestVars, vmm, waiter, errs, errClosed, monitor>>

Request(c) ==
  /\ stop[c] = "rpc"
  /\ vmm # "exited"
  /\ Serve(c)
  /\ UNCHANGED <<host, vmm>>

Answered(c) ==
  /\ stop[c] = "rpc"
  /\ rpc[c] = "answered"
  /\ GoOn(c, "wait")
  /\ UNCHANGED <<guestVars, vmm, waiter, errs, errClosed, monitor>>

(* The dial fails, the connection breaks, or ten seconds pass.             *)
RPCFailed(c) ==
  /\ stop[c] = "rpc"
  /\ GoOn(c, "kill")
  /\ UNCHANGED <<guestVars, vmm, waiter, errs, errClosed, monitor>>

(* Receiving from errC: a value if there is one, nil once it is closed.    *)
Receive == errs > 0 \/ errClosed
TakeErr == errs' = IF errs > 0 THEN errs - 1 ELSE 0

WaitExited(c) ==
  /\ stop[c] \in {"wait", "killWait"}
  /\ Receive
  /\ TakeErr
  /\ GoOn(c, "done")
  /\ UNCHANGED <<guestVars, vmm, waiter, errClosed, monitor>>

(* Stop that returns when the guest does not power off in time.            *)
TimeoutReturns(c) ==
  /\ stop[c] = "wait"
  /\ GoOn(c, "done")
  /\ UNCHANGED <<guestVars, vmm, waiter, errs, errClosed, monitor>>

WaitTimedOut(c) ==
  /\ stop[c] = "wait"
  /\ GoOn(c, "kill")
  /\ UNCHANGED <<guestVars, vmm, waiter, errs, errClosed, monitor>>

Kill(c) ==
  /\ stop[c] = "kill"
  /\ vmm' = IF vmm = "running" THEN "killed" ELSE vmm
  /\ GoOn(c, "killWait")
  /\ UNCHANGED <<guestVars, waiter, errs, errClosed, monitor>>

KillWaitTimedOut(c) ==
  /\ stop[c] = "killWait"
  /\ GoOn(c, "done")
  /\ UNCHANGED <<guestVars, vmm, waiter, errs, errClosed, monitor>>

-----------------------------------------------------------------------------
(* The child's end and the news of it                                      *)

(* The process ends and nothing is left of its guest.  libkrun exits it    *)
(* when the guest powers off or its init dies; SIGKILL ends both.          *)
VmmGone == vmm' = "exited" /\ GuestGone /\ UNCHANGED host

VmmExits == (vmm = "killed" \/ (vmm = "running" /\ ~Alive)) /\ VmmGone

(* krun-vmm crashes.                                                       *)
VmmCrashes == vmm = "running" /\ Alive /\ VmmGone

(* A goroutine that waits for the process again after an error.            *)
WaitAgain ==
  /\ waiter = "waiting"
  /\ vmm = "exited"
  /\ \/ errs' = errs + 1 /\ UNCHANGED waiter
     \/ waiter' = "close" /\ UNCHANGED errs
  /\ UNCHANGED <<guestVars, vmm, stop, errClosed, monitor>>

(* cmd.Wait returns; an error goes to errC.                                *)
ChildWaited ==
  /\ waiter = "waiting"
  /\ vmm = "exited"
  /\ errs' \in {errs, errs + 1}
  /\ waiter' = "close"
  /\ UNCHANGED <<guestVars, vmm, stop, errClosed, monitor>>

(* The goroutine without its deferred close.                               *)
LeaveOpen ==
  /\ waiter = "close"
  /\ waiter' = "ended"
  /\ UNCHANGED <<guestVars, vmm, stop, errs, errClosed, monitor>>

CloseErrC ==
  /\ waiter = "close"
  /\ errClosed' = TRUE
  /\ waiter' = "ended"
  /\ UNCHANGED <<guestVars, vmm, stop, errs, monitor>>

Wait ==
  /\ monitor = "waiting"
  /\ Receive
  /\ TakeErr
  /\ monitor' = "returned"
  /\ UNCHANGED <<guestVars, vmm, stop, waiter, errClosed>>

(* The host's process is killed; krun-vmm is not tied to its parent.       *)
HostDies ==
  /\ waiter # "gone"
  /\ stop' = [c \in Calls |-> "gone"]
  /\ waiter' = "gone" /\ monitor' = "gone"
  /\ errs' = 0 /\ errClosed' = FALSE
  /\ UNCHANGED <<guestVars, vmm>>

-----------------------------------------------------------------------------

Init ==
  /\ GuestInit
  /\ stop = [c \in Calls |-> "idle"]
  /\ vmm = "running"
  /\ waiter = "waiting"
  /\ errs = 0
  /\ errClosed = FALSE
  /\ monitor = "waiting"

StopStep(c) ==
  \/ Request(c) \/ Answered(c) \/ RPCFailed(c) \/ WaitExited(c)
  \/ WaitTimedOut(c) \/ Kill(c) \/ KillWaitTimedOut(c)

InGuest(A) == A /\ UNCHANGED <<host, vmm>>

Next ==
  \/ \E c \in Calls : Stop(c) \/ StopStep(c)
  \/ VmmExits \/ VmmCrashes \/ ChildWaited \/ CloseErrC \/ Wait
  \/ HostDies
  \/ InGuest(GuestStep)

Spec == Init /\ [][Next]_vars

(* Goroutines of host and guest are scheduled and timers fire; the kernel  *)
(* carries out SIGKILL.  No client need call Stop, the command need not    *)
(* heed SIGTERM, and the RPC need not be served.                           *)
Fairness ==
  /\ \A c \in Calls : WF_vars(StopStep(c)) /\ WF_vars(InGuest(Handler(c)))
  /\ WF_vars(VmmExits) /\ WF_vars(ChildWaited) /\ WF_vars(CloseErrC)
  /\ WF_vars(Wait)
  /\ WF_vars(InGuest(MainStep)) /\ WF_vars(InGuest(WaitReturns))
  /\ WF_vars(InGuest(Reaper))

FairSpec == Spec /\ Fairness

-----------------------------------------------------------------------------

HostTypeOK ==
  /\ stop \in [Calls -> {"idle", "rpc", "wait", "kill", "killWait", "done", "gone"}]
  /\ vmm \in {"running", "killed", "exited"}
  /\ waiter \in {"waiting", "close", "ended", "gone"}
  /\ errs \in 0..1
  /\ errClosed \in BOOLEAN
  /\ monitor \in {"waiting", "returned", "gone"}

(* Values keep their types; errC never holds more than the one value it    *)
(* has room for, so that the waiting goroutine never blocks on it.         *)
TypeOK == GuestTypeOK /\ HostTypeOK

(* Whatever its RPC, its guest and other calls did, Stop returns only when *)
(* krun-vmm has exited or has SIGKILL coming (vm.go:184-192).              *)
StopEndsChild ==
  \A c \in Calls : stop[c] = "done" => vmm \in {"killed", "exited"}

(* The code's states as the caller of krun.VM knows them.                  *)
Handle == INSTANCE VMHandle WITH
  child <- CASE vmm = "running" -> "running"
             [] vmm = "killed"  -> "ending"
             [] vmm = "exited"  -> "gone",
  stops <- [c \in Calls |->
              CASE stop[c] = "idle" -> "free"
                [] stop[c] = "done" -> "returned"
                [] stop[c] = "gone" -> "lost"
                [] OTHER            -> "stopping"],
  told <- CASE monitor = "waiting"  -> "waiting"
            [] monitor = "returned" -> "told"
            [] monitor = "gone"     -> "lost"

(* krun.VM keeps the promise that its caller, the manager, relies on: a    *)
(* Stop returns, and with the child over or about to be; a Wait returns    *)
(* when the child is over and not before, though errC holds one value and  *)
(* whoever comes first takes it (vm.go:136-214).                           *)
KeepsPromise == Handle!LSpec

(* What a command wrote that ended before main gave up on it -- in its     *)
(* SIGTERM handler too, after the sync of the Shutdown RPC -- is on disk   *)
(* when the guest powers off (vminit main.go:86-112, 170-173).             *)
PowerOffIsDurable == main = "off" /\ ~gaveUp => ~dirty

(* Once the Shutdown RPC is served the VM goes away, though the command    *)
(* may ignore SIGTERM and the host may be gone (vminit main.go:96-112).    *)
ShutdownEndsVM == closed ~> vmm = "exited"

(* A command that ends takes the VM along, though reapZombies may take its *)
(* status from cmd.Wait and nobody may ask for a shutdown (vminit main.go  *)
(* 78-95, 355-366).                                                        *)
CommandEndEndsVM == command \in {"zombie", "reaped"} ~> vmm = "exited"

(* A zombie whose SIGCHLD reached the channel is reaped, though signals    *)
(* coalesce and the reaper may be busy when they arrive (vminit            *)
(* main.go:355-366).                                                       *)
OrphansAreReaped ==
  \A o \in Orphans :
    orphan[o] = "zombie" /\ sigchld ~> orphan[o] = "gone" \/ ~Alive

=============================================================================
