----------------------------- MODULE VMStopProofs -----------------------------
(***************************************************************************)
(* For any number of Stop calls and guest processes: errC never overflows, *)
(* Stop does not return with the child alive, and the guest powers off     *)
(* with the command's last writes on disk.                                 *)
(***************************************************************************)
EXTENDS VMStop, TLAPS

(* cmd.Wait puts at most one value into an empty errC, and errC has news   *)
(* only of a child that is gone.                                           *)
NewsIsTrue ==
  /\ waiter \in {"waiting", "gone"} => errs = 0 /\ ~errClosed
  /\ waiter \in {"close", "ended"} => vmm = "exited"

(* A Stop past its kill, or its wait, has no child left to end.            *)
StopIsDone ==
  \A c \in Calls : stop[c] \in {"killWait", "done"} => vmm \in {"killed", "exited"}

(* cmd.Wait is the only way to childDone, and a command that was waited    *)
(* for writes no more.                                                     *)
WaitedIsOver == waited = "done" => command = "reaped"

(* On its way to power off without having given up on the command, main    *)
(* has heard of its end.                                                   *)
PowerOffOrder ==
  ~gaveUp =>
    /\ main \in {"sync", "reboot", "off"} => waited = "done"
    /\ main \in {"reboot", "off"} => ~dirty

IInv == TypeOK /\ NewsIsTrue /\ StopIsDone /\ WaitedIsOver /\ PowerOffOrder

-----------------------------------------------------------------------------

LEMMA InitInv == Init => IInv
<1>. SUFFICES ASSUME Init PROVE IInv
  OBVIOUS
<1>1. GuestTypeOK
  BY DEF Init, GuestInit, GuestTypeOK
<1>2. HostTypeOK
  <2>1. errs \in 0..1
    BY DEF Init
  <2>. QED
    BY <2>1 DEF Init, HostTypeOK
<1>3. NewsIsTrue /\ StopIsDone
  BY DEF Init, NewsIsTrue, StopIsDone
<1>4. WaitedIsOver /\ PowerOffOrder
  BY DEF Init, GuestInit, WaitedIsOver, PowerOffOrder
<1>. QED
  BY <1>1, <1>2, <1>3, <1>4 DEF IInv, TypeOK

(* The host's own steps leave the guest alone, but for serving the RPC.    *)
LEMMA HostInv ==
  ASSUME IInv, NEW c \in Calls, Stop(c) \/ StopStep(c) PROVE IInv'
<1>. USE DEF IInv, TypeOK, GuestTypeOK, HostTypeOK, NewsIsTrue, StopIsDone,
             WaitedIsOver, PowerOffOrder, guestVars, mainState, processes, host,
             GoOn
<1>1. CASE Stop(c)
  BY <1>1 DEF Stop
<1>2. CASE Request(c)
  BY <1>2 DEF Request, Serve
<1>3. CASE Answered(c) \/ RPCFailed(c)
  BY <1>3 DEF Answered, RPCFailed
<1>4. CASE WaitExited(c)
  <2>1. vmm = "exited"
    BY <1>4 DEF WaitExited, Receive
  <2>. QED
    BY <1>4, <2>1 DEF WaitExited, Receive, TakeErr
<1>5. CASE WaitTimedOut(c)
  BY <1>5 DEF WaitTimedOut
<1>6. CASE Kill(c)
  BY <1>6 DEF Kill
<1>7. CASE KillWaitTimedOut(c)
  BY <1>7 DEF KillWaitTimedOut
<1>. QED
  BY <1>1, <1>2, <1>3, <1>4, <1>5, <1>6, <1>7 DEF StopStep

(* The end of krun-vmm, and how errC tells of it.                          *)
LEMMA ChildInv ==
  ASSUME IInv,
         VmmExits \/ VmmCrashes \/ ChildWaited \/ CloseErrC \/ Wait \/ HostDies
  PROVE  IInv'
<1>1. CASE VmmExits \/ VmmCrashes
  <2>. vmm' = "exited" /\ GuestGone
    BY <1>1 DEF VmmExits, VmmCrashes, VmmGone
  <2>. UNCHANGED <<stop, waiter, errs, errClosed, monitor>>
    BY <1>1 DEF VmmExits, VmmCrashes, VmmGone, host
  <2>1. GuestTypeOK'
    BY DEF GuestGone, GuestTypeOK
  <2>2. HostTypeOK'
    BY DEF IInv, TypeOK, HostTypeOK
  <2>3. NewsIsTrue' /\ StopIsDone'
    BY DEF IInv, NewsIsTrue, StopIsDone
  <2>4. WaitedIsOver' /\ PowerOffOrder'
    BY DEF GuestGone, WaitedIsOver, PowerOffOrder
  <2>. QED
    BY <2>1, <2>2, <2>3, <2>4 DEF IInv, TypeOK
<1>2. CASE HostDies
  <2>1. GuestTypeOK' /\ WaitedIsOver' /\ PowerOffOrder'
    BY <1>2 DEF HostDies, guestVars, mainState, processes, IInv, TypeOK,
                GuestTypeOK, WaitedIsOver, PowerOffOrder
  <2>2. NewsIsTrue' /\ StopIsDone'
    BY <1>2 DEF HostDies, IInv, NewsIsTrue, StopIsDone
  <2>3. errs' \in 0..1
    BY <1>2 DEF HostDies
  <2>4. HostTypeOK'
    BY <1>2, <2>3 DEF HostDies, IInv, TypeOK, HostTypeOK
  <2>. QED
    BY <2>1, <2>2, <2>4 DEF IInv, TypeOK
<1>. USE DEF IInv, TypeOK, GuestTypeOK, HostTypeOK, NewsIsTrue, StopIsDone,
             WaitedIsOver, PowerOffOrder, guestVars, mainState, processes, host
<1>3. CASE ChildWaited
  BY <1>3 DEF ChildWaited
<1>4. CASE CloseErrC
  BY <1>4 DEF CloseErrC
<1>5. CASE Wait
  <2>1. waiter \notin {"waiting", "gone"}
    BY <1>5 DEF Wait, Receive
  <2>. QED
    BY <1>5, <2>1 DEF Wait, Receive, TakeErr
<1>. QED
  BY <1>1, <1>2, <1>3, <1>4, <1>5

(* The guest's own steps keep the types of its state.                      *)
LEMMA GuestType == ASSUME GuestTypeOK, GuestStep PROVE GuestTypeOK'
<1>. USE DEF GuestTypeOK, mainState, processes, GoTo, Signal, PostSigchld
<1>1. CASE Boot \/ BootFailed \/ StartCommand
  BY <1>1 DEF Boot, BootFailed, StartCommand
<1>2. CASE CommandEnded \/ CommandObeyed
  BY <1>2 DEF CommandEnded, CommandObeyed
<1>3. CASE ShutdownRequested
  BY <1>3 DEF ShutdownRequested
<1>4. CASE CommandTimeout
  BY <1>4 DEF CommandTimeout
<1>5. CASE ServerFailed
  BY <1>5 DEF ServerFailed
<1>6. CASE PowerOffSync
  BY <1>6 DEF PowerOffSync
<1>7. CASE PowerOff
  BY <1>7 DEF PowerOff
<1>8. CASE ServeFails
  BY <1>8 DEF ServeFails
<1>9. ASSUME NEW c \in Calls, Handler(c) PROVE GuestTypeOK'
  <2>1. CASE HandlerSync(c)
    <3>1. rpc' \in [Calls -> {"none", "sync", "close", "answered", "panicked"}]
      BY <2>1 DEF HandlerSync
    <3>2. dirty' \in BOOLEAN /\ UNCHANGED <<mainState, processes>>
      BY <2>1 DEF HandlerSync
    <3>. QED
      BY <3>1, <3>2
  <2>2. CASE HandlerClose(c)
    <3>1. PICK r \in {"answered", "panicked"} : rpc' = [rpc EXCEPT ![c] = r]
      BY <2>2 DEF HandlerClose
    <3>. QED
      BY <2>2, <3>1 DEF HandlerClose
  <2>. QED
    BY <1>9, <2>1, <2>2 DEF Handler
<1>10. CASE WaitReturns
  BY <1>10 DEF WaitReturns
<1>11. CASE Reaper
  BY <1>11 DEF Reaper, ReaperStarts, ReaperWakes, Reap, ReaperSleeps
<1>12. CASE CommandWrites
  BY <1>12 DEF CommandWrites
<1>13. CASE CommandExits
  BY <1>13 DEF CommandExits
<1>14. ASSUME NEW o \in Orphans, OrphanExits(o) PROVE GuestTypeOK'
  BY <1>14 DEF OrphanExits
<1>. QED
  BY <1>1, <1>2, <1>3, <1>4, <1>5, <1>6, <1>7, <1>8, <1>9, <1>10, <1>11,
     <1>12, <1>13, <1>14 DEF GuestStep, MainStep

(* The command writes only while nobody has waited for it, and main moves  *)
(* on to power off when it has, or has given up.                           *)
LEMMA GuestOrder ==
  ASSUME WaitedIsOver, PowerOffOrder, GuestStep
  PROVE  WaitedIsOver' /\ PowerOffOrder'
<1>. DEFINE Goal == WaitedIsOver' /\ PowerOffOrder'
<1>. USE DEF WaitedIsOver, PowerOffOrder, mainState, processes, GoTo, Signal
<1>1. CASE Boot \/ BootFailed \/ StartCommand
  BY <1>1 DEF Boot, BootFailed, StartCommand
<1>2. CASE CommandEnded \/ CommandObeyed
  BY <1>2 DEF CommandEnded, CommandObeyed
<1>3. CASE ShutdownRequested
  BY <1>3 DEF ShutdownRequested
<1>4. CASE CommandTimeout \/ ServerFailed
  BY <1>4 DEF CommandTimeout, ServerFailed
<1>5. CASE PowerOffSync \/ PowerOff
  BY <1>5 DEF PowerOffSync, PowerOff
<1>6. CASE ServeFails
  BY <1>6 DEF ServeFails
<1>7. ASSUME NEW c \in Calls, Handler(c) PROVE Goal
  BY <1>7 DEF Handler, HandlerSync, HandlerClose
<1>8. CASE WaitReturns
  BY <1>8 DEF WaitReturns
<1>9. CASE Reaper
  BY <1>9 DEF Reaper, ReaperStarts, ReaperWakes, Reap, ReaperSleeps
<1>10. CASE CommandWrites \/ CommandExits
  BY <1>10 DEF CommandWrites, CommandExits
<1>11. ASSUME NEW o \in Orphans, OrphanExits(o) PROVE Goal
  BY <1>11 DEF OrphanExits
<1>. QED
  BY <1>1, <1>2, <1>3, <1>4, <1>5, <1>6, <1>7, <1>8, <1>9, <1>10, <1>11
     DEF GuestStep, MainStep

LEMMA GuestInv == ASSUME IInv, InGuest(GuestStep) PROVE IInv'
<1>1. GuestTypeOK' /\ WaitedIsOver' /\ PowerOffOrder'
  BY GuestType, GuestOrder DEF IInv, TypeOK, InGuest
<1>2. HostTypeOK' /\ NewsIsTrue' /\ StopIsDone'
  BY DEF IInv, TypeOK, InGuest, host, HostTypeOK, NewsIsTrue, StopIsDone
<1>. QED
  BY <1>1, <1>2 DEF IInv, TypeOK

LEMMA NextInv == IInv /\ [Next]_vars => IInv'
<1>1. ASSUME IInv, UNCHANGED vars PROVE IInv'
  BY <1>1 DEF vars, guestVars, mainState, processes, host, IInv, TypeOK,
     GuestTypeOK, HostTypeOK, NewsIsTrue, StopIsDone, WaitedIsOver,
     PowerOffOrder
<1>2. ASSUME IInv, Next PROVE IInv'
  BY <1>2, HostInv, ChildInv, GuestInv DEF Next
<1>. QED
  BY <1>1, <1>2

LEMMA Invariant == Spec => []IInv
BY InitInv, NextInv, PTL DEF Spec

-----------------------------------------------------------------------------

(* errC never needs room for more than the one value it has room for, so   *)
(* the goroutine around cmd.Wait does not block on it.                     *)
THEOREM TypeCorrect == Spec => []TypeOK
<1>1. IInv => TypeOK
  BY DEF IInv
<1>. QED
  BY <1>1, Invariant, PTL

(* VM.Stop returns only when krun-vmm is gone or has SIGKILL coming.       *)
THEOREM StopIsFinal == Spec => []StopEndsChild
<1>1. IInv => StopEndsChild
  BY DEF IInv, StopIsDone, StopEndsChild
<1>. QED
  BY <1>1, Invariant, PTL

(* A guest that powers off without having given up on its command has the  *)
(* command's last writes on disk.                                          *)
THEOREM NothingIsLost == Spec => []PowerOffIsDurable
<1>1. IInv => PowerOffIsDurable
  BY DEF IInv, PowerOffOrder, PowerOffIsDurable
<1>. QED
  BY <1>1, Invariant, PTL

-----------------------------------------------------------------------------
(* Step by step, krun.VM does what VMHandle allows.                        *)

LEMMA InitHandle == Init => Handle!Init
BY DEF Init, Handle!Init

(* Neither the guest nor the way from the RPC to the kill shows.           *)
LEMMA HostHandle ==
  ASSUME IInv, NEW c \in Calls, Stop(c) \/ StopStep(c)
  PROVE  [Handle!Next]_(Handle!vars)
<1>. USE DEF IInv, TypeOK, HostTypeOK, Handle!vars, GoOn
<1>1. CASE Stop(c)
  <2>. Handle!Begin(c)
    BY <1>1 DEF Stop, Handle!Begin
  <2>. QED
    BY DEF Handle!Next
<1>2. CASE Request(c)
  BY <1>2 DEF Request, host
<1>3. CASE Answered(c) \/ RPCFailed(c)
  BY <1>3 DEF Answered, RPCFailed
<1>4. CASE WaitExited(c)
  <2>1. vmm = "exited"
    BY <1>4 DEF WaitExited, Receive, NewsIsTrue
  <2>2. Handle!Return(c)
    BY <1>4, <2>1 DEF WaitExited, Handle!Return
  <2>. QED
    BY <2>2 DEF Handle!Next
<1>5. CASE WaitTimedOut(c)
  BY <1>5 DEF WaitTimedOut
<1>6. CASE Kill(c)
  <2>1. CASE vmm = "running"
    <3>. Handle!Doom(c)
      BY <1>6, <2>1 DEF Kill, Handle!Doom
    <3>. QED
      BY DEF Handle!Next
  <2>2. CASE vmm # "running"
    BY <1>6, <2>2 DEF Kill
  <2>. QED
    BY <2>1, <2>2
<1>7. CASE KillWaitTimedOut(c)
  <2>1. vmm \in {"killed", "exited"}
    BY <1>7 DEF KillWaitTimedOut, StopIsDone
  <2>2. Handle!Return(c)
    BY <1>7, <2>1 DEF KillWaitTimedOut, Handle!Return
  <2>. QED
    BY <2>2 DEF Handle!Next
<1>. QED
  BY <1>1, <1>2, <1>3, <1>4, <1>5, <1>6, <1>7 DEF StopStep

LEMMA ChildHandle ==
  ASSUME IInv,
         VmmExits \/ VmmCrashes \/ ChildWaited \/ CloseErrC \/ Wait \/ HostDies
  PROVE  [Handle!Next]_(Handle!vars)
<1>. USE DEF IInv, TypeOK, HostTypeOK, Handle!vars
<1>1. CASE VmmExits \/ VmmCrashes
  <2>. Handle!End
    BY <1>1 DEF VmmExits, VmmCrashes, VmmGone, host, Handle!End
  <2>. QED
    BY DEF Handle!Next
<1>2. CASE ChildWaited \/ CloseErrC
  BY <1>2 DEF ChildWaited, CloseErrC
<1>3. CASE Wait
  <2>1. vmm = "exited"
    BY <1>3 DEF Wait, Receive, NewsIsTrue
  <2>2. Handle!Tell
    BY <1>3, <2>1 DEF Wait, Handle!Tell
  <2>. QED
    BY <2>2 DEF Handle!Next
<1>4. CASE HostDies
  <2>. Handle!CallerDies
    BY <1>4 DEF HostDies, Handle!CallerDies
  <2>. QED
    BY DEF Handle!Next
<1>. QED
  BY <1>1, <1>2, <1>3, <1>4

LEMMA NextHandle == IInv /\ [Next]_vars => [Handle!Next]_(Handle!vars)
<1>1. ASSUME IInv, InGuest(GuestStep) \/ UNCHANGED vars
      PROVE  UNCHANGED Handle!vars
  BY <1>1 DEF InGuest, vars, host, Handle!vars
<1>. QED
  BY <1>1, HostHandle, ChildHandle DEF Next

(* The safety of KeepsPromise: Stop returns only with the child over or    *)
(* about to be, and Wait only when it is over.                             *)
THEOREM KeepsPromiseSafely == Spec => Handle!Spec
BY InitHandle, NextHandle, Invariant, PTL DEF Spec, Handle!Spec

=============================================================================
