----------------------------- MODULE ExecSession -----------------------------
(***************************************************************************)
(* Exec sessions: krun-exec on the host, handleExecSession in vminit, and  *)
(* the vsock connection and the PTY between a terminal and a shell.  Each  *)
(* end runs two copies; a session ends when its four copies, its shell and *)
(* its two descriptors have all been dealt with, whichever ended first.    *)
(*                                                                         *)
(* What is typed or shown is not told apart here (see ResizeStream), only  *)
(* whether it gets there.  A vsock descriptor is blocking: closing it does *)
(* not interrupt a read, and takes effect when the read has returned.  A   *)
(* PTY is polled: closing it ends whatever is under way on it.             *)
(***************************************************************************)
EXTENDS Naturals

CONSTANTS
  Sessions,  \* one krun-exec each
  Fds,       \* descriptor numbers that vminit may get for a connection
  None,      \* no descriptor
  Room       \* chunks that a PTY, or a connection, holds before writers wait

ASSUME SessionAssumption == None \notin Fds /\ Room \in Nat \ {0}

VARIABLES
  accepting,  \* is serveExec in its loop?
  \* krun-exec
  client,     \* where it is; "ended" once its stdin has
  how,        \* why it returned
  \* the connection
  line,       \* the sessions with the handshake line in flight
  bytes,      \* ... with anything typed in flight
  wire,       \* output in flight
  shutW,      \* the sessions whose guest's side is shut for writing
  \* vminit
  pc,         \* handleExecSession
  in,         \* its goroutine in copyWithResize
  out,        \* and the one in io.Copy
  conn,       \* the connection's descriptor while it is open
  closed,     \* the sessions that called conn.Close
  aim,        \* the descriptor that CloseWrite is about to shut down
  ptmx,       \* the PTY's master
  \* terminal and shell
  full,       \* the sessions whose PTY's input is full: a write to it waits
  pty,        \* output in the PTY
  shell,      \* the process of cmd, "exited" until it is waited for
  held,       \* ... where what outlived it keeps the terminal open
  \* for the properties
  lost,       \* ... that dropped output
  struck      \* ... whose connection another session shut down

hostEnd == <<client, how>>
link == <<line, bytes, wire, shutW>>
goroutines == <<pc, in, out>>
descriptors == <<conn, closed, aim, ptmx>>
terminal == <<full, pty, shell, held>>
vars == <<accepting, hostEnd, link, goroutines, descriptors, terminal, lost,
          struck>>

Set(f, s, v) == [f EXCEPT ![s] = v]

-----------------------------------------------------------------------------
(* krun-exec                                                               *)

(* libkrun turns a connection to the socket into one to the guest's port.  *)
Dial(s) ==
  /\ client[s] = "away"
  /\ client' = Set(client, s, "dialed")
  /\ pc' = Set(pc, s, "queued")
  /\ UNCHANGED <<accepting, how, link, in, out, descriptors, terminal, lost,
                 struck>>

SendLine(s) ==
  /\ client[s] = "dialed"
  /\ client' = Set(client, s, "copying")
  /\ line' = line \cup {s}
  /\ UNCHANGED <<accepting, how, bytes, wire, shutW, goroutines, descriptors,
                 terminal, lost, struck>>

Type(s) ==
  /\ client[s] = "copying"
  /\ bytes' = bytes \cup {s}
  /\ UNCHANGED <<accepting, hostEnd, line, wire, shutW, goroutines,
                 descriptors, terminal, lost, struck>>

(* stdin ends, or a write to the connection fails: CloseWrite, then done.  *)
StdinEnds(s) ==
  /\ client[s] = "copying"
  /\ client' = Set(client, s, "ended")
  /\ UNCHANGED <<accepting, how, link, goroutines, descriptors, terminal, lost,
                 struck>>

Show(s) ==
  /\ client[s] \in {"copying", "ended"}
  /\ wire[s] > 0
  /\ wire' = [wire EXCEPT ![s] = @ - 1]
  /\ UNCHANGED <<accepting, hostEnd, line, bytes, shutW, goroutines,
                 descriptors, terminal, lost, struck>>

(* run returns after the first of its two copies, and the process exits.   *)
Leave(s, why) ==
  /\ client' = Set(client, s, "gone")
  /\ how' = Set(how, s, why)
  /\ lost' = IF wire[s] > 0 THEN lost \cup {s} ELSE lost
  /\ wire' = Set(wire, s, 0)
  /\ UNCHANGED <<accepting, line, bytes, shutW, goroutines, descriptors,
                 terminal, struck>>

HearEnd(s) ==
  /\ client[s] = "copying"
  /\ wire[s] = 0
  /\ s \in shutW
  /\ Leave(s, "eof")

ReturnAtEnd(s) == client[s] = "ended" /\ Leave(s, "stdin")

(* An error before the copies, or a signal.                                *)
Killed(s) == client[s] \in {"dialed", "copying", "ended"} /\ Leave(s, "killed")

(* What the proxy makes of a guest that closed without CloseWrite is up to *)
(* it: krun-exec may hear of that now, or never.                           *)
HearClose(s) ==
  /\ client[s] = "copying"
  /\ wire[s] = 0
  /\ s \in closed /\ conn[s] = None
  /\ Leave(s, "eof")

-----------------------------------------------------------------------------
(* serveExec and the beginning of a session                                *)

Accept(s) ==
  /\ accepting
  /\ pc[s] = "queued"
  /\ \E d \in Fds : /\ \A t \in Sessions : conn[t] # d
                    /\ conn' = Set(conn, s, d)
  /\ pc' = Set(pc, s, "handshake")
  /\ UNCHANGED <<accepting, hostEnd, link, in, out, closed, aim, ptmx,
                 terminal, lost, struck>>

(* An error of accept, such as the limit of open files, ends the loop.     *)
AcceptFails ==
  /\ accepting
  /\ accepting' = FALSE
  /\ UNCHANGED <<hostEnd, link, goroutines, descriptors, terminal, lost,
                 struck>>

(* The reader may take what follows the line too; Spawn writes that.       *)
ReadLine(s) ==
  /\ pc[s] = "handshake"
  /\ s \in line
  /\ line' = line \ {s}
  /\ bytes' \in {bytes, bytes \ {s}}
  /\ pc' = Set(pc, s, "spawn")
  /\ UNCHANGED <<accepting, hostEnd, wire, shutW, in, out, descriptors,
                 terminal, lost, struck>>

(* The deferred conn.Close.                                                *)
Abandon(s) ==
  /\ conn' = Set(conn, s, None)
  /\ closed' = closed \cup {s}
  /\ pc' = Set(pc, s, "ended")
  /\ UNCHANGED <<accepting, hostEnd, link, in, out, aim, ptmx, terminal, lost,
                 struck>>

NoLine(s) ==
  /\ pc[s] = "handshake"
  /\ s \notin line
  /\ client[s] = "gone"
  /\ Abandon(s)

NoShell(s) == pc[s] = "spawn" /\ Abandon(s)

(* A session that starts one copy only.                                    *)
SpawnOutOnly(s) ==
  /\ pc[s] = "spawn"
  /\ pc' = Set(pc, s, "copy")
  /\ out' = Set(out, s, "idle")
  /\ ptmx' = Set(ptmx, s, "open")
  /\ shell' = Set(shell, s, "running")
  /\ full' \in {full, full \cup {s}}
  /\ UNCHANGED <<accepting, hostEnd, link, in, conn, closed, aim, pty, held,
                 lost, struck>>

Spawn(s) ==
  /\ pc[s] = "spawn"
  /\ pc' = Set(pc, s, "copy")
  /\ in' = Set(in, s, "idle")
  /\ out' = Set(out, s, "idle")
  /\ ptmx' = Set(ptmx, s, "open")
  /\ shell' = Set(shell, s, "running")
  /\ full' \in {full, full \cup {s}}
  /\ UNCHANGED <<accepting, hostEnd, link, conn, closed, aim, pty, held, lost,
                 struck>>

-----------------------------------------------------------------------------
(* Connection to PTY                                                       *)

(* An operation on the connection returns.  The last one out after Close   *)
(* gives the descriptor back.                                              *)
Release(s) == conn' = IF s \in closed THEN Set(conn, s, None) ELSE conn

InGoes(s, l) ==
  /\ in' = Set(in, s, l)
  /\ UNCHANGED <<accepting, hostEnd, line, wire, shutW, pc, out, closed, aim,
                 ptmx, pty, shell, held, lost, struck>>

InStart(s) ==
  /\ in[s] = "idle"
  /\ InGoes(s, IF s \in closed THEN "done" ELSE "read")
  /\ UNCHANGED <<bytes, conn, full>>

InRead(s) ==
  /\ in[s] = "read"
  /\ s \in bytes
  /\ bytes' = bytes \ {s}
  /\ Release(s)
  /\ InGoes(s, "write")
  /\ UNCHANGED full

(* End of stream, or a reset that may overtake what was sent before it.    *)
InEnds(s) ==
  /\ in[s] = "read"
  /\ client[s] = "gone" \/ (client[s] = "ended" /\ s \notin bytes)
  /\ Release(s)
  /\ InGoes(s, "done")
  /\ UNCHANGED <<bytes, full>>

(* Waits while the terminal's input is full.  An error is not looked at.   *)
InWrite(s) ==
  /\ in[s] = "write"
  /\ \/ ptmx[s] = "closed" /\ UNCHANGED full
     \/ s \notin full /\ full' \in {full, full \cup {s}}
  /\ InGoes(s, "idle")
  /\ UNCHANGED <<bytes, conn>>

InStep(s) == InStart(s) \/ InRead(s) \/ InEnds(s) \/ InWrite(s)

-----------------------------------------------------------------------------
(* PTY to connection                                                       *)

OutGoes(s, l) ==
  /\ out' = Set(out, s, l)
  /\ UNCHANGED <<accepting, hostEnd, line, bytes, pc, in, closed, ptmx, full,
                 shell, held>>

OutRead(s) ==
  /\ out[s] = "idle"
  /\ ptmx[s] = "open"
  /\ pty[s] > 0
  /\ pty' = [pty EXCEPT ![s] = @ - 1]
  /\ OutGoes(s, "write")
  /\ UNCHANGED <<wire, shutW, conn, aim, lost, struck>>

(* Waits while the connection is full.                                     *)
OutWrite(s) ==
  /\ out[s] = "write"
  /\ conn[s] # None /\ s \notin shutW /\ client[s] # "gone"
  /\ wire[s] < Room
  /\ wire' = [wire EXCEPT ![s] = @ + 1]
  /\ Release(s)
  /\ OutGoes(s, "idle")
  /\ UNCHANGED <<shutW, aim, pty, lost, struck>>

OutBreaks(s) ==
  /\ out[s] = "write"
  /\ s \in closed \/ s \in shutW \/ client[s] = "gone"
  /\ lost' = lost \cup {s}
  /\ Release(s)
  /\ OutGoes(s, "fd")
  /\ UNCHANGED <<wire, shutW, aim, pty, struck>>

(* The session without its half-close.                                     *)
EndWithoutShutdown(s) ==
  /\ out[s] = "idle"
  /\ ptmx[s] = "closed" \/ (pty[s] = 0 /\ shell[s] = "exited" /\ s \notin held)
  /\ OutGoes(s, "done")
  /\ UNCHANGED <<wire, shutW, conn, aim, pty, lost, struck>>

(* The PTY is closed, or drained and no process has the terminal open.     *)
OutEnds(s) ==
  /\ out[s] = "idle"
  /\ ptmx[s] = "closed" \/ (pty[s] = 0 /\ shell[s] = "exited" /\ s \notin held)
  /\ OutGoes(s, "fd")
  /\ UNCHANGED <<wire, shutW, conn, aim, pty, lost, struck>>

(* CloseWrite asks the file for its descriptor ...                         *)
GetFd(s) ==
  /\ out[s] = "fd"
  /\ aim' = Set(aim, s, conn[s])
  /\ OutGoes(s, "shutdown")
  /\ UNCHANGED <<wire, shutW, conn, pty, lost, struck>>

(* ... and shuts down what has that number by now.                         *)
Shutdown(s) ==
  /\ out[s] = "shutdown"
  /\ LET hit == {t \in Sessions : aim[s] # None /\ conn[t] = aim[s]} IN
       /\ shutW' = shutW \cup hit
       /\ struck' = struck \cup (hit \ {s})
  /\ aim' = Set(aim, s, None)
  /\ OutGoes(s, "done")
  /\ UNCHANGED <<wire, conn, pty, lost>>

OutStep(s) ==
  \/ OutRead(s) \/ OutWrite(s) \/ OutBreaks(s) \/ OutEnds(s) \/ GetFd(s)
  \/ Shutdown(s)

-----------------------------------------------------------------------------
(* handleExecSession after the copies have begun                           *)

Proceed(s, l) ==
  /\ pc' = Set(pc, s, l)
  /\ UNCHANGED <<accepting, hostEnd, link, in, out, aim, full, held, struck>>

(* A session that ends with its shell, not with its output.                *)
FirstShell(s) ==
  /\ pc[s] = "copy"
  /\ in[s] = "done" \/ shell[s] = "exited"
  /\ Proceed(s, "closeConn")
  /\ UNCHANGED <<conn, closed, ptmx, pty, shell, lost>>

FirstDone(s) ==
  /\ pc[s] = "copy"
  /\ in[s] = "done" \/ out[s] = "done"
  /\ Proceed(s, "closeConn")
  /\ UNCHANGED <<conn, closed, ptmx, pty, shell, lost>>

(* The copy that is left may be in the middle of a read or a write, which  *)
(* keeps the descriptor; one about to write finds it closed.               *)
CloseConn(s) ==
  /\ pc[s] = "closeConn"
  /\ closed' = closed \cup {s}
  /\ \/ in[s] # "read" /\ conn' = Set(conn, s, None)
     \/ (in[s] = "read" \/ out[s] = "write") /\ UNCHANGED conn
  /\ Proceed(s, "closePty")
  /\ UNCHANGED <<ptmx, pty, shell, lost>>

(* A session that leaves the PTY to the deferred Close.                    *)
KeepPty(s) ==
  /\ pc[s] = "closePty"
  /\ Proceed(s, "join")
  /\ UNCHANGED <<conn, closed, ptmx, pty, shell, lost>>

(* The terminal hangs up: SIGHUP for the shell, which may ignore it.       *)
ClosePty(s) ==
  /\ pc[s] = "closePty"
  /\ ptmx' = Set(ptmx, s, "closed")
  /\ lost' = IF pty[s] > 0 THEN lost \cup {s} ELSE lost
  /\ pty' = Set(pty, s, 0)
  /\ Proceed(s, "join")
  /\ UNCHANGED <<conn, closed, shell>>

(* A session that does not wait for its second copy.                       *)
SkipSecond(s) ==
  /\ pc[s] = "join"
  /\ Proceed(s, "reap")
  /\ UNCHANGED <<conn, closed, ptmx, pty, shell, lost>>

SecondDone(s) ==
  /\ pc[s] = "join"
  /\ in[s] = "done" /\ out[s] = "done"
  /\ Proceed(s, "reap")
  /\ UNCHANGED <<conn, closed, ptmx, pty, shell, lost>>

(* cmd.Wait, which returns too if reapZombies was first, and the deferred  *)
(* Closes.                                                                 *)
WaitShell(s) ==
  /\ pc[s] = "reap"
  /\ shell[s] = "exited"
  /\ shell' = Set(shell, s, "reaped")
  /\ ptmx' = Set(ptmx, s, "closed")
  /\ Proceed(s, "ended")
  /\ UNCHANGED <<conn, closed, pty, lost>>

SessionStep(s) ==
  \/ ReadLine(s) \/ NoLine(s) \/ NoShell(s) \/ Spawn(s)
  \/ FirstDone(s) \/ CloseConn(s) \/ ClosePty(s) \/ SecondDone(s)
  \/ WaitShell(s)

-----------------------------------------------------------------------------
(* The shell and what it leaves behind                                     *)

Terminal(s) ==
  UNCHANGED <<accepting, hostEnd, link, goroutines, descriptors, lost, struck>>

Output(s) ==
  /\ shell[s] = "running" \/ s \in held
  /\ ptmx[s] = "open"
  /\ pty[s] < Room
  /\ pty' = [pty EXCEPT ![s] = @ + 1]
  /\ Terminal(s) /\ UNCHANGED <<full, shell, held>>

Input(s) ==
  /\ shell[s] = "running" \/ s \in held
  /\ s \in full
  /\ full' = full \ {s}
  /\ Terminal(s) /\ UNCHANGED <<pty, shell, held>>

(* It may leave processes in the background.                               *)
ShellExits(s) ==
  /\ shell[s] = "running"
  /\ shell' = Set(shell, s, "exited")
  /\ held' \in {held, held \cup {s}}
  /\ Terminal(s) /\ UNCHANGED <<full, pty>>

JobEnds(s) ==
  /\ s \in held
  /\ held' = held \ {s}
  /\ Terminal(s) /\ UNCHANGED <<full, pty, shell>>

ShellStep(s) == Output(s) \/ Input(s) \/ ShellExits(s) \/ JobEnds(s)

-----------------------------------------------------------------------------

Init ==
  /\ accepting = TRUE
  /\ client = [s \in Sessions |-> "away"]
  /\ how = [s \in Sessions |-> "none"]
  /\ line = {}
  /\ bytes = {}
  /\ wire = [s \in Sessions |-> 0]
  /\ shutW = {}
  /\ pc = [s \in Sessions |-> "none"]
  /\ in = [s \in Sessions |-> "none"]
  /\ out = [s \in Sessions |-> "none"]
  /\ conn = [s \in Sessions |-> None]
  /\ closed = {}
  /\ aim = [s \in Sessions |-> None]
  /\ ptmx = [s \in Sessions |-> "none"]
  /\ full = {}
  /\ pty = [s \in Sessions |-> 0]
  /\ shell = [s \in Sessions |-> "none"]
  /\ held = {}
  /\ lost = {}
  /\ struck = {}

HostStep(s) == Show(s) \/ HearEnd(s) \/ ReturnAtEnd(s)

User(s) == Dial(s) \/ SendLine(s) \/ Type(s) \/ StdinEnds(s) \/ Killed(s)

SessionNext(s) ==
  \/ User(s) \/ HostStep(s) \/ HearClose(s) \/ Accept(s)
  \/ SessionStep(s) \/ InStep(s) \/ OutStep(s) \/ ShellStep(s)

Next == AcceptFails \/ \E s \in Sessions : SessionNext(s)

Spec == Init /\ [][Next]_vars

(* Goroutines of both ends run, and a terminal shows what it is sent.  No  *)
(* user need type or leave, and no shell need read, write or exit.         *)
Fairness ==
  \A s \in Sessions :
    /\ WF_vars(HostStep(s)) /\ WF_vars(SessionStep(s))
    /\ WF_vars(InStep(s)) /\ WF_vars(OutStep(s))

FairSpec == Spec /\ Fairness

-----------------------------------------------------------------------------

Early == {"none", "queued", "handshake", "spawn"}
Closing == {"closePty", "join", "reap", "ended"}

PCs == Early \cup {"copy", "closeConn"} \cup Closing
InPCs == {"none", "idle", "read", "write", "done"}
OutPCs == {"none", "idle", "write", "fd", "shutdown", "done"}

Types ==
  /\ accepting \in BOOLEAN
  /\ client \in [Sessions -> {"away", "dialed", "copying", "ended", "gone"}]
  /\ how \in [Sessions -> {"none", "eof", "stdin", "killed"}]
  /\ line \subseteq Sessions /\ bytes \subseteq Sessions
  /\ wire \in [Sessions -> 0..Room] /\ shutW \subseteq Sessions
  /\ pc \in [Sessions -> PCs]
  /\ in \in [Sessions -> InPCs] /\ out \in [Sessions -> OutPCs]
  /\ conn \in [Sessions -> Fds \cup {None}] /\ closed \subseteq Sessions
  /\ aim \in [Sessions -> Fds \cup {None}]
  /\ ptmx \in [Sessions -> {"none", "open", "closed"}]
  /\ full \subseteq Sessions /\ pty \in [Sessions -> 0..Room]
  /\ shell \in [Sessions -> {"none", "running", "exited", "reaped"}]
  /\ held \subseteq Sessions /\ lost \subseteq Sessions
  /\ struck \subseteq Sessions

(* A session has both copies from its shell's start on, or neither, and it *)
(* closes no connection before a copy is done.                             *)
Shape(s) ==
  /\ pc[s] \in Early => in[s] = "none"
  /\ in[s] = "none" <=> out[s] = "none"
  /\ in[s] = "none" => pc[s] \in Early \cup {"ended"}
  /\ s \in closed => pc[s] \in Closing

(* Values keep their types, and sessions their shape.                      *)
TypeOK == Types /\ \A s \in Sessions : Shape(s)

(* When krun-exec returns because the guest said so, the shell is gone     *)
(* with all that kept its terminal open, and all they wrote was shown.     *)
(* The half-close comes after the last write (vminit main.go:333-337), and *)
(* nobody closes the PTY or the connection before it (342-345).            *)
OutputIsComplete ==
  \A s \in Sessions :
    how[s] = "eof" /\ s \notin struck =>
      /\ shell[s] # "running" /\ s \notin held
      /\ pty[s] = 0 /\ out[s] # "write" /\ s \notin lost

(* A session that is over has left no descriptor, no goroutine and no      *)
(* zombie behind, whichever way it ended (vminit main.go:283-349).         *)
NothingIsLeft ==
  \A s \in Sessions :
    pc[s] = "ended" =>
      /\ conn[s] = None /\ ptmx[s] # "open"
      /\ in[s] \in {"none", "done"} /\ out[s] \in {"none", "done"}
      /\ shell[s] \in {"none", "reaped"}

(* krun-exec returns once the shell and what it left are gone, though      *)
(* vminit is still reading from it (vminit main.go:334-339).               *)
ClientHearsTheEnd ==
  \A s \in Sessions :
    shell[s] = "exited" /\ s \notin held ~> client[s] = "gone"

(* When krun-exec is gone, its terminal hangs up and its session ends up   *)
(* waiting for nothing but the shell (vminit main.go:342-348) -- unless    *)
(* the shell never again reads, and what was typed before the end fills    *)
(* its terminal: then the copy that should see the end waits to write.     *)
LeavingHangsUp ==
  \A s \in Sessions :
    client[s] = "gone" /\ pc[s] \notin {"none", "queued"} ~>
      pc[s] \in {"reap", "ended"} \/ [](in[s] = "write")

(* handleExecSession shuts down its own connection and no other (vminit    *)
(* main.go:334-336 "Half-close the write side so the proxy propagates EOF  *)
(* to the host").                                                          *)
OwnConnectionOnly == struck = {}

=============================================================================
