------------------------- MODULE ExecSessionProofs -------------------------
(***************************************************************************)
(* For any number of sessions, descriptors and any room in PTYs and        *)
(* connections: a session's goroutines keep to their order, output that    *)
(* krun-exec takes for complete is, and nothing is left of a session that  *)
(* is over.                                                                *)
(***************************************************************************)
EXTENDS ExecSession, TLAPS

Present(s) == client[s] \in {"away", "dialed", "copying"}

Drained(s) == shell[s] # "running" /\ s \notin held /\ pty[s] = 0

(* What goes with where a session is.  Only an end of krun-exec's stdin or *)
(* of itself, or a closed connection, ends the input's copy.               *)
Order(s) ==
  /\ client[s] = "away" => pc[s] = "none"
  /\ ptmx[s] = "closed" => pc[s] \in Closing
  /\ in[s] = "none" => shell[s] = "none" /\ s \notin held /\ pty[s] = 0
  /\ how[s] = "none" <=> client[s] # "gone"
  /\ Present(s) /\ in[s] = "done" => s \in closed

(* krun-exec may yet take, or took, the end of what it hears as the end.   *)
Heard(s) == Present(s) \/ how[s] = "eof"

(* While krun-exec listens, handleExecSession does not get past its first  *)
(* copy unless that was the output's, which ends drained.                  *)
Whole(s) ==
  s \notin struck =>
    /\ s \in shutW => out[s] = "done"
    /\ Heard(s) => s \notin lost
    /\ Heard(s) /\ pc[s] \in Closing \cup {"closeConn"} => out[s] \in {"none", "done"}
    /\ Heard(s) /\ out[s] \in {"fd", "shutdown", "done"} => Drained(s)
    /\ how[s] = "eof" => out[s] = "done" \/ (out[s] = "none" /\ pc[s] = "ended")

(* What each step towards the end has disposed of.                         *)
Disposed(s) ==
  /\ pc[s] \in Early => ptmx[s] = "none"
  /\ pc[s] \in Closing => s \in closed
  /\ pc[s] \in {"reap", "ended"} => {in[s], out[s]} \subseteq {"none", "done"}
  /\ s \in closed /\ in[s] # "read" /\ out[s] # "write" => conn[s] = None
  /\ pc[s] = "ended" => ptmx[s] # "open" /\ shell[s] \in {"none", "reaped"}

SessionInv(s) == Shape(s) /\ Order(s) /\ Whole(s) /\ Disposed(s)

IInv == Types /\ \A s \in Sessions : SessionInv(s)

-----------------------------------------------------------------------------

LEMMA InitInv == Init => IInv
<1>. SUFFICES ASSUME Init PROVE IInv
  OBVIOUS
<1>1. Types
  BY SessionAssumption DEF Init, Types, PCs, Early, InPCs, OutPCs
<1>2. ASSUME NEW s \in Sessions PROVE SessionInv(s)
  BY DEF Init, SessionInv, Shape, Order, Whole, Disposed, Present, Heard, Drained,
         Early, Closing
<1>. QED
  BY <1>1, <1>2 DEF IInv

(* Whatever a session s does: the types, and any session t's invariant.    *)


(* krun-exec's steps, and its user's.                                      *)
LEMMA HostInv ==
  ASSUME IInv, NEW s \in Sessions, NEW t \in Sessions,
         Dial(s) \/ SendLine(s) \/ Type(s) \/ StdinEnds(s) \/ Killed(s) \/
         Show(s) \/ HearEnd(s) \/ ReturnAtEnd(s) \/ HearClose(s)
  PROVE  Types' /\ SessionInv(t)'
<1>. USE SessionAssumption DEF IInv, Types, Set, PCs, InPCs, OutPCs, Early, Closing,
             hostEnd, link, goroutines, descriptors, terminal
<1>1. CASE Dial(s)
  <2>1. Types'
    BY <1>1 DEF Dial
  <2>2. SessionInv(t)'
    BY <1>1 DEF Dial, SessionInv, Shape, Order,
       Whole, Disposed, Heard, Present, Drained
  <2>. QED
    BY <2>1, <2>2
<1>2. CASE SendLine(s)
  <2>1. Types'
    BY <1>2 DEF SendLine
  <2>2. SessionInv(t)'
    BY <1>2 DEF SendLine, SessionInv, Shape, Order,
       Whole, Disposed, Heard, Present, Drained
  <2>. QED
    BY <2>1, <2>2
<1>3. CASE Type(s)
  <2>1. Types'
    BY <1>3 DEF Type
  <2>2. SessionInv(t)'
    BY <1>3 DEF Type, SessionInv, Shape, Order,
       Whole, Disposed, Heard, Present, Drained
  <2>. QED
    BY <2>1, <2>2
<1>4. CASE StdinEnds(s)
  <2>1. Types'
    BY <1>4 DEF StdinEnds
  <2>2. SessionInv(t)'
    BY <1>4 DEF StdinEnds, SessionInv, Shape, Order,
       Whole, Disposed, Heard, Present, Drained
  <2>. QED
    BY <2>1, <2>2
<1>5. CASE Killed(s)
  <2>1. Types'
    BY <1>5 DEF Killed, Leave
  <2>2. SessionInv(t)'
    BY <1>5 DEF Killed, Leave, SessionInv, Shape, Order,
       Whole, Disposed, Heard, Present, Drained
  <2>. QED
    BY <2>1, <2>2
<1>6. CASE Show(s)
  <2>1. Types'
    BY <1>6 DEF Show
  <2>2. SessionInv(t)'
    BY <1>6 DEF Show, SessionInv, Shape, Order,
       Whole, Disposed, Heard, Present, Drained
  <2>. QED
    BY <2>1, <2>2
<1>7. CASE HearEnd(s)
  <2>1. Types'
    BY <1>7 DEF HearEnd, Leave
  <2>2. SessionInv(t)'
    BY <1>7 DEF HearEnd, Leave, SessionInv, Shape, Order,
       Whole, Disposed, Heard, Present, Drained
  <2>. QED
    BY <2>1, <2>2
<1>8. CASE ReturnAtEnd(s)
  <2>1. Types'
    BY <1>8 DEF ReturnAtEnd, Leave
  <2>2. SessionInv(t)'
    BY <1>8 DEF ReturnAtEnd, Leave, SessionInv, Shape, Order,
       Whole, Disposed, Heard, Present, Drained
  <2>. QED
    BY <2>1, <2>2
<1>9. CASE HearClose(s)
  <2>1. Types'
    BY <1>9 DEF HearClose, Leave
  <2>2. SessionInv(t)'
    BY <1>9 DEF HearClose, Leave, SessionInv, Shape, Order,
       Whole, Disposed, Heard, Present, Drained
  <2>. QED
    BY <2>1, <2>2
<1>. QED
    BY <1>1, <1>2, <1>3, <1>4, <1>5, <1>6, <1>7, <1>8, <1>9

(* Until the copies have begun.                                            *)
LEMMA BeginInv ==
  ASSUME IInv, NEW s \in Sessions, NEW t \in Sessions,
         Accept(s) \/ ReadLine(s) \/ NoLine(s) \/ NoShell(s) \/ Spawn(s)
  PROVE  Types' /\ SessionInv(t)'
<1>. USE SessionAssumption DEF IInv, Types, Set, PCs, InPCs, OutPCs, Early, Closing,
             hostEnd, link, goroutines, descriptors, terminal
<1>1. CASE Accept(s)
  <2>1. Types'
    BY <1>1 DEF Accept
  <2>2. SessionInv(t)'
    BY <1>1 DEF Accept, SessionInv, Shape, Order,
       Whole, Disposed, Heard, Present, Drained
  <2>. QED
    BY <2>1, <2>2
<1>2. CASE ReadLine(s)
  <2>1. Types'
    BY <1>2 DEF ReadLine
  <2>2. SessionInv(t)'
    BY <1>2 DEF ReadLine, SessionInv, Shape, Order,
       Whole, Disposed, Heard, Present, Drained
  <2>. QED
    BY <2>1, <2>2
<1>3. CASE NoLine(s)
  <2>1. Types'
    BY <1>3 DEF NoLine, Abandon
  <2>2. SessionInv(t)'
    BY <1>3 DEF NoLine, Abandon, SessionInv, Shape, Order,
       Whole, Disposed, Heard, Present, Drained
  <2>. QED
    BY <2>1, <2>2
<1>4. CASE NoShell(s)
  <2>1. Types'
    BY <1>4 DEF NoShell, Abandon
  <2>2. SessionInv(t)'
    BY <1>4 DEF NoShell, Abandon, SessionInv, Shape, Order,
       Whole, Disposed, Heard, Present, Drained
  <2>. QED
    BY <2>1, <2>2
<1>5. CASE Spawn(s)
  <2>1. Types'
    BY <1>5 DEF Spawn
  <2>2. SessionInv(t)'
    BY <1>5 DEF Spawn, SessionInv, Shape, Order,
       Whole, Disposed, Heard, Present, Drained
  <2>. QED
    BY <2>1, <2>2
<1>. QED
    BY <1>1, <1>2, <1>3, <1>4, <1>5

(* Connection to PTY.                                                      *)
LEMMA InInv ==
  ASSUME IInv, NEW s \in Sessions, NEW t \in Sessions,
         InStart(s) \/ InRead(s) \/ InEnds(s) \/ InWrite(s)
  PROVE  Types' /\ SessionInv(t)'
<1>. USE SessionAssumption DEF IInv, Types, Set, PCs, InPCs, OutPCs, Early, Closing,
             hostEnd, link, goroutines, descriptors, terminal
<1>1. CASE InStart(s)
  <2>1. Types'
    BY <1>1 DEF InStart, InGoes
  <2>2. SessionInv(t)'
    BY <1>1 DEF InStart, InGoes, SessionInv, Shape, Order,
       Whole, Disposed, Heard, Present, Drained
  <2>. QED
    BY <2>1, <2>2
<1>2. CASE InRead(s)
  <2>1. Types'
    BY <1>2 DEF InRead, InGoes, Release
  <2>2. SessionInv(t)'
    BY <1>2 DEF InRead, InGoes, Release, SessionInv, Shape, Order,
       Whole, Disposed, Heard, Present, Drained
  <2>. QED
    BY <2>1, <2>2
<1>3. CASE InEnds(s)
  <2>1. Types'
    BY <1>3 DEF InEnds, InGoes, Release
  <2>2. SessionInv(t)'
    BY <1>3 DEF InEnds, InGoes, Release, SessionInv, Shape, Order,
       Whole, Disposed, Heard, Present, Drained
  <2>. QED
    BY <2>1, <2>2
<1>4. CASE InWrite(s)
  <2>1. Types'
    BY <1>4 DEF InWrite, InGoes
  <2>2. SessionInv(t)'
    BY <1>4 DEF InWrite, InGoes, SessionInv, Shape, Order,
       Whole, Disposed, Heard, Present, Drained
  <2>. QED
    BY <2>1, <2>2
<1>. QED
    BY <1>1, <1>2, <1>3, <1>4

(* PTY to connection.                                                      *)
LEMMA OutInv ==
  ASSUME IInv, NEW s \in Sessions, NEW t \in Sessions,
         OutRead(s) \/ OutWrite(s) \/ OutBreaks(s) \/ OutEnds(s) \/ GetFd(s)
         \/ Shutdown(s)
  PROVE  Types' /\ SessionInv(t)'
<1>. USE SessionAssumption DEF IInv, Types, Set, PCs, InPCs, OutPCs, Early, Closing,
             hostEnd, link, goroutines, descriptors, terminal
<1>1. CASE OutRead(s)
  <2>1. Types'
    BY <1>1 DEF OutRead, OutGoes
  <2>2. SessionInv(t)'
    BY <1>1 DEF OutRead, OutGoes, SessionInv, Shape, Order,
       Whole, Disposed, Heard, Present, Drained
  <2>. QED
    BY <2>1, <2>2
<1>2. CASE OutWrite(s)
  <2>1. Types'
    BY <1>2 DEF OutWrite, OutGoes, Release
  <2>2. SessionInv(t)'
    BY <1>2 DEF OutWrite, OutGoes, Release, SessionInv, Shape, Order,
       Whole, Disposed, Heard, Present, Drained
  <2>. QED
    BY <2>1, <2>2
<1>3. CASE OutBreaks(s)
  <2>1. Types'
    BY <1>3 DEF OutBreaks, OutGoes, Release
  <2>2. SessionInv(t)'
    BY <1>3 DEF OutBreaks, OutGoes, Release, SessionInv, Shape, Order,
       Whole, Disposed, Heard, Present, Drained
  <2>. QED
    BY <2>1, <2>2
<1>4. CASE OutEnds(s)
  <2>1. Types'
    BY <1>4 DEF OutEnds, OutGoes
  <2>2. SessionInv(t)'
    BY <1>4 DEF OutEnds, OutGoes, SessionInv, Shape, Order,
       Whole, Disposed, Heard, Present, Drained
  <2>. QED
    BY <2>1, <2>2
<1>5. CASE GetFd(s)
  <2>1. Types'
    BY <1>5 DEF GetFd, OutGoes
  <2>2. SessionInv(t)'
    BY <1>5 DEF GetFd, OutGoes, SessionInv, Shape, Order,
       Whole, Disposed, Heard, Present, Drained
  <2>. QED
    BY <2>1, <2>2
<1>6. CASE Shutdown(s)
  <2>1. Types'
    BY <1>6 DEF Shutdown, OutGoes
  <2>2. SessionInv(t)'
    BY <1>6 DEF Shutdown, OutGoes, SessionInv, Shape, Order,
       Whole, Disposed, Heard, Present, Drained
  <2>. QED
    BY <2>1, <2>2
<1>. QED
    BY <1>1, <1>2, <1>3, <1>4, <1>5, <1>6

(* From the end of the first copy on.                                      *)
LEMMA EndInv ==
  ASSUME IInv, NEW s \in Sessions, NEW t \in Sessions,
         FirstDone(s) \/ CloseConn(s) \/ ClosePty(s) \/ SecondDone(s) \/
         WaitShell(s)
  PROVE  Types' /\ SessionInv(t)'
<1>. USE SessionAssumption DEF IInv, Types, Set, PCs, InPCs, OutPCs, Early, Closing,
             hostEnd, link, goroutines, descriptors, terminal
<1>1. CASE FirstDone(s)
  <2>1. Types'
    BY <1>1 DEF FirstDone, Proceed
  <2>2. SessionInv(t)'
    BY <1>1 DEF FirstDone, Proceed, SessionInv, Shape, Order,
       Whole, Disposed, Heard, Present, Drained
  <2>. QED
    BY <2>1, <2>2
<1>2. CASE CloseConn(s)
  <2>1. Types'
    BY <1>2 DEF CloseConn, Proceed
  <2>2. SessionInv(t)'
    BY <1>2 DEF CloseConn, Proceed, SessionInv, Shape, Order,
       Whole, Disposed, Heard, Present, Drained
  <2>. QED
    BY <2>1, <2>2
<1>3. CASE ClosePty(s)
  <2>1. Types'
    BY <1>3 DEF ClosePty, Proceed
  <2>2. SessionInv(t)'
    BY <1>3 DEF ClosePty, Proceed, SessionInv, Shape, Order,
       Whole, Disposed, Heard, Present, Drained
  <2>. QED
    BY <2>1, <2>2
<1>4. CASE SecondDone(s)
  <2>1. Types'
    BY <1>4 DEF SecondDone, Proceed
  <2>2. SessionInv(t)'
    BY <1>4 DEF SecondDone, Proceed, SessionInv, Shape, Order,
       Whole, Disposed, Heard, Present, Drained
  <2>. QED
    BY <2>1, <2>2
<1>5. CASE WaitShell(s)
  <2>1. Types'
    BY <1>5 DEF WaitShell, Proceed
  <2>2. SessionInv(t)'
    BY <1>5 DEF WaitShell, Proceed, SessionInv, Shape, Order,
       Whole, Disposed, Heard, Present, Drained
  <2>. QED
    BY <2>1, <2>2
<1>. QED
    BY <1>1, <1>2, <1>3, <1>4, <1>5

(* The shell and what it leaves behind.                                    *)
LEMMA ShellInv ==
  ASSUME IInv, NEW s \in Sessions, NEW t \in Sessions,
         Output(s) \/ Input(s) \/ ShellExits(s) \/ JobEnds(s)
  PROVE  Types' /\ SessionInv(t)'
<1>. USE SessionAssumption DEF IInv, Types, Set, PCs, InPCs, OutPCs, Early, Closing,
             hostEnd, link, goroutines, descriptors, terminal
<1>1. CASE Output(s)
  <2>1. Types'
    BY <1>1 DEF Output, Terminal
  <2>2. SessionInv(t)'
    BY <1>1 DEF Output, Terminal, SessionInv, Shape, Order,
       Whole, Disposed, Heard, Present, Drained
  <2>. QED
    BY <2>1, <2>2
<1>2. CASE Input(s)
  <2>1. Types'
    BY <1>2 DEF Input, Terminal
  <2>2. SessionInv(t)'
    BY <1>2 DEF Input, Terminal, SessionInv, Shape, Order,
       Whole, Disposed, Heard, Present, Drained
  <2>. QED
    BY <2>1, <2>2
<1>3. CASE ShellExits(s)
  <2>1. Types'
    BY <1>3 DEF ShellExits, Terminal
  <2>2. SessionInv(t)'
    BY <1>3 DEF ShellExits, Terminal, SessionInv, Shape, Order,
       Whole, Disposed, Heard, Present, Drained
  <2>. QED
    BY <2>1, <2>2
<1>4. CASE JobEnds(s)
  <2>1. Types'
    BY <1>4 DEF JobEnds, Terminal
  <2>2. SessionInv(t)'
    BY <1>4 DEF JobEnds, Terminal, SessionInv, Shape, Order,
       Whole, Disposed, Heard, Present, Drained
  <2>. QED
    BY <2>1, <2>2
<1>. QED
    BY <1>1, <1>2, <1>3, <1>4

LEMMA NextInv == IInv /\ [Next]_vars => IInv'
<1>. SUFFICES ASSUME IInv, [Next]_vars PROVE IInv'
  OBVIOUS
<1>1. CASE AcceptFails
  <2>. USE DEF AcceptFails, hostEnd, link, goroutines, descriptors, terminal
  <2>1. Types'
    BY <1>1 DEF IInv, Types
  <2>2. ASSUME NEW s \in Sessions PROVE SessionInv(s)'
    <3>1. SessionInv(s)
      BY DEF IInv
    <3>. QED BY <1>1, <3>1 DEF SessionInv, Shape, Order, Whole, Disposed, Heard,
                               Present, Drained
  <2>. QED BY <2>1, <2>2 DEF IInv
<1>2. CASE UNCHANGED vars
  BY <1>2 DEF vars, IInv, Types, SessionInv, Shape, Order, Whole, Disposed,
     Heard, Present, Drained, hostEnd, link, goroutines, descriptors, terminal
<1>3. ASSUME NEW s \in Sessions, SessionNext(s), NEW t \in Sessions
      PROVE  Types' /\ SessionInv(t)'
  <2>1. CASE User(s) \/ HostStep(s) \/ HearClose(s)
    BY <2>1, HostInv DEF User, HostStep
  <2>2. CASE Accept(s)
    BY <2>2, BeginInv
  <2>3. CASE SessionStep(s)
    BY <2>3, BeginInv, EndInv DEF SessionStep
  <2>4. CASE InStep(s)
    BY <2>4, InInv DEF InStep
  <2>5. CASE OutStep(s)
    BY <2>5, OutInv DEF OutStep
  <2>6. CASE ShellStep(s)
    BY <2>6, ShellInv DEF ShellStep
  <2>. QED
    BY <1>3, <2>1, <2>2, <2>3, <2>4, <2>5, <2>6 DEF SessionNext
<1>4. CASE \E s \in Sessions : SessionNext(s)
  BY <1>3, <1>4 DEF IInv
<1>. QED
  BY <1>1, <1>2, <1>4 DEF Next

LEMMA Inductive == Spec => []IInv
  BY InitInv, NextInv, PTL DEF Spec

-----------------------------------------------------------------------------

(* Sessions keep their shape, however many there are and whatever          *)
(* descriptors they get (vminit main.go:282-350).                          *)
THEOREM TypeCorrect == Spec => []TypeOK
<1>1. IInv => TypeOK
  BY DEF IInv, SessionInv, TypeOK
<1>. QED
  BY <1>1, Inductive, PTL

(* krun-exec that returns at the end of its output has shown all of it     *)
(* (vminit main.go:333-345).                                               *)
THEOREM OutputComplete == Spec => []OutputIsComplete
<1>1. IInv => OutputIsComplete
  BY DEF IInv, SessionInv, Shape, Order, Whole, Drained, Heard, OutputIsComplete
<1>. QED
  BY <1>1, Inductive, PTL

(* Nothing of a session outlives it (vminit main.go:283-349).              *)
THEOREM SessionsCleanUp == Spec => []NothingIsLeft
<1>1. IInv => NothingIsLeft
  BY DEF IInv, SessionInv, Disposed, Closing, NothingIsLeft
<1>. QED
  BY <1>1, Inductive, PTL

=============================================================================
