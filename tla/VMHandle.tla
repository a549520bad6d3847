------------------------------- MODULE VMHandle -------------------------------
(***************************************************************************)
(* What a caller of krun.VM is promised: a child that may end at any time, *)
(* calls of Stop that return with the child over or about to be, and a     *)
(* Wait that returns when it is over.  Nothing of the guest, the RPC, the  *)
(* timeouts or errC shows.                                                 *)
(***************************************************************************)

CONSTANTS Calls  \* of Stop

VARIABLES
  child,  \* "running", "ending" once SIGKILL is on its way, or "gone"
  stops,  \* each call: "free", "stopping", "returned" or "lost"
  told    \* Wait: "waiting", "told" or "lost"

vars == <<child, stops, told>>

Begin(c) ==
  /\ stops[c] = "free"
  /\ stops' = [stops EXCEPT ![c] = "stopping"]
  /\ UNCHANGED <<child, told>>

Doom(c) ==
  /\ stops[c] = "stopping"
  /\ child = "running"
  /\ child' = "ending"
  /\ UNCHANGED <<stops, told>>

Return(c) ==
  /\ stops[c] = "stopping"
  /\ child \in {"ending", "gone"}
  /\ stops' = [stops EXCEPT ![c] = "returned"]
  /\ UNCHANGED <<child, told>>

End == child # "gone" /\ child' = "gone" /\ UNCHANGED <<stops, told>>

Tell ==
  /\ told = "waiting"
  /\ child = "gone"
  /\ told' = "told"
  /\ UNCHANGED <<child, stops>>

(* The caller's process dies; its child need not.                          *)
CallerDies ==
  /\ stops' = [c \in Calls |-> "lost"]
  /\ told' = "lost"
  /\ UNCHANGED child

Init ==
  /\ child = "running"
  /\ stops = [c \in Calls |-> "free"]
  /\ told = "waiting"

Next ==
  \/ \E c \in Calls : Begin(c) \/ Doom(c) \/ Return(c)
  \/ End \/ Tell \/ CallerDies

Spec == Init /\ [][Next]_vars

(* Every Stop returns, a child with SIGKILL on its way ends, and the end   *)
(* of a child is told.                                                     *)
LSpec ==
  /\ Spec
  /\ \A c \in Calls : WF_vars(Doom(c) \/ Return(c))
  /\ WF_vars(child = "ending" /\ End)
  /\ WF_vars(Tell)

=============================================================================
