----------------------------- MODULE Suspension -----------------------------
(***************************************************************************)
(* What an awaitable promises to a coroutine that suspends on it, without  *)
(* saying how: the coroutine is resumed once, and only after the operation *)
(* reported its completion (or threw while it was being initiated), or it  *)
(* is destroyed once, because the operation was abandoned or because the   *)
(* object that owns the coroutine is gone.  An owner that is gone stays    *)
(* gone and none of its coroutines runs any more.                          *)
(***************************************************************************)
CONSTANTS Coros, Owners, NoOwner, OwnerOf

VARIABLES
  phase,  \* the coroutine: "running", "suspended", "destroyed" or "returned"
  op,     \* its operation: "none", "pending", "completed" or "abandoned"
  gone    \* the owners that have been destroyed

vars == <<phase, op, gone>>

Init ==
  /\ phase = [c \in Coros |-> "running"]
  /\ op = [c \in Coros |-> "none"]
  /\ gone = {}

Move(c, from, to) ==
  /\ phase[c] = from
  /\ phase' = [phase EXCEPT ![c] = to]

Operation(c, from, to) ==
  /\ op[c] \in from
  /\ op' = [op EXCEPT ![c] = to]

Suspend(c)  == Move(c, "running", "suspended") /\ Operation(c, {"none"}, "pending")
Complete(c) == Operation(c, {"pending"}, "completed") /\ UNCHANGED phase
Abandon(c)  == Operation(c, {"pending"}, "abandoned") /\ UNCHANGED phase
Fail(c)     == Move(c, "suspended", "running") /\ Operation(c, {"pending"}, "none")
Resume(c)   == Move(c, "suspended", "running") /\ Operation(c, {"completed"}, "none")
Return(c)   == Move(c, "running", "returned") /\ UNCHANGED op

\* The only two reasons to destroy a suspended coroutine.
Destroy(c) ==
  /\ Move(c, "suspended", "destroyed")
  /\ \/ Operation(c, {"abandoned"}, "none")
     \/ OwnerOf[c] \in gone /\ Operation(c, {"completed"}, "none")

\* Any step may be the one that drops the last reference to an owner.
OwnersStep ==
  /\ gone \subseteq gone'
  /\ gone' \subseteq Owners
  /\ \A c \in Coros : phase'[c] = "running" => OwnerOf[c] \notin gone'

Next ==
  /\ OwnersStep
  /\ \/ \E c \in Coros : \/ Suspend(c) \/ Complete(c) \/ Abandon(c) \/ Fail(c)
                         \/ Resume(c) \/ Destroy(c) \/ Return(c)
     \/ UNCHANGED <<phase, op>>

Spec == Init /\ [][Next]_vars
=============================================================================
