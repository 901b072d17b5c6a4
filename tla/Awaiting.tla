------------------------------ MODULE Awaiting ------------------------------
(***************************************************************************)
(* What awaiting coroutines promises: coroutines that have started form    *)
(* chains, each waiting for at most one other; a coroutine that returns    *)
(* leaves as the one that awaits it goes on, and one that is abandoned     *)
(* leaves together with all that wait for it, and with no other.           *)
(***************************************************************************)
EXTENDS Functions

CONSTANTS Frames, NoFrame

VARIABLE waits  \* the coroutine each started coroutine waits for, or NoFrame

Started == DOMAIN waits

Init == waits = [f \in {} |-> NoFrame]

\* What is waited for once f has started.
Begun(w, f) == [g \in DOMAIN w \cup {f} |-> IF g = f THEN NoFrame ELSE w[g]]

\* A coroutine nobody awaits starts: a detached one, or one run for a callback.
Begin(f) == waits' = Begun(waits, f)

Call(p, f) ==
  /\ waits[p] = NoFrame
  /\ waits' = [Begun(waits, f) EXCEPT ![p] = f]

\* The coroutines that are left once f has returned to the one that awaits it.
GoOn(w, f) == [p \in DOMAIN w \ {f} |-> IF w[p] = f THEN NoFrame ELSE w[p]]

Return(f) ==
  /\ waits[f] = NoFrame
  /\ waits' = GoOn(waits, f)

\* S is f and all that wait for it, directly or not.
Waiters(w, f, S) ==
  /\ f \in S
  /\ \A p \in DOMAIN w : w[p] \in S => p \in S
  /\ \A p \in S \ {f} : w[p] \in S

Abandon(f) ==
  /\ waits[f] = NoFrame
  /\ \E left \in SUBSET Started :
       /\ Waiters(waits, f, Started \ left)
       /\ waits' = Restrict(waits, left)

Next ==
  \/ \E f \in Frames \ Started : Begin(f) \/ \E p \in Started : Call(p, f)
  \/ \E f \in Started : Return(f) \/ Abandon(f)

Spec == Init /\ [][Next]_waits
=============================================================================
