------------------------------ MODULE Calling ------------------------------
(***************************************************************************)
(* What calling and moving promise: the coroutines of a chain are called   *)
(* one inside the other; the innermost alone runs, on one thread at a      *)
(* time, and may leave its thread to go on on another; one that called     *)
(* goes on when the one it called has ended, and not before; a chain       *)
(* begins once and ends with its outermost coroutine.                      *)
(***************************************************************************)
EXTENDS Integers

CONSTANTS Chains, Threads

VARIABLES
  begun,  \* the chains that were started
  depth,  \* the coroutines of a chain that have not ended
  on      \* the threads that run a chain: one or none

Init ==
  /\ begun = {}
  /\ depth = [k \in Chains |-> 0]
  /\ on = [k \in Chains |-> {}]

\* A thread that runs no chain.
Free(t) == \A k \in Chains : t \notin on[k]

Begin(k, t) ==
  /\ k \notin begun /\ Free(t)
  /\ begun' = begun \cup {k}
  /\ depth' = [depth EXCEPT ![k] = 1]
  /\ on' = [on EXCEPT ![k] = {t}]

Call(k) ==
  /\ on[k] # {}
  /\ depth' = [depth EXCEPT ![k] = @ + 1]
  /\ UNCHANGED <<begun, on>>

\* The innermost coroutine ends; its caller goes on at once, or is moved first.
Return(k) ==
  /\ on[k] # {} /\ depth[k] > 1
  /\ depth' = [depth EXCEPT ![k] = @ - 1]
  /\ on' \in {on, [on EXCEPT ![k] = {}]}
  /\ UNCHANGED begun

Suspend(k) ==
  /\ on[k] # {}
  /\ on' = [on EXCEPT ![k] = {}]
  /\ UNCHANGED <<begun, depth>>

Resume(k, t) ==
  /\ depth[k] > 0 /\ on[k] = {} /\ Free(t)
  /\ on' = [on EXCEPT ![k] = {t}]
  /\ UNCHANGED <<begun, depth>>

Finish(k) ==
  /\ on[k] # {} /\ depth[k] = 1
  /\ depth' = [depth EXCEPT ![k] = 0]
  /\ on' = [on EXCEPT ![k] = {}]
  /\ UNCHANGED begun

Next ==
  \E k \in Chains :
    \/ Call(k) \/ Return(k) \/ Suspend(k) \/ Finish(k)
    \/ \E t \in Threads : Begin(k, t) \/ Resume(k, t)

Spec == Init /\ [][Next]_<<begun, depth, on>>
=============================================================================
