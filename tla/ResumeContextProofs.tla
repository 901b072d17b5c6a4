------------------------ MODULE ResumeContextProofs ------------------------
(***************************************************************************)
(* The hand-off proved for any number of coroutines and owners and for     *)
(* every bound: the inductive invariant, the safety properties that follow *)
(* from it, and the refinement of Suspension.                              *)
(***************************************************************************)
EXTENDS ResumeContext, TLAPS

\* The awaiter has not yet reached the exchange.
Before(c) == awaiter[c] \in {"initiated", "moved"}

(* Where the two sides can be at once, by the state they left behind. *)
Rendezvous(c) ==
  /\ coro[c] \in Settled => awaiter[c] = "idle" /\ handler[c] = "none"
  /\ coro[c] = "suspended" /\ Before(c) =>
       \/ handler[c] \in {"pending", "invoked"} /\ state[c] = "initializing"
       \/ handler[c] = "none" /\ state[c] \in {"completed", "destroyed"}
  /\ awaiter[c] \in {"won", "lost"} => handler[c] = "none"
  /\ coro[c] = "suspended" /\ awaiter[c] = "idle" =>
       \/ handler[c] \in {"pending", "invoked"} /\ state[c] = "awaiting"
       \/ handler[c] \in {"restoring", "resuming", "destroying"}

(* The result is there exactly when the handler was invoked. *)
Results(c) ==
  /\ handler[c] = "pending" => ~ready[c]
  /\ handler[c] \in {"invoked", "restoring", "resuming"} => ready[c]
  /\ coro[c] = "suspended" /\ Before(c) /\ handler[c] = "none" =>
       (ready[c] <=> state[c] = "completed")
  /\ awaiter[c] = "won" => ready[c]
  /\ awaiter[c] = "lost" => ~ready[c]

(* Who holds the strong reference of an owned coroutine. *)
References(c) ==
  /\ coro[c] = "running" => (thisRef[c] <=> Owned(c)) /\ ~saved[c]
  /\ coro[c] \in {"destroyed", "returned"} => ~thisRef[c] /\ ~saved[c]
  /\ coro[c] = "suspended" => (restore[c] <=> kind[c] # "dispatch" /\ Owned(c))
  /\ handler[c] = "restoring" => restore[c]
  /\ coro[c] = "suspended" /\ kind[c] = "dispatch" =>
       /\ thisRef[c] <=> Owned(c)
       /\ ~saved[c] /\ awaiter[c] # "moved"
  /\ coro[c] = "suspended" /\ kind[c] # "dispatch" =>
       /\ awaiter[c] = "initiated" => (thisRef[c] <=> Owned(c)) /\ ~saved[c]
       /\ awaiter[c] \in {"moved", "won", "lost"} => ~thisRef[c] /\ (saved[c] <=> Owned(c))
       /\ awaiter[c] = "idle" => ~saved[c]
       /\ awaiter[c] = "idle" /\ handler[c] = "resuming" => (thisRef[c] <=> Owned(c))
       /\ awaiter[c] = "idle" /\ handler[c] # "resuming" => ~thisRef[c]

(* A completed operation has its coroutine destroyed only for want of an owner. *)
Orphaned(c) ==
  handler[c] = "destroying" /\ ready[c] => Owned(c) /\ ~Alive(OwnerOf[c])

Local(c) == Rendezvous(c) /\ Results(c) /\ References(c)

IInv ==
  /\ TypeOK
  /\ \A c \in Coros : Local(c)
  /\ \A c \in Coros : Orphaned(c)
-----------------------------------------------------------------------------
\* A step of one coroutine, the shape every disjunct of Next but one has.
CoroStep(c) ==
  \/ \E k \in Kinds : Await(c, k)
  \/ InitiationThrows(c)
  \/ HandlerInvoke(c)
  \/ HandlerDrop(c)
  \/ Return(c)
  \/ ShareOwner(c)
  \/ ThreadStep(c)

(* A step belongs to one coroutine, or the program lets go of an owner.    *)
LEMMA NextCases ==
  ASSUME Next
  PROVE  \/ \E c \in Coros : CoroStep(c)
         \/ \E o \in Owners : DropOwner(o)
BY DEF Next, CoroStep

(* Every action keeps its variables in their types. *)
THEOREM TypeCorrect == Spec => []TypeOK
<1>1. Init => TypeOK
  BY MaxLingerAssumption DEF Init, TypeOK, Settled, Kinds, Owned
<1>2. TypeOK /\ [Next]_vars => TypeOK'
  <2> SUFFICES ASSUME TypeOK, [Next]_vars PROVE TypeOK'
    OBVIOUS
  <2> USE MaxLingerAssumption DEF TypeOK, Settled, Kinds
  <2>1. CASE UNCHANGED vars
    BY <2>1 DEF vars
  <2>2. ASSUME NEW o \in Owners, DropOwner(o) PROVE TypeOK'
    BY <2>2 DEF DropOwner
  <2>3. ASSUME NEW c \in Coros, CoroStep(c) PROVE TypeOK'
    <3>1. ASSUME NEW k \in Kinds, Await(c, k) PROVE TypeOK'
      BY <3>1 DEF Await
    <3>2. CASE InitiationThrows(c)
      BY <3>2 DEF InitiationThrows, DestroyHandler, HandlerTakes
    <3>3. CASE MoveShared(c)
      BY <3>3 DEF MoveShared, LeftByMove
    <3>4. CASE ResumeAwaiting(c)
      <4>1. AwaiterTakes(state[c]) \in {"idle", "won", "lost"}
        BY DEF AwaiterTakes
      <4>2. lingering[c] < MaxLinger => lingering[c] + 1 \in 0 .. MaxLinger
        OBVIOUS
      <4>3. saved' \in [Coros -> BOOLEAN] /\ lingering' \in [Coros -> 0 .. MaxLinger]
        BY <3>4, <4>2 DEF ResumeAwaiting
      <4> QED
        BY <3>4, <4>1, <4>3 DEF ResumeAwaiting
    <3>5. CASE ResumeInline(c)
      BY <3>5 DEF ResumeInline, TakesBack
    <3>6. CASE DestroyInline(c)
      <4>1. lingering[c] < MaxLinger => lingering[c] + 1 \in 0 .. MaxLinger
        OBVIOUS
      <4>2. saved' \in [Coros -> BOOLEAN] /\ lingering' \in [Coros -> 0 .. MaxLinger]
        BY <3>6, <4>1 DEF DestroyInline
      <4> QED
        BY <3>6, <4>2 DEF DestroyInline
    <3>7. CASE ReleaseSaved(c)
      BY <3>7 DEF ReleaseSaved, HoldsSaved
    <3>8. CASE HandlerInvoke(c)
      BY <3>8 DEF HandlerInvoke, SetValue
    <3>9. CASE ResumeCompleted(c)
      BY <3>9 DEF ResumeCompleted, HandlerTakes
    <3>10. CASE RestoreSharedThis(c)
      BY <3>10 DEF RestoreSharedThis, Locks, Alive
    <3>11. CASE HandlerResume(c)
      BY <3>11 DEF HandlerResume
    <3>12. CASE HandlerDrop(c)
      BY <3>12 DEF HandlerDrop, DestroyHandler, HandlerTakes
    <3>13. CASE HandlerDestroy(c)
      BY <3>13 DEF HandlerDestroy
    <3>14. CASE Return(c)
      BY <3>14 DEF Return
    <3>15. CASE ShareOwner(c)
      BY <3>15 DEF ShareOwner
    <3> QED
      BY <2>3, <3>1, <3>2, <3>3, <3>4, <3>5, <3>6, <3>7, <3>8, <3>9, <3>10, <3>11, <3>12, <3>13, <3>14, <3>15 DEF CoroStep, ThreadStep
  <2> QED
    BY <2>1, <2>2, <2>3, NextCases
<1> QED
  BY <1>1, <1>2, PTL DEF Spec
-----------------------------------------------------------------------------
\* Nothing of d changes, the references to its owner by others left aside.
Untouched(d) ==
  /\ coro'[d] = coro[d] /\ kind'[d] = kind[d] /\ awaiter'[d] = awaiter[d]
  /\ handler'[d] = handler[d] /\ state'[d] = state[d] /\ ready'[d] = ready[d]
  /\ thisRef'[d] = thisRef[d] /\ saved'[d] = saved[d] /\ restore'[d] = restore[d]
  /\ lingering'[d] = lingering[d]

(* A step of one coroutine touches no other. *)
LEMMA OthersUntouched ==
  ASSUME TypeOK, NEW c \in Coros, CoroStep(c), NEW d \in Coros, d # c
  PROVE  Untouched(d)
<1> USE DEF TypeOK, Untouched
<1>1. ASSUME NEW k \in Kinds, Await(c, k) PROVE Untouched(d)
  BY <1>1 DEF Await
<1>2. CASE InitiationThrows(c)
  BY <1>2 DEF InitiationThrows, DestroyHandler, HandlerTakes
<1>3. CASE MoveShared(c)
  BY <1>3 DEF MoveShared, LeftByMove
<1>4. CASE ResumeAwaiting(c)
  BY <1>4 DEF ResumeAwaiting, AwaiterTakes
<1>5. CASE ResumeInline(c)
  BY <1>5 DEF ResumeInline, TakesBack
<1>6. CASE DestroyInline(c)
  BY <1>6 DEF DestroyInline
<1>7. CASE ReleaseSaved(c)
  BY <1>7 DEF ReleaseSaved, HoldsSaved
<1>8. CASE HandlerInvoke(c)
  BY <1>8 DEF HandlerInvoke, SetValue
<1>9. CASE ResumeCompleted(c)
  BY <1>9 DEF ResumeCompleted, HandlerTakes
<1>10. CASE RestoreSharedThis(c)
  BY <1>10 DEF RestoreSharedThis, Locks, Alive
<1>11. CASE HandlerResume(c)
  BY <1>11 DEF HandlerResume
<1>12. CASE HandlerDrop(c)
  BY <1>12 DEF HandlerDrop, DestroyHandler, HandlerTakes
<1>13. CASE HandlerDestroy(c)
  BY <1>13 DEF HandlerDestroy
<1>14. CASE Return(c)
  BY <1>14 DEF Return
<1>15. CASE ShareOwner(c)
  BY <1>15 DEF ShareOwner
<1> QED
  BY <1>1, <1>2, <1>3, <1>4, <1>5, <1>6, <1>7, <1>8, <1>9, <1>10, <1>11, <1>12, <1>13, <1>14, <1>15 DEF CoroStep, ThreadStep

(* A coroutine that never suspended satisfies its part of the invariant.   *)
LEMMA LocalInit ==
  ASSUME Init, NEW c \in Coros
  PROVE  Local(c)
BY DEF Init, Local, Rendezvous, Results, References, Before, Settled, Owned

(* A coroutine whose own variables do not change keeps its part.           *)
LEMMA LocalKept ==
  ASSUME NEW d \in Coros, Local(d), Untouched(d)
  PROVE  Local(d)'
BY DEF Local, Rendezvous, Results, References, Before, Settled, Owned, Untouched

(* A step of a coroutine keeps the two sides of its hand-off consistent. *)
LEMMA LocalStep ==
  ASSUME TypeOK, NEW c \in Coros, Local(c), CoroStep(c)
  PROVE  Local(c)'
<1> USE DEF TypeOK, Local, Rendezvous, Results, References, Before, Settled, Kinds, Owned
<1>1. ASSUME NEW k \in Kinds, Await(c, k) PROVE Local(c)'
  BY <1>1 DEF Await
<1>2. CASE InitiationThrows(c)
  BY <1>2 DEF InitiationThrows, DestroyHandler, HandlerTakes
<1>3. CASE MoveShared(c)
  BY <1>3 DEF MoveShared, LeftByMove
<1>4. CASE ResumeAwaiting(c)
  BY <1>4 DEF ResumeAwaiting, AwaiterTakes
<1>5. CASE ResumeInline(c)
  BY <1>5 DEF ResumeInline, TakesBack
<1>6. CASE DestroyInline(c)
  BY <1>6 DEF DestroyInline
<1>7. CASE ReleaseSaved(c)
  BY <1>7 DEF ReleaseSaved, HoldsSaved
<1>8. CASE HandlerInvoke(c)
  BY <1>8 DEF HandlerInvoke, SetValue
<1>9. CASE ResumeCompleted(c)
  BY <1>9 DEF ResumeCompleted, HandlerTakes
<1>10. CASE RestoreSharedThis(c)
  BY <1>10 DEF RestoreSharedThis, Locks, Alive
<1>11. CASE HandlerResume(c)
  BY <1>11 DEF HandlerResume
<1>12. CASE HandlerDrop(c)
  BY <1>12 DEF HandlerDrop, DestroyHandler, HandlerTakes
<1>13. CASE HandlerDestroy(c)
  BY <1>13 DEF HandlerDestroy
<1>14. CASE Return(c)
  BY <1>14 DEF Return
<1>15. CASE ShareOwner(c)
  BY <1>15 DEF ShareOwner
<1> QED
  BY <1>1, <1>2, <1>3, <1>4, <1>5, <1>6, <1>7, <1>8, <1>9, <1>10, <1>11, <1>12, <1>13, <1>14, <1>15 DEF CoroStep, ThreadStep

(* The references of an owner are only ever copied from one that exists. *)
LEMMA NeverRevived ==
  ASSUME TypeOK, [Next]_vars, NEW o \in Owners, Alive(o)'
  PROVE  Alive(o)
<1> USE MaxLingerAssumption, OwnersAssumption DEF TypeOK, Alive
<1>1. CASE UNCHANGED vars
  BY <1>1 DEF vars
<1>2. ASSUME NEW p \in Owners, DropOwner(p) PROVE Alive(o)
  BY <1>2 DEF DropOwner
<1>3. ASSUME NEW c \in Coros, CoroStep(c) PROVE Alive(o)
  <2>1. ASSUME NEW k \in Kinds, Await(c, k) PROVE Alive(o)
    BY <2>1 DEF Await
  <2>2. CASE InitiationThrows(c)
    BY <2>2 DEF InitiationThrows, DestroyHandler, HandlerTakes
  <2>3. CASE MoveShared(c)
    BY <2>3 DEF MoveShared, LeftByMove
  <2>4. CASE ResumeAwaiting(c)
    BY <2>4 DEF ResumeAwaiting, AwaiterTakes
  <2>5. CASE ResumeInline(c)
    BY <2>5 DEF ResumeInline, TakesBack
  <2>6. CASE DestroyInline(c)
    BY <2>6 DEF DestroyInline
  <2>7. CASE ReleaseSaved(c)
    BY <2>7 DEF ReleaseSaved, HoldsSaved
  <2>8. CASE HandlerInvoke(c)
    BY <2>8 DEF HandlerInvoke, SetValue
  <2>9. CASE ResumeCompleted(c)
    BY <2>9 DEF ResumeCompleted, HandlerTakes
  <2>10. CASE RestoreSharedThis(c)
    BY <2>10 DEF RestoreSharedThis, Locks, Alive
  <2>11. CASE HandlerResume(c)
    BY <2>11 DEF HandlerResume
  <2>12. CASE HandlerDrop(c)
    BY <2>12 DEF HandlerDrop, DestroyHandler, HandlerTakes
  <2>13. CASE HandlerDestroy(c)
    BY <2>13 DEF HandlerDestroy
  <2>14. CASE Return(c)
    BY <2>14 DEF Return
  <2>15. CASE ShareOwner(c)
    BY <2>15 DEF ShareOwner
  <2> QED
    BY <2>1, <2>2, <2>3, <2>4, <2>5, <2>6, <2>7, <2>8, <2>9, <2>10, <2>11, <2>12, <2>13, <2>14, <2>15, <1>3 DEF CoroStep, ThreadStep
<1> QED
  BY <1>1, <1>2, <1>3, NextCases

(* A handler decides to destroy a completed coroutine only after the lock  *)
(* of its owner failed.                                                    *)
LEMMA OrphanedStep ==
  ASSUME TypeOK, NEW c \in Coros, Local(c), Orphaned(c), CoroStep(c),
         handler'[c] = "destroying", ready'[c]
  PROVE  Owned(c) /\ ~Alive(OwnerOf[c])
<1> USE DEF TypeOK, Local, Rendezvous, Results, References, Orphaned, Settled, Before
<1>1. ASSUME NEW k \in Kinds, Await(c, k) PROVE Owned(c) /\ ~Alive(OwnerOf[c])
  BY <1>1 DEF Await
<1>2. CASE InitiationThrows(c)
  BY <1>2 DEF InitiationThrows, DestroyHandler, HandlerTakes
<1>3. CASE MoveShared(c)
  BY <1>3 DEF MoveShared, LeftByMove
<1>4. CASE ResumeAwaiting(c)
  BY <1>4 DEF ResumeAwaiting, AwaiterTakes
<1>5. CASE ResumeInline(c)
  BY <1>5 DEF ResumeInline, TakesBack
<1>6. CASE DestroyInline(c)
  BY <1>6 DEF DestroyInline
<1>7. CASE ReleaseSaved(c)
  BY <1>7 DEF ReleaseSaved, HoldsSaved
<1>8. CASE HandlerInvoke(c)
  BY <1>8 DEF HandlerInvoke, SetValue
<1>9. CASE ResumeCompleted(c)
  BY <1>9 DEF ResumeCompleted, HandlerTakes
<1>10. CASE RestoreSharedThis(c)
  BY <1>10 DEF RestoreSharedThis, Locks
<1>11. CASE HandlerResume(c)
  BY <1>11 DEF HandlerResume
<1>12. CASE HandlerDrop(c)
  BY <1>12 DEF HandlerDrop, DestroyHandler, HandlerTakes
<1>13. CASE HandlerDestroy(c)
  BY <1>13 DEF HandlerDestroy
<1>14. CASE Return(c)
  BY <1>14 DEF Return
<1>15. CASE ShareOwner(c)
  BY <1>15 DEF ShareOwner
<1> QED
  BY <1>1, <1>2, <1>3, <1>4, <1>5, <1>6, <1>7, <1>8, <1>9, <1>10, <1>11, <1>12, <1>13, <1>14, <1>15 DEF CoroStep, ThreadStep

(* Whatever the step, a completed operation whose coroutine is about to be *)
(* destroyed has lost its owner (completion_handler.hpp:96-100).           *)
LEMMA OrphanedKept ==
  ASSUME TypeOK, [Next]_vars, \A c \in Coros : Local(c) /\ Orphaned(c), NEW d \in Coros
  PROVE  Orphaned(d)'
<1> SUFFICES ASSUME handler'[d] = "destroying", ready'[d]
             PROVE  Owned(d) /\ ~Alive(OwnerOf[d])'
  BY DEF Orphaned, Owned
<1>1. Owned(d) /\ ~Alive(OwnerOf[d])
  <2>1. CASE UNCHANGED vars
    BY <2>1 DEF Orphaned, vars
  <2>2. ASSUME NEW o \in Owners, DropOwner(o) PROVE Owned(d) /\ ~Alive(OwnerOf[d])
    BY <2>2 DEF Orphaned, DropOwner
  <2>3. ASSUME NEW c \in Coros, CoroStep(c), d # c PROVE Owned(d) /\ ~Alive(OwnerOf[d])
    BY <2>3, OthersUntouched DEF Orphaned, Untouched
  <2>4. ASSUME CoroStep(d) PROVE Owned(d) /\ ~Alive(OwnerOf[d])
    BY <2>4, OrphanedStep
  <2> QED
    BY <2>1, <2>2, <2>3, <2>4, NextCases
<1>2. OwnerOf[d] \in Owners
  BY <1>1, OwnersAssumption DEF Owned
<1> QED
  BY <1>1, <1>2, NeverRevived

(* Every step, of any coroutine, keeps the invariant of each coroutine.     *)
LEMMA LocalPreserved ==
  ASSUME TypeOK, [Next]_vars, \A c \in Coros : Local(c), NEW d \in Coros
  PROVE  Local(d)'
<1>1. CASE UNCHANGED vars
  BY <1>1, LocalKept DEF vars, Untouched
<1>2. ASSUME NEW o \in Owners, DropOwner(o) PROVE Local(d)'
  BY <1>2, LocalKept DEF DropOwner, Untouched
<1>3. ASSUME NEW c \in Coros, CoroStep(c) PROVE Local(d)'
  BY <1>3, OthersUntouched, LocalKept, LocalStep
<1> QED
  BY <1>1, <1>2, <1>3, NextCases

(* The inductive invariant, for any coroutines, owners and bound. *)
THEOREM Inductive == Spec => []IInv
<1>1. Init => IInv
  <2> SUFFICES ASSUME Init PROVE IInv
    OBVIOUS
  <2>1. TypeOK
    BY MaxLingerAssumption DEF Init, TypeOK, Settled, Kinds, Owned
  <2>2. \A c \in Coros : Local(c)
    BY LocalInit
  <2>3. \A c \in Coros : Orphaned(c)
    BY DEF Init, Orphaned
  <2> QED
    BY <2>1, <2>2, <2>3 DEF IInv
<1>2. TypeOK' /\ IInv /\ [Next]_vars => IInv'
  <2> SUFFICES ASSUME TypeOK', IInv, [Next]_vars PROVE IInv'
    OBVIOUS
  <2>1. \A d \in Coros : Local(d)'
    BY LocalPreserved DEF IInv
  <2>2. \A d \in Coros : Orphaned(d)'
    BY OrphanedKept DEF IInv
  <2> QED
    BY <2>1, <2>2 DEF IInv
<1> QED
  BY <1>1, <1>2, TypeCorrect, PTL DEF Spec

(* Neither side touches a coroutine that runs or is gone. *)
THEOREM LeftAlone == Spec => []SettledIsLeftAlone
<1>1. IInv => SettledIsLeftAlone
  BY DEF IInv, Local, Rendezvous, SettledIsLeftAlone
<1> QED
  BY <1>1, Inductive, PTL

(* No suspended coroutine is forgotten. *)
THEOREM Wakeup == Spec => []NoLostWakeup
<1>1. IInv => NoLostWakeup
  BY DEF IInv, Local, Rendezvous, NoLostWakeup, TypeOK
<1> QED
  BY <1>1, Inductive, PTL

(* No coroutine is resumed before its result is stored. *)
THEOREM ResultFirst == Spec => []ResultBeforeResume
<1>1. IInv => ResultBeforeResume
  BY DEF IInv, Local, Results, ResultBeforeResume
<1> QED
  BY <1>1, Inductive, PTL

(* A running member coroutine holds its owner. *)
THEOREM OwnerHeld == Spec => []OwnerOutlivesRun
<1>1. IInv => OwnerOutlivesRun
  BY DEF IInv, Local, References, OwnerOutlivesRun
<1> QED
  BY <1>1, Inductive, PTL

(* A destroyed owner stays destroyed. *)
THEOREM OwnerStaysDead == Spec => OwnerNeverRevived
<1>1. TypeOK /\ [Next]_vars => [\A o \in Owners : ~Alive(o) => ~Alive(o)']_vars
  BY NeverRevived
<1> QED
  BY <1>1, TypeCorrect, PTL DEF Spec, OwnerNeverRevived
-----------------------------------------------------------------------------
(* The refinement of Suspension. *)
ops == [c \in Coros |-> Operation(c)]
gone == {o \in Owners : ~Alive(o)}

\* A step of the hand-off as Suspension sees it.
AbstractStep(c) ==
  \/ Promise!Suspend(c) \/ Promise!Complete(c) \/ Promise!Abandon(c) \/ Promise!Fail(c)
  \/ Promise!Resume(c) \/ Promise!Destroy(c) \/ Promise!Return(c)

(* Only the operation of the coroutine that steps can change. *)
LEMMA OperationStep ==
  ASSUME TypeOK, NEW c \in Coros, CoroStep(c)
  PROVE  ops' = [ops EXCEPT ![c] = Operation(c)']
<1>1. ASSUME NEW d \in Coros, d # c PROVE Operation(d)' = Operation(d)
  BY <1>1, OthersUntouched DEF Untouched, Operation
<1> QED
  BY <1>1 DEF ops

(* Owners only ever go, and none that owns a running coroutine. *)
LEMMA OwnersRefined ==
  ASSUME IInv, IInv', [Next]_vars
  PROVE  Promise!OwnersStep
<1>1. gone \subseteq gone' /\ gone' \subseteq Owners
  BY NeverRevived DEF IInv, gone
<1>2. ASSUME NEW c \in Coros, coro'[c] = "running" PROVE OwnerOf[c] \notin gone'
  <2>1. thisRef'[c] <=> Owned(c)
    BY <1>2 DEF IInv, Local, References, Owned
  <2>2. CASE Owned(c)
    BY <2>1, <2>2 DEF Alive, gone
  <2>3. CASE ~Owned(c)
    BY <2>3, OwnersAssumption DEF Owned, gone
  <2> QED
    BY <2>2, <2>3
<1> QED
  BY <1>1, <1>2 DEF Promise!OwnersStep, gone

(* Each step of an awaiter or a handler is one of Suspension, or changes   *)
(* nothing Suspension sees.                                                *)
LEMMA StepRefined ==
  ASSUME IInv, IInv', NEW c \in Coros, CoroStep(c)
  PROVE  AbstractStep(c) \/ UNCHANGED <<coro, ops>>
<1> DEFINE Goal == AbstractStep(c) \/ UNCHANGED <<coro, ops>>
<1>0. ops' = [ops EXCEPT ![c] = Operation(c)'] /\ ops[c] = Operation(c)
  BY OperationStep DEF IInv, ops
<1>t. TypeOK /\ Local(c) /\ Orphaned(c)
  BY DEF IInv
<1>s. ASSUME coro' = coro, Operation(c)' = Operation(c) PROVE Goal
  <2>1. ops' = ops
    BY <1>0, <1>s DEF ops
  <2> QED
    BY <2>1, <1>s
<1> USE DEF TypeOK, Local, Rendezvous, Results, References, Settled, Before, Operation, Kinds
<1>1. ASSUME NEW k \in Kinds, Await(c, k) PROVE Goal
  <2>1. Operation(c) = "none" /\ Operation(c)' = "pending"
    BY <1>1, <1>t DEF Await
  <2>2. Promise!Move(c, "running", "suspended")
    BY <1>1 DEF Await, Promise!Move
  <2>3. Promise!Operation(c, {"none"}, "pending")
    BY <2>1, <1>0 DEF Promise!Operation, ops
  <2> QED
    BY <2>2, <2>3 DEF Promise!Suspend, AbstractStep
<1>2. CASE InitiationThrows(c)
  <2>1. Operation(c) = "pending" /\ Operation(c)' = "none"
    BY <1>2, <1>t DEF InitiationThrows, DestroyHandler, HandlerTakes
  <2>2. Promise!Move(c, "suspended", "running")
    BY <1>2, <1>t DEF InitiationThrows, DestroyHandler, HandlerTakes, Promise!Move
  <2>3. Promise!Operation(c, {"pending"}, "none")
    BY <2>1, <1>0 DEF Promise!Operation, ops
  <2> QED
    BY <2>2, <2>3 DEF Promise!Fail, AbstractStep
<1>3. CASE MoveShared(c)
  <2>1. coro' = coro /\ Operation(c)' = Operation(c)
    BY <1>3, <1>t DEF MoveShared, LeftByMove
  <2> QED
    BY <2>1, <1>s
<1>4. CASE ResumeAwaiting(c)
  <2>1. coro' = coro /\ Operation(c)' = Operation(c)
    BY <1>4, <1>t DEF ResumeAwaiting, AwaiterTakes
  <2> QED
    BY <2>1, <1>s
<1>5. CASE ResumeInline(c)
  <2>1. Operation(c) = "completed" /\ Operation(c)' = "none"
    BY <1>5, <1>t DEF ResumeInline, TakesBack
  <2>2. Promise!Move(c, "suspended", "running")
    BY <1>5, <1>t DEF ResumeInline, Promise!Move
  <2>3. Promise!Operation(c, {"completed"}, "none")
    BY <2>1, <1>0 DEF Promise!Operation, ops
  <2> QED
    BY <2>2, <2>3 DEF Promise!Resume, AbstractStep
<1>6. CASE DestroyInline(c)
  <2>1. Operation(c) = "abandoned" /\ Operation(c)' = "none"
    BY <1>6, <1>t DEF DestroyInline
  <2>2. Promise!Move(c, "suspended", "destroyed")
    BY <1>6, <1>t DEF DestroyInline, Promise!Move
  <2>3. Promise!Operation(c, {"abandoned"}, "none")
    BY <2>1, <1>0 DEF Promise!Operation, ops
  <2> QED
    BY <2>2, <2>3 DEF Promise!Destroy, AbstractStep
<1>7. CASE ReleaseSaved(c)
  <2>1. coro' = coro /\ Operation(c)' = Operation(c)
    BY <1>7, <1>t DEF ReleaseSaved, HoldsSaved
  <2> QED
    BY <2>1, <1>s
<1>8. CASE HandlerInvoke(c)
  <2>1. Operation(c) = "pending" /\ Operation(c)' = "completed"
    BY <1>8, <1>t DEF HandlerInvoke, SetValue
  <2>2. UNCHANGED coro
    BY <1>8, <1>t DEF HandlerInvoke
  <2>3. Promise!Operation(c, {"pending"}, "completed")
    BY <2>1, <1>0 DEF Promise!Operation, ops
  <2> QED
    BY <2>2, <2>3 DEF Promise!Complete, AbstractStep
<1>9. CASE ResumeCompleted(c)
  <2>1. coro' = coro /\ Operation(c)' = Operation(c)
    BY <1>9, <1>t DEF ResumeCompleted, HandlerTakes
  <2> QED
    BY <2>1, <1>s
<1>10. CASE RestoreSharedThis(c)
  <2>1. coro' = coro /\ Operation(c)' = Operation(c)
    BY <1>10, <1>t DEF RestoreSharedThis, Locks
  <2> QED
    BY <2>1, <1>s
<1>11. CASE HandlerResume(c)
  <2>1. Operation(c) = "completed" /\ Operation(c)' = "none"
    BY <1>11, <1>t DEF HandlerResume
  <2>2. Promise!Move(c, "suspended", "running")
    BY <1>11, <1>t DEF HandlerResume, Promise!Move
  <2>3. Promise!Operation(c, {"completed"}, "none")
    BY <2>1, <1>0 DEF Promise!Operation, ops
  <2> QED
    BY <2>2, <2>3 DEF Promise!Resume, AbstractStep
<1>12. CASE HandlerDrop(c)
  <2>1. Operation(c) = "pending" /\ Operation(c)' = "abandoned"
    BY <1>12, <1>t DEF HandlerDrop, DestroyHandler, HandlerTakes
  <2>2. UNCHANGED coro
    BY <1>12, <1>t DEF HandlerDrop, DestroyHandler
  <2>3. Promise!Operation(c, {"pending"}, "abandoned")
    BY <2>1, <1>0 DEF Promise!Operation, ops
  <2> QED
    BY <2>2, <2>3 DEF Promise!Abandon, AbstractStep
<1>13. CASE HandlerDestroy(c)
  <2>1. Promise!Move(c, "suspended", "destroyed")
    BY <1>13, <1>t DEF HandlerDestroy, Promise!Move
  <2>2. Operation(c)' = "none"
    BY <1>13, <1>t DEF HandlerDestroy
  <2>3. CASE ready[c]
    <3>1. Operation(c) = "completed"
      BY <1>13, <1>t, <2>3 DEF HandlerDestroy
    <3>2. OwnerOf[c] \in gone
      BY <1>13, <1>t, <2>3, OwnersAssumption DEF HandlerDestroy, Orphaned, Owned, gone
    <3> QED
      BY <2>1, <2>2, <3>1, <3>2, <1>0 DEF Promise!Destroy, Promise!Operation, AbstractStep, ops, gone
  <2>4. CASE ~ready[c]
    <3>1. Operation(c) = "abandoned"
      BY <1>13, <1>t, <2>4 DEF HandlerDestroy
    <3> QED
      BY <2>1, <2>2, <3>1, <1>0 DEF Promise!Destroy, Promise!Operation, AbstractStep, ops
  <2> QED
    BY <2>3, <2>4
<1>14. CASE Return(c)
  <2>1. Operation(c) = "none" /\ Operation(c)' = "none"
    BY <1>14, <1>t DEF Return
  <2>2. Promise!Move(c, "running", "returned")
    BY <1>14 DEF Return, Promise!Move
  <2>3. ops' = ops
    BY <2>1, <1>0 DEF ops
  <2> QED
    BY <2>2, <2>3 DEF Promise!Return, AbstractStep, ops
<1>15. CASE ShareOwner(c)
  <2>1. coro' = coro /\ Operation(c)' = Operation(c)
    BY <1>15, <1>t DEF ShareOwner
  <2> QED
    BY <2>1, <1>s
<1> QED
  BY <1>1, <1>2, <1>3, <1>4, <1>5, <1>6, <1>7, <1>8, <1>9, <1>10, <1>11, <1>12, <1>13, <1>14, <1>15 DEF CoroStep, ThreadStep

(* The hand-off keeps the promise of Suspension. *)
THEOREM Refinement == Spec => KeepsPromise
<1>1. Init => Promise!Init
  BY DEF Init, Promise!Init, Operation, Alive
<1>2. IInv /\ IInv' /\ [Next]_vars => [Promise!Next]_Promise!vars
  <2> SUFFICES ASSUME IInv, IInv', [Next]_vars
               PROVE  Promise!Next \/ UNCHANGED Promise!vars
    OBVIOUS
  <2>1. CASE UNCHANGED vars
    BY <2>1 DEF vars, Promise!vars, Operation, Alive
  <2>2. ASSUME NEW o \in Owners, DropOwner(o) PROVE Promise!Next
    BY <2>2, OwnersRefined DEF DropOwner, Promise!Next, Operation
  <2>3. ASSUME NEW c \in Coros, CoroStep(c) PROVE Promise!Next
    BY <2>3, OwnersRefined, StepRefined DEF Promise!Next, AbstractStep, ops
  <2> QED
    BY <2>1, <2>2, <2>3, NextCases
<1> QED
  BY <1>1, <1>2, Inductive, PTL DEF Spec, KeepsPromise, Promise!Spec
=============================================================================
