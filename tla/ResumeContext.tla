--------------------------- MODULE ResumeContext ---------------------------
(***************************************************************************)
(* The hand-off between a coroutine that suspends on an asynchronous       *)
(* operation (its awaiter thread, inside await_suspend) and the completion *)
(* handler of that operation, which runs or is destroyed on any thread.    *)
(* One atomic word, state, decides which of the two resumes or destroys    *)
(* the coroutine.  The owner of a coroutine (the object whose member it    *)
(* is) is kept alive by the frame's shared_this while the coroutine runs,  *)
(* and only weakly while it waits.                                         *)
(***************************************************************************)
EXTENDS Integers

CONSTANTS
  Coros,     \* coroutines
  Owners,    \* objects with shared_from_this that own coroutines
  NoOwner,   \* a free function has no owner
  OwnerOf,   \* the owner of each coroutine
  MaxLinger  \* bound: threads that still hold saved_shared_this of one coroutine

ASSUME OwnersAssumption ==
  /\ OwnerOf \in [Coros -> Owners \cup {NoOwner}]
  /\ NoOwner \notin Owners

ASSUME MaxLingerAssumption == MaxLinger \in Nat \ {0}

VARIABLES
  coro,      \* running, suspended, or finished: destroyed or returned
  kind,      \* the awaitable it is, or was last, suspended on
  awaiter,   \* where the thread that suspended it is inside await_suspend
  handler,   \* where the completion handler is
  state,     \* resume_context::state_
  ready,     \* the result was stored in the awaitable
  thisRef,   \* frame.shared_this is not null
  saved,     \* the awaiter holds saved_shared_this
  restore,   \* completion_handler::restore_shared_this_
  lingering, \* threads that lost the exchange and have yet to drop saved_shared_this
  ext        \* the program itself holds a shared_ptr to the owner

vars == <<coro, kind, awaiter, handler, state, ready, thisRef, saved, restore, lingering, ext>>

Kinds == {"deferred", "timer", "dispatch"}
Settled == {"running", "destroyed", "returned"}

TypeOK ==
  /\ coro \in [Coros -> Settled \cup {"suspended"}]
  /\ kind \in [Coros -> Kinds]
  /\ awaiter \in [Coros -> {"idle", "initiated", "moved", "won", "lost"}]
  /\ handler \in [Coros -> {"none", "pending", "invoked", "restoring", "resuming", "destroying"}]
  /\ state \in [Coros -> {"initializing", "awaiting", "completed", "destroyed"}]
  /\ ready \in [Coros -> BOOLEAN]
  /\ thisRef \in [Coros -> BOOLEAN]
  /\ saved \in [Coros -> BOOLEAN]
  /\ restore \in [Coros -> BOOLEAN]
  /\ lingering \in [Coros -> 0 .. MaxLinger]
  /\ ext \in [Owners -> BOOLEAN]

Owned(c) == OwnerOf[c] # NoOwner

\* The use count of the owner's control block is not zero.
Alive(o) ==
  \/ ext[o]
  \/ \E c \in Coros : OwnerOf[c] = o /\ (thisRef[c] \/ saved[c] \/ lingering[c] > 0)

\* weak_this.lock() yields a pointer
LocksAlways(c) == TRUE
Locks(c) == Alive(OwnerOf[c])

Init ==
  /\ coro = [c \in Coros |-> "running"]
  /\ kind = [c \in Coros |-> "deferred"]
  /\ awaiter = [c \in Coros |-> "idle"]
  /\ handler = [c \in Coros |-> "none"]
  /\ state = [c \in Coros |-> "initializing"]
  /\ ready = [c \in Coros |-> FALSE]
  /\ thisRef = [c \in Coros |-> Owned(c)]
  /\ saved = [c \in Coros |-> FALSE]
  /\ restore = [c \in Coros |-> FALSE]
  /\ lingering = [c \in Coros |-> 0]
  /\ ext = [o \in Owners |-> TRUE]
-----------------------------------------------------------------------------
(* The two exchanges. *)

\* The handler may touch the coroutine only if the awaiter has left it.
TakesAlways(prev) == TRUE
TakesNever(prev) == FALSE
HandlerTakes(prev) == prev = "awaiting"

\* The destructor of a handler that was never invoked.
DestroyHandler(c) ==
  /\ handler[c] = "pending"
  /\ state' = [state EXCEPT ![c] = "destroyed"]
  /\ handler' = [handler EXCEPT ![c] = IF HandlerTakes(state[c]) THEN "destroying" ELSE "none"]

\* What resume_awaiting makes of the state it replaces.
IgnoresDestroyed(prev) == IF prev = "completed" THEN "won" ELSE "idle"
ResumesDestroyed(prev) == IF prev = "initializing" THEN "idle" ELSE "won"
AwaiterTakes(prev) ==
  IF prev = "completed" THEN "won" ELSE IF prev = "destroyed" THEN "lost" ELSE "idle"
-----------------------------------------------------------------------------
(* The awaiter: await_suspend of the awaitable. *)

\* co_await constructs the awaitable and its handler and initiates the operation.
Await(c, k) ==
  /\ coro[c] = "running"
  /\ coro' = [coro EXCEPT ![c] = "suspended"]
  /\ kind' = [kind EXCEPT ![c] = k]
  /\ awaiter' = [awaiter EXCEPT ![c] = "initiated"]
  /\ handler' = [handler EXCEPT ![c] = "pending"]
  /\ state' = [state EXCEPT ![c] = "initializing"]
  /\ ready' = [ready EXCEPT ![c] = FALSE]
  /\ restore' = [restore EXCEPT ![c] = (k # "dispatch" /\ thisRef[c])]
  /\ UNCHANGED <<thisRef, saved, lingering, ext>>

\* The initiation throws: the unwinding runs the destructor of its handler, and
\* the exception becomes the result the coroutine resumes with.
InitiationThrows(c) ==
  /\ awaiter[c] = "initiated" /\ kind[c] = "deferred"
  /\ DestroyHandler(c)
  /\ ready' = [ready EXCEPT ![c] = TRUE]
  /\ awaiter' = [awaiter EXCEPT ![c] = "idle"]
  /\ coro' = [coro EXCEPT ![c] = "running"]
  /\ UNCHANGED <<kind, thisRef, saved, restore, lingering, ext>>

\* frame_.shared_this is moved from, not copied
LeftByCopy(c) == thisRef[c]
LeftByMove(c) == FALSE

MoveShared(c) ==
  /\ awaiter[c] = "initiated" /\ kind[c] # "dispatch"
  /\ awaiter' = [awaiter EXCEPT ![c] = "moved"]
  /\ saved' = [saved EXCEPT ![c] = thisRef[c]]
  /\ thisRef' = [thisRef EXCEPT ![c] = LeftByMove(c)]
  /\ UNCHANGED <<coro, kind, handler, state, ready, restore, lingering, ext>>

\* An awaiter that leaves drops saved_shared_this only once it returns.
ResumeAwaiting(c) ==
  /\ awaiter[c] = (IF kind[c] = "dispatch" THEN "initiated" ELSE "moved")
  /\ state' = [state EXCEPT ![c] = "awaiting"]
  /\ awaiter' = [awaiter EXCEPT ![c] = AwaiterTakes(state[c])]
  /\ IF saved[c] /\ AwaiterTakes(state[c]) = "idle"
     THEN /\ lingering[c] < MaxLinger
          /\ saved' = [saved EXCEPT ![c] = FALSE]
          /\ lingering' = [lingering EXCEPT ![c] = @ + 1]
     ELSE UNCHANGED <<saved, lingering>>
  /\ UNCHANGED <<coro, kind, handler, ready, thisRef, restore, ext>>

\* frame_.shared_this = std::move(saved_shared_this)
ForgetsSaved(c) == thisRef[c]
TakesBack(c) == saved[c] \/ thisRef[c]

\* The operation completed eagerly: await_suspend returns the handle.
ResumeInline(c) ==
  /\ awaiter[c] = "won"
  /\ awaiter' = [awaiter EXCEPT ![c] = "idle"]
  /\ coro' = [coro EXCEPT ![c] = "running"]
  /\ thisRef' = [thisRef EXCEPT ![c] = TakesBack(c)]
  /\ saved' = [saved EXCEPT ![c] = FALSE]
  /\ UNCHANGED <<kind, handler, state, ready, restore, lingering, ext>>

\* The handler was dropped before the awaiter got here.
DestroyInline(c) ==
  /\ awaiter[c] = "lost"
  /\ awaiter' = [awaiter EXCEPT ![c] = "idle"]
  /\ coro' = [coro EXCEPT ![c] = "destroyed"]
  /\ thisRef' = [thisRef EXCEPT ![c] = FALSE]
  /\ IF saved[c]
     THEN /\ lingering[c] < MaxLinger
          /\ saved' = [saved EXCEPT ![c] = FALSE]
          /\ lingering' = [lingering EXCEPT ![c] = @ + 1]
     ELSE UNCHANGED <<saved, lingering>>
  /\ UNCHANGED <<kind, handler, state, ready, restore, ext>>

\* A thread leaves await_suspend and its saved_shared_this is destroyed, once.
ReleasedTwice(c) == TRUE
HoldsSaved(c) == lingering[c] > 0

ReleaseSaved(c) ==
  /\ HoldsSaved(c)
  /\ lingering' = [lingering EXCEPT ![c] = @ - 1]
  /\ UNCHANGED <<coro, kind, awaiter, handler, state, ready, thisRef, saved, restore, ext>>
-----------------------------------------------------------------------------
(* The completion handler, on any thread. *)

\* context_.set_value(...)
SetValueSkipped(c) == ready[c]
SetValue(c) == TRUE

\* operator(): the result is stored and the handler gives up its handle.
HandlerInvoke(c) ==
  /\ handler[c] = "pending"
  /\ handler' = [handler EXCEPT ![c] = "invoked"]
  /\ ready' = [ready EXCEPT ![c] = SetValue(c)]
  /\ UNCHANGED <<coro, kind, awaiter, state, thisRef, saved, restore, lingering, ext>>

ResumeCompleted(c) ==
  /\ handler[c] = "invoked"
  /\ state' = [state EXCEPT ![c] = "completed"]
  /\ handler' = [handler EXCEPT ![c] =
                   IF ~HandlerTakes(state[c]) THEN "none"
                   ELSE IF restore[c] THEN "restoring" ELSE "resuming"]
  /\ UNCHANGED <<coro, kind, awaiter, ready, thisRef, saved, restore, lingering, ext>>

RestoreSharedThis(c) ==
  /\ handler[c] = "restoring"
  /\ thisRef' = [thisRef EXCEPT ![c] = Locks(c)]
  /\ handler' = [handler EXCEPT ![c] = IF Locks(c) THEN "resuming" ELSE "destroying"]
  /\ UNCHANGED <<coro, kind, awaiter, state, ready, saved, restore, lingering, ext>>

HandlerResume(c) ==
  /\ handler[c] = "resuming"
  /\ handler' = [handler EXCEPT ![c] = "none"]
  /\ coro' = [coro EXCEPT ![c] = "running"]
  /\ UNCHANGED <<kind, awaiter, state, ready, thisRef, saved, restore, lingering, ext>>

\* The operation lets go of its handler without invoking it.
HandlerDrop(c) ==
  /\ DestroyHandler(c)
  /\ UNCHANGED <<coro, kind, awaiter, ready, thisRef, saved, restore, lingering, ext>>

HandlerDestroy(c) ==
  /\ handler[c] = "destroying"
  /\ handler' = [handler EXCEPT ![c] = "none"]
  /\ coro' = [coro EXCEPT ![c] = "destroyed"]
  /\ thisRef' = [thisRef EXCEPT ![c] = FALSE]
  /\ UNCHANGED <<kind, awaiter, state, ready, saved, restore, lingering, ext>>
-----------------------------------------------------------------------------
(* The program around the coroutines. *)

Return(c) ==
  /\ coro[c] = "running"
  /\ coro' = [coro EXCEPT ![c] = "returned"]
  /\ thisRef' = [thisRef EXCEPT ![c] = FALSE]
  /\ UNCHANGED <<kind, awaiter, handler, state, ready, saved, restore, lingering, ext>>

\* A running member coroutine may hand out its owner again (shared_from_this).
ShareOwner(c) ==
  /\ coro[c] = "running" /\ thisRef[c]
  /\ ext' = [ext EXCEPT ![OwnerOf[c]] = TRUE]
  /\ UNCHANGED <<coro, kind, awaiter, handler, state, ready, thisRef, saved, restore, lingering>>

DropOwner(o) ==
  /\ ext[o]
  /\ ext' = [ext EXCEPT ![o] = FALSE]
  /\ UNCHANGED <<coro, kind, awaiter, handler, state, ready, thisRef, saved, restore, lingering>>

ThreadStep(c) ==
  \/ MoveShared(c)
  \/ ResumeAwaiting(c)
  \/ ResumeInline(c)
  \/ DestroyInline(c)
  \/ ReleaseSaved(c)
  \/ ResumeCompleted(c)
  \/ RestoreSharedThis(c)
  \/ HandlerResume(c)
  \/ HandlerDestroy(c)

Next ==
  \/ \E c \in Coros :
       \/ \E k \in Kinds : Await(c, k)
       \/ InitiationThrows(c)
       \/ HandlerInvoke(c)
       \/ HandlerDrop(c)
       \/ Return(c)
       \/ ShareOwner(c)
       \/ ThreadStep(c)
  \/ \E o \in Owners : DropOwner(o)

Spec == Init /\ [][Next]_vars

\* A thread inside await_suspend or inside a handler keeps running; whether
\* and when an operation completes is up to the outside.
FairSpec ==
  /\ Spec
  /\ \A c \in Coros :
       /\ WF_vars(MoveShared(c))
       /\ WF_vars(ResumeAwaiting(c))
       /\ WF_vars(ResumeInline(c))
       /\ WF_vars(DestroyInline(c))
       /\ WF_vars(ReleaseSaved(c))
       /\ WF_vars(ResumeCompleted(c))
       /\ WF_vars(RestoreSharedThis(c))
       /\ WF_vars(HandlerResume(c))
       /\ WF_vars(HandlerDestroy(c))
-----------------------------------------------------------------------------
(* A running or finished coroutine has been left by everyone: neither the  *)
(* awaiter nor the handler of its last operation will still touch its      *)
(* frame (resume_context.hpp: exactly one side resumes or destroys it).    *)
SettledIsLeftAlone ==
  \A c \in Coros : coro[c] \in Settled => awaiter[c] = "idle" /\ handler[c] = "none"

(* A suspended coroutine is never forgotten: its awaiter is still on the   *)
(* way, or a handler exists that will resume or destroy it.                *)
NoLostWakeup ==
  \A c \in Coros : coro[c] = "suspended" => awaiter[c] # "idle" \/ handler[c] # "none"

(* Whoever is about to resume the coroutine finds its result stored, so    *)
(* that await_resume never reads an unset outcome.                         *)
ResultBeforeResume ==
  \A c \in Coros :
    awaiter[c] = "won" \/ handler[c] \in {"restoring", "resuming"} => ready[c]

(* A member coroutine runs only while it holds a strong reference to its   *)
(* owner, whatever path resumed it (promise_frame::shared_this).           *)
OwnerOutlivesRun ==
  \A c \in Coros : coro[c] = "running" /\ Owned(c) => thisRef[c]

(* No step brings a destroyed owner back: the handler locks the weak       *)
(* reference, it never makes a strong one of its own.                      *)
OwnerNeverRevived == [][\A o \in Owners : ~Alive(o) => ~Alive(o)']_vars

(* Every completed or dropped operation ends with its coroutine resumed or *)
(* destroyed, whichever of the two threads is the slower.                  *)
Settles ==
  \A c \in Coros :
    coro[c] = "suspended" /\ handler[c] # "pending" ~> coro[c] \in Settled

Waiting(c) == coro[c] = "suspended" /\ handler[c] = "pending" /\ kind[c] # "dispatch"

(* Waiting coroutines do not keep their owner: one nobody else holds dies, *)
(* unless an operation of one of its coroutines finishes first.  This is   *)
(* the weak reference of completion_handler.hpp, "a concurrently destroyed *)
(* owner aborts the coroutine safely"; the words of promise_frame say      *)
(* otherwise, see OwnerKeptWhileSuspended.                                 *)
UnheldOwnerDies ==
  \A o \in Owners :
    ~ext[o] /\ (\A c \in Coros : OwnerOf[c] = o => Waiting(c))
      ~> ~Alive(o) \/ \E c \in Coros : OwnerOf[c] = o /\ ~Waiting(c)

(* The owner of a suspended coroutine is alive (promise_frame.hpp: "an     *)
(* optional strong self-reference (`shared_this`) to keep an owning object *)
(* alive across suspension").                                              *)
OwnerKeptWhileSuspended ==
  \A c \in Coros : coro[c] = "suspended" /\ Owned(c) => Alive(OwnerOf[c])

\* The operation as the coroutine sees it.
Operation(c) ==
  IF coro[c] # "suspended" THEN "none"
  ELSE IF ready[c] THEN "completed"
  ELSE IF handler[c] = "pending" THEN "pending" ELSE "abandoned"

Promise == INSTANCE Suspension WITH
  phase <- coro,
  op    <- [c \in Coros |-> Operation(c)],
  gone  <- {o \in Owners : ~Alive(o)}

(* Both sides of the hand-off together keep what an awaitable promises:    *)
(* one resumption after completion, or one destruction after the operation *)
(* was abandoned or the owner was destroyed.                               *)
KeepsPromise == Promise!Spec
=============================================================================
