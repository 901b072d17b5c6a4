----------------------------- MODULE Ownership ------------------------------
(***************************************************************************)
(* Who owns each coroutine frame.  A frame that does not run is held by    *)
(* one unique_handle: that of the promise object or deferred operation it  *)
(* was created for, of the frame it called (promise_frame::caller), of a   *)
(* handler in the hands of Asio, or of a handler inside the trampoline     *)
(* that await() starts.  Destroying a frame destroys the handles in it,    *)
(* and with them the frames they hold, one after the other.                *)
(***************************************************************************)
EXTENDS Integers, FiniteSets

CONSTANTS
  Frames,  \* blocks that frames are allocated in
  Outside, \* code that is not a coroutine
  NoFrame

ASSUME FramesAssumption == NoFrame \notin Frames /\ Outside \notin Frames

VARIABLES
  at,      \* where each coroutine is, "none" if the block is free
  kind,    \* what the frame is
  caller,  \* promise_frame::caller
  callee,  \* the callee_ of the awaitable a frame waits in, which owns nothing
  body,    \* frames held by promise objects and deferred operations of a body
  token,   \* the coroutine held by the completion handler in a trampoline
  handler, \* what holds the frame in the hands of Asio
  result,  \* promise_frame_base::result
  lost     \* ghost: finished callees whose way back was destroyed

vars == <<at, kind, caller, callee, body, token, handler, result, lost>>

Places == {"none", "ready", "running", "waiting", "calling", "returning",
           "delivering", "final", "dying"}
Suspended == {"ready", "waiting", "calling"}

\* What outcome::storage_t can hold.
Outcomes == {"nothing", "value", "exception"}

TypeOK ==
  /\ at \in [Frames -> Places]
  /\ kind \in [Frames -> {"promise", "detached", "trampoline"}]
  /\ caller \in [Frames -> Frames \cup {NoFrame}]
  /\ callee \in [Frames -> Frames \cup {NoFrame}]
  /\ body \in [Frames \cup {Outside} -> SUBSET Frames]
  /\ token \in [Frames -> Frames \cup {NoFrame}]
  /\ handler \in [Frames -> {"none", "operation", "hop"}]
  /\ result \in [Frames -> Outcomes]
  /\ lost \in SUBSET Frames

Init ==
  /\ at = [f \in Frames |-> "none"]
  /\ kind = [f \in Frames |-> "promise"]
  /\ caller = [f \in Frames |-> NoFrame]
  /\ callee = [f \in Frames |-> NoFrame]
  /\ body = [p \in Frames \cup {Outside} |-> {}]
  /\ token = [f \in Frames |-> NoFrame]
  /\ handler = [f \in Frames |-> "none"]
  /\ result = [f \in Frames |-> "nothing"]
  /\ lost = {}
-----------------------------------------------------------------------------
(* Handles and outcomes. *)

\* Mutant: a frame does not own the one that waits for it.
OwnsNoCaller(f) == (body[f] \cup {token[f]}) \ {NoFrame}

\* The frames whose unique_handle lies in frame f.
Owned(f) == (body[f] \cup {caller[f], token[f]}) \ {NoFrame}

\* Code that can create and await: a coroutine that runs, or none at all.
Body(p) == p = Outside \/ (p \in Frames /\ at[p] = "running")

\* unique_handle destroys the frames it holds: their destructors begin.
Destroyed(S) == [f \in Frames |-> IF f \in S THEN "dying" ELSE at[f]]

\* The destructor of a frame, up to those of the frames it owns.
Release(f) ==
  /\ at[f] = "dying"
  /\ at' = [Destroyed(Owned(f)) EXCEPT ![f] = "none"]
  /\ caller' = [caller EXCEPT ![f] = NoFrame]
  /\ callee' = [callee EXCEPT ![f] = NoFrame]
  /\ body' = [body EXCEPT ![f] = {}]
  /\ token' = [token EXCEPT ![f] = NoFrame]
  /\ result' = [result EXCEPT ![f] = "nothing"]
  /\ kind' = [kind EXCEPT ![f] = "promise"]
  /\ UNCHANGED <<handler, lost>>
\* Mutant: an exception that escapes is not kept.
KeepsNoException(f, r) ==
  IF r = "exception" THEN result ELSE [result EXCEPT ![f] = r]

\* The value or the exception that a coroutine ends with is stored.
Stored(f, r) == [result EXCEPT ![f] = r]
-----------------------------------------------------------------------------
(* Creating frames and starting coroutines. *)

\* A promise coroutine is called: it suspends at once, its promise object holds it.
Create(p, f) ==
  /\ Body(p) /\ at[f] = "none"
  /\ at' = [at EXCEPT ![f] = "ready"]
  /\ body' = [body EXCEPT ![p] = @ \cup {f}]
  /\ UNCHANGED <<kind, caller, callee, token, handler, result, lost>>

\* A detached coroutine is called: it runs at once and nobody holds it.
StartDetached(p, f) ==
  /\ Body(p) /\ at[f] = "none"
  /\ at' = [at EXCEPT ![f] = "running"]
  /\ kind' = [kind EXCEPT ![f] = "detached"]
  /\ UNCHANGED <<caller, callee, body, token, handler, result, lost>>

\* A promise object or deferred operation goes out of scope, or its initiation
\* cannot allocate the trampoline.
Discard(p, f) ==
  /\ Body(p) /\ f \in body[p]
  /\ body' = [body EXCEPT ![p] = @ \ {f}]
  /\ at' = Destroyed({f})
  /\ UNCHANGED <<kind, caller, callee, token, handler, result, lost>>

\* Frame p waits for promise f, which runs.
Calls(p, f) ==
  /\ callee' = [callee EXCEPT ![p] = f]
  /\ caller' = [caller EXCEPT ![f] = p]

\* Mutant: the handle is copied.
Copied(p, f) == body

\* m_coro.release() or a unique_handle passed on
Taken(p, f) == [body EXCEPT ![p] = @ \ {f}]

\* co_await of a promise
AwaitPromise(p, f) ==
  /\ Body(p) /\ p # Outside /\ f \in body[p]
  /\ body' = Taken(p, f)
  /\ Calls(p, f)
  /\ at' = [at EXCEPT ![p] = "calling", ![f] = "running"]
  /\ UNCHANGED <<kind, token, handler, result, lost>>

\* init_await::start_coro: trampoline t takes the handler and calls f.  The
\* handler is a callback, or it holds the coroutine that awaits the operation.
StartCoro(t, f, waiter) ==
  /\ Calls(t, f)
  /\ token' = [token EXCEPT ![t] = waiter]
  /\ kind' = [kind EXCEPT ![t] = "trampoline"]

\* await(promise, token) is initiated, f given to it or made by a function that
\* was; p awaits the operation itself or goes on.
Await(p, f, t, waiter) ==
  /\ Body(p) /\ waiter \in {NoFrame, p} \ {Outside}
  /\ f \in body[p] \/ at[f] = "none"
  /\ f # t /\ at[t] = "none"
  /\ body' = Taken(p, f)
  /\ StartCoro(t, f, waiter)
  /\ at' = [g \in Frames |->
       CASE g = t -> "calling" [] g = f -> "running" [] g = waiter -> "waiting"
         [] OTHER -> at[g]]
  /\ UNCHANGED <<handler, result, lost>>
-----------------------------------------------------------------------------
(* Handlers. *)

\* co_await of an operation, or a hop: a handler holds the coroutine.
Suspend(f) ==
  /\ at[f] = "running"
  /\ at' = [at EXCEPT ![f] = "waiting"]
  /\ handler' = [handler EXCEPT ![f] = "operation"]
  /\ UNCHANGED <<kind, caller, callee, body, token, result, lost>>

\* The handler runs and resumes it, on the way back inside the co_await.
Complete(f) ==
  /\ handler[f] # "none"
  /\ handler' = [handler EXCEPT ![f] = "none"]
  /\ at' = [at EXCEPT ![f] = IF handler[f] = "hop" THEN "returning" ELSE "running"]
  /\ UNCHANGED <<kind, caller, callee, body, token, result, lost>>

\* Mutant: whatever a frame waits for is given up with it.
DropsCallee(f) ==
  /\ handler[f] # "none"
  /\ handler' = [handler EXCEPT ![f] = "none"]
  /\ at' = Destroyed({f})
  /\ lost' = lost \cup {callee[f]}
  /\ UNCHANGED <<kind, caller, callee, body, token, result>>

\* The handler is destroyed, or finds the owner of its coroutine gone.
Drop(f) ==
  /\ handler[f] # "none"
  /\ handler' = [handler EXCEPT ![f] = "none"]
  /\ at' = Destroyed({f})
  /\ lost' = IF handler[f] = "hop" THEN lost \cup {callee[f]} ELSE lost
  /\ UNCHANGED <<kind, caller, callee, body, token, result>>
-----------------------------------------------------------------------------
(* The end of a coroutine. *)

\* A promise returns or throws: its locals go, and final_awaitable resumes the
\* caller, or leaves it to a handler on the caller's executor.
Finish(f, r, inline) ==
  LET p == caller[f]
  IN  /\ at[f] = "running" /\ kind[f] = "promise"
      /\ result' = Stored(f, r)
      /\ caller' = [caller EXCEPT ![f] = NoFrame]
      /\ body' = [body EXCEPT ![f] = {}]
      /\ at' = [Destroyed(body[f]) EXCEPT
                  ![f] = "final", ![p] = IF inline THEN "returning" ELSE @]
      /\ handler' = [handler EXCEPT ![p] = IF inline THEN @ ELSE "hop"]
      /\ UNCHANGED <<kind, callee, token, lost>>

\* A detached coroutine returns: its frame destroys itself.
FinishDetached(f) ==
  /\ at[f] = "running" /\ kind[f] = "detached"
  /\ at' = Destroyed({f})
  /\ UNCHANGED <<kind, caller, callee, body, token, handler, result, lost>>

\* Mutant: the callee is not destroyed with its result taken.
LeavesCallee(p) ==
  /\ at[p] = "returning" /\ kind[p] # "trampoline"
  /\ at' = [at EXCEPT ![p] = "running"]
  /\ callee' = [callee EXCEPT ![p] = NoFrame]
  /\ UNCHANGED <<kind, caller, body, token, handler, result, lost>>

\* coro_awaitable::await_resume: the result is taken, the callee destroyed.
AwaitResume(p) ==
  /\ at[p] = "returning" /\ kind[p] # "trampoline"
  /\ at' = [Destroyed({callee[p]}) EXCEPT ![p] = "running"]
  /\ callee' = [callee EXCEPT ![p] = NoFrame]
  /\ UNCHANGED <<kind, caller, body, token, handler, result, lost>>

\* init_await::awaitable::await_resume, first half: the handler is called with
\* the result and resumes the coroutine it holds, unless its owner is gone.
Deliver(t) ==
  LET q == token[t]
  IN  /\ at[t] = "returning" /\ kind[t] = "trampoline"
      /\ token' = [token EXCEPT ![t] = NoFrame]
      /\ \E after \in {"running", "dying"} :
           at' = [g \in Frames |->
                    CASE g = t -> "delivering" [] g = q -> after [] OTHER -> at[g]]
      /\ UNCHANGED <<kind, caller, callee, body, handler, result, lost>>

\* Second half: the handler returned; callee and trampoline are destroyed.
TrampolineEnds(t) ==
  /\ at[t] = "delivering"
  /\ at' = Destroyed({t, callee[t]})
  /\ callee' = [callee EXCEPT ![t] = NoFrame]
  /\ UNCHANGED <<kind, caller, body, token, handler, result, lost>>

Next ==
  \E f \in Frames :
    \/ Release(f) \/ Suspend(f) \/ Complete(f) \/ Drop(f)
    \/ \E r \in Outcomes \ {"nothing"}, inline \in BOOLEAN : Finish(f, r, inline)
    \/ FinishDetached(f) \/ AwaitResume(f) \/ Deliver(f) \/ TrampolineEnds(f)
    \/ \E p \in Frames \cup {Outside} :
         \/ Create(p, f) \/ StartDetached(p, f) \/ Discard(p, f) \/ AwaitPromise(p, f)
         \/ \E t \in Frames, waiter \in {NoFrame, p} : Await(p, f, t, waiter)

Spec == Init /\ [][Next]_vars
-----------------------------------------------------------------------------
\* The handles that hold f, each with the frame it lies in.
Holders(f) ==
  {<<"caller", g>> : g \in {h \in Frames : caller[h] = f}}
    \cup {<<"body", p>> : p \in {q \in Frames \cup {Outside} : f \in body[q]}}
    \cup {<<"token", t>> : t \in {h \in Frames : token[h] = f}}
    \cup {<<"handler", h>> : h \in {g \in {f} : handler[g] # "none"}}

(* Every frame that is suspended is held by exactly one unique_handle, so  *)
(* it is resumed or destroyed once; one that runs, rests at its final      *)
(* suspension or is being destroyed is held by none (unique_handle.hpp:    *)
(* "owns a single std::coroutine_handle").                                 *)
OneOwner ==
  \A f \in Frames :
    IF at[f] \in Suspended THEN \E h \in Holders(f) : Holders(f) = {h} ELSE Holders(f) = {}

(* What a frame that will be resumed reads is there: the callee it waits   *)
(* for is alive and will return to it, and once it is told that the callee *)
(* ended, the callee rests with a result; await_resume never finds an      *)
(* outcome that was not set, nor a handler an awaitable that is gone.      *)
CalleeAlive ==
  \A p \in Frames :
    LET f == callee[p] IN
    /\ at[p] \in {"returning", "delivering"} \/ handler[p] = "hop" =>
         f # NoFrame /\ at[f] = "final" /\ result[f] # "nothing"
    /\ at[p] = "calling" /\ handler[p] = "none" =>
         f # NoFrame /\ caller[f] = p
           /\ at[f] \in {"running", "waiting", "calling", "returning", "dying"}

(* No frame is forgotten.  A finished callee is destroyed by the frame     *)
(* that awaits it; it is lost only when the handler on the way back is     *)
(* destroyed unrun, and then it holds nothing that is lost with it.        *)
NothingForgotten ==
  \A f \in Frames :
    /\ at[f] = "final" /\ f \notin lost =>
         \E p \in Frames : callee[p] = f /\ at[p] \in {"calling", "returning", "delivering"}
    /\ f \in lost => at[f] = "final" /\ Owned(f) = {}

\* Frames that are being destroyed, or will be as the members of those are: the
\* least set that has the first and, with a frame, those it owns.
Doomed ==
  LET dying == {f \in Frames : at[f] = "dying"}
      closed == {S \in SUBSET Frames : dying \subseteq S /\ \A g \in S : Owned(g) \subseteq S}
  IN  {f \in Frames : \A S \in closed : f \in S}

\* Coroutines that have started and neither ended nor were abandoned.
Live ==
  {f \in Frames :
     /\ at[f] \in {"running", "waiting", "calling", "returning", "final"}
     /\ kind[f] # "trampoline"
     /\ \A t \in Frames : at[t] = "delivering" => callee[t] # f}
    \ (Doomed \cup lost)

\* What a coroutine waits for, the trampoline of an await() left out.
WaitsFor(p) ==
  IF \E t \in Frames : token[t] = p
  THEN callee[CHOOSE t \in Frames : token[t] = p]
  ELSE callee[p]

(* Coroutines never wait for each other, nor for one that is gone: each    *)
(* waits for a live one, no two for the same, among any that wait is one   *)
(* that waits for none of the others, and at the end of a chain is one     *)
(* that runs, has ended, or has an operation under way.                    *)
NoStandstill ==
  /\ \A p \in Live : WaitsFor(p) \in Live \cup {NoFrame}
  /\ \A p, q \in Live : WaitsFor(p) = WaitsFor(q) /\ WaitsFor(p) # NoFrame => p = q
  /\ \A S \in SUBSET Live : S # {} => \E p \in S : WaitsFor(p) \notin S
  /\ \A p \in Live : WaitsFor(p) = NoFrame =>
       at[p] \in {"running", "final"} \/ handler[p] = "operation"

Contract == INSTANCE Awaiting WITH waits <- [p \in Live |-> WaitsFor(p)]

(* The ownership rules implement the contract of Awaiting: a result frees  *)
(* the callee as its caller goes on, a handler that is destroyed takes     *)
(* down the coroutines that wait behind it, and no other.                  *)
KeepsContract == Contract!Spec
=============================================================================
