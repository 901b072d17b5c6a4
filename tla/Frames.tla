------------------------------- MODULE Frames -------------------------------
(***************************************************************************)
(* Chains of coroutine frames and the executors they move between.  A      *)
(* chain is a detached coroutine and the promises it awaits, one inside    *)
(* the other; its control is on a thread, in a handler queued on an        *)
(* executor, or, while a dispatch is under way, in both.  Executors are    *)
(* io_contexts, whose threads run any handler, and strands on top of them, *)
(* which run one handler at a time.                                        *)
(***************************************************************************)
EXTENDS Integers, Sequences, SequencesExt

CONSTANTS
  Chains, Threads, Contexts,
  Strands,       \* strands of a type that has get_inner_executor
  Erased,        \* strands held in an any_io_executor, which hides it
  Inner,         \* the io_context under each strand
  ThreadOf,      \* the io_context a thread runs, or NoExec
  NoExec, NoChain,
  Hops,          \* how a chain changes executor, and whether it sleeps
  RootTargets,   \* executors its detached coroutine moves to
  CalleeTargets, \* executors the promises it awaits move to
  MaxDepth       \* bound: frames of a chain

AnyStrand == Strands \cup Erased
Executors == Contexts \cup AnyStrand

ASSUME ExecutorsAssumption ==
  /\ Inner \in [AnyStrand -> Contexts]
  /\ ThreadOf \in [Threads -> Contexts \cup {NoExec}]
  /\ NoExec \notin Executors /\ NoChain \notin Chains
  /\ Contexts \cap AnyStrand = {} /\ Strands \cap Erased = {}
  /\ Hops \in [Chains -> SUBSET {"post", "defer", "dispatch", "sleep"}]
  /\ RootTargets \in [Chains -> SUBSET Executors]
  /\ CalleeTargets \in [Chains -> SUBSET Executors]

ASSUME MaxDepthAssumption == MaxDepth \in [Chains -> Nat \ {0}]

VARIABLES
  phase,   \* a chain is new, live or done
  stack,   \* its frames, the root first
  ending,  \* its last frame is at its final suspension
  handler, \* its queued handler: what it does and on which executor
  state,   \* resume_context::state_ of the dispatch under way
  thread   \* the chain a thread works for, where it is, the strand it holds

vars == <<phase, stack, ending, handler, state, thread>>

Frame == [executor : Executors \cup {NoExec}, callerExecutor : Executors \cup {NoExec},
          timer : Executors \cup {NoExec}] \* that of steady_timer, once it was made
Handler == [kind : {"none", "resume", "rendezvous"}, on : Executors \cup {NoExec}]
Idle == [chain |-> NoChain, pc |-> "idle", strand |-> NoExec]
NoHandler == [kind |-> "none", on |-> NoExec]

TypeOK ==
  /\ phase \in [Chains -> {"new", "live", "done"}]
  /\ \A k \in Chains :
       /\ Len(stack[k]) \in 0 .. MaxDepth[k]
       /\ phase[k] = "live" <=> Len(stack[k]) > 0
       /\ \A i \in 1 .. Len(stack[k]) : stack[k][i] \in Frame
  /\ ending \in [Chains -> BOOLEAN]
  /\ handler \in [Chains -> Handler]
  /\ state \in [Chains -> {"initializing", "awaiting", "completed"}]
  /\ thread \in [Threads -> [chain : Chains \cup {NoChain},
                             pc : {"idle", "running", "awaiting", "leaving"},
                             strand : AnyStrand \cup {NoExec}]]

Init ==
  /\ phase = [k \in Chains |-> "new"]
  /\ stack = [k \in Chains |-> <<>>]
  /\ ending = [k \in Chains |-> FALSE]
  /\ handler = [k \in Chains |-> NoHandler]
  /\ state = [k \in Chains |-> "initializing"]
  /\ thread = [t \in Threads |-> Idle]
-----------------------------------------------------------------------------
(* Frames and executors. *)

ContextOf(e) == IF e \in Contexts THEN e ELSE Inner[e]

NewFrame(caller) == [executor |-> NoExec, callerExecutor |-> caller, timer |-> NoExec]

\* promise_frame::inner_executor, as set_executor leaves it.
InnerExecutor(f) == IF f.executor \in Strands THEN Inner[f.executor] ELSE NoExec

\* promise_frame::get_executor
GetExecutor(f) == IF f.executor # NoExec THEN f.executor ELSE f.callerExecutor

Top(k) == Last(stack[k])

\* The frames once the coroutine is resumed: a finished callee is destroyed.
PopsAlways(k) == Front(stack[k])
Resumed(k) == IF ending[k] THEN Front(stack[k]) ELSE stack[k]

\* The coroutine has left its thread, which has yet to return from the handler.
Leaves(t) == thread' = [thread EXCEPT ![t].chain = NoChain, ![t].pc = "leaving"]

Running(t, k) == thread[t].chain = k /\ thread[t].pc = "running"

\* A thread may run a handler of e at once: it is in e already, or it runs the
\* io_context and the strand is neither held nor has handlers waiting.
RunsInline(t, e) ==
  /\ ThreadOf[t] = ContextOf(e)
  /\ e \in AnyStrand /\ thread[t].strand # e =>
       /\ \A u \in Threads : thread[u].strand # e
       /\ \A k \in Chains : handler[k].on # e
-----------------------------------------------------------------------------
(* Ways to hand a chain to an executor, from inside an await_suspend. *)

\* boost::asio::post or defer of a dispatch_handler<void>
Queue(t, k, e) ==
  /\ handler' = [handler EXCEPT ![k] = [kind |-> "resume", on |-> e]]
  /\ Leaves(t)
  /\ UNCHANGED state

\* boost::asio::dispatch of a dispatch_handler bound to a resume_context; a
\* handler that runs inline leaves the strand again before dispatch returns.
Dispatch(t, k, e) ==
  /\ IF RunsInline(t, e)
     THEN /\ state' = [state EXCEPT ![k] = "completed"]
          /\ UNCHANGED handler
     ELSE /\ state' = [state EXCEPT ![k] = "initializing"]
          /\ handler' = [handler EXCEPT ![k] = [kind |-> "rendezvous", on |-> e]]
  /\ thread' = [thread EXCEPT ![t].pc = "awaiting"]
-----------------------------------------------------------------------------
(* The body of a running coroutine. *)

\* An outside thread, or a handler of the program, starts the detached coroutine.
Start(t, k) ==
  /\ thread[t] = Idle /\ phase[k] = "new"
  /\ phase' = [phase EXCEPT ![k] = "live"]
  /\ stack' = [stack EXCEPT ![k] = <<NewFrame(NoExec)>>]
  /\ thread' = [thread EXCEPT ![t].chain = k, ![t].pc = "running"]
  /\ UNCHANGED <<ending, handler, state>>

Targets(k) == IF Len(stack[k]) = 1 THEN RootTargets[k] ELSE CalleeTargets[k]

SetExecutor(k, e) == stack' = [stack EXCEPT ![k][Len(stack[k])].executor = e]

QueuedHop(t, k, e) ==
  /\ Running(t, k) /\ e \in Targets(k)
  /\ SetExecutor(k, e)
  /\ Queue(t, k, e)
  /\ UNCHANGED <<phase, ending>>

\* co_await post(e) and co_await defer(e)
Post(t, k, e) == "post" \in Hops[k] /\ QueuedHop(t, k, e)
Defer(t, k, e) == "defer" \in Hops[k] /\ QueuedHop(t, k, e)

\* co_await dispatch(e)
DispatchTo(t, k, e) ==
  /\ Running(t, k) /\ "dispatch" \in Hops[k] /\ e \in Targets(k)
  /\ SetExecutor(k, e)
  /\ Dispatch(t, k, e)
  /\ UNCHANGED <<phase, ending>>

\* co_await of an asynchronous operation of an object that runs on c: its
\* handler is delivered on the executor of the frame, or on c if it has none.
AsyncWait(t, k, c) ==
  /\ Running(t, k)
  /\ LET e == GetExecutor(Top(k))
     IN  handler' = [handler EXCEPT ![k] =
                       [kind |-> "rendezvous", on |-> IF e = NoExec THEN c ELSE e]]
  /\ state' = [state EXCEPT ![k] = "initializing"]
  /\ thread' = [thread EXCEPT ![t].pc = "awaiting"]
  /\ UNCHANGED <<phase, stack, ending>>

\* Which executor the end of a sleep is handed to, in a frame that keeps timer.
WhereTimerIs(f, timer) == timer
WhereSleepEnds(f, timer) == GetExecutor(f)

\* co_await sleep_for or sleep_until: the first sleep of a frame makes its timer
\* on the executor the frame then has; without one it throws.
Sleep(t, k) ==
  LET f == Top(k)
      timer == IF f.timer = NoExec THEN GetExecutor(f) ELSE f.timer
  IN  /\ Running(t, k) /\ "sleep" \in Hops[k] /\ GetExecutor(f) # NoExec
      /\ stack' = [stack EXCEPT ![k][Len(stack[k])].timer = timer]
      /\ handler' = [handler EXCEPT ![k] =
                       [kind |-> "rendezvous", on |-> WhereSleepEnds(f, timer)]]
      /\ state' = [state EXCEPT ![k] = "initializing"]
      /\ thread' = [thread EXCEPT ![t].pc = "awaiting"]
      /\ UNCHANGED <<phase, ending>>

\* The executor a callee remembers as its caller's.
OwnExecutor(f) == f.executor
CallerSeenAs(f) == GetExecutor(f)

\* co_await of a promise
Call(t, k) ==
  /\ Running(t, k) /\ Len(stack[k]) < MaxDepth[k]
  /\ stack' = [stack EXCEPT ![k] =
       Append(@, NewFrame(CallerSeenAs(Top(k))))]
  /\ UNCHANGED <<phase, ending, handler, state, thread>>

\* Which way final_awaitable takes back to the caller.
ReturnsUnlessCalledFrom(f) ==
  IF f.callerExecutor # NoExec /\ f.executor # NoExec
  THEN IF InnerExecutor(f) = NoExec THEN "dispatch" ELSE "defer"
  ELSE "inline"
WayBack(f) ==
  IF f.callerExecutor # NoExec /\ f.executor # NoExec
  THEN IF InnerExecutor(f) = NoExec THEN "dispatch" ELSE "defer"
  ELSE IF InnerExecutor(f) # NoExec THEN "leave" ELSE "inline"

\* A promise finishes: final_awaitable::await_suspend
Final(t, k) ==
  /\ Running(t, k) /\ Len(stack[k]) > 1
  /\ UNCHANGED phase
  /\ \/ /\ WayBack(Top(k)) = "dispatch"
        /\ ending' = [ending EXCEPT ![k] = TRUE]
        /\ Dispatch(t, k, Top(k).callerExecutor)
        /\ UNCHANGED stack
     \/ /\ WayBack(Top(k)) = "defer"
        /\ ending' = [ending EXCEPT ![k] = TRUE]
        /\ Queue(t, k, Top(k).callerExecutor)
        /\ UNCHANGED stack
     \/ /\ WayBack(Top(k)) = "leave"
        /\ ending' = [ending EXCEPT ![k] = TRUE]
        /\ Queue(t, k, InnerExecutor(Top(k)))
        /\ UNCHANGED stack
     \/ /\ WayBack(Top(k)) = "inline"
        /\ stack' = [stack EXCEPT ![k] = Front(@)]
        /\ UNCHANGED <<ending, handler, state, thread>>

\* The detached coroutine finishes; it has no caller and frees its own frame.
Finish(t, k) ==
  /\ Running(t, k) /\ Len(stack[k]) = 1
  /\ phase' = [phase EXCEPT ![k] = "done"]
  /\ stack' = [stack EXCEPT ![k] = <<>>]
  /\ Leaves(t)
  /\ UNCHANGED <<ending, handler, state>>
-----------------------------------------------------------------------------
(* Threads and handlers. *)

Resume(t, k, strand) ==
  /\ stack' = [stack EXCEPT ![k] = Resumed(k)]
  /\ ending' = [ending EXCEPT ![k] = FALSE]
  /\ thread' = [thread EXCEPT ![t] = [chain |-> k, pc |-> "running", strand |-> strand]]

\* What resume_awaiting and resume_completed make of the state they replace.
AwaiterResumes(prev) == prev = "completed"
ResumesAlways(prev) == TRUE
HandlerResumes(prev) == prev = "awaiting"

\* The await_suspend that dispatched reaches resume_awaiting.
Exchange(t, k) ==
  /\ thread[t].chain = k /\ thread[t].pc = "awaiting"
  /\ state' = [state EXCEPT ![k] = "awaiting"]
  /\ IF AwaiterResumes(state[k])
     THEN Resume(t, k, thread[t].strand)
     ELSE /\ Leaves(t)
          /\ UNCHANGED <<stack, ending>>
  /\ UNCHANGED <<phase, handler>>

\* A thread takes the handler of chain k from its executor and runs it.
Take(t, k) ==
  LET e == handler[k].on
      strand == IF e \in AnyStrand THEN e ELSE NoExec
  IN  /\ thread[t] = Idle /\ handler[k].kind # "none"
      /\ ThreadOf[t] = ContextOf(e)
      /\ e \in AnyStrand => \A u \in Threads : thread[u].strand # e
      /\ handler' = [handler EXCEPT ![k] = NoHandler]
      /\ \/ /\ handler[k].kind = "resume"
            /\ Resume(t, k, strand)
            /\ UNCHANGED state
         \/ /\ handler[k].kind = "rendezvous"
            /\ state' = [state EXCEPT ![k] = "completed"]
            /\ IF HandlerResumes(state[k])
               THEN Resume(t, k, strand)
               ELSE /\ thread' = [thread EXCEPT ![t] =
                                    [chain |-> NoChain, pc |-> "leaving", strand |-> strand]]
                    /\ UNCHANGED <<stack, ending>>
      /\ UNCHANGED phase

\* The thread returns from the handler and gives up the strand.
Leave(t) ==
  /\ thread[t].pc = "leaving"
  /\ thread' = [thread EXCEPT ![t] = Idle]
  /\ UNCHANGED <<phase, stack, ending, handler, state>>

Next ==
  \E t \in Threads :
    \/ Leave(t)
    \/ \E k \in Chains :
         \/ Start(t, k)
         \/ \E e \in Executors : Post(t, k, e) \/ Defer(t, k, e) \/ DispatchTo(t, k, e)
         \/ \E c \in Contexts : AsyncWait(t, k, c)
         \/ Sleep(t, k) \/ Call(t, k)
         \/ Final(t, k)
         \/ Finish(t, k)
         \/ Exchange(t, k)
         \/ Take(t, k)

Spec == Init /\ [][Next]_vars
-----------------------------------------------------------------------------
InControl(k) == {t \in Threads : thread[t].chain = k /\ thread[t].pc \in {"running", "awaiting"}}

(* A chain has one point of control: a thread that runs it, or a queued    *)
(* handler that will, or a dispatch with exactly one of the two sides left *)
(* to resume it.  It is never run twice and never forgotten.               *)
OneControl ==
  \A k \in Chains :
    \/ /\ phase[k] # "live"
       /\ InControl(k) = {} /\ handler[k] = NoHandler
    \/ /\ phase[k] = "live"
       /\ \A t, u \in InControl(k) : t = u
       /\ \/ \E t \in InControl(k) : Running(t, k) /\ handler[k] = NoHandler
          \/ \E t \in InControl(k) :
               /\ thread[t].pc = "awaiting"
               /\ handler[k] = NoHandler <=> state[k] = "completed"
               /\ handler[k].kind # "resume" /\ state[k] # "awaiting"
          \/ InControl(k) = {} /\ handler[k].kind = "resume"
          \/ InControl(k) = {} /\ handler[k].kind = "rendezvous" /\ state[k] = "awaiting"

IsIn(t, e) == ThreadOf[t] = ContextOf(e) /\ (e \in AnyStrand => thread[t].strand = e)

RunsThere(t, k) ==
  Running(t, k) /\ GetExecutor(Top(k)) # NoExec => IsIn(t, GetExecutor(Top(k)))

RunsInNoOtherStrand(t, k) ==
  Running(t, k) => thread[t].strand \in {NoExec, GetExecutor(Top(k))}

(* A coroutine that has an executor, its own or that of a caller, runs     *)
(* there (dispatch.hpp: "continues execution there", and the comment in    *)
(* final_awaitable: the caller "is resumed on it's executor").             *)
RunsOnItsExecutor == \A t \in Threads, k \in Chains : RunsThere(t, k)

(* A coroutine runs in no strand but its own: a callee leaves its strand   *)
(* before its caller runs (promise_frame.hpp: "the callee must exit the    *)
(* strand before resuming the caller").                                    *)
LeavesForeignStrands == \A t \in Threads, k \in Chains : RunsInNoOtherStrand(t, k)

\* Chains that move by post or defer only, and whose promises move to strands.
Queued == {k \in Chains : Hops[k] \cap {"dispatch"} = {} /\ CalleeTargets[k] \subseteq Strands}

(* Chains that keep to queued hops do run on their executors, also when    *)
(* the executors and strands are shared with chains that do not.           *)
QueuedOnTheirExecutor == \A t \in Threads, k \in Queued : RunsThere(t, k)

(* And they leave a strand before the caller goes on.                      *)
QueuedLeaveStrands == \A t \in Threads, k \in Queued : RunsInNoOtherStrand(t, k)

\* A callee at its final suspension has ended, its frame is still there.
NotEnded(k) == Len(stack[k]) - (IF ending[k] THEN 1 ELSE 0)

Calls == INSTANCE Calling WITH
  begun <- {k \in Chains : phase[k] # "new"},
  depth <- [k \in Chains |-> NotEnded(k)],
  on <- [k \in Chains |-> {t \in Threads : Running(t, k)}]

(* However a chain moves, it implements Calling: a caller goes on only when *)
(* its callee has ended, a hop neither ends a coroutine nor loses one, and  *)
(* no thread runs two chains or one chain a thread already runs.            *)
KeepsCalls == Calls!Spec
=============================================================================
