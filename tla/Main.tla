-------------------------------- MODULE Main --------------------------------
(***************************************************************************)
(* The bootstrap of a program whose entry point is the coroutine co_main:  *)
(* detail::main resumes it, runs an io_context on every hardware thread    *)
(* until it co_returns, gives outstanding work a grace period, and returns *)
(* the exit code while the frame of co_main is destroyed.                  *)
(***************************************************************************)
EXTENDS Integers

CONSTANTS
  MainThread,
  Workers,     \* the threads detail::main starts, hardware_concurrency() - 1
  Foreign,     \* threads of other execution contexts of the program
  Works,       \* asynchronous work co_main starts besides itself
  NoThread,
  ReturnsAway  \* co_main may co_return on a thread of another context

Threads == {MainThread} \cup Workers \cup Foreign

ASSUME ThreadsAssumption ==
  /\ MainThread \notin Workers \cup Foreign /\ Workers \cap Foreign = {}
  /\ NoThread \notin Threads
  /\ ReturnsAway \in BOOLEAN

VARIABLES
  main,    \* where detail::main is
  worker,  \* the threads it started: inside io_context::run or not
  coro,    \* where co_main is, and the thread that runs it
  work,    \* where each piece of work is, and the thread that runs it
  stopped, \* io_context::stopped()
  guard,   \* promise_frame::work_ holds a value
  code,    \* promise_frame::code_ was set by co_return
  timeout  \* promise_frame::timeout_: "min" as constructed, "grace", or "over"

vars == <<main, worker, coro, work, stopped, guard, code, timeout>>

Place(states) == [at : states, on : Threads \cup {NoThread}]
Off(state) == [at |-> state, on |-> NoThread]
On(t, state) == [at |-> state, on |-> t]

TypeOK ==
  /\ main \in {"start", "resuming", "deciding", "running", "joining", "grace",
               "skipped", "returned"}
  /\ worker \in [Workers -> {"none", "running", "done"}]
  /\ coro \in Place({"new", "running", "waiting", "queued", "away", "returning", "final"})
  /\ work \in [Works -> Place({"none", "waiting", "queued", "running", "done"})]
  /\ stopped \in BOOLEAN /\ guard \in BOOLEAN /\ code \in BOOLEAN
  /\ timeout \in {"min", "grace", "over"}

Init ==
  /\ main = "start"
  /\ worker = [w \in Workers |-> "none"]
  /\ coro = Off("new")
  /\ work = [i \in Works |-> Off("none")]
  /\ stopped = FALSE
  /\ guard = FALSE
  /\ code = FALSE
  /\ timeout = "min"
-----------------------------------------------------------------------------
(* The io_context. *)

Busy(t) == coro.on = t \/ \E i \in Works : work[i].on = t

\* What keeps io_context::run from returning: the work guard, operations under
\* way and handlers.  A coroutine that is away has none of these on this context.
WorkLeft == \E i \in Works : work[i].at \in {"waiting", "queued", "running"}
OutstandingWork == guard \/ coro.at \in {"waiting", "queued"} \/ WorkLeft

\* A thread inside run, or the main thread inside run_for, may take a handler.
InRun(t) ==
  \/ t = MainThread /\ main = "running"
  \/ t \in Workers /\ worker[t] = "running"
MayTake(t) ==
  /\ ~Busy(t) /\ ~stopped
  /\ \/ InRun(t)
     \/ t = MainThread /\ main = "grace" /\ timeout = "grace"

TakeWork(t, i) ==
  /\ MayTake(t) /\ work[i].at = "queued"
  /\ work' = [work EXCEPT ![i] = On(t, "running")]
  /\ UNCHANGED <<main, worker, coro, stopped, guard, code, timeout>>

\* The handler ends, or waits for another operation before it does.
WorkEnds(t, i) ==
  /\ work[i] = On(t, "running")
  /\ work' = [work EXCEPT ![i] = Off("done")]
  /\ UNCHANGED <<main, worker, coro, stopped, guard, code, timeout>>

WorkWaits(t, i) ==
  /\ work[i] = On(t, "running")
  /\ work' = [work EXCEPT ![i] = Off("waiting")]
  /\ UNCHANGED <<main, worker, coro, stopped, guard, code, timeout>>

WorkReady(i) ==
  /\ work[i].at = "waiting"
  /\ work' = [work EXCEPT ![i] = Off("queued")]
  /\ UNCHANGED <<main, worker, coro, stopped, guard, code, timeout>>

\* A context that runs out of work stops itself.
OutOfWork ==
  /\ main = "grace" \/ \E t \in Threads : InRun(t)
  /\ ~stopped /\ ~OutstandingWork
  /\ stopped' = TRUE
  /\ UNCHANGED <<main, worker, coro, work, guard, code, timeout>>
-----------------------------------------------------------------------------
(* The coroutine co_main. *)

CoroRuns(t) == coro = On(t, "running")

CoroStartsWork(t, i) ==
  /\ CoroRuns(t) /\ work[i].at = "none"
  /\ work' = [work EXCEPT ![i] = Off("waiting")]
  /\ UNCHANGED <<main, worker, coro, stopped, guard, code, timeout>>

\* co_await of an operation of this context, or of another one
CoroWaits(t) ==
  /\ CoroRuns(t)
  /\ coro' = Off("waiting")
  /\ UNCHANGED <<main, worker, work, stopped, guard, code, timeout>>

CoroGoesAway(t) ==
  /\ CoroRuns(t) /\ Foreign # {}
  /\ coro' = Off("away")
  /\ UNCHANGED <<main, worker, work, stopped, guard, code, timeout>>

CoroReady ==
  /\ coro.at \in {"waiting", "away"}
  /\ coro' = Off("queued")
  /\ UNCHANGED <<main, worker, work, stopped, guard, code, timeout>>

TakeCoro(t) ==
  /\ MayTake(t) /\ coro.at = "queued"
  /\ coro' = On(t, "running")
  /\ UNCHANGED <<main, worker, work, stopped, guard, code, timeout>>

ForeignTakes(t) ==
  /\ t \in Foreign /\ coro.at = "away"
  /\ coro' = On(t, "running")
  /\ UNCHANGED <<main, worker, work, stopped, guard, code, timeout>>

\* return_value sets the code and the timeout, stops the context, then drops
\* the work guard; final_suspend follows.
StopForgotten == stopped
StopCalled == TRUE

CoReturn(t, grace) ==
  /\ CoroRuns(t) /\ (t \in Foreign => ReturnsAway)
  /\ coro' = On(t, "returning")
  /\ code' = TRUE
  /\ timeout' = IF grace THEN "grace" ELSE timeout
  /\ stopped' = StopCalled
  /\ UNCHANGED <<main, worker, work, guard>>

FinalSuspend(t) ==
  /\ coro = On(t, "returning")
  /\ coro' = Off("final")
  /\ guard' = FALSE
  /\ UNCHANGED <<main, worker, work, stopped, code, timeout>>
-----------------------------------------------------------------------------
(* detail::main and the threads it starts. *)

GuardForgotten == FALSE
GuardTaken == TRUE

Resume ==
  /\ main = "start"
  /\ main' = "resuming"
  /\ guard' = GuardTaken
  /\ coro' = On(MainThread, "running")
  /\ UNCHANGED <<worker, work, stopped, code, timeout>>

\* coro.resume() returns: the coroutine has left this thread.
Resumed ==
  /\ main = "resuming" /\ ~Busy(MainThread)
  /\ main' = "deciding"
  /\ UNCHANGED <<worker, coro, work, stopped, guard, code, timeout>>

\* if (!ioc.stopped())
Skip ==
  /\ main = "deciding" /\ stopped
  /\ main' = "skipped"
  /\ UNCHANGED <<worker, coro, work, stopped, guard, code, timeout>>

StartThreads ==
  /\ main = "deciding" /\ ~stopped
  /\ main' = "running"
  /\ worker' = [w \in Workers |-> "running"]
  /\ UNCHANGED <<coro, work, stopped, guard, code, timeout>>

RunReturns(t) == InRun(t) /\ ~Busy(t) /\ stopped

WorkerReturns(t) ==
  /\ t \in Workers /\ RunReturns(t)
  /\ worker' = [worker EXCEPT ![t] = "done"]
  /\ UNCHANGED <<main, coro, work, stopped, guard, code, timeout>>

MainRunReturns ==
  /\ RunReturns(MainThread)
  /\ main' = "joining"
  /\ UNCHANGED <<worker, coro, work, stopped, guard, code, timeout>>

\* The threads are joined, the context is restarted, and run_for begins.
NotJoined == TRUE
Joined == \A w \in Workers : worker[w] = "done"
NotRestarted == stopped
Restarted == FALSE

Join ==
  /\ main = "joining" /\ Joined
  /\ main' = "grace"
  /\ stopped' = Restarted
  /\ UNCHANGED <<worker, coro, work, guard, code, timeout>>

TimeoutExpires ==
  /\ main = "grace" /\ timeout = "grace"
  /\ timeout' = "over"
  /\ UNCHANGED <<main, worker, coro, work, stopped, guard, code>>

\* run_for returns, code() is read, and ~main destroys the frame of co_main.
Return ==
  /\ main = "grace" /\ ~Busy(MainThread)
  /\ stopped \/ timeout # "grace"
  /\ main' = "returned"
  /\ UNCHANGED <<worker, coro, work, stopped, guard, code, timeout>>

\* The program ends with detail::main; other threads may run on until it does.
Next ==
  \/ Resume \/ Resumed \/ Skip \/ StartThreads \/ MainRunReturns \/ Join
  \/ TimeoutExpires \/ Return \/ OutOfWork \/ CoroReady
  \/ \E i \in Works : WorkReady(i)
  \/ \E t \in Threads :
       \/ CoroWaits(t) \/ CoroGoesAway(t) \/ TakeCoro(t) \/ ForeignTakes(t)
       \/ \E grace \in BOOLEAN : CoReturn(t, grace)
       \/ FinalSuspend(t) \/ WorkerReturns(t)
       \/ \E i \in Works : TakeWork(t, i) \/ WorkEnds(t, i) \/ WorkWaits(t, i)
                           \/ CoroStartsWork(t, i)

Spec == Init /\ [][Next]_vars

\* Threads run, handlers return in the end, and time passes.  Nothing makes an
\* operation finish or co_main return.
FairSpec ==
  /\ Spec
  /\ WF_vars(Resume) /\ WF_vars(Resumed) /\ WF_vars(Skip) /\ WF_vars(StartThreads)
  /\ WF_vars(MainRunReturns) /\ WF_vars(Join) /\ WF_vars(Return)
  /\ WF_vars(OutOfWork) /\ WF_vars(TimeoutExpires)
  /\ \A t \in Threads :
       /\ WF_vars(FinalSuspend(t)) /\ WF_vars(WorkerReturns(t))
       /\ \A i \in Works : WF_vars(WorkEnds(t, i) \/ WorkWaits(t, i))
-----------------------------------------------------------------------------
\* detail::main has read code() and ~main has destroyed the frame of co_main.
Ended == main \in {"skipped", "returned"}

(* The exit code is the one co_main returned: detail::main never gets past *)
(* the run loop on an io_context that merely ran out of work while co_main *)
(* waited for another context.                                             *)
CodeReturned == Ended => code

(* The frame of co_main is destroyed only once it rests at its final       *)
(* suspension and no thread is inside it or inside run (main.hpp: the      *)
(* context runs "on all threads until the coroutine completes").           *)
DestroyedAtRest ==
  Ended => coro = Off("final") /\ \A w \in Workers : worker[w] # "running"

(* A program that entered the run loop gives the grace period co_main      *)
(* asked for: it returns before the end of it only if no work is left.     *)
GraceKept == main = "returned" /\ timeout = "grace" => ~WorkLeft

(* Once co_main returned, so does the program, whatever work never ends.   *)
Terminates == coro.at = "returning" ~> Ended
=============================================================================
