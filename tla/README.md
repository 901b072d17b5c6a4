# TLA+ models of webasio

webasio is a C++20 library of coroutines on Boost.Asio. This directory holds
TLA+ modules of its parts, TLC instances that check them, and TLAPS proofs
of what must hold for every size. References such as `main.hpp:134` are to
`src/inc/webasio/` (`coro/`, `coro/detail/` and `net/ip/` left out).

## 1. Inventory

| component | state it keeps | operations | interacts with | what is hard | what makes it correct |
|---|---|---|---|---|---|
| resume context and awaitables (`resume_context.hpp`, `completion_handler.hpp`, `deferred_awaitable.hpp`, `timer_awaitable.hpp`) | one atomic state per suspension, the result, `shared_this` of the frame | `await_suspend`, handler call, handler destructor | Asio calls or destroys the handler on any thread | awaiter and handler race; the owner dies meanwhile | resumed or destroyed exactly once, result first, owner alive while the coroutine runs |
| promise frames, hops, sleep (`promise_frame.hpp`, `post.hpp`, `defer.hpp`, `dispatch.hpp`, `dispatch_handler.hpp`, `sleep.hpp`) | `executor`, `inner_executor`, `caller_executor`, `caller`, the timer of a frame | call, final suspension, `post`/`defer`/`dispatch`, asynchronous wait, sleep | resume context, Asio executors | the chain changes thread while an `await_suspend` still runs | one point of control per chain, each coroutine on its executor, no foreign strand |
| ownership of frames (`unique_handle.hpp`, `promise.hpp`, `detached.hpp`, `await.hpp`, `outcome.hpp`) | the handles in promise objects, in `caller`, in handlers and trampolines; the outcome | create, start, call, `await`, suspend, complete, drop, finish | frames and handlers | handlers destroyed unrun; a frame that owns the frame that waits for it | every suspended frame held once, a result there when it is read, nothing forgotten |
| memory cache (`memory_cache.hpp`) | per thread, 128 buckets of 16 entries | `alloc`, `free`, thread exit | frames and handlers, freed on any thread | cross-thread frees, `size_t` wrap-around | no block in two places, requests fit, nothing leaks |
| entry point (`main.hpp`) | `io_context`, threads, work guard, code and timeout in the frame of `co_main` | `detail::main`, `return_value` | every thread of the program | a coroutine stops the context it runs on | right exit code, frame destroyed at rest, grace period kept, termination |
| cancellation (`cancellation.hpp`) | registry of child signals, slot and state of frames | join, leave, slot and state of a frame, emit, emit through an executor | slots of operations, nested frames | emission against membership and lifetime; callees that put their state over that of a caller | every member reached, no dead signal touched, a wait reached through every frame |
| cancellation proxy (`asio/cancellation_proxy.hpp`) | parent slot, shared signal | construct, move, reset, emit | parent slot, executor of the operation | late emissions, moves | emissions reach the live operation only |
| stream (`stream.hpp`) | the TLS engine, the deadline of the socket | handshake, shutdown, read, write, upgrade, downgrade, `expires_*` | Asio and Beast layers | the mode changes while operations are made, not yet initiated, or between two pieces | operations on the living engine, what begins under TLS goes through it, a reported handshake secured something |
| logger (`logger.hpp`, `logger.cpp`) | one atomic level | write a record | none | nothing | not modelled |
| executor and slot getters, yield macro, `assert`, `cast`, `stddef`, `scoped_final` | none | | | | getters are operators of `Frames` and `Cancellation`; the rest is not modelled |

`PROJECT.json` lists every part with its status, and every hazard with the
properties that would catch it or why none does.

## 2. Modules

* `Suspension`: what an awaitable promises: one resumption after completion,
  or one destruction because the operation was abandoned or the owner is gone.
* `ResumeContext`: how it is kept. A coroutine has an awaiter (`awaiter`), a
  handler (`handler`) and the atomic `state`; each action is the code between
  two points another thread can see: the initiation (`Await`), the move of
  `shared_this` (`MoveShared`), the exchange of the awaiter (`ResumeAwaiting`),
  the storing of the result (`HandlerInvoke`), the exchange of the handler
  (`ResumeCompleted`, or `HandlerDrop` in its destructor), the locking of the
  owner (`RestoreSharedThis`) and the resumption or destruction by either.
  A handler destroyed unrun exchanges too (`DestroyHandler`), whether Asio
  drops it or an initiation that throws unwinds it (`InitiationThrows`).
  `lingering` counts threads that lost the exchange and still hold
  `saved_shared_this` until they return. `kind` tells the awaitables that move
  `shared_this` (deferred, timer) from those that do not (dispatch). `ext` is
  the program's own reference to an owner.
* `Calling`: what calling and moving promise. The innermost coroutine of a
  chain runs alone, on one thread at a time; its caller goes on when it has
  ended and not before, on the same thread or another; a chain ends once.
* `Frames`: how it is kept. `stack` holds, for each frame, its executor, its
  caller's, and that of its timer; `handler` the queued handler of the chain,
  `thread` the chain a thread runs and the strand it holds. `Final` is
  `final_awaitable`, with its four ways back (`WayBack`); `RunsInline` is when
  Asio's dispatch runs a handler at once. `Sleep` waits on a timer that was
  made on the executor the frame had at its first sleep, and comes back where
  `WhereSleepEnds` says: on the executor the frame has now, which the
  completion handler is bound to. Strands are of two kinds: those with
  `get_inner_executor` and those hidden in an `any_io_executor` (`Erased`).
* `Awaiting`: what awaiting promises. Started coroutines form chains; one that
  returns leaves as the one that awaits it goes on, one that is abandoned
  leaves together with all that wait for it and no other.
* `Ownership`: how it is kept. `at` is where each frame is, `caller`, `body`,
  `token` and `handler` are the places a `unique_handle` can lie in: the frame
  a callee will resume, promise objects and deferred operations of running
  code, the handler in the trampoline of `await()`, a handler Asio has.
  Destroying a frame makes the frames it holds `dying` (`Release`), so a chain
  of destructors is one step per frame and other threads act in between.
  `Finish` stores the outcome and hands control back inline or through a
  handler; `AwaitResume`, `Deliver` and `TrampolineEnds` take the result and
  destroy the callee. `lost` records callees whose way back was destroyed.
* `Cancellation`: a task is a coroutine with its own signal of a multicast
  group, its frames and the operation it waits for. Signals form a chain:
  level 0 is the task's own, level `d` that of the cancellation state of frame
  `d`; `handler` says what each calls, so `Emplace` in a slot destroys what
  hung there, and `Reached`, the union of all sets of levels in which each is
  called by one before it, is where an emission arrives. `GetSlot` and
  `CalleeSlot` are the choices of `promise_frame`, `Reset`, `ResetWithSlot` and
  `InstallSlot` the awaitables of `cancellation.hpp`, which any frame may use,
  `RequestGroup`, `RequestOne` and `RunEmission` the emissions through an
  executor. A callee that names the slot of the signal puts its state, or its
  operation, over the states of its callers. `intact` remembers the first
  frame that no callee did this to; slots of the frames before it may dangle,
  and `Found` is what putting a handler into such a slot can come to. An
  operation is `plain`, or behind a proxy that stayed where it was constructed
  (`kept`) or was moved (`moved`); `requests` holds what the handler of a proxy
  dispatched.
* `Stream`: an operation remembers when it was made and what it is on. `Call`
  makes it, `Initiate` chooses the layer, `Continue` chooses anew for the next
  piece of a composed transfer. `Upgrade` and `Downgrade` replace the engine
  under `MayChangeMode`, which is the duty of the program: nothing is pending
  on the engine that goes, and no handshake or shutdown is under way. A plain
  read or write may go on through the change, its next piece in the new mode.
* `MemoryCache`: entries of every thread, blocks allocated and in use, the
  size each was got with and asked for; sizes are numbers below `Word`.
* `Main`: `detail::main` as a program counter, the workers, where `co_main`
  and each other piece of work are, the context's stop flag and the guard.
* `*Proofs`: the theorems about the module of that name; `AwaitingProofs` has
  the refinement of `Awaiting` by `Ownership`, and `FramesProofs` that of
  `Calling` by `Frames`.
* `MC*`: constants for TLC.

`ResumeContext` implements `Suspension` by the refinement mapping `Promise`,
`Frames` implements `Calling` by `Calls`, where a callee counts as ended from
its final suspension on, although its frame is destroyed only when the caller
goes on, and `Ownership` implements `Awaiting` by `Contract`: a coroutine is in the
chain while it is `Live` and waits for `WaitsFor`, which looks through the
trampoline of an `await()`. `Frames` and `Ownership` look at the same code from
two sides: `Frames` follows control and never destroys a handler unrun,
`Ownership` forgets threads and executors and lets any handler run or be
destroyed. `Frames` uses the hand-off of `ResumeContext` in the form it has for
hops: the state of one dispatch, exchanged by both sides.

## 3. Runs

| run | shows | bounds |
|---|---|---|
| `resume_handoff` | exactly one side resumes or destroys, no lost wakeup, result first, owner rules, refinement; a finished operation settles its coroutine, and an owner the program lets go of dies unless something runs that holds it | two coroutines of one owner, two lingering threads each: enough for one coroutine to lock the owner another still holds; any number of suspensions. Coroutines without an owner are left to the proofs |
| `frames_control` | a chain is never run twice and never forgotten; refinement of `Calling`; one that hops by post, defer and sleep, and whose promises move only to strands, runs on its executors and leaves strands | chain `any` two frames deep, with post and dispatch and callees that go to either kind of strand; chain `queued` three deep, so that a link passes through a frame without executor, with defer and sleep on two root executors, so that a timer can belong to one the frame has left; two contexts, three threads, of which the two of one context are symmetric. 740 000 states |
| `ownership` | one owner per suspended frame, results there when read, nothing forgotten but behind a destroyed handler; coroutines never wait in a circle or for one that is gone, so that every chain ends in one that runs, has ended or waits for an operation; refinement of `Awaiting` | four frame blocks, which are reused: a caller, a trampoline, a callee and one more that calls or is called in turn; any number of calls in sequence |
| `cancellation` | states stay alive, a task's signal reaches the operation it waits for, aborts are recorded and strike the right operation, an emission a waiting task heard is not lost on its way to the strand of the operation, queued emissions reach the members and end their waits; of the frames before a callee that took the slot of the signal nothing is claimed | two tasks, one with a callee and every kind of operation, one that waits for plain ones; a callee is enough for a state, a slot or an operation put over that of a caller; one queued emission besides any number made on home. 470 000 states |
| `memory_cache` | no aliasing, requests fit, no leak | two threads, two buckets of two entries, four blocks: full buckets, misses, cross frees; sizes at both ends of a bucket, zero, oversize, and one that wraps |
| `main_loop` | code, frame at rest, grace, termination | two workers, a foreign thread, two pieces of work |
| `stream` | operations on the living engine, what begins under TLS goes through it, handshakes worth their report, deadlines kept | a reader, a writer and a control task that changes the mode; two engines that alternate, so that an old one and its successor differ; the stream starts in either mode |
| `dispatch_elsewhere`, `final_elsewhere`, `erased_strand`, `owner_while_suspended`, `main_away` | five places where code and its documentation disagree, below | instances with a single weakness |

Deadlock is checked where the system never stops (`memory_cache`,
`cancellation`, `ownership`, `stream`). It is not in the others: there
coroutines finish, threads return, and nothing is left to do.

Disagreements found while modelling, each shown by a run:

1. `co_await dispatch(strand)` may go on outside the strand
   (`dispatch.hpp:30-31`): a handler that runs inside `dispatch` only records
   completion, and the coroutine resumes after the strand was left.
2. A caller may be resumed on the callee's context (`promise_frame.hpp:163`)
   when the final handler runs before the exchange.
3. A strand inside an `any_io_executor` is not left before the caller goes on
   (`promise_frame.hpp:164`).
4. `shared_this` does not keep the owning object alive across suspension
   (`promise_frame.hpp:89-90`): the awaitables move it out when they suspend,
   and the handler has a weak reference (`completion_handler.hpp:29-32`). What
   follows when the owner is gone is sound, and proved: the handler finds out
   and destroys the coroutine.
5. A `co_return` on a thread of another context lets `detail::main` destroy
   the frame under it (`main.hpp:35-36` against `main.hpp:60`).

Because of 1 to 3, `QueuedOnTheirExecutor` and `QueuedLeaveStrands` state where
a coroutine runs for chains that avoid them, next to one that does not;
`main_loop` likewise lets `co_main` go to other contexts but not return there.

Remarks from reading that no run is spent on: a callee whose wait is cancelled
does not see it with `co_await cancelled` (`sleep.hpp:34-36`), because it
inherits the slot of its caller and not the state, unless it establishes a
state first, as `cancellation.hpp:241-243` asks. A `co_return` before the first
suspension gets no grace period (`main.hpp:39-41` against `main.hpp:134`).
Moving an unset `outcome` leaves its `what_` uninitialised (`outcome.hpp:177`);
the outcomes the library passes on are set (`CalleeAlive`). The table of level names lacks a
comma after `"NOTICE"` (`src/src/logger.cpp:30`), `notice()` calls itself
(`src/inc/webasio/logger.hpp:82`), and the system log is handed
the threshold instead of the level of the record (`src/src/logger.cpp:112`).

### Fairness

`FairSpec` of `ResumeContext` assumes that a thread inside `await_suspend` or
inside a handler takes its next step; that is what the operating system gives.
Nothing assumes that an operation completes or that the program drops an
owner. `FairSpec` of `Main` assumes that threads run, that handlers of the
program return or wait, and that time passes; not that operations finish or
that `co_main` returns. `FairSpec` of `Cancellation` assumes that the home
executor and the strands of operations run what is queued on them, and not
that an operation ever ends by itself. `FairSpec` of `Stream` assumes that an
immediate completion is run, that a deadline passes and its timeout fires, and
that a closed socket fails what is on it; the peer owes nothing. `Frames`,
`Ownership` and `MemoryCache` have safety only.

## 4. Proofs

`ResumeContextProofs`, for any coroutines, owners and `MaxLinger`. None of the
properties is inductive: that a settled coroutine is left alone depends on the
four states meaning which side was there first. `IInv` says, per coroutine, in
`Rendezvous` which pairs of places awaiter and handler can be in for each value
of `state`, in `Results` when the result is stored, in `References` who holds
the strong reference, and across coroutines in `Orphaned` that a completed
coroutine is being destroyed only for an owner that is dead, which no step
revives. Each action is shown to keep the part of its own coroutine and to
leave the others untouched. From `IInv` follow the safety properties, and step
by step the refinement of `Suspension`.

`FramesProofs`, for any chains, threads, executors and depth, in two layers.
The first, `IInv`, follows control: `Working` says what a thread can be at,
`Controlled` where the one point of control of a chain is, `Stacked` how its
frames are stored; an action works for one chain, and the lemmas on stacks say
what it leaves of it. `TypeOK` and `OneControl` follow. The second, `AtHome`,
is about chains of `Queued` only: `Linked` relates the executor of a frame to
the one its callee remembers, `Sent` says that the queued handler is on the
executor the chain will have when it runs, `Resident` that the thread which
runs the chain is there. It needs the first layer, because a step of another
chain must not be a step of this one, and gives the two properties on places.
The refinement of `Calling` needs the first layer only: a step shows at one
chain and one thread (`Shows`), and each action is one step of `Calling`
there, or none. What carries it is that whoever resumes a chain finds nobody
who runs it, and that a frame is popped only while `ending`.

`OwnershipProofs`, for any number of frames. `OneOwner` alone is not inductive:
`HandlesOK` says which handles each place allows, `BodyOK` and `Unshared` that
no frame is in two of them, `HeldOK` that a suspended one is in one, `FrameOK`
and `WaitOK` what callee and result a frame that waits will find, and `FinalOK`
that a callee at rest is awaited or lost. The step that needs most is
`Release`: the frames that begin to die were held by nobody else.

`AwaitingProofs`, for any number of frames: `Ownership` implements `Awaiting`.
`RInv` adds to `IInv` what frames leave behind: one that waits for nobody has
forgotten the callee it had, and the trampoline of an `await()` never runs or
waits itself. `Doomed`, the frames that die or will die with one that does, is
the least set closed under ownership (`DoomedLeast`), so that what a step adds
to it can be bounded by any closed set (`DoomedGrows`). `WhoWaits` and
`CalleeLives` say that frames wait in chains, the trampolines between them
left out. Then each action is one step of `Awaiting`, or `Invisible`: it moves
handles or destroys what was doomed already. Most work is in abandoning
(`AbandonStep`): frames that own one another from the dropped one on hold
exactly the coroutines that wait for it, because the
handles a suspended frame holds are that of the frame that awaits it and those
of promises that were never started. In the end
`NoStandstill` is proved on the steps of the contract alone (`BeginChains`,
`CallChains`, `ReturnChains`, `AbandonChains`) and carried over.

`CancellationProofs`, for any tasks, depths and queue. The registry is exactly
the set of living signals (`RegistryOK`), and a queued emission that captured
no registry was requested without members (`QueueOK`); `Emissions` follows.
The second part, `TInv`, is per task, for frames that use slots and states as
they like. `LinksOK` holds of every frame: its slot is that of the task or of a
state before it. `ChainOK` holds of the frames from the last one that named the
slot of the signal over its callers' states (`Sound`): the slot is that of the
last sound state before it, and it calls the state of the frame, if it has one.
`SignalsOK` says what each level can call; `WaitOK` what a wait hangs on and
which signals reached it; `RequestsOK` that a request of a proxy was made while
its operation was under way. `ChainOK` is what makes emplacing safe: what hung
in a slot that is emplaced belongs to no sound frame that is left. `LinksOK` is
needed because a frame without states before it is sound again, whatever its
callees did. `Connected` and `HeardIsOnItsWay`
follow: an emission calls every listening task that it reaches
(`ListenersReached`), it ends their wait or leaves a request that is current
(`EmissionHeard`), and that stays queued until the wait is over
(`StillHeard`).

`StreamProofs`, for any tasks and engines: `Placed` relates the layer of an
operation to the mode, and together with `SecureWhenTold` is inductive.

`MemoryCacheProofs`, for any threads, blocks, buckets, entries, word size and
sizes: `IInv` adds that a cached block has the size of its bucket (`CachedFit`)
and that a block in use has the size of the bucket it will be freed to
(`UsedFit`). `BucketFits` is the arithmetic: a bucket's size is never smaller
than a request of it, wrap-around included.

`MainProofs`, for any numbers of threads and works: `ExitCode` rests on the
guard being held until the final suspension; `FrameAtRest` assumes
`~ReturnsAway` and rests on who can be inside `co_main` (`Hosted`) and on the
join (`EndedEarly`, `AtRest`); `Graceful` on the context, restarted after the
join, stopping again only for want of work (`GraceInv`).

The assumptions are the named `ASSUME`s on constants, which TLC evaluates.
Every safety property of the passing runs, the refinements included, is
proved. Only model-checked are the liveness properties (`Settles`,
`UnheldOwnerDies`, `Terminates`, `RequestEndsWait`, `EndsInTime`): they rest on
fairness, and the prover knows nothing of `ENABLED`.

## 5. Abstractions and what is not modelled

* Values and allocators of operations are left out; of a result only what
  `outcome` holds remains, and in `ResumeContext` only whether it was stored.
* Memory order is taken as sequentially consistent, as the default order of
  `std::atomic::exchange` gives. `Frames` starts chains on idle threads only.
* Asio, Beast and OpenSSL are external: executors, strands,
  `io_context::run`, `operator new`, `std::shared_ptr` and the layers of a
  stream are modelled by what webasio relies on.
* `Ownership`: an operation either runs its handler or destroys it. Assigning
  to a `unique_handle` that holds a frame would leak it (`unique_handle.hpp:48`)
  and happens nowhere. The lifetimes inside the union of `outcome` belong to
  one object on one thread and are left to its tests.
* `Cancellation` has one cancellation type, `terminal`, which is what `emit`
  sends and what a state lets through by default. The overloads of
  `reset_cancellation_state` with filters are mapped without their filters;
  those without a slot name `reset_cancellation_state_t<void, ...>`, whose
  specializations have a member of type `void` or do not exist. Group, members
  and signals are used on one executor: the code has no lock, and an emission
  that iterates on one thread while a member leaves on another
  (`cancellation.hpp:111`) is outside the model. Between any two awaits of a
  task other handlers of home may run, as if it had posted itself in between.
  A task keeps its signal while an emission holds a pointer to it
  (`cancellation.hpp:69`). Moving a proxy (`cancellation_proxy.hpp:49`) cuts
  its operation off, because the moved-from proxy clears the slot; the
  properties about reaching an operation leave such operations out. A handler
  left in a slot by a finished operation (`completion_handler.hpp:61`) is
  taken to do nothing. A callee that names the slot of the signal
  (`cancellation.hpp:319-328, 340-349`) destroys the state of its caller, which
  after the return uses the slot of a signal that is gone. It is the program
  that must not do so, or not wait in the caller again without naming the slot
  anew; the model has it, takes what is put there to be heard by nothing or by
  another signal of the task, and leaves out what else the memory may hold.
  Frames name the slot of the task's signal and no other.
* `Stream`: buffers and the content of records are left out, and closing the
  socket other than by a timeout. One flag says whether a deadline is set, and
  each next piece of an operation is under it; Beast starts the timer of a
  direction when a piece begins and does not move it while the piece is
  pending, which no property tells apart. `MayChangeMode` is the duty of the
  program; nothing is checked of one that replaces an engine in use.
* `MemoryCache` ends a thread in one step; a cache that its thread uses after
  its destructor (`memory_cache.hpp:63`) is not modelled. `Main` has no
  exceptions, and only `co_return` or running out of work stops its context
  (`main.hpp:108`); the number of workers is given (`main.hpp:137`).
* How long a program keeps the reference that `co_await executor` returns
  (`executor.hpp:40`) is up to the program.
* Not modelled at all: the logger, whose level is one atomic that every call
  reads alone and which no other part depends on; the yield macro, which is a
  switch in user code; `assert`, `cast`, `stddef` and `scoped_final`, which are
  sequential helpers of a few lines; the tests, the example and the build.

## 6. What could come next

1. The abstract form of `Cancellation`, "a request ends the wait it was made
   for or finds it over", and its refinement.
2. Control and ownership in one module: `Frames` with handlers destroyed unrun
   while their executor goes away, under the stop of `Main`.
3. Filters of cancellation types, once the overloads that take them compile.
