---------------------------- MODULE Cancellation ----------------------------
(***************************************************************************)
(* Cancellation from a multicast group down to an operation.  A task is a  *)
(* coroutine with a multicast_cancellation_signal of its own, the promises *)
(* it awaits, and the operation it waits for.  The signal has level 0; the *)
(* cancellation state of frame d, which lives as a handler in the slot of  *)
(* the frame, has a signal of its own at level d.  Tasks, group and        *)
(* signals are used on one executor, home; an operation behind a           *)
(* cancellation_proxy has a strand of its own; other threads only request  *)
(* emissions.  One cancellation type, terminal, the default of emit and    *)
(* the one that the states let through.                                    *)
(***************************************************************************)
EXTENDS Integers, Sequences, SequencesExt, FiniteSets

CONSTANTS
  Tasks,
  Depth,     \* bound: frames of each task
  Waits,     \* kinds of operations each task awaits
  MaxQueue   \* bound: emissions queued on home

Kinds == {"plain", "kept", "moved"}

ASSUME TasksAssumption == {"registry", "nothing"} \cap Tasks = {}
ASSUME DepthAssumption == Depth \in [Tasks -> Nat \ {0}]
ASSUME WaitsAssumption == Waits \in [Tasks -> SUBSET Kinds]
ASSUME MaxQueueAssumption == MaxQueue \in Nat

NoSlot == -1
Levels(t) == 0 .. Depth[t]

VARIABLES
  registry,  \* the members of the group
  created,   \* the group has a registry
  queue,     \* emissions queued on home, with the members at the request
  phase,     \* where a task is
  frames,    \* its frames, the root first: cancellation slot, has a state
  handler,   \* what the signal of each level calls
  cancelled, \* what the state of each frame recorded
  wait,      \* the operation it waits for, or last waited for
  requests,  \* proxied cancellations queued on the strand of the operation
  intact     \* history: a callee may have replaced the states of frames before this one

vars == <<registry, created, queue, phase, frames, handler, cancelled, wait, requests, intact>>
taskVars == <<registry, created, phase, frames, handler, cancelled, wait, requests, intact>>

Emission == [via : {"registry", "nothing"} \cup Tasks, members : SUBSET Tasks]
Nothing == [kind |-> "none", frame |-> 0]
StateOf(d) == [kind |-> "state", frame |-> d]
Operation == [kind |-> "op", frame |-> 0]
Proxy == [kind |-> "proxy", frame |-> 0]
NoWait == [kind |-> "none", at |-> NoSlot, result |-> "none", emitted |-> FALSE]

TypeOK ==
  /\ registry \subseteq Tasks
  /\ created \in BOOLEAN /\ (registry # {} => created)
  /\ Len(queue) <= MaxQueue
  /\ \A i \in 1 .. Len(queue) :
       queue[i] \in Emission
  /\ phase \in [Tasks -> {"out", "running", "waiting", "completing"}]
  /\ \A t \in Tasks :
       /\ Len(frames[t]) <= Depth[t] /\ (phase[t] = "out" <=> frames[t] = <<>>)
       /\ \A d \in 1 .. Len(frames[t]) :
            /\ frames[t][d] \in [slot : Levels(t) \cup {NoSlot}, state : BOOLEAN]
            /\ frames[t][d].state => frames[t][d].slot # NoSlot
       /\ handler[t] \in [Levels(t) -> {Nothing, Operation, Proxy} \cup {StateOf(d) : d \in 1 .. Depth[t]}]
       /\ cancelled[t] \in [1 .. Depth[t] -> BOOLEAN]
       /\ wait[t] \in [kind : Kinds \cup {"none"}, at : Levels(t) \cup {NoSlot},
                       result : {"none", "value", "aborted"}, emitted : BOOLEAN]
       /\ requests[t] \subseteq {"current", "stale"}
       /\ intact[t] \in 1 .. Depth[t] + 1

Init ==
  /\ registry = {} /\ created = FALSE /\ queue = <<>>
  /\ phase = [t \in Tasks |-> "out"]
  /\ frames = [t \in Tasks |-> <<>>]
  /\ handler = [t \in Tasks |-> [l \in Levels(t) |-> Nothing]]
  /\ cancelled = [t \in Tasks |-> [d \in 1 .. Depth[t] |-> FALSE]]
  /\ wait = [t \in Tasks |-> NoWait]
  /\ requests = [t \in Tasks |-> {}]
  /\ intact = [t \in Tasks |-> 1]
-----------------------------------------------------------------------------
(* Slots and states. *)

\* A new handler in a slot destroys the old one, and with a state its signal
\* and all that hangs on it.  A slot that is not connected takes none.
Emplace(t, slot, h) ==
  IF slot = NoSlot
  THEN UNCHANGED <<handler, cancelled>>
  ELSE /\ handler' = [handler EXCEPT ![t] =
            [l \in Levels(t) |-> IF l < slot THEN @[l] ELSE IF l = slot THEN h ELSE Nothing]]
       /\ cancelled' = [cancelled EXCEPT ![t] =
            [d \in 1 .. Depth[t] |-> @[d] /\ d <= slot]]

\* The levels an emission of the signal of t arrives at: each but the first is
\* that of a state in the slot of one before it.
Reached(t) ==
  UNION {S \in SUBSET Levels(t) :
           \A l \in S \ {0} : \E s \in S : s < l /\ handler[t][s] = StateOf(l)}

\* A slot as it is found.  That of a signal destroyed with its state is a
\* dangling pointer: nothing hears what is put there, or another signal that
\* has its memory now.
Found(t, slot) ==
  IF slot \in Reached(t) \cup {NoSlot} THEN {slot} ELSE Reached(t) \cup {NoSlot}

Current(t) == Last(frames[t])
Here(t) == Len(frames[t])
CallerHasState(t) == \E d \in 1 .. Here(t) - 1 : frames[t][d].state

\* promise_frame::get_cancellation_slot: that of the state, else its own.
OwnSlot(t) == Current(t).slot
GetSlot(t) == IF Current(t).state THEN Here(t) ELSE Current(t).slot

\* co_await cancelled in frame d
SeenCancelled(t, d) == frames[t][d].state /\ cancelled[t][d]

\* boost::asio::cancellation_state{slot}
AlwaysHasState(slot) == TRUE
HasState(slot) == slot # NoSlot

\* frame.cancellation_state = cancellation_state{frame.cancellation_slot}
ResetState(t, slot) ==
  /\ frames' = [frames EXCEPT ![t][Here(t)] = [slot |-> slot, state |-> HasState(slot)]]
  /\ \E found \in Found(t, slot) : Emplace(t, found, StateOf(Here(t)))
  /\ wait' = [wait EXCEPT ![t] = NoWait]
-----------------------------------------------------------------------------
(* A running task. *)

\* multicast_cancellation::signal::signal
Join(t) ==
  /\ phase[t] = "out"
  /\ phase' = [phase EXCEPT ![t] = "running"]
  /\ frames' = [frames EXCEPT ![t] = <<[slot |-> NoSlot, state |-> FALSE]>>]
  /\ registry' = registry \cup {t}
  /\ created' = TRUE
  /\ UNCHANGED <<queue, handler, cancelled, wait, requests, intact>>

Kept(members, t) == members
Erased(members, t) == members \ {t}

\* The task ends: multicast_cancellation::signal::~signal.  The program keeps
\* a signal while an emission that points to it is queued.
Leave(t) ==
  /\ phase[t] = "running" /\ Here(t) = 1
  /\ \A i \in 1 .. Len(queue) : queue[i].via # t
  /\ phase' = [phase EXCEPT ![t] = "out"]
  /\ frames' = [frames EXCEPT ![t] = <<>>]
  /\ registry' = Erased(registry, t)
  /\ Emplace(t, 0, Nothing)
  /\ wait' = [wait EXCEPT ![t] = NoWait]
  /\ intact' = [intact EXCEPT ![t] = 1]
  /\ UNCHANGED <<created, queue, requests>>

\* A frame that names the slot of the signal takes it from the states of those
\* before it.
TakesSlot(t) ==
  intact' = [intact EXCEPT ![t] = IF CallerHasState(t) THEN Here(t) ELSE 1]

\* co_await cancellation_slot(signal.slot())
InstallSlot(t) ==
  /\ phase[t] = "running"
  /\ frames' = [frames EXCEPT ![t][Here(t)] = [slot |-> 0, state |-> FALSE]]
  /\ TakesSlot(t)
  /\ wait' = [wait EXCEPT ![t] = NoWait]
  /\ UNCHANGED <<registry, created, queue, phase, handler, cancelled, requests>>

\* co_await reset_cancellation_state(signal.slot())
ResetWithSlot(t) ==
  /\ phase[t] = "running"
  /\ ResetState(t, 0)
  /\ TakesSlot(t)
  /\ UNCHANGED <<registry, created, queue, phase, requests>>

\* co_await reset_cancellation_state()
Reset(t) ==
  /\ phase[t] = "running"
  /\ ResetState(t, Current(t).slot)
  /\ intact' = [intact EXCEPT ![t] = IF CallerHasState(t) THEN @ ELSE 1]
  /\ UNCHANGED <<registry, created, queue, phase, requests>>

NoneForCallee(t) == NoSlot
CalleeSlot(t) == GetSlot(t)

\* co_await of a promise
Call(t) ==
  /\ phase[t] = "running" /\ Here(t) < Depth[t]
  /\ frames' = [frames EXCEPT ![t] = Append(@, [slot |-> CalleeSlot(t), state |-> FALSE])]
  /\ UNCHANGED <<registry, created, queue, phase, handler, cancelled, wait, requests, intact>>

\* The callee finishes; a state of its stays in the slot it was put in, also one
\* that it put into the slot of its caller's.
Return(t) ==
  /\ phase[t] = "running" /\ Here(t) > 1
  /\ frames' = [frames EXCEPT ![t] = Front(@)]
  /\ intact' = [intact EXCEPT ![t] = IF ~CallerHasState(t) THEN 1
                                      ELSE IF @ = Here(t) THEN Depth[t] + 1 ELSE @]
  /\ UNCHANGED <<registry, created, queue, phase, handler, cancelled, wait, requests>>

\* co_await of an operation: "plain" puts its handler into the slot; behind a
\* proxy, that of the proxy.  A proxy that was moved from keeps a copy of the
\* slot and clears it when it is destroyed.
StartWait(t, k) ==
  /\ phase[t] = "running" /\ k \in Waits[t]
  /\ phase' = [phase EXCEPT ![t] = "waiting"]
  /\ \E found \in Found(t, GetSlot(t)) :
       /\ wait' = [wait EXCEPT ![t] = [NoWait EXCEPT !.kind = k, !.at = found]]
       /\ Emplace(t, found,
                  CASE k = "plain" -> Operation [] k = "kept" -> Proxy [] k = "moved" -> Nothing)
  /\ UNCHANGED <<registry, created, queue, frames, requests, intact>>

\* The operation finishes by itself, a proxied one on its strand.
OperationEnds(t) ==
  /\ phase[t] = "waiting"
  /\ phase' = [phase EXCEPT ![t] = "completing"]
  /\ wait' = [wait EXCEPT ![t].result = "value"]
  /\ UNCHANGED <<registry, created, queue, frames, handler, cancelled, requests, intact>>

\* Its handler runs on home; cancellation_proxy::reset before it completes.
Complete(t) ==
  /\ phase[t] = "completing"
  /\ phase' = [phase EXCEPT ![t] = "running"]
  /\ wait' = [wait EXCEPT ![t] = [NoWait EXCEPT !.result = wait[t].result]]
  /\ IF wait[t].kind = "plain"
     THEN UNCHANGED <<handler, cancelled, requests>>
     ELSE /\ Emplace(t, wait[t].at, Nothing)
          /\ requests' = [requests EXCEPT ![t] = {"stale" : r \in @}]
  /\ UNCHANGED <<registry, created, queue, frames, intact>>
-----------------------------------------------------------------------------
(* Emissions. *)

\* A cancelled operation posts its completion.
Aborted(w) == [w EXCEPT !.result = "aborted"]

\* The signals of the members emit; every state on the way records it.  The
\* handler of an operation cancels it, unless it is over.  A proxy dispatches
\* to the strand of its operation, which may run the request at once.
Emit(members) ==
  LET reached == [t \in Tasks |-> Reached(t)]
      Calls(h) == {t \in members : wait[t].at \in reached[t] /\ handler[t][wait[t].at] = h}
      Heard(t) == [wait[t] EXCEPT !.emitted = phase[t] \in {"waiting", "completing"}]
  IN  \E inline \in SUBSET Calls(Proxy) :
        LET aborted == {t \in Calls(Operation) \cup inline : phase[t] = "waiting"}
        IN  /\ phase' = [t \in Tasks |-> IF t \in aborted THEN "completing" ELSE phase[t]]
            /\ wait' = [t \in Tasks |-> IF t \in aborted THEN Aborted(Heard(t))
                                        ELSE IF t \in members THEN Heard(t) ELSE wait[t]]
            /\ requests' = [t \in Tasks |-> IF t \in Calls(Proxy) \ inline
                                            THEN requests[t] \cup {"current"} ELSE requests[t]]
            /\ cancelled' = [t \in Tasks |-> [d \in 1 .. Depth[t] |->
                               cancelled[t][d] \/ (t \in members /\ d \in reached[t])]]
            /\ UNCHANGED <<registry, created, frames, handler, intact>>

\* multicast_cancellation::emit and cancellation_signal::emit, on home
EmitNow ==
  \E members \in {registry} \cup {{t} : t \in {u \in Tasks : phase[u] # "out"}} :
    Emit(members) /\ UNCHANGED queue

\* Their overloads that dispatch to home, called elsewhere.
RequestGroup ==
  /\ Len(queue) < MaxQueue
  /\ queue' = Append(queue, [via |-> IF created THEN "registry" ELSE "nothing", members |-> registry])
  /\ UNCHANGED taskVars

RequestOne(t) ==
  /\ Len(queue) < MaxQueue /\ phase[t] # "out"
  /\ queue' = Append(queue, [via |-> t, members |-> {t}])
  /\ UNCHANGED taskVars

\* The signals a queued emission calls when it runs.
Targets(e) ==
  CASE e.via = "registry" -> registry
    [] e.via = "nothing" -> {}
    [] OTHER -> {e.via}

RunEmission ==
  /\ queue # <<>>
  /\ queue' = Tail(queue)
  /\ Emit(Targets(Head(queue)))

\* weak_signal.lock() in the handler a proxy dispatched
LocksAlways(r) == TRUE
LocksNever(r) == FALSE
Locks(r) == r = "current"

Deliver(t) ==
  \E r \in requests[t] :
    /\ requests' = [requests EXCEPT ![t] = @ \ {r}]
    /\ UNCHANGED <<registry, created, queue, frames, handler, cancelled, intact>>
    /\ IF Locks(r) /\ phase[t] = "waiting"
       THEN /\ phase' = [phase EXCEPT ![t] = "completing"]
            /\ wait' = [wait EXCEPT ![t] = Aborted(@)]
       ELSE UNCHANGED <<phase, wait>>

Next ==
  \/ \E t \in Tasks :
       \/ Join(t) \/ Leave(t)
       \/ InstallSlot(t) \/ ResetWithSlot(t) \/ Reset(t)
       \/ Call(t) \/ Return(t)
       \/ \E k \in Kinds : StartWait(t, k)
       \/ OperationEnds(t) \/ Complete(t)
       \/ RequestOne(t) \/ Deliver(t)
  \/ EmitNow \/ RequestGroup \/ RunEmission

Spec == Init /\ [][Next]_vars

\* Home and the strands run what is queued on them.  Only RunEmission takes an
\* emission from the queue.
TakesEmission == queue # <<>> /\ queue' = Tail(queue)
FairSpec == Spec /\ WF_queue(TakesEmission) /\ \A t \in Tasks : WF_vars(Deliver(t))
-----------------------------------------------------------------------------
(* The state a frame refers to is alive: no operation, callee or proxy of  *)
(* the task has put another handler into the slot it lives in, unless a    *)
(* callee named the slot of the signal itself over the states of its       *)
(* callers (reset_cancellation_state(slot) in a callee), and then from     *)
(* that callee on.                                                         *)
StatesAlive ==
  \A t \in Tasks : \A d \in intact[t] .. Here(t) : frames[t][d].state => d \in Reached(t)

\* Some frame named the slot, and the state of none from it on was replaced
\* since.  Moving a proxy cuts its operation off.
Listens(t) ==
  /\ phase[t] = "waiting" /\ wait[t].kind # "moved"
  /\ \E d \in intact[t] .. Here(t) : frames[t][d].slot # NoSlot

(* However deep the frame that waits and whichever frames reset their      *)
(* state, the signal of the task reaches the operation it waits for; also  *)
(* that of a callee that named the slot over the states of its callers.    *)
Connected ==
  \A t \in Tasks :
    Listens(t) => /\ wait[t].at \in Reached(t)
                  /\ handler[t][wait[t].at] \in {Operation, Proxy}

(* When a wait was aborted, every frame with a state that no callee has    *)
(* replaced sees it with co_await cancelled.                               *)
AbortRecorded ==
  \A t \in Tasks : \A d \in intact[t] .. Here(t) :
    wait[t].result = "aborted" /\ frames[t][d].state => SeenCancelled(t, d)

(* A cancellation strikes the operation it was meant for: an operation is  *)
(* aborted only by an emission that came while it was under way, never by  *)
(* one that was still on its way to an earlier operation.                  *)
NoStrayAbort ==
  \A t \in Tasks :
    phase[t] = "completing" /\ wait[t].result = "aborted" => wait[t].emitted

(* An emission is not lost between the signal of a task and its operation: *)
(* a wait that was under way when it came, and still is, has the request   *)
(* on the strand of its operation, and none of an earlier one instead.     *)
HeardIsOnItsWay ==
  \A t \in Tasks : Listens(t) /\ wait[t].emitted => "current" \in requests[t]

(* A queued emission, whenever it runs, calls all who were members at the  *)
(* request and still are, and nobody who is gone.                          *)
QueuedEmissions ==
  \A i \in 1 .. Len(queue) :
    LET living == {t \in Tasks : phase[t] # "out"}
    IN  queue[i].members \cap living \subseteq Targets(queue[i]) /\ Targets(queue[i]) \subseteq living

(* A cancellation requested while a member waits ends the wait, through    *)
(* the queue of home, the states of its frames and the strand of a proxy.  *)
RequestEndsWait ==
  \A t \in Tasks :
    Listens(t) /\ (\E i \in 1 .. Len(queue) : t \in queue[i].members) ~> phase[t] # "waiting"
=============================================================================
