------------------------- MODULE CancellationProofs -------------------------
(***************************************************************************)
(* For any number of tasks, frames and queued emissions: the registry of a *)
(* multicast group, whose emissions call the members and nobody who is     *)
(* gone; then what hangs on the slots of a task, and where its signals,    *)
(* its states and its requests reach.                                      *)
(***************************************************************************)
EXTENDS Cancellation, TLAPS

Phases == {"out", "running", "waiting", "completing"}
Living == {t \in Tasks : phase[t] # "out"}

PhaseOK == phase \in [Tasks -> Phases]

\* A signal is registered from its construction to its destruction, and a
\* group that has a member has a registry.
RegistryOK == registry = Living /\ created \in BOOLEAN /\ (registry # {} => created)

\* What a queued emission can rely on: a request that captured no registry
\* was made without members, and one by pointer has a living target.
EmissionOK(e) ==
  /\ e.via = "nothing" => e.members = {}
  /\ e.via \in Tasks => e.members = {e.via} /\ e.via \in Living

QueueOK ==
  /\ queue \in Seq(Emission)
  /\ \A i \in 1 .. Len(queue) : EmissionOK(queue[i])

IInv == PhaseOK /\ RegistryOK /\ QueueOK

(* No task, no registry and no emission at first.                          *)
LEMMA InitInv == Init => IInv
<1> SUFFICES ASSUME Init PROVE IInv
  OBVIOUS
<1>1. PhaseOK
  BY DEF Init, PhaseOK, Phases
<1>2. RegistryOK
  BY DEF Init, RegistryOK, Living
<1>3. QueueOK
  BY DEF Init, QueueOK
<1>4. QED
  BY <1>1, <1>2, <1>3 DEF IInv

(* A task that changes its phase without joining or leaving stays a member,*)
(* and the emissions queued stay as good as they were.                     *)
LEMMA SameMembers ==
  ASSUME IInv, PhaseOK', Living' = Living, UNCHANGED <<registry, created, queue>>
  PROVE  IInv'
<1>1. RegistryOK'
  BY DEF IInv, RegistryOK
<1>2. QueueOK'
  BY DEF IInv, QueueOK, EmissionOK
<1>3. QED
  BY <1>1, <1>2 DEF IInv

(* Signals that emit change no membership (cancellation.hpp:130-149).      *)
LEMMA EmitKeeps ==
  ASSUME IInv, NEW members, Emit(members)
  PROVE  PhaseOK' /\ Living' = Living /\ UNCHANGED <<registry, created>>
<1> DEFINE reached == [t \in Tasks |-> Reached(t)]
<1> DEFINE Calls(h) == {t \in members : wait[t].at \in reached[t] /\ handler[t][wait[t].at] = h}
<1> DEFINE aborted(inline) == {t \in Calls(Operation) \cup inline : phase[t] = "waiting"}
<1>1. PICK inline \in SUBSET Calls(Proxy) :
        phase' = [t \in Tasks |-> IF t \in aborted(inline) THEN "completing" ELSE phase[t]]
  BY Zenon DEF Emit
<1>2. UNCHANGED <<registry, created>>
  BY DEF Emit
<1> HIDE DEF Calls
<1>3. PhaseOK'
  BY <1>1 DEF IInv, PhaseOK, Phases
<1>4. \A t \in Tasks : phase'[t] # "out" <=> phase[t] # "out"
  BY <1>1 DEF IInv, PhaseOK
<1>5. Living' = Living
  BY <1>4 DEF Living
<1>6. QED
  BY <1>2, <1>3, <1>5

(* A task joins the group (cancellation.hpp:103-107).                      *)
LEMMA JoinKeeps ==
  ASSUME IInv, NEW t \in Tasks, Join(t)
  PROVE  IInv'
<1>1. PhaseOK'
  BY DEF IInv, Join, PhaseOK, Phases
<1>2. Living' = Living \cup {t}
  BY DEF IInv, Join, PhaseOK, Living
<1>3. RegistryOK'
  BY <1>2 DEF IInv, Join, RegistryOK
<1>4. QueueOK'
  BY <1>2 DEF IInv, Join, QueueOK, EmissionOK
<1>5. QED
  BY <1>1, <1>3, <1>4 DEF IInv

(* A task leaves it; no emission that points to it is queued.              *)
LEMMA LeaveKeeps ==
  ASSUME IInv, NEW t \in Tasks, Leave(t)
  PROVE  IInv'
<1>1. PhaseOK'
  BY DEF IInv, Leave, PhaseOK, Phases
<1>2. Living' = Living \ {t}
  BY DEF IInv, Leave, PhaseOK, Living
<1>3. RegistryOK'
  BY <1>2 DEF IInv, Leave, RegistryOK, Erased
<1>4. QueueOK'
  BY <1>2 DEF IInv, Leave, QueueOK, EmissionOK
<1>5. QED
  BY <1>1, <1>3, <1>4 DEF IInv

(* A request is appended with what it captured (cancellation.hpp:69, 155). *)
LEMMA RequestKeeps ==
  ASSUME IInv, NEW e \in Emission, EmissionOK(e), queue' = Append(queue, e), UNCHANGED taskVars
  PROVE  IInv'
<1>1. UNCHANGED <<registry, created, phase>> /\ Living' = Living
  BY DEF taskVars, Living
<1>2. queue' \in Seq(Emission) /\ Len(queue') = Len(queue) + 1
  BY DEF IInv, QueueOK
<1>3. \A i \in 1 .. Len(queue') : queue'[i] = IF i <= Len(queue) THEN queue[i] ELSE e
  BY DEF IInv, QueueOK
<1>4. \A i \in 1 .. Len(queue') : EmissionOK(queue'[i])
  <2> SUFFICES ASSUME NEW i \in 1 .. Len(queue') PROVE EmissionOK(queue'[i])
    OBVIOUS
  <2>1. CASE i <= Len(queue)
    <3>1. Len(queue) \in Nat /\ i \in 1 .. Len(queue)
      BY <1>2, <2>1 DEF IInv, QueueOK
    <3>2. QED
      BY <1>3, <2>1, <3>1 DEF IInv, QueueOK
  <2>2. CASE ~(i <= Len(queue))
    BY <1>3, <2>2
  <2>3. QED
    BY <2>1, <2>2
<1>5. QueueOK'
  BY <1>1, <1>2, <1>4 DEF QueueOK, EmissionOK
<1>6. QED
  BY <1>1, <1>5 DEF IInv, PhaseOK, RegistryOK

(* The first emission leaves the queue and runs.                           *)
LEMMA RunKeeps == IInv /\ RunEmission => IInv'
<1> SUFFICES ASSUME IInv, RunEmission PROVE IInv'
  OBVIOUS
<1>1. queue # <<>> /\ queue' = Tail(queue) /\ Emit(Targets(Head(queue)))
  BY DEF RunEmission
<1>2. PhaseOK' /\ Living' = Living /\ UNCHANGED <<registry, created>>
  BY <1>1, EmitKeeps
<1>3. RegistryOK'
  BY <1>2 DEF IInv, RegistryOK
<1>4. queue' \in Seq(Emission) /\ Len(queue') = Len(queue) - 1
      /\ \A i \in 1 .. Len(queue') : queue'[i] = queue[i + 1]
  BY <1>1 DEF IInv, QueueOK
<1>5. \A i \in 1 .. Len(queue') : EmissionOK(queue'[i])
  BY <1>4 DEF IInv, QueueOK
<1>6. QueueOK'
  BY <1>2, <1>4, <1>5 DEF QueueOK, EmissionOK
<1>7. QED
  BY <1>2, <1>3, <1>6 DEF IInv

(* Every step keeps the registry and the queue in order.                   *)
LEMMA StepInv == IInv /\ [Next]_vars => IInv'
<1> SUFFICES ASSUME IInv, [Next]_vars PROVE IInv'
  OBVIOUS
<1>1. ASSUME NEW t \in Tasks, Join(t) \/ Leave(t) PROVE IInv'
  BY <1>1, JoinKeeps, LeaveKeeps
<1>2. ASSUME NEW t \in Tasks,
             InstallSlot(t) \/ ResetWithSlot(t) \/ Reset(t) \/ Call(t) \/ Return(t)
      PROVE IInv'
  <2>1. UNCHANGED <<registry, created, queue, phase>>
    BY <1>2 DEF InstallSlot, ResetWithSlot, Reset, Call, Return
  <2>2. PhaseOK' /\ Living' = Living
    BY <2>1 DEF IInv, PhaseOK, Living
  <2>3. QED
    BY <2>1, <2>2, SameMembers
<1>3. ASSUME NEW t \in Tasks, NEW p \in Phases \ {"out"}, phase[t] # "out",
             phase' = [phase EXCEPT ![t] = p], UNCHANGED <<registry, created, queue>>
      PROVE IInv'
  <2>1. PhaseOK' /\ Living' = Living
    BY <1>3 DEF IInv, PhaseOK, Living, Phases
  <2>2. QED
    BY <1>3, <2>1, SameMembers
<1>4. ASSUME NEW t \in Tasks, (\E k \in Kinds : StartWait(t, k)) \/ OperationEnds(t) \/ Complete(t)
      PROVE IInv'
  BY <1>3, <1>4 DEF StartWait, OperationEnds, Complete, Phases
<1>5. ASSUME NEW t \in Tasks, Deliver(t) PROVE IInv'
  <2>1. UNCHANGED <<registry, created, queue>>
    BY <1>5 DEF Deliver
  <2>2. CASE UNCHANGED phase
    <3>1. PhaseOK' /\ Living' = Living
      BY <2>2 DEF IInv, PhaseOK, Living
    <3>2. QED
      BY <2>1, <3>1, SameMembers
  <2>3. CASE phase[t] = "waiting" /\ phase' = [phase EXCEPT ![t] = "completing"]
    BY <1>3, <2>1, <2>3 DEF Phases
  <2>4. QED
    BY <1>5, <2>2, <2>3 DEF Deliver
<1>6. CASE EmitNow
  <2>1. PICK members : Emit(members) /\ UNCHANGED queue
    BY <1>6 DEF EmitNow
  <2>2. PhaseOK' /\ Living' = Living /\ UNCHANGED <<registry, created>>
    BY <2>1, EmitKeeps
  <2>3. QED
    BY <2>1, <2>2, SameMembers
<1>7. CASE RequestGroup
  <2> DEFINE e == [via |-> IF created THEN "registry" ELSE "nothing", members |-> registry]
  <2>1. e \in Emission /\ EmissionOK(e)
    BY TasksAssumption DEF IInv, RegistryOK, Living, Emission, EmissionOK
  <2>2. queue' = Append(queue, e) /\ UNCHANGED taskVars
    BY <1>7 DEF RequestGroup
  <2>3. QED
    BY <2>1, <2>2, RequestKeeps
<1>8. ASSUME NEW t \in Tasks, RequestOne(t) PROVE IInv'
  <2> DEFINE e == [via |-> t, members |-> {t}]
  <2>1. e \in Emission /\ EmissionOK(e)
    BY <1>8, TasksAssumption DEF RequestOne, Living, Emission, EmissionOK
  <2>2. queue' = Append(queue, e) /\ UNCHANGED taskVars
    BY <1>8 DEF RequestOne
  <2>3. QED
    BY <2>1, <2>2, RequestKeeps
<1>9. CASE UNCHANGED vars
  <2>1. UNCHANGED <<registry, created, queue, phase>>
    BY <1>9 DEF vars
  <2>2. PhaseOK' /\ Living' = Living
    BY <2>1 DEF IInv, PhaseOK, Living
  <2>3. QED
    BY <2>1, <2>2, SameMembers
<1>10. QED
  BY <1>1, <1>2, <1>4, <1>5, <1>6, <1>7, <1>8, <1>9, RunKeeps DEF Next

(* The registry holds the living signals, in every reachable state.        *)
THEOREM Inductive == Spec => []IInv
<1>1. Init => IInv
  BY InitInv
<1>2. IInv /\ [Next]_vars => IInv'
  BY StepInv
<1>3. QED
  BY <1>1, <1>2, PTL DEF Spec

(* A queued emission, whenever it runs, calls those who were members when  *)
(* it was requested and still are, and no destroyed signal.                *)
LEMMA EmissionsReach == IInv => QueuedEmissions
<1> SUFFICES ASSUME IInv, NEW i \in 1 .. Len(queue)
             PROVE  queue[i].members \cap Living \subseteq Targets(queue[i])
                    /\ Targets(queue[i]) \subseteq Living
  BY DEF QueuedEmissions, Living
<1>1. queue[i] \in Emission /\ EmissionOK(queue[i])
  BY DEF IInv, QueueOK
<1>2. registry = Living
  BY DEF IInv, RegistryOK
<1>3. CASE queue[i].via = "registry"
  BY <1>2, <1>3 DEF Targets
<1>4. CASE queue[i].via = "nothing"
  BY <1>1, <1>4 DEF Targets, EmissionOK
<1>5. CASE queue[i].via \in Tasks
  <2>1. queue[i].via # "registry" /\ queue[i].via # "nothing"
    BY <1>5, TasksAssumption
  <2>2. QED
    BY <1>1, <1>5, <2>1 DEF Targets, EmissionOK
<1>6. QED
  BY <1>1, <1>3, <1>4, <1>5 DEF Emission

(* The same in every reachable state.                                      *)
THEOREM Emissions == Spec => []QueuedEmissions
BY Inductive, EmissionsReach, PTL
-----------------------------------------------------------------------------
(* What hangs on the slots of a task.                                      *)

Slots(t) == Levels(t) \cup {NoSlot}
Handlers(t) == {Nothing, Operation, Proxy} \cup {StateOf(d) : d \in 1 .. Depth[t]}

\* The states of a task are known by the frames they belong to.  Those of the
\* last frames are sound: no callee has named the slot of the signal over them.
HasStateAt(t, d) == frames[t][d].state
SlotOf(t, d) == frames[t][d].slot
Sound(t) == intact[t] .. Here(t)
AllRecorded(t) == \A d \in Sound(t) : HasStateAt(t, d) => cancelled[t][d]

StackOK(t) ==
  /\ Here(t) \in Nat /\ Here(t) <= Depth[t]
  /\ phase[t] = "out" <=> Here(t) = 0
  /\ \A d \in 1 .. Here(t) : frames[t][d] \in [slot : Slots(t), state : BOOLEAN]
  /\ intact[t] \in 1 .. Depth[t] + 1
  /\ intact[t] \in {1, Depth[t] + 1} \/ intact[t] <= Here(t)

\* A frame has the slot of its task or that of a state before it, sound or not;
\* once a frame has a slot, so has every callee.
LinksOK(t) ==
  \A d \in 1 .. Here(t) :
    /\ SlotOf(t, d) \notin {NoSlot, 0} => SlotOf(t, d) < d /\ HasStateAt(t, SlotOf(t, d))
    /\ HasStateAt(t, d) => SlotOf(t, d) # NoSlot
    /\ \A e \in 1 .. d - 1 : SlotOf(t, e) # NoSlot => SlotOf(t, d) # NoSlot

\* A sound frame has the slot of its task or that of the last sound state before
\* it; its state is what that slot calls.
ChainOK(t) ==
  \A d \in Sound(t) :
    /\ SlotOf(t, d) \notin {NoSlot, 0} => intact[t] <= SlotOf(t, d)
    /\ HasStateAt(t, d) => handler[t][SlotOf(t, d)] = StateOf(d)
    /\ \A e \in intact[t] .. d - 1 : HasStateAt(t, e) => e <= SlotOf(t, d)

SignalsOK(t) ==
  /\ handler[t] \in [Levels(t) -> Handlers(t)]
  /\ cancelled[t] \in [1 .. Depth[t] -> BOOLEAN]

\* What the slot an operation waits in calls.
Called(k) == CASE k = "plain" -> Operation [] k = "kept" -> Proxy [] k = "moved" -> Nothing

WaitOK(t) ==
  /\ wait[t] \in [kind : Kinds \cup {"none"}, at : Slots(t),
                  result : {"none", "value", "aborted"}, emitted : BOOLEAN]
  /\ phase[t] \in {"out", "running"} => wait[t].at = NoSlot
  /\ phase[t] \in {"waiting", "completing"} =>
       /\ wait[t].kind \in Kinds
       /\ intact[t] <= Here(t) => wait[t].at = GetSlot(t)
       /\ wait[t].at # NoSlot => handler[t][wait[t].at] = Called(wait[t].kind)
  /\ wait[t].result = "aborted" => AllRecorded(t)
  /\ phase[t] = "completing" /\ wait[t].result = "aborted" => wait[t].emitted

\* A request that is not stale is of the operation that is under way.
RequestsOK(t) ==
  /\ requests[t] \subseteq {"current", "stale"}
  /\ "current" \in requests[t] =>
       /\ phase[t] \in {"waiting", "completing"} /\ wait[t].kind # "plain"
       /\ wait[t].emitted /\ AllRecorded(t)

TaskOK(t) ==
  /\ phase[t] \in Phases /\ StackOK(t) /\ LinksOK(t) /\ ChainOK(t)
  /\ SignalsOK(t) /\ WaitOK(t) /\ RequestsOK(t)

\* One stack, signal chain, wait and set of requests for each task.
Shapes ==
  /\ phase = [t \in Tasks |-> phase[t]]
  /\ frames = [t \in Tasks |-> frames[t]]
  /\ handler = [t \in Tasks |-> handler[t]]
  /\ cancelled = [t \in Tasks |-> cancelled[t]]
  /\ wait = [t \in Tasks |-> wait[t]]
  /\ requests = [t \in Tasks |-> requests[t]]
  /\ intact = [t \in Tasks |-> intact[t]]

TInv == Shapes /\ \A t \in Tasks : TaskOK(t)

(* No task, no frame, no wait at first.                                    *)
LEMMA InitTasks == Init => TInv
<1> SUFFICES ASSUME Init PROVE TInv
  OBVIOUS
<1>1. Shapes
  BY DEF Init, Shapes
<1>2. ASSUME NEW t \in Tasks PROVE TaskOK(t)
  <2>1. /\ Here(t) = 0 /\ phase[t] = "out" /\ wait[t] = NoWait /\ requests[t] = {}
        /\ intact[t] = 1
    BY DEF Init, Here
  <2>2. StackOK(t)
    BY <2>1, DepthAssumption DEF StackOK
  <2>3. LinksOK(t) /\ ChainOK(t) /\ AllRecorded(t)
    BY <2>1 DEF LinksOK, ChainOK, AllRecorded, Sound
  <2>4. SignalsOK(t)
    BY DEF Init, SignalsOK, Handlers
  <2>5. WaitOK(t) /\ RequestsOK(t)
    BY <2>1, <2>3 DEF WaitOK, RequestsOK, NoWait, Slots
  <2>6. QED
    BY <2>1, <2>2, <2>3, <2>4, <2>5 DEF TaskOK, Phases
<1>3. QED
  BY <1>1, <1>2 DEF TInv

(* What a task is in depends on its own part of the state only.            *)
LEMMA OthersKept ==
  ASSUME NEW u \in Tasks, TaskOK(u),
         phase'[u] = phase[u], frames'[u] = frames[u], handler'[u] = handler[u],
         cancelled'[u] = cancelled[u], wait'[u] = wait[u], requests'[u] = requests[u],
         intact'[u] = intact[u]
  PROVE  TaskOK(u)'
<1>1. Here(u)' = Here(u) /\ GetSlot(u)' = GetSlot(u) /\ (AllRecorded(u)' <=> AllRecorded(u))
  BY DEF Here, GetSlot, Current, AllRecorded, HasStateAt, Sound
<1>2. StackOK(u)' /\ LinksOK(u)' /\ ChainOK(u)' /\ SignalsOK(u)'
  BY <1>1 DEF TaskOK, StackOK, LinksOK, ChainOK, SignalsOK, HasStateAt, SlotOf, Sound
<1>3. WaitOK(u)' /\ RequestsOK(u)'
  BY <1>1 DEF TaskOK, WaitOK, RequestsOK
<1>4. QED
  BY <1>2, <1>3 DEF TaskOK

(* The top frame of a task that is in the group.                           *)
LEMMA TopFrame ==
  ASSUME TInv, NEW t \in Tasks, phase[t] # "out"
  PROVE  /\ Here(t) \in 1 .. Depth[t]
         /\ intact[t] \in 1 .. Depth[t] + 1
         /\ Current(t) = frames[t][Here(t)]
         /\ GetSlot(t) = IF HasStateAt(t, Here(t)) THEN Here(t) ELSE SlotOf(t, Here(t))
         /\ GetSlot(t) \in Slots(t)
         /\ \A d \in Sound(t) : HasStateAt(t, d) => SlotOf(t, d) < GetSlot(t) /\ d <= GetSlot(t)
<1>1. Here(t) \in 1 .. Depth[t] /\ intact[t] \in 1 .. Depth[t] + 1 /\ Depth[t] \in Nat
  BY DepthAssumption DEF TInv, TaskOK, StackOK
<1>2. Current(t) = frames[t][Here(t)]
  BY DEF Current, Here, Last
<1>3. GetSlot(t) = IF HasStateAt(t, Here(t)) THEN Here(t) ELSE SlotOf(t, Here(t))
  BY <1>2 DEF GetSlot, HasStateAt, SlotOf
<1>4. GetSlot(t) \in Slots(t)
  BY <1>1, <1>3, DepthAssumption DEF TInv, TaskOK, StackOK, SlotOf, Slots, Levels
<1>5. ASSUME NEW d \in Sound(t), HasStateAt(t, d)
      PROVE  SlotOf(t, d) < GetSlot(t) /\ d <= GetSlot(t)
  <2>0. d \in 1 .. Here(t) /\ Here(t) \in Sound(t)
    BY <1>1, <1>5 DEF Sound
  <2>1. SlotOf(t, d) < d
    BY <1>1, <1>5, <2>0 DEF TInv, TaskOK, LinksOK, NoSlot
  <2>2. d <= GetSlot(t)
    BY <1>1, <1>3, <1>5, <2>0 DEF TInv, TaskOK, ChainOK, Sound
  <2>3. SlotOf(t, d) \in Int /\ GetSlot(t) \in Int
    BY <1>1, <1>4, <2>0, DepthAssumption
       DEF TInv, TaskOK, StackOK, SlotOf, Slots, Levels, NoSlot
  <2>4. QED
    BY <2>0, <2>1, <2>2, <2>3
<1>6. QED
  BY <1>1, <1>2, <1>3, <1>4, <1>5

(* The states of the sound frames are reached: from each, through the slot *)
(* of its frame, to the state of a sound frame below, or to the signal.    *)
LEMMA StatesReached ==
  ASSUME TInv, NEW t \in Tasks
  PROVE  /\ 0 \in Reached(t) /\ Reached(t) \subseteq Levels(t)
         /\ \A d \in Sound(t) : HasStateAt(t, d) => d \in Reached(t)
         /\ phase[t] # "out" /\ intact[t] <= Here(t) =>
              {GetSlot(t), SlotOf(t, Here(t))} \subseteq Reached(t) \cup {NoSlot}
<1> DEFINE S == {0} \cup {d \in Sound(t) : HasStateAt(t, d)}
<1>0. /\ Here(t) \in Nat /\ Here(t) <= Depth[t] /\ Depth[t] \in Nat
      /\ intact[t] \in 1 .. Depth[t] + 1
      /\ \A d \in Sound(t) : d \in 1 .. Here(t)
  BY DepthAssumption DEF TInv, TaskOK, StackOK, Sound
<1>1. S \in SUBSET Levels(t)
  BY <1>0 DEF Levels
<1>2. ASSUME NEW l \in S \ {0} PROVE \E s \in S : s < l /\ handler[t][s] = StateOf(l)
  <2>1. /\ l \in Sound(t) /\ l \in 1 .. Here(t) /\ HasStateAt(t, l)
        /\ handler[t][SlotOf(t, l)] = StateOf(l) /\ SlotOf(t, l) # NoSlot
        /\ SlotOf(t, l) # 0 => SlotOf(t, l) < l /\ HasStateAt(t, SlotOf(t, l))
                               /\ intact[t] <= SlotOf(t, l)
        /\ SlotOf(t, l) \in Slots(t)
    BY <1>0, <1>2 DEF TInv, TaskOK, LinksOK, ChainOK, StackOK, SlotOf
  <2>2. SlotOf(t, l) \in S /\ SlotOf(t, l) < l
    BY <1>0, <2>1 DEF Slots, Levels, NoSlot, Sound
  <2>3. QED
    BY <2>1, <2>2
<1>3. S \subseteq Reached(t) /\ Reached(t) \subseteq Levels(t)
  BY <1>1, <1>2 DEF Reached
<1>4. ASSUME phase[t] # "out", intact[t] <= Here(t)
      PROVE  {GetSlot(t), SlotOf(t, Here(t))} \subseteq S \cup {NoSlot}
  <2>1. /\ Here(t) \in 1 .. Depth[t] /\ Here(t) \in Sound(t)
        /\ GetSlot(t) = IF HasStateAt(t, Here(t)) THEN Here(t) ELSE SlotOf(t, Here(t))
        /\ SlotOf(t, Here(t)) \in Slots(t)
    BY <1>0, <1>4, TopFrame DEF Sound, TInv, TaskOK, StackOK, SlotOf
  <2>2. SlotOf(t, Here(t)) \in S \cup {NoSlot}
    BY <1>0, <2>1 DEF TInv, TaskOK, LinksOK, ChainOK, Slots, Levels, NoSlot, Sound
  <2>3. QED
    BY <2>1, <2>2
<1>5. QED
  BY <1>3, <1>4

(* A handler put into a slot replaces what hangs on it.                    *)
LEMMA EmplaceEffect ==
  ASSUME TInv, NEW t \in Tasks, NEW slot \in Slots(t), NEW h \in Handlers(t),
         Emplace(t, slot, h)
  PROVE  /\ handler' = [u \in Tasks |-> handler'[u]]
         /\ cancelled' = [u \in Tasks |-> cancelled'[u]]
         /\ \A u \in Tasks \ {t} : handler'[u] = handler[u] /\ cancelled'[u] = cancelled[u]
         /\ \A l \in Levels(t) :
              handler'[t][l] = IF slot = NoSlot \/ l < slot THEN handler[t][l]
                               ELSE IF l = slot THEN h ELSE Nothing
         /\ \A d \in 1 .. Depth[t] :
              (slot = NoSlot \/ d <= slot) => cancelled'[t][d] = cancelled[t][d]
         /\ SignalsOK(t)'
<1>1. CASE slot = NoSlot
  <2>1. handler' = handler /\ cancelled' = cancelled
    BY <1>1 DEF Emplace
  <2>2. SignalsOK(t)'
    BY <2>1 DEF TInv, TaskOK, SignalsOK
  <2>3. QED
    BY <1>1, <2>1, <2>2 DEF TInv, Shapes
<1>2. CASE slot # NoSlot
  <2> DEFINE signals == [l \in Levels(t) |-> IF l < slot THEN handler[t][l]
                                             ELSE IF l = slot THEN h ELSE Nothing]
             records == [d \in 1 .. Depth[t] |-> cancelled[t][d] /\ d <= slot]
  <2>1. handler' = [u \in Tasks |-> IF u = t THEN signals ELSE handler[u]]
    BY <1>2 DEF Emplace, TInv, Shapes
  <2>2. cancelled' = [u \in Tasks |-> IF u = t THEN records ELSE cancelled[u]]
    BY <1>2 DEF Emplace, TInv, Shapes
  <2>3. signals \in [Levels(t) -> Handlers(t)] /\ records \in [1 .. Depth[t] -> BOOLEAN]
    BY DEF TInv, TaskOK, SignalsOK, Handlers
  <2>4. SignalsOK(t)'
    BY <2>1, <2>2, <2>3 DEF SignalsOK
  <2>5. \A d \in 1 .. Depth[t] : d <= slot => records[d] = cancelled[t][d]
    BY DEF TInv, TaskOK, SignalsOK
  <2>6. QED
    BY <1>2, <2>1, <2>2, <2>4, <2>5
<1>3. QED
  BY <1>1, <1>2

(* The states of the frames are where they were, and what they recorded, if*)
(* only levels from the slot of an operation up changed.                   *)
LEMMA StatesStill ==
  ASSUME TInv, NEW t \in Tasks, phase[t] # "out",
         frames'[t] = frames[t], intact'[t] = intact[t],
         intact[t] <= Here(t) =>
           /\ \A l \in Levels(t) :
                GetSlot(t) = NoSlot \/ l < GetSlot(t) => handler'[t][l] = handler[t][l]
           /\ \A d \in 1 .. Depth[t] :
                GetSlot(t) = NoSlot \/ d <= GetSlot(t) => cancelled'[t][d] = cancelled[t][d]
  PROVE  Here(t)' = Here(t) /\ GetSlot(t)' = GetSlot(t) /\ LinksOK(t)' /\ ChainOK(t)'
         /\ (AllRecorded(t)' <=> AllRecorded(t))
<1>1. Here(t)' = Here(t) /\ GetSlot(t)' = GetSlot(t) /\ Sound(t)' = Sound(t)
      /\ \A d \in 1 .. Here(t) : SlotOf(t, d)' = SlotOf(t, d)
                                 /\ (HasStateAt(t, d)' <=> HasStateAt(t, d))
  BY DEF Here, GetSlot, Current, SlotOf, HasStateAt, Sound
<1>2. /\ Here(t) \in 1 .. Depth[t] /\ Depth[t] \in Nat /\ intact[t] \in 1 .. Depth[t] + 1
      /\ \A d \in Sound(t) : HasStateAt(t, d) => SlotOf(t, d) < GetSlot(t) /\ d <= GetSlot(t)
  BY TopFrame, DepthAssumption
<1>a. \A d \in Sound(t) : d \in 1 .. Here(t) /\ intact[t] <= Here(t)
  BY <1>2 DEF Sound
<1>3. ASSUME NEW d \in Sound(t), HasStateAt(t, d)
      PROVE  /\ handler'[t][SlotOf(t, d)] = handler[t][SlotOf(t, d)]
             /\ cancelled'[t][d] = cancelled[t][d]
  <2>1. SlotOf(t, d) \in Levels(t)
    BY <1>2, <1>3, <1>a DEF TInv, TaskOK, StackOK, LinksOK, SlotOf, Slots
  <2>2. QED
    BY <1>2, <1>3, <1>a, <2>1
<1>4. AllRecorded(t)' <=> AllRecorded(t)
  BY <1>1, <1>3, <1>a DEF AllRecorded
<1>5. LinksOK(t)'
  BY <1>1 DEF TInv, TaskOK, LinksOK, SlotOf, HasStateAt
<1>6. ChainOK(t)'
  <2>1. \A d \in Sound(t) : \A e \in intact[t] .. d - 1 : e \in 1 .. Here(t)
    BY <1>2 DEF Sound
  <2>2. QED
    BY <1>1, <1>2, <1>3, <1>a, <2>1 DEF TInv, TaskOK, ChainOK
<1>7. QED
  BY <1>1, <1>4, <1>5, <1>6

(* A step of one task.                                                     *)
LEMMA OneTask ==
  ASSUME TInv, Shapes', NEW t \in Tasks, TaskOK(t)',
         \A u \in Tasks \ {t} :
           /\ phase'[u] = phase[u] /\ frames'[u] = frames[u] /\ handler'[u] = handler[u]
           /\ cancelled'[u] = cancelled[u] /\ wait'[u] = wait[u] /\ requests'[u] = requests[u]
           /\ intact'[u] = intact[u]
  PROVE  TInv'
<1>1. ASSUME NEW u \in Tasks \ {t} PROVE TaskOK(u)'
  BY OthersKept DEF TInv
<1>2. QED
  BY <1>1 DEF TInv

(* The task joins with a frame that has no slot.                           *)
LEMMA JoinTask ==
  ASSUME TInv, NEW t \in Tasks, Join(t)
  PROVE  TInv'
<1>1. /\ phase'[t] = "running" /\ frames'[t] = <<[slot |-> NoSlot, state |-> FALSE]>>
      /\ UNCHANGED <<handler, cancelled, wait, requests, intact>> /\ phase[t] = "out"
  BY DEF Join, TInv, Shapes
<1>2. Here(t)' = 1 /\ SlotOf(t, 1)' = NoSlot /\ ~HasStateAt(t, 1)'
  BY <1>1 DEF Here, SlotOf, HasStateAt
<1>a. intact[t] \in {1, Depth[t] + 1} /\ Depth[t] \in Nat \ {0}
  BY <1>1, DepthAssumption DEF TInv, TaskOK, StackOK
<1>b. \A d \in 1 .. Here(t)' : d = 1
  BY <1>2
<1>c. \A d \in Sound(t)' : d = 1
  BY <1>1, <1>2, <1>a DEF Sound
<1>3. StackOK(t)'
  BY <1>1, <1>2, <1>a, <1>b DEF StackOK, Slots
<1>4. LinksOK(t)' /\ ChainOK(t)' /\ AllRecorded(t)'
  <2>1. LinksOK(t)'
    BY <1>2, <1>b DEF LinksOK
  <2>2. AllRecorded(t)'
    BY <1>2, <1>c DEF AllRecorded
  <2>3. ChainOK(t)'
    <3>1. \A d \in Sound(t)' : \A e \in intact[t] .. d - 1 : FALSE
      BY <1>a, <1>c
    <3>2. QED
      BY <1>1, <1>2, <1>c, <3>1 DEF ChainOK
  <2>4. QED
    BY <2>1, <2>2, <2>3
<1>5. SignalsOK(t)'
  BY <1>1 DEF TInv, TaskOK, SignalsOK
<1>6. WaitOK(t)' /\ RequestsOK(t)'
  BY <1>1, <1>4 DEF TInv, TaskOK, WaitOK, RequestsOK
<1>7. TaskOK(t)'
  BY <1>1, <1>3, <1>4, <1>5, <1>6 DEF TaskOK, Phases
<1>8. Shapes' /\ \A u \in Tasks \ {t} :
        /\ phase'[u] = phase[u] /\ frames'[u] = frames[u] /\ handler'[u] = handler[u]
        /\ cancelled'[u] = cancelled[u] /\ wait'[u] = wait[u] /\ requests'[u] = requests[u]
        /\ intact'[u] = intact[u]
  BY DEF Join, TInv, Shapes
<1>9. QED
  BY <1>7, <1>8, OneTask

(* The task leaves, with its frame and its signal.                         *)
LEMMA LeaveTask ==
  ASSUME TInv, NEW t \in Tasks, Leave(t)
  PROVE  TInv'
<1>1. /\ phase'[t] = "out" /\ frames'[t] = <<>> /\ wait'[t] = NoWait
      /\ requests' = requests /\ phase[t] = "running" /\ intact'[t] = 1
  BY DEF Leave, TInv, Shapes
<1>2. Here(t)' = 0
  BY <1>1 DEF Here
<1>3. /\ handler' = [u \in Tasks |-> handler'[u]] /\ cancelled' = [u \in Tasks |-> cancelled'[u]]
      /\ \A u \in Tasks \ {t} : handler'[u] = handler[u] /\ cancelled'[u] = cancelled[u]
      /\ SignalsOK(t)'
  <2>1. 0 \in Slots(t) /\ Nothing \in Handlers(t)
    BY DepthAssumption DEF Slots, Levels, Handlers
  <2>2. QED
    BY <2>1, EmplaceEffect DEF Leave
<1>4. StackOK(t)' /\ LinksOK(t)' /\ ChainOK(t)' /\ AllRecorded(t)'
  <2>1. Sound(t)' = {}
    BY <1>1, <1>2 DEF Sound
  <2>2. QED
    BY <1>1, <1>2, <2>1, DepthAssumption DEF StackOK, LinksOK, ChainOK, AllRecorded
<1>5. WaitOK(t)' /\ RequestsOK(t)'
  BY <1>1, <1>4 DEF TInv, TaskOK, WaitOK, RequestsOK, NoWait, Slots
<1>6. TaskOK(t)'
  BY <1>1, <1>3, <1>4, <1>5 DEF TaskOK, Phases
<1>7. Shapes' /\ \A u \in Tasks \ {t} :
        /\ phase'[u] = phase[u] /\ frames'[u] = frames[u] /\ handler'[u] = handler[u]
        /\ cancelled'[u] = cancelled[u] /\ wait'[u] = wait[u] /\ requests'[u] = requests[u]
        /\ intact'[u] = intact[u]
  BY <1>3 DEF Leave, TInv, Shapes
<1>8. QED
  BY <1>6, <1>7, OneTask

(* The frames before the current one: without a state among them, no frame *)
(* has a slot but that of the task.                                        *)
LEMMA Callers ==
  ASSUME TInv, NEW t \in Tasks, phase[t] # "out"
  PROVE  /\ CallerHasState(t) <=> \E d \in 1 .. Here(t) - 1 : HasStateAt(t, d)
         /\ ~CallerHasState(t) => \A d \in 1 .. Here(t) : SlotOf(t, d) \in {NoSlot, 0}
<1>1. CallerHasState(t) <=> \E d \in 1 .. Here(t) - 1 : HasStateAt(t, d)
  BY DEF CallerHasState, HasStateAt
<1>2. ASSUME NEW d \in 1 .. Here(t), SlotOf(t, d) \notin {NoSlot, 0}
      PROVE  CallerHasState(t)
  <2>1. /\ Here(t) \in 1 .. Depth[t] /\ Depth[t] \in Nat /\ SlotOf(t, d) \in Slots(t)
        /\ SlotOf(t, d) < d /\ HasStateAt(t, SlotOf(t, d))
    BY <1>2, TopFrame, DepthAssumption DEF TInv, TaskOK, StackOK, LinksOK, SlotOf
  <2>2. SlotOf(t, d) \in 1 .. Here(t) - 1
    BY <1>2, <2>1 DEF Slots, Levels
  <2>3. QED
    BY <1>1, <2>1, <2>2
<1>3. QED
  BY <1>1, <1>2

(* A new slot for the current frame, its own or that of the task.          *)
LEMMA TopReplaced ==
  ASSUME TInv, NEW t \in Tasks, phase[t] = "running", phase'[t] = phase[t],
         NEW slot, slot \in {SlotOf(t, Here(t)), 0}, NEW state \in BOOLEAN,
         state => slot # NoSlot,
         frames'[t] = [frames[t] EXCEPT ![Here(t)] = [slot |-> slot, state |-> state]],
         intact'[t] \in {1, Here(t), intact[t]}
  PROVE  /\ Here(t)' = Here(t)
         /\ \A d \in 1 .. Here(t) :
              /\ SlotOf(t, d)' = IF d = Here(t) THEN slot ELSE SlotOf(t, d)
              /\ HasStateAt(t, d)' <=> IF d = Here(t) THEN state ELSE HasStateAt(t, d)
         /\ StackOK(t)' /\ LinksOK(t)'
<1> DEFINE n == Here(t)
           top == [slot |-> slot, state |-> state]
<1>1. n \in 1 .. Depth[t] /\ Depth[t] \in Nat /\ intact[t] \in 1 .. Depth[t] + 1
  BY TopFrame, DepthAssumption
<1>2. slot \in Slots(t)
  BY <1>1 DEF TInv, TaskOK, StackOK, SlotOf, Slots, Levels
<1>3. Here(t)' = n /\ \A d \in 1 .. n : frames'[t][d] = IF d = n THEN top ELSE frames[t][d]
  BY <1>1 DEF Here
<1>4. top.slot = slot /\ top.state = state /\ top \in [slot : Slots(t), state : BOOLEAN]
  BY <1>2
<1> HIDE DEF n, top
<1>5. ASSUME NEW d \in 1 .. n
      PROVE  /\ SlotOf(t, d)' = IF d = n THEN slot ELSE SlotOf(t, d)
             /\ HasStateAt(t, d)' = IF d = n THEN state ELSE HasStateAt(t, d)
  BY <1>3, <1>4 DEF SlotOf, HasStateAt
<1>6. StackOK(t)'
  <2>1. Slots(t)' = Slots(t)
    BY DEF Slots, Levels
  <2>2. \A d \in 1 .. n : frames'[t][d] \in [slot : Slots(t), state : BOOLEAN]
    BY <1>3, <1>4 DEF TInv, TaskOK, StackOK, n
  <2>3. intact'[t] \in 1 .. Depth[t] + 1
        /\ (intact'[t] \in {1, Depth[t] + 1} \/ intact'[t] <= n)
    BY <1>1 DEF TInv, TaskOK, StackOK, n
  <2>4. QED
    BY <1>1, <1>3, <2>1, <2>2, <2>3 DEF StackOK
<1>7. LinksOK(t)'
  <2>1. ASSUME NEW d \in 1 .. n
        PROVE  /\ SlotOf(t, d) \notin {NoSlot, 0} =>
                    SlotOf(t, d) \in 1 .. n - 1 /\ SlotOf(t, d) < d
                    /\ HasStateAt(t, SlotOf(t, d))
               /\ HasStateAt(t, d) => SlotOf(t, d) # NoSlot
               /\ \A e \in 1 .. d - 1 : SlotOf(t, e) # NoSlot => SlotOf(t, d) # NoSlot
    BY <1>1 DEF TInv, TaskOK, LinksOK, StackOK, SlotOf, Slots, Levels, n
  <2>2. n \in 1 .. n /\ slot \in {SlotOf(t, n), 0}
    BY <1>1 DEF n
  <2>3. ASSUME NEW d \in 1 .. n
        PROVE  /\ SlotOf(t, d)' \notin {NoSlot, 0} =>
                    SlotOf(t, d)' < d /\ HasStateAt(t, SlotOf(t, d))'
               /\ HasStateAt(t, d)' => SlotOf(t, d)' # NoSlot
               /\ \A e \in 1 .. d - 1 : SlotOf(t, e)' # NoSlot => SlotOf(t, d)' # NoSlot
    <3>1. SlotOf(t, d)' \notin {NoSlot, 0} =>
            /\ SlotOf(t, d)' = SlotOf(t, d) /\ SlotOf(t, d) < d
            /\ SlotOf(t, d) \in 1 .. n - 1 /\ HasStateAt(t, SlotOf(t, d))
      BY <1>1, <1>5, <2>1, <2>2
    <3>2. \A e \in 1 .. n - 1 : HasStateAt(t, e)' = HasStateAt(t, e)
      BY <1>1, <1>5
    <3>3. SlotOf(t, d)' \notin {NoSlot, 0} => HasStateAt(t, SlotOf(t, d))'
      BY <3>1, <3>2 DEF HasStateAt
    <3>4. HasStateAt(t, d)' => SlotOf(t, d)' # NoSlot
      BY <1>5, <2>1
    <3>5. \A e \in 1 .. d - 1 : SlotOf(t, e)' # NoSlot => SlotOf(t, d)' # NoSlot
      BY <1>1, <1>5, <2>1, <2>2 DEF NoSlot
    <3>6. QED
      BY <3>1, <3>3, <3>4, <3>5
  <2>4. QED
    BY <1>3, <2>3 DEF LinksOK
<1>8. QED
  BY <1>3, <1>5, <1>6, <1>7 DEF n

(* The current frame is given the slot of the signal, and no state.        *)
LEMMA InstallTask ==
  ASSUME TInv, NEW t \in Tasks, InstallSlot(t)
  PROVE  TInv'
<1> DEFINE n == Here(t)
<1>1. /\ phase[t] = "running" /\ UNCHANGED <<phase, handler, cancelled, requests>>
      /\ frames'[t] = [frames[t] EXCEPT ![n] = [slot |-> 0, state |-> FALSE]]
      /\ wait'[t] = NoWait
      /\ intact'[t] = IF CallerHasState(t) THEN n ELSE 1
  BY DEF InstallSlot, TakesSlot, TInv, Shapes
<1>2. n \in 1 .. Depth[t] /\ Depth[t] \in Nat
  BY <1>1, TopFrame, DepthAssumption
<1>3. /\ Here(t)' = n /\ StackOK(t)' /\ LinksOK(t)'
      /\ \A d \in 1 .. n :
           /\ SlotOf(t, d)' = IF d = n THEN 0 ELSE SlotOf(t, d)
           /\ HasStateAt(t, d)' <=> IF d = n THEN FALSE ELSE HasStateAt(t, d)
  BY <1>1, TopReplaced DEF NoSlot
<1>4. ASSUME NEW d \in Sound(t)'
      PROVE  d \in 1 .. n /\ ~HasStateAt(t, d)' /\ SlotOf(t, d)' \in {NoSlot, 0}
  <2>1. CASE CallerHasState(t)
    BY <1>1, <1>2, <1>3, <1>4, <2>1 DEF Sound
  <2>2. CASE ~CallerHasState(t)
    <3>1. d \in 1 .. n
      BY <1>1, <1>3, <1>4, <2>2 DEF Sound
    <3>2. SlotOf(t, d) \in {NoSlot, 0} /\ (d # n => ~HasStateAt(t, d))
      BY <1>1, <1>2, <2>2, <3>1, Callers
    <3>3. QED
      BY <1>3, <3>1, <3>2
  <2>3. QED
    BY <2>1, <2>2
<1>5. ChainOK(t)' /\ AllRecorded(t)'
  <2>1. \A d \in Sound(t)' : \A e \in intact'[t] .. d - 1 : e \in Sound(t)'
    BY <1>1, <1>2, <1>3 DEF Sound
  <2>2. QED
    BY <1>4, <2>1 DEF ChainOK, AllRecorded
<1>6. SignalsOK(t)'
  BY <1>1 DEF TInv, TaskOK, SignalsOK
<1>7. WaitOK(t)' /\ RequestsOK(t)'
  BY <1>1, <1>5 DEF TInv, TaskOK, WaitOK, RequestsOK, NoWait, Slots
<1>8. TaskOK(t)'
  BY <1>1, <1>3, <1>5, <1>6, <1>7 DEF TaskOK, Phases
<1>9. Shapes' /\ \A u \in Tasks \ {t} :
        /\ phase'[u] = phase[u] /\ frames'[u] = frames[u] /\ handler'[u] = handler[u]
        /\ cancelled'[u] = cancelled[u] /\ wait'[u] = wait[u] /\ requests'[u] = requests[u]
        /\ intact'[u] = intact[u]
  BY DEF InstallSlot, TakesSlot, TInv, Shapes
<1>10. QED
  BY <1>8, <1>9, OneTask

(* The current frame gets a new state: in its slot, or in that of the task *)
(* over the states of those before it.                                     *)
LEMMA ResetTask ==
  ASSUME TInv, NEW t \in Tasks, NEW slot, phase[t] = "running",
         \/ /\ slot = Current(t).slot
            /\ intact' = [intact EXCEPT ![t] = IF CallerHasState(t) THEN @ ELSE 1]
         \/ slot = 0 /\ TakesSlot(t),
         ResetState(t, slot), UNCHANGED <<phase, requests>>
  PROVE  TInv'
<1> DEFINE n == Here(t)
<1>1. /\ n \in 1 .. Depth[t] /\ Depth[t] \in Nat /\ Current(t) = frames[t][n]
      /\ intact[t] \in 1 .. Depth[t] + 1
  BY TopFrame, DepthAssumption
<1>2. /\ slot \in {SlotOf(t, n), 0} /\ slot \in Slots(t)
      /\ SlotOf(t, n) \in Slots(t)
  BY <1>1 DEF TInv, TaskOK, StackOK, SlotOf, Slots, Levels
<1>3. /\ frames'[t] = [frames[t] EXCEPT ![n] = [slot |-> slot, state |-> slot # NoSlot]]
      /\ wait'[t] = NoWait
      /\ frames' = [u \in Tasks |-> frames'[u]] /\ wait' = [u \in Tasks |-> wait'[u]]
      /\ \A u \in Tasks \ {t} : frames'[u] = frames[u] /\ wait'[u] = wait[u]
  BY DEF ResetState, HasState, TInv, Shapes
<1>4. /\ ~CallerHasState(t) => intact'[t] = 1
      /\ CallerHasState(t) => \/ intact'[t] = n /\ slot = 0
                              \/ intact'[t] = intact[t] /\ slot = SlotOf(t, n)
      /\ intact' = [u \in Tasks |-> intact'[u]]
      /\ \A u \in Tasks \ {t} : intact'[u] = intact[u]
  BY <1>1 DEF TakesSlot, TInv, Shapes, SlotOf
<1>5. /\ Here(t)' = n /\ StackOK(t)' /\ LinksOK(t)'
      /\ \A d \in 1 .. n :
           /\ SlotOf(t, d)' = IF d = n THEN slot ELSE SlotOf(t, d)
           /\ HasStateAt(t, d)' <=> IF d = n THEN slot # NoSlot ELSE HasStateAt(t, d)
  <2>1. PICK state \in BOOLEAN : state = (slot # NoSlot)
    OBVIOUS
  <2>2. intact'[t] \in {1, n, intact[t]}
    BY <1>4
  <2> HIDE DEF n
  <2>3. frames'[t] = [frames[t] EXCEPT ![Here(t)] = [slot |-> slot, state |-> state]]
    BY <1>3, <2>1, Zenon DEF n
  <2>4. QED
    BY <1>2, <2>1, <2>2, <2>3, TopReplaced DEF n
<1>6. PICK found \in Found(t, slot) : Emplace(t, found, StateOf(n))
  BY DEF ResetState
<1>7. found \in Slots(t) /\ (slot \in Reached(t) \cup {NoSlot} => found = slot)
      /\ 0 \in Reached(t)
  BY <1>6, StatesReached DEF Found, Slots
<1>8. intact'[t] <= n => found = slot
  <2>1. CASE ~CallerHasState(t)
    BY <1>1, <1>2, <1>7, <2>1, Callers
  <2>2. CASE CallerHasState(t)
    BY <1>4, <1>7, <2>2, StatesReached
  <2>3. QED
    BY <2>1, <2>2
<1>9. /\ handler' = [u \in Tasks |-> handler'[u]] /\ cancelled' = [u \in Tasks |-> cancelled'[u]]
      /\ \A u \in Tasks \ {t} : handler'[u] = handler[u] /\ cancelled'[u] = cancelled[u]
      /\ \A l \in Levels(t) :
           handler'[t][l] = IF found = NoSlot \/ l < found THEN handler[t][l]
                            ELSE IF l = found THEN StateOf(n) ELSE Nothing
      /\ SignalsOK(t)'
  <2>1. StateOf(n) \in Handlers(t)
    BY <1>1 DEF Handlers
  <2>2. QED
    BY <1>6, <1>7, <2>1, EmplaceEffect
<1> HIDE DEF n
<1>10. ASSUME NEW d \in Sound(t)'
       PROVE  /\ SlotOf(t, d)' \notin {NoSlot, 0} => intact'[t] <= SlotOf(t, d)'
              /\ HasStateAt(t, d)' => handler'[t][SlotOf(t, d)'] = StateOf(d)
              /\ \A e \in intact'[t] .. d - 1 : HasStateAt(t, e)' => e <= SlotOf(t, d)'
  <2>1. /\ intact'[t] \in Nat \ {0} /\ intact'[t] <= d /\ d \in 1 .. n /\ found = slot
        /\ \A e \in intact'[t] .. d - 1 : e \in 1 .. n - 1
    BY <1>1, <1>4, <1>5, <1>8, <1>10 DEF Sound
  <2>2. slot # NoSlot => slot \in Levels(t) /\ handler'[t][slot] = StateOf(n)
    BY <1>2, <1>9, <2>1 DEF Slots, Levels, NoSlot
  <2>3. CASE ~CallerHasState(t)
    <3>1. /\ \A e \in 1 .. n : SlotOf(t, e) \in {NoSlot, 0}
          /\ \A e \in 1 .. n - 1 : ~HasStateAt(t, e)
      BY <2>3, Callers DEF n
    <3>2. \A e \in 1 .. n - 1 : ~HasStateAt(t, e)'
      BY <1>1, <1>5, <3>1
    <3>3. SlotOf(t, d)' \in {NoSlot, 0}
      BY <1>1, <1>2, <1>5, <2>1, <3>1
    <3>4. HasStateAt(t, d)' => d = n /\ slot # NoSlot /\ SlotOf(t, d)' = slot
      BY <1>1, <1>5, <2>1, <3>2
    <3>5. QED
      BY <2>1, <2>2, <3>2, <3>3, <3>4
  <2>4. CASE intact'[t] = n /\ slot = 0
    <3>1. d = n /\ \A e \in intact'[t] .. d - 1 : FALSE
      BY <1>1, <2>1, <2>4
    <3>2. QED
      BY <1>1, <1>5, <2>1, <2>2, <2>4, <3>1
  <2>5. CASE intact'[t] = intact[t] /\ slot = SlotOf(t, n)
    <3>1. /\ d \in Sound(t) /\ n \in Sound(t)
          /\ \A e \in intact[t] .. d - 1 : e \in 1 .. n - 1 /\ e \in intact[t] .. n - 1
      BY <1>1, <2>1, <2>5 DEF Sound, n
    <3>2. \A e \in 1 .. n : SlotOf(t, e)' = SlotOf(t, e)
      BY <1>1, <1>5, <2>5
    <3>3. \A e \in 1 .. n - 1 : HasStateAt(t, e)' <=> HasStateAt(t, e)
      BY <1>1, <1>5
    <3>4. HasStateAt(t, d)' => handler'[t][SlotOf(t, d)'] = StateOf(d)
      <4>1. CASE d = n
        <5>1. SlotOf(t, d)' = slot /\ (HasStateAt(t, d)' <=> slot # NoSlot)
          BY <1>5, <2>1, <4>1, Zenon
        <5>2. QED
          BY <2>2, <4>1, <5>1, Zenon
      <4>2. CASE d # n
        <5> SUFFICES ASSUME HasStateAt(t, d)'
                     PROVE  handler'[t][SlotOf(t, d)'] = StateOf(d)
          OBVIOUS
        <5>1. /\ HasStateAt(t, d) /\ d \in intact[t] .. n - 1 /\ SlotOf(t, d)' = SlotOf(t, d)
              /\ SlotOf(t, d) \in Slots(t)
          BY <1>1, <1>5, <2>1, <2>5, <4>2 DEF TInv, TaskOK, StackOK, SlotOf, n
        <5>2. d <= slot /\ slot \in Int
          BY <1>1, <1>2, <2>5, <3>1, <5>1 DEF TInv, TaskOK, ChainOK, Slots, Levels, NoSlot
        <5>3. SlotOf(t, d) \in Levels(t) /\ SlotOf(t, d) < d
          BY <1>1, <2>1, <5>1 DEF TInv, TaskOK, LinksOK, Slots, Levels, n
        <5>4. handler[t][SlotOf(t, d)] = StateOf(d)
          BY <3>1, <5>1 DEF TInv, TaskOK, ChainOK
        <5>5. QED
          BY <1>9, <2>1, <5>1, <5>2, <5>3, <5>4 DEF Levels
      <4>3. QED
        BY <4>1, <4>2
    <3>5. QED
      BY <2>1, <2>5, <3>1, <3>2, <3>3, <3>4 DEF TInv, TaskOK, ChainOK
  <2>6. QED
    BY <1>4, <2>3, <2>4, <2>5
<1>11. ChainOK(t)'
  BY <1>10 DEF ChainOK
<1>12. WaitOK(t)' /\ RequestsOK(t)'
  BY <1>3 DEF TInv, TaskOK, WaitOK, RequestsOK, NoWait, Slots
<1>13. TaskOK(t)'
  BY <1>5, <1>9, <1>11, <1>12 DEF TaskOK, Phases
<1>14. Shapes' /\ \A u \in Tasks \ {t} :
        /\ phase'[u] = phase[u] /\ frames'[u] = frames[u] /\ handler'[u] = handler[u]
        /\ cancelled'[u] = cancelled[u] /\ wait'[u] = wait[u] /\ requests'[u] = requests[u]
        /\ intact'[u] = intact[u]
  BY <1>3, <1>4, <1>9 DEF TInv, Shapes
<1>15. QED
  BY <1>13, <1>14, OneTask

(* A callee gets a frame: the slot is that of the caller's state, or the   *)
(* caller's own.                                                           *)
LEMMA CallTask ==
  ASSUME TInv, NEW t \in Tasks, Call(t)
  PROVE  TInv'
<1>0. PICK n \in Nat : n = Here(t)
  BY DEF TInv, TaskOK, StackOK
<1> DEFINE new == [slot |-> GetSlot(t), state |-> FALSE]
<1>1. /\ n \in Nat /\ 1 <= n /\ n + 1 <= Depth[t] /\ Depth[t] \in Nat /\ phase[t] = "running"
      /\ GetSlot(t) \in Slots(t) /\ intact[t] \in 1 .. Depth[t] + 1
      /\ GetSlot(t) = IF HasStateAt(t, n) THEN n ELSE SlotOf(t, n)
      /\ \A d \in Sound(t) : HasStateAt(t, d) => d <= GetSlot(t)
  BY <1>0, TopFrame, DepthAssumption DEF Call
<1>2. /\ frames' = [u \in Tasks |-> IF u = t THEN Append(frames[t], new) ELSE frames[u]]
      /\ UNCHANGED <<phase, handler, cancelled, wait, requests, intact>>
  BY DEF Call, CalleeSlot, TInv, Shapes
<1>3. /\ Here(t)' = n + 1
      /\ \A d \in 1 .. n + 1 : frames'[t][d] = IF d = n + 1 THEN new ELSE frames[t][d]
  BY <1>0, <1>1, <1>2 DEF Here
<1>a. new.slot = GetSlot(t) /\ new.state = FALSE
      /\ new \in [slot : Slots(t), state : BOOLEAN] /\ Slots(t)' = Slots(t)
  BY <1>1 DEF Slots, Levels
<1> HIDE DEF new
<1>4. /\ SlotOf(t, n + 1)' = GetSlot(t) /\ ~HasStateAt(t, n + 1)'
      /\ \A d \in 1 .. n : SlotOf(t, d)' = SlotOf(t, d) /\ HasStateAt(t, d)' = HasStateAt(t, d)
  <2>1. n + 1 \in 1 .. n + 1 /\ \A d \in 1 .. n : d \in 1 .. n + 1 /\ d # n + 1
    BY <1>1
  <2>2. frames'[t][n + 1] = new /\ \A d \in 1 .. n : frames'[t][d] = frames[t][d]
    BY <1>3, <2>1
  <2>3. SlotOf(t, n + 1)' = GetSlot(t) /\ HasStateAt(t, n + 1)' = FALSE
    BY <1>a, <2>2 DEF SlotOf, HasStateAt
  <2>4. QED
    BY <2>2, <2>3 DEF SlotOf, HasStateAt
<1>5. StackOK(t)'
  <2>1. \A d \in 1 .. n : frames[t][d] \in [slot : Slots(t), state : BOOLEAN]
    BY <1>0 DEF TInv, TaskOK, StackOK
  <2>2. \A d \in 1 .. n + 1 : frames'[t][d] \in [slot : Slots(t), state : BOOLEAN]
    BY <1>1, <1>3, <1>a, <2>1
  <2>3. phase'[t] = "running"
    BY <1>1, <1>2
  <2>4. /\ intact'[t] \in 1 .. Depth[t] + 1
        /\ intact'[t] \in {1, Depth[t] + 1} \/ intact'[t] <= n + 1
    BY <1>0, <1>1, <1>2 DEF TInv, TaskOK, StackOK
  <2>5. QED
    BY <1>1, <1>3, <1>a, <2>2, <2>3, <2>4 DEF StackOK
<1>6. LinksOK(t)'
  <2>1. ASSUME NEW d \in 1 .. n
        PROVE  /\ SlotOf(t, d) \notin {NoSlot, 0} =>
                    SlotOf(t, d) < d /\ HasStateAt(t, SlotOf(t, d)) /\ SlotOf(t, d) \in 1 .. n
               /\ HasStateAt(t, d) => SlotOf(t, d) # NoSlot
               /\ \A e \in 1 .. d - 1 : SlotOf(t, e) # NoSlot => SlotOf(t, d) # NoSlot
    BY <1>0, <1>1 DEF TInv, TaskOK, LinksOK, StackOK, SlotOf, Slots, Levels
  <2>2. \A d \in 1 .. n : HasStateAt(t, d) => HasStateAt(t, d)'
    BY <1>4
  <2>3. ASSUME NEW d \in 1 .. n + 1
        PROVE  /\ SlotOf(t, d)' \notin {NoSlot, 0} =>
                    SlotOf(t, d)' < d /\ HasStateAt(t, SlotOf(t, d))'
               /\ HasStateAt(t, d)' => SlotOf(t, d)' # NoSlot
               /\ \A e \in 1 .. d - 1 : SlotOf(t, e)' # NoSlot => SlotOf(t, d)' # NoSlot
    <3>1. CASE d = n + 1
      <4>1. GetSlot(t) \notin {NoSlot, 0} => GetSlot(t) \in 1 .. n /\ HasStateAt(t, GetSlot(t))
        BY <1>1, <2>1
      <4>2. SlotOf(t, d)' \notin {NoSlot, 0} => HasStateAt(t, SlotOf(t, d))'
        BY <1>4, <2>2, <3>1, <4>1 DEF HasStateAt
      <4>3. \A e \in 1 .. n : SlotOf(t, e) # NoSlot => GetSlot(t) # NoSlot
        BY <1>1, <2>1 DEF NoSlot
      <4>4. QED
        BY <1>1, <1>4, <3>1, <4>1, <4>2, <4>3
    <3>2. CASE d \in 1 .. n
      <4>1. SlotOf(t, d)' \notin {NoSlot, 0} => HasStateAt(t, SlotOf(t, d))'
        BY <1>4, <2>1, <2>2, <3>2 DEF HasStateAt
      <4>2. QED
        BY <1>1, <1>4, <2>1, <3>2, <4>1
    <3>3. QED
      BY <1>1, <3>1, <3>2
  <2>4. QED
    BY <1>3, <2>3 DEF LinksOK
<1>7. \A d \in Sound(t)' : d = n + 1 \/ (d \in Sound(t) /\ d \in 1 .. n)
  BY <1>0, <1>1, <1>2, <1>3 DEF Sound
<1>8. ChainOK(t)'
  <2>1. ASSUME NEW d \in Sound(t)'
        PROVE  /\ SlotOf(t, d)' \notin {NoSlot, 0} => intact[t] <= SlotOf(t, d)'
               /\ HasStateAt(t, d)' => handler[t][SlotOf(t, d)'] = StateOf(d)
               /\ \A e \in intact[t] .. d - 1 : HasStateAt(t, e)' => e <= SlotOf(t, d)'
    <3>1. CASE d = n + 1
      <4>1. /\ n \in Sound(t) /\ SlotOf(t, d)' = GetSlot(t) /\ ~HasStateAt(t, d)'
            /\ \A e \in intact[t] .. d - 1 : e \in Sound(t) /\ e \in 1 .. n
        BY <1>0, <1>1, <1>2, <1>3, <1>4, <2>1, <3>1
           DEF Sound, TInv, TaskOK, StackOK
      <4>2. \A e \in Sound(t) : HasStateAt(t, e) => e <= GetSlot(t)
        BY <1>1
      <4>3. GetSlot(t) \notin {NoSlot, 0} => intact[t] <= GetSlot(t)
        BY <1>0, <1>1, <4>1 DEF TInv, TaskOK, ChainOK, Sound
      <4>4. QED
        BY <1>4, <4>1, <4>2, <4>3
    <3>2. CASE d \in Sound(t) /\ d \in 1 .. n
      <4>1. SlotOf(t, d)' = SlotOf(t, d) /\ (HasStateAt(t, d)' <=> HasStateAt(t, d))
        BY <1>4, <3>2
      <4>2. \A e \in intact[t] .. d - 1 : e \in 1 .. n
        BY <1>0, <1>1, <3>2 DEF TInv, TaskOK, StackOK
      <4>3. QED
        BY <1>4, <3>2, <4>1, <4>2 DEF TInv, TaskOK, ChainOK
    <3>3. QED
      BY <1>7, <2>1, <3>1, <3>2
  <2>2. QED
    BY <1>2, <2>1 DEF ChainOK
<1>9. AllRecorded(t) => AllRecorded(t)'
  <2>1. ASSUME AllRecorded(t), NEW d \in Sound(t)', HasStateAt(t, d)' PROVE cancelled[t][d]
    BY <1>4, <1>7, <2>1 DEF AllRecorded
  <2>2. QED
    BY <1>2, <2>1 DEF AllRecorded
<1>10. SignalsOK(t)' /\ WaitOK(t)' /\ RequestsOK(t)'
  BY <1>1, <1>2, <1>9 DEF TInv, TaskOK, SignalsOK, WaitOK, RequestsOK
<1>11. TaskOK(t)'
  BY <1>2, <1>5, <1>6, <1>8, <1>10 DEF TInv, TaskOK
<1>12. Shapes' /\ \A u \in Tasks \ {t} :
        /\ phase'[u] = phase[u] /\ frames'[u] = frames[u] /\ handler'[u] = handler[u]
        /\ cancelled'[u] = cancelled[u] /\ wait'[u] = wait[u] /\ requests'[u] = requests[u]
        /\ intact'[u] = intact[u]
  BY <1>2 DEF TInv, Shapes
<1>13. QED
  BY <1>11, <1>12, OneTask

(* The callee's frame goes; the frames below it are as they were.          *)
LEMMA ReturnTask ==
  ASSUME TInv, NEW t \in Tasks, Return(t)
  PROVE  TInv'
<1> DEFINE n == Here(t)
<1>1. n \in 2 .. Depth[t] /\ Depth[t] \in Nat /\ phase[t] = "running"
  BY TopFrame, DepthAssumption DEF Return
<1>2. /\ frames' = [u \in Tasks |-> IF u = t THEN Front(frames[t]) ELSE frames[u]]
      /\ UNCHANGED <<phase, handler, cancelled, wait, requests>>
  BY DEF Return, TInv, Shapes
<1>3. /\ Here(t)' = n - 1
      /\ \A d \in 1 .. n - 1 : frames'[t][d] = frames[t][d]
  BY <1>1, <1>2 DEF Here, Front
<1> HIDE DEF n
<1>4. \A d \in 1 .. n - 1 : SlotOf(t, d)' = SlotOf(t, d) /\ HasStateAt(t, d)' = HasStateAt(t, d)
  BY <1>3 DEF SlotOf, HasStateAt
<1>5. /\ intact[t] \in 1 .. Depth[t] + 1
      /\ intact'[t] = IF ~CallerHasState(t) THEN 1
                      ELSE IF intact[t] = n THEN Depth[t] + 1 ELSE intact[t]
      /\ intact' = [u \in Tasks |-> intact'[u]]
      /\ \A u \in Tasks \ {t} : intact'[u] = intact[u]
  BY DEF Return, TInv, Shapes, TaskOK, StackOK, n
<1>a. StackOK(t)'
  <2>1. /\ intact'[t] \in 1 .. Depth[t] + 1
        /\ intact'[t] \in {1, Depth[t] + 1} \/ intact'[t] <= n - 1
    BY <1>1, <1>5 DEF TInv, TaskOK, StackOK, n
  <2>2. \A d \in 1 .. n - 1 : frames'[t][d] \in [slot : Slots(t), state : BOOLEAN]
    BY <1>1, <1>3 DEF TInv, TaskOK, StackOK, n
  <2>3. QED
    BY <1>1, <1>2, <1>3, <2>1, <2>2 DEF StackOK, Slots, Levels
<1>6. ASSUME NEW d \in 1 .. n - 1
      PROVE  /\ SlotOf(t, d) \notin {NoSlot, 0} =>
                  SlotOf(t, d) < d /\ HasStateAt(t, SlotOf(t, d)) /\ SlotOf(t, d) \in 1 .. n - 1
             /\ HasStateAt(t, d) => SlotOf(t, d) # NoSlot
             /\ \A e \in 1 .. d - 1 : SlotOf(t, e) # NoSlot => SlotOf(t, d) # NoSlot
  BY <1>1 DEF TInv, TaskOK, LinksOK, StackOK, SlotOf, Slots, Levels, n
<1>b. LinksOK(t)'
  <2>1. ASSUME NEW d \in 1 .. n - 1, SlotOf(t, d)' \notin {NoSlot, 0}
        PROVE  HasStateAt(t, SlotOf(t, d))'
    BY <1>3, <1>4, <1>6, <2>1 DEF HasStateAt
  <2>2. \A d \in 1 .. n - 1 : \A e \in 1 .. d - 1 : e \in 1 .. n - 1
    BY <1>1
  <2>3. QED
    BY <1>3, <1>4, <1>6, <2>1, <2>2 DEF LinksOK
<1>c. ASSUME CallerHasState(t) PROVE ChainOK(t)' /\ (AllRecorded(t) => AllRecorded(t)')
  <2>1. ASSUME NEW d \in Sound(t)'
        PROVE  d \in Sound(t) /\ d \in 1 .. n - 1 /\ intact'[t] = intact[t]
    BY <1>1, <1>3, <1>5, <1>c, <2>1 DEF Sound, n
  <2>2. ChainOK(t)'
    <3>1. ASSUME NEW d \in Sound(t)'
          PROVE  /\ SlotOf(t, d)' = SlotOf(t, d) /\ (HasStateAt(t, d)' <=> HasStateAt(t, d))
                 /\ \A e \in intact[t] .. d - 1 : HasStateAt(t, e)' <=> HasStateAt(t, e)
      BY <1>1, <1>4, <1>5, <2>1
    <3>2. QED
      BY <1>2, <2>1, <3>1 DEF TInv, TaskOK, ChainOK
  <2>3. AllRecorded(t) => AllRecorded(t)'
    BY <1>2, <1>4, <2>1 DEF AllRecorded
  <2>4. QED
    BY <2>2, <2>3
<1>d. ASSUME ~CallerHasState(t) PROVE ChainOK(t)' /\ (AllRecorded(t) => AllRecorded(t)')
  <2>1. \A d \in 1 .. n - 1 : ~HasStateAt(t, d)' /\ SlotOf(t, d)' \in {NoSlot, 0}
    BY <1>1, <1>4, <1>d, Callers DEF n
  <2>2. \A d \in Sound(t)' : d \in 1 .. n - 1
    BY <1>1, <1>3, <1>5, <1>d DEF Sound
  <2>3. \A d \in Sound(t)' : \A e \in intact'[t] .. d - 1 : e \in 1 .. n - 1
    BY <1>1, <1>5, <1>d, <2>2
  <2>4. QED
    BY <2>1, <2>2, <2>3 DEF ChainOK, AllRecorded
<1>7. ChainOK(t)' /\ (AllRecorded(t) => AllRecorded(t)')
  BY <1>c, <1>d
<1>9. SignalsOK(t)' /\ WaitOK(t)' /\ RequestsOK(t)'
  BY <1>1, <1>2, <1>7 DEF TInv, TaskOK, SignalsOK, WaitOK, RequestsOK
<1>10. TaskOK(t)'
  BY <1>2, <1>a, <1>b, <1>7, <1>9 DEF TInv, TaskOK
<1>11. Shapes' /\ \A u \in Tasks \ {t} :
        /\ phase'[u] = phase[u] /\ frames'[u] = frames[u] /\ handler'[u] = handler[u]
        /\ cancelled'[u] = cancelled[u] /\ wait'[u] = wait[u] /\ requests'[u] = requests[u]
        /\ intact'[u] = intact[u]
  BY <1>2, <1>5 DEF TInv, Shapes
<1>12. QED
  BY <1>10, <1>11, OneTask

(* An operation is started in the slot of the current frame: past all      *)
(* sound states of the task.                                               *)
LEMMA StartWaitTask ==
  ASSUME TInv, NEW t \in Tasks, NEW k \in Kinds, StartWait(t, k)
  PROVE  TInv'
<1>1. /\ phase[t] = "running" /\ GetSlot(t) \in Slots(t) /\ Depth[t] \in Nat
  BY TopFrame, DepthAssumption DEF StartWait
<1>2. PICK found \in Found(t, GetSlot(t)) :
        /\ wait' = [wait EXCEPT ![t] = [NoWait EXCEPT !.kind = k, !.at = found]]
        /\ Emplace(t, found, Called(k))
  BY DEF StartWait, Called
<1>3. /\ phase'[t] = "waiting" /\ UNCHANGED <<frames, requests, intact>>
      /\ wait'[t] = [kind |-> k, at |-> found, result |-> "none", emitted |-> FALSE]
  BY <1>2 DEF StartWait, NoWait, TInv, Shapes
<1>4. /\ found \in Slots(t)
      /\ intact[t] <= Here(t) => found = GetSlot(t)
  BY <1>1, <1>2, StatesReached DEF Found, Slots
<1>5. /\ handler' = [u \in Tasks |-> handler'[u]] /\ cancelled' = [u \in Tasks |-> cancelled'[u]]
      /\ \A u \in Tasks \ {t} : handler'[u] = handler[u] /\ cancelled'[u] = cancelled[u]
      /\ \A l \in Levels(t) :
           handler'[t][l] = IF found = NoSlot \/ l < found THEN handler[t][l]
                            ELSE IF l = found THEN Called(k) ELSE Nothing
      /\ \A d \in 1 .. Depth[t] :
           (found = NoSlot \/ d <= found) => cancelled'[t][d] = cancelled[t][d]
      /\ SignalsOK(t)'
  <2>1. Called(k) \in Handlers(t)
    BY DEF Called, Kinds, Handlers
  <2>2. QED
    BY <1>2, <1>4, <2>1, EmplaceEffect
<1>6. Here(t)' = Here(t) /\ GetSlot(t)' = GetSlot(t) /\ LinksOK(t)' /\ ChainOK(t)'
  BY <1>1, <1>3, <1>4, <1>5, StatesStill
<1>7. StackOK(t)'
  BY <1>1, <1>3, <1>6 DEF TInv, TaskOK, StackOK, Slots, Levels
<1>8. WaitOK(t)'
  <2>1. found # NoSlot => handler'[t][found] = Called(k)
    BY <1>4, <1>5 DEF Slots, Levels, NoSlot
  <2>2. Slots(t)' = Slots(t) /\ Called(k)' = Called(k)
    BY DEF Slots, Levels, Called, Operation, Proxy, Nothing
  <2>3. intact'[t] <= Here(t)' => wait'[t].at = GetSlot(t)'
    BY <1>3, <1>4, <1>6
  <2>4. QED
    BY <1>1, <1>3, <1>4, <2>1, <2>2, <2>3 DEF WaitOK
<1>9. RequestsOK(t)'
  BY <1>1, <1>3 DEF TInv, TaskOK, RequestsOK
<1>10. TaskOK(t)'
  BY <1>3, <1>5, <1>6, <1>7, <1>8, <1>9 DEF TaskOK, Phases
<1>11. Shapes' /\ \A u \in Tasks \ {t} :
        /\ phase'[u] = phase[u] /\ frames'[u] = frames[u] /\ handler'[u] = handler[u]
        /\ cancelled'[u] = cancelled[u] /\ wait'[u] = wait[u] /\ requests'[u] = requests[u]
        /\ intact'[u] = intact[u]
  BY <1>2, <1>3, <1>5 DEF StartWait, TInv, Shapes
<1>12. QED
  BY <1>10, <1>11, OneTask

(* The operation ends by itself.                                           *)
LEMMA OperationEndsTask ==
  ASSUME TInv, NEW t \in Tasks, OperationEnds(t)
  PROVE  TInv'
<1>1. /\ phase[t] = "waiting" /\ phase'[t] = "completing"
      /\ wait'[t] = [wait[t] EXCEPT !.result = "value"]
      /\ UNCHANGED <<frames, handler, cancelled, requests, intact>>
  BY DEF OperationEnds, TInv, Shapes
<1>2. /\ Here(t)' = Here(t) /\ GetSlot(t)' = GetSlot(t) /\ LinksOK(t)' /\ ChainOK(t)'
      /\ (AllRecorded(t)' <=> AllRecorded(t))
  BY <1>1, StatesStill
<1>3. StackOK(t)' /\ SignalsOK(t)'
  BY <1>1, <1>2 DEF TInv, TaskOK, StackOK, SignalsOK
<1>4. WaitOK(t)' /\ RequestsOK(t)'
  BY <1>1, <1>2 DEF TInv, TaskOK, WaitOK, RequestsOK
<1>5. TaskOK(t)'
  BY <1>1, <1>2, <1>3, <1>4 DEF TaskOK, Phases
<1>6. Shapes' /\ \A u \in Tasks \ {t} :
        /\ phase'[u] = phase[u] /\ frames'[u] = frames[u] /\ handler'[u] = handler[u]
        /\ cancelled'[u] = cancelled[u] /\ wait'[u] = wait[u] /\ requests'[u] = requests[u]
        /\ intact'[u] = intact[u]
  BY DEF OperationEnds, TInv, Shapes
<1>7. QED
  BY <1>5, <1>6, OneTask

(* Its handler runs; a proxy empties its slot and its requests go stale.   *)
LEMMA CompleteTask ==
  ASSUME TInv, NEW t \in Tasks, Complete(t)
  PROVE  TInv'
<1>1. /\ phase[t] = "completing" /\ phase'[t] = "running" /\ UNCHANGED <<frames, intact>>
      /\ wait'[t] = [kind |-> "none", at |-> NoSlot, result |-> wait[t].result, emitted |-> FALSE]
      /\ wait[t].at \in Slots(t) /\ (intact[t] <= Here(t) => wait[t].at = GetSlot(t))
      /\ \A u \in Tasks \ {t} : phase'[u] = phase[u] /\ wait'[u] = wait[u]
      /\ phase' = [u \in Tasks |-> phase'[u]] /\ wait' = [u \in Tasks |-> wait'[u]]
  BY TopFrame DEF Complete, NoWait, TInv, TaskOK, WaitOK, Shapes
<1>2. /\ handler' = [u \in Tasks |-> handler'[u]] /\ cancelled' = [u \in Tasks |-> cancelled'[u]]
      /\ \A u \in Tasks \ {t} : handler'[u] = handler[u] /\ cancelled'[u] = cancelled[u]
      /\ \A l \in Levels(t) :
           wait[t].at = NoSlot \/ l < wait[t].at => handler'[t][l] = handler[t][l]
      /\ \A d \in 1 .. Depth[t] :
           wait[t].at = NoSlot \/ d <= wait[t].at => cancelled'[t][d] = cancelled[t][d]
      /\ SignalsOK(t)'
  <2>1. CASE wait[t].kind = "plain"
    <3>1. UNCHANGED <<handler, cancelled>>
      BY <2>1 DEF Complete
    <3>2. QED
      BY <3>1 DEF TInv, Shapes, TaskOK, SignalsOK
  <2>2. CASE wait[t].kind # "plain"
    <3>1. Emplace(t, wait[t].at, Nothing)
      BY <1>1, <2>2 DEF Complete
    <3>2. Nothing \in Handlers(t)
      BY DEF Handlers
    <3>3. QED
      BY <1>1, <3>1, <3>2, EmplaceEffect
  <2>3. QED
    BY <2>1, <2>2
<1>3. /\ requests' = [u \in Tasks |-> requests'[u]]
      /\ \A u \in Tasks \ {t} : requests'[u] = requests[u]
      /\ requests'[t] \subseteq {"stale"} \/ (requests'[t] = requests[t] /\ wait[t].kind = "plain")
  BY DEF Complete, TInv, Shapes
<1>4. /\ Here(t)' = Here(t) /\ LinksOK(t)' /\ ChainOK(t)' /\ (AllRecorded(t)' <=> AllRecorded(t))
  BY <1>1, <1>2, StatesStill
<1>5. StackOK(t)'
  BY <1>1, <1>4 DEF TInv, TaskOK, StackOK, Slots, Levels
<1>6. WaitOK(t)' /\ RequestsOK(t)'
  BY <1>1, <1>3, <1>4 DEF TInv, TaskOK, WaitOK, RequestsOK, Slots
<1>7. TaskOK(t)'
  BY <1>1, <1>2, <1>4, <1>5, <1>6 DEF TaskOK, Phases
<1>8. Shapes' /\ \A u \in Tasks \ {t} :
        /\ phase'[u] = phase[u] /\ frames'[u] = frames[u] /\ handler'[u] = handler[u]
        /\ cancelled'[u] = cancelled[u] /\ wait'[u] = wait[u] /\ requests'[u] = requests[u]
        /\ intact'[u] = intact[u]
  BY <1>1, <1>2, <1>3 DEF TInv, Shapes
<1>9. QED
  BY <1>7, <1>8, OneTask

(* A request arrives on the strand of the operation; one that is not stale *)
(* was made by an emission that every state recorded.                      *)
LEMMA DeliverTask ==
  ASSUME TInv, NEW t \in Tasks, Deliver(t)
  PROVE  TInv'
<1>1. PICK r \in requests[t] :
        /\ requests' = [requests EXCEPT ![t] = @ \ {r}]
        /\ IF Locks(r) /\ phase[t] = "waiting"
           THEN /\ phase' = [phase EXCEPT ![t] = "completing"]
                /\ wait' = [wait EXCEPT ![t] = Aborted(@)]
           ELSE UNCHANGED <<phase, wait>>
  BY DEF Deliver
<1>2. UNCHANGED <<frames, handler, cancelled, intact>> /\ requests'[t] = requests[t] \ {r}
  BY <1>1 DEF Deliver, TInv, Shapes
<1>3. CASE r = "current" /\ phase[t] = "waiting"
  <2>1. /\ phase'[t] = "completing" /\ wait'[t] = [wait[t] EXCEPT !.result = "aborted"]
        /\ wait[t].emitted /\ AllRecorded(t) /\ "current" \notin requests'[t]
    BY <1>1, <1>2, <1>3 DEF Locks, Aborted, TInv, TaskOK, RequestsOK, Shapes
  <2>2. /\ Here(t)' = Here(t) /\ GetSlot(t)' = GetSlot(t) /\ LinksOK(t)' /\ ChainOK(t)'
        /\ (AllRecorded(t)' <=> AllRecorded(t))
    BY <1>2, <1>3, StatesStill
  <2>3. StackOK(t)' /\ SignalsOK(t)'
    BY <1>2, <1>3, <2>1, <2>2 DEF TInv, TaskOK, StackOK, SignalsOK
  <2>4. WaitOK(t)' /\ RequestsOK(t)'
    BY <1>2, <1>3, <2>1, <2>2 DEF TInv, TaskOK, WaitOK, RequestsOK
  <2>5. TaskOK(t)'
    BY <2>1, <2>2, <2>3, <2>4 DEF TaskOK, Phases
  <2>6. Shapes' /\ \A u \in Tasks \ {t} :
          /\ phase'[u] = phase[u] /\ frames'[u] = frames[u] /\ handler'[u] = handler[u]
          /\ cancelled'[u] = cancelled[u] /\ wait'[u] = wait[u] /\ requests'[u] = requests[u]
          /\ intact'[u] = intact[u]
    BY <1>1, <1>2, <1>3 DEF Locks, TInv, Shapes
  <2>7. QED
    BY <2>5, <2>6, OneTask
<1>4. CASE ~(r = "current" /\ phase[t] = "waiting")
  <2>1. UNCHANGED <<phase, wait>>
    BY <1>1, <1>4 DEF Locks
  <2>2. /\ Here(t)' = Here(t) /\ GetSlot(t)' = GetSlot(t)
        /\ (AllRecorded(t)' <=> AllRecorded(t))
    BY <1>2 DEF Here, GetSlot, Current, AllRecorded, HasStateAt, Sound
  <2>3. StackOK(t)' /\ SignalsOK(t)' /\ LinksOK(t)' /\ ChainOK(t)' /\ WaitOK(t)'
    BY <1>2, <2>1, <2>2
       DEF TInv, TaskOK, StackOK, SignalsOK, LinksOK, ChainOK, WaitOK, SlotOf, HasStateAt, Sound
  <2>4. RequestsOK(t)'
    BY <1>2, <2>1, <2>2 DEF TInv, TaskOK, RequestsOK
  <2>5. TaskOK(t)'
    BY <2>1, <2>3, <2>4 DEF TInv, TaskOK
  <2>6. Shapes' /\ \A u \in Tasks \ {t} :
          /\ phase'[u] = phase[u] /\ frames'[u] = frames[u] /\ handler'[u] = handler[u]
          /\ cancelled'[u] = cancelled[u] /\ wait'[u] = wait[u] /\ requests'[u] = requests[u]
          /\ intact'[u] = intact[u]
    BY <1>1, <1>2, <2>1 DEF TInv, Shapes
  <2>7. QED
    BY <2>5, <2>6, OneTask
<1>5. QED
  BY <1>3, <1>4

(* An emission that arrives at a task: its states record it, and so does   *)
(* the operation under way, which it cancels or whose proxy it asks to.    *)
LEMMA EmitTasks ==
  ASSUME TInv, NEW members \in SUBSET Tasks, Emit(members)
  PROVE  TInv'
<1> DEFINE reached == [t \in Tasks |-> Reached(t)]
           Calls(h) == {t \in members : wait[t].at \in reached[t] /\ handler[t][wait[t].at] = h}
           Heard(t) == [wait[t] EXCEPT !.emitted = phase[t] \in {"waiting", "completing"}]
           aborted(inline) == {t \in Calls(Operation) \cup inline : phase[t] = "waiting"}
<1>1. PICK inline \in SUBSET Calls(Proxy) :
        /\ phase' = [t \in Tasks |-> IF t \in aborted(inline) THEN "completing" ELSE phase[t]]
        /\ wait' = [t \in Tasks |-> IF t \in aborted(inline) THEN Aborted(Heard(t))
                                    ELSE IF t \in members THEN Heard(t) ELSE wait[t]]
        /\ requests' = [t \in Tasks |-> IF t \in Calls(Proxy) \ inline
                                        THEN requests[t] \cup {"current"} ELSE requests[t]]
        /\ cancelled' = [t \in Tasks |-> [d \in 1 .. Depth[t] |->
                           cancelled[t][d] \/ (t \in members /\ d \in reached[t])]]
        /\ UNCHANGED <<registry, created, frames, handler, intact>>
  BY Zenon DEF Emit
<1>2. Shapes'
  <2> HIDE DEF aborted, Calls, Heard, reached
  <2>1. QED
    BY <1>1 DEF TInv, Shapes
<1>3. ASSUME NEW t \in Tasks PROVE TaskOK(t)'
  <2>1. /\ frames'[t] = frames[t] /\ handler'[t] = handler[t] /\ intact'[t] = intact[t]
        /\ Here(t)' = Here(t) /\ GetSlot(t)' = GetSlot(t) /\ Sound(t)' = Sound(t)
    BY <1>1 DEF Here, GetSlot, Current, Sound
  <2>2. cancelled'[t] \in [1 .. Depth[t] -> BOOLEAN]
        /\ \A d \in 1 .. Depth[t] :
             cancelled'[t][d] <=> cancelled[t][d] \/ (t \in members /\ d \in Reached(t))
    BY <1>1 DEF TInv, TaskOK, SignalsOK
  <2>3. /\ AllRecorded(t) => AllRecorded(t)'
        /\ t \in members => AllRecorded(t)'
    BY <2>1, <2>2, StatesReached, DepthAssumption
       DEF AllRecorded, HasStateAt, Sound, TInv, TaskOK, StackOK
  <2>4. ASSUME NEW h \in {Operation, Proxy}, t \in Calls(h)
        PROVE  /\ t \in members /\ phase[t] \in {"waiting", "completing"}
               /\ h = Proxy => wait[t].kind # "plain"
    <3>1. t \in members /\ wait[t].at \in Levels(t) /\ handler[t][wait[t].at] = h
      BY <2>4 DEF Reached
    <3>2. wait[t].at # NoSlot
      BY <3>1, DepthAssumption DEF Levels, NoSlot
    <3>3. phase[t] \in {"waiting", "completing"} /\ handler[t][wait[t].at] = Called(wait[t].kind)
      BY <3>2 DEF TInv, TaskOK, WaitOK, Phases
    <3>4. QED
      BY <3>1, <3>3 DEF Called, Operation, Proxy
  <2>5. ASSUME t \in aborted(inline) PROVE t \in members /\ phase[t] = "waiting"
    BY <2>4, <2>5
  <2>6. ASSUME t \in Calls(Proxy) \ inline
        PROVE  /\ t \in members /\ phase[t] \in {"waiting", "completing"}
               /\ wait[t].kind # "plain"
    BY <2>4, <2>6
  <2>7. /\ phase'[t] = IF t \in aborted(inline) THEN "completing" ELSE phase[t]
        /\ wait'[t] = IF t \in aborted(inline) THEN Aborted(Heard(t))
                      ELSE IF t \in members THEN Heard(t) ELSE wait[t]
        /\ requests'[t] = IF t \in Calls(Proxy) \ inline
                          THEN requests[t] \cup {"current"} ELSE requests[t]
    BY <1>1, Zenon
  <2> HIDE DEF aborted, Calls
  <2>8. /\ phase'[t] \in Phases
        /\ phase'[t] = phase[t] \/ (phase[t] = "waiting" /\ phase'[t] = "completing")
    BY <2>5, <2>7 DEF TInv, TaskOK, Phases
  <2>9. /\ wait[t] \in [kind : Kinds \cup {"none"}, at : Slots(t),
                        result : {"none", "value", "aborted"}, emitted : BOOLEAN]
        /\ Slots(t)' = Slots(t)
    BY DEF TInv, TaskOK, WaitOK, Slots, Levels
  <2>10. /\ wait'[t] \in [kind : Kinds \cup {"none"}, at : Slots(t),
                          result : {"none", "value", "aborted"}, emitted : BOOLEAN]
         /\ wait'[t].kind = wait[t].kind /\ wait'[t].at = wait[t].at
         /\ t \notin aborted(inline) => wait'[t].result = wait[t].result
         /\ t \in members => wait'[t].emitted = (phase[t] \in {"waiting", "completing"})
         /\ t \notin members => wait'[t].emitted = wait[t].emitted
    <3> DEFINE under == phase[t] \in {"waiting", "completing"}
               W == [kind : Kinds \cup {"none"}, at : Slots(t),
                     result : {"none", "value", "aborted"}, emitted : BOOLEAN]
    <3>1. /\ Heard(t) \in W
          /\ Heard(t).kind = wait[t].kind /\ Heard(t).at = wait[t].at
          /\ Heard(t).result = wait[t].result /\ Heard(t).emitted = under
      <4>1. \A w \in W : \A b \in BOOLEAN :
              LET v == [w EXCEPT !.emitted = b]
              IN  v \in W /\ v.kind = w.kind /\ v.at = w.at /\ v.result = w.result
                  /\ v.emitted = b
        OBVIOUS
      <4>2. under \in BOOLEAN /\ wait[t] \in W
        BY <2>9
      <4>3. Heard(t) = [wait[t] EXCEPT !.emitted = under]
        OBVIOUS
      <4> HIDE DEF W, under
      <4>4. \A b \in BOOLEAN : b = under =>
              LET v == [wait[t] EXCEPT !.emitted = b]
              IN  v \in W /\ v.kind = wait[t].kind /\ v.at = wait[t].at
                  /\ v.result = wait[t].result /\ v.emitted = b
        BY <4>1, <4>2, Zenon
      <4> HIDE DEF Heard
      <4>5. PICK b \in BOOLEAN : b = under
        BY <4>2, Zenon
      <4>6. Heard(t) = [wait[t] EXCEPT !.emitted = b]
        BY <4>3, <4>5, Zenon
      <4>7. QED
        BY <4>4, <4>5, <4>6, Zenon
    <3> HIDE DEF Heard, under
    <3>3. CASE t \in aborted(inline)
      <4>1. wait'[t] = [Heard(t) EXCEPT !.result = "aborted"] /\ t \in members
        BY <2>5, <2>7, <3>3 DEF Aborted
      <4>2. /\ wait'[t] \in [kind : Kinds \cup {"none"}, at : Slots(t),
                              result : {"none", "value", "aborted"}, emitted : BOOLEAN]
            /\ wait'[t].kind = wait[t].kind /\ wait'[t].at = wait[t].at
            /\ wait'[t].emitted = Heard(t).emitted
        BY <3>1, <4>1
      <4>3. QED
        BY <3>1, <3>3, <4>1, <4>2, Zenon DEF under
    <3>4. CASE t \notin aborted(inline) /\ t \in members
      <4>1. wait'[t] = Heard(t)
        BY <2>7, <3>4
      <4>2. QED
        BY <3>1, <3>4, <4>1, Zenon DEF under
    <3>5. CASE t \notin aborted(inline) /\ t \notin members
      BY <2>7, <2>9, <3>5
    <3>6. QED
      BY <3>3, <3>4, <3>5
  <2>11. StackOK(t)' /\ LinksOK(t)' /\ ChainOK(t)' /\ SignalsOK(t)'
    BY <2>1, <2>2, <2>8
       DEF TInv, TaskOK, StackOK, LinksOK, ChainOK, SignalsOK, SlotOf, HasStateAt, Slots, Levels,
           Handlers
  <2>12. WaitOK(t)'
    BY <2>1, <2>3, <2>5, <2>7, <2>8, <2>9, <2>10 DEF TInv, TaskOK, WaitOK, Phases
  <2>13. RequestsOK(t)'
    BY <2>3, <2>6, <2>7, <2>8, <2>10 DEF TInv, TaskOK, RequestsOK
  <2>14. QED
    BY <2>8, <2>11, <2>12, <2>13 DEF TaskOK
<1>4. QED
  BY <1>2, <1>3 DEF TInv

(* A step that changes no task.                                            *)
LEMMA NoTask ==
  ASSUME TInv, UNCHANGED <<phase, frames, handler, cancelled, wait, requests, intact>>
  PROVE  TInv'
<1>1. ASSUME NEW u \in Tasks PROVE TaskOK(u)'
  BY OthersKept DEF TInv
<1>2. QED
  BY <1>1 DEF TInv, Shapes

(* Every step keeps what hangs on the slots in order.                      *)
LEMMA StepTasks == IInv /\ TInv /\ [Next]_vars => TInv'
<1> SUFFICES ASSUME IInv, TInv, [Next]_vars PROVE TInv'
  OBVIOUS
<1>1. ASSUME NEW t \in Tasks, Join(t) \/ Leave(t) \/ InstallSlot(t) PROVE TInv'
  BY <1>1, JoinTask, LeaveTask, InstallTask
<1>2. ASSUME NEW t \in Tasks, ResetWithSlot(t) PROVE TInv'
  BY <1>2, ResetTask DEF ResetWithSlot
<1>3. ASSUME NEW t \in Tasks, Reset(t) PROVE TInv'
  BY <1>3, ResetTask DEF Reset
<1>4. ASSUME NEW t \in Tasks, Call(t) \/ Return(t) PROVE TInv'
  BY <1>4, CallTask, ReturnTask
<1>5. ASSUME NEW t \in Tasks, (\E k \in Kinds : StartWait(t, k)) \/ OperationEnds(t) \/ Complete(t)
      PROVE TInv'
  BY <1>5, StartWaitTask, OperationEndsTask, CompleteTask
<1>6. ASSUME NEW t \in Tasks, Deliver(t) PROVE TInv'
  BY <1>6, DeliverTask
<1>7. CASE EmitNow
  <2>1. PICK members \in {registry} \cup {{t} : t \in {u \in Tasks : phase[u] # "out"}} :
          Emit(members)
    BY <1>7 DEF EmitNow
  <2>2. members \in SUBSET Tasks
    BY DEF IInv, RegistryOK, Living
  <2>3. QED
    BY <2>1, <2>2, EmitTasks
<1>8. CASE RunEmission
  <2>1. Emit(Targets(Head(queue))) /\ Head(queue) = queue[1] /\ 1 \in 1 .. Len(queue)
    BY <1>8 DEF RunEmission, IInv, QueueOK
  <2>2. Targets(queue[1]) \in SUBSET Tasks
    BY <2>1, EmissionsReach DEF QueuedEmissions
  <2>3. QED
    BY <2>1, <2>2, EmitTasks
<1>9. ASSUME RequestGroup \/ (\E t \in Tasks : RequestOne(t)) \/ UNCHANGED vars PROVE TInv'
  <2>1. UNCHANGED <<phase, frames, handler, cancelled, wait, requests, intact>>
    BY <1>9 DEF RequestGroup, RequestOne, taskVars, vars
  <2>2. QED
    BY <2>1, NoTask
<1>10. QED
  BY <1>1, <1>2, <1>3, <1>4, <1>5, <1>6, <1>7, <1>8, <1>9 DEF Next

(* In every reachable state each frame has the slot of its task or of a    *)
(* state before it, and from the last frame on that named the slot of the  *)
(* signal over the states of its callers each state is what its slot calls *)
(* (promise_frame.hpp:147-151, 210; cancellation.hpp:319-391).             *)
THEOREM Hangs == Spec => []TInv
<1>1. Init => TInv
  BY InitTasks
<1>2. IInv /\ TInv /\ [Next]_vars => TInv'
  BY StepTasks
<1>3. QED
  BY <1>1, <1>2, Inductive, PTL DEF Spec

(* No more emissions are queued than the bound of the model.               *)
LEMMA QueueBounded == Spec => [](Len(queue) <= MaxQueue)
<1> DEFINE Bounded == Len(queue) <= MaxQueue
<1>1. Init => Bounded
  BY MaxQueueAssumption DEF Init
<1>2. IInv /\ Bounded /\ [Next]_vars => Bounded'
  <2> SUFFICES ASSUME IInv, Bounded, [Next]_vars PROVE Bounded'
    OBVIOUS
  <2>1. ASSUME NEW e, Len(queue) < MaxQueue, queue' = Append(queue, e) PROVE Bounded'
    BY <2>1, MaxQueueAssumption DEF IInv, QueueOK
  <2>2. CASE RequestGroup \/ \E t \in Tasks : RequestOne(t)
    BY <2>1, <2>2 DEF RequestGroup, RequestOne
  <2>3. CASE RunEmission
    BY <2>3, MaxQueueAssumption DEF RunEmission, IInv, QueueOK
  <2>4. CASE UNCHANGED queue
    BY <2>4
  <2>5. QED
    BY <2>2, <2>3, <2>4
       DEF Next, vars, Join, Leave, InstallSlot, ResetWithSlot, Reset, Call, Return,
           StartWait, OperationEnds, Complete, Deliver, EmitNow
<1>3. QED
  BY <1>1, <1>2, Inductive, PTL DEF Spec

(* Every variable has its type, in every reachable state.                  *)
THEOREM TypeCorrect == Spec => []TypeOK
<1>1. IInv /\ TInv /\ Len(queue) <= MaxQueue => TypeOK
  <2> SUFFICES ASSUME IInv, TInv, Len(queue) <= MaxQueue PROVE TypeOK
    OBVIOUS
  <2>1. /\ registry \subseteq Tasks /\ created \in BOOLEAN
        /\ (registry # {} => created) /\ phase \in [Tasks -> Phases]
    BY DEF IInv, PhaseOK, RegistryOK, Living
  <2>2. \A i \in 1 .. Len(queue) : queue[i] \in Emission
    BY DEF IInv, QueueOK
  <2>3. ASSUME NEW t \in Tasks
        PROVE  /\ Len(frames[t]) <= Depth[t] /\ (phase[t] = "out" <=> frames[t] = <<>>)
               /\ \A d \in 1 .. Len(frames[t]) :
                    /\ frames[t][d] \in [slot : Slots(t), state : BOOLEAN]
                    /\ frames[t][d].state => frames[t][d].slot # NoSlot
    BY DEF TInv, TaskOK, StackOK, LinksOK, Here, HasStateAt, SlotOf
  <2>4. ASSUME NEW t \in Tasks
        PROVE  /\ handler[t] \in [Levels(t) -> Handlers(t)]
               /\ cancelled[t] \in [1 .. Depth[t] -> BOOLEAN]
               /\ wait[t] \in [kind : Kinds \cup {"none"}, at : Slots(t),
                               result : {"none", "value", "aborted"}, emitted : BOOLEAN]
               /\ requests[t] \subseteq {"current", "stale"}
               /\ intact[t] \in 1 .. Depth[t] + 1
    BY DEF TInv, TaskOK, StackOK, SignalsOK, WaitOK, RequestsOK
  <2>5. QED
    BY <2>1, <2>2, <2>3, <2>4 DEF TypeOK, Phases, Slots, Handlers
<1>2. QED
  BY <1>1, Inductive, Hangs, QueueBounded, PTL

(* A state that a frame refers to is alive, from the last frame on that put*)
(* a state or an operation into the slot of the signal over the states of  *)
(* its callers (promise_frame.hpp:147-151, cancellation.hpp:319-349).      *)
THEOREM Alive == Spec => []StatesAlive
<1>1. TInv => StatesAlive
  BY StatesReached DEF StatesAlive, HasStateAt, Sound, Here
<1>2. QED
  BY <1>1, Hangs, PTL

(* What an operation that listens hangs on is reached.                     *)
LEMMA ListenersReached == TInv => Connected
<1> SUFFICES ASSUME TInv, NEW t \in Tasks, Listens(t)
             PROVE  wait[t].at \in Reached(t) /\ handler[t][wait[t].at] \in {Operation, Proxy}
  BY DEF Connected
<1>1. PICK d \in Sound(t) : SlotOf(t, d) # NoSlot
  BY DEF Listens, Sound, SlotOf
<1>2. /\ Here(t) \in 1 .. Depth[t] /\ intact[t] \in Nat \ {0}
      /\ GetSlot(t) = IF HasStateAt(t, Here(t)) THEN Here(t) ELSE SlotOf(t, Here(t))
  BY TopFrame DEF Listens
<1>3. d \in 1 .. Here(t) /\ intact[t] <= Here(t)
  BY <1>1, <1>2 DEF Sound
<1>4. phase[t] = "waiting" /\ wait[t].at = GetSlot(t) /\ wait[t].kind \in {"plain", "kept"}
  BY <1>3 DEF Listens, TInv, TaskOK, WaitOK, Kinds
<1>5. GetSlot(t) # NoSlot
  <2>1. SlotOf(t, Here(t)) # NoSlot
    BY <1>1, <1>2, <1>3 DEF TInv, TaskOK, LinksOK
  <2>2. QED
    BY <1>2, <2>1 DEF NoSlot
<1>6. GetSlot(t) \in Reached(t)
  BY <1>3, <1>4, <1>5, StatesReached
<1>7. handler[t][wait[t].at] = Called(wait[t].kind)
  BY <1>4, <1>5 DEF TInv, TaskOK, WaitOK
<1>8. QED
  BY <1>4, <1>6, <1>7 DEF Called

(* The signal of a task reaches the operation it waits for, however deep,  *)
(* also in a callee that took the slot from its callers                    *)
(* (promise_frame.hpp:210, cancellation.hpp:319-349).                      *)
THEOREM Reaches == Spec => []Connected
BY ListenersReached, Hangs, PTL

(* When a wait was aborted, every frame that has a state no callee has     *)
(* replaced sees it with co_await cancelled (cancellation.hpp:301-308).    *)
THEOREM Recorded == Spec => []AbortRecorded
<1>1. TInv => AbortRecorded
  BY DEF TInv, TaskOK, WaitOK, AllRecorded, AbortRecorded, SeenCancelled, HasStateAt, Sound, Here
<1>2. QED
  BY <1>1, Hangs, PTL

(* An operation is aborted only by an emission that came while it was under*)
(* way, though a proxy passes emissions on over another strand             *)
(* (cancellation_proxy.hpp:14-26).                                         *)
THEOREM Strikes == Spec => []NoStrayAbort
<1>1. TInv => NoStrayAbort
  BY DEF TInv, TaskOK, WaitOK, NoStrayAbort
<1>2. QED
  BY <1>1, Hangs, PTL
-----------------------------------------------------------------------------
(* Emissions that a wait has heard. *)

Heard(t) == Listens(t) /\ wait[t].emitted => "current" \in requests[t]

(* An emission ends the wait of a member that listens, or leaves a request *)
(* on the strand of its operation, and takes none from any strand.         *)
LEMMA EmissionHeard ==
  ASSUME TInv, NEW members \in SUBSET Tasks, Emit(members), NEW t \in Tasks,
         phase'[t] = "waiting"
  PROVE  /\ phase[t] = "waiting" /\ UNCHANGED <<frames, intact, wait[t].kind>>
         /\ requests[t] \subseteq requests'[t]
         /\ t \notin members => wait'[t] = wait[t]
         /\ t \in members /\ Listens(t) => "current" \in requests'[t]
<1> DEFINE reached == [u \in Tasks |-> Reached(u)]
           Calls(h) == {u \in members : wait[u].at \in reached[u] /\ handler[u][wait[u].at] = h}
           Told(u) == [wait[u] EXCEPT !.emitted = phase[u] \in {"waiting", "completing"}]
           aborted(inline) == {u \in Calls(Operation) \cup inline : phase[u] = "waiting"}
<1>1. PICK inline \in SUBSET Calls(Proxy) :
        /\ phase' = [u \in Tasks |-> IF u \in aborted(inline) THEN "completing" ELSE phase[u]]
        /\ wait' = [u \in Tasks |-> IF u \in aborted(inline) THEN Aborted(Told(u))
                                    ELSE IF u \in members THEN Told(u) ELSE wait[u]]
        /\ requests' = [u \in Tasks |-> IF u \in Calls(Proxy) \ inline
                                        THEN requests[u] \cup {"current"} ELSE requests[u]]
        /\ UNCHANGED <<frames, intact>>
  BY Zenon DEF Emit
<1>2. /\ phase'[t] = IF t \in aborted(inline) THEN "completing" ELSE phase[t]
      /\ wait'[t] = IF t \in aborted(inline) THEN Aborted(Told(t))
                    ELSE IF t \in members THEN Told(t) ELSE wait[t]
      /\ requests'[t] = IF t \in Calls(Proxy) \ inline
                        THEN requests[t] \cup {"current"} ELSE requests[t]
  BY <1>1, Zenon
<1>3. t \notin aborted(inline) /\ phase[t] = "waiting"
  BY <1>2
<1>4. wait'[t] = IF t \in members THEN Told(t) ELSE wait[t]
  BY <1>2, <1>3
<1>5. wait'[t].kind = wait[t].kind
  <2>1. wait[t] \in [kind : Kinds \cup {"none"}, at : Slots(t),
                     result : {"none", "value", "aborted"}, emitted : BOOLEAN]
    BY DEF TInv, TaskOK, WaitOK
  <2>2. QED
    BY <1>4, <2>1
<1>6. ASSUME t \in members, Listens(t) PROVE "current" \in requests'[t]
  <2>1. t \in Calls(Operation) \cup Calls(Proxy)
    BY <1>6, ListenersReached DEF Connected
  <2>2. t \in Calls(Proxy) \ inline
    BY <1>3, <2>1
  <2>3. QED
    BY <1>2, <2>2
<1>7. requests[t] \subseteq requests'[t]
  BY <1>2
<1>8. QED
  BY <1>1, <1>3, <1>4, <1>5, <1>6, <1>7

(* A task that waits and did before has not moved: the frames are those it *)
(* waited in.                                                              *)
LEMMA StillHeard ==
  ASSUME NEW t \in Tasks, Heard(t),
         phase'[t] = "waiting" =>
           /\ phase[t] = "waiting" /\ UNCHANGED <<frames[t], intact[t], wait[t]>>
           /\ "current" \in requests[t] => "current" \in requests'[t]
  PROVE  Heard(t)'
BY DEF Heard, Listens, Here

(* A request stays on its way until the wait is over.                      *)
LEMMA StepHeard ==
  ASSUME IInv, TInv, TInv', \A u \in Tasks : Heard(u), [Next]_vars, NEW t \in Tasks
  PROVE  Heard(t)'
<1> SUFFICES ASSUME phase'[t] = "waiting" PROVE Heard(t)'
  BY DEF Heard, Listens
<1>1. ASSUME NEW members \in SUBSET Tasks, Emit(members) PROVE Heard(t)'
  <2>1. /\ phase[t] = "waiting" /\ UNCHANGED <<frames, intact, wait[t].kind>>
        /\ requests[t] \subseteq requests'[t]
        /\ t \notin members => wait'[t] = wait[t]
        /\ t \in members /\ Listens(t) => "current" \in requests'[t]
    BY <1>1, EmissionHeard
  <2>2. Listens(t)' <=> Listens(t)
    BY <2>1 DEF Listens, Here
  <2>3. QED
    BY <2>1, <2>2 DEF Heard
<1>2. CASE EmitNow
  <2>1. PICK members \in {registry} \cup {{u} : u \in {v \in Tasks : phase[v] # "out"}} :
          Emit(members)
    BY <1>2 DEF EmitNow
  <2>2. members \in SUBSET Tasks
    BY DEF IInv, RegistryOK, Living
  <2>3. QED
    BY <1>1, <2>1, <2>2
<1>3. CASE RunEmission
  <2>1. Emit(Targets(Head(queue))) /\ Head(queue) = queue[1] /\ 1 \in 1 .. Len(queue)
    BY <1>3 DEF RunEmission, IInv, QueueOK
  <2>2. Targets(queue[1]) \in SUBSET Tasks
    BY <2>1, EmissionsReach DEF QueuedEmissions
  <2>3. QED
    BY <1>1, <2>1, <2>2
<1>4. ASSUME NEW u \in Tasks, NEW k \in Kinds, StartWait(u, k) PROVE Heard(t)'
  <2>1. CASE u = t
    <3>1. PICK found \in Found(t, GetSlot(t)) :
            wait' = [wait EXCEPT ![t] = [NoWait EXCEPT !.kind = k, !.at = found]]
      BY <1>4, <2>1 DEF StartWait
    <3>2. ~wait'[t].emitted
      BY <3>1 DEF NoWait, TInv, Shapes
    <3>3. QED
      BY <3>2 DEF Heard
  <2>2. CASE u # t
    BY <1>4, <2>2, StillHeard DEF StartWait, TInv, Shapes
  <2>3. QED
    BY <2>1, <2>2
<1>5. ASSUME NEW u \in Tasks, Deliver(u) PROVE Heard(t)'
  <2>1. PICK r \in requests[u] :
          /\ requests' = [requests EXCEPT ![u] = @ \ {r}] /\ UNCHANGED <<frames, intact>>
          /\ IF Locks(r) /\ phase[u] = "waiting"
             THEN /\ phase' = [phase EXCEPT ![u] = "completing"]
                  /\ wait' = [wait EXCEPT ![u] = Aborted(@)]
             ELSE UNCHANGED <<phase, wait>>
    BY <1>5 DEF Deliver
  <2>2. CASE u = t
    <3>1. UNCHANGED <<phase, wait>> /\ r # "current"
      BY <2>1, <2>2 DEF Locks, TInv, Shapes
    <3>2. "current" \in requests[t] => "current" \in requests'[t]
      BY <2>1, <2>2, <3>1 DEF TInv, Shapes
    <3>3. QED
      BY <2>1, <3>1, <3>2, StillHeard
  <2>3. CASE u # t
    BY <2>1, <2>3, StillHeard DEF TInv, Shapes
  <2>4. QED
    BY <2>2, <2>3
<1>6. ASSUME NEW u \in Tasks,
             \/ Join(u) \/ Leave(u) \/ InstallSlot(u) \/ ResetWithSlot(u) \/ Reset(u)
             \/ Call(u) \/ Return(u) \/ OperationEnds(u) \/ Complete(u)
      PROVE  Heard(t)'
  <2>1. /\ u # t
        /\ phase[t] = "waiting" /\ UNCHANGED <<frames[t], intact[t], wait[t]>>
        /\ requests'[t] = requests[t]
    BY <1>6
       DEF Join, Leave, InstallSlot, ResetWithSlot, Reset, ResetState, TakesSlot, Call, Return,
           OperationEnds, Complete, TInv, Shapes
  <2>2. QED
    BY <2>1, StillHeard
<1>7. CASE RequestGroup \/ (\E u \in Tasks : RequestOne(u)) \/ UNCHANGED vars
  BY <1>7, StillHeard DEF RequestGroup, RequestOne, taskVars, vars
<1>8. QED
  BY <1>2, <1>3, <1>4, <1>5, <1>6, <1>7 DEF Next

(* A cancellation that came while an operation was under way and could be  *)
(* told has ended it or is on its way to it, to this very operation        *)
(* (cancellation_proxy.hpp:14-26, promise_frame.hpp:147-151).              *)
THEOREM OnItsWay == Spec => []HeardIsOnItsWay
<1> DEFINE AllHeard == \A t \in Tasks : Heard(t)
<1>1. Init => AllHeard
  BY DEF Init, Heard, Listens
<1>2. IInv /\ TInv /\ TInv' /\ AllHeard /\ [Next]_vars => AllHeard'
  BY StepHeard
<1>3. AllHeard => HeardIsOnItsWay
  BY DEF Heard, HeardIsOnItsWay
<1>4. QED
  BY <1>1, <1>2, <1>3, Inductive, Hangs, PTL DEF Spec
=============================================================================
