--------------------------- MODULE AwaitingProofs ---------------------------
(***************************************************************************)
(* The rules of Ownership implement the contract of Awaiting, for any      *)
(* number of frames: each step of a frame, a handler or a destructor is a  *)
(* coroutine that starts, calls, returns or is abandoned, or nothing that  *)
(* Awaiting can see.                                                       *)
(***************************************************************************)
EXTENDS OwnershipProofs

\* What a frame that waits for no callee has left behind, and where the
\* trampolines of await() are.
AtRest(f) ==
  /\ at[f] \in {"none", "ready", "running", "waiting", "final"} => callee[f] = NoFrame
  /\ kind[f] = "trampoline" => at[f] \in {"calling", "returning", "delivering", "dying"}
  /\ token[f] # NoFrame => at[f] \in {"calling", "returning", "dying"}

RInv == IInv /\ \A f \in Frames : AtRest(f)

(* Nobody waits at first.                                                  *)
LEMMA InitRests == Init => RInv
<1> SUFFICES ASSUME Init PROVE RInv
  OBVIOUS
<1>1. \A f \in Frames : AtRest(f)
  BY DEF Init, AtRest
<1>2. QED
  BY <1>1, InitInv DEF RInv

(* A callee is recorded and forgotten as its caller begins and ceases to   *)
(* wait, and a trampoline never runs.                                      *)
LEMMA StepRests ==
  ASSUME RInv, Next
  PROVE  \A f \in Frames : AtRest(f)'
<1> SUFFICES ASSUME NEW x \in Frames PROVE AtRest(x)'
  OBVIOUS
<1> USE DEF RInv, IInv, TypeOK, AtRest
<1>1. ASSUME NEW f \in Frames, Release(f) PROVE AtRest(x)'
  BY <1>1 DEF Release, Destroyed
<1>2. ASSUME NEW f \in Frames, Suspend(f) PROVE AtRest(x)'
  BY <1>2 DEF Suspend
<1>3. ASSUME NEW f \in Frames, Complete(f) PROVE AtRest(x)'
  BY <1>3 DEF Complete, HandlesOK
<1>4. ASSUME NEW f \in Frames, Drop(f) PROVE AtRest(x)'
  BY <1>4 DEF Drop, Destroyed
<1>5. ASSUME NEW f \in Frames, NEW r \in Outcomes \ {"nothing"}, NEW inline \in BOOLEAN,
             Finish(f, r, inline)
      PROVE  AtRest(x)'
  BY <1>5 DEF Finish, Destroyed, FrameOK, HandlesOK
<1>6. ASSUME NEW f \in Frames, FinishDetached(f) PROVE AtRest(x)'
  BY <1>6 DEF FinishDetached, Destroyed
<1>7. ASSUME NEW f \in Frames, AwaitResume(f) PROVE AtRest(x)'
  BY <1>7 DEF AwaitResume, Destroyed, HandlesOK, WaitOK
<1>8. ASSUME NEW f \in Frames, Deliver(f) PROVE AtRest(x)'
  <2>1. PICK after \in {"running", "dying"} :
          \A g \in Frames : at'[g] = IF g = f THEN "delivering"
                                   ELSE IF g = token[f] THEN after ELSE at[g]
    BY <1>8, FramesAssumption DEF Deliver, HandlesOK
  <2>2. /\ at[f] = "returning" /\ kind[f] = "trampoline"
        /\ token' = [token EXCEPT ![f] = NoFrame] /\ UNCHANGED <<kind, callee>>
    BY <1>8 DEF Deliver
  <2>3. CASE x = token[f]
    <3>1. at[x] = "waiting" /\ x # f
      BY <2>2, <2>3, FramesAssumption DEF HandlesOK
    <3>2. QED
      BY <2>1, <2>2, <2>3, <3>1
  <2>4. CASE x # token[f]
    BY <2>1, <2>2, <2>4
  <2>5. QED
    BY <2>3, <2>4
<1>9. ASSUME NEW f \in Frames, TrampolineEnds(f) PROVE AtRest(x)'
  BY <1>9 DEF TrampolineEnds, Destroyed
<1>10. ASSUME NEW f \in Frames, NEW p \in Frames \cup {Outside}, Create(p, f)
       PROVE  AtRest(x)'
  BY <1>10 DEF Create
<1>11. ASSUME NEW f \in Frames, NEW p \in Frames \cup {Outside}, StartDetached(p, f)
       PROVE  AtRest(x)'
  BY <1>11 DEF StartDetached
<1>12. ASSUME NEW f \in Frames, NEW p \in Frames \cup {Outside}, Discard(p, f)
       PROVE  AtRest(x)'
  BY <1>12 DEF Discard, Destroyed
<1>13. ASSUME NEW f \in Frames, NEW p \in Frames \cup {Outside}, AwaitPromise(p, f)
       PROVE  AtRest(x)'
  BY <1>13 DEF AwaitPromise, Calls, Body, BodyOK
<1>14. ASSUME NEW f \in Frames, NEW p \in Frames \cup {Outside}, NEW t \in Frames,
              NEW waiter \in {NoFrame, p}, Await(p, f, t, waiter)
       PROVE  AtRest(x)'
  BY <1>14, FramesAssumption DEF Await, StartCoro, Calls, Body, BodyOK, FrameOK
<1>15. QED
  BY <1>1, <1>2, <1>3, <1>4, <1>5, <1>6, <1>7, <1>8, <1>9, <1>10, <1>11, <1>12, <1>13,
     <1>14 DEF Next

(* The invariant the refinement rests on.                                  *)
LEMMA RestsInductive == RInv /\ [Next]_vars => RInv'
<1>1. CASE Next
  BY <1>1, StepRests, StepInv DEF RInv
<1>2. CASE UNCHANGED vars
  BY <1>2, StepInv DEF RInv, AtRest, vars
<1>3. QED
  BY <1>1, <1>2
-----------------------------------------------------------------------------
(* Frames that are going. *)

Dying == {f \in Frames : at[f] = "dying"}

\* Doomed is the least set that has the dying frames and what its members own.
DoomedIsLeast ==
  /\ Doomed \subseteq Frames /\ Dying \subseteq Doomed
  /\ \A g \in Doomed : Owned(g) \subseteq Doomed
  /\ \A f \in Doomed \ Dying : \E g \in Doomed : f \in Owned(g)
  /\ \A S \in SUBSET Frames :
       Dying \subseteq S /\ (\A g \in S : Owned(g) \subseteq S) => Doomed \subseteq S

(* A least set exists, and it has only what it must have.                  *)
LEMMA DoomedLeast == TypeOK => DoomedIsLeast
<1> SUFFICES ASSUME TypeOK PROVE DoomedIsLeast
  OBVIOUS
<1> DEFINE Closed(S) == Dying \subseteq S /\ \A g \in S : Owned(g) \subseteq S
<1>1. Doomed = {f \in Frames : \A S \in SUBSET Frames : Closed(S) => f \in S}
  BY DEF Doomed, Dying
<1>2. \A g \in Frames : Owned(g) \subseteq Frames
  BY DEF TypeOK, Owned
<1>3. \A g \in Doomed : Owned(g) \subseteq Doomed
  BY <1>1, <1>2
<1>4. Dying \subseteq Doomed
  BY <1>1 DEF Dying
<1>5. ASSUME NEW f \in Doomed \ Dying PROVE \E g \in Doomed : f \in Owned(g)
  <2> SUFFICES ASSUME \A g \in Doomed : f \notin Owned(g) PROVE FALSE
    OBVIOUS
  <2>1. Doomed \ {f} \in SUBSET Frames /\ Closed(Doomed \ {f})
    BY <1>1, <1>3, <1>4
  <2>2. f \in Doomed \ {f}
    BY <1>1, <2>1
  <2>3. QED
    BY <2>2
<1>6. ASSUME NEW S \in SUBSET Frames, Closed(S) PROVE Doomed \subseteq S
  BY <1>1, <1>6
<1>7. QED
  BY <1>1, <1>3, <1>4, <1>5, <1>6 DEF DoomedIsLeast

LEMMA DoomedNext == TypeOK' => DoomedIsLeast'
BY DoomedLeast, PTL

(* What one set of doomed frames has to do with the next.  Frames that no  *)
(* longer own something were not doomed, and R are those that join.        *)
LEMMA DoomedGrows ==
  ASSUME TypeOK, TypeOK', NEW R \in SUBSET Frames,
         \A g \in Doomed : Owned(g)' = Owned(g),
         Dying \subseteq Dying', Dying' \subseteq Dying \cup R,
         \A g \in R : Owned(g)' \subseteq Doomed \cup R
  PROVE  Doomed \subseteq Doomed' /\ Doomed' \subseteq Doomed \cup R
<1>1. DoomedIsLeast /\ DoomedIsLeast'
  BY DoomedLeast, DoomedNext
<1>2. Doomed \subseteq Doomed \cap Doomed'
  <2>1. \A g \in Doomed \cap Doomed' : Owned(g) \subseteq Doomed \cap Doomed'
    BY <1>1 DEF DoomedIsLeast
  <2>2. Dying \subseteq Doomed \cap Doomed' /\ Doomed \cap Doomed' \in SUBSET Frames
    BY <1>1 DEF DoomedIsLeast
  <2>3. QED
    BY <1>1, <2>1, <2>2 DEF DoomedIsLeast
<1>3. Doomed' \subseteq Doomed \cup R
  <2>1. \A g \in Doomed \cup R : Owned(g)' \subseteq Doomed \cup R
    BY <1>1 DEF DoomedIsLeast
  <2>2. Dying' \subseteq Doomed \cup R /\ Doomed \cup R \in SUBSET Frames
    BY <1>1 DEF DoomedIsLeast
  <2>3. QED
    BY <1>1, <2>1, <2>2 DEF DoomedIsLeast
<1>4. QED
  BY <1>2, <1>3

(* A doomed frame is dying, or suspended and held by another frame.        *)
LEMMA DoomedAreHeld ==
  ASSUME IInv, NEW f \in Doomed
  PROVE  /\ f \in Frames
         /\ at[f] = "dying" \/ (at[f] \in Suspended /\ handler[f] = "none")
         /\ at[f] = "dying" \/ \E g \in Doomed : f \in Owned(g)
<1>1. DoomedIsLeast
  BY DoomedLeast DEF IInv
<1>2. CASE f \in Dying
  BY <1>2 DEF Dying
<1>3. CASE f \notin Dying
  <2>1. PICK g \in Doomed : f \in Owned(g)
    BY <1>1, <1>3 DEF DoomedIsLeast
  <2>2. g \in Frames /\ f \in Frames
    BY <1>1 DEF DoomedIsLeast
  <2>3. at[f] \in {"ready", "waiting", "calling"} /\ (at[f] # "ready" => handler[f] = "none")
    BY <2>1, <2>2 DEF Owned, IInv, BodyOK, HandlesOK
  <2>4. at[f] = "ready" => handler[f] = "none"
    BY <2>2 DEF IInv, TypeOK, HandlesOK
  <2>5. QED
    BY <2>1, <2>2, <2>3, <2>4 DEF Suspended
<1>4. QED
  BY <1>2, <1>3

(* A frame that rests at its final suspension is not doomed, in either     *)
(* state of a step.                                                        *)
LEMMA RestingIsSafe == IInv => \A f \in Doomed : at[f] # "final" /\ at[f] # "delivering"
BY DoomedAreHeld DEF Suspended

LEMMA RestingNext == IInv' => \A f \in Doomed' : at'[f] # "final" /\ at'[f] # "delivering"
<1>1. IInv' => (\A f \in Doomed : at[f] # "final" /\ at[f] # "delivering")'
  BY RestingIsSafe, PTL
<1>2. QED
  BY <1>1

(* A frame in the body of one that is not doomed is not doomed either.     *)
LEMMA BodyIsSafe ==
  ASSUME IInv, NEW p \in Frames \cup {Outside}, p \notin Doomed, NEW f \in body[p]
  PROVE  f \notin Doomed
<1> SUFFICES ASSUME f \in Doomed PROVE FALSE
  OBVIOUS
<1>1. f \in Frames /\ at[f] = "ready"
  BY DEF IInv, TypeOK, BodyOK
<1>2. PICK g \in Doomed : f \in Owned(g)
  BY <1>1, DoomedAreHeld
<1>3. g \in Frames
  BY DoomedAreHeld
<1>4. f \in body[g]
  BY <1>1, <1>2, <1>3 DEF Owned, IInv, HandlesOK
<1>5. QED
  BY <1>1, <1>3, <1>4 DEF IInv, Unshared
-----------------------------------------------------------------------------
(* What coroutines wait for. *)

\* The frame that awaits on behalf of coroutine p: the trampoline of the
\* operation it awaits, or its own.
AwaitsFor(n, p) == token[n] = p \/ (n = p /\ \A t \in Frames : token[t] # p)

\* WaitsFor, without a choice.
WaitsForIs == \A p, n \in Frames : AwaitsFor(n, p) => WaitsFor(p) = callee[n]

LEMMA WaitsForKnown == Unshared => WaitsForIs
<1> SUFFICES ASSUME Unshared, NEW p \in Frames, NEW n \in Frames, AwaitsFor(n, p)
             PROVE  WaitsFor(p) = callee[n]
  BY DEF WaitsForIs
<1>1. CASE token[n] = p
  <2>1. (CHOOSE t \in Frames : token[t] = p) = n
    BY <1>1, FramesAssumption DEF Unshared
  <2>2. QED
    BY <1>1, <2>1 DEF WaitsFor
<1>2. CASE token[n] # p
  BY <1>2 DEF AwaitsFor, WaitsFor
<1>3. QED
  BY <1>1, <1>2

LEMMA WaitsForNext == Unshared' => WaitsForIs'
BY WaitsForKnown, PTL

\* Every coroutine has somebody who awaits for it, perhaps nothing.
LEMMA SomeAwaits ==
  ASSUME NEW p \in Frames
  PROVE  \E n \in Frames : AwaitsFor(n, p)
BY DEF AwaitsFor

(* A coroutine waits for what it waited for as long as the one that awaits *)
(* for it does not change.                                                 *)
LEMMA SameWait ==
  ASSUME IInv, IInv', NEW p \in Frames, callee'[p] = callee[p],
         \A t \in Frames : token'[t] = p <=> token[t] = p,
         \A t \in Frames : token[t] = p => callee'[t] = callee[t]
  PROVE  WaitsFor(p)' = WaitsFor(p)
<1>1. WaitsForIs /\ WaitsForIs'
  BY WaitsForKnown, WaitsForNext DEF IInv
<1>2. PICK n \in Frames : AwaitsFor(n, p)
  BY SomeAwaits
<1>3. AwaitsFor(n, p)' /\ callee'[n] = callee[n]
  BY <1>2 DEF AwaitsFor
<1>4. QED
  BY <1>1, <1>2, <1>3 DEF WaitsForIs

\* A coroutine that is under way, or over but not yet taken away.
UnderWay(f) ==
  /\ at[f] \in {"running", "waiting", "calling", "returning", "final"}
  /\ kind[f] # "trampoline"
  /\ \A t \in Frames : at[t] = "delivering" => callee[t] # f

LEMMA LiveIs == Live = {f \in Frames : UnderWay(f)} \ (Doomed \cup lost)
BY DEF Live, UnderWay

LEMMA LiveNext == Live' = {f \in Frames : UnderWay(f)'} \ (Doomed' \cup lost')
BY DEF Live, UnderWay

(* A live coroutine that waits does so in a frame that is still there, for *)
(* a callee that ended or will return to that frame.                       *)
LEMMA WhoWaits ==
  ASSUME RInv, NEW p \in Live, WaitsFor(p) # NoFrame
  PROVE  \E n \in Frames :
           /\ AwaitsFor(n, p) /\ callee[n] = WaitsFor(p) /\ at[n] \in {"calling", "returning"}
           /\ \/ at[WaitsFor(p)] = "final" /\ WaitsFor(p) \notin lost
              \/ caller[WaitsFor(p)] = n /\ at[n] = "calling" /\ handler[n] = "none"
<1>1. p \in Frames /\ UnderWay(p) /\ p \notin Doomed
  BY LiveIs
<1>2. PICK n \in Frames : AwaitsFor(n, p)
  BY <1>1, SomeAwaits
<1>3. callee[n] = WaitsFor(p)
  BY <1>1, <1>2, WaitsForKnown DEF RInv, IInv, WaitsForIs
<1>4. at[n] \in {"calling", "returning"}
  <2>1. CASE n = p
    BY <1>1, <1>3, <2>1 DEF RInv, AtRest, UnderWay
  <2>2. CASE n # p
    <3>1. token[n] = p /\ p \in Owned(n)
      BY <1>1, <1>2, <2>2, FramesAssumption DEF AwaitsFor, Owned
    <3>2. n \notin Doomed
      BY <1>1, <3>1, DoomedLeast DEF RInv, IInv, DoomedIsLeast
    <3>3. at[n] # "dying"
      BY <3>2, DoomedLeast DEF RInv, IInv, DoomedIsLeast, Dying
    <3>4. QED
      BY <1>1, <3>1, <3>3, FramesAssumption DEF RInv, AtRest
  <2>3. QED
    BY <2>1, <2>2
<1>5. handler[n] \in {"none", "hop"}
  BY <1>4 DEF RInv, IInv, TypeOK, HandlesOK
<1>6. QED
  BY <1>2, <1>3, <1>4, <1>5 DEF RInv, IInv, WaitOK

(* What a live coroutine waits for is a live coroutine.                    *)
LEMMA CalleeLives ==
  ASSUME RInv, NEW p \in Live, WaitsFor(p) # NoFrame
  PROVE  WaitsFor(p) \in Live
<1> DEFINE g == WaitsFor(p)
<1>1. p \in Frames /\ UnderWay(p) /\ p \notin Doomed
  BY LiveIs
<1>2. PICK n \in Frames :
        /\ AwaitsFor(n, p) /\ callee[n] = g /\ at[n] \in {"calling", "returning"}
        /\ \/ at[g] = "final" /\ g \notin lost
           \/ caller[g] = n /\ at[n] = "calling" /\ handler[n] = "none"
  BY WhoWaits
<1>3. g \in Frames
  BY <1>2 DEF RInv, IInv, TypeOK
<1> HIDE DEF g
<1>4. DoomedIsLeast
  BY DoomedLeast DEF RInv, IInv
<1>5. CASE at[g] = "final" /\ g \notin lost
  <2>1. g \notin Doomed
    BY <1>5, DoomedAreHeld DEF RInv, Suspended
  <2>2. kind[g] # "trampoline"
    BY <1>3, <1>5 DEF RInv, AtRest
  <2>3. \A t \in Frames : at[t] = "delivering" => callee[t] # g
    BY <1>2, <1>3, FramesAssumption DEF RInv, IInv, Unshared, Awaiting
  <2>4. QED
    BY <1>3, <1>5, <2>1, <2>2, <2>3, LiveIs DEF UnderWay, g
<1>6. CASE caller[g] = n /\ at[n] = "calling" /\ handler[n] = "none"
  <2>1. n \in Owned(g)
    BY <1>6, FramesAssumption DEF Owned
  <2>2. n \notin Doomed
    <3>1. n = p \/ p \in Owned(n)
      BY <1>1, <1>2, FramesAssumption DEF AwaitsFor, Owned
    <3>2. QED
      BY <1>1, <1>4, <3>1 DEF DoomedIsLeast
  <2>3. g \notin Doomed
    BY <1>4, <2>1, <2>2 DEF DoomedIsLeast
  <2>4. at[g] # "dying"
    BY <1>3, <1>4, <2>3 DEF DoomedIsLeast, Dying
  <2>5. at[g] \in {"running", "waiting", "calling", "returning"} /\ kind[g] = "promise"
    BY <1>2, <1>3, <1>6, <2>4, FramesAssumption DEF RInv, IInv, WaitOK, HandlesOK
  <2>6. g \notin lost
    BY <1>3, <2>5 DEF RInv, IInv, FinalOK
  <2>7. \A t \in Frames : at[t] = "delivering" => callee[t] # g
    BY <2>5 DEF RInv, IInv, WaitOK
  <2>8. QED
    BY <1>3, <2>3, <2>5, <2>6, <2>7, LiveIs DEF UnderWay, g
<1>7. QED
  BY <1>2, <1>5, <1>6
-----------------------------------------------------------------------------
(* The steps of Awaiting, in terms of Live and WaitsFor. *)

Same(S) == \A p \in S : WaitsFor(p)' = WaitsFor(p)

LEMMA Nothing ==
  ASSUME Live' = Live, Same(Live)
  PROVE  UNCHANGED [p \in Live |-> WaitsFor(p)]
BY DEF Same

LEMMA Begins ==
  ASSUME NEW f \in Frames, f \notin Live, Live' = Live \cup {f}, Same(Live),
         WaitsFor(f)' = NoFrame
  PROVE  Contract!Next
<1>1. Contract!Begin(f)
  BY DEF Contract!Begin, Contract!Begun, Same
<1>2. QED
  BY <1>1 DEF Contract!Next, Contract!Started

LEMMA Called ==
  ASSUME NEW f \in Frames, f \notin Live, NEW p \in Live, Live' = Live \cup {f},
         Same(Live \ {p}), WaitsFor(p) = NoFrame, WaitsFor(p)' = f, WaitsFor(f)' = NoFrame
  PROVE  Contract!Next
<1>1. Contract!Call(p, f)
  BY DEF Contract!Call, Contract!Begun, Same
<1>2. QED
  BY <1>1 DEF Contract!Next, Contract!Started

LEMMA Returned ==
  ASSUME NEW f \in Live, WaitsFor(f) = NoFrame, Live' = Live \ {f},
         \A p \in Live' :
           WaitsFor(p)' = IF WaitsFor(p) = f THEN NoFrame ELSE WaitsFor(p)
  PROVE  Contract!Next
<1>1. Contract!Return(f)
  BY DEF Contract!Return, Contract!GoOn
<1>2. QED
  BY <1>1 DEF Contract!Next, Contract!Started

LEMMA Abandoned ==
  ASSUME NEW f \in Live, WaitsFor(f) = NoFrame, f \notin Live', Live' \subseteq Live,
         Same(Live'),
         \A p \in Live : WaitsFor(p) \in Live \ Live' => p \notin Live',
         \A p \in Live \ Live' : p # f => WaitsFor(p) \in Live \ Live'
  PROVE  Contract!Next
<1>1. Contract!Waiters([p \in Live |-> WaitsFor(p)], f, Live \ Live')
  BY DEF Contract!Waiters
<1>2. Contract!Abandon(f)
  BY <1>1 DEF Contract!Abandon, Contract!Started, Contract!Restrict, Same
<1>3. QED
  BY <1>2 DEF Contract!Next, Contract!Started

(* A step that adds to the doomed frames none that is live, and leaves the *)
(* others where they were, cannot be seen.                                 *)
LEMMA Invisible ==
  ASSUME RInv, RInv', NEW R \in SUBSET Frames, UNCHANGED lost,
         \A g \in Doomed : Owned(g)' = Owned(g),
         Dying \subseteq Dying', Dying' \subseteq Dying \cup R,
         \A g \in R : Owned(g)' \subseteq Doomed \cup R,
         \A x \in R : x \notin Live /\ ~UnderWay(x)',
         \A x \in Frames \ (Doomed \cup R) : UnderWay(x)' <=> UnderWay(x),
         \A p \in Live : callee'[p] = callee[p] /\ \A t \in Frames :
           /\ token'[t] = p <=> token[t] = p
           /\ token[t] = p => callee'[t] = callee[t]
  PROVE  UNCHANGED [p \in Live |-> WaitsFor(p)]
<1>1. Doomed \subseteq Doomed' /\ Doomed' \subseteq Doomed \cup R
  BY DoomedGrows DEF RInv, IInv
<1>2. Live' = Live
  <2>1. ASSUME NEW x \in Frames PROVE x \in Live' <=> x \in Live
    BY <1>1, LiveIs, LiveNext
  <2>2. Live \subseteq Frames /\ Live' \subseteq Frames
    BY LiveIs, LiveNext
  <2>3. QED
    BY <2>1, <2>2
<1>3. Same(Live)
  <2>1. \A p \in Live : p \in Frames
    BY LiveIs
  <2>2. QED
    BY <2>1, SameWait DEF RInv, Same
<1>4. QED
  BY <1>2, <1>3, Nothing

(* The same for one that dooms nobody.                                     *)
LEMMA Unseen ==
  ASSUME RInv, RInv', UNCHANGED <<callee, token, lost>>,
         \A g \in Doomed : Owned(g)' = Owned(g), Dying' = Dying,
         \A x \in Frames : UnderWay(x)' <=> UnderWay(x)
  PROVE  UNCHANGED [p \in Live |-> WaitsFor(p)]
<1>1. /\ {} \in SUBSET Frames
      /\ \A g \in {} : Owned(g)' \subseteq Doomed \cup {}
      /\ \A x \in {} : x \notin Live /\ ~UnderWay(x)'
      /\ Dying \subseteq Dying' /\ Dying' \subseteq Dying \cup {}
      /\ \A x \in Frames \ (Doomed \cup {}) : UnderWay(x)' <=> UnderWay(x)
  OBVIOUS
<1>2. \A p \in Live : callee'[p] = callee[p] /\ \A t \in Frames :
        /\ token'[t] = p <=> token[t] = p
        /\ token[t] = p => callee'[t] = callee[t]
  OBVIOUS
<1>3. QED
  BY <1>1, <1>2, Invisible
-----------------------------------------------------------------------------
(* Steps that cannot be seen. *)

(* A promise object is made or goes before its coroutine started.          *)
LEMMA CreateUnseen ==
  ASSUME RInv, RInv', NEW p \in Frames \cup {Outside}, NEW f \in Frames, Create(p, f)
  PROVE  UNCHANGED [q \in Live |-> WaitsFor(q)]
<1>1. /\ p \notin Doomed /\ f \notin Doomed
      /\ at[f] = "none" /\ at' = [at EXCEPT ![f] = "ready"]
      /\ body' = [body EXCEPT ![p] = @ \cup {f}]
      /\ UNCHANGED <<kind, caller, callee, token, handler, result, lost>>
  BY DoomedAreHeld, FramesAssumption DEF Create, Body, RInv, Suspended
<1>2. \A g \in Doomed : Owned(g)' = Owned(g)
  BY <1>1, DoomedAreHeld DEF Owned, RInv, IInv, TypeOK
<1>3. Dying' = Dying
  BY <1>1 DEF Dying, RInv, IInv, TypeOK
<1>4. \A x \in Frames : UnderWay(x)' <=> UnderWay(x)
  BY <1>1 DEF UnderWay, RInv, IInv, TypeOK
<1>5. QED
  BY <1>1, <1>2, <1>3, <1>4, Unseen

LEMMA DiscardUnseen ==
  ASSUME RInv, RInv', NEW p \in Frames \cup {Outside}, NEW f \in Frames, Discard(p, f)
  PROVE  UNCHANGED [q \in Live |-> WaitsFor(q)]
<1>1. /\ p \notin Doomed /\ f \in body[p] /\ at[f] = "ready"
      /\ at' = Destroyed({f}) /\ body' = [body EXCEPT ![p] = @ \ {f}]
      /\ UNCHANGED <<kind, caller, callee, token, handler, result, lost>>
  BY DoomedAreHeld, FramesAssumption
  DEF Discard, Body, RInv, IInv, BodyOK, Suspended
<1>2. \A g \in Doomed : Owned(g)' = Owned(g)
  BY <1>1, DoomedAreHeld DEF Owned, RInv, IInv, TypeOK
<1>3. Dying \subseteq Dying' /\ Dying' \subseteq Dying \cup {f}
  BY <1>1 DEF Dying, Destroyed
<1>4. Owned(f)' = {}
  BY <1>1 DEF Owned, RInv, IInv, TypeOK, FrameOK
<1>5. f \notin Live /\ ~UnderWay(f)'
  BY <1>1, LiveIs DEF UnderWay, Destroyed
<1>6. \A x \in Frames \ {f} : UnderWay(x)' <=> UnderWay(x)
  BY <1>1 DEF UnderWay, Destroyed
<1>7. QED
  BY <1>1, <1>2, <1>3, <1>4, <1>5, <1>6, Invisible

(* A coroutine suspends, and its handler resumes it.                       *)
LEMMA SuspendUnseen ==
  ASSUME RInv, RInv', NEW f \in Frames, Suspend(f) \/ Complete(f)
  PROVE  UNCHANGED [q \in Live |-> WaitsFor(q)]
<1>1. /\ at[f] \in {"running", "waiting", "calling"}
      /\ \E a \in {"running", "waiting", "returning"} : at' = [at EXCEPT ![f] = a]
      /\ UNCHANGED <<kind, caller, callee, body, token, lost>>
  BY DEF Suspend, Complete, RInv, IInv, TypeOK, HandlesOK
<1>2. \A g \in Doomed : Owned(g)' = Owned(g)
  BY <1>1 DEF Owned
<1>3. Dying' = Dying
  BY <1>1 DEF Dying, RInv, IInv, TypeOK
<1>4. \A x \in Frames : UnderWay(x)' <=> UnderWay(x)
  BY <1>1 DEF UnderWay, RInv, IInv, TypeOK
<1>5. QED
  BY <1>1, <1>2, <1>3, <1>4, Unseen

(* A promise ends: its frame rests until the caller took the result.       *)
LEMMA FinishUnseen ==
  ASSUME RInv, RInv', NEW f \in Frames, NEW r \in Outcomes \ {"nothing"},
         NEW inline \in BOOLEAN, Finish(f, r, inline)
  PROVE  UNCHANGED [q \in Live |-> WaitsFor(q)]
<1> DEFINE p == caller[f]
<1>1. /\ p \in Frames /\ p # f /\ at[p] = "calling" /\ at[f] = "running"
      /\ p \notin body[f] /\ f \notin body[f] /\ body[f] \subseteq Frames
      /\ kind[f] = "promise"
  BY DEF Finish, RInv, IInv, TypeOK, FrameOK, HandlesOK, BodyOK
<1>a. \A g \in Frames :
        at'[g] = CASE g = f -> "final"
                   [] g = p -> IF inline THEN "returning" ELSE "calling"
                   [] g \in body[f] -> "dying"
                   [] OTHER -> at[g]
  <2>1. at' = [Destroyed(body[f]) EXCEPT
                 ![f] = "final", ![p] = IF inline THEN "returning" ELSE @]
    BY DEF Finish
  <2>2. QED
    BY <1>1, <2>1 DEF Destroyed
<1>b. /\ caller' = [caller EXCEPT ![f] = NoFrame] /\ body' = [body EXCEPT ![f] = {}]
      /\ UNCHANGED <<kind, callee, token, lost>>
  BY DEF Finish
<1> HIDE DEF p
<1>3. \A x \in body[f] : at[x] = "ready" /\ Owned(x) = {}
  BY <1>1 DEF RInv, IInv, BodyOK, FrameOK, Owned
<1>4. \A g \in Frames \ {f} : Owned(g)' = Owned(g)
  BY <1>b DEF Owned, RInv, IInv, TypeOK
<1>5. f \notin Doomed
  BY <1>1, DoomedAreHeld DEF RInv, Suspended
<1>6. Dying \subseteq Dying' /\ Dying' \subseteq Dying \cup body[f]
  BY <1>1, <1>a DEF Dying
<1>7. \A g \in Doomed : Owned(g)' = Owned(g)
  BY <1>4, <1>5, DoomedAreHeld DEF RInv
<1>8. \A g \in body[f] : Owned(g)' \subseteq Doomed \cup body[f]
  BY <1>1, <1>3, <1>4
<1>9. \A x \in body[f] : x \notin Live /\ ~UnderWay(x)'
  BY <1>1, <1>a, <1>b, <1>3, LiveIs DEF UnderWay
<1>10. \A x \in Frames \ body[f] : UnderWay(x)' <=> UnderWay(x)
  <2>1. \A t \in Frames : at'[t] = "delivering" <=> at[t] = "delivering"
    BY <1>1, <1>a, <1>3
  <2>2. \A x \in Frames \ body[f] :
          at'[x] \in {"running", "waiting", "calling", "returning", "final"} <=>
          at[x] \in {"running", "waiting", "calling", "returning", "final"}
    BY <1>1, <1>a
  <2>3. QED
    BY <1>b, <2>1, <2>2 DEF UnderWay
<1>11. QED
  BY <1>1, <1>b, <1>6, <1>7, <1>8, <1>9, <1>10, Invisible

(* A destructor passes on to the frames its own frame held.                *)
LEMMA ReleaseUnseen ==
  ASSUME RInv, RInv', NEW f \in Frames, Release(f)
  PROVE  UNCHANGED [q \in Live |-> WaitsFor(q)]
<1>1. /\ at[f] = "dying"
      /\ \A g \in Frames :
           at'[g] = IF g = f THEN "none" ELSE IF g \in Owned(f) THEN "dying" ELSE at[g]
      /\ callee' = [callee EXCEPT ![f] = NoFrame] /\ token' = [token EXCEPT ![f] = NoFrame]
      /\ caller' = [caller EXCEPT ![f] = NoFrame] /\ body' = [body EXCEPT ![f] = {}]
      /\ kind' = [kind EXCEPT ![f] = "promise"] /\ UNCHANGED lost
  BY DEF Release, Destroyed, RInv, IInv, TypeOK
<1>2. DoomedIsLeast /\ DoomedIsLeast'
  BY DoomedLeast, DoomedNext DEF RInv, IInv
<1>3. /\ f \in Doomed /\ Owned(f) \subseteq Doomed
      /\ \A g \in Owned(f) : at[g] \in {"ready", "waiting", "calling"} /\ g # f
  BY <1>1, <1>2 DEF DoomedIsLeast, Dying, Owned, RInv, IInv, BodyOK, HandlesOK
<1>4. Owned(f)' = {} /\ \A g \in Frames \ {f} : Owned(g)' = Owned(g)
  BY <1>1 DEF Owned, RInv, IInv, TypeOK
<1>5. Dying' = (Dying \ {f}) \cup Owned(f)
  BY <1>1, <1>2, <1>3 DEF Dying, DoomedIsLeast
<1>6. Doomed' \subseteq Doomed
  <2>1. \A g \in Doomed : Owned(g)' \subseteq Doomed
    BY <1>2, <1>4 DEF DoomedIsLeast
  <2>2. Dying' \subseteq Doomed /\ Doomed \in SUBSET Frames
    BY <1>2, <1>3, <1>5 DEF DoomedIsLeast
  <2>3. QED
    BY <1>2, <2>1, <2>2 DEF DoomedIsLeast
<1>7. Doomed \subseteq Doomed' \cup {f}
  <2>1. \A g \in Doomed' \cup {f} : Owned(g) \subseteq Doomed' \cup {f}
    BY <1>2, <1>4, <1>5 DEF DoomedIsLeast
  <2>2. Dying \subseteq Doomed' \cup {f} /\ Doomed' \cup {f} \in SUBSET Frames
    BY <1>2, <1>5 DEF DoomedIsLeast
  <2>3. QED
    BY <1>2, <2>1, <2>2 DEF DoomedIsLeast
<1>8. \A x \in Frames \ Doomed : UnderWay(x)' <=> UnderWay(x)
  <2>1. \A t \in Frames : at'[t] = "delivering" <=> at[t] = "delivering"
    BY <1>1, <1>3
  <2>2. \A t \in Frames : at'[t] = "delivering" => callee'[t] = callee[t]
    BY <1>1 DEF RInv, IInv, TypeOK
  <2>3. \A x \in Frames \ Doomed : at'[x] = at[x] /\ kind'[x] = kind[x]
    BY <1>1, <1>3 DEF RInv, IInv, TypeOK
  <2>4. QED
    BY <2>1, <2>2, <2>3 DEF UnderWay
<1>9. ~UnderWay(f)'
  BY <1>1 DEF UnderWay
<1>10. Live' = Live
  <2>1. ASSUME NEW x \in Frames PROVE x \in Live' <=> x \in Live
    BY <1>1, <1>3, <1>6, <1>7, <1>8, <1>9, LiveIs, LiveNext
  <2>2. Live \subseteq Frames /\ Live' \subseteq Frames
    BY LiveIs, LiveNext
  <2>3. QED
    BY <2>1, <2>2
<1>11. Same(Live)
  <2> SUFFICES ASSUME NEW p \in Live PROVE WaitsFor(p)' = WaitsFor(p)
    BY DEF Same
  <2>1. p \in Frames /\ p \notin Doomed
    BY LiveIs
  <2>2. p # f /\ token[f] # p
    BY <1>3, <2>1, FramesAssumption DEF Owned
  <2>3. /\ callee'[p] = callee[p]
        /\ \A t \in Frames : token'[t] = p <=> token[t] = p
        /\ \A t \in Frames : token[t] = p => callee'[t] = callee[t]
    BY <1>1, <2>1, <2>2, FramesAssumption DEF RInv, IInv, TypeOK
  <2>4. QED
    BY <2>1, <2>3, SameWait DEF RInv
<1>12. QED
  BY <1>10, <1>11, Nothing

(* The trampoline goes with the callee whose result was delivered.         *)
LEMMA TrampolineEndsUnseen ==
  ASSUME RInv, RInv', NEW f \in Frames, TrampolineEnds(f)
  PROVE  UNCHANGED [q \in Live |-> WaitsFor(q)]
<1> DEFINE c == callee[f]
<1> DEFINE R == {f, c} \cup body[f]
<1>1. /\ at[f] = "delivering" /\ c \in Frames /\ at[c] = "final" /\ body[f] \subseteq Frames
      /\ \A x \in body[f] : at[x] = "ready"
      /\ token[f] = NoFrame /\ caller[f] = NoFrame
  BY DEF TrampolineEnds, RInv, IInv, TypeOK, WaitOK, BodyOK, AtRest, HandlesOK, FrameOK
<1>2. /\ \A g \in Frames : at'[g] = IF g \in {f, c} THEN "dying" ELSE at[g]
      /\ callee' = [callee EXCEPT ![f] = NoFrame]
      /\ UNCHANGED <<kind, caller, body, token, lost>>
  BY DEF TrampolineEnds, Destroyed
<1>3. \A g \in Frames : Owned(g)' = Owned(g)
  BY <1>2 DEF Owned
<1>4. Owned(f) = body[f] /\ Owned(c) = {} /\ \A x \in body[f] : Owned(x) = {}
  BY <1>1, FramesAssumption DEF Owned, RInv, IInv, FrameOK
<1> HIDE DEF c
<1>5. Dying \subseteq Dying' /\ Dying' \subseteq Dying \cup R
  BY <1>1, <1>2 DEF Dying
<1>6. \A x \in R : x \notin Live /\ ~UnderWay(x)'
  BY <1>1, <1>2, LiveIs DEF UnderWay, c
<1>7. \A x \in Frames \ R : UnderWay(x)' <=> UnderWay(x)
  <2>1. \A t \in Frames \ {f} :
          /\ at'[t] = "delivering" <=> at[t] = "delivering"
          /\ callee'[t] = callee[t]
    BY <1>1, <1>2 DEF RInv, IInv, TypeOK
  <2>2. at'[f] # "delivering"
    BY <1>2
  <2>3. \A x \in Frames \ R : at'[x] = at[x] /\ kind'[x] = kind[x] /\ callee[f] # x
    BY <1>1, <1>2 DEF c
  <2>4. QED
    BY <2>1, <2>2, <2>3 DEF UnderWay
<1>8. \A p \in Live : callee'[p] = callee[p] /\ \A t \in Frames :
        /\ token'[t] = p <=> token[t] = p
        /\ token[t] = p => callee'[t] = callee[t]
  <2>1. \A p \in Live : p \in Frames /\ p # f
    BY <1>6, LiveIs
  <2>2. QED
    BY <1>1, <1>2, <2>1, FramesAssumption DEF RInv, IInv, TypeOK
<1>9. R \in SUBSET Frames
  BY <1>1
<1>10. \A g \in R : Owned(g)' \subseteq Doomed \cup R
  BY <1>1, <1>3, <1>4
<1>11. \A g \in Doomed : Owned(g)' = Owned(g)
  BY <1>3, DoomedAreHeld DEF RInv
<1> HIDE DEF R
<1>12. QED
  BY <1>2, <1>5, <1>6, <1>7, <1>8, <1>9, <1>10, <1>11, Invisible
-----------------------------------------------------------------------------
(* Coroutines that start. *)

\* A coroutine that runs waits for nothing, nor does one whose operation runs.
FreeWaitsForNone ==
  \A f \in Frames :
    at[f] \in {"running", "final"} \/ handler[f] = "operation" => WaitsFor(f) = NoFrame

LEMMA FreeWaits == RInv => FreeWaitsForNone
<1> SUFFICES ASSUME RInv, NEW f \in Frames,
                    at[f] \in {"running", "final"} \/ handler[f] = "operation"
             PROVE  WaitsFor(f) = NoFrame
  BY DEF FreeWaitsForNone
<1>1. \A t \in Frames : token[t] # f
  BY FramesAssumption DEF RInv, IInv, HandlesOK
<1>2. at[f] \in {"running", "waiting", "final"}
  BY DEF RInv, IInv, HandlesOK
<1>3. WaitsFor(f) = callee[f]
  BY <1>1, WaitsForKnown DEF RInv, IInv, WaitsForIs, AwaitsFor
<1>4. QED
  BY <1>2, <1>3 DEF RInv, AtRest

LEMMA FreeWaitsNext == RInv' => FreeWaitsForNone'
BY FreeWaits, PTL

(* Code that can await is in a live coroutine.                             *)
LEMMA BodyLives ==
  ASSUME RInv, NEW p \in Frames, at[p] = "running"
  PROVE  p \in Live
<1>1. p \notin Doomed
  BY DoomedAreHeld DEF RInv, Suspended
<1>2. p \notin lost /\ kind[p] # "trampoline"
  BY DEF RInv, IInv, FinalOK, AtRest
<1>3. \A t \in Frames : at[t] = "delivering" => callee[t] # p
  BY DEF RInv, IInv, WaitOK
<1>4. QED
  BY <1>1, <1>2, <1>3, LiveIs DEF UnderWay

(* A step that dooms nobody: the live coroutines are those under way.      *)
LEMMA LiveAfter ==
  ASSUME RInv, RInv', UNCHANGED lost, Dying' = Dying,
         \A g \in Doomed : Owned(g)' = Owned(g), NEW f \in Frames, f \notin Doomed,
         \A x \in Frames \ {f} : UnderWay(x)' <=> UnderWay(x), UnderWay(f)', f \notin lost
  PROVE  Live' = Live \cup {f}
<1>1. Doomed' = Doomed
  <2>1. /\ {} \in SUBSET Frames
        /\ \A g \in {} : Owned(g)' \subseteq Doomed \cup {}
        /\ Dying \subseteq Dying' /\ Dying' \subseteq Dying \cup {}
    OBVIOUS
  <2>2. QED
    BY <2>1, DoomedGrows DEF RInv, IInv
<1>2. \A x \in Frames : x \in Live' <=> x \in Live \cup {f}
  BY <1>1, LiveIs, LiveNext
<1>3. Live \subseteq Frames /\ Live' \subseteq Frames
  BY LiveIs, LiveNext
<1>4. QED
  BY <1>2, <1>3

(* A detached coroutine is called.                                         *)
LEMMA StartDetachedBegins ==
  ASSUME RInv, RInv', NEW p \in Frames \cup {Outside}, NEW f \in Frames,
         StartDetached(p, f)
  PROVE  Contract!Next
<1>1. /\ at[f] = "none" /\ at' = [at EXCEPT ![f] = "running"]
      /\ kind' = [kind EXCEPT ![f] = "detached"]
      /\ UNCHANGED <<caller, callee, body, token, handler, result, lost>>
  BY DEF StartDetached
<1>2. f \notin Doomed /\ f \notin lost /\ f \notin Live
  BY <1>1, DoomedAreHeld, LiveIs DEF RInv, IInv, FinalOK, Suspended, UnderWay
<1>3. Dying' = Dying /\ \A g \in Doomed : Owned(g)' = Owned(g)
  BY <1>1 DEF Dying, Owned, RInv, IInv, TypeOK
<1>4. \A x \in Frames \ {f} : UnderWay(x)' <=> UnderWay(x)
  BY <1>1 DEF UnderWay, RInv, IInv, TypeOK
<1>5. UnderWay(f)'
  BY <1>1 DEF UnderWay, RInv, IInv, TypeOK, WaitOK
<1>6. Live' = Live \cup {f}
  BY <1>1, <1>2, <1>3, <1>4, <1>5, LiveAfter
<1>7. Same(Live)
  BY <1>1, LiveIs, SameWait DEF RInv, Same
<1>8. WaitsFor(f)' = NoFrame
  BY <1>1, FreeWaitsNext DEF FreeWaitsForNone, RInv, IInv, TypeOK
<1>9. QED
  BY <1>2, <1>6, <1>7, <1>8, Begins

(* co_await of a promise.                                                  *)
LEMMA AwaitPromiseCalls ==
  ASSUME RInv, RInv', NEW p \in Frames \cup {Outside}, NEW f \in Frames,
         AwaitPromise(p, f)
  PROVE  Contract!Next
<1>1. /\ p \in Frames /\ at[p] = "running" /\ f \in body[p] /\ at[f] = "ready" /\ f # p
      /\ at' = [at EXCEPT ![p] = "calling", ![f] = "running"]
      /\ body' = [body EXCEPT ![p] = @ \ {f}]
      /\ callee' = [callee EXCEPT ![p] = f] /\ caller' = [caller EXCEPT ![f] = p]
      /\ UNCHANGED <<kind, token, handler, result, lost>>
  BY DEF AwaitPromise, Body, Taken, Calls, RInv, IInv, BodyOK
<1>2. p \in Live
  BY <1>1, BodyLives
<1>3. p \notin Doomed /\ f \notin Doomed
  BY <1>1, <1>2, BodyIsSafe, LiveIs DEF RInv
<1>4. f \notin lost /\ f \notin Live
  BY <1>1, LiveIs DEF RInv, IInv, FinalOK, UnderWay
<1>5. Dying' = Dying
  BY <1>1 DEF Dying, RInv, IInv, TypeOK
<1>6. \A g \in Doomed : Owned(g)' = Owned(g)
  BY <1>1, <1>3, DoomedAreHeld DEF Owned, RInv, IInv, TypeOK
<1>7. \A t \in Frames :
        /\ at'[t] = "delivering" <=> at[t] = "delivering"
        /\ at'[t] = "delivering" => callee'[t] = callee[t]
  BY <1>1 DEF RInv, IInv, TypeOK
<1>8. \A x \in Frames \ {f} : UnderWay(x)' <=> UnderWay(x)
  BY <1>1, <1>7 DEF UnderWay, RInv, IInv, TypeOK
<1>9. UnderWay(f)'
  BY <1>1, <1>7 DEF UnderWay, RInv, IInv, TypeOK, WaitOK, FrameOK
<1>10. Live' = Live \cup {f}
  BY <1>1, <1>3, <1>4, <1>5, <1>6, <1>8, <1>9, LiveAfter
<1>11. Same(Live \ {p})
  <2> SUFFICES ASSUME NEW q \in Live, q # p PROVE WaitsFor(q)' = WaitsFor(q)
    BY DEF Same
  <2>1. q \in Frames
    BY LiveIs
  <2>2. /\ callee'[q] = callee[q]
        /\ \A t \in Frames : token'[t] = q <=> token[t] = q
        /\ \A t \in Frames : token[t] = q => callee'[t] = callee[t]
    BY <1>1, <2>1, FramesAssumption DEF RInv, IInv, TypeOK, AtRest
  <2>3. QED
    BY <2>1, <2>2, SameWait DEF RInv
<1>12. WaitsFor(p) = NoFrame
  BY <1>1, FreeWaits DEF FreeWaitsForNone
<1>13. WaitsFor(f)' = NoFrame
  BY <1>1, FreeWaitsNext DEF FreeWaitsForNone, RInv, IInv, TypeOK
<1>14. WaitsFor(p)' = f
  <2>1. AwaitsFor(p, p)'
    BY <1>1, FramesAssumption DEF AwaitsFor, RInv, IInv, HandlesOK
  <2>2. WaitsFor(p)' = callee'[p]
    BY <1>1, <2>1, WaitsForNext DEF RInv, IInv, WaitsForIs
  <2>3. QED
    BY <1>1, <2>2 DEF RInv, IInv, TypeOK
<1>15. QED
  BY <1>2, <1>4, <1>10, <1>11, <1>12, <1>13, <1>14, Called

(* await() starts a promise, for a callback or for the coroutine that      *)
(* awaits the operation.                                                   *)
LEMMA AwaitStarts ==
  ASSUME RInv, RInv', NEW p \in Frames \cup {Outside}, NEW f \in Frames, NEW t \in Frames,
         NEW w \in {NoFrame, p}, Await(p, f, t, w)
  PROVE  Contract!Next
<1>1. /\ Body(p) /\ w # Outside /\ at[t] = "none" /\ f # t /\ (f \in body[p] \/ at[f] = "none")
      /\ body' = [body EXCEPT ![p] = @ \ {f}]
      /\ callee' = [callee EXCEPT ![t] = f] /\ caller' = [caller EXCEPT ![f] = t]
      /\ token' = [token EXCEPT ![t] = w] /\ kind' = [kind EXCEPT ![t] = "trampoline"]
      /\ UNCHANGED <<handler, lost>>
  BY DEF Await, Taken, Calls, StartCoro
<1>2. /\ at[f] \in {"none", "ready"} /\ \A g \in Frames : g = w => at[g] = "running"
      /\ w # NoFrame => w = p /\ p \in Frames /\ at[p] = "running"
  BY <1>1, FramesAssumption DEF Body, RInv, IInv, BodyOK
<1>3. /\ f # w /\ t # w
      /\ \A g \in Frames :
           at'[g] = IF g = t THEN "calling" ELSE IF g = f THEN "running"
                    ELSE IF g = w THEN "waiting" ELSE at[g]
  <2>1. f # w /\ t # w
    BY <1>1, <1>2, FramesAssumption
  <2>2. at' = [g \in Frames |->
          CASE g = t -> "calling" [] g = f -> "running" [] g = w -> "waiting"
            [] OTHER -> at[g]]
    BY DEF Await
  <2>3. QED
    BY <1>1, <2>1, <2>2
<1>4. p \notin Doomed
  BY <1>1, DoomedAreHeld, FramesAssumption DEF Body, RInv, Suspended
<1>5. f \notin Doomed /\ t \notin Doomed
  BY <1>1, <1>4, BodyIsSafe, DoomedAreHeld DEF RInv, Suspended
<1>6. f \notin lost /\ f \notin Live
  BY <1>2, LiveIs DEF RInv, IInv, FinalOK, UnderWay
<1>7. Dying' = Dying
  BY <1>1, <1>2, <1>3 DEF Dying
<1>8. \A g \in Doomed : Owned(g)' = Owned(g)
  BY <1>1, <1>4, <1>5, DoomedAreHeld DEF Owned, RInv, IInv, TypeOK
<1>9. \A u \in Frames :
        /\ at'[u] = "delivering" <=> at[u] = "delivering"
        /\ at'[u] = "delivering" => callee'[u] = callee[u]
  BY <1>1, <1>2, <1>3 DEF RInv, IInv, TypeOK
<1>10. \A x \in Frames \ {f} : UnderWay(x)' <=> UnderWay(x)
  <2> SUFFICES ASSUME NEW x \in Frames \ {f} PROVE UnderWay(x)' <=> UnderWay(x)
    OBVIOUS
  <2>1. CASE x = t
    BY <1>1, <2>1 DEF UnderWay, RInv, IInv, TypeOK
  <2>2. CASE x # t
    BY <1>1, <1>2, <1>3, <1>9, <2>2 DEF UnderWay, RInv, IInv, TypeOK
  <2>3. QED
    BY <2>1, <2>2
<1>11. UnderWay(f)'
  <2>1. at'[f] = "running" /\ kind'[f] = "promise"
    BY <1>1, <1>2, <1>3 DEF RInv, IInv, TypeOK, FrameOK
  <2>2. \A u \in Frames : at'[u] = "delivering" => callee'[u] # f
    BY <2>1 DEF RInv, IInv, WaitOK
  <2>3. QED
    BY <2>1, <2>2 DEF UnderWay
<1>12. Live' = Live \cup {f}
  BY <1>1, <1>5, <1>6, <1>7, <1>8, <1>10, <1>11, LiveAfter
<1>13. \A q \in Live : q \in Frames /\ q # t
  BY <1>1, LiveIs DEF UnderWay
<1>14. token[t] = NoFrame
  BY <1>1 DEF RInv, AtRest
<1>15. Same(Live \ {w})
  <2> SUFFICES ASSUME NEW q \in Live, q # w PROVE WaitsFor(q)' = WaitsFor(q)
    BY DEF Same
  <2>1. /\ callee'[q] = callee[q]
        /\ \A u \in Frames : token'[u] = q <=> token[u] = q
        /\ \A u \in Frames : token[u] = q => callee'[u] = callee[u]
    BY <1>1, <1>13, <1>14, FramesAssumption DEF RInv, IInv, TypeOK
  <2>2. QED
    BY <1>13, <2>1, SameWait DEF RInv
<1>16. WaitsFor(f)' = NoFrame
  <2>1. at'[f] = "running"
    BY <1>1, <1>3
  <2>2. QED
    BY <2>1, FreeWaitsNext DEF FreeWaitsForNone
<1>17. CASE w = NoFrame
  <2>1. Same(Live)
    BY <1>13, <1>15, <1>17, FramesAssumption DEF Same
  <2>2. QED
    BY <1>6, <1>12, <1>16, <2>1, Begins
<1>18. CASE w # NoFrame
  <2>1. p \in Live /\ w = p /\ p \in Frames
    BY <1>2, <1>18, BodyLives
  <2>2. WaitsFor(p) = NoFrame
    BY <1>2, <1>18, FreeWaits DEF FreeWaitsForNone
  <2>3. WaitsFor(p)' = f
    <3>1. AwaitsFor(t, p)' /\ callee'[t] = f
      BY <1>1, <2>1 DEF AwaitsFor, RInv, IInv, TypeOK
    <3>2. QED
      BY <2>1, <3>1, WaitsForNext DEF RInv, IInv, WaitsForIs
  <2>4. QED
    BY <1>6, <1>12, <1>15, <1>16, <2>1, <2>2, <2>3, Called
<1>19. QED
  BY <1>17, <1>18
-----------------------------------------------------------------------------
(* Coroutines that return. *)

(* The live coroutine f leaves, R with it, and nobody else.                *)
LEMMA LiveLeft ==
  ASSUME RInv, RInv', NEW R \in SUBSET Frames, UNCHANGED lost,
         \A g \in Doomed : Owned(g)' = Owned(g),
         Dying \subseteq Dying', Dying' \subseteq Dying \cup R,
         \A g \in R : Owned(g)' \subseteq Doomed \cup R,
         NEW f \in Live, \A x \in R \ {f} : x \notin Live,
         \A x \in R \cup {f} : ~UnderWay(x)',
         \A x \in Frames \ (Doomed \cup R \cup {f}) : UnderWay(x)' <=> UnderWay(x)
  PROVE  Live' = Live \ {f}
<1>1. Doomed \subseteq Doomed' /\ Doomed' \subseteq Doomed \cup R
  BY DoomedGrows DEF RInv, IInv
<1>2. ASSUME NEW x \in Frames PROVE x \in Live' <=> x \in Live \ {f}
  BY <1>1, LiveIs, LiveNext
<1>3. Live \subseteq Frames /\ Live' \subseteq Frames
  BY LiveIs, LiveNext
<1>4. QED
  BY <1>2, <1>3

(* A detached coroutine ends; nobody waited for it.                        *)
LEMMA FinishDetachedReturns ==
  ASSUME RInv, RInv', NEW f \in Frames, FinishDetached(f)
  PROVE  Contract!Next
<1>1. /\ at[f] = "running" /\ kind[f] = "detached"
      /\ \A g \in Frames : at'[g] = IF g = f THEN "dying" ELSE at[g]
      /\ UNCHANGED <<kind, caller, callee, body, token, handler, result, lost>>
  BY DEF FinishDetached, Destroyed
<1>2. f \in Live /\ WaitsFor(f) = NoFrame
  BY <1>1, BodyLives, FreeWaits DEF FreeWaitsForNone
<1>3. \A g \in Frames : Owned(g)' = Owned(g)
  BY <1>1 DEF Owned
<1>4. /\ Owned(f) = body[f] /\ body[f] \subseteq Frames
      /\ \A x \in body[f] : at[x] = "ready" /\ Owned(x) = {}
  <2>1. /\ body[f] \subseteq Frames /\ \A x \in body[f] : at[x] = "ready"
        /\ caller[f] = NoFrame /\ token[f] = NoFrame
    BY <1>1 DEF RInv, IInv, TypeOK, HandlesOK, BodyOK
  <2>2. NoFrame \notin body[f]
    BY <2>1, FramesAssumption
  <2>3. Owned(f) = body[f]
    BY <2>1, <2>2 DEF Owned
  <2>4. \A x \in body[f] : Owned(x) = {}
    BY <2>1 DEF Owned, RInv, IInv, FrameOK
  <2>5. QED
    BY <2>1, <2>3, <2>4
<1> DEFINE R == {f} \cup body[f]
<1>5. /\ R \in SUBSET Frames /\ Dying \subseteq Dying' /\ Dying' \subseteq Dying \cup R
      /\ \A g \in R : Owned(g)' \subseteq Doomed \cup R
  BY <1>1, <1>3, <1>4 DEF Dying
<1>6. /\ \A x \in R \ {f} : x \notin Live
      /\ \A x \in R \cup {f} : ~UnderWay(x)'
      /\ \A x \in Frames \ {f} : UnderWay(x)' <=> UnderWay(x)
  BY <1>1, <1>4, LiveIs DEF UnderWay
<1>7. \A g \in Doomed : Owned(g)' = Owned(g)
  BY <1>3, DoomedAreHeld DEF RInv
<1>8. Live' = Live \ {f}
  <2> HIDE DEF R
  <2>1. QED
    BY <1>1, <1>2, <1>5, <1>6, <1>7, LiveLeft
<1>9. ASSUME NEW p \in Live' PROVE WaitsFor(p)' = IF WaitsFor(p) = f THEN NoFrame ELSE WaitsFor(p)
  <2>1. p \in Live /\ p \in Frames
    BY <1>8, LiveIs
  <2>2. WaitsFor(p)' = WaitsFor(p)
    BY <1>1, <2>1, SameWait DEF RInv
  <2>3. WaitsFor(p) # f
    BY <1>1, <2>1, WhoWaits, FramesAssumption DEF RInv, IInv, HandlesOK
  <2>4. QED
    BY <2>2, <2>3
<1>10. QED
  BY <1>2, <1>8, <1>9, Returned

(* A callee that is awaited is awaited by nobody else.                     *)
LEMMA OnlyWaiter ==
  ASSUME RInv, NEW n \in Frames, callee[n] # NoFrame, at[n] \in Awaiting,
         NEW q \in Live, WaitsFor(q) = callee[n]
  PROVE  AwaitsFor(n, q)
<1>1. PICK m \in Frames : AwaitsFor(m, q) /\ callee[m] = callee[n] /\ at[m] \in Awaiting
  BY WhoWaits DEF Awaiting
<1>2. m = n
  BY <1>1 DEF RInv, IInv, Unshared
<1>3. QED
  BY <1>1, <1>2

(* A result that is on its way belongs to a live coroutine.                *)
LEMMA EndedLives ==
  ASSUME RInv, NEW n \in Frames, at[n] = "returning" \/ handler[n] = "hop"
  PROVE  /\ callee[n] \in Live /\ at[callee[n]] = "final" /\ callee[n] # n
         /\ Owned(callee[n]) = {} /\ WaitsFor(callee[n]) = NoFrame
<1> DEFINE c == callee[n]
<1>1. /\ c \in Frames /\ at[c] = "final" /\ c # n /\ c \notin lost
      /\ at[n] \in {"returning", "calling"}
  BY DEF RInv, IInv, TypeOK, WaitOK, HandlesOK
<1>2. \A t \in Frames : at[t] = "delivering" => callee[t] # c
  BY <1>1, FramesAssumption DEF RInv, IInv, Unshared, Awaiting
<1>3. kind[c] # "trampoline" /\ c \notin Doomed
  BY <1>1, DoomedAreHeld DEF RInv, AtRest, Suspended
<1>4. c \in Live
  BY <1>1, <1>2, <1>3, LiveIs DEF UnderWay
<1>5. Owned(c) = {}
  BY <1>1 DEF Owned, RInv, IInv, FrameOK
<1>6. WaitsFor(c) = NoFrame
  BY <1>1, FreeWaits DEF FreeWaitsForNone
<1>7. QED
  BY <1>1, <1>4, <1>5, <1>6

(* The caller goes on with the result, and the frame of the callee goes.   *)
LEMMA AwaitResumeReturns ==
  ASSUME RInv, RInv', NEW p \in Frames, AwaitResume(p)
  PROVE  Contract!Next
<1>1. PICK c : c = callee[p]
  OBVIOUS
<1>2. /\ at[p] = "returning" /\ kind[p] # "trampoline" /\ token[p] = NoFrame
      /\ c \in Frames /\ at[c] = "final" /\ c # p /\ c \in Live
      /\ Owned(c) = {} /\ WaitsFor(c) = NoFrame
  BY <1>1, EndedLives, LiveIs DEF AwaitResume, RInv, IInv, HandlesOK
<1>3. /\ \A g \in Frames :
           at'[g] = IF g = p THEN "running" ELSE IF g = c THEN "dying" ELSE at[g]
      /\ callee' = [callee EXCEPT ![p] = NoFrame]
      /\ UNCHANGED <<kind, caller, body, token, handler, result, lost>>
  BY <1>1 DEF AwaitResume, Destroyed
<1>4. \A g \in Frames : Owned(g)' = Owned(g)
  BY <1>3 DEF Owned
<1>5. /\ {c} \in SUBSET Frames /\ Dying \subseteq Dying' /\ Dying' \subseteq Dying \cup {c}
      /\ \A g \in {c} : Owned(g)' \subseteq Doomed \cup {c}
  BY <1>2, <1>3, <1>4 DEF Dying
<1>6. \A t \in Frames :
        /\ at'[t] = "delivering" <=> at[t] = "delivering"
        /\ at'[t] = "delivering" => callee'[t] = callee[t]
  BY <1>2, <1>3 DEF RInv, IInv, TypeOK
<1>7. ~UnderWay(c)' /\ \A x \in Frames \ {c} : UnderWay(x)' <=> UnderWay(x)
  BY <1>2, <1>3, <1>6 DEF UnderWay
<1>8. \A g \in Doomed : Owned(g)' = Owned(g)
  BY <1>4, DoomedAreHeld DEF RInv
<1>9. Live' = Live \ {c}
  <2> DEFINE R == {c}
  <2>1. /\ R \in SUBSET Frames /\ Dying' \subseteq Dying \cup R
        /\ \A g \in R : Owned(g)' \subseteq Doomed \cup R
    BY <1>5
  <2>2. /\ \A x \in R \ {c} : x \notin Live
        /\ \A x \in R \cup {c} : ~UnderWay(x)'
        /\ \A x \in Frames \ (Doomed \cup R \cup {c}) : UnderWay(x)' <=> UnderWay(x)
    BY <1>7
  <2> HIDE DEF R
  <2>3. QED
    BY <1>2, <1>3, <1>5, <1>8, <2>1, <2>2, LiveLeft
<1>10. ASSUME NEW q \in Live'
       PROVE  WaitsFor(q)' = IF WaitsFor(q) = c THEN NoFrame ELSE WaitsFor(q)
  <2>1. q \in Live /\ q \in Frames
    BY <1>9, LiveIs
  <2>2. AwaitsFor(p, p)
    BY <1>2, FramesAssumption DEF AwaitsFor, RInv, IInv, HandlesOK
  <2>3. CASE q = p
    <3>1. WaitsFor(q) = c
      BY <1>1, <2>2, <2>3, WaitsForKnown DEF RInv, IInv, WaitsForIs
    <3>2. WaitsFor(q)' = NoFrame
      BY <1>3, <2>3, FreeWaitsNext DEF FreeWaitsForNone
    <3>3. QED
      BY <3>1, <3>2
  <2>4. CASE q # p
    <3>1. WaitsFor(q)' = WaitsFor(q)
      BY <1>2, <1>3, <2>1, <2>4, FramesAssumption, SameWait DEF RInv, IInv, TypeOK
    <3>2. ~AwaitsFor(p, q)
      BY <1>2, <2>1, <2>4, FramesAssumption DEF AwaitsFor
    <3>3. WaitsFor(q) # c
      BY <1>1, <1>2, <2>1, <3>2, OnlyWaiter, FramesAssumption DEF Awaiting
    <3>4. QED
      BY <3>1, <3>3
  <2>5. QED
    BY <2>3, <2>4
<1>11. QED
  BY <1>2, <1>9, <1>10, Returned

(* What delivering the result of an await() does.                          *)
LEMMA Delivery ==
  ASSUME RInv, NEW t \in Frames, Deliver(t)
  PROVE  \E after \in {"running", "dying"} :
           /\ \A g \in Frames : at'[g] = IF g = t THEN "delivering"
                                         ELSE IF g = token[t] THEN after ELSE at[g]
           /\ token' = [token EXCEPT ![t] = NoFrame] /\ at[t] = "returning"
           /\ kind[t] = "trampoline" /\ t \notin Live /\ token[t] # t
           /\ \A g \in Frames : g = token[t] => at[g] = "waiting"
           /\ UNCHANGED <<kind, caller, callee, body, handler, result, lost>>
<1>1. /\ at[t] = "returning" /\ kind[t] = "trampoline" /\ t \notin Live /\ token[t] # t
      /\ token' = [token EXCEPT ![t] = NoFrame]
      /\ \A g \in Frames : g = token[t] => at[g] = "waiting"
      /\ UNCHANGED <<kind, caller, callee, body, handler, result, lost>>
  BY LiveIs, FramesAssumption DEF Deliver, RInv, IInv, HandlesOK, UnderWay
<1>2. PICK after \in {"running", "dying"} :
        at' = [g \in Frames |-> CASE g = t -> "delivering" [] g = token[t] -> after
                                  [] OTHER -> at[g]]
  BY DEF Deliver
<1>3. \A g \in Frames : at'[g] = IF g = t THEN "delivering"
                                 ELSE IF g = token[t] THEN after ELSE at[g]
  BY <1>1, <1>2
<1>4. QED
  BY <1>1, <1>3

(* The handler goes on with the result, or there is none that waits.       *)
LEMMA DeliverReturns ==
  ASSUME RInv, RInv', NEW t \in Frames, Deliver(t),
         \A g \in Frames : g = token[t] => at'[g] = "running"
  PROVE  Contract!Next
<1>1. PICK c, q : c = callee[t] /\ q = token[t]
  OBVIOUS
<1>2. /\ \A g \in Frames : at'[g] = IF g = t THEN "delivering"
                                    ELSE IF g = q THEN "running" ELSE at[g]
      /\ token' = [token EXCEPT ![t] = NoFrame] /\ at[t] = "returning"
      /\ kind[t] = "trampoline" /\ t \notin Live /\ q # t
      /\ \A g \in Frames : g = q => at[g] = "waiting"
      /\ UNCHANGED <<kind, caller, callee, body, handler, result, lost>>
  BY <1>1, Delivery
<1>3. /\ c \in Frames /\ c \in Live /\ at[c] = "final" /\ c # t
      /\ WaitsFor(c) = NoFrame
  BY <1>1, <1>2, EndedLives, LiveIs
<1>4. t \notin Doomed
  BY <1>2, DoomedAreHeld DEF RInv, Suspended
<1>5. \A g \in Doomed : Owned(g)' = Owned(g)
  BY <1>2, <1>4, DoomedAreHeld DEF RInv, IInv, TypeOK, Owned
<1>6. Dying \subseteq Dying' /\ Dying' \subseteq Dying
  BY <1>2 DEF Dying
<1>7. ~UnderWay(c)' /\ \A x \in Frames \ {c} : UnderWay(x)' <=> UnderWay(x)
  <2>1. \A u \in Frames : at'[u] = "delivering" <=> at[u] = "delivering" \/ u = t
    BY <1>2
  <2>2. at'[t] = "delivering" /\ callee'[t] = c
    BY <1>1, <1>2
  <2>3. ~UnderWay(c)'
    BY <2>2 DEF UnderWay
  <2>4. ASSUME NEW x \in Frames \ {c} PROVE UnderWay(x)' <=> UnderWay(x)
    <3>1. CASE x = t
      BY <1>2, <3>1 DEF UnderWay
    <3>2. CASE x # t
      <4>1. at'[x] = IF x = q THEN "running" ELSE at[x]
        BY <1>2, <3>2
      <4>2. \A u \in Frames : at'[u] = "delivering" /\ callee'[u] = x
                           <=> at[u] = "delivering" /\ callee[u] = x
        BY <1>1, <1>2, <2>1
      <4>3. QED
        BY <1>2, <4>1, <4>2 DEF UnderWay
    <3>3. QED
      BY <3>1, <3>2
  <2>5. QED
    BY <2>3, <2>4
<1>8. Live' = Live \ {c}
  <2> DEFINE R == {}
  <2>1. /\ R \in SUBSET Frames /\ Dying' \subseteq Dying \cup R
        /\ \A g \in R : Owned(g)' \subseteq Doomed \cup R
    BY <1>6
  <2>2. /\ \A x \in R \ {c} : x \notin Live
        /\ \A x \in R \cup {c} : ~UnderWay(x)'
        /\ \A x \in Frames \ (Doomed \cup R \cup {c}) : UnderWay(x)' <=> UnderWay(x)
    BY <1>7
  <2> HIDE DEF R
  <2>3. QED
    BY <1>2, <1>3, <1>5, <1>6, <2>1, <2>2, LiveLeft
<1>9. ASSUME NEW p \in Live'
      PROVE  WaitsFor(p)' = IF WaitsFor(p) = c THEN NoFrame ELSE WaitsFor(p)
  <2>1. p \in Live /\ p \in Frames /\ p # t
    BY <1>2, <1>8, LiveIs
  <2>2. CASE p = q
    <3>1. WaitsFor(p) = c
      BY <1>1, <2>1, <2>2, WaitsForKnown DEF RInv, IInv, WaitsForIs, AwaitsFor
    <3>2. WaitsFor(p)' = NoFrame
      BY <1>2, <2>1, <2>2, FreeWaitsNext DEF FreeWaitsForNone
    <3>3. QED
      BY <3>1, <3>2
  <2>3. CASE p # q
    <3>1. WaitsFor(p)' = WaitsFor(p)
      <4>1. \A u \in Frames : token'[u] = p <=> token[u] = p
        BY <1>1, <1>2, <2>1, <2>3, FramesAssumption DEF RInv, IInv, TypeOK
      <4>2. QED
        BY <1>2, <2>1, <4>1, SameWait DEF RInv
    <3>2. ~AwaitsFor(t, p)
      BY <1>1, <2>1, <2>3 DEF AwaitsFor
    <3>3. WaitsFor(p) # c
      BY <1>1, <1>2, <1>3, <2>1, <3>2, OnlyWaiter, FramesAssumption DEF Awaiting
    <3>4. QED
      BY <3>1, <3>3
  <2>4. QED
    BY <2>2, <2>3
<1>10. QED
  BY <1>3, <1>8, <1>9, Returned
-----------------------------------------------------------------------------
(* Coroutines that are abandoned. *)

(* A handler is destroyed with the frame d it holds.  The coroutine c that *)
(* d is, or whose result it was to get, leaves with all that wait for it:  *)
(* the frames that own one another from d on hold those coroutines, and no *)
(* other.                                                                  *)
LEMMA AbandonStep ==
  ASSUME RInv, RInv', NEW c \in Live, WaitsFor(c) = NoFrame, c \notin Live', NEW d \in Frames,
         Dying' = Dying \cup {d}, lost \subseteq lost', lost' \subseteq lost \cup {c},
         \A g \in Doomed' : Owned(g)' = Owned(g),
         \A x \in Frames \ (Doomed' \cup {c}) : UnderWay(x)' <=> UnderWay(x),
         \A g \in Frames : at[g] = "final" => at'[g] = "final",
         d \in Live /\ d # c => WaitsFor(d) = c,
         token[d] # NoFrame => callee[d] = c,
         \A p \in Live : WaitsFor(p) = c => p \in Doomed',
         Same(Live')
  PROVE  Contract!Next
<1>1. DoomedIsLeast /\ DoomedIsLeast'
  BY DoomedLeast, DoomedNext DEF RInv, IInv
<1>2. Doomed \subseteq Doomed'
  <2>1. \A g \in Doomed \cap Doomed' : Owned(g) \subseteq Doomed \cap Doomed'
    BY <1>1 DEF DoomedIsLeast
  <2>2. Dying \subseteq Doomed \cap Doomed' /\ Doomed \cap Doomed' \in SUBSET Frames
    BY <1>1 DEF DoomedIsLeast
  <2>3. QED
    BY <1>1, <2>1, <2>2 DEF DoomedIsLeast
<1>3. ASSUME NEW x PROVE x \in Live' <=> x \in Live \ (Doomed' \cup {c})
  BY <1>2, LiveIs, LiveNext
<1>4. ASSUME NEW p \in Live, NEW g, g = WaitsFor(p), g \in Live \ Live'
      PROVE  p \notin Live'
  <2>1. CASE g = c
    BY <1>3, <1>4, <2>1
  <2>2. CASE g # c
    <3>1. g \in Doomed' /\ g # NoFrame /\ g \in Frames
      BY <1>3, <1>4, <2>2, LiveIs, FramesAssumption
    <3>2. PICK n \in Frames :
            /\ AwaitsFor(n, p)
            /\ at[g] = "final" \/ caller[g] = n
      BY <1>4, <3>1, WhoWaits
    <3>3. at[g] # "final"
      BY <3>1, RestingNext DEF RInv
    <3>4. n \in Doomed'
      BY <1>1, <3>1, <3>2, <3>3, FramesAssumption DEF Owned, DoomedIsLeast
    <3>5. p \in Doomed'
      BY <1>1, <3>2, <3>4, FramesAssumption, LiveIs DEF AwaitsFor, Owned, DoomedIsLeast
    <3>6. QED
      BY <1>3, <3>5
  <2>3. QED
    BY <2>1, <2>2
<1>5. ASSUME NEW p \in Live \ Live', p # c
      PROVE  WaitsFor(p) \in Live \ Live'
  <2>1. p \in Doomed' /\ p \notin Doomed /\ p \in Frames /\ UnderWay(p)
    BY <1>3, <1>5, LiveIs
  <2>2. c \in Live \ Live'
    OBVIOUS
  <2>3. CASE p = d
    BY <1>5, <2>2, <2>3
  <2>4. CASE p # d
    <3>1. PICK g \in Doomed' : p \in Owned(g)
      BY <1>1, <2>1, <2>4 DEF DoomedIsLeast
    <3>2. g \in Frames
      BY <1>1, <3>1 DEF DoomedIsLeast
    <3>3. at[p] # "ready"
      BY <2>1 DEF UnderWay
    <3>4. caller[g] = p \/ token[g] = p
      BY <3>1, <3>2, <3>3 DEF Owned, RInv, IInv, BodyOK
    <3>5. ASSUME NEW h \in Doomed', WaitsFor(p) = h PROVE WaitsFor(p) \in Live \ Live'
      <4>1. h # NoFrame
        BY <1>1, FramesAssumption DEF DoomedIsLeast
      <4>2. QED
        BY <1>3, <1>5, <3>5, <4>1, CalleeLives
    <3>6. CASE caller[g] = p
      <4>1. callee[p] = g /\ AwaitsFor(p, p)
        BY <2>1, <3>2, <3>6, FramesAssumption DEF RInv, IInv, HandlesOK, AwaitsFor
      <4>2. WaitsFor(p) = g
        BY <2>1, <4>1, WaitsForKnown DEF RInv, IInv, WaitsForIs
      <4>3. QED
        BY <3>1, <3>5, <4>2
    <3>7. CASE token[g] = p
      <4>1. WaitsFor(p) = callee[g] /\ kind[g] = "trampoline"
        BY <2>1, <3>2, <3>7, FramesAssumption, WaitsForKnown
        DEF RInv, IInv, WaitsForIs, AwaitsFor, HandlesOK
      <4>2. CASE g = d
        BY <2>1, <2>2, <3>7, <4>1, <4>2, FramesAssumption
      <4>3. CASE g # d
        <5>1. g \notin Doomed
          BY <1>1, <2>1, <3>1 DEF DoomedIsLeast
        <5>2. PICK h \in Doomed' : g \in Owned(h)
          BY <1>1, <3>1, <4>3, <5>1 DEF DoomedIsLeast
        <5>3. h \in Frames
          BY <1>1, <5>2 DEF DoomedIsLeast
        <5>4. at[g] \in {"calling", "returning", "dying"}
          BY <2>1, <3>2, <3>7, FramesAssumption DEF RInv, AtRest
        <5>5. caller[h] = g
          BY <3>2, <5>2, <5>3, <5>4 DEF Owned, RInv, IInv, BodyOK, HandlesOK
        <5>6. callee[g] = h
          BY <3>2, <5>3, <5>5, FramesAssumption DEF RInv, IInv, HandlesOK
        <5>7. QED
          BY <3>5, <4>1, <5>6
      <4>4. QED
        BY <4>2, <4>3
    <3>8. QED
      BY <3>4, <3>6, <3>7
  <2>5. QED
    BY <2>3, <2>4
<1>6. Live' \subseteq Live
  BY <1>3
<1>7. QED
  BY <1>4, <1>5, <1>6, Abandoned

(* The completion handler of an await() finds the owner of its coroutine   *)
(* gone: the coroutine leaves with the callee it waited for.               *)
LEMMA DeliverAbandons ==
  ASSUME RInv, RInv', NEW t \in Frames, Deliver(t),
         NEW q \in Frames, q = token[t], at'[q] = "dying"
  PROVE  Contract!Next
<1>1. PICK c : c = callee[t]
  OBVIOUS
<1>2. /\ \A g \in Frames : at'[g] = IF g = t THEN "delivering"
                                    ELSE IF g = q THEN "dying" ELSE at[g]
      /\ token' = [token EXCEPT ![t] = NoFrame] /\ at[t] = "returning"
      /\ kind[t] = "trampoline" /\ t \notin Live /\ q # t /\ at[q] = "waiting"
      /\ UNCHANGED <<kind, caller, callee, body, handler, result, lost>>
  BY Delivery
<1>3. /\ c \in Frames /\ c \in Live /\ at[c] = "final" /\ c # t
      /\ WaitsFor(c) = NoFrame
  BY <1>1, <1>2, EndedLives, LiveIs
<1>4. Dying' = Dying \cup {q}
  BY <1>2 DEF Dying
<1>5. q \in Doomed'
  BY <1>4, DoomedNext DEF RInv, IInv, DoomedIsLeast
<1>6. \A g \in Doomed' : Owned(g)' = Owned(g)
  <2>1. t \notin Doomed' /\ Doomed' \subseteq Frames
    BY <1>2, RestingNext, DoomedNext DEF RInv, IInv, DoomedIsLeast
  <2>2. \A g \in Frames \ {t} : Owned(g)' = Owned(g)
    BY <1>2 DEF RInv, IInv, TypeOK, Owned
  <2>3. QED
    BY <2>1, <2>2
<1>7. at'[t] = "delivering" /\ callee'[t] = c
  BY <1>1, <1>2
<1>8. c \notin Live'
  BY <1>7, LiveNext DEF UnderWay
<1>9. ASSUME NEW x \in Frames \ (Doomed' \cup {c}) PROVE UnderWay(x)' <=> UnderWay(x)
  <2>1. CASE x = t
    BY <1>2, <2>1 DEF UnderWay
  <2>2. CASE x # t
    <3>1. at'[x] = at[x]
      BY <1>2, <1>5, <1>9, <2>2
    <3>2. \A u \in Frames : at'[u] = "delivering" /\ callee'[u] = x
                         <=> at[u] = "delivering" /\ callee[u] = x
      BY <1>1, <1>2, <1>9
    <3>3. QED
      BY <1>2, <3>1, <3>2 DEF UnderWay
  <2>3. QED
    BY <2>1, <2>2
<1>10. WaitsFor(q) = c
  BY <1>1, WaitsForKnown DEF RInv, IInv, WaitsForIs, AwaitsFor
<1>11. token[q] = NoFrame
  BY <1>2 DEF RInv, AtRest
<1>12. ASSUME NEW p \in Live, WaitsFor(p) = c PROVE p \in Doomed'
  <2>1. AwaitsFor(t, p)
    BY <1>1, <1>2, <1>3, <1>12, OnlyWaiter, FramesAssumption DEF Awaiting
  <2>2. QED
    BY <1>2, <1>5, <2>1 DEF AwaitsFor
<1>13. Same(Live')
  <2> SUFFICES ASSUME NEW p \in Live' PROVE WaitsFor(p)' = WaitsFor(p)
    BY DEF Same
  <2>1. p \in Frames /\ p # q
    BY <1>5, LiveNext
  <2>2. \A u \in Frames : token'[u] = p <=> token[u] = p
    BY <1>2, <2>1, FramesAssumption DEF RInv, IInv, TypeOK
  <2>3. QED
    BY <1>2, <2>1, <2>2, SameWait DEF RInv
<1>14. \A g \in Frames : at[g] = "final" => at'[g] = "final"
  BY <1>2
<1>15. QED
  BY <1>2, <1>3, <1>4, <1>6, <1>8, <1>9, <1>10, <1>11, <1>12, <1>13, <1>14, AbandonStep

(* What destroying a handler with its coroutine does.                      *)
LEMMA Dropped ==
  ASSUME RInv, RInv', NEW f \in Frames, Drop(f)
  PROVE  /\ at[f] \in {"waiting", "calling"}
         /\ \A g \in Frames : at'[g] = IF g = f THEN "dying" ELSE at[g]
         /\ UNCHANGED <<kind, caller, callee, body, token, result>>
         /\ lost' = IF handler[f] = "hop" THEN lost \cup {callee[f]} ELSE lost
         /\ Dying' = Dying \cup {f} /\ f \in Doomed'
         /\ \A g \in Doomed' : Owned(g)' = Owned(g)
         /\ \A x \in Frames \ Doomed' : UnderWay(x)' <=> UnderWay(x)
         /\ \A g \in Frames : at[g] = "final" => at'[g] = "final"
         /\ Same(Live')
<1>1. /\ at[f] \in {"waiting", "calling"}
      /\ \A g \in Frames : at'[g] = IF g = f THEN "dying" ELSE at[g]
      /\ UNCHANGED <<kind, caller, callee, body, token, result>>
      /\ lost' = IF handler[f] = "hop" THEN lost \cup {callee[f]} ELSE lost
  BY DEF Drop, Destroyed, RInv, IInv, TypeOK, HandlesOK
<1>2. Dying' = Dying \cup {f}
  BY <1>1 DEF Dying
<1>3. f \in Doomed' /\ Doomed' \subseteq Frames
  BY <1>2, DoomedNext DEF RInv, IInv, DoomedIsLeast
<1>4. \A g \in Frames : Owned(g)' = Owned(g)
  BY <1>1 DEF Owned
<1>5. \A x \in Frames \ {f} : UnderWay(x)' <=> UnderWay(x)
  BY <1>1 DEF UnderWay
<1>6. Same(Live')
  <2>1. \A p \in Live' : p \in Frames
    BY LiveNext
  <2>2. QED
    BY <1>1, <2>1, SameWait DEF RInv, Same
<1>7. \A g \in Frames : at[g] = "final" => at'[g] = "final"
  BY <1>1
<1>8. QED
  BY <1>1, <1>2, <1>3, <1>4, <1>5, <1>6, <1>7

(* The handler of an operation is destroyed.                               *)
LEMMA DropAbandons ==
  ASSUME RInv, RInv', NEW f \in Frames, Drop(f), handler[f] = "operation"
  PROVE  Contract!Next
<1>1. /\ \A g \in Frames : at'[g] = IF g = f THEN "dying" ELSE at[g]
      /\ UNCHANGED <<kind, caller, callee, body, token, result, lost>>
      /\ Dying' = Dying \cup {f} /\ f \in Doomed'
      /\ \A g \in Doomed' : Owned(g)' = Owned(g)
      /\ \A x \in Frames \ Doomed' : UnderWay(x)' <=> UnderWay(x)
      /\ \A g \in Frames : at[g] = "final" => at'[g] = "final"
      /\ Same(Live')
  BY Dropped
<1>2. at[f] = "waiting" /\ kind[f] # "trampoline" /\ token[f] = NoFrame
  BY DEF RInv, IInv, HandlesOK, AtRest
<1>3. f \in Live
  <2>1. f \notin Doomed
    BY <1>2, DoomedAreHeld DEF RInv
  <2>2. f \notin lost /\ \A t \in Frames : at[t] = "delivering" => callee[t] # f
    BY <1>2 DEF RInv, IInv, FinalOK, WaitOK
  <2>3. QED
    BY <1>2, <2>1, <2>2, LiveIs DEF UnderWay
<1>4. WaitsFor(f) = NoFrame
  BY FreeWaits DEF FreeWaitsForNone
<1>5. ASSUME NEW p \in Live, WaitsFor(p) = f PROVE p \in Doomed'
  <2>1. PICK n \in Frames : AwaitsFor(n, p) /\ caller[f] = n
    BY <1>2, <1>5, WhoWaits, FramesAssumption
  <2>2. DoomedIsLeast'
    BY DoomedNext DEF RInv, IInv
  <2>3. n \in Doomed'
    BY <1>1, <2>1, <2>2, FramesAssumption DEF Owned, DoomedIsLeast
  <2>4. QED
    BY <1>1, <2>1, <2>2, <2>3, FramesAssumption, LiveIs DEF AwaitsFor, Owned, DoomedIsLeast
<1>6. f \notin Live'
  BY <1>1, LiveNext
<1>7. QED
  BY <1>1, <1>2, <1>3, <1>4, <1>5, <1>6, AbandonStep

(* The handler that brings a result to the executor of the caller is       *)
(* destroyed.                                                              *)
LEMMA DropLoses ==
  ASSUME RInv, RInv', NEW f \in Frames, Drop(f), handler[f] = "hop"
  PROVE  Contract!Next
<1>1. PICK c : c = callee[f]
  OBVIOUS
<1>2. /\ \A g \in Frames : at'[g] = IF g = f THEN "dying" ELSE at[g]
      /\ UNCHANGED <<kind, caller, callee, body, token, result>> /\ lost' = lost \cup {c}
      /\ Dying' = Dying \cup {f} /\ f \in Doomed'
      /\ \A g \in Doomed' : Owned(g)' = Owned(g)
      /\ \A x \in Frames \ Doomed' : UnderWay(x)' <=> UnderWay(x)
      /\ \A g \in Frames : at[g] = "final" => at'[g] = "final"
      /\ Same(Live')
  BY <1>1, Dropped
<1>3. c \in Live /\ c \in Frames /\ c # f /\ WaitsFor(c) = NoFrame /\ at[f] = "calling"
  BY <1>1, EndedLives, LiveIs DEF RInv, IInv, HandlesOK
<1>4. ASSUME NEW p \in Live, AwaitsFor(f, p) PROVE p \in Doomed'
  BY <1>2, <1>4, DoomedNext, FramesAssumption, LiveIs
  DEF RInv, IInv, AwaitsFor, Owned, DoomedIsLeast
<1>5. \A p \in Live : WaitsFor(p) = c => p \in Doomed'
  BY <1>1, <1>3, <1>4, OnlyWaiter, FramesAssumption DEF Awaiting
<1>6. f \in Live => WaitsFor(f) = c
  <2>1. \A t \in Frames : token[t] # f
    BY <1>3, FramesAssumption DEF RInv, IInv, HandlesOK
  <2>2. QED
    BY <1>1, <2>1, WaitsForKnown DEF RInv, IInv, WaitsForIs, AwaitsFor
<1>7. c \notin Live'
  BY <1>2, LiveNext
<1>8. lost \subseteq lost' /\ lost' \subseteq lost \cup {c}
  BY <1>2
<1>9. \A x \in Frames \ (Doomed' \cup {c}) : UnderWay(x)' <=> UnderWay(x)
  BY <1>2
<1>10. QED
  BY <1>1, <1>2, <1>3, <1>5, <1>6, <1>7, <1>8, <1>9, AbandonStep
-----------------------------------------------------------------------------
(* The refinement. *)

(* Nobody has started.                                                     *)
LEMMA InitMaps == Init => Contract!Init
<1> SUFFICES ASSUME Init PROVE Contract!Init
  OBVIOUS
<1>1. Live = {}
  BY LiveIs DEF Init, UnderWay
<1>2. QED
  BY <1>1 DEF Contract!Init

(* Each step is one of the contract, or cannot be seen in it.              *)
LEMMA StepMaps ==
  RInv /\ RInv' /\ [Next]_vars => [Contract!Next]_([p \in Live |-> WaitsFor(p)])
<1> SUFFICES ASSUME RInv, RInv', [Next]_vars
             PROVE  Contract!Next \/ UNCHANGED [p \in Live |-> WaitsFor(p)]
  OBVIOUS
<1>1. CASE UNCHANGED vars
  BY <1>1 DEF vars, Live, WaitsFor, Doomed, Owned
<1>2. ASSUME NEW f \in Frames, Release(f) \/ Suspend(f) \/ Complete(f) \/ TrampolineEnds(f)
      PROVE  UNCHANGED [p \in Live |-> WaitsFor(p)]
  BY <1>2, ReleaseUnseen, SuspendUnseen, TrampolineEndsUnseen
<1>3. ASSUME NEW f \in Frames, NEW r \in Outcomes \ {"nothing"}, NEW inline \in BOOLEAN,
             Finish(f, r, inline)
      PROVE  UNCHANGED [p \in Live |-> WaitsFor(p)]
  BY <1>3, FinishUnseen
<1>4. ASSUME NEW f \in Frames, NEW p \in Frames \cup {Outside}, Create(p, f) \/ Discard(p, f)
      PROVE  UNCHANGED [q \in Live |-> WaitsFor(q)]
  BY <1>4, CreateUnseen, DiscardUnseen
<1>5. ASSUME NEW f \in Frames, NEW p \in Frames \cup {Outside},
             \/ StartDetached(p, f) \/ AwaitPromise(p, f)
             \/ \E t \in Frames, w \in {NoFrame, p} : Await(p, f, t, w)
      PROVE  Contract!Next
  BY <1>5, StartDetachedBegins, AwaitPromiseCalls, AwaitStarts
<1>6. ASSUME NEW f \in Frames, FinishDetached(f) \/ AwaitResume(f) PROVE Contract!Next
  BY <1>6, FinishDetachedReturns, AwaitResumeReturns
<1>7. ASSUME NEW f \in Frames, Deliver(f) PROVE Contract!Next
  <2>1. \A g \in Frames : g = token[f] => at'[g] \in {"running", "dying"}
    BY <1>7, Delivery
  <2>2. QED
    BY <1>7, <2>1, DeliverReturns, DeliverAbandons
<1>8. ASSUME NEW f \in Frames, Drop(f) PROVE Contract!Next
  <2>1. handler[f] \in {"operation", "hop"}
    BY <1>8 DEF Drop, RInv, IInv, TypeOK
  <2>2. QED
    BY <1>8, <2>1, DropAbandons, DropLoses
<1>9. QED
  BY <1>1, <1>2, <1>3, <1>4, <1>5, <1>6, <1>7, <1>8 DEF Next

(* The invariant of the refinement holds in every state: a coroutine that  *)
(* waits for nobody has forgotten the callee whose result it took, so no   *)
(* awaitable of it points to a frame that is gone.                         *)
THEOREM Rests == Spec => []RInv
<1>1. QED
  BY InitRests, RestsInductive, PTL DEF Spec

(* The ownership rules implement the contract of Awaiting, for any number  *)
(* of frames: with the result a callee leaves and its caller goes on, and  *)
(* a handler that is destroyed unrun takes down the coroutines that wait   *)
(* behind it, all of them, and no other.                                   *)
THEOREM Implements == Spec => KeepsContract
<1>1. QED
  BY InitMaps, Rests, StepMaps, PTL DEF Spec, KeepsContract, Contract!Spec
-----------------------------------------------------------------------------
(* Coroutines that wait form chains. *)

\* Who waits does so for one that started, alone, and for none behind itself.
Chains(w) ==
  /\ DOMAIN w \subseteq Frames
  /\ \A p \in DOMAIN w : w[p] \in DOMAIN w \cup {NoFrame}
  /\ \A p, q \in DOMAIN w : w[p] = w[q] /\ w[p] # NoFrame => p = q
  /\ \A S \in SUBSET DOMAIN w : S # {} => \E p \in S : w[p] \notin S

(* One more coroutine that nobody waits for.                               *)
LEMMA BeginChains ==
  ASSUME NEW w, Chains(w), NEW f \in Frames, f \notin DOMAIN w
  PROVE  Chains(Contract!Begun(w, f))
<1> DEFINE v == Contract!Begun(w, f)
<1>1. /\ DOMAIN v = DOMAIN w \cup {f} /\ v[f] = NoFrame
      /\ \A p \in DOMAIN w : v[p] = w[p]
  BY DEF Contract!Begun
<1> HIDE DEF v
<1>2. ASSUME NEW S \in SUBSET DOMAIN v, S # {} PROVE \E p \in S : v[p] \notin S
  <2>1. CASE f \in S
    BY <1>1, <2>1, FramesAssumption DEF Chains
  <2>2. CASE f \notin S
    <3>1. S \in SUBSET DOMAIN w
      BY <1>1, <2>2
    <3>2. QED
      BY <1>1, <1>2, <3>1 DEF Chains
  <2>3. QED
    BY <2>1, <2>2
<1>3. QED
  BY <1>1, <1>2 DEF Chains, v

(* One more, which a coroutine that waited for nobody waits for.           *)
LEMMA CallChains ==
  ASSUME NEW w, Chains(w), NEW f \in Frames, f \notin DOMAIN w,
         NEW p \in DOMAIN w, w[p] = NoFrame
  PROVE  Chains([Contract!Begun(w, f) EXCEPT ![p] = f])
<1> DEFINE v == [Contract!Begun(w, f) EXCEPT ![p] = f]
<1>1. /\ DOMAIN v = DOMAIN w \cup {f} /\ v[f] = NoFrame /\ v[p] = f
      /\ \A q \in DOMAIN w \ {p} : v[q] = w[q]
  BY DEF Contract!Begun
<1> HIDE DEF v
<1>2. ASSUME NEW S \in SUBSET DOMAIN v, S # {} PROVE \E q \in S : v[q] \notin S
  <2>1. CASE f \in S
    BY <1>1, <2>1, FramesAssumption DEF Chains
  <2>2. CASE f \notin S
    <3>1. S \in SUBSET DOMAIN w
      BY <1>1, <2>2
    <3>2. PICK q \in S : w[q] \notin S
      BY <1>2, <3>1 DEF Chains
    <3>3. v[q] \notin S
      BY <1>1, <2>2, <3>1, <3>2
    <3>4. QED
      BY <3>3
  <2>3. QED
    BY <2>1, <2>2
<1>3. \A q \in DOMAIN v : v[q] \in DOMAIN v \cup {NoFrame}
  BY <1>1 DEF Chains
<1>4. \A q, r \in DOMAIN v : v[q] = v[r] /\ v[q] # NoFrame => q = r
  BY <1>1, FramesAssumption DEF Chains
<1>5. QED
  BY <1>1, <1>2, <1>3, <1>4 DEF Chains, v

(* One that waits for nobody leaves as the one that waits for it goes on.  *)
LEMMA ReturnChains ==
  ASSUME NEW w, Chains(w), NEW f \in DOMAIN w
  PROVE  Chains(Contract!GoOn(w, f))
<1> DEFINE v == Contract!GoOn(w, f)
<1>1. /\ DOMAIN v = DOMAIN w \ {f}
      /\ \A p \in DOMAIN v : v[p] = IF w[p] = f THEN NoFrame ELSE w[p]
  BY DEF Contract!GoOn
<1> HIDE DEF v
<1>2. ASSUME NEW S \in SUBSET DOMAIN v, S # {} PROVE \E p \in S : v[p] \notin S
  <2>1. S \in SUBSET DOMAIN w /\ NoFrame \notin S
    BY <1>1, FramesAssumption DEF Chains
  <2>2. PICK p \in S : w[p] \notin S
    BY <1>2, <2>1 DEF Chains
  <2>3. v[p] \notin S
    BY <1>1, <2>1, <2>2
  <2>4. QED
    BY <2>3
<1>3. QED
  BY <1>1, <1>2 DEF Chains, v

(* Those that are left when one leaves with all that wait for it.          *)
LEMMA AbandonChains ==
  ASSUME NEW w, Chains(w), NEW D \in SUBSET DOMAIN w, NEW f,
         Contract!Waiters(w, f, DOMAIN w \ D)
  PROVE  Chains(Contract!Restrict(w, D))
<1> DEFINE v == Contract!Restrict(w, D)
<1>1. DOMAIN v = D /\ \A p \in DOMAIN v : v[p] = w[p]
  BY DEF Contract!Restrict
<1> HIDE DEF v
<1>2. \A p \in DOMAIN v : v[p] \in DOMAIN v \cup {NoFrame}
  BY <1>1 DEF Chains, Contract!Waiters
<1>3. ASSUME NEW S \in SUBSET DOMAIN v, S # {} PROVE \E p \in S : v[p] \notin S
  <2>1. S \in SUBSET DOMAIN w
    BY <1>1
  <2>2. QED
    BY <1>1, <1>3, <2>1 DEF Chains
<1>4. QED
  BY <1>1, <1>2, <1>3 DEF Chains, v

(* Every step of the contract keeps the chains.                            *)
LEMMA StepChains ==
  ASSUME Chains([p \in Live |-> WaitsFor(p)]),
         [Contract!Next]_([p \in Live |-> WaitsFor(p)])
  PROVE  Chains([p \in Live |-> WaitsFor(p)])'
<1> DEFINE w == [p \in Live |-> WaitsFor(p)]
<1> SUFFICES Chains(w')
  BY DEF Chains
<1>1. ASSUME NEW f \in Frames \ DOMAIN w, Contract!Begin(f) PROVE Chains(w')
  BY <1>1, BeginChains DEF Contract!Begin
<1>2. ASSUME NEW f \in Frames \ DOMAIN w, NEW p \in DOMAIN w, Contract!Call(p, f)
      PROVE  Chains(w')
  <2>1. w[p] = NoFrame /\ w' = [Contract!Begun(w, f) EXCEPT ![p] = f]
    BY <1>2 DEF Contract!Call
  <2> HIDE DEF w
  <2>2. QED
    BY <1>2, <2>1, CallChains DEF w
<1>3. ASSUME NEW f \in DOMAIN w, Contract!Return(f) PROVE Chains(w')
  BY <1>3, ReturnChains DEF Contract!Return
<1>4. ASSUME NEW f \in DOMAIN w, Contract!Abandon(f) PROVE Chains(w')
  BY <1>4, AbandonChains DEF Contract!Abandon, Contract!Started
<1>5. CASE UNCHANGED w
  BY <1>5 DEF Chains
<1>6. QED
  BY <1>1, <1>2, <1>3, <1>4, <1>5 DEF Contract!Next, Contract!Started

(* A live coroutine at the end of a chain will be resumed by whoever runs  *)
(* it, took its result, or has its operation.                              *)
LEMMA EndOfChain ==
  ASSUME RInv, NEW p \in Live, WaitsFor(p) = NoFrame
  PROVE  at[p] \in {"running", "final"} \/ handler[p] = "operation"
<1>1. p \in Frames /\ UnderWay(p) /\ p \notin Doomed
  BY LiveIs
<1>2. PICK n \in Frames : AwaitsFor(n, p)
  BY <1>1, SomeAwaits
<1>3. callee[n] = NoFrame
  BY <1>1, <1>2, WaitsForKnown DEF RInv, IInv, WaitsForIs
<1>4. n = p /\ \A t \in Frames : token[t] # p
  <2> SUFFICES ASSUME token[n] = p PROVE FALSE
    BY <1>2 DEF AwaitsFor
  <2>1. p \in Owned(n)
    BY <1>1, FramesAssumption DEF Owned
  <2>2. n \notin Doomed
    BY <1>1, <2>1, DoomedLeast DEF RInv, IInv, DoomedIsLeast
  <2>3. at[n] # "dying"
    BY <2>2, DoomedLeast DEF RInv, IInv, DoomedIsLeast, Dying
  <2>4. at[n] \in {"calling", "returning"}
    BY <1>1, <2>3, FramesAssumption DEF RInv, AtRest
  <2>5. QED
    BY <1>3, <2>4 DEF RInv, IInv, TypeOK, WaitOK, HandlesOK
<1>5. at[p] \notin {"calling", "returning"}
  BY <1>1, <1>3, <1>4 DEF RInv, IInv, TypeOK, WaitOK, HandlesOK
<1>6. at[p] = "waiting" => handler[p] = "operation"
  BY <1>1, <1>4 DEF RInv, IInv, HeldOK
<1>7. QED
  BY <1>1, <1>5, <1>6 DEF UnderWay

(* However coroutines call, hop, end and are abandoned, those that wait    *)
(* form chains, and each chain ends in a coroutine that does not wait for  *)
(* another: no set of them waits for itself.                               *)
THEOREM NeverStandsStill == Spec => []NoStandstill
<1>1. Init => Chains([p \in Live |-> WaitsFor(p)])
  <2> SUFFICES ASSUME Init PROVE Chains([p \in Live |-> WaitsFor(p)])
    OBVIOUS
  <2>1. Live = {}
    BY LiveIs DEF Init, UnderWay
  <2>2. QED
    BY <2>1 DEF Chains
<1>2. RInv /\ RInv' /\ Chains([p \in Live |-> WaitsFor(p)]) /\ [Next]_vars
        => Chains([p \in Live |-> WaitsFor(p)])'
  BY StepMaps, StepChains
<1>3. Spec => []Chains([p \in Live |-> WaitsFor(p)])
  BY <1>1, <1>2, Rests, PTL DEF Spec
<1>4. RInv /\ Chains([p \in Live |-> WaitsFor(p)]) => NoStandstill
  BY EndOfChain DEF Chains, NoStandstill
<1>5. QED
  BY <1>3, <1>4, Rests, PTL
=============================================================================
