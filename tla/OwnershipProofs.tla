-------------------------- MODULE OwnershipProofs --------------------------
(***************************************************************************)
(* Every suspended frame has one owner and finds the result it waits for,  *)
(* for any number of frames.                                               *)
(***************************************************************************)
EXTENDS Ownership, TLAPS

Awaiting == {"calling", "returning", "delivering"}

\* The handles in a frame and the handler that holds it: a caller waits in a
\* call of this very frame, and a token in the operation of this trampoline.
HandlesOK(f) ==
  /\ caller[f] # NoFrame =>
       /\ at[caller[f]] = "calling" /\ handler[caller[f]] = "none"
       /\ callee[caller[f]] = f /\ kind[f] = "promise"
  /\ token[f] # NoFrame =>
       at[token[f]] = "waiting" /\ handler[token[f]] = "none" /\ kind[f] = "trampoline"
  /\ handler[f] = "operation" => at[f] = "waiting"
  /\ handler[f] = "hop" => at[f] = "calling"

BodyOK(p) == \A f \in body[p] : at[f] = "ready"

\* No two handles hold one frame, and no two frames await one.
Unshared ==
  /\ \A t, u \in Frames : token[t] # NoFrame /\ token[t] = token[u] => t = u
  /\ \A p, q \in Frames \cup {Outside} : \A f \in Frames : f \in body[p] /\ f \in body[q] => p = q
  /\ \A p, q \in Frames :
       callee[p] # NoFrame /\ callee[p] = callee[q] /\ at[p] \in Awaiting /\ at[q] \in Awaiting
         => p = q

\* A suspended frame is held.
HeldOK(f) ==
  /\ at[f] = "ready" => \E p \in Frames \cup {Outside} : f \in body[p]
  /\ at[f] = "waiting" => handler[f] = "operation" \/ \E t \in Frames : token[t] = f

\* A frame that did not start or is over holds nothing, and a promise that is
\* under way has somebody to return to.
FrameOK(f) ==
  /\ at[f] \in {"none", "ready", "final"} =>
       caller[f] = NoFrame /\ token[f] = NoFrame /\ body[f] = {}
  /\ at[f] \in {"none", "ready"} => kind[f] = "promise"
  /\ kind[f] = "promise" /\ at[f] \in {"running", "waiting", "calling", "returning"} =>
       caller[f] # NoFrame

\* What a frame that awaits another finds.
WaitOK(p) ==
  /\ at[p] \in {"returning", "delivering"} \/ handler[p] = "hop" =>
       /\ callee[p] # NoFrame /\ at[callee[p]] = "final"
       /\ result[callee[p]] # "nothing" /\ callee[p] \notin lost
  /\ at[p] = "calling" /\ handler[p] = "none" =>
       /\ callee[p] # NoFrame /\ caller[callee[p]] = p
       /\ at[callee[p]] \in {"running", "waiting", "calling", "returning", "dying"}

\* A finished callee is awaited or lost.
FinalOK(f) ==
  /\ f \in lost => at[f] = "final"
  /\ at[f] = "final" /\ f \notin lost => \E p \in Frames : callee[p] = f /\ at[p] \in Awaiting

IInv ==
  /\ TypeOK
  /\ \A p \in Frames \cup {Outside} : BodyOK(p)
  /\ Unshared
  /\ \A f \in Frames : HandlesOK(f) /\ HeldOK(f) /\ FrameOK(f) /\ WaitOK(f) /\ FinalOK(f)

(* A finished callee is still awaited if nobody who awaits stops to, and   *)
(* no other coroutine ends.                                                *)
LEMMA AwaitedStill ==
  ASSUME IInv, UNCHANGED lost,
         \A g \in Frames : at'[g] = "final" <=> at[g] = "final",
         \A p \in Frames : at[p] \in Awaiting =>
           at'[p] \in Awaiting /\ callee'[p] = callee[p]
  PROVE  \A g \in Frames : FinalOK(g)'
BY DEF IInv, FinalOK

(* The same where some frames stop to await, with the callees they had.    *)
LEMMA FinalKept ==
  ASSUME IInv,
         \A g \in lost' : at'[g] = "final",
         \A g \in Frames : at'[g] = "final" /\ g \notin lost' =>
           /\ at[g] = "final" /\ g \notin lost
           /\ \A p \in Frames : callee[p] = g /\ at[p] \in Awaiting =>
                callee'[p] = g /\ at'[p] \in Awaiting
  PROVE  \A g \in Frames : FinalOK(g)'
BY DEF IInv, FinalOK

(* Two frames await one only if one of them begins to: p, with a callee    *)
(* that nobody awaits.                                                     *)
LEMMA AwaitedOnce ==
  ASSUME IInv, NEW p \in Frames, NEW f \in Frames,
         \A q \in Frames :
           at'[q] \in Awaiting =>
             IF q = p THEN callee'[q] = f
             ELSE at[q] \in Awaiting /\ callee'[q] = callee[q] /\ callee[q] # f
  PROVE  \A q1, q2 \in Frames :
           callee'[q1] # NoFrame /\ callee'[q1] = callee'[q2]
             /\ at'[q1] \in Awaiting /\ at'[q2] \in Awaiting => q1 = q2
<1> SUFFICES ASSUME NEW q1 \in Frames, NEW q2 \in Frames,
                    callee'[q1] # NoFrame, callee'[q1] = callee'[q2],
                    at'[q1] \in Awaiting, at'[q2] \in Awaiting
             PROVE  q1 = q2
  OBVIOUS
<1>1. CASE q1 # p /\ q2 # p
  <2>1. /\ callee[q1] # NoFrame /\ callee[q1] = callee[q2]
        /\ at[q1] \in Awaiting /\ at[q2] \in Awaiting
    BY <1>1
  <2>2. QED
    BY <2>1 DEF IInv, Unshared
<1>2. CASE q1 = p \/ q2 = p
  BY <1>2
<1>3. QED
  BY <1>1, <1>2

(* And none does if no frame begins to await.                              *)
LEMMA AwaitedByNoMore ==
  ASSUME IInv,
         \A q \in Frames : at'[q] \in Awaiting => at[q] \in Awaiting /\ callee'[q] = callee[q]
  PROVE  \A q1, q2 \in Frames :
           callee'[q1] # NoFrame /\ callee'[q1] = callee'[q2]
             /\ at'[q1] \in Awaiting /\ at'[q2] \in Awaiting => q1 = q2
<1> SUFFICES ASSUME NEW q1 \in Frames, NEW q2 \in Frames,
                    callee'[q1] # NoFrame, callee'[q1] = callee'[q2],
                    at'[q1] \in Awaiting, at'[q2] \in Awaiting
             PROVE  q1 = q2
  OBVIOUS
<1>1. /\ callee[q1] # NoFrame /\ callee[q1] = callee[q2]
      /\ at[q1] \in Awaiting /\ at[q2] \in Awaiting
  OBVIOUS
<1>2. QED
  BY <1>1 DEF IInv, Unshared

(* A frame is destroyed and the frames its handles hold begin to go: each  *)
(* was held by that handle only.                                           *)
LEMMA ReleaseKeeps ==
  ASSUME IInv, NEW f \in Frames, Release(f)
  PROVE  IInv'
<1>a. \A g \in Frames :
        at'[g] = IF g = f THEN "none" ELSE IF g \in Owned(f) THEN "dying" ELSE at[g]
  BY DEF Release, Destroyed, IInv, TypeOK
<1>b. /\ at[f] = "dying"
      /\ \A g \in Frames : g \in Owned(f) => at[g] \in {"ready", "waiting", "calling"}
  BY DEF Release, Owned, IInv, BodyOK, HandlesOK
<1>c. \A g \in Frames : g \in Owned(f) /\ at[g] = "calling" => callee[g] = f
  BY DEF Owned, IInv, BodyOK, HandlesOK
<1>1. TypeOK'
  BY DEF IInv, Release, Destroyed, TypeOK, Places, Outcomes
<1>2. ASSUME NEW q \in Frames \cup {Outside} PROVE BodyOK(q)'
  <2> SUFFICES ASSUME NEW g \in body'[q] PROVE at'[g] = "ready"
    BY DEF BodyOK
  <2>1. q # f /\ g \in body[q] /\ g \in Frames
    BY DEF Release, IInv, TypeOK
  <2>2. at[g] = "ready" /\ g \notin body[f]
    BY <2>1 DEF IInv, BodyOK, Unshared
  <2>3. g # f /\ g \notin Owned(f)
    BY <2>1, <2>2, <1>b DEF Owned, IInv, HandlesOK
  <2>4. QED
    BY <2>1, <2>2, <2>3, <1>a
<1>3. Unshared'
  <2>1. \A t1, t2 \in Frames :
          token'[t1] # NoFrame /\ token'[t1] = token'[t2] => t1 = t2
    BY DEF IInv, Release, Destroyed, Unshared
  <2>2. \A q1, q2 \in Frames \cup {Outside} : \A g \in Frames :
          g \in body'[q1] /\ g \in body'[q2] => q1 = q2
    BY DEF IInv, Release, Destroyed, Unshared
  <2>3. \A q1, q2 \in Frames :
          callee'[q1] # NoFrame /\ callee'[q1] = callee'[q2]
            /\ at'[q1] \in Awaiting /\ at'[q2] \in Awaiting => q1 = q2
    <3>1. \A q \in Frames : at'[q] \in Awaiting => at[q] \in Awaiting /\ callee'[q] = callee[q]
      BY DEF Release, Destroyed, IInv, Awaiting
    <3>2. QED
      BY <3>1, AwaitedByNoMore
  <2>4. QED
    BY <2>1, <2>2, <2>3 DEF Unshared
<1>4. ASSUME NEW g \in Frames PROVE HandlesOK(g)'
  <2>1. caller'[g] # NoFrame =>
          /\ at'[caller'[g]] = "calling" /\ handler'[caller'[g]] = "none"
          /\ callee'[caller'[g]] = g /\ kind'[g] = "promise"
    <3> SUFFICES ASSUME caller'[g] # NoFrame
                 PROVE  /\ at'[caller'[g]] = "calling" /\ handler'[caller'[g]] = "none"
                        /\ callee'[caller'[g]] = g /\ kind'[g] = "promise"
      OBVIOUS
    <3>1. g # f /\ caller'[g] = caller[g] /\ caller[g] \in Frames /\ kind'[g] = kind[g]
      BY DEF Release, IInv, TypeOK
    <3>2. /\ at[caller[g]] = "calling" /\ handler[caller[g]] = "none"
          /\ callee[caller[g]] = g /\ kind[g] = "promise"
      BY <3>1 DEF IInv, HandlesOK
    <3>3. caller[g] # f /\ caller[g] \notin body[f] /\ caller[g] # token[f]
      BY <3>1, <3>2 DEF Release, IInv, BodyOK, HandlesOK
    <3>4. caller[g] # caller[f]
      BY <3>1, <3>2 DEF IInv, HandlesOK
    <3>5. QED
      BY <3>1, <3>2, <3>3, <3>4 DEF Release, Destroyed, IInv, Owned
  <2>2. token'[g] # NoFrame =>
          /\ at'[token'[g]] = "waiting" /\ handler'[token'[g]] = "none"
          /\ kind'[g] = "trampoline"
    BY DEF IInv, Release, Destroyed, TypeOK, HandlesOK, BodyOK, FrameOK, Unshared,
       Awaiting, Owned
  <2>3. /\ handler'[g] = "operation" => at'[g] = "waiting"
        /\ handler'[g] = "hop" => at'[g] = "calling"
    BY DEF IInv, Release, Destroyed, HandlesOK, BodyOK, Owned
  <2>4. QED
    BY <2>1, <2>2, <2>3 DEF HandlesOK
<1>5. ASSUME NEW g \in Frames PROVE HeldOK(g)'
  <2>1. ASSUME at'[g] = "ready" PROVE \E p \in Frames \cup {Outside} : g \in body'[p]
    <3>1. at[g] = "ready" /\ g \notin body[f]
      BY <2>1, FramesAssumption DEF Release, Destroyed, IInv, Owned
    <3>2. PICK p \in Frames \cup {Outside} : g \in body[p]
      BY <3>1 DEF IInv, HeldOK
    <3>3. g \in body'[p]
      BY <3>1, <3>2 DEF Release, IInv
    <3>4. QED
      BY <3>3
  <2>2. ASSUME at'[g] = "waiting"
        PROVE  handler'[g] = "operation" \/ \E t \in Frames : token'[t] = g
    <3>1. at[g] = "waiting" /\ token[f] # g
      BY <2>2, FramesAssumption DEF Release, Destroyed, IInv, Owned
    <3>2. QED
      BY <3>1 DEF Release, IInv, HeldOK
  <2>3. QED
    BY <2>1, <2>2 DEF HeldOK
<1>6. ASSUME NEW g \in Frames PROVE FrameOK(g)'
  BY DEF IInv, Release, Destroyed, TypeOK, FrameOK
<1>7. ASSUME NEW g \in Frames PROVE WaitOK(g)'
  BY FramesAssumption DEF IInv, Release, Destroyed, TypeOK, WaitOK, HandlesOK,
     BodyOK, Owned
<1>8. \A g \in Frames : FinalOK(g)'
  <2>1. \A h \in Frames : at'[h] = "final" => at[h] = "final" /\ h # f
    BY <1>a
  <2>2. ASSUME NEW h \in Frames, at[h] = "final" PROVE at'[h] = "final"
    BY <2>2, <1>a, <1>b
  <2>3. ASSUME NEW h \in Frames, at[h] = "final",
               NEW q \in Frames, callee[q] = h, at[q] \in Awaiting
        PROVE  callee'[q] = h /\ at'[q] \in Awaiting
    <3>1. q # f /\ q \notin Owned(f)
      BY <2>3, <1>b, <1>c DEF Awaiting
    <3>2. QED
      BY <2>3, <3>1, <1>a DEF Release, IInv
  <2>4. /\ lost' = lost
        /\ \A h \in lost : h \in Frames /\ at[h] = "final"
    BY DEF Release, IInv, TypeOK, FinalOK
  <2>5. QED
    BY <2>1, <2>2, <2>3, <2>4, FinalKept
<1>9. QED
  BY <1>1, <1>2, <1>3, <1>4, <1>5, <1>6, <1>7, <1>8 DEF IInv

(* A promise coroutine is created, held by its promise object.             *)
LEMMA CreateKeeps ==
  ASSUME IInv, NEW p \in Frames \cup {Outside}, NEW f \in Frames, Create(p, f)
  PROVE  IInv'
<1>1. TypeOK'
  BY DEF IInv, Create, TypeOK, Places
<1>2. ASSUME NEW q \in Frames \cup {Outside} PROVE BodyOK(q)'
  BY DEF IInv, Create, TypeOK, BodyOK
<1>3. Unshared'
  BY DEF IInv, Create, Unshared, BodyOK, Awaiting
<1>4. ASSUME NEW g \in Frames PROVE HandlesOK(g)'
  BY DEF IInv, Create, HandlesOK
<1>5. ASSUME NEW g \in Frames PROVE HeldOK(g)'
  BY DEF IInv, Create, TypeOK, HeldOK
<1>6. ASSUME NEW g \in Frames PROVE FrameOK(g)'
  BY FramesAssumption DEF IInv, Create, FrameOK, Body
<1>7. ASSUME NEW g \in Frames PROVE WaitOK(g)'
  BY DEF IInv, Create, WaitOK
<1>8. \A g \in Frames : FinalOK(g)'
  <2>1. \A h \in Frames : at'[h] = "final" <=> at[h] = "final"
    BY DEF IInv, Create
  <2>2. \A q \in Frames :
          at[q] \in Awaiting => at'[q] \in Awaiting /\ callee'[q] = callee[q]
    BY DEF IInv, Create, Awaiting
  <2>3. QED
    BY <2>1, <2>2, AwaitedStill DEF Create
<1>9. QED
  BY <1>1, <1>2, <1>3, <1>4, <1>5, <1>6, <1>7, <1>8 DEF IInv

(* A detached coroutine starts, held by nobody.                            *)
LEMMA StartDetachedKeeps ==
  ASSUME IInv, NEW p \in Frames \cup {Outside}, NEW f \in Frames, StartDetached(p, f)
  PROVE  IInv'
<1>1. TypeOK'
  BY DEF IInv, StartDetached, TypeOK, Places
<1>2. ASSUME NEW q \in Frames \cup {Outside} PROVE BodyOK(q)'
  BY DEF IInv, StartDetached, BodyOK
<1>3. Unshared'
  BY DEF IInv, StartDetached, Unshared, Awaiting
<1>4. ASSUME NEW g \in Frames PROVE HandlesOK(g)'
  BY DEF IInv, StartDetached, HandlesOK, FrameOK
<1>5. ASSUME NEW g \in Frames PROVE HeldOK(g)'
  BY DEF IInv, StartDetached, HeldOK
<1>6. ASSUME NEW g \in Frames PROVE FrameOK(g)'
  BY DEF IInv, StartDetached, TypeOK, FrameOK
<1>7. ASSUME NEW g \in Frames PROVE WaitOK(g)'
  BY DEF IInv, StartDetached, WaitOK
<1>8. \A g \in Frames : FinalOK(g)'
  <2>1. \A h \in Frames : at'[h] = "final" <=> at[h] = "final"
    BY DEF IInv, StartDetached
  <2>2. \A q \in Frames :
          at[q] \in Awaiting => at'[q] \in Awaiting /\ callee'[q] = callee[q]
    BY DEF IInv, StartDetached, Awaiting
  <2>3. QED
    BY <2>1, <2>2, AwaitedStill DEF StartDetached
<1>9. QED
  BY <1>1, <1>2, <1>3, <1>4, <1>5, <1>6, <1>7, <1>8 DEF IInv

(* A promise object goes, the frame it holds with it.                      *)
LEMMA DiscardKeeps ==
  ASSUME IInv, NEW p \in Frames \cup {Outside}, NEW f \in Frames, Discard(p, f)
  PROVE  IInv'
<1>1. TypeOK'
  BY DEF IInv, Discard, Destroyed, TypeOK, Places
<1>2. ASSUME NEW q \in Frames \cup {Outside} PROVE BodyOK(q)'
  BY DEF IInv, Discard, Destroyed, TypeOK, BodyOK, Unshared
<1>3. Unshared'
  BY DEF IInv, Discard, Destroyed, Unshared, Awaiting
<1>4. ASSUME NEW g \in Frames PROVE HandlesOK(g)'
  BY DEF IInv, Discard, Destroyed, TypeOK, HandlesOK, BodyOK
<1>5. ASSUME NEW g \in Frames PROVE HeldOK(g)'
  BY DEF IInv, Discard, Destroyed, HeldOK
<1>6. ASSUME NEW g \in Frames PROVE FrameOK(g)'
  BY DEF IInv, Discard, Destroyed, FrameOK
<1>7. ASSUME NEW g \in Frames PROVE WaitOK(g)'
  BY DEF IInv, Discard, Destroyed, TypeOK, WaitOK, BodyOK
<1>8. \A g \in Frames : FinalOK(g)'
  <2>1. \A h \in Frames : at'[h] = "final" <=> at[h] = "final"
    BY DEF IInv, Discard, Destroyed, BodyOK
  <2>2. \A q \in Frames :
          at[q] \in Awaiting => at'[q] \in Awaiting /\ callee'[q] = callee[q]
    BY DEF IInv, Discard, Destroyed, BodyOK, Awaiting
  <2>3. QED
    BY <2>1, <2>2, AwaitedStill DEF Discard
<1>9. QED
  BY <1>1, <1>2, <1>3, <1>4, <1>5, <1>6, <1>7, <1>8 DEF IInv

(* A frame awaits a promise: each now knows the other, and nobody else     *)
(* awaited the callee, which had not started.                              *)
LEMMA AwaitPromiseKeeps ==
  ASSUME IInv, NEW p \in Frames \cup {Outside}, NEW f \in Frames, AwaitPromise(p, f)
  PROVE  IInv'
<1>0. \A q \in Frames : at[q] \in Awaiting => callee[q] # f
  <2> SUFFICES ASSUME NEW q \in Frames, at[q] \in Awaiting, callee[q] = f PROVE FALSE
    OBVIOUS
  <2>1. at[f] \in {"none", "ready"}
    BY DEF AwaitPromise, IInv, BodyOK
  <2>2. at[q] = "calling" => handler[q] \in {"none", "hop"}
    BY DEF IInv, TypeOK, HandlesOK
  <2>3. QED
    BY <2>1, <2>2 DEF IInv, WaitOK, Awaiting
<1>1. TypeOK'
  BY DEF IInv, AwaitPromise, TypeOK, Places, Taken, Calls
<1>2. ASSUME NEW q \in Frames \cup {Outside} PROVE BodyOK(q)'
  BY DEF IInv, AwaitPromise, TypeOK, BodyOK, Unshared, FrameOK, Taken
<1>3. Unshared'
  <2>1. \A t1, t2 \in Frames :
          token'[t1] # NoFrame /\ token'[t1] = token'[t2] => t1 = t2
    BY DEF IInv, AwaitPromise, Unshared
  <2>2. \A q1, q2 \in Frames \cup {Outside} : \A g \in Frames :
          g \in body'[q1] /\ g \in body'[q2] => q1 = q2
    BY DEF IInv, AwaitPromise, Unshared, Taken
  <2>3. \A q1, q2 \in Frames :
          callee'[q1] # NoFrame /\ callee'[q1] = callee'[q2]
            /\ at'[q1] \in Awaiting /\ at'[q2] \in Awaiting => q1 = q2
    <3>1. ASSUME NEW q \in Frames, at'[q] \in Awaiting
          PROVE  IF q = p THEN callee'[q] = f
                 ELSE at[q] \in Awaiting /\ callee'[q] = callee[q] /\ callee[q] # f
      BY <3>1, <1>0 DEF AwaitPromise, Calls, IInv, TypeOK, Awaiting
    <3>2. p \in Frames
      BY DEF AwaitPromise, Body
    <3>3. QED
      BY <3>1, <3>2, AwaitedOnce
  <2>4. QED
    BY <2>1, <2>2, <2>3 DEF Unshared
<1>4. ASSUME NEW g \in Frames PROVE HandlesOK(g)'
  <2>1. caller'[g] # NoFrame =>
          /\ at'[caller'[g]] = "calling" /\ handler'[caller'[g]] = "none"
          /\ callee'[caller'[g]] = g /\ kind'[g] = "promise"
    BY DEF IInv, AwaitPromise, TypeOK, HandlesOK, BodyOK, FrameOK, Body, Calls
  <2>2. token'[g] # NoFrame =>
          /\ at'[token'[g]] = "waiting" /\ handler'[token'[g]] = "none"
          /\ kind'[g] = "trampoline"
    BY DEF IInv, AwaitPromise, TypeOK, HandlesOK, BodyOK, Body
  <2>3. /\ handler'[g] = "operation" => at'[g] = "waiting"
        /\ handler'[g] = "hop" => at'[g] = "calling"
    BY DEF IInv, AwaitPromise, TypeOK, HandlesOK, BodyOK, Body
  <2>4. QED
    BY <2>1, <2>2, <2>3 DEF HandlesOK
<1>5. ASSUME NEW g \in Frames PROVE HeldOK(g)'
  BY DEF IInv, AwaitPromise, TypeOK, HeldOK, Taken
<1>6. ASSUME NEW g \in Frames PROVE FrameOK(g)'
  BY FramesAssumption DEF IInv, AwaitPromise, TypeOK, FrameOK, Body, Taken, Calls
<1>7. ASSUME NEW g \in Frames PROVE WaitOK(g)'
  <2>1. /\ at[p] = "running" /\ at[f] = "ready" /\ p \in Frames /\ handler[p] = "none"
        /\ caller[f] = NoFrame
    BY DEF AwaitPromise, IInv, Body, TypeOK, BodyOK, HandlesOK, FrameOK
  <2>2. CASE g = p
    BY <2>1, <2>2, FramesAssumption DEF AwaitPromise, IInv, Calls, TypeOK, WaitOK
  <2>3. CASE g # p
    <3>1. at'[g] \in Awaiting => at'[g] = at[g] /\ callee[g] # f
      BY <2>1, <2>3, <1>0 DEF AwaitPromise, IInv, TypeOK, Awaiting
    <3>2. handler'[g] = "hop" => at[g] = "calling" /\ g # f
      BY <2>1 DEF AwaitPromise, IInv, HandlesOK
    <3>3. QED
      BY <2>1, <2>3, <3>1, <3>2, <1>0 DEF AwaitPromise, IInv, Calls, TypeOK, WaitOK
  <2>4. QED
    BY <2>2, <2>3
<1>8. \A g \in Frames : FinalOK(g)'
  <2>1. \A h \in Frames : at'[h] = "final" <=> at[h] = "final"
    BY DEF IInv, AwaitPromise, TypeOK, BodyOK, FrameOK
  <2>2. \A q \in Frames :
          at[q] \in Awaiting => at'[q] \in Awaiting /\ callee'[q] = callee[q]
    BY DEF IInv, AwaitPromise, TypeOK, BodyOK, Awaiting, Body, Calls
  <2>3. QED
    BY <2>1, <2>2, AwaitedStill DEF AwaitPromise
<1>9. QED
  BY <1>1, <1>2, <1>3, <1>4, <1>5, <1>6, <1>7, <1>8 DEF IInv

(* await(): the trampoline awaits the promise and holds whoever awaits the *)
(* operation.                                                              *)
LEMMA AwaitKeeps ==
  ASSUME IInv, NEW p \in Frames \cup {Outside}, NEW f \in Frames, NEW t \in Frames,
         NEW w \in {NoFrame, p}, Await(p, f, t, w)
  PROVE  IInv'
<1>0. \A q \in Frames : at[q] \in Awaiting => callee[q] # f
  <2> SUFFICES ASSUME NEW q \in Frames, at[q] \in Awaiting, callee[q] = f PROVE FALSE
    OBVIOUS
  <2>1. at[f] \in {"none", "ready"}
    BY DEF Await, IInv, BodyOK
  <2>2. at[q] = "calling" => handler[q] \in {"none", "hop"}
    BY DEF IInv, TypeOK, HandlesOK
  <2>3. QED
    BY <2>1, <2>2 DEF IInv, WaitOK, Awaiting
<1>1. TypeOK'
  BY DEF IInv, Await, TypeOK, Places, Taken, Calls, StartCoro
<1>2. ASSUME NEW q \in Frames \cup {Outside} PROVE BodyOK(q)'
  BY FramesAssumption DEF IInv, Await, TypeOK, BodyOK, Unshared, Body, Taken
<1>3. Unshared'
  <2>1. \A t1, t2 \in Frames :
          token'[t1] # NoFrame /\ token'[t1] = token'[t2] => t1 = t2
    BY DEF IInv, Await, Unshared, HandlesOK, Body, StartCoro
  <2>2. \A q1, q2 \in Frames \cup {Outside} : \A g \in Frames :
          g \in body'[q1] /\ g \in body'[q2] => q1 = q2
    BY DEF IInv, Await, Unshared, Taken
  <2>3. \A q1, q2 \in Frames :
          callee'[q1] # NoFrame /\ callee'[q1] = callee'[q2]
            /\ at'[q1] \in Awaiting /\ at'[q2] \in Awaiting => q1 = q2
    <3>1. ASSUME NEW q \in Frames, at'[q] \in Awaiting
          PROVE  IF q = t THEN callee'[q] = f
                 ELSE at[q] \in Awaiting /\ callee'[q] = callee[q] /\ callee[q] # f
      BY <3>1, <1>0 DEF Await, Calls, StartCoro, IInv, TypeOK, Awaiting
    <3>2. QED
      BY <3>1, AwaitedOnce
  <2>4. QED
    BY <2>1, <2>2, <2>3 DEF Unshared
<1>4. ASSUME NEW g \in Frames PROVE HandlesOK(g)'
  <2>1. caller'[g] # NoFrame =>
          /\ at'[caller'[g]] = "calling" /\ handler'[caller'[g]] = "none"
          /\ callee'[caller'[g]] = g /\ kind'[g] = "promise"
    BY DEF IInv, Await, TypeOK, HandlesOK, BodyOK, FrameOK, Body, Calls, StartCoro
  <2>2. token'[g] # NoFrame =>
          /\ at'[token'[g]] = "waiting" /\ handler'[token'[g]] = "none"
          /\ kind'[g] = "trampoline"
    BY FramesAssumption DEF IInv, Await, TypeOK, HandlesOK, BodyOK, FrameOK,
       Unshared, Body, Taken, Calls, StartCoro
  <2>3. /\ handler'[g] = "operation" => at'[g] = "waiting"
        /\ handler'[g] = "hop" => at'[g] = "calling"
    BY FramesAssumption DEF IInv, Await, HandlesOK, BodyOK, Body
  <2>4. QED
    BY <2>1, <2>2, <2>3 DEF HandlesOK
<1>5. ASSUME NEW g \in Frames PROVE HeldOK(g)'
  BY FramesAssumption DEF IInv, Await, TypeOK, HeldOK, FrameOK, Taken, StartCoro
<1>6. ASSUME NEW g \in Frames PROVE FrameOK(g)'
  BY FramesAssumption DEF IInv, Await, TypeOK, FrameOK, Body, Taken, Calls,
     StartCoro
<1>7. ASSUME NEW g \in Frames PROVE WaitOK(g)'
  BY FramesAssumption DEF IInv, Await, TypeOK, WaitOK, HandlesOK, BodyOK, Body,
     Calls, StartCoro
<1>8. \A g \in Frames : FinalOK(g)'
  <2>1. \A h \in Frames : at'[h] = "final" <=> at[h] = "final"
    BY FramesAssumption DEF IInv, Await, BodyOK, Body
  <2>2. \A q \in Frames :
          at[q] \in Awaiting => at'[q] \in Awaiting /\ callee'[q] = callee[q]
    BY FramesAssumption DEF IInv, Await, BodyOK, Awaiting, Body, Calls, StartCoro
  <2>3. QED
    BY <2>1, <2>2, AwaitedStill DEF Await
<1>9. QED
  BY <1>1, <1>2, <1>3, <1>4, <1>5, <1>6, <1>7, <1>8 DEF IInv

(* A coroutine suspends in an operation, held by the handler.              *)
LEMMA SuspendKeeps ==
  ASSUME IInv, NEW f \in Frames, Suspend(f)
  PROVE  IInv'
<1>1. TypeOK'
  BY DEF IInv, Suspend, TypeOK, Places
<1>2. ASSUME NEW q \in Frames \cup {Outside} PROVE BodyOK(q)'
  BY DEF IInv, Suspend, BodyOK
<1>3. Unshared'
  BY DEF IInv, Suspend, Unshared, Awaiting
<1>4. ASSUME NEW g \in Frames PROVE HandlesOK(g)'
  BY DEF IInv, Suspend, TypeOK, HandlesOK
<1>5. ASSUME NEW g \in Frames PROVE HeldOK(g)'
  BY DEF IInv, Suspend, TypeOK, HeldOK
<1>6. ASSUME NEW g \in Frames PROVE FrameOK(g)'
  BY DEF IInv, Suspend, FrameOK
<1>7. ASSUME NEW g \in Frames PROVE WaitOK(g)'
  BY DEF IInv, Suspend, WaitOK
<1>8. \A g \in Frames : FinalOK(g)'
  <2>1. \A h \in Frames : at'[h] = "final" <=> at[h] = "final"
    BY DEF IInv, Suspend
  <2>2. \A q \in Frames :
          at[q] \in Awaiting => at'[q] \in Awaiting /\ callee'[q] = callee[q]
    BY DEF IInv, Suspend, Awaiting
  <2>3. QED
    BY <2>1, <2>2, AwaitedStill DEF Suspend
<1>9. QED
  BY <1>1, <1>2, <1>3, <1>4, <1>5, <1>6, <1>7, <1>8 DEF IInv

(* A handler resumes its coroutine: in its body after an operation, in its *)
(* co_await after the end of a callee.                                     *)
LEMMA CompleteKeeps ==
  ASSUME IInv, NEW f \in Frames, Complete(f)
  PROVE  IInv'
<1>1. TypeOK'
  BY DEF IInv, Complete, TypeOK, Places
<1>2. ASSUME NEW q \in Frames \cup {Outside} PROVE BodyOK(q)'
  BY DEF IInv, Complete, TypeOK, BodyOK, HandlesOK
<1>3. Unshared'
  BY DEF IInv, Complete, Unshared, HandlesOK, Awaiting
<1>4. ASSUME NEW g \in Frames PROVE HandlesOK(g)'
  BY DEF IInv, Complete, TypeOK, HandlesOK
<1>5. ASSUME NEW g \in Frames PROVE HeldOK(g)'
  BY DEF IInv, Complete, TypeOK, HeldOK
<1>6. ASSUME NEW g \in Frames PROVE FrameOK(g)'
  BY DEF IInv, Complete, TypeOK, FrameOK, HandlesOK
<1>7. ASSUME NEW g \in Frames PROVE WaitOK(g)'
  BY DEF IInv, Complete, TypeOK, WaitOK, HandlesOK
<1>8. \A g \in Frames : FinalOK(g)'
  <2>1. \A h \in Frames : at'[h] = "final" <=> at[h] = "final"
    BY DEF IInv, Complete, TypeOK, HandlesOK
  <2>2. \A q \in Frames :
          at[q] \in Awaiting => at'[q] \in Awaiting /\ callee'[q] = callee[q]
    BY DEF IInv, Complete, TypeOK, HandlesOK, Awaiting
  <2>3. QED
    BY <2>1, <2>2, AwaitedStill DEF Complete
<1>9. QED
  BY <1>1, <1>2, <1>3, <1>4, <1>5, <1>6, <1>7, <1>8 DEF IInv

(* A handler is destroyed: the callee whose result it brought is lost.     *)
LEMMA DropKeeps ==
  ASSUME IInv, NEW f \in Frames, Drop(f)
  PROVE  IInv'
<1>1. TypeOK'
  BY DEF IInv, Drop, Destroyed, TypeOK, Places, WaitOK
<1>2. ASSUME NEW q \in Frames \cup {Outside} PROVE BodyOK(q)'
  BY DEF IInv, Drop, Destroyed, TypeOK, BodyOK, HandlesOK
<1>3. Unshared'
  BY DEF IInv, Drop, Destroyed, Unshared, Awaiting
<1>4. ASSUME NEW g \in Frames PROVE HandlesOK(g)'
  BY DEF IInv, Drop, Destroyed, TypeOK, HandlesOK
<1>5. ASSUME NEW g \in Frames PROVE HeldOK(g)'
  BY DEF IInv, Drop, Destroyed, HeldOK
<1>6. ASSUME NEW g \in Frames PROVE FrameOK(g)'
  BY DEF IInv, Drop, Destroyed, FrameOK
<1>7. ASSUME NEW g \in Frames PROVE WaitOK(g)'
  BY DEF IInv, Drop, Destroyed, TypeOK, WaitOK, HandlesOK, Unshared, Awaiting
<1>8. ASSUME NEW g \in Frames PROVE FinalOK(g)'
  <2>1. \A h \in lost' : at'[h] = "final"
    BY DEF IInv, Drop, Destroyed, TypeOK, FinalOK, WaitOK, HandlesOK
  <2>2. ASSUME NEW h \in Frames, at'[h] = "final", h \notin lost'
        PROVE  at[h] = "final" /\ h \notin lost
    BY <2>2 DEF IInv, Drop, Destroyed
  <2>3. ASSUME NEW h \in Frames, at'[h] = "final", h \notin lost',
               NEW q \in Frames, callee[q] = h, at[q] \in Awaiting
        PROVE  callee'[q] = h /\ at'[q] \in Awaiting
    BY <2>2, <2>3 DEF IInv, Drop, Destroyed, TypeOK, HandlesOK, Awaiting
  <2>4. QED
    BY <2>1, <2>2, <2>3, FinalKept
<1>9. QED
  BY <1>1, <1>2, <1>3, <1>4, <1>5, <1>6, <1>7, <1>8 DEF IInv

(* A promise ends: its caller is told, now or by a handler.                *)
LEMMA FinishKeeps ==
  ASSUME IInv, NEW f \in Frames, NEW r \in Outcomes \ {"nothing"},
         NEW inline \in BOOLEAN, Finish(f, r, inline)
  PROVE  IInv'
<1> DEFINE p == caller[f]
<1>a. /\ p \in Frames /\ p # f /\ at[p] = "calling" /\ handler[p] = "none"
      /\ callee[p] = f /\ at[f] = "running" /\ f \notin body[f] /\ p \notin body[f]
  BY DEF Finish, IInv, TypeOK, FrameOK, HandlesOK, BodyOK
<1>b. \A g \in Frames :
        at'[g] = CASE g = f -> "final"
                   [] g = p -> IF inline THEN "returning" ELSE "calling"
                   [] g \in body[f] -> "dying"
                   [] OTHER -> at[g]
  BY <1>a DEF Finish, Destroyed, IInv, TypeOK
<1>c. /\ body' = [body EXCEPT ![f] = {}] /\ caller' = [caller EXCEPT ![f] = NoFrame]
      /\ result' = [result EXCEPT ![f] = r]
      /\ handler' = [handler EXCEPT ![p] = IF inline THEN @ ELSE "hop"]
      /\ UNCHANGED <<kind, callee, token, lost>>
  BY DEF Finish, Stored
<1> HIDE DEF p
<1>1. TypeOK'
  BY FramesAssumption DEF IInv, Finish, Destroyed, TypeOK, Places, Outcomes, WaitOK,
     Stored
<1>2. ASSUME NEW q \in Frames \cup {Outside} PROVE BodyOK(q)'
  <2> SUFFICES ASSUME NEW g \in body'[q] PROVE at'[g] = "ready"
    BY DEF BodyOK
  <2>1. q # f /\ g \in body[q] /\ g \in Frames
    BY <1>c DEF IInv, TypeOK
  <2>2. at[g] = "ready" /\ g \notin body[f]
    BY <2>1 DEF IInv, BodyOK, Unshared
  <2>3. QED
    BY <2>1, <2>2, <1>a, <1>b
<1>3. Unshared'
  <2>1. \A t1, t2 \in Frames :
          token'[t1] # NoFrame /\ token'[t1] = token'[t2] => t1 = t2
    BY <1>c DEF IInv, Unshared
  <2>2. \A q1, q2 \in Frames \cup {Outside} : \A g \in Frames :
          g \in body'[q1] /\ g \in body'[q2] => q1 = q2
    BY <1>c DEF IInv, Unshared
  <2>3. \A q1, q2 \in Frames :
          callee'[q1] # NoFrame /\ callee'[q1] = callee'[q2]
            /\ at'[q1] \in Awaiting /\ at'[q2] \in Awaiting => q1 = q2
    <3>1. \A q \in Frames : at'[q] \in Awaiting => at[q] \in Awaiting /\ callee'[q] = callee[q]
      BY <1>a, <1>b, <1>c DEF Awaiting
    <3>2. QED
      BY <3>1, AwaitedByNoMore
  <2>4. QED
    BY <2>1, <2>2, <2>3 DEF Unshared
<1>4. ASSUME NEW g \in Frames PROVE HandlesOK(g)'
  BY DEF IInv, Finish, Destroyed, TypeOK, HandlesOK, BodyOK, FrameOK
<1>5. ASSUME NEW g \in Frames PROVE HeldOK(g)'
  <2>1. ASSUME at'[g] = "ready" PROVE \E q \in Frames \cup {Outside} : g \in body'[q]
    <3>1. at[g] = "ready" /\ g \notin body[f]
      BY <2>1, <1>b
    <3>2. PICK q \in Frames \cup {Outside} : g \in body[q]
      BY <3>1 DEF IInv, HeldOK
    <3>3. g \in body'[q]
      BY <3>1, <3>2, <1>c DEF IInv
    <3>4. QED
      BY <3>3
  <2>2. at'[g] = "waiting" => at[g] = "waiting" /\ g # p
    BY <1>b
  <2>3. QED
    BY <2>1, <2>2, <1>c DEF IInv, HeldOK
<1>6. ASSUME NEW g \in Frames PROVE FrameOK(g)'
  BY DEF IInv, Finish, Destroyed, TypeOK, FrameOK, HandlesOK, BodyOK
<1>7. ASSUME NEW g \in Frames PROVE WaitOK(g)'
  BY DEF IInv, Finish, Destroyed, TypeOK, WaitOK, HandlesOK, BodyOK, FrameOK,
     FinalOK, Stored
<1>8. ASSUME NEW g \in Frames PROVE FinalOK(g)'
  <2>1. CASE g = f
    <3>1. callee'[p] = g /\ at'[p] \in Awaiting /\ at'[g] = "final"
      BY <2>1, <1>a, <1>b, <1>c DEF Awaiting
    <3>2. QED
      BY <3>1, <1>a DEF FinalOK
  <2>2. CASE g # f
    <3>1. at'[g] = "final" <=> at[g] = "final"
      BY <2>2, <1>a, <1>b DEF IInv, BodyOK
    <3>2. \A q \in Frames : at[q] \in Awaiting => at'[q] \in Awaiting
      BY <1>a, <1>b DEF IInv, BodyOK, Awaiting
    <3>3. QED
      BY <3>1, <3>2, <1>c DEF IInv, FinalOK
  <2>3. QED
    BY <2>1, <2>2
<1>9. QED
  BY <1>1, <1>2, <1>3, <1>4, <1>5, <1>6, <1>7, <1>8 DEF IInv

(* A detached coroutine ends and destroys itself.                          *)
LEMMA FinishDetachedKeeps ==
  ASSUME IInv, NEW f \in Frames, FinishDetached(f)
  PROVE  IInv'
<1>1. TypeOK'
  BY DEF IInv, FinishDetached, Destroyed, TypeOK, Places
<1>2. ASSUME NEW q \in Frames \cup {Outside} PROVE BodyOK(q)'
  BY DEF IInv, FinishDetached, Destroyed, TypeOK, BodyOK
<1>3. Unshared'
  BY DEF IInv, FinishDetached, Destroyed, Unshared, Awaiting
<1>4. ASSUME NEW g \in Frames PROVE HandlesOK(g)'
  BY DEF IInv, FinishDetached, Destroyed, TypeOK, HandlesOK
<1>5. ASSUME NEW g \in Frames PROVE HeldOK(g)'
  BY DEF IInv, FinishDetached, Destroyed, HeldOK
<1>6. ASSUME NEW g \in Frames PROVE FrameOK(g)'
  BY DEF IInv, FinishDetached, Destroyed, FrameOK
<1>7. ASSUME NEW g \in Frames PROVE WaitOK(g)'
  BY DEF IInv, FinishDetached, Destroyed, TypeOK, WaitOK
<1>8. \A g \in Frames : FinalOK(g)'
  <2>1. \A h \in Frames : at'[h] = "final" <=> at[h] = "final"
    BY DEF IInv, FinishDetached, Destroyed
  <2>2. \A q \in Frames :
          at[q] \in Awaiting => at'[q] \in Awaiting /\ callee'[q] = callee[q]
    BY DEF IInv, FinishDetached, Destroyed, Awaiting
  <2>3. QED
    BY <2>1, <2>2, AwaitedStill DEF FinishDetached
<1>9. QED
  BY <1>1, <1>2, <1>3, <1>4, <1>5, <1>6, <1>7, <1>8 DEF IInv

(* The caller takes the result; nobody else awaited the callee.            *)
LEMMA AwaitResumeKeeps ==
  ASSUME IInv, NEW p \in Frames, AwaitResume(p)
  PROVE  IInv'
<1>1. TypeOK'
  BY DEF IInv, AwaitResume, Destroyed, TypeOK, Places
<1>2. ASSUME NEW q \in Frames \cup {Outside} PROVE BodyOK(q)'
  BY DEF IInv, AwaitResume, Destroyed, TypeOK, BodyOK, WaitOK
<1>3. Unshared'
  BY FramesAssumption DEF IInv, AwaitResume, Destroyed, TypeOK, Unshared, BodyOK,
     HandlesOK, WaitOK, FrameOK, Awaiting
<1>4. ASSUME NEW g \in Frames PROVE HandlesOK(g)'
  BY DEF IInv, AwaitResume, Destroyed, TypeOK, HandlesOK, WaitOK
<1>5. ASSUME NEW g \in Frames PROVE HeldOK(g)'
  <2>1. at'[g] \in {"ready", "waiting"} => at'[g] = at[g]
    BY DEF AwaitResume, Destroyed, IInv
  <2>2. UNCHANGED <<body, token, handler>>
    BY DEF AwaitResume
  <2>3. QED
    BY <2>1, <2>2 DEF IInv, HeldOK
<1>6. ASSUME NEW g \in Frames PROVE FrameOK(g)'
  BY DEF IInv, AwaitResume, Destroyed, FrameOK
<1>7. ASSUME NEW g \in Frames PROVE WaitOK(g)'
  BY DEF IInv, AwaitResume, Destroyed, TypeOK, WaitOK, HandlesOK, Unshared, Awaiting
<1>8. ASSUME NEW g \in Frames PROVE FinalOK(g)'
  <2>1. \A h \in lost' : at'[h] = "final"
    BY DEF IInv, AwaitResume, Destroyed, TypeOK, FinalOK, WaitOK
  <2>2. ASSUME NEW h \in Frames, at'[h] = "final", h \notin lost'
        PROVE  at[h] = "final" /\ h \notin lost
    BY <2>2 DEF IInv, AwaitResume, Destroyed
  <2>3. ASSUME NEW h \in Frames, at'[h] = "final", h \notin lost',
               NEW q \in Frames, callee[q] = h, at[q] \in Awaiting
        PROVE  callee'[q] = h /\ at'[q] \in Awaiting
    BY <2>2, <2>3 DEF IInv, AwaitResume, Destroyed, WaitOK, Awaiting
  <2>4. QED
    BY <2>1, <2>2, <2>3, FinalKept
<1>9. QED
  BY <1>1, <1>2, <1>3, <1>4, <1>5, <1>6, <1>7, <1>8 DEF IInv

(* The trampoline hands over the result: the coroutine it held runs or goes. *)
LEMMA DeliverKeeps ==
  ASSUME IInv, NEW t \in Frames, Deliver(t)
  PROVE  IInv'
<1>1. TypeOK'
  BY DEF IInv, Deliver, TypeOK, Places
<1>2. ASSUME NEW q \in Frames \cup {Outside} PROVE BodyOK(q)'
  BY FramesAssumption DEF IInv, Deliver, TypeOK, BodyOK, HandlesOK
<1>3. Unshared'
  BY DEF IInv, Deliver, Unshared, Awaiting
<1>4. ASSUME NEW g \in Frames PROVE HandlesOK(g)'
  BY FramesAssumption DEF IInv, Deliver, TypeOK, HandlesOK, Unshared
<1>5. ASSUME NEW g \in Frames PROVE HeldOK(g)'
  BY DEF IInv, Deliver, HeldOK
<1>6. ASSUME NEW g \in Frames PROVE FrameOK(g)'
  BY FramesAssumption DEF IInv, Deliver, FrameOK, HandlesOK
<1>7. ASSUME NEW g \in Frames PROVE WaitOK(g)'
  BY FramesAssumption DEF IInv, Deliver, TypeOK, WaitOK, HandlesOK
<1>8. \A g \in Frames : FinalOK(g)'
  <2>1. \A h \in Frames : at'[h] = "final" <=> at[h] = "final"
    BY FramesAssumption DEF IInv, Deliver, HandlesOK
  <2>2. \A q \in Frames :
          at[q] \in Awaiting => at'[q] \in Awaiting /\ callee'[q] = callee[q]
    BY FramesAssumption DEF IInv, Deliver, HandlesOK, Awaiting
  <2>3. QED
    BY <2>1, <2>2, AwaitedStill DEF Deliver
<1>9. QED
  BY <1>1, <1>2, <1>3, <1>4, <1>5, <1>6, <1>7, <1>8 DEF IInv

(* The trampoline goes with the callee that nobody else awaits.            *)
LEMMA TrampolineEndsKeeps ==
  ASSUME IInv, NEW t \in Frames, TrampolineEnds(t)
  PROVE  IInv'
<1>1. TypeOK'
  BY DEF IInv, TrampolineEnds, Destroyed, TypeOK, Places
<1>2. ASSUME NEW q \in Frames \cup {Outside} PROVE BodyOK(q)'
  BY DEF IInv, TrampolineEnds, Destroyed, TypeOK, BodyOK, WaitOK
<1>3. Unshared'
  BY DEF IInv, TrampolineEnds, Destroyed, Unshared, Awaiting
<1>4. ASSUME NEW g \in Frames PROVE HandlesOK(g)'
  BY DEF IInv, TrampolineEnds, Destroyed, TypeOK, HandlesOK, WaitOK
<1>5. ASSUME NEW g \in Frames PROVE HeldOK(g)'
  BY DEF IInv, TrampolineEnds, Destroyed, HeldOK
<1>6. ASSUME NEW g \in Frames PROVE FrameOK(g)'
  BY DEF IInv, TrampolineEnds, Destroyed, FrameOK
<1>7. ASSUME NEW g \in Frames PROVE WaitOK(g)'
  BY DEF IInv, TrampolineEnds, Destroyed, TypeOK, WaitOK, HandlesOK, Unshared,
     Awaiting
<1>8. ASSUME NEW g \in Frames PROVE FinalOK(g)'
  <2>1. \A h \in lost' : at'[h] = "final"
    BY DEF IInv, TrampolineEnds, Destroyed, TypeOK, FinalOK, WaitOK
  <2>2. ASSUME NEW h \in Frames, at'[h] = "final", h \notin lost'
        PROVE  at[h] = "final" /\ h \notin lost
    BY <2>2 DEF IInv, TrampolineEnds, Destroyed
  <2>3. ASSUME NEW h \in Frames, at'[h] = "final", h \notin lost',
               NEW q \in Frames, callee[q] = h, at[q] \in Awaiting
        PROVE  callee'[q] = h /\ at'[q] \in Awaiting
    BY <2>2, <2>3 DEF IInv, TrampolineEnds, Destroyed, WaitOK, Awaiting
  <2>4. QED
    BY <2>1, <2>2, <2>3, FinalKept
<1>9. QED
  BY <1>1, <1>2, <1>3, <1>4, <1>5, <1>6, <1>7, <1>8 DEF IInv

(* Nothing exists in the beginning.                                        *)
LEMMA InitInv == Init => IInv
<1> SUFFICES ASSUME Init PROVE IInv
  OBVIOUS
<1>1. TypeOK
  BY DEF Init, TypeOK, Places, Outcomes
<1>2. \A p \in Frames \cup {Outside} : BodyOK(p)
  BY DEF Init, BodyOK
<1>3. Unshared
  BY DEF Init, Unshared
<1>4. ASSUME NEW f \in Frames
      PROVE  HandlesOK(f) /\ HeldOK(f) /\ FrameOK(f) /\ WaitOK(f) /\ FinalOK(f)
  BY DEF Init, HandlesOK, HeldOK, FrameOK, WaitOK, FinalOK
<1>5. QED
  BY <1>1, <1>2, <1>3, <1>4 DEF IInv

(* Every step keeps the invariant.                                         *)
LEMMA StepInv == IInv /\ [Next]_vars => IInv'
<1> SUFFICES ASSUME IInv, [Next]_vars PROVE IInv'
  OBVIOUS
<1>1. CASE Next
  <2>1. PICK f \in Frames :
          \/ Release(f) \/ Suspend(f) \/ Complete(f) \/ Drop(f)
          \/ \E r \in Outcomes \ {"nothing"}, inline \in BOOLEAN : Finish(f, r, inline)
          \/ FinishDetached(f) \/ AwaitResume(f) \/ Deliver(f) \/ TrampolineEnds(f)
          \/ \E p \in Frames \cup {Outside} :
               \/ Create(p, f) \/ StartDetached(p, f) \/ Discard(p, f) \/ AwaitPromise(p, f)
               \/ \E t \in Frames, waiter \in {NoFrame, p} : Await(p, f, t, waiter)
    BY <1>1 DEF Next
  <2>2. QED
    BY <2>1, ReleaseKeeps, CreateKeeps, StartDetachedKeeps, DiscardKeeps,
       AwaitPromiseKeeps, AwaitKeeps, SuspendKeeps, CompleteKeeps, DropKeeps,
       FinishKeeps, FinishDetachedKeeps, AwaitResumeKeeps, DeliverKeeps,
       TrampolineEndsKeeps
<1>2. CASE UNCHANGED vars
  <2>1. TypeOK' /\ Unshared' /\ \A p \in Frames \cup {Outside} : BodyOK(p)'
    BY <1>2 DEF IInv, vars, TypeOK, Unshared, BodyOK
  <2>2. ASSUME NEW f \in Frames
        PROVE  HandlesOK(f)' /\ HeldOK(f)' /\ FrameOK(f)' /\ WaitOK(f)' /\ FinalOK(f)'
    BY <1>2 DEF IInv, vars, HandlesOK, HeldOK, FrameOK, WaitOK, FinalOK
  <2>3. QED
    BY <2>1, <2>2 DEF IInv
<1>3. QED
  BY <1>1, <1>2

(* The inductive invariant holds throughout.                               *)
THEOREM Inductive == Spec => []IInv
<1>1. QED
  BY InitInv, StepInv, PTL DEF Spec

(* The variables keep to their types.                                      *)
THEOREM TypeCorrect == Spec => []TypeOK
<1>1. IInv => TypeOK
  BY DEF IInv
<1>2. QED
  BY <1>1, Inductive, PTL

(* A suspended frame is held by exactly one handle, any other by none.     *)
THEOREM HeldOnce == Spec => []OneOwner
<1>1. ASSUME IInv, NEW f \in Frames
      PROVE  IF at[f] \in Suspended THEN \E h \in Holders(f) : Holders(f) = {h}
             ELSE Holders(f) = {}
  <2> DEFINE byCaller == {h \in Frames : caller[h] = f}
  <2> DEFINE byBody == {q \in Frames \cup {Outside} : f \in body[q]}
  <2> DEFINE byToken == {h \in Frames : token[h] = f}
  <2>1. \A g \in byCaller : at[f] = "calling" /\ handler[f] = "none" /\ callee[f] = g
    BY <1>1, FramesAssumption DEF IInv, HandlesOK
  <2>2. \A p \in byBody : at[f] = "ready" /\ \A q \in byBody : p = q
    BY <1>1 DEF IInv, BodyOK, Unshared
  <2>3. \A t \in byToken : /\ at[f] = "waiting" /\ handler[f] = "none"
                           /\ \A u \in byToken : t = u
    BY <1>1, FramesAssumption DEF IInv, HandlesOK, Unshared
  <2>4. handler[f] # "none" => at[f] \in {"waiting", "calling"}
    BY <1>1 DEF IInv, TypeOK, HandlesOK
  <2>5. Holders(f) = {<<"caller", g>> : g \in byCaller} \cup {<<"body", p>> : p \in byBody}
                       \cup {<<"token", t>> : t \in byToken}
                       \cup {<<"handler", h>> : h \in {g \in {f} : handler[g] # "none"}}
    BY DEF Holders
  <2>6. CASE at[f] = "ready"
    <3>1. PICK p \in byBody : byBody = {p}
      BY <1>1, <2>2, <2>6 DEF IInv, HeldOK
    <3>2. Holders(f) = {<<"body", p>>}
      BY <2>1, <2>3, <2>4, <2>5, <2>6, <3>1
    <3>3. QED
      BY <2>6, <3>2 DEF Suspended
  <2>7. CASE at[f] = "waiting" /\ handler[f] # "none"
    <3>1. Holders(f) = {<<"handler", f>>}
      BY <2>1, <2>2, <2>3, <2>5, <2>7
    <3>2. QED
      BY <2>7, <3>1 DEF Suspended
  <2>8. CASE at[f] = "waiting" /\ handler[f] = "none"
    <3>1. PICK t \in byToken : byToken = {t}
      BY <1>1, <2>3, <2>8 DEF IInv, HeldOK
    <3>2. Holders(f) = {<<"token", t>>}
      BY <2>1, <2>2, <2>5, <2>8, <3>1
    <3>3. QED
      BY <2>8, <3>2 DEF Suspended
  <2>9. CASE at[f] = "calling" /\ handler[f] # "none"
    <3>1. Holders(f) = {<<"handler", f>>}
      BY <2>1, <2>2, <2>3, <2>5, <2>9
    <3>2. QED
      BY <2>9, <3>1 DEF Suspended
  <2>10. CASE at[f] = "calling" /\ handler[f] = "none"
    <3>1. callee[f] \in byCaller
      BY <1>1, <2>10 DEF IInv, WaitOK, TypeOK
    <3>2. Holders(f) = {<<"caller", callee[f]>>}
      BY <2>1, <2>2, <2>3, <2>5, <2>10, <3>1
    <3>3. QED
      BY <2>10, <3>2 DEF Suspended
  <2>11. CASE at[f] \notin Suspended
    <3>1. Holders(f) = {}
      BY <2>1, <2>2, <2>3, <2>4, <2>5, <2>11 DEF Suspended
    <3>2. QED
      BY <2>11, <3>1
  <2>12. QED
    BY <2>6, <2>7, <2>8, <2>9, <2>10, <2>11 DEF Suspended
<1>2. IInv => OneOwner
  BY <1>1 DEF OneOwner
<1>3. QED
  BY <1>2, Inductive, PTL

(* Who awaits a callee finds it alive, and its result once it ended.       *)
THEOREM CalleeThere == Spec => []CalleeAlive
<1>1. IInv => CalleeAlive
  BY DEF IInv, WaitOK, CalleeAlive
<1>2. QED
  BY <1>1, Inductive, PTL

(* A finished callee is awaited, or was lost holding nothing.              *)
THEOREM Remembered == Spec => []NothingForgotten
<1>1. IInv => NothingForgotten
  BY DEF IInv, FinalOK, FrameOK, NothingForgotten, Awaiting, Owned
<1>2. QED
  BY <1>1, Inductive, PTL
=============================================================================
