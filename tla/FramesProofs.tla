---------------------------- MODULE FramesProofs ----------------------------
(***************************************************************************)
(* Control of a chain is never doubled and never lost, whichever way it    *)
(* moves; and a chain that keeps to queued hops runs where it belongs, for *)
(* any number of chains, threads, executors and frames.                    *)
(***************************************************************************)
EXTENDS Frames, SequenceTheorems, TLAPS

Site == [chain : Chains \cup {NoChain}, pc : {"idle", "running", "awaiting", "leaving"},
         strand : AnyStrand \cup {NoExec}]

Types ==
  /\ phase \in [Chains -> {"new", "live", "done"}]
  /\ stack \in [Chains -> Seq(Frame)]
  /\ ending \in [Chains -> BOOLEAN]
  /\ handler \in [Chains -> Handler]
  /\ state \in [Chains -> {"initializing", "awaiting", "completed"}]
  /\ thread \in [Threads -> Site]

\* A live chain has frames, and one more than the root while its last one ends.
Stacked(k) ==
  /\ Len(stack[k]) <= MaxDepth[k]
  /\ phase[k] = "live" <=> Len(stack[k]) > 0
  /\ ending[k] => Len(stack[k]) > 1 /\ \A t \in Threads : ~Running(t, k)

Working(t) == thread[t].chain # NoChain <=> thread[t].pc \in {"running", "awaiting"}

\* OneControl in parts: who may have control of the chain, and who must.
Controlled(k) ==
  /\ \A t, u \in Threads : thread[t].chain = k /\ thread[u].chain = k => t = u
  /\ phase[k] # "live" =>
       handler[k] = NoHandler /\ \A t \in Threads : thread[t].chain # k
  /\ \A t \in Threads : Running(t, k) => handler[k] = NoHandler
  /\ \A t \in Threads : thread[t].chain = k /\ thread[t].pc = "awaiting" =>
       \/ handler[k] = NoHandler /\ state[k] = "completed"
       \/ handler[k].kind = "rendezvous" /\ state[k] = "initializing"
  /\ phase[k] = "live" /\ (\A t \in Threads : thread[t].chain # k) =>
       \/ handler[k].kind = "resume"
       \/ handler[k].kind = "rendezvous" /\ state[k] = "awaiting"

IInv ==
  /\ Types
  /\ \A t \in Threads : Working(t)
  /\ \A k \in Chains : Stacked(k) /\ Controlled(k)
-----------------------------------------------------------------------------
(* Frames of a chain. *)

(* Popping a frame, and changing the last one, leave the others.           *)
LEMMA FrontOf ==
  ASSUME NEW s \in Seq(Frame), Len(s) > 0
  PROVE  /\ Front(s) \in Seq(Frame) /\ Len(Front(s)) = Len(s) - 1
         /\ \A i \in 1 .. Len(s) - 1 : Front(s)[i] = s[i]
<1>0. Len(s) \in Nat
  OBVIOUS
<1>1. Len(s) \in Nat /\ \A i \in 1 .. Len(s) : s[i] \in Frame
  BY ElementOfSeq
<1>2. \A i \in 1 .. Len(s) - 1 : s[i] \in Frame
  BY <1>1
<1>3. 1 \in Int /\ Len(s) - 1 \in Int
  BY <1>1
<1>4. /\ SubSeq(s, 1, Len(s) - 1) \in Seq(Frame)
      /\ Len(SubSeq(s, 1, Len(s) - 1)) =
           IF 1 <= Len(s) - 1 THEN Len(s) - 1 - 1 + 1 ELSE 0
      /\ \A i \in 1 .. Len(s) - 1 - 1 + 1 :
           SubSeq(s, 1, Len(s) - 1)[i] = s[1 + i - 1]
  BY <1>2, <1>3, SubSeqProperties
<1>5. Front(s) = SubSeq(s, 1, Len(s) - 1)
  BY DEF Front
<1>6. Len(Front(s)) = Len(s) - 1
  <2> DEFINE n == Len(s)
  <2>1. Len(Front(s)) = IF 1 <= n - 1 THEN n - 1 - 1 + 1 ELSE 0
    BY <1>4, <1>5
  <2>2. n \in Nat \ {0}
    BY <1>0
  <2> HIDE DEF n
  <2>3. (IF 1 <= n - 1 THEN n - 1 - 1 + 1 ELSE 0) = n - 1
    BY <2>2
  <2>4. QED
    BY <2>1, <2>3 DEF n
<1>7. ASSUME NEW i \in 1 .. Len(s) - 1 PROVE Front(s)[i] = s[i]
  <2>1. i \in 1 .. Len(s) - 1 - 1 + 1 /\ 1 + i - 1 = i
    BY <1>1
  <2>2. QED
    BY <2>1, <1>4, <1>5
<1>8. QED
  BY <1>4, <1>5, <1>6, <1>7

LEMMA LastChanged ==
  ASSUME NEW s \in Seq(Frame), Len(s) > 0, NEW f \in Frame
  PROVE  /\ [s EXCEPT ![Len(s)] = f] \in Seq(Frame)
         /\ Len([s EXCEPT ![Len(s)] = f]) = Len(s)
         /\ \A i \in 1 .. Len(s) :
              [s EXCEPT ![Len(s)] = f][i] = IF i = Len(s) THEN f ELSE s[i]
BY ExceptSeq, Len(s) \in 1 .. Len(s)

(* A chain with frames has a last one, whose executor is one or none.      *)
LEMMA TopOf ==
  ASSUME Types, NEW k \in Chains, Len(stack[k]) > 0
  PROVE  /\ Top(k) \in Frame /\ Top(k) = stack[k][Len(stack[k])]
         /\ GetExecutor(Top(k)) \in Executors \cup {NoExec}
<1>1. stack[k] \in Seq(Frame) /\ Len(stack[k]) \in 1 .. Len(stack[k])
  BY DEF Types
<1>2. Top(k) = stack[k][Len(stack[k])] /\ Top(k) \in Frame
  BY <1>1, ElementOfSeq DEF Top, Last
<1>3. QED
  BY <1>2 DEF Frame, GetExecutor
(* A change of the last frame leaves the others and the other chains.      *)
LEMMA TopChanged ==
  ASSUME Types, NEW k \in Chains, Len(stack[k]) > 0, NEW f \in Frame,
         stack' = [stack EXCEPT ![k] = [stack[k] EXCEPT ![Len(stack[k])] = f]]
  PROVE  /\ stack' \in [Chains -> Seq(Frame)]
         /\ Len(stack'[k]) = Len(stack[k])
         /\ \A i \in 1 .. Len(stack[k]) :
              stack'[k][i] = IF i = Len(stack[k]) THEN f ELSE stack[k][i]
         /\ \A j \in Chains \ {k} : stack'[j] = stack[j]
<1>1. stack[k] \in Seq(Frame)
  BY DEF Types
<1>2. stack'[k] = [stack[k] EXCEPT ![Len(stack[k])] = f]
  BY DEF Types
<1>3. /\ stack'[k] \in Seq(Frame) /\ Len(stack'[k]) = Len(stack[k])
      /\ \A i \in 1 .. Len(stack[k]) :
           stack'[k][i] = IF i = Len(stack[k]) THEN f ELSE stack[k][i]
  BY <1>1, <1>2, LastChanged
<1>4. QED
  BY <1>3 DEF Types

(* promise_frame::set_executor changes the last frame.                     *)
LEMMA SetsTop ==
  ASSUME Types, NEW k \in Chains, Len(stack[k]) > 0, NEW e \in Executors,
         SetExecutor(k, e)
  PROVE  /\ [Top(k) EXCEPT !.executor = e] \in Frame
         /\ stack' = [stack EXCEPT ![k] = [stack[k] EXCEPT ![Len(stack[k])] =
                                             [Top(k) EXCEPT !.executor = e]]]
<1>1. Top(k) \in Frame /\ Top(k) = stack[k][Len(stack[k])]
  BY TopOf
<1>2. [Top(k) EXCEPT !.executor = e] \in Frame
  BY <1>1 DEF Frame
<1>3. QED
  BY <1>1, <1>2 DEF SetExecutor
-----------------------------------------------------------------------------
(* Steps. *)

\* A step of thread t that concerns no chain but k.
OnlyAt(t, k) ==
  /\ \A u \in Threads \ {t} : thread'[u] = thread[u]
  /\ thread[t].chain \in {k, NoChain} /\ thread'[t].chain \in {k, NoChain}
  /\ \A j \in Chains \ {k} :
       /\ phase'[j] = phase[j] /\ stack'[j] = stack[j] /\ ending'[j] = ending[j]
       /\ handler'[j] = handler[j] /\ state'[j] = state[j]

\* How a step of thread t leaves control of chain k, which is with t or nowhere.
Passes(t, k) ==
  \/ /\ thread'[t].chain = k /\ thread'[t].pc = "running"
     /\ phase'[k] = "live" /\ handler'[k] = NoHandler
  \/ /\ thread'[t].chain = k /\ thread'[t].pc = "awaiting" /\ phase'[k] = "live"
     /\ \/ handler'[k] = NoHandler /\ state'[k] = "completed"
        \/ handler'[k].kind = "rendezvous" /\ state'[k] = "initializing"
  \/ /\ thread'[t].chain = NoChain /\ phase'[k] = "live"
     /\ \/ handler'[k].kind = "resume"
        \/ handler'[k].kind = "rendezvous" /\ state'[k] = "awaiting"
  \/ thread'[t].chain = NoChain /\ phase'[k] # "live" /\ handler'[k] = NoHandler

(* A chain a step does not concern stays as it was.                        *)
LEMMA Elsewhere ==
  ASSUME IInv, NEW t \in Threads, NEW k \in Chains, OnlyAt(t, k), Working(t)'
  PROVE  /\ \A u \in Threads : Working(u)'
         /\ \A j \in Chains \ {k} : Stacked(j)' /\ Controlled(j)'
<1>1. \A u \in Threads : Working(u)'
  BY DEF IInv, OnlyAt, Working
<1>2. ASSUME NEW j \in Chains \ {k} PROVE Stacked(j)' /\ Controlled(j)'
  <2>1. \A u \in Threads : thread'[u].chain = j => thread'[u] = thread[u]
    BY ExecutorsAssumption DEF OnlyAt
  <2>2. \A u \in Threads : thread[u].chain = j => thread'[u] = thread[u]
    BY ExecutorsAssumption DEF OnlyAt
  <2>3. /\ phase'[j] = phase[j] /\ stack'[j] = stack[j] /\ ending'[j] = ending[j]
        /\ handler'[j] = handler[j] /\ state'[j] = state[j]
    BY DEF OnlyAt
  <2>4. Stacked(j)'
    BY <2>1, <2>3 DEF IInv, Stacked, Running
  <2>5. Controlled(j)'
    BY <2>1, <2>2, <2>3 DEF IInv, Controlled, Running
  <2>6. QED
    BY <2>4, <2>5
<1>3. QED
  BY <1>1, <1>2

(* A step that hands control of its chain on keeps the invariant.          *)
LEMMA Passed ==
  ASSUME IInv, NEW t \in Threads, NEW k \in Chains, OnlyAt(t, k), Working(t)',
         \A u \in Threads \ {t} : thread[u].chain # k,
         Types', Stacked(k)', Passes(t, k)
  PROVE  IInv'
<1>1. \A u \in Threads \ {t} : thread'[u].chain # k
  BY DEF OnlyAt
<1>2. NoChain # k
  BY ExecutorsAssumption
<1>3. Controlled(k)'
  BY <1>1, <1>2 DEF Passes, Controlled, Running, Working, NoHandler
<1>4. QED
  BY <1>3, Elsewhere DEF IInv

(* The thread that runs a chain is alone with it.                          *)
LEMMA Alone ==
  ASSUME IInv, NEW t \in Threads, NEW k \in Chains, thread[t].chain = k
  PROVE  /\ phase[k] = "live" /\ Len(stack[k]) \in Nat \ {0}
         /\ thread[t].pc = "running" => handler[k] = NoHandler /\ ~ending[k]
         /\ \A u \in Threads \ {t} : thread[u].chain # k
BY DEF IInv, Types, Stacked, Controlled, Running

(* A thread that a coroutine left is still a thread.                       *)
LEMMA LeavesTyped ==
  ASSUME Types, NEW t \in Threads, Leaves(t)
  PROVE  thread' \in [Threads -> Site]
<1>1. thread[t] \in Site
  BY DEF Types
<1>2. [thread[t] EXCEPT !.chain = NoChain, !.pc = "leaving"] \in Site
  BY <1>1 DEF Site
<1>3. thread' = [thread EXCEPT ![t] =
                   [thread[t] EXCEPT !.chain = NoChain, !.pc = "leaving"]]
  BY DEF Leaves
<1>4. QED
  BY <1>2, <1>3 DEF Types
-----------------------------------------------------------------------------
(* A detached coroutine starts on an idle thread.                          *)
LEMMA StartKeeps ==
  ASSUME IInv, NEW t \in Threads, NEW k \in Chains, Start(t, k)
  PROVE  IInv'
<1>1. OnlyAt(t, k) /\ Passes(t, k) /\ Working(t)'
  BY ExecutorsAssumption
  DEF Start, OnlyAt, Passes, Working, Idle, IInv, Types, Controlled
<1>2. \A u \in Threads \ {t} : thread[u].chain # k
  BY DEF Start, IInv, Controlled
<1>3. NewFrame(NoExec) \in Frame
  BY DEF NewFrame, Frame
<1>4. stack' \in [Chains -> Seq(Frame)] /\ Len(stack'[k]) = 1
  BY <1>3 DEF Start, IInv, Types
<1>5. Types'
  <2>1. thread' \in [Threads -> Site]
    BY DEF Start, IInv, Types, Site
  <2>2. QED
    BY <1>4, <2>1 DEF Start, IInv, Types
<1>6. Stacked(k)'
  BY <1>4, MaxDepthAssumption DEF Start, IInv, Types, Stacked, Controlled
<1>7. QED
  BY <1>1, <1>2, <1>5, <1>6, Passed

(* A co_await that leaves the chain to a queued handler gives up control.  *)
LEMMA QueueKeeps ==
  ASSUME IInv, NEW t \in Threads, NEW k \in Chains, NEW e \in Executors,
         Running(t, k), Queue(t, k, e), UNCHANGED phase,
         stack' \in [Chains -> Seq(Frame)], ending' \in [Chains -> BOOLEAN],
         Len(stack'[k]) = Len(stack[k]), ending'[k] => Len(stack[k]) > 1,
         \A j \in Chains \ {k} : stack'[j] = stack[j] /\ ending'[j] = ending[j]
  PROVE  IInv'
<1>a. /\ phase[k] = "live" /\ Len(stack[k]) \in Nat \ {0}
      /\ handler[k] = NoHandler /\ ~ending[k]
      /\ \A u \in Threads \ {t} : thread[u].chain # k
  BY Alone DEF Running
<1>1. OnlyAt(t, k) /\ Passes(t, k) /\ Working(t)'
  BY <1>a, ExecutorsAssumption DEF Running, Queue, Leaves, OnlyAt, Passes, Working, IInv, Types
<1>2. Types'
  <2>1. thread' \in [Threads -> Site]
    BY LeavesTyped DEF Queue, IInv
  <2>2. handler' \in [Chains -> Handler]
    BY DEF Queue, IInv, Types, Handler
  <2>3. QED
    BY <2>1, <2>2 DEF Queue, IInv, Types
<1>3. Stacked(k)'
  BY <1>a, ExecutorsAssumption DEF Running, Queue, Leaves, IInv, Types, Stacked
<1>4. QED
  BY <1>a, <1>1, <1>2, <1>3, Passed

(* One that waits for a rendezvous leaves it to be settled by two sides.   *)
LEMMA AwaitKeeps ==
  ASSUME IInv, NEW t \in Threads, NEW k \in Chains, Running(t, k), UNCHANGED phase,
         stack' \in [Chains -> Seq(Frame)], ending' \in [Chains -> BOOLEAN],
         Len(stack'[k]) = Len(stack[k]), ending'[k] => Len(stack[k]) > 1,
         \A j \in Chains \ {k} : stack'[j] = stack[j] /\ ending'[j] = ending[j],
         thread' = [thread EXCEPT ![t].pc = "awaiting"],
         handler' \in [Chains -> Handler],
         \A j \in Chains \ {k} : handler'[j] = handler[j] /\ state'[j] = state[j],
         state' \in [Chains -> {"initializing", "awaiting", "completed"}],
         \/ state'[k] = "completed" /\ handler'[k] = NoHandler
         \/ state'[k] = "initializing" /\ handler'[k].kind = "rendezvous"
  PROVE  IInv'
<1>a. /\ phase[k] = "live" /\ Len(stack[k]) \in Nat \ {0}
      /\ handler[k] = NoHandler /\ ~ending[k]
      /\ \A u \in Threads \ {t} : thread[u].chain # k
  BY Alone DEF Running
<1>1. OnlyAt(t, k) /\ Passes(t, k) /\ Working(t)'
  BY <1>a, ExecutorsAssumption DEF Running, OnlyAt, Passes, Working, IInv, Types, NoHandler
<1>2. Types'
  <2>1. thread[t] \in Site
    BY DEF IInv, Types
  <2>2. [thread[t] EXCEPT !.pc = "awaiting"] \in Site
    BY <2>1 DEF Site
  <2>3. thread' \in [Threads -> Site]
    BY <2>2 DEF IInv, Types
  <2>4. QED
    BY <2>3 DEF IInv, Types
<1>3. Stacked(k)'
  BY <1>a, ExecutorsAssumption DEF Running, IInv, Types, Stacked
<1>4. QED
  BY <1>a, <1>1, <1>2, <1>3, Passed

(* co_await post(e) and defer(e).                                          *)
LEMMA QueuedHopKeeps ==
  ASSUME IInv, NEW t \in Threads, NEW k \in Chains, NEW e \in Executors,
         QueuedHop(t, k, e)
  PROVE  IInv'
<1>1. Types /\ Running(t, k) /\ ~ending[k] /\ Len(stack[k]) > 0
  BY Alone DEF QueuedHop, Running, IInv
<1>2. /\ stack' \in [Chains -> Seq(Frame)] /\ Len(stack'[k]) = Len(stack[k])
      /\ \A j \in Chains \ {k} : stack'[j] = stack[j]
  BY <1>1, SetsTop, TopChanged DEF QueuedHop
<1>3. QED
  BY <1>1, <1>2, QueueKeeps DEF QueuedHop, Types

\* What boost::asio::dispatch leaves: a handler that ran, or one that will.
Dispatched(t, k) ==
  /\ thread' = [thread EXCEPT ![t].pc = "awaiting"]
  /\ handler' \in [Chains -> Handler]
  /\ state' \in [Chains -> {"initializing", "awaiting", "completed"}]
  /\ \A j \in Chains \ {k} : handler'[j] = handler[j] /\ state'[j] = state[j]
  /\ \/ state'[k] = "completed" /\ handler'[k] = NoHandler
     \/ state'[k] = "initializing" /\ handler'[k].kind = "rendezvous"

LEMMA DispatchLeaves ==
  ASSUME IInv, NEW t \in Threads, NEW k \in Chains, NEW e \in Executors,
         Running(t, k), Dispatch(t, k, e)
  PROVE  Dispatched(t, k)
<1>1. handler[k] = NoHandler
  BY Alone DEF Running
<1>2. CASE RunsInline(t, e)
  BY <1>1, <1>2 DEF Dispatch, Dispatched, IInv, Types
<1>3. CASE ~RunsInline(t, e)
  <2>1. /\ handler' = [handler EXCEPT ![k] = [kind |-> "rendezvous", on |-> e]]
        /\ state' = [state EXCEPT ![k] = "initializing"]
        /\ thread' = [thread EXCEPT ![t].pc = "awaiting"]
    BY <1>3 DEF Dispatch
  <2>2. handler' \in [Chains -> Handler] /\ handler'[k].kind = "rendezvous"
    BY <2>1 DEF IInv, Types, Handler
  <2>3. QED
    BY <2>1, <2>2 DEF Dispatched, IInv, Types
<1>4. QED
  BY <1>2, <1>3

(* co_await dispatch(e).                                                   *)
LEMMA DispatchToKeeps ==
  ASSUME IInv, NEW t \in Threads, NEW k \in Chains, NEW e \in Executors,
         DispatchTo(t, k, e)
  PROVE  IInv'
<1>1. Types /\ Running(t, k) /\ ~ending[k] /\ Len(stack[k]) > 0
  BY Alone DEF DispatchTo, Running, IInv
<1>2. /\ stack' \in [Chains -> Seq(Frame)] /\ Len(stack'[k]) = Len(stack[k])
      /\ \A j \in Chains \ {k} : stack'[j] = stack[j]
  BY <1>1, SetsTop, TopChanged DEF DispatchTo
<1>3. Dispatched(t, k)
  BY <1>1, DispatchLeaves DEF DispatchTo
<1>4. QED
  BY <1>1, <1>2, <1>3, AwaitKeeps DEF DispatchTo, Dispatched, Types

(* co_await of an asynchronous operation.                                  *)
LEMMA AsyncWaitKeeps ==
  ASSUME IInv, NEW t \in Threads, NEW k \in Chains, NEW c \in Contexts,
         AsyncWait(t, k, c)
  PROVE  IInv'
<1>1. Types /\ Running(t, k) /\ ~ending[k] /\ Len(stack[k]) > 0
  BY Alone DEF AsyncWait, Running, IInv
<1>2. GetExecutor(Top(k)) \in Executors \cup {NoExec}
  BY <1>1, TopOf
<1>3. Dispatched(t, k)
  BY <1>1, <1>2 DEF AsyncWait, Dispatched, Types, Handler, Executors
<1>4. QED
  BY <1>1, <1>3, AwaitKeeps DEF AsyncWait, Dispatched, Types

(* co_await sleep_for and sleep_until.                                     *)
LEMMA SleepKeeps ==
  ASSUME IInv, NEW t \in Threads, NEW k \in Chains, Sleep(t, k)
  PROVE  IInv'
<1> DEFINE f == Top(k)
           timer == IF f.timer = NoExec THEN GetExecutor(f) ELSE f.timer
<1>1. Types /\ Running(t, k) /\ ~ending[k] /\ Len(stack[k]) > 0
  BY Alone DEF Sleep, Running, IInv
<1>2. /\ f \in Frame /\ f = stack[k][Len(stack[k])]
      /\ GetExecutor(f) \in Executors \cup {NoExec}
  BY <1>1, TopOf
<1>3. [f EXCEPT !.timer = timer] \in Frame
  BY <1>2 DEF Frame
<1>4. stack' = [stack EXCEPT ![k] = [stack[k] EXCEPT ![Len(stack[k])] =
                                       [f EXCEPT !.timer = timer]]]
  BY <1>2 DEF Sleep
<1>5. /\ stack' \in [Chains -> Seq(Frame)] /\ Len(stack'[k]) = Len(stack[k])
      /\ \A j \in Chains \ {k} : stack'[j] = stack[j]
  BY <1>1, <1>3, <1>4, TopChanged
<1>6. Dispatched(t, k)
  BY <1>1, <1>2 DEF Sleep, WhereSleepEnds, Dispatched, Types, Handler
<1>7. QED
  BY <1>1, <1>5, <1>6, AwaitKeeps DEF Sleep, Dispatched, Types

(* co_await of a promise: a frame more.                                    *)
LEMMA CallKeeps ==
  ASSUME IInv, NEW t \in Threads, NEW k \in Chains, Call(t, k)
  PROVE  IInv'
<1>1. /\ Types /\ Stacked(k) /\ Running(t, k) /\ phase[k] = "live"
      /\ handler[k] = NoHandler /\ ~ending[k] /\ Len(stack[k]) > 0
      /\ \A u \in Threads \ {t} : thread[u].chain # k
  BY Alone DEF Call, Running, IInv
<1>2. GetExecutor(Top(k)) \in Executors \cup {NoExec}
  BY <1>1, TopOf
<1>3. NewFrame(CallerSeenAs(Top(k))) \in Frame
  BY <1>2 DEF NewFrame, CallerSeenAs, Frame
<1>4. stack' \in [Chains -> Seq(Frame)] /\ Len(stack'[k]) = Len(stack[k]) + 1
  BY <1>1, <1>3, AppendProperties DEF Call, Types
<1>5. OnlyAt(t, k) /\ Passes(t, k) /\ Working(t)'
  BY <1>1 DEF Call, Running, OnlyAt, Passes, IInv, Working, Types
<1>6. Types'
  BY <1>4 DEF Call, IInv, Types
<1>7. Stacked(k)'
  BY <1>1, <1>4, MaxDepthAssumption DEF Call, Stacked, Types
<1>8. QED
  BY <1>1, <1>5, <1>6, <1>7, Passed

\* How a promise ends that goes back to its caller at once.
ReturnsInline(k) ==
  /\ stack' = [stack EXCEPT ![k] = Front(@)]
  /\ UNCHANGED <<phase, ending, handler, state, thread>>

LEMMA ReturnsInlineKeeps ==
  ASSUME IInv, NEW t \in Threads, NEW k \in Chains, Running(t, k),
         Len(stack[k]) > 1, ReturnsInline(k)
  PROVE  IInv'
<1>1. /\ Types /\ Stacked(k) /\ phase[k] = "live" /\ handler[k] = NoHandler
      /\ ~ending[k] /\ \A u \in Threads \ {t} : thread[u].chain # k
  BY Alone DEF Running, IInv
<1>2. Front(stack[k]) \in Seq(Frame) /\ Len(Front(stack[k])) = Len(stack[k]) - 1
  BY <1>1, FrontOf DEF Types
<1>3. OnlyAt(t, k) /\ Passes(t, k) /\ Working(t)'
  BY <1>1 DEF ReturnsInline, Running, OnlyAt, Passes, IInv, Working, Types
<1>4. Types'
  BY <1>2 DEF ReturnsInline, IInv, Types
<1>5. Stacked(k)'
  BY <1>1, <1>2, MaxDepthAssumption DEF ReturnsInline, Stacked, Types
<1>6. QED
  BY <1>1, <1>3, <1>4, <1>5, Passed

(* A promise ends: each way back hands control on once.                    *)
LEMMA FinalKeeps ==
  ASSUME IInv, NEW t \in Threads, NEW k \in Chains, Final(t, k)
  PROVE  IInv'
<1>1. Types /\ Running(t, k) /\ Len(stack[k]) > 1
  BY DEF Final, IInv
<1>2. Top(k) \in Frame
  BY <1>1, TopOf
<1> DEFINE Ends == ending' = [ending EXCEPT ![k] = TRUE] /\ UNCHANGED <<phase, stack>>
<1>3. ASSUME NEW e \in Executors, Queue(t, k, e), Ends PROVE IInv'
  BY <1>1, <1>3, QueueKeeps DEF Types
<1>4. ASSUME NEW e \in Executors, Dispatch(t, k, e), Ends PROVE IInv'
  <2>1. Dispatched(t, k)
    BY <1>1, <1>4, DispatchLeaves
  <2>2. QED
    BY <1>1, <1>4, <2>1, AwaitKeeps DEF Dispatched, Types
<1>5. CASE WayBack(Top(k)) = "dispatch"
  <2>1. Top(k).callerExecutor \in Executors
    BY <1>2, <1>5 DEF WayBack, Frame
  <2>2. QED
    BY <1>4, <1>5, <2>1 DEF Final
<1>6. CASE WayBack(Top(k)) = "defer"
  <2>1. Top(k).callerExecutor \in Executors
    BY <1>2, <1>6 DEF WayBack, Frame
  <2>2. QED
    BY <1>3, <1>6, <2>1 DEF Final
<1>7. CASE WayBack(Top(k)) = "leave"
  <2>1. InnerExecutor(Top(k)) \in Executors
    BY <1>2, <1>7, ExecutorsAssumption
    DEF WayBack, Frame, InnerExecutor, Executors, AnyStrand
  <2>2. QED
    BY <1>3, <1>7, <2>1 DEF Final
<1>8. CASE WayBack(Top(k)) = "inline"
  <2>1. ReturnsInline(k)
    BY <1>8 DEF Final, ReturnsInline
  <2>2. QED
    BY <1>1, <2>1, ReturnsInlineKeeps
<1>9. QED
  BY <1>5, <1>6, <1>7, <1>8 DEF WayBack

(* The detached coroutine ends: no control is left of it.                  *)
LEMMA FinishKeeps ==
  ASSUME IInv, NEW t \in Threads, NEW k \in Chains, Finish(t, k)
  PROVE  IInv'
<1>1. /\ Types /\ Stacked(k) /\ handler[k] = NoHandler /\ ~ending[k]
      /\ \A u \in Threads \ {t} : thread[u].chain # k
  BY Alone DEF Finish, Running, IInv
<1>2. stack' \in [Chains -> Seq(Frame)] /\ Len(stack'[k]) = 0
  BY <1>1 DEF Finish, Types
<1>3. OnlyAt(t, k) /\ Passes(t, k) /\ Working(t)'
  BY <1>1 DEF Finish, Running, Leaves, OnlyAt, Passes, IInv, Working, Types
<1>4. thread' \in [Threads -> Site]
  BY LeavesTyped, <1>1 DEF Finish
<1>5. Types'
  BY <1>1, <1>2, <1>4 DEF Finish, Types
<1>6. Stacked(k)'
  BY <1>1, <1>2, MaxDepthAssumption DEF Finish, Stacked, Types
<1>7. QED
  BY <1>1, <1>3, <1>5, <1>6, Passed

(* The coroutine is resumed, by whoever is left to do it: a finished       *)
(* callee is popped, and control is with the thread.                       *)
LEMMA ResumeKeeps ==
  ASSUME IInv, NEW t \in Threads, NEW k \in Chains,
         NEW strand \in AnyStrand \cup {NoExec},
         Resume(t, k, strand), UNCHANGED phase, phase[k] = "live",
         thread[t].chain \in {k, NoChain},
         \A u \in Threads \ {t} : thread[u].chain # k,
         handler' \in [Chains -> Handler], handler'[k] = NoHandler,
         state' \in [Chains -> {"initializing", "awaiting", "completed"}],
         \A j \in Chains \ {k} : handler'[j] = handler[j] /\ state'[j] = state[j]
  PROVE  IInv'
<1>1. Types /\ Stacked(k) /\ stack[k] \in Seq(Frame) /\ Len(stack[k]) > 0
  BY DEF IInv, Types, Stacked
<1>2. Front(stack[k]) \in Seq(Frame) /\ Len(Front(stack[k])) = Len(stack[k]) - 1
  BY <1>1, FrontOf
<1>3. /\ Resumed(k) \in Seq(Frame)
      /\ Len(Resumed(k)) \in 1 .. Len(stack[k])
  BY <1>1, <1>2 DEF Resumed, Stacked
<1>4. OnlyAt(t, k) /\ Passes(t, k) /\ Working(t)'
  BY ExecutorsAssumption DEF Resume, OnlyAt, Passes, IInv, Working, Types
<1>5. [chain |-> k, pc |-> "running", strand |-> strand] \in Site
  BY DEF Site
<1>6. Types'
  BY <1>1, <1>3, <1>5 DEF Resume, Types
<1>7. Stacked(k)'
  BY <1>1, <1>3, MaxDepthAssumption DEF Resume, Stacked, Types
<1>8. QED
  BY <1>4, <1>6, <1>7, Passed

(* await_suspend replaces the state: it resumes the coroutine if the       *)
(* handler ran, and leaves that to the handler if it did not.              *)
LEMMA ExchangeKeeps ==
  ASSUME IInv, NEW t \in Threads, NEW k \in Chains, Exchange(t, k)
  PROVE  IInv'
<1>1. /\ Types /\ Stacked(k) /\ phase[k] = "live"
      /\ \A u \in Threads \ {t} : thread[u].chain # k
  BY Alone DEF Exchange, IInv
<1>2. \/ handler[k] = NoHandler /\ state[k] = "completed"
      \/ handler[k].kind = "rendezvous" /\ state[k] = "initializing"
  BY DEF Exchange, IInv, Controlled
<1>3. /\ state' \in [Chains -> {"initializing", "awaiting", "completed"}]
      /\ state'[k] = "awaiting" /\ \A j \in Chains \ {k} : state'[j] = state[j]
  BY <1>1 DEF Exchange, Types
<1>4. CASE state[k] = "completed"
  <2>1. Resume(t, k, thread[t].strand) /\ UNCHANGED <<phase, handler>>
    BY <1>4 DEF Exchange, AwaiterResumes
  <2>2. thread[t].strand \in AnyStrand \cup {NoExec}
    BY <1>1 DEF Types, Site
  <2>3. handler' \in [Chains -> Handler] /\ handler'[k] = NoHandler
    BY <1>1, <1>2, <1>4, <2>1 DEF Types
  <2>4. QED
    BY <1>1, <1>3, <2>1, <2>2, <2>3, ResumeKeeps DEF Exchange
<1>5. CASE state[k] # "completed"
  <2>1. Leaves(t) /\ UNCHANGED <<phase, stack, ending, handler>>
    BY <1>5 DEF Exchange, AwaiterResumes
  <2>2. handler[k].kind = "rendezvous"
    BY <1>2, <1>5
  <2>3. OnlyAt(t, k) /\ Passes(t, k) /\ Working(t)'
    BY <1>1, <1>3, <2>1, <2>2
    DEF Exchange, Leaves, OnlyAt, Passes, IInv, Working, Types
  <2>4. Types'
    BY <1>1, <1>3, <2>1, LeavesTyped DEF Types
  <2>5. Stacked(k)'
    BY <1>1, <2>1, ExecutorsAssumption DEF Leaves, Stacked, Running, Types
  <2>6. QED
    BY <1>1, <2>3, <2>4, <2>5, Passed
<1>6. QED
  BY <1>4, <1>5

(* A thread takes a handler: it resumes the coroutine, unless a dispatch   *)
(* is to find out that it ran.                                             *)
LEMMA TakeKeeps ==
  ASSUME IInv, NEW t \in Threads, NEW k \in Chains, Take(t, k)
  PROVE  IInv'
<1> DEFINE e == handler[k].on
           strand == IF e \in AnyStrand THEN e ELSE NoExec
<1>1. /\ Types /\ Stacked(k) /\ thread[t] = Idle /\ handler[k].kind # "none"
      /\ thread[t].chain = NoChain /\ UNCHANGED phase
  BY DEF Take, Idle, IInv
<1>2. handler[k] # NoHandler /\ phase[k] = "live"
  BY <1>1 DEF NoHandler, IInv, Types, Controlled
<1>3. /\ handler' = [handler EXCEPT ![k] = NoHandler] /\ NoHandler \in Handler
      /\ handler'[k] = NoHandler /\ handler' \in [Chains -> Handler]
      /\ \A j \in Chains \ {k} : handler'[j] = handler[j]
  BY <1>1 DEF Take, Types, Handler, NoHandler
<1>4. strand \in AnyStrand \cup {NoExec}
  OBVIOUS
<1>5. CASE handler[k].kind = "resume"
  <2>1. Resume(t, k, strand) /\ UNCHANGED state
    BY <1>5 DEF Take
  <2>2. \A u \in Threads : thread[u].chain # k
    BY <1>2, <1>5, ExecutorsAssumption
    DEF IInv, Controlled, Working, Running
  <2>3. QED
    BY <1>1, <1>2, <1>3, <1>4, <2>1, <2>2, ResumeKeeps DEF Types
<1>6. CASE handler[k].kind = "rendezvous" /\ state[k] = "awaiting"
  <2>1. /\ Resume(t, k, strand)
        /\ state' = [state EXCEPT ![k] = "completed"]
    BY <1>6 DEF Take, HandlerResumes
  <2>2. \A u \in Threads : thread[u].chain # k
    BY <1>2, <1>6, ExecutorsAssumption DEF IInv, Controlled, Working, Running
  <2>3. QED
    BY <1>1, <1>2, <1>3, <1>4, <2>1, <2>2, ResumeKeeps DEF Types
<1>7. CASE handler[k].kind = "rendezvous" /\ state[k] # "awaiting"
  <2>1. /\ state' = [state EXCEPT ![k] = "completed"]
        /\ thread' = [thread EXCEPT ![t] =
             [chain |-> NoChain, pc |-> "leaving", strand |-> strand]]
        /\ UNCHANGED <<phase, stack, ending>>
    BY <1>7, <1>1 DEF Take, HandlerResumes
  <2>2. [chain |-> NoChain, pc |-> "leaving", strand |-> strand] \in Site
    BY DEF Site
  <2>3. Types'
    BY <1>1, <1>3, <2>1, <2>2 DEF Types
  <2>4. OnlyAt(t, k) /\ Working(t)'
    BY <1>1, <1>3, <2>1 DEF OnlyAt, Working, Types
  <2>5. \A u \in Threads : /\ thread'[u].chain = k => thread'[u] = thread[u]
                           /\ thread[u].chain = k => thread'[u] = thread[u]
    BY <1>1, <2>1, ExecutorsAssumption DEF Types
  <2>6. Stacked(k)'
    BY <1>1, <2>1, <2>5 DEF Stacked, Running
  <2>7. PICK u \in Threads : thread[u].chain = k
    BY <1>2, <1>7 DEF IInv, Controlled
  <2>8. thread[u].pc = "awaiting"
    BY <1>2, <2>7, ExecutorsAssumption DEF IInv, Controlled, Working, Running
  <2>9. Controlled(k)'
    BY <1>1, <1>2, <1>3, <2>1, <2>5, <2>7, <2>8
    DEF IInv, Controlled, Running, Types
  <2>10. QED
    BY <2>3, <2>4, <2>6, <2>9, Elsewhere DEF IInv
<1>8. QED
  BY <1>1, <1>5, <1>6, <1>7 DEF Types, Handler

(* The thread returns from the handler; it concerns no chain any more.     *)
LEMMA LeaveKeeps ==
  ASSUME IInv, NEW t \in Threads, Leave(t)
  PROVE  IInv'
<1>1. thread[t].chain = NoChain /\ thread'[t] = Idle /\ Types
  BY DEF Leave, IInv, Working, Types
<1>2. Types'
  BY <1>1 DEF Leave, Types, Site, Idle
<1>3. Working(t)'
  BY <1>1 DEF Working, Idle
<1>4. ASSUME NEW k \in Chains PROVE Stacked(k)' /\ Controlled(k)'
  <2>1. /\ \A u \in Threads : /\ thread'[u].chain = k => thread'[u] = thread[u]
                              /\ thread[u].chain = k => thread'[u] = thread[u]
        /\ UNCHANGED <<phase, stack, ending, handler, state>>
    BY <1>1, ExecutorsAssumption DEF Leave, Idle, Types
  <2>2. QED
    BY <2>1 DEF IInv, Stacked, Controlled, Running
<1>5. \A u \in Threads : Working(u)'
  BY <1>1, <1>3 DEF Leave, IInv, Working, Types
<1>6. QED
  BY <1>2, <1>4, <1>5 DEF IInv

(* No chain has started in the beginning.                                  *)
LEMMA InitInv == Init => IInv
<1> SUFFICES ASSUME Init PROVE IInv
  OBVIOUS
<1>1. Types
  BY DEF Init, Types, Site, Idle, Handler, NoHandler
<1>2. \A t \in Threads : Working(t)
  BY DEF Init, Working, Idle
<1>3. \A k \in Chains : Stacked(k)
  BY MaxDepthAssumption DEF Init, Stacked, Running, Idle
<1>4. \A k \in Chains : Controlled(k)
  BY ExecutorsAssumption DEF Init, Controlled, Running, Idle
<1>5. QED
  BY <1>1, <1>2, <1>3, <1>4 DEF IInv

(* Every step keeps the invariant.                                         *)
LEMMA StepInv == IInv /\ [Next]_vars => IInv'
<1> SUFFICES ASSUME IInv, [Next]_vars PROVE IInv'
  OBVIOUS
<1>1. CASE UNCHANGED vars
  BY <1>1 DEF vars, IInv, Types, Working, Stacked, Controlled, Running
<1>2. ASSUME NEW t \in Threads, Leave(t) PROVE IInv'
  BY <1>2, LeaveKeeps
<1>3. ASSUME NEW t \in Threads, NEW k \in Chains,
             \/ Start(t, k)
             \/ \E e \in Executors : Post(t, k, e) \/ Defer(t, k, e) \/ DispatchTo(t, k, e)
             \/ \E c \in Contexts : AsyncWait(t, k, c)
             \/ Sleep(t, k) \/ Call(t, k) \/ Final(t, k) \/ Finish(t, k)
             \/ Exchange(t, k) \/ Take(t, k)
      PROVE  IInv'
  BY <1>3, StartKeeps, QueuedHopKeeps, DispatchToKeeps, AsyncWaitKeeps, SleepKeeps,
     CallKeeps, FinalKeeps, FinishKeeps, ExchangeKeeps, TakeKeeps
  DEF Post, Defer
<1>4. QED
  BY <1>1, <1>2, <1>3 DEF Next

(* The inductive invariant holds throughout.                               *)
THEOREM Inductive == Spec => []IInv
<1>1. QED
  BY InitInv, StepInv, PTL DEF Spec

(* The variables keep to their types; a live chain has frames.             *)
THEOREM TypeCorrect == Spec => []TypeOK
<1>1. ASSUME IInv, NEW k \in Chains
      PROVE  /\ Len(stack[k]) \in 0 .. MaxDepth[k]
             /\ phase[k] = "live" <=> Len(stack[k]) > 0
             /\ \A i \in 1 .. Len(stack[k]) : stack[k][i] \in Frame
  <2>1. stack[k] \in Seq(Frame) /\ Len(stack[k]) \in Nat /\ MaxDepth[k] \in Nat
    BY <1>1, MaxDepthAssumption DEF IInv, Types
  <2>2. QED
    BY <1>1, <2>1, ElementOfSeq DEF IInv, Stacked
<1>2. IInv => TypeOK
  BY <1>1 DEF IInv, Types, Site, TypeOK
<1>3. QED
  BY <1>2, Inductive, PTL

(* Control of a chain is in one place, whichever way it moves, and stays   *)
(* with somebody until the chain is over.                                  *)
THEOREM ControlledOnce == Spec => []OneControl
<1>1. ASSUME IInv, NEW k \in Chains
      PROVE  \/ /\ phase[k] # "live"
                /\ InControl(k) = {} /\ handler[k] = NoHandler
             \/ /\ phase[k] = "live"
                /\ \A t, u \in InControl(k) : t = u
                /\ \/ \E t \in InControl(k) : Running(t, k) /\ handler[k] = NoHandler
                   \/ \E t \in InControl(k) :
                        /\ thread[t].pc = "awaiting"
                        /\ handler[k] = NoHandler <=> state[k] = "completed"
                        /\ handler[k].kind # "resume" /\ state[k] # "awaiting"
                   \/ InControl(k) = {} /\ handler[k].kind = "resume"
                   \/ /\ InControl(k) = {} /\ handler[k].kind = "rendezvous"
                      /\ state[k] = "awaiting"
  <2>1. InControl(k) = {t \in Threads : thread[t].chain = k}
    BY <1>1, ExecutorsAssumption DEF InControl, IInv, Working
  <2>2. CASE phase[k] # "live"
    BY <1>1, <2>1, <2>2 DEF IInv, Controlled
  <2>3. CASE phase[k] = "live" /\ InControl(k) = {}
    BY <1>1, <2>1, <2>3 DEF IInv, Controlled
  <2>4. CASE phase[k] = "live" /\ InControl(k) # {}
    <3>1. PICK t \in InControl(k) : \A u \in InControl(k) : u = t
      BY <1>1, <2>1, <2>4 DEF IInv, Controlled
    <3>2. thread[t].pc \in {"running", "awaiting"} /\ thread[t].chain = k
      BY <2>1, <3>1 DEF InControl
    <3>3. CASE thread[t].pc = "running"
      BY <1>1, <2>4, <3>1, <3>2, <3>3 DEF IInv, Controlled, Running, InControl
    <3>4. CASE thread[t].pc = "awaiting"
      BY <1>1, <2>1, <2>4, <3>1, <3>2, <3>4 DEF IInv, Controlled, NoHandler
    <3>5. QED
      BY <3>2, <3>3, <3>4
  <2>5. QED
    BY <2>2, <2>3, <2>4
<1>2. IInv => OneControl
  BY <1>1 DEF OneControl
<1>3. QED
  BY <1>2, Inductive, PTL
-----------------------------------------------------------------------------
(* Where the coroutines of the chains in Queued run. *)

(* A step of a chain is local to it and to the thread that takes it.       *)
LEMMA StepIsLocal ==
  ASSUME IInv, NEW t \in Threads, NEW k \in Chains,
         \/ Start(t, k)
         \/ \E e \in Executors : Post(t, k, e) \/ Defer(t, k, e) \/ DispatchTo(t, k, e)
         \/ \E c \in Contexts : AsyncWait(t, k, c)
         \/ Sleep(t, k) \/ Call(t, k) \/ Final(t, k) \/ Finish(t, k)
         \/ Exchange(t, k) \/ Take(t, k)
  PROVE  OnlyAt(t, k)
<1> USE DEF OnlyAt, IInv, Types
<1>1. CASE Start(t, k)
  BY <1>1 DEF Start, Idle
<1>2. ASSUME NEW e \in Executors, QueuedHop(t, k, e) PROVE OnlyAt(t, k)
  BY <1>2 DEF QueuedHop, Queue, Leaves, Running, SetExecutor
<1>3. ASSUME NEW e \in Executors, DispatchTo(t, k, e) PROVE OnlyAt(t, k)
  BY <1>3 DEF DispatchTo, Dispatch, Running, SetExecutor
<1>4. ASSUME NEW c \in Contexts, AsyncWait(t, k, c) PROVE OnlyAt(t, k)
  BY <1>4 DEF AsyncWait, Running
<1>5. CASE Sleep(t, k)
  BY <1>5 DEF Sleep, Running
<1>6. CASE Call(t, k)
  BY <1>6 DEF Call, Running
<1>7. CASE Final(t, k)
  <2>1. thread[t].chain = k /\ UNCHANGED phase
    BY <1>7 DEF Final, Running
  <2>2. ASSUME NEW e, Queue(t, k, e), ending' = [ending EXCEPT ![k] = TRUE],
               UNCHANGED stack
        PROVE  OnlyAt(t, k)
    BY <2>1, <2>2 DEF Queue, Leaves
  <2>3. ASSUME NEW e, Dispatch(t, k, e), ending' = [ending EXCEPT ![k] = TRUE],
               UNCHANGED stack
        PROVE  OnlyAt(t, k)
    BY <2>1, <2>3 DEF Dispatch
  <2>4. CASE WayBack(Top(k)) = "inline"
    BY <1>7, <2>1, <2>4 DEF Final
  <2>5. QED
    BY <1>7, <2>2, <2>3, <2>4 DEF Final
<1>8. CASE Finish(t, k)
  BY <1>8 DEF Finish, Leaves, Running
<1>9. CASE Exchange(t, k)
  <2>1. /\ thread[t].chain = k /\ UNCHANGED <<phase, handler>>
        /\ state' = [state EXCEPT ![k] = "awaiting"]
    BY <1>9 DEF Exchange
  <2>2. CASE Resume(t, k, thread[t].strand)
    BY <2>1, <2>2 DEF Resume
  <2>3. CASE Leaves(t) /\ UNCHANGED <<stack, ending>>
    BY <2>1, <2>3 DEF Leaves
  <2>4. QED
    BY <1>9, <2>2, <2>3 DEF Exchange
<1>10. CASE Take(t, k)
  BY <1>10 DEF Take, Resume, Idle
<1>11. QED
  BY <1>1, <1>2, <1>3, <1>4, <1>5, <1>6, <1>7, <1>8, <1>9, <1>10 DEF Post, Defer

\* A frame knows the executor of the one below, and moves to strands only.
Linked(k) ==
  \A i \in 2 .. Len(stack[k]) :
    /\ stack[k][i].executor \in Strands \cup {NoExec}
    /\ stack[k][i].callerExecutor = GetExecutor(stack[k][i - 1])

\* The frame that the handler of a chain resumes.
Receiver(k) == IF ending[k] THEN stack[k][Len(stack[k]) - 1] ELSE Top(k)

\* A handler waits on the executor of that frame, or outside of any strand.
Sent(k) ==
  handler[k].kind # "none" =>
    IF GetExecutor(Receiver(k)) = NoExec THEN handler[k].on \in Contexts
    ELSE handler[k].on = GetExecutor(Receiver(k))

\* A thread that works for a chain is where the chain belongs.
Resident(k) ==
  \A t \in Threads : thread[t].chain = k =>
    /\ ~ending[k]
    /\ GetExecutor(Top(k)) # NoExec => IsIn(t, GetExecutor(Top(k)))
    /\ thread[t].strand \in {NoExec, GetExecutor(Top(k))}

Placed(k) == Linked(k) /\ Sent(k) /\ Resident(k)

AtHome == \A k \in Queued : Placed(k)

(* A step that concerns another chain leaves this one where it is.         *)
LEMMA StaysPlaced ==
  ASSUME IInv, NEW k \in Chains, Placed(k), NEW t \in Threads,
         thread[t].chain # k, thread'[t].chain # k,
         \A u \in Threads \ {t} : thread'[u] = thread[u],
         stack'[k] = stack[k], ending'[k] = ending[k], handler'[k] = handler[k]
  PROVE  Placed(k)'
<1>1. \A u \in Threads : thread'[u].chain = k => thread'[u] = thread[u]
  OBVIOUS
<1>2. Top(k)' = Top(k) /\ Receiver(k)' = Receiver(k)
  BY DEF Top, Receiver
<1>3. Linked(k)' /\ Sent(k)'
  BY <1>2 DEF Placed, Linked, Sent
<1>4. Resident(k)'
  BY <1>1, <1>2 DEF Placed, Resident, IsIn
<1>5. QED
  BY <1>3, <1>4 DEF Placed

LEMMA OthersPlaced ==
  ASSUME IInv, AtHome, NEW t \in Threads, NEW k \in Chains, OnlyAt(t, k)
  PROVE  \A j \in Queued \ {k} : Placed(j)'
<1>1. ASSUME NEW j \in Queued \ {k} PROVE Placed(j)'
  <2>1. j \in Chains /\ Placed(j) /\ j # NoChain
    BY ExecutorsAssumption DEF Queued, AtHome
  <2>2. QED
    BY <2>1, StaysPlaced DEF OnlyAt
<1>2. QED
  BY <1>1

(* A step after which no thread works for the chain only has to send its   *)
(* handler right.                                                          *)
LEMMA Gone ==
  ASSUME NEW k \in Chains, \A u \in Threads : thread'[u].chain # k
  PROVE  Resident(k)'
BY DEF Resident

(* A queued chain that runs: its last frame, and where its thread is.      *)
LEMMA AtWork ==
  ASSUME IInv, NEW k \in Queued, Placed(k), NEW t \in Threads, Running(t, k)
  PROVE  /\ k \in Chains /\ Len(stack[k]) \in Nat \ {0} /\ ~ending[k]
         /\ handler[k] = NoHandler /\ phase[k] = "live"
         /\ Top(k) \in Frame /\ Top(k) = stack[k][Len(stack[k])]
         /\ GetExecutor(Top(k)) \in Executors \cup {NoExec}
         /\ GetExecutor(Top(k)) # NoExec => IsIn(t, GetExecutor(Top(k)))
         /\ thread[t].strand \in {NoExec, GetExecutor(Top(k))}
         /\ \A u \in Threads \ {t} : thread[u].chain # k
<1>1. k \in Chains
  BY DEF Queued
<1>2. /\ Len(stack[k]) \in Nat \ {0} /\ ~ending[k] /\ handler[k] = NoHandler
      /\ phase[k] = "live" /\ \A u \in Threads \ {t} : thread[u].chain # k
  BY <1>1, Alone DEF Running
<1>3. /\ Top(k) \in Frame /\ Top(k) = stack[k][Len(stack[k])]
      /\ GetExecutor(Top(k)) \in Executors \cup {NoExec}
  BY <1>1, <1>2, TopOf DEF IInv
<1>4. /\ GetExecutor(Top(k)) # NoExec => IsIn(t, GetExecutor(Top(k)))
      /\ thread[t].strand \in {NoExec, GetExecutor(Top(k))}
  BY DEF Placed, Resident, Running
<1>5. QED
  BY <1>1, <1>2, <1>3, <1>4

(* A frame that changes without its executor, or moves to a strand, keeps  *)
(* its place in the chain.                                                 *)
LEMMA StaysLinked ==
  ASSUME Types, NEW k \in Chains, Linked(k), Len(stack[k]) > 0, NEW f \in Frame,
         Len(stack'[k]) = Len(stack[k]),
         \A i \in 1 .. Len(stack[k]) :
           stack'[k][i] = IF i = Len(stack[k]) THEN f ELSE stack[k][i],
         f.callerExecutor = Top(k).callerExecutor,
         Len(stack[k]) # 1 => f.executor \in Strands \cup {NoExec}
  PROVE  Linked(k)' /\ Top(k)' = f
<1>1. Top(k) = stack[k][Len(stack[k])] /\ Len(stack[k]) \in Nat
  BY TopOf DEF Types
<1>2. Top(k)' = f
  BY <1>1 DEF Top, Last
<1>3. ASSUME NEW i \in 2 .. Len(stack'[k])
      PROVE  /\ stack'[k][i].executor \in Strands \cup {NoExec}
             /\ stack'[k][i].callerExecutor = GetExecutor(stack'[k][i - 1])
  <2>1. /\ i \in 2 .. Len(stack[k]) /\ i \in 1 .. Len(stack[k])
        /\ i - 1 \in 1 .. Len(stack[k]) /\ i - 1 # Len(stack[k])
        /\ Len(stack[k]) # 1
    BY <1>1
  <2>2. /\ stack[k][i].executor \in Strands \cup {NoExec}
        /\ stack[k][i].callerExecutor = GetExecutor(stack[k][i - 1])
    BY <2>1 DEF Linked
  <2>3. stack'[k][i - 1] = stack[k][i - 1]
    BY <2>1
  <2>4. QED
    BY <1>1, <2>1, <2>2, <2>3
<1>4. QED
  BY <1>2, <1>3 DEF Linked

(* It starts nowhere in particular.                                        *)
LEMMA StartPlaces ==
  ASSUME IInv, NEW t \in Threads, NEW k \in Queued, Start(t, k)
  PROVE  Placed(k)'
<1>1. k \in Chains
  BY DEF Queued
<1>2. /\ stack'[k] = <<NewFrame(NoExec)>> /\ Len(stack'[k]) = 1
      /\ handler'[k] = NoHandler /\ ending'[k] = FALSE
  BY <1>1 DEF Start, IInv, Types, Controlled, Stacked
<1>3. Top(k)' = NewFrame(NoExec)
  BY <1>2 DEF Top, Last
<1>4. GetExecutor(Top(k)') = NoExec
  BY <1>3 DEF GetExecutor, NewFrame
<1>5. Linked(k)'
  BY <1>2 DEF Linked
<1>6. Sent(k)'
  BY <1>2 DEF Sent, NoHandler
<1>7. \A u \in Threads : thread'[u].chain = k => thread'[u].strand = NoExec
  <2>1. \A u \in Threads : thread[u].chain # k
    BY <1>1 DEF Start, IInv, Controlled
  <2>2. thread'[t].strand = NoExec
    BY DEF Start, IInv, Types, Idle
  <2>3. \A u \in Threads \ {t} : thread'[u] = thread[u]
    BY DEF Start, IInv, Types
  <2>4. QED
    BY <2>1, <2>2, <2>3
<1>8. Resident(k)'
  BY <1>2, <1>4, <1>7 DEF Resident
<1>9. QED
  BY <1>5, <1>6, <1>8 DEF Placed

(* A hop sends it to the executor it now has.                              *)
LEMMA QueuedHopPlaces ==
  ASSUME IInv, NEW t \in Threads, NEW k \in Queued, Placed(k),
         NEW e \in Executors, QueuedHop(t, k, e)
  PROVE  Placed(k)'
<1> DEFINE f == [Top(k) EXCEPT !.executor = e]
<1>1. /\ k \in Chains /\ Types /\ Len(stack[k]) > 0 /\ ~ending[k]
      /\ Top(k) \in Frame /\ \A u \in Threads \ {t} : thread[u].chain # k
  BY AtWork DEF QueuedHop, IInv
<1>2. /\ f \in Frame
      /\ stack' = [stack EXCEPT ![k] = [stack[k] EXCEPT ![Len(stack[k])] = f]]
  BY <1>1, SetsTop DEF QueuedHop
<1>3. /\ Len(stack'[k]) = Len(stack[k])
      /\ \A i \in 1 .. Len(stack[k]) :
           stack'[k][i] = IF i = Len(stack[k]) THEN f ELSE stack[k][i]
  BY <1>1, <1>2, TopChanged
<1>4. /\ f.callerExecutor = Top(k).callerExecutor /\ f.executor = e
      /\ Len(stack[k]) # 1 => e \in Strands
  <2>1. f.callerExecutor = Top(k).callerExecutor /\ f.executor = e
    BY <1>1 DEF Frame
  <2>2. Len(stack[k]) # 1 => e \in CalleeTargets[k]
    BY <1>1 DEF QueuedHop, Targets
  <2>3. QED
    BY <2>1, <2>2 DEF Queued
<1>5. Linked(k)' /\ Top(k)' = f
  BY <1>1, <1>2, <1>3, <1>4, StaysLinked DEF Placed
<1>6. /\ handler'[k].on = e /\ ~ending'[k]
      /\ \A u \in Threads : thread'[u].chain # k
  BY <1>1, ExecutorsAssumption DEF QueuedHop, Queue, Leaves, Types
<1>7. GetExecutor(f) = e /\ e # NoExec
  BY <1>4, ExecutorsAssumption DEF GetExecutor
<1>8. Sent(k)'
  BY <1>5, <1>6, <1>7 DEF Sent, Receiver
<1>9. QED
  BY <1>1, <1>5, <1>6, <1>8, Gone DEF Placed

(* An operation completes on the executor it has.                          *)
LEMMA AsyncWaitPlaces ==
  ASSUME IInv, NEW t \in Threads, NEW k \in Queued, Placed(k),
         NEW c \in Contexts, AsyncWait(t, k, c)
  PROVE  Placed(k)'
<1>1. /\ k \in Chains /\ ~ending[k] /\ Types
  BY AtWork DEF AsyncWait, IInv
<1>2. Top(k)' = Top(k) /\ ending' = ending /\ stack' = stack
  BY DEF AsyncWait, Top
<1>3. Linked(k)'
  BY <1>2 DEF Placed, Linked
<1>4. Sent(k)'
  BY <1>1, <1>2 DEF AsyncWait, Sent, Receiver, Types
<1>5. \A u \in Threads : /\ thread'[u].chain = thread[u].chain
                         /\ thread'[u].strand = thread[u].strand
  BY <1>1 DEF AsyncWait, Types, Site
<1>6. Resident(k)'
  BY <1>2, <1>5 DEF Placed, Resident, IsIn
<1>7. QED
  BY <1>3, <1>4, <1>6 DEF Placed

(* So does a sleep, whatever executor its timer was made for.              *)
LEMMA SleepPlaces ==
  ASSUME IInv, NEW t \in Threads, NEW k \in Queued, Placed(k), Sleep(t, k)
  PROVE  Placed(k)'
<1> DEFINE timer == IF Top(k).timer = NoExec THEN GetExecutor(Top(k)) ELSE Top(k).timer
           f == [Top(k) EXCEPT !.timer = timer]
<1>1. /\ k \in Chains /\ ~ending[k] /\ Types /\ Len(stack[k]) > 0 /\ Top(k) \in Frame
      /\ GetExecutor(Top(k)) \in Executors /\ Top(k) = stack[k][Len(stack[k])]
      /\ Len(stack[k]) \in Nat
  BY AtWork DEF Sleep, IInv
<1>2. f \in Frame
  BY <1>1 DEF Frame
<1>3. stack' = [stack EXCEPT ![k] = [stack[k] EXCEPT ![Len(stack[k])] = f]]
  BY <1>1 DEF Sleep
<1>4. /\ Len(stack'[k]) = Len(stack[k])
      /\ \A i \in 1 .. Len(stack[k]) :
           stack'[k][i] = IF i = Len(stack[k]) THEN f ELSE stack[k][i]
  BY <1>1, <1>2, <1>3, TopChanged
<1>5. /\ f.callerExecutor = Top(k).callerExecutor /\ f.executor = Top(k).executor
      /\ Len(stack[k]) # 1 => f.executor \in Strands \cup {NoExec}
  <2>1. f.callerExecutor = Top(k).callerExecutor /\ f.executor = Top(k).executor
    BY <1>1 DEF Frame
  <2>2. Len(stack[k]) # 1 => Len(stack[k]) \in 2 .. Len(stack[k])
    <3> DEFINE n == Len(stack[k])
    <3>1. n \in Nat \ {0}
      BY AtWork DEF Sleep
    <3> HIDE DEF n
    <3>2. n # 1 => n \in 2 .. n
      BY <3>1
    <3>3. QED
      BY <3>2 DEF n
  <2>3. QED
    BY <1>1, <2>1, <2>2 DEF Placed, Linked
<1>6. Linked(k)' /\ Top(k)' = f
  BY <1>1, <1>2, <1>4, <1>5, StaysLinked DEF Placed
<1>7. GetExecutor(f) = GetExecutor(Top(k))
  BY <1>5 DEF GetExecutor
<1>8. /\ ~ending'[k] /\ handler'[k].on = GetExecutor(Top(k))
      /\ \A u \in Threads : /\ thread'[u].chain = thread[u].chain
                            /\ thread'[u].strand = thread[u].strand
  BY <1>1 DEF Sleep, WhereSleepEnds, Types, Site
<1>9. Sent(k)'
  BY <1>1, <1>6, <1>7, <1>8, ExecutorsAssumption DEF Sent, Receiver
<1>10. Resident(k)'
  BY <1>6, <1>7, <1>8 DEF Placed, Resident, IsIn
<1>11. QED
  BY <1>6, <1>9, <1>10 DEF Placed

(* A callee inherits the executor of its caller.                           *)
LEMMA CallPlaces ==
  ASSUME IInv, NEW t \in Threads, NEW k \in Queued, Placed(k), Call(t, k)
  PROVE  Placed(k)'
<1> DEFINE f == NewFrame(GetExecutor(Top(k)))
<1>1. /\ k \in Chains /\ Types /\ Len(stack[k]) \in Nat \ {0} /\ ~ending[k]
      /\ stack[k] \in Seq(Frame) /\ handler[k] = NoHandler
      /\ Top(k) = stack[k][Len(stack[k])]
      /\ GetExecutor(Top(k)) \in Executors \cup {NoExec}
  BY AtWork DEF Call, IInv, Types
<1>2. f \in Frame
  BY <1>1 DEF NewFrame, Frame
<1>3. stack'[k] = Append(stack[k], f)
  BY <1>1 DEF Call, CallerSeenAs, Types
<1>4. /\ Len(stack'[k]) = Len(stack[k]) + 1
      /\ \A i \in 1 .. Len(stack[k]) : stack'[k][i] = stack[k][i]
      /\ stack'[k][Len(stack[k]) + 1] = f
  BY <1>1, <1>2, <1>3, AppendProperties
<1>5. Top(k)' = f
  BY <1>4 DEF Top, Last
<1>6. GetExecutor(f) = GetExecutor(Top(k)) /\ f.executor = NoExec
  BY DEF GetExecutor, NewFrame
<1>7. ASSUME NEW i \in 2 .. Len(stack'[k])
      PROVE  /\ stack'[k][i].executor \in Strands \cup {NoExec}
             /\ stack'[k][i].callerExecutor = GetExecutor(stack'[k][i - 1])
  <2>1. CASE i = Len(stack[k]) + 1
    <3>1. i - 1 = Len(stack[k]) /\ i - 1 \in 1 .. Len(stack[k])
      BY <1>1, <2>1
    <3>2. stack'[k][i - 1] = Top(k) /\ stack'[k][i] = f
      BY <1>1, <1>4, <2>1, <3>1
    <3>3. f.callerExecutor = GetExecutor(Top(k))
      BY DEF NewFrame
    <3>4. QED
      BY <1>6, <3>2, <3>3
  <2>2. CASE i # Len(stack[k]) + 1
    <3>1. /\ i \in 2 .. Len(stack[k]) /\ i \in 1 .. Len(stack[k])
          /\ i - 1 \in 1 .. Len(stack[k])
      BY <1>1, <1>4, <2>2
    <3>2. QED
      BY <1>4, <3>1 DEF Placed, Linked
  <2>3. QED
    BY <2>1, <2>2
<1>8. Linked(k)'
  BY <1>7 DEF Linked
<1>9. Sent(k)'
  BY <1>1 DEF Call, Sent, NoHandler
<1>10. Resident(k)'
  BY <1>5, <1>6 DEF Call, Placed, Resident, IsIn
<1>11. QED
  BY <1>8, <1>9, <1>10 DEF Placed

(* Without its last frame the chain is linked as it was.                   *)
LEMMA PopsLinked ==
  ASSUME IInv, NEW k \in Chains, Linked(k), Len(stack[k]) > 1,
         stack'[k] = Front(stack[k])
  PROVE  Linked(k)' /\ Top(k)' = stack[k][Len(stack[k]) - 1]
<1>1. stack[k] \in Seq(Frame) /\ Len(stack[k]) \in Nat /\ Len(stack[k]) > 0
  BY DEF IInv, Types
<1>2. /\ Len(stack'[k]) = Len(stack[k]) - 1
      /\ \A i \in 1 .. Len(stack[k]) - 1 : stack'[k][i] = stack[k][i]
  BY <1>1, FrontOf
<1>3. Top(k)' = stack[k][Len(stack[k]) - 1]
  <2>1. Len(stack[k]) - 1 \in 1 .. Len(stack[k]) - 1
    BY <1>1
  <2>2. QED
    BY <1>2, <2>1 DEF Top, Last
<1>4. ASSUME NEW i \in 2 .. Len(stack'[k])
      PROVE  /\ stack'[k][i].executor \in Strands \cup {NoExec}
             /\ stack'[k][i].callerExecutor = GetExecutor(stack'[k][i - 1])
  <2>1. /\ i \in 2 .. Len(stack[k]) /\ i \in 1 .. Len(stack[k]) - 1
        /\ i - 1 \in 1 .. Len(stack[k]) - 1
    BY <1>1, <1>2
  <2>2. QED
    BY <1>2, <2>1 DEF Linked
<1>5. QED
  BY <1>3, <1>4 DEF Linked

(* A promise that did not move returns at once, where its caller is; one   *)
(* that did leaves the caller to a handler on the caller's executor, or    *)
(* outside of its strand if the caller has none.                           *)
LEMMA FinalPlaces ==
  ASSUME IInv, NEW t \in Threads, NEW k \in Queued, Placed(k), Final(t, k)
  PROVE  Placed(k)'
<1> DEFINE f == Top(k)
           g == stack[k][Len(stack[k]) - 1]
<1>1. /\ k \in Chains /\ Types /\ Len(stack[k]) \in Nat /\ Len(stack[k]) > 1
      /\ ~ending[k] /\ handler[k] = NoHandler /\ f \in Frame
      /\ f = stack[k][Len(stack[k])] /\ Running(t, k)
      /\ \A u \in Threads \ {t} : thread[u].chain # k
  BY AtWork DEF Final, IInv
<1>2. f.executor \in Strands \cup {NoExec} /\ f.callerExecutor = GetExecutor(g)
  <2>1. Len(stack[k]) \in 2 .. Len(stack[k])
    BY <1>1
  <2>2. QED
    BY <1>1, <2>1 DEF Placed, Linked
<1>3. f.executor \in Strands => InnerExecutor(f) \in Contexts
  BY ExecutorsAssumption DEF InnerExecutor, AnyStrand
<1>4. Contexts \subseteq Executors /\ NoExec \notin Executors
  BY ExecutorsAssumption DEF Executors
<1>5. ASSUME NEW e, Queue(t, k, e), ending' = [ending EXCEPT ![k] = TRUE],
             UNCHANGED stack,
             IF GetExecutor(g) = NoExec THEN e \in Contexts ELSE e = GetExecutor(g)
      PROVE  Placed(k)'
  <2>1. /\ ending'[k] /\ handler'[k].on = e
        /\ \A u \in Threads : thread'[u].chain # k
    BY <1>1, <1>5, ExecutorsAssumption DEF Queue, Leaves, Types
  <2>2. Linked(k)'
    BY <1>5 DEF Placed, Linked
  <2>3. Receiver(k)' = g
    BY <1>5, <2>1 DEF Receiver
  <2>4. Sent(k)'
    BY <1>5, <2>1, <2>3 DEF Sent
  <2>5. QED
    BY <1>1, <2>1, <2>2, <2>4, Gone DEF Placed
<1>6. CASE WayBack(f) = "dispatch"
  BY <1>2, <1>3, <1>4, <1>6 DEF WayBack
<1>7. CASE WayBack(f) = "defer"
  <2>1. f.callerExecutor # NoExec
    BY <1>7 DEF WayBack
  <2>2. QED
    BY <1>2, <1>5, <1>7, <2>1 DEF Final
<1>8. CASE WayBack(f) = "leave"
  <2>1. InnerExecutor(f) # NoExec
    BY <1>8 DEF WayBack
  <2>2. f.executor \in Strands
    BY <2>1 DEF InnerExecutor
  <2>3. f.executor # NoExec
    BY <1>4, <2>2 DEF Executors, AnyStrand
  <2>4. f.callerExecutor = NoExec
    BY <1>8, <2>3 DEF WayBack
  <2>5. QED
    BY <1>2, <1>3, <1>5, <1>8, <2>2, <2>4 DEF Final
<1>9. CASE WayBack(f) = "inline"
  <2>1. stack'[k] = Front(stack[k]) /\ UNCHANGED <<ending, handler, state, thread>>
    BY <1>1, <1>9 DEF Final, Types
  <2>2. Linked(k)' /\ Top(k)' = g
    BY <1>1, <2>1, PopsLinked DEF Placed
  <2>3. f.executor = NoExec
    BY <1>2, <1>3, <1>4, <1>9 DEF WayBack
  <2>4. GetExecutor(f) = GetExecutor(g)
    BY <1>2, <2>3 DEF GetExecutor
  <2>5. Sent(k)'
    BY <1>1, <2>1 DEF Sent, NoHandler
  <2>6. Resident(k)'
    BY <2>1, <2>2, <2>4 DEF Placed, Resident, IsIn
  <2>7. QED
    BY <2>2, <2>5, <2>6 DEF Placed
<1>10. QED
  BY <1>6, <1>7, <1>8, <1>9 DEF WayBack

(* The detached coroutine ends.                                            *)
LEMMA FinishPlaces ==
  ASSUME IInv, NEW t \in Threads, NEW k \in Queued, Placed(k), Finish(t, k)
  PROVE  Placed(k)'
<1>1. /\ k \in Chains /\ Types /\ handler[k] = NoHandler
      /\ \A u \in Threads \ {t} : thread[u].chain # k
  BY AtWork DEF Finish, IInv
<1>2. \A u \in Threads : thread'[u].chain # k
  BY <1>1, ExecutorsAssumption DEF Finish, Leaves, Types
<1>3. Len(stack'[k]) = 0
  BY <1>1 DEF Finish, Types
<1>4. Linked(k)'
  BY <1>3 DEF Linked
<1>5. Sent(k)'
  BY <1>1 DEF Finish, Sent, NoHandler
<1>6. QED
  BY <1>1, <1>2, <1>4, <1>5, Gone DEF Placed

(* The frame that is resumed is the one the handler was sent for.          *)
LEMMA ResumePlaces ==
  ASSUME IInv, NEW t \in Threads, NEW k \in Queued, Placed(k),
         NEW strand \in AnyStrand \cup {NoExec},
         Resume(t, k, strand), handler'[k] = NoHandler, phase[k] = "live",
         \A u \in Threads \ {t} : thread[u].chain # k,
         GetExecutor(Receiver(k)) # NoExec =>
           /\ ThreadOf[t] = ContextOf(GetExecutor(Receiver(k)))
           /\ GetExecutor(Receiver(k)) \in AnyStrand => strand = GetExecutor(Receiver(k)),
         strand \in {NoExec, GetExecutor(Receiver(k))}
  PROVE  Placed(k)'
<1>1. k \in Chains /\ Types /\ Stacked(k)
  BY DEF Queued, IInv
<1>2. /\ stack'[k] = Resumed(k) /\ ~ending'[k]
      /\ thread'[t] = [chain |-> k, pc |-> "running", strand |-> strand]
      /\ \A u \in Threads \ {t} : thread'[u] = thread[u]
  BY <1>1 DEF Resume, Types
<1>3. Linked(k)' /\ Top(k)' = Receiver(k)
  <2>1. CASE ending[k]
    BY <1>1, <1>2, <2>1, PopsLinked DEF Placed, Resumed, Stacked, Receiver
  <2>2. CASE ~ending[k]
    BY <1>2, <2>2 DEF Placed, Linked, Resumed, Receiver, Top
  <2>3. QED
    BY <2>1, <2>2
<1>4. Sent(k)'
  BY DEF Sent, NoHandler
<1>5. Resident(k)'
  BY <1>2, <1>3 DEF Resident, IsIn
<1>6. QED
  BY <1>3, <1>4, <1>5 DEF Placed

(* The awaiter goes on where it was, or leaves the chain to the handler.   *)
LEMMA ExchangePlaces ==
  ASSUME IInv, NEW t \in Threads, NEW k \in Queued, Placed(k), Exchange(t, k)
  PROVE  Placed(k)'
<1>1. /\ k \in Chains /\ Types /\ thread[t].chain = k
      /\ phase[k] = "live" /\ \A u \in Threads \ {t} : thread[u].chain # k
  BY Alone DEF Queued, Exchange, IInv
<1>2. /\ ~ending[k] /\ Receiver(k) = Top(k)
      /\ GetExecutor(Top(k)) # NoExec => IsIn(t, GetExecutor(Top(k)))
      /\ thread[t].strand \in {NoExec, GetExecutor(Top(k))}
  BY <1>1 DEF Placed, Resident, Receiver
<1>3. CASE state[k] = "completed"
  <2>1. Resume(t, k, thread[t].strand) /\ UNCHANGED handler
    BY <1>3 DEF Exchange, AwaiterResumes
  <2>2. handler[k] = NoHandler
    BY <1>1, <1>3 DEF Exchange, IInv, Controlled
  <2>3. thread[t].strand \in AnyStrand \cup {NoExec}
    BY <1>1 DEF Types, Site
  <2>4. QED
    BY <1>1, <1>2, <2>1, <2>2, <2>3, ResumePlaces DEF IsIn
<1>4. CASE state[k] # "completed"
  <2>1. Leaves(t) /\ UNCHANGED <<stack, ending, handler>>
    BY <1>4 DEF Exchange, AwaiterResumes
  <2>2. \A u \in Threads : thread'[u].chain # k
    BY <1>1, <2>1, ExecutorsAssumption DEF Leaves, Types
  <2>3. Top(k)' = Top(k) /\ Receiver(k)' = Receiver(k)
    BY <2>1 DEF Top, Receiver
  <2>4. Linked(k)' /\ Sent(k)'
    BY <2>1, <2>3 DEF Placed, Linked, Sent
  <2>5. QED
    BY <1>1, <2>2, <2>4, Gone DEF Placed
<1>5. QED
  BY <1>3, <1>4

(* A handler runs where it was sent.                                       *)
LEMMA TakePlaces ==
  ASSUME IInv, NEW t \in Threads, NEW k \in Queued, Placed(k), Take(t, k)
  PROVE  Placed(k)'
<1> DEFINE e == handler[k].on
           strand == IF e \in AnyStrand THEN e ELSE NoExec
           home == GetExecutor(Receiver(k))
<1>1. /\ k \in Chains /\ Types /\ thread[t] = Idle /\ handler[k].kind # "none"
      /\ ThreadOf[t] = ContextOf(e) /\ handler'[k] = NoHandler
  BY DEF Queued, Take, IInv, Types
<1>2. phase[k] = "live" /\ thread[t].chain = NoChain
  BY <1>1 DEF NoHandler, Idle, IInv, Controlled
<1>3. IF home = NoExec THEN e \in Contexts ELSE e = home
  BY <1>1 DEF Placed, Sent
<1>4. strand \in AnyStrand \cup {NoExec}
  OBVIOUS
<1>5. /\ home # NoExec => ThreadOf[t] = ContextOf(home)
                          /\ (home \in AnyStrand => strand = home)
      /\ strand \in {NoExec, home}
  BY <1>1, <1>3, ExecutorsAssumption
<1>6. CASE \E u \in Threads : thread[u].chain = k
  <2>1. PICK u \in Threads : thread[u].chain = k
    BY <1>6
  <2>2. handler[k].kind = "rendezvous" /\ state[k] # "awaiting"
    BY <1>1, <1>2, <2>1, ExecutorsAssumption
    DEF IInv, Controlled, Working, Running, NoHandler
  <2>3. /\ thread' = [thread EXCEPT ![t] =
             [chain |-> NoChain, pc |-> "leaving", strand |-> strand]]
        /\ UNCHANGED <<stack, ending>>
    BY <2>2, <1>1 DEF Take, HandlerResumes
  <2>4. \A v \in Threads : thread'[v].chain = k => thread'[v] = thread[v]
    BY <1>1, <2>3, ExecutorsAssumption DEF Types
  <2>5. Top(k)' = Top(k)
    BY <2>3 DEF Top
  <2>6. Linked(k)' /\ Sent(k)'
    BY <1>1, <2>3 DEF Placed, Linked, Sent, NoHandler
  <2>7. Resident(k)'
    BY <2>3, <2>4, <2>5 DEF Placed, Resident, IsIn
  <2>8. QED
    BY <2>6, <2>7 DEF Placed
<1>7. CASE \A u \in Threads : thread[u].chain # k
  <2>1. \/ handler[k].kind = "resume"
        \/ handler[k].kind = "rendezvous" /\ state[k] = "awaiting"
    BY <1>1, <1>2, <1>7 DEF IInv, Controlled
  <2>2. Resume(t, k, strand)
    BY <2>1 DEF Take, HandlerResumes
  <2>3. QED
    BY <1>1, <1>2, <1>4, <1>5, <1>7, <2>2, ResumePlaces
<1>8. QED
  BY <1>6, <1>7

(* Every step leaves the queued chains where they belong.                  *)
LEMMA StepPlaces == IInv /\ AtHome /\ [Next]_vars => AtHome'
<1> SUFFICES ASSUME IInv, AtHome, [Next]_vars PROVE AtHome'
  OBVIOUS
<1>1. CASE UNCHANGED vars
  BY <1>1 DEF vars, AtHome, Queued, Placed, Linked, Sent, Resident, Receiver, Top, IsIn
<1>2. ASSUME NEW t \in Threads, Leave(t) PROVE AtHome'
  <2>1. thread[t].chain = NoChain /\ thread'[t].chain = NoChain
    BY <1>2 DEF Leave, Idle, IInv, Types, Working
  <2>2. \A u \in Threads \ {t} : thread'[u] = thread[u]
    BY <1>2 DEF Leave, IInv, Types
  <2>3. ASSUME NEW k \in Queued PROVE Placed(k)'
    <3>1. k # NoChain /\ Placed(k)
      BY ExecutorsAssumption DEF Queued, AtHome
    <3>2. QED
      BY <1>2, <2>1, <2>2, <3>1, StaysPlaced DEF Leave, Queued
  <2>4. QED
    BY <2>3 DEF AtHome
<1>3. ASSUME NEW t \in Threads, NEW k \in Chains,
             \/ Start(t, k)
             \/ \E e \in Executors : Post(t, k, e) \/ Defer(t, k, e) \/ DispatchTo(t, k, e)
             \/ \E c \in Contexts : AsyncWait(t, k, c)
             \/ Sleep(t, k) \/ Call(t, k) \/ Final(t, k) \/ Finish(t, k)
             \/ Exchange(t, k) \/ Take(t, k)
      PROVE  AtHome'
  <2>1. OnlyAt(t, k)
    BY <1>3, StepIsLocal
  <2>2. CASE k \in Queued
    <3>1. Placed(k)
      BY <2>2 DEF AtHome
    <3>2. ~\E e \in Executors : DispatchTo(t, k, e)
      BY <2>2 DEF Queued, DispatchTo
    <3>3. Placed(k)'
      BY <1>3, <2>2, <3>1, <3>2, StartPlaces, QueuedHopPlaces, AsyncWaitPlaces,
         SleepPlaces, CallPlaces, FinalPlaces, FinishPlaces, ExchangePlaces, TakePlaces
      DEF Post, Defer
    <3>4. QED
      BY <2>1, <3>3, OthersPlaced DEF AtHome
  <2>3. CASE k \notin Queued
    BY <2>1, <2>3, OthersPlaced DEF AtHome
  <2>4. QED
    BY <2>2, <2>3
<1>4. QED
  BY <1>1, <1>2, <1>3 DEF Next

LEMMA HomeInit == Init => AtHome
<1> SUFFICES ASSUME Init, NEW k \in Queued PROVE Placed(k)
  BY DEF AtHome
<1>1. Linked(k) /\ Sent(k)
  BY DEF Init, Queued, Linked, Sent, NoHandler
<1>2. Resident(k)
  BY ExecutorsAssumption DEF Init, Queued, Resident, Idle
<1>3. QED
  BY <1>1, <1>2 DEF Placed

(* A chain that keeps to post, defer and sleep, and whose promises move to *)
(* strands only, runs on its executors, whatever the other chains do.      *)
THEOREM OnItsExecutor == Spec => []QueuedOnTheirExecutor
<1>1. AtHome => QueuedOnTheirExecutor
  BY DEF AtHome, Placed, Resident, QueuedOnTheirExecutor, RunsThere, Running
<1>2. QED
  BY <1>1, HomeInit, StepPlaces, Inductive, PTL DEF Spec

(* And it leaves the strand of a callee before the caller goes on.         *)
THEOREM LeavesItsStrands == Spec => []QueuedLeaveStrands
<1>1. AtHome => QueuedLeaveStrands
  BY DEF AtHome, Placed, Resident, QueuedLeaveStrands, RunsInNoOtherStrand, Running
<1>2. QED
  BY <1>1, HomeInit, StepPlaces, Inductive, PTL DEF Spec
-----------------------------------------------------------------------------
(* The refinement of Calling. *)

On(k) == {t \in Threads : Running(t, k)}

\* A step of thread t at chain k, of which no other thread knows.
Steps(t, k) == OnlyAt(t, k) /\ \A u \in Threads \ {t} : thread[u].chain # k

(* Such a step shows at its chain and at its thread only.                  *)
LEMMA Shows ==
  ASSUME NEW t \in Threads, NEW k \in Chains, Steps(t, k)
  PROVE  /\ On(k) = IF Running(t, k) THEN {t} ELSE {}
         /\ On(k)' = IF Running(t, k)' THEN {t} ELSE {}
         /\ \A j \in Chains \ {k} :
              On(j)' = On(j) /\ NotEnded(j)' = NotEnded(j) /\ phase'[j] = phase[j]
<1>1. On(k) = IF Running(t, k) THEN {t} ELSE {}
  BY DEF Steps, On, Running
<1>2. On(k)' = IF Running(t, k)' THEN {t} ELSE {}
  BY DEF Steps, OnlyAt, On, Running
<1>3. ASSUME NEW j \in Chains \ {k}
      PROVE  On(j)' = On(j) /\ NotEnded(j)' = NotEnded(j) /\ phase'[j] = phase[j]
  <2>1. \A u \in Threads : Running(u, j)' <=> Running(u, j)
    BY ExecutorsAssumption DEF Steps, OnlyAt, Running
  <2>2. QED
    BY <2>1 DEF Steps, OnlyAt, On, NotEnded
<1>4. QED
  BY <1>1, <1>2, <1>3

(* What it looks like in the variables of Calling.                         *)
LEMMA ShownAs ==
  ASSUME NEW t \in Threads, NEW k \in Chains, Steps(t, k)
  PROVE  /\ [j \in Chains |-> On(j)]' =
              [[j \in Chains |-> On(j)] EXCEPT ![k] = IF Running(t, k)' THEN {t} ELSE {}]
         /\ [j \in Chains |-> NotEnded(j)]' =
              [[j \in Chains |-> NotEnded(j)] EXCEPT ![k] = NotEnded(k)']
         /\ phase'[k] = phase[k] => UNCHANGED {j \in Chains : phase[j] # "new"}
BY Shows

(* A step that leaves its coroutine on its thread, or off it.              *)
LEMMA StaysCalled ==
  ASSUME NEW t \in Threads, NEW k \in Chains, Steps(t, k), phase'[k] = phase[k],
         NotEnded(k)' = NotEnded(k), Running(t, k)' <=> Running(t, k)
  PROVE  UNCHANGED <<{j \in Chains : phase[j] # "new"},
                     [j \in Chains |-> NotEnded(j)], [j \in Chains |-> On(j)]>>
BY Shows, ShownAs

(* The thread of a chain is known to Calling, and is free when it runs none. *)
LEMMA FreeToRun ==
  ASSUME NEW t \in Threads, thread[t].pc # "running"
  PROVE  Calls!Free(t)
BY DEF Calls!Free, Running

LEMMA CallShows ==
  ASSUME NEW t \in Threads, NEW k \in Chains, Steps(t, k), phase'[k] = phase[k],
         Running(t, k), Running(t, k)', NotEnded(k)' = NotEnded(k) + 1
  PROVE  Calls!Next
<1>1. \A j \in Chains : On(j)' = On(j)
  BY Shows
<1>2. Calls!Call(k)
  BY <1>1, Shows, ShownAs DEF Calls!Call, On
<1>3. QED
  BY <1>2 DEF Calls!Next

LEMMA ReturnShows ==
  ASSUME NEW t \in Threads, NEW k \in Chains, Steps(t, k), phase'[k] = phase[k],
         Running(t, k), NotEnded(k) > 1, NotEnded(k)' = NotEnded(k) - 1
  PROVE  Calls!Next
<1>1. CASE Running(t, k)'
  <2>1. \A j \in Chains : On(j)' = On(j)
    BY <1>1, Shows
  <2>2. QED
    BY <2>1, Shows, ShownAs DEF Calls!Return, Calls!Next, On
<1>2. CASE ~Running(t, k)'
  BY <1>2, Shows, ShownAs DEF Calls!Return, Calls!Next, On
<1>3. QED
  BY <1>1, <1>2

LEMMA SuspendShows ==
  ASSUME NEW t \in Threads, NEW k \in Chains, Steps(t, k), phase'[k] = phase[k],
         Running(t, k), ~Running(t, k)', NotEnded(k)' = NotEnded(k)
  PROVE  Calls!Next
<1>1. Calls!Suspend(k)
  BY Shows, ShownAs DEF Calls!Suspend, On
<1>2. QED
  BY <1>1 DEF Calls!Next

LEMMA ResumeShows ==
  ASSUME NEW t \in Threads, NEW k \in Chains, Steps(t, k), phase'[k] = phase[k],
         thread[t].pc # "running", Running(t, k)',
         NotEnded(k) > 0, NotEnded(k)' = NotEnded(k)
  PROVE  Calls!Next
<1>1. ~Running(t, k)
  BY DEF Running
<1>2. Calls!Resume(k, t)
  BY <1>1, Shows, ShownAs, FreeToRun DEF Calls!Resume, On
<1>3. QED
  BY <1>2 DEF Calls!Next
-----------------------------------------------------------------------------
(* Each move of a chain in terms of Calling. *)

(* A coroutine that runs, and is about to leave its thread.                *)
LEMMA Runner ==
  ASSUME IInv, NEW t \in Threads, NEW k \in Chains, Running(t, k)
  PROVE  /\ Types /\ phase[k] = "live" /\ handler[k] = NoHandler /\ ~ending[k]
         /\ Len(stack[k]) \in Nat \ {0} /\ NotEnded(k) = Len(stack[k])
         /\ \A u \in Threads \ {t} : thread[u].chain # k
<1>1. /\ Types /\ phase[k] = "live" /\ handler[k] = NoHandler /\ ~ending[k]
      /\ Len(stack[k]) \in Nat \ {0} /\ \A u \in Threads \ {t} : thread[u].chain # k
  BY Alone DEF Running, IInv
<1>2. QED
  BY <1>1 DEF NotEnded

LEMMA StartBegins ==
  ASSUME IInv, NEW t \in Threads, NEW k \in Chains, Start(t, k)
  PROVE  Calls!Next
<1>0. \A u \in Threads \ {t} : thread[u].chain # k
  BY DEF Start, IInv, Controlled
<1>1. Steps(t, k) /\ Running(t, k)' /\ thread[t].pc # "running"
  BY <1>0, ExecutorsAssumption DEF Start, Steps, OnlyAt, Running, Idle, IInv, Types
<1>2. NotEnded(k)' = 1
  <2>1. ~ending[k] /\ ending' = ending
    BY DEF Start, IInv, Stacked
  <2>2. stack'[k] = <<NewFrame(NoExec)>> /\ Len(stack'[k]) = 1
    BY DEF Start, IInv, Types
  <2>3. QED
    BY <2>1, <2>2 DEF NotEnded
<1>3. phase[k] = "new" /\ phase' = [phase EXCEPT ![k] = "live"]
  BY DEF Start
<1>4. {j \in Chains : phase[j] # "new"}' = {j \in Chains : phase[j] # "new"} \cup {k}
  BY <1>3 DEF IInv, Types
<1>5. Calls!Begin(k, t)
  BY <1>1, <1>2, <1>3, <1>4, ShownAs, FreeToRun DEF Calls!Begin, On
<1>6. QED
  BY <1>5 DEF Calls!Next

LEMMA QueueSuspends ==
  ASSUME IInv, NEW t \in Threads, NEW k \in Chains, NEW e \in Executors,
         QueuedHop(t, k, e)
  PROVE  Calls!Next
<1>1. Running(t, k)
  BY DEF QueuedHop
<1>2. /\ Len(stack'[k]) = Len(stack[k]) /\ \A j \in Chains \ {k} : stack'[j] = stack[j]
      /\ UNCHANGED <<phase, ending>>
  <2>1. Types /\ Len(stack[k]) > 0
    BY <1>1, Runner
  <2>2. QED
    BY <2>1, SetsTop, TopChanged DEF QueuedHop
<1>3. Steps(t, k) /\ ~Running(t, k)'
  BY <1>1, <1>2, Runner, ExecutorsAssumption
  DEF QueuedHop, Queue, Leaves, Running, Steps, OnlyAt, Types
<1>4. NotEnded(k)' = NotEnded(k)
  BY <1>2 DEF NotEnded
<1>5. QED
  BY <1>1, <1>2, <1>3, <1>4, SuspendShows

(* A wait for a dispatch or an operation, which Dispatched describes.      *)
LEMMA WaitSuspends ==
  ASSUME IInv, NEW t \in Threads, NEW k \in Chains, Running(t, k), Dispatched(t, k),
         UNCHANGED <<phase, ending>>, Len(stack'[k]) = Len(stack[k]),
         \A j \in Chains \ {k} : stack'[j] = stack[j]
  PROVE  Calls!Next
<1>1. Steps(t, k) /\ ~Running(t, k)'
  BY Runner DEF Dispatched, Running, Steps, OnlyAt, Types
<1>2. NotEnded(k)' = NotEnded(k)
  BY DEF NotEnded
<1>3. QED
  BY <1>1, <1>2, SuspendShows

LEMMA DispatchSuspends ==
  ASSUME IInv, NEW t \in Threads, NEW k \in Chains, NEW e \in Executors,
         DispatchTo(t, k, e)
  PROVE  Calls!Next
<1>1. Running(t, k) /\ UNCHANGED <<phase, ending>>
  BY DEF DispatchTo
<1>2. Len(stack'[k]) = Len(stack[k]) /\ \A j \in Chains \ {k} : stack'[j] = stack[j]
  <2>1. Types /\ Len(stack[k]) > 0
    BY <1>1, Runner
  <2>2. QED
    BY <2>1, SetsTop, TopChanged DEF DispatchTo
<1>3. Dispatched(t, k)
  BY <1>1, DispatchLeaves DEF DispatchTo
<1>4. QED
  BY <1>1, <1>2, <1>3, WaitSuspends

LEMMA AsyncWaitSuspends ==
  ASSUME IInv, NEW t \in Threads, NEW k \in Chains, NEW c \in Contexts,
         AsyncWait(t, k, c)
  PROVE  Calls!Next
<1>1. Running(t, k) /\ UNCHANGED <<phase, stack, ending>>
  BY DEF AsyncWait
<1>2. Types /\ GetExecutor(Top(k)) \in Executors \cup {NoExec}
  BY <1>1, Runner, TopOf
<1>3. Dispatched(t, k)
  BY <1>1, <1>2 DEF AsyncWait, Dispatched, Types, Handler, Executors
<1>4. QED
  BY <1>1, <1>3, WaitSuspends

LEMMA SleepSuspends ==
  ASSUME IInv, NEW t \in Threads, NEW k \in Chains, Sleep(t, k)
  PROVE  Calls!Next
<1> DEFINE f == Top(k)
           timer == IF f.timer = NoExec THEN GetExecutor(f) ELSE f.timer
<1>1. Running(t, k) /\ UNCHANGED <<phase, ending>>
  BY DEF Sleep
<1>2. /\ Types /\ Len(stack[k]) > 0 /\ f \in Frame /\ f = stack[k][Len(stack[k])]
      /\ GetExecutor(f) \in Executors \cup {NoExec}
  BY <1>1, Runner, TopOf
<1>3. [f EXCEPT !.timer = timer] \in Frame
  BY <1>2 DEF Frame
<1>4. stack' = [stack EXCEPT ![k] = [stack[k] EXCEPT ![Len(stack[k])] =
                                       [f EXCEPT !.timer = timer]]]
  BY <1>2 DEF Sleep
<1>5. Len(stack'[k]) = Len(stack[k]) /\ \A j \in Chains \ {k} : stack'[j] = stack[j]
  BY <1>2, <1>3, <1>4, TopChanged
<1>6. Dispatched(t, k)
  BY <1>1, <1>2 DEF Sleep, WhereSleepEnds, Dispatched, Types, Handler
<1>7. QED
  BY <1>1, <1>5, <1>6, WaitSuspends

LEMMA CallCalls ==
  ASSUME IInv, NEW t \in Threads, NEW k \in Chains, Call(t, k)
  PROVE  Calls!Next
<1>1. /\ Running(t, k) /\ Types /\ Len(stack[k]) > 0
      /\ UNCHANGED <<phase, ending, handler, state, thread>>
  BY Runner DEF Call
<1>2. NewFrame(CallerSeenAs(Top(k))) \in Frame
  BY <1>1, TopOf DEF NewFrame, CallerSeenAs, Frame
<1>3. Len(stack'[k]) = Len(stack[k]) + 1
  BY <1>1, <1>2, AppendProperties DEF Call, Types
<1>4. Steps(t, k) /\ Running(t, k)'
  BY <1>1, Runner DEF Call, Running, Steps, OnlyAt, Types
<1>5. NotEnded(k)' = NotEnded(k) + 1
  BY <1>1, <1>3, Runner DEF NotEnded
<1>6. QED
  BY <1>1, <1>4, <1>5, CallShows

(* A promise ends: its caller has one coroutine less before it at once,    *)
(* although the frame stays until the caller goes on.                      *)
LEMMA FinalReturns ==
  ASSUME IInv, NEW t \in Threads, NEW k \in Chains, Final(t, k)
  PROVE  Calls!Next
<1>1. /\ Running(t, k) /\ Types /\ ~ending[k] /\ Len(stack[k]) \in Nat
      /\ NotEnded(k) = Len(stack[k]) /\ NotEnded(k) > 1 /\ UNCHANGED phase
      /\ \A u \in Threads \ {t} : thread[u].chain # k
  BY Runner DEF Final
<1>2. Top(k) \in Frame
  BY <1>1, TopOf
<1> DEFINE Ends == ending' = [ending EXCEPT ![k] = TRUE] /\ UNCHANGED stack
<1>3. Ends => NotEnded(k)' = NotEnded(k) - 1
  BY <1>1 DEF NotEnded, Types
<1>4. ASSUME Ends, Steps(t, k) PROVE Calls!Next
  BY <1>1, <1>3, <1>4, ReturnShows
<1>5. ASSUME NEW e \in Executors, Queue(t, k, e), Ends PROVE Steps(t, k)
  BY <1>1, <1>5, ExecutorsAssumption
  DEF Queue, Leaves, Running, Steps, OnlyAt, Types
<1>6. ASSUME NEW e \in Executors, Dispatch(t, k, e), Ends PROVE Steps(t, k)
  <2>1. Dispatched(t, k)
    BY <1>1, <1>6, DispatchLeaves
  <2>2. QED
    BY <1>1, <1>6, <2>1 DEF Dispatched, Running, Steps, OnlyAt, Types
<1>7. CASE WayBack(Top(k)) \in {"dispatch", "defer"}
  <2>1. Top(k).callerExecutor \in Executors
    BY <1>2, <1>7 DEF WayBack, Frame
  <2>2. QED
    BY <1>4, <1>5, <1>6, <1>7, <2>1 DEF Final
<1>8. CASE WayBack(Top(k)) = "leave"
  <2>1. InnerExecutor(Top(k)) \in Executors
    BY <1>2, <1>8, ExecutorsAssumption
    DEF WayBack, Frame, InnerExecutor, Executors, AnyStrand
  <2>2. QED
    BY <1>4, <1>5, <1>8, <2>1 DEF Final
<1>9. CASE WayBack(Top(k)) = "inline"
  <2>1. ReturnsInline(k)
    BY <1>9 DEF Final, ReturnsInline
  <2>2. Len(Front(stack[k])) = Len(stack[k]) - 1
    BY <1>1, FrontOf DEF Types
  <2>3. NotEnded(k)' = NotEnded(k) - 1
    BY <1>1, <2>1, <2>2 DEF ReturnsInline, NotEnded, Types
  <2>4. Steps(t, k)
    BY <1>1, <2>1, Runner DEF ReturnsInline, Running, Steps, OnlyAt, Types
  <2>5. QED
    BY <1>1, <2>3, <2>4, ReturnShows
<1>10. QED
  BY <1>7, <1>8, <1>9 DEF WayBack

LEMMA FinishFinishes ==
  ASSUME IInv, NEW t \in Threads, NEW k \in Chains, Finish(t, k)
  PROVE  Calls!Next
<1>1. /\ Running(t, k) /\ Types /\ phase[k] = "live" /\ ~ending[k] /\ NotEnded(k) = 1
      /\ \A u \in Threads \ {t} : thread[u].chain # k
  BY Runner DEF Finish
<1>2. Steps(t, k) /\ ~Running(t, k)'
  BY <1>1, ExecutorsAssumption
  DEF Finish, Leaves, Running, Steps, OnlyAt, Types
<1>3. NotEnded(k)' = 0
  BY <1>1 DEF Finish, NotEnded, Types
<1>4. UNCHANGED {j \in Chains : phase[j] # "new"}
  BY <1>1 DEF Finish, Types
<1>5. Calls!Finish(k)
  BY <1>1, <1>2, <1>3, <1>4, Shows, ShownAs DEF Calls!Finish, On
<1>6. QED
  BY <1>5 DEF Calls!Next

(* Whoever resumes a chain finds it waiting: the callee that was popped    *)
(* had ended.                                                              *)
LEMMA ResumeResumes ==
  ASSUME IInv, NEW t \in Threads, NEW k \in Chains,
         NEW strand \in AnyStrand \cup {NoExec},
         Resume(t, k, strand), UNCHANGED phase, phase[k] = "live",
         thread[t].chain \in {k, NoChain}, thread[t].pc # "running",
         \A u \in Threads \ {t} : thread[u].chain # k,
         \A j \in Chains \ {k} : handler'[j] = handler[j] /\ state'[j] = state[j]
  PROVE  Calls!Next
<1>1. Types /\ Stacked(k) /\ stack[k] \in Seq(Frame) /\ Len(stack[k]) \in Nat \ {0}
  BY DEF IInv, Types, Stacked
<1>2. Len(Front(stack[k])) = Len(stack[k]) - 1
  BY <1>1, FrontOf
<1>3. NotEnded(k)' = NotEnded(k) /\ NotEnded(k) > 0
  <2>1. stack'[k] = Resumed(k) /\ ~ending'[k]
    BY <1>1 DEF Resume, Types
  <2>2. CASE ending[k]
    BY <1>1, <1>2, <2>1, <2>2 DEF Resumed, NotEnded, Stacked
  <2>3. CASE ~ending[k]
    BY <1>1, <2>1, <2>3 DEF Resumed, NotEnded
  <2>4. QED
    BY <2>2, <2>3
<1>4. Steps(t, k) /\ Running(t, k)'
  BY <1>1, ExecutorsAssumption DEF Resume, Steps, OnlyAt, Running, Types
<1>5. QED
  BY <1>3, <1>4, ResumeShows

\* The variables of Calling, as Frames maps them.
Seen == <<{k \in Chains : phase[k] # "new"}, [k \in Chains |-> NotEnded(k)],
          [k \in Chains |-> On(k)]>>

LEMMA ExchangeShows ==
  ASSUME IInv, NEW t \in Threads, NEW k \in Chains, Exchange(t, k)
  PROVE  Calls!Next \/ UNCHANGED Seen
<1>1. /\ Types /\ phase[k] = "live" /\ thread[t].chain = k /\ thread[t].pc = "awaiting"
      /\ \A u \in Threads \ {t} : thread[u].chain # k
      /\ \A j \in Chains \ {k} : state'[j] = state[j]
      /\ UNCHANGED <<phase, handler>>
  BY Alone DEF Exchange, IInv, Types
<1>2. CASE state[k] = "completed"
  <2>1. Resume(t, k, thread[t].strand)
    BY <1>2 DEF Exchange, AwaiterResumes
  <2>2. thread[t].strand \in AnyStrand \cup {NoExec}
    BY <1>1 DEF Types, Site
  <2>3. QED
    BY <1>1, <2>1, <2>2, ResumeResumes
<1>3. CASE state[k] # "completed"
  <2>1. Leaves(t) /\ UNCHANGED <<stack, ending>>
    BY <1>3 DEF Exchange, AwaiterResumes
  <2>2. Steps(t, k) /\ ~Running(t, k) /\ ~Running(t, k)'
    BY <1>1, <2>1, ExecutorsAssumption DEF Leaves, Steps, OnlyAt, Running, Types
  <2>3. QED
    BY <1>1, <2>1, <2>2, StaysCalled DEF NotEnded, Seen
<1>4. QED
  BY <1>2, <1>3

LEMMA TakeShows ==
  ASSUME IInv, NEW t \in Threads, NEW k \in Chains, Take(t, k)
  PROVE  Calls!Next \/ UNCHANGED Seen
<1> DEFINE e == handler[k].on
           strand == IF e \in AnyStrand THEN e ELSE NoExec
<1>1. /\ Types /\ thread[t] = Idle /\ handler[k].kind # "none" /\ UNCHANGED phase
      /\ thread[t].chain = NoChain /\ thread[t].pc = "idle"
      /\ phase[k] = "live" /\ strand \in AnyStrand \cup {NoExec}
      /\ \A j \in Chains \ {k} : handler'[j] = handler[j] /\ state'[j] = state[j]
  BY DEF Take, Idle, IInv, Types, Controlled, NoHandler
<1>2. CASE Resume(t, k, strand)
  <2>1. \/ handler[k].kind = "resume"
        \/ handler[k].kind = "rendezvous" /\ state[k] = "awaiting"
    BY <1>1, <1>2, ExecutorsAssumption DEF Take, Resume, HandlerResumes, Types
  <2>2. \A u \in Threads : thread[u].chain # k
    BY <1>1, <2>1, ExecutorsAssumption DEF IInv, Controlled, Working, Running, NoHandler
  <2>3. QED
    BY <1>1, <1>2, <2>2, ResumeResumes
<1>3. CASE ~Resume(t, k, strand)
  <2>1. /\ UNCHANGED <<phase, stack, ending>>
        /\ thread' = [thread EXCEPT ![t] =
             [chain |-> NoChain, pc |-> "leaving", strand |-> strand]]
    BY <1>1, <1>3 DEF Take
  <2>2. \A u \in Threads, j \in Chains : Running(u, j)' <=> Running(u, j)
    BY <1>1, <2>1, ExecutorsAssumption DEF Running, Types
  <2>3. QED
    BY <2>1, <2>2 DEF Seen, On, NotEnded
<1>4. QED
  BY <1>2, <1>3

LEMMA LeaveUnseen ==
  ASSUME IInv, NEW t \in Threads, Leave(t)
  PROVE  UNCHANGED Seen
<1>1. \A u \in Threads, j \in Chains : Running(u, j)' <=> Running(u, j)
  BY ExecutorsAssumption DEF Leave, Idle, Running, IInv, Types
<1>2. QED
  BY <1>1 DEF Leave, Seen, On, NotEnded

LEMMA InitCalls == Init => Calls!Init
BY DEF Init, Calls!Init, NotEnded, Running, Idle

(* Every step is one of Calling, or cannot be seen in it.                  *)
LEMMA StepCalls == IInv /\ [Next]_vars => [Calls!Next]_Seen
<1> SUFFICES ASSUME IInv, [Next]_vars PROVE Calls!Next \/ UNCHANGED Seen
  OBVIOUS
<1>1. CASE UNCHANGED vars
  BY <1>1 DEF vars, Seen, On, Running, NotEnded
<1>2. ASSUME NEW t \in Threads, Leave(t) PROVE UNCHANGED Seen
  BY <1>2, LeaveUnseen
<1>3. ASSUME NEW t \in Threads, NEW k \in Chains,
             \/ Start(t, k)
             \/ \E e \in Executors : Post(t, k, e) \/ Defer(t, k, e) \/ DispatchTo(t, k, e)
             \/ \E c \in Contexts : AsyncWait(t, k, c)
             \/ Sleep(t, k) \/ Call(t, k) \/ Final(t, k) \/ Finish(t, k)
      PROVE  Calls!Next
  BY <1>3, StartBegins, QueueSuspends, DispatchSuspends, AsyncWaitSuspends,
     SleepSuspends, CallCalls, FinalReturns, FinishFinishes
  DEF Post, Defer
<1>4. ASSUME NEW t \in Threads, NEW k \in Chains, Exchange(t, k) \/ Take(t, k)
      PROVE  Calls!Next \/ UNCHANGED Seen
  BY <1>4, ExchangeShows, TakeShows
<1>5. QED
  BY <1>1, <1>2, <1>3, <1>4 DEF Next

(* However the chains move, hop, dispatch and sleep, they implement        *)
(* Calling: a caller goes on once, and only after its callee has ended.    *)
THEOREM Implements == Spec => KeepsCalls
<1>1. QED
  BY InitCalls, Inductive, StepCalls, PTL
  DEF Spec, KeepsCalls, Calls!Spec, Seen, On
=============================================================================
