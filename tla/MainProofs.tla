----------------------------- MODULE MainProofs -----------------------------
(***************************************************************************)
(* Safety of the bootstrap, for any number of threads and pieces of work:  *)
(* the exit code is that of co_main and, as long as co_main co_returns on  *)
(* a thread of detail::main's own context, its frame is destroyed at rest. *)
(***************************************************************************)
EXTENDS Main, TLAPS

Inside == {"running", "returning"}

\* A thread is in the place of co_main exactly while it runs it.
CoroPlace == coro.on = NoThread <=> coro.at \notin Inside

\* The work guard outlives every suspension of co_main, and the context is
\* never stopped before co_main returned.
Guarded ==
  /\ main = "start" <=> coro.at = "new"
  /\ code <=> coro.at \in {"returning", "final"}
  /\ main # "start" => (guard <=> coro.at # "final")
  /\ stopped => code
  /\ main \in {"joining", "grace", "skipped", "returned"} => code

\* Who can be inside co_main.
Hosted ==
  /\ coro.on = MainThread => main \in {"resuming", "running"}
  /\ coro.on \in Workers => worker[coro.on] = "running"
  /\ coro.at = "returning" => coro.on \notin Foreign

\* When the threads of detail::main run.
StartedLate ==
  main \in {"start", "resuming", "deciding", "skipped"}
    => \A w \in Workers : worker[w] = "none"
EndedEarly ==
  main \in {"grace", "returned"} => \A w \in Workers : worker[w] # "running"

AtRest == main \in {"grace", "skipped", "returned"} => coro = Off("final")

(* The part that needs no assumption on where co_main returns. *)
CodeInv == TypeOK /\ CoroPlace /\ Guarded /\ StartedLate

(* All of it. *)
IInv == CodeInv /\ Hosted /\ EndedEarly /\ AtRest

(* The types are preserved, and the guard holds as long as co_main has not *)
(* returned (main.hpp, work_).                                             *)
LEMMA CodeInit == Init => CodeInv
<1> SUFFICES ASSUME Init PROVE CodeInv
  OBVIOUS
<1> USE DEF Init, Place, Off
<1>1. TypeOK
  BY DEF TypeOK
<1>2. CoroPlace /\ Guarded /\ StartedLate
  BY DEF CoroPlace, Guarded, StartedLate, Inside
<1>3. QED
  BY <1>1, <1>2 DEF CodeInv

(* Every step keeps the guard while co_main has not returned.              *)
LEMMA CodeStep == CodeInv /\ [Next]_vars => CodeInv'
<1> SUFFICES ASSUME CodeInv, [Next]_vars PROVE CodeInv'
  OBVIOUS
<1> USE ThreadsAssumption
    DEF CodeInv, TypeOK, CoroPlace, Guarded, StartedLate, Place, Off, On, Inside, Threads
<1>1. CASE Resume
  BY <1>1 DEF Resume, GuardTaken
<1>2. CASE Resumed
  BY <1>2 DEF Resumed
<1>3. CASE Skip
  BY <1>3 DEF Skip
<1>4. CASE StartThreads
  BY <1>4 DEF StartThreads
<1>5. CASE MainRunReturns
  BY <1>5 DEF MainRunReturns, RunReturns, InRun
<1>6. CASE Join
  BY <1>6 DEF Join, Restarted
<1>7. CASE TimeoutExpires
  BY <1>7 DEF TimeoutExpires
<1>8. CASE Return
  BY <1>8 DEF Return
<1>9. CASE OutOfWork
  BY <1>9 DEF OutOfWork, OutstandingWork, InRun
<1>10. CASE CoroReady
  BY <1>10 DEF CoroReady
<1>11. ASSUME NEW i \in Works, WorkReady(i) PROVE CodeInv'
  BY <1>11 DEF WorkReady
<1>12. ASSUME NEW t \in Threads, CoroWaits(t) PROVE CodeInv'
  BY <1>12 DEF CoroWaits, CoroRuns
<1>13. ASSUME NEW t \in Threads, CoroGoesAway(t) PROVE CodeInv'
  BY <1>13 DEF CoroGoesAway, CoroRuns
<1>14. ASSUME NEW t \in Threads, TakeCoro(t) PROVE CodeInv'
  BY <1>14 DEF TakeCoro, MayTake, InRun
<1>15. ASSUME NEW t \in Threads, ForeignTakes(t) PROVE CodeInv'
  BY <1>15 DEF ForeignTakes
<1>16. ASSUME NEW t \in Threads, NEW g \in BOOLEAN, CoReturn(t, g) PROVE CodeInv'
  BY <1>16 DEF CoReturn, CoroRuns, StopCalled
<1>17. ASSUME NEW t \in Threads, FinalSuspend(t) PROVE CodeInv'
  BY <1>17 DEF FinalSuspend
<1>18. ASSUME NEW t \in Threads, WorkerReturns(t) PROVE CodeInv'
  BY <1>18 DEF WorkerReturns, RunReturns, InRun
<1>19. ASSUME NEW t \in Threads, NEW i \in Works, TakeWork(t, i) PROVE CodeInv'
  BY <1>19 DEF TakeWork
<1>20. ASSUME NEW t \in Threads, NEW i \in Works, WorkEnds(t, i) PROVE CodeInv'
  BY <1>20 DEF WorkEnds
<1>21. ASSUME NEW t \in Threads, NEW i \in Works, WorkWaits(t, i) PROVE CodeInv'
  BY <1>21 DEF WorkWaits
<1>22. ASSUME NEW t \in Threads, NEW i \in Works, CoroStartsWork(t, i) PROVE CodeInv'
  BY <1>22 DEF CoroStartsWork, CoroRuns
<1>23. CASE UNCHANGED vars
  BY <1>23 DEF vars
<1>24. QED
  BY <1>1, <1>2, <1>3, <1>4, <1>5, <1>6, <1>7, <1>8, <1>9, <1>10, <1>11, <1>12,
     <1>13, <1>14, <1>15, <1>16, <1>17, <1>18, <1>19, <1>20, <1>21, <1>22, <1>23
  DEF Next

(* The exit code of the program is the one co_main returned (main.hpp:151), *)
(* however many threads and whichever context co_main waits for.            *)
THEOREM ExitCode == Spec => []CodeReturned
<1>1. CodeInv => CodeReturned
  BY DEF CodeInv, Guarded, CodeReturned, Ended
<1>2. QED
  BY <1>1, CodeInit, CodeStep, PTL DEF Spec

(* Only the threads of detail::main are inside the coroutine when it       *)
(* returns, and they leave it before they leave io_context::run.           *)
LEMMA HostedStep ==
  ASSUME IInv, [Next]_vars, ~ReturnsAway
  PROVE  (Hosted /\ EndedEarly /\ AtRest)'
<1> USE ThreadsAssumption
    DEF IInv, CodeInv, TypeOK, CoroPlace, Guarded, StartedLate, Hosted, EndedEarly,
        AtRest, Place, Off, On, Inside, Threads
<1> DEFINE Goal == Hosted /\ EndedEarly /\ AtRest
<1>1. CASE Resume
  BY <1>1 DEF Resume
<1>2. CASE Resumed
  BY <1>2 DEF Resumed, Busy
<1>3. CASE Skip
  BY <1>3 DEF Skip
<1>4. CASE StartThreads
  BY <1>4 DEF StartThreads
<1>5. CASE MainRunReturns
  BY <1>5 DEF MainRunReturns, RunReturns, InRun, Busy
<1>6. CASE Join
  BY <1>6 DEF Join, Joined
<1>7. CASE TimeoutExpires
  BY <1>7 DEF TimeoutExpires
<1>8. CASE Return
  BY <1>8 DEF Return
<1>9. CASE OutOfWork
  BY <1>9 DEF OutOfWork
<1>10. CASE CoroReady
  BY <1>10 DEF CoroReady
<1>11. ASSUME NEW i \in Works, WorkReady(i) PROVE Goal'
  BY <1>11 DEF WorkReady
<1>12. ASSUME NEW t \in Threads, CoroWaits(t) PROVE Goal'
  BY <1>12 DEF CoroWaits, CoroRuns
<1>13. ASSUME NEW t \in Threads, CoroGoesAway(t) PROVE Goal'
  BY <1>13 DEF CoroGoesAway, CoroRuns
<1>14. ASSUME NEW t \in Threads, TakeCoro(t) PROVE Goal'
  BY <1>14 DEF TakeCoro, MayTake, InRun
<1>15. ASSUME NEW t \in Threads, ForeignTakes(t) PROVE Goal'
  BY <1>15 DEF ForeignTakes
<1>16. ASSUME NEW t \in Threads, NEW g \in BOOLEAN, CoReturn(t, g) PROVE Goal'
  BY <1>16 DEF CoReturn, CoroRuns
<1>17. ASSUME NEW t \in Threads, FinalSuspend(t) PROVE Goal'
  BY <1>17 DEF FinalSuspend
<1>18. ASSUME NEW t \in Threads, WorkerReturns(t) PROVE Goal'
  BY <1>18 DEF WorkerReturns, RunReturns, InRun, Busy
<1>19. ASSUME NEW t \in Threads, NEW i \in Works, TakeWork(t, i) PROVE Goal'
  BY <1>19 DEF TakeWork
<1>20. ASSUME NEW t \in Threads, NEW i \in Works, WorkEnds(t, i) PROVE Goal'
  BY <1>20 DEF WorkEnds
<1>21. ASSUME NEW t \in Threads, NEW i \in Works, WorkWaits(t, i) PROVE Goal'
  BY <1>21 DEF WorkWaits
<1>22. ASSUME NEW t \in Threads, NEW i \in Works, CoroStartsWork(t, i) PROVE Goal'
  BY <1>22 DEF CoroStartsWork, CoroRuns
<1>23. CASE UNCHANGED vars
  BY <1>23 DEF vars
<1>24. QED
  BY <1>1, <1>2, <1>3, <1>4, <1>5, <1>6, <1>7, <1>8, <1>9, <1>10, <1>11, <1>12,
     <1>13, <1>14, <1>15, <1>16, <1>17, <1>18, <1>19, <1>20, <1>21, <1>22, <1>23
  DEF Next

(* While co_main co_returns on threads of its own context, detail::main    *)
(* destroys its frame only at rest (main.hpp:108, 142-151).                *)
THEOREM FrameAtRest ==
  ASSUME ~ReturnsAway
  PROVE  Spec => []DestroyedAtRest
<1>1. Init => IInv
  <2> SUFFICES ASSUME Init PROVE IInv
    OBVIOUS
  <2>1. CodeInv
    BY CodeInit
  <2>2. Hosted /\ EndedEarly /\ AtRest
    BY ThreadsAssumption DEF Init, Hosted, EndedEarly, AtRest, Off, Threads
  <2>3. QED
    BY <2>1, <2>2 DEF IInv
<1>2. IInv /\ [Next]_vars => IInv'
  BY CodeStep, HostedStep DEF IInv
<1>3. IInv => DestroyedAtRest
  BY DEF IInv, CodeInv, StartedLate, EndedEarly, AtRest, DestroyedAtRest, Ended
<1>4. QED
  BY <1>1, <1>2, <1>3, PTL DEF Spec

\* What makes run_for return, and that it does not return for anything else.
GraceInv ==
  /\ main \in {"grace", "returned"} /\ stopped => ~WorkLeft
  /\ main = "returned" => stopped \/ timeout # "grace"

(* Nobody starts work once co_main returned, and the context, restarted    *)
(* after the join, stops again only for want of work (main.hpp:147).       *)
LEMMA GraceStep ==
  ASSUME CodeInv, GraceInv, [Next]_vars
  PROVE  GraceInv'
<1> USE ThreadsAssumption DEF CodeInv, TypeOK, Guarded, GraceInv, WorkLeft, Off, On
<1>1. CASE Resume
  BY <1>1 DEF Resume
<1>2. CASE Resumed
  BY <1>2 DEF Resumed
<1>3. CASE Skip
  BY <1>3 DEF Skip
<1>4. CASE StartThreads
  BY <1>4 DEF StartThreads
<1>5. CASE MainRunReturns
  BY <1>5 DEF MainRunReturns
<1>6. CASE Join
  BY <1>6 DEF Join, Restarted
<1>7. CASE TimeoutExpires
  BY <1>7 DEF TimeoutExpires
<1>8. CASE Return
  BY <1>8 DEF Return
<1>9. CASE OutOfWork
  BY <1>9 DEF OutOfWork, OutstandingWork
<1>10. CASE CoroReady
  BY <1>10 DEF CoroReady
<1>11. ASSUME NEW i \in Works, WorkReady(i) PROVE GraceInv'
  BY <1>11 DEF WorkReady
<1>12. ASSUME NEW t \in Threads, CoroWaits(t) PROVE GraceInv'
  BY <1>12 DEF CoroWaits
<1>13. ASSUME NEW t \in Threads, CoroGoesAway(t) PROVE GraceInv'
  BY <1>13 DEF CoroGoesAway
<1>14. ASSUME NEW t \in Threads, TakeCoro(t) PROVE GraceInv'
  BY <1>14 DEF TakeCoro
<1>15. ASSUME NEW t \in Threads, ForeignTakes(t) PROVE GraceInv'
  BY <1>15 DEF ForeignTakes
<1>16. ASSUME NEW t \in Threads, NEW g \in BOOLEAN, CoReturn(t, g) PROVE GraceInv'
  BY <1>16 DEF CoReturn, CoroRuns
<1>17. ASSUME NEW t \in Threads, FinalSuspend(t) PROVE GraceInv'
  BY <1>17 DEF FinalSuspend
<1>18. ASSUME NEW t \in Threads, WorkerReturns(t) PROVE GraceInv'
  BY <1>18 DEF WorkerReturns
<1>19. ASSUME NEW t \in Threads, NEW i \in Works, TakeWork(t, i) PROVE GraceInv'
  BY <1>19 DEF TakeWork, MayTake
<1>20. ASSUME NEW t \in Threads, NEW i \in Works, WorkEnds(t, i) PROVE GraceInv'
  BY <1>20 DEF WorkEnds
<1>21. ASSUME NEW t \in Threads, NEW i \in Works, WorkWaits(t, i) PROVE GraceInv'
  BY <1>21 DEF WorkWaits
<1>22. ASSUME NEW t \in Threads, NEW i \in Works, CoroStartsWork(t, i) PROVE GraceInv'
  BY <1>22 DEF CoroStartsWork, CoroRuns
<1>23. CASE UNCHANGED vars
  BY <1>23 DEF vars
<1>24. QED
  BY <1>1, <1>2, <1>3, <1>4, <1>5, <1>6, <1>7, <1>8, <1>9, <1>10, <1>11, <1>12,
     <1>13, <1>14, <1>15, <1>16, <1>17, <1>18, <1>19, <1>20, <1>21, <1>22, <1>23
  DEF Next

(* A program that entered the run loop waits for the work that is left or  *)
(* for the timeout co_main set, wherever co_main returned.                 *)
THEOREM Graceful == Spec => []GraceKept
<1>1. Init => GraceInv
  BY DEF Init, GraceInv
<1>2. CodeInv /\ GraceInv /\ [Next]_vars => GraceInv'
  BY GraceStep
<1>3. GraceInv => GraceKept
  BY DEF GraceInv, GraceKept
<1>4. QED
  BY <1>1, <1>2, <1>3, CodeInit, CodeStep, PTL DEF Spec
=============================================================================
