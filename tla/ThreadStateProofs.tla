-------------------------- MODULE ThreadStateProofs --------------------------
(***************************************************************************)
(* Proofs about ThreadState, for every callback and controller: the types, *)
(* that a run is always asked for, and, for a controller that waits for    *)
(* its requests and is not timed out, that a paused thread is quiet and    *)
(* that a limited run makes its callbacks.  Then about WebSock: the        *)
(* websocket server, which such a thread runs.                             *)
(***************************************************************************)
EXTENDS ThreadState, WebSock, FiniteSetTheorems, WellFoundedInduction, TLAPS

\* Type correctness: the words and the places of the worker and the
\* controller keep their types in every step of pause(), destroy() and the
\* loop.
THEOREM TypeCorrect == Spec => []TypeOK
<1> USE DEF TypeOK
<1>1. Init => TypeOK
  <2> SUFFICES ASSUME Init PROVE TypeOK
    OBVIOUS
  <2>1. TypeShared /\ TypeWorker
    BY DEF Init, TypeShared, TypeWorker
  <2>2. 0 \in 0 .. MaxOps
    BY ThreadAssumption
  <2>3. TypeControl
    BY <2>2 DEF Init, TypeControl
  <2>4. TypeHistory
    BY DEF Init, TypeHistory
  <2> QED
    BY <2>1, <2>3, <2>4
<1>2. TypeOK /\ [Next]_vars => TypeOK'
  <2> SUFFICES ASSUME TypeOK, [Next]_vars PROVE TypeOK'
    OBVIOUS
  <2>1. CASE Worker
    <3>1. TypeShared'
      BY <2>1 DEF Worker, Top, Wake, Woken, Start, Func, FuncFalse, FuncPause,
         FuncPauseFlag, Ran, Cycle, Pausing, Clear, Exit, ClearFlags, FirstCycle,
         Tick, TypeShared, sharedVars
    <3>2. TypeWorker'
      BY <2>1 DEF Worker, Top, Wake, Woken, Start, Func, FuncFalse, FuncPause,
         FuncPauseFlag, Ran, Cycle, Pausing, Clear, Exit, AfterWait, TypeShared,
         TypeWorker, workerVars
    <3>3. TypeControl'
      BY <2>1 DEF Worker, Top, Wake, Woken, Start, Func, FuncFalse, FuncPause,
         FuncPauseFlag, Ran, Cycle, Pausing, Clear, Exit, TypeControl, controlVars
    <3>4. TypeHistory'
      <4>1. Tick(calls) \in Nat
        BY DEF Tick, TypeHistory
      <4>2. calls' \in Nat /\ goal' \in Nat
        BY <2>1, <4>1 DEF Worker, Top, Wake, Woken, Start, Func, FuncFalse,
           FuncPause, FuncPauseFlag, Ran, Cycle, Pausing, Clear, Exit,
           TypeHistory, histVars, runHist
      <4>3. /\ asked' \in BOOLEAN /\ quiet' \in BOOLEAN
            /\ strict' \in BOOLEAN /\ settled' \in BOOLEAN
        BY <2>1 DEF Worker, Top, Wake, Woken, Start, Func, FuncFalse,
           FuncPause, FuncPauseFlag, Ran, Cycle, Pausing, Clear, Exit,
           TypeHistory, histVars, runHist
      <4> QED
        BY <4>2, <4>3 DEF TypeHistory
    <3> QED
      BY <3>1, <3>2, <3>3, <3>4
  <2>2. ASSUME NEW r \in {"pause", "run"}, NEW n \in CycleCnts,
               NEW w \in BOOLEAN, Begin(r, n, w)
        PROVE TypeOK'
    <3>1. n \in Nat
      BY ThreadAssumption
    <3>2. opN + 1 \in 0 .. MaxOps
      BY <2>2, ThreadAssumption DEF Begin, TypeControl
    <3>3. TypeControl'
      BY <2>2, <3>1, <3>2 DEF Begin, TypeControl, TypeShared
    <3> QED
      BY <2>2, <3>3 DEF Begin, TypeShared, TypeWorker, TypeHistory, sharedVars,
         workerVars, histVars, runHist
  <2>3. CASE Destroy
    <3>1. opN + 1 \in 0 .. MaxOps
      BY <2>3, ThreadAssumption DEF Destroy, TypeControl
    <3>2. TypeControl'
      BY <2>3, <3>1 DEF Destroy, TypeControl
    <3> QED
      BY <2>3, <3>2 DEF Destroy, TypeShared, TypeWorker, TypeHistory, workerVars
  <2>4. CASE InCall
    <3>1. TypeControl'
      BY <2>4 DEF InCall, Set, Request, Return, Signal, Poll, Again, TimeOut,
         TypeControl
    <3>2. TypeShared'
      BY <2>4 DEF InCall, Set, Request, Signal, Poll, Again, TimeOut, TypeShared,
         TypeControl, sharedVars
    <3>3. TypeWorker'
      BY <2>4 DEF InCall, Set, Request, Signal, Poll, Again, TimeOut, TypeWorker,
         workerVars
    <3>4. TypeHistory'
      <4>1. asked' \in BOOLEAN
        BY <2>4 DEF InCall, Set, Request, Signal, Poll, Again, TimeOut,
           TypeHistory, histVars, runHist
      <4>2. quiet' \in BOOLEAN /\ strict' \in BOOLEAN /\ settled' \in BOOLEAN
        BY <2>4 DEF InCall, Set, Request, Signal, Poll, Again, TimeOut,
           TypeHistory, histVars, runHist
      <4>3. goal' \in Nat /\ calls' \in Nat
        BY <2>4 DEF InCall, Set, Request, Signal, Poll, Again, TimeOut,
           TypeHistory, TypeControl, histVars, runHist
      <4> QED
        BY <4>1, <4>2, <4>3 DEF TypeHistory
    <3> QED
      BY <3>1, <3>2, <3>3, <3>4
  <2>5. CASE UNCHANGED vars
    BY <2>5 DEF vars, TypeShared, TypeWorker, TypeControl, TypeHistory, sharedVars,
       workerVars, controlVars, histVars, runHist
  <2> QED
    BY <2>1, <2>2, <2>3, <2>4, <2>5 DEF Next, Controller
<1> QED
  BY <1>1, <1>2, PTL DEF Spec

------------------------------------------------------------------------------
(***************************************************************************)
(* Where the worker is and what stateId says agree, and a request to run   *)
(* that a paused worker can still find is one the controller stands by.    *)
(***************************************************************************)
Working == {"func", "selfpause", "ran", "cycle", "pausing"}

WorkerInv ==
  /\ wpc \in {"wait", "woken", "start", "clear"} => stateId = "paused"
  /\ wpc \in Working => stateId = "running"
  /\ stateId = "exited" <=> wpc = "done"

AskedInv ==
  doFlags = "run" /\ stateId = "paused" /\ wpc \notin {"clear", "start"} => asked

\* The worker's side of stateId, in every step.
LEMMA WorkerStep == TypeOK /\ WorkerInv /\ [Next]_vars => WorkerInv'
<1> SUFFICES ASSUME TypeOK, WorkerInv, [Next]_vars PROVE WorkerInv'
  OBVIOUS
<1>1. CASE Worker
  BY <1>1 DEF Worker, Top, Wake, Woken, Start, Func, FuncFalse, FuncPause,
     FuncPauseFlag, Ran, Cycle, Pausing, Clear, Exit, AfterWait, TypeOK,
     TypeShared, TypeWorker, WorkerInv, Working, sharedVars, workerVars
<1>2. CASE Controller \/ UNCHANGED vars
  <2>1. wpc' = wpc /\ stateId' = stateId
    BY <1>2 DEF Controller, InCall, Begin, Destroy, Set, Request, Return, Signal,
       Poll, Again, TimeOut, vars, sharedVars, workerVars
  <2> QED
    BY <2>1 DEF WorkerInv
<1> QED
  BY <1>1, <1>2 DEF Next

LEMMA WorkerAlways == Spec => []WorkerInv
<1>1. Init => WorkerInv
  BY DEF Init, WorkerInv, Working
<1> QED
  BY <1>1, WorkerStep, TypeCorrect, PTL DEF Spec

LEMMA AskedStep ==
  TypeOK /\ WorkerInv /\ AskedInv /\ [Next]_vars => AskedInv'
<1> SUFFICES ASSUME TypeOK, WorkerInv, AskedInv, [Next]_vars PROVE AskedInv'
  OBVIOUS
<1>1. CASE Worker
  BY <1>1 DEF Worker, Top, Wake, Woken, Start, Func, FuncFalse, FuncPause,
     FuncPauseFlag, Ran, Cycle, Pausing, Clear, Exit, ClearFlags, AfterWait,
     TypeOK, WorkerInv, Working, AskedInv, sharedVars, workerVars, histVars, runHist
<1>2. CASE Controller
  BY <1>2 DEF Controller, InCall, Begin, Destroy, Set, Request, Return, Signal,
     Poll, Again, TimeOut, AskedInv, TypeOK, sharedVars, workerVars, histVars, runHist
<1>3. CASE UNCHANGED vars
  BY <1>3 DEF AskedInv, vars, sharedVars, workerVars, histVars, runHist
<1> QED
  BY <1>1, <1>2, <1>3 DEF Next

\* The worker leaves the pause state only for a request of the controller
\* that is still standing, whatever times out and however the calls overlap
\* with the loop of _threadCallback.
THEOREM NoGhostRunAlways == Spec => NoGhostRun
<1>1. Init => AskedInv
  BY DEF Init, AskedInv
<1>2. TypeOK /\ WorkerInv /\ AskedInv /\ [Next]_vars
      => [wpc = "woken" /\ wpc' = "start" => asked]_vars
  <2> SUFFICES ASSUME TypeOK, WorkerInv, AskedInv, [Next]_vars,
                      wpc = "woken", wpc' = "start"
               PROVE asked
    BY DEF vars
  <2>1. Woken
    BY DEF Next, Worker, Controller, InCall, Begin, Destroy, Set, Request,
       Return, Signal, Poll, Again, TimeOut, Top, Wake, Start, Func, FuncFalse,
       FuncPause, FuncPauseFlag, Ran, Cycle, Pausing, Clear, Exit, vars,
       workerVars
  <2>2. doFlags = "run"
    BY <2>1 DEF Woken, AfterWait
  <2> QED
    BY <2>2 DEF AskedInv, WorkerInv
<1> QED
  BY <1>1, <1>2, AskedStep, TypeCorrect, WorkerAlways, PTL DEF Spec, NoGhostRun

------------------------------------------------------------------------------
(***************************************************************************)
(* A strict controller leaves pause() and unpause() only when the worker   *)
(* has answered.  No request to run is then under way except inside        *)
(* unpause(), and a pause that finds the thread paused, or sees it become  *)
(* so, finds it at rest.                                                   *)
(***************************************************************************)
Running == cpc \in {"signal", "poll", "sleep"} /\ req = "run"

WaitInv == cpc \in {"set", "request", "signal"} => wait

NoRun == wpc # "start" /\ (doFlags = "run" /\ stateId = "paused" => wpc = "clear")

AtPause == stateId # "running" /\ wpc \notin Working \cup {"start"}

StrictInv ==
  /\ WaitInv
  /\ ~Running => NoRun
  /\ cpc \in {"set", "request"} /\ seen = "paused" => AtPause
  /\ quiet => AtPause /\ cpc \in {"idle", "set"}

QuietInv == strict => StrictInv

\* A controller that stops being strict never is again.
LEMMA StrictBefore == [Next]_vars /\ strict' => strict
BY DEF Next, Worker, Top, Wake, Woken, Start, Func, FuncFalse, FuncPause,
   FuncPauseFlag, Ran, Cycle, Pausing, Clear, Exit, Controller, InCall, Begin,
   Destroy, Set, Request, Signal, Poll, Again, TimeOut, vars, histVars

LEMMA StrictWorker ==
  ASSUME TypeOK, WorkerInv, StrictInv, Worker
  PROVE  StrictInv'
<1>1. /\ UNCHANGED <<cpc, req, wait, seen, quiet>>
      /\ doFlags' \in {doFlags, "none", "pause"}
  BY DEF Worker, Top, Wake, Woken, Start, Func, FuncFalse, FuncPause,
     FuncPauseFlag, Ran, Cycle, Pausing, Clear, Exit, ClearFlags, sharedVars,
     controlVars, histVars, runHist
<1>2. ~Running => NoRun'
  BY DEF Worker, Top, Wake, Woken, Start, Func, FuncFalse, FuncPause,
     FuncPauseFlag, Ran, Cycle, Pausing, Clear, Exit, ClearFlags, AfterWait,
     sharedVars, WorkerInv, Working, StrictInv, NoRun
<1>3. ~Running /\ AtPause => AtPause'
  BY DEF Worker, Top, Wake, Woken, Start, Func, FuncFalse, FuncPause,
     FuncPauseFlag, Ran, Cycle, Pausing, Clear, Exit, AfterWait, TypeOK,
     TypeShared, sharedVars, WorkerInv, Working, StrictInv, NoRun, AtPause
<1> QED
  BY <1>1, <1>2, <1>3 DEF StrictInv, WaitInv, Running

LEMMA StrictController ==
  ASSUME TypeOK, WorkerInv, StrictInv, Controller, strict'
  PROVE  StrictInv'
<1>1. UNCHANGED <<stateId, wpc>>
  BY DEF Controller, InCall, Begin, Destroy, Set, Request, Signal, Poll, Again,
     TimeOut, sharedVars, workerVars
<1>2. AtPause' <=> AtPause
  BY <1>1 DEF AtPause
<1>3. ASSUME NEW r \in {"pause", "run"}, NEW n \in CycleCnts,
             NEW w \in BOOLEAN, Begin(r, n, w)
      PROVE  StrictInv'
  BY <1>1, <1>2, <1>3 DEF Begin, StrictInv, WaitInv, Running, NoRun, AtPause,
     WorkerInv, Working, TypeOK, TypeShared, TypeWorker, sharedVars, workerVars,
     histVars, runHist
<1>4. CASE Destroy
  BY <1>1, <1>2, <1>4 DEF Destroy, StrictInv, WaitInv, Running, NoRun
<1>5. CASE Set
  BY <1>1, <1>2, <1>5 DEF Set, StrictInv, WaitInv, Running, NoRun
<1>6. CASE Request
  BY <1>1, <1>2, <1>6 DEF Request, Return, StrictInv, WaitInv, Running, NoRun
<1>7. CASE Signal
  BY <1>1, <1>2, <1>7 DEF Signal, Return, StrictInv, WaitInv, Running, NoRun,
     sharedVars, histVars, runHist
<1>8. CASE Poll
  <2>1. CASE Reached
    <3>1. /\ cpc' \in {"idle", "gone"}
          /\ req = "pause" => cpc' = "idle"
          /\ quiet' = (req = "pause")
      BY <1>8, <2>1 DEF Poll
    <3>2. NoRun
      BY <2>1 DEF Reached, Target, StrictInv, Running, NoRun, WorkerInv, TypeOK,
         TypeControl
    <3>3. req = "pause" => AtPause
      BY <2>1, <3>2 DEF Reached, Target, NoRun, AtPause, WorkerInv, Working
    <3> QED
      BY <1>1, <1>2, <1>8, <3>1, <3>2, <3>3, ZenonT(60) DEF Poll, StrictInv, WaitInv, NoRun,
         sharedVars
  <2>2. CASE ~Reached /\ stateId = "exited"
    <3>1. NoRun
      BY <2>2 DEF NoRun, WorkerInv
    <3>2. cpc' = "idle" /\ quiet' = quiet
      BY <1>8, <2>2 DEF Poll
    <3> QED
      BY <1>1, <1>2, <1>8, <3>1, <3>2 DEF Poll, StrictInv, WaitInv, NoRun,
         sharedVars
  <2>3. CASE ~Reached /\ stateId # "exited"
    <3>1. cpc' = "sleep" /\ quiet' = quiet
      BY <1>8, <2>3 DEF Poll
    <3>2. ~quiet
      BY <1>8 DEF Poll, StrictInv
    <3> QED
      BY <1>1, <1>2, <1>8, <3>1, <3>2 DEF Poll, StrictInv, WaitInv, Running, NoRun,
         sharedVars
  <2> QED
    BY <2>1, <2>2, <2>3
<1>9. CASE Again \/ TimeOut
  BY <1>1, <1>2, <1>9 DEF Again, TimeOut, StrictInv, WaitInv, Running, NoRun,
     sharedVars, histVars, runHist
<1> QED
  BY <1>3, <1>4, <1>5, <1>6, <1>7, <1>8, <1>9 DEF Controller, InCall

LEMMA QuietStep ==
  TypeOK /\ WorkerInv /\ QuietInv /\ [Next]_vars => QuietInv'
<1> SUFFICES ASSUME TypeOK, WorkerInv, QuietInv, [Next]_vars, strict'
             PROVE StrictInv'
  BY DEF QuietInv
<1>1. StrictInv
  BY StrictBefore DEF QuietInv
<1>2. CASE UNCHANGED vars
  BY <1>1, <1>2 DEF vars, sharedVars, workerVars, controlVars, histVars, runHist,
     StrictInv, WaitInv, Running, NoRun, AtPause
<1> QED
  BY <1>1, <1>2, StrictWorker, StrictController DEF Next

LEMMA QuietInvAlways == Spec => []QuietInv
<1>1. Init => QuietInv
  BY DEF Init, QuietInv, StrictInv, WaitInv, Running, NoRun, AtPause
<1> QED
  BY <1>1, QuietStep, TypeCorrect, WorkerAlways, PTL DEF Spec

\* After pause() returned kOkRC to a strict controller, the callback does not
\* run until the next unpause().
THEOREM QuietAlways == Spec => []PausedIsQuiet
<1>1. QuietInv => PausedIsQuiet
  BY DEF QuietInv, StrictInv, AtPause, Working, PausedIsQuiet
<1> QED
  BY <1>1, QuietInvAlways, PTL

------------------------------------------------------------------------------
(***************************************************************************)
(* A strict controller gets the cycles it asks for: the limit is in place  *)
(* before the request is seen, nobody changes it during the run, and the   *)
(* callbacks made agree with cycleIdx wherever the worker is.              *)
(***************************************************************************)
CountInv ==
  /\ calls <= goal
  /\ wpc \in {"start", "func"} \/ (wpc = "top" /\ stateId = "running")
       => calls = cycleIdx /\ calls < goal
  /\ wpc # "selfpause"
  /\ wpc = "ran" => calls = cycleIdx + 1
  /\ wpc = "cycle" => calls = cycleIdx
  /\ wpc = "pausing" /\ curDoFlags # "pause" => calls = goal

LimitInv ==
  /\ cpc \in {"set", "request"} => cnt < MaxCycle
  /\ cpc = "request" /\ req = "run" => seen = "paused" /\ cycleCnt = cnt
  /\ goal > 0 => goal = cycleCnt /\ goal < MaxCycle

CycleInv == strict => LimitInv /\ (goal > 0 /\ ~asked => CountInv)

LEMMA LimitStep ==
  TypeOK /\ WorkerInv /\ StrictInv /\ LimitInv /\ [Next]_vars => LimitInv'
<1> SUFFICES ASSUME TypeOK, WorkerInv, StrictInv, LimitInv, [Next]_vars
             PROVE LimitInv'
  OBVIOUS
<1>1. CASE Worker
  <2>1. UNCHANGED controlVars
    BY <1>1 DEF Worker, Top, Wake, Woken, Start, Func, FuncFalse, FuncPause,
       FuncPauseFlag, Ran, Cycle, Pausing, Clear, Exit
  <2>2. CASE FuncPause
    BY <2>1, <2>2 DEF FuncPause, LimitInv, StrictInv, AtPause, Working, controlVars
  <2>3. CASE ~FuncPause
    <3>1. cycleCnt' = cycleCnt /\ goal' = goal
      BY <1>1, <2>3 DEF Worker, Top, Wake, Woken, Start, Func, FuncFalse,
         FuncPauseFlag, Ran, Cycle, Pausing, Clear, Exit, sharedVars, histVars, runHist
    <3> QED
      BY <2>1, <3>1 DEF LimitInv, controlVars
  <2> QED
    BY <2>2, <2>3
<1>2. ASSUME NEW r \in {"pause", "run"}, NEW n \in CycleCnts,
             NEW w \in BOOLEAN, Begin(r, n, w)
      PROVE  LimitInv'
  BY <1>2, ThreadAssumption DEF Begin, LimitInv, sharedVars, histVars, runHist
<1>3. CASE Destroy
  BY <1>3 DEF Destroy, LimitInv
<1>4. CASE Set
  BY <1>4 DEF Set, LimitInv
<1>5. CASE Request
  BY <1>5 DEF Request, Return, LimitInv
<1>6. CASE Signal \/ Poll \/ Again \/ TimeOut
  BY <1>6 DEF Signal, Return, Poll, Again, TimeOut, LimitInv, sharedVars, histVars, runHist
<1>7. CASE UNCHANGED vars
  BY <1>7 DEF LimitInv, vars, sharedVars, controlVars, histVars, runHist
<1> QED
  BY <1>1, <1>2, <1>3, <1>4, <1>5, <1>6, <1>7 DEF Next, Controller, InCall

LEMMA CountWorker ==
  ASSUME TypeOK, WorkerInv, LimitInv, goal > 0 /\ ~asked => CountInv, Worker,
         goal' > 0, ~asked'
  PROVE  CountInv'
<1> DEFINE Old == goal > 0 /\ ~asked /\ goal' = goal /\ goal = cycleCnt
                  /\ CountInv
<1> USE DEF TypeOK, TypeShared, TypeWorker, TypeHistory
<1>1. CASE Woken
  BY <1>1 DEF Woken, AfterWait, FirstCycle, LimitInv, CountInv,
     WorkerInv, sharedVars
<1>2. ASSUME ~Woken PROVE Old
  BY <1>2 DEF Worker, Top, Wake, Start, Func, FuncFalse, FuncPause,
     FuncPauseFlag, Ran, Cycle, Pausing, Clear, Exit, histVars, runHist, LimitInv
<1>3. CASE Top \/ Wake \/ Start
  BY <1>2, <1>3 DEF Top, Wake, Woken, Start, CountInv, WorkerInv, sharedVars,
     histVars, runHist
<1>4. CASE Func \/ FuncFalse
  <2>1. Old /\ wpc = "func"
    BY <1>2, <1>4 DEF Func, FuncFalse, Woken
  <2>2. calls' = calls + 1 /\ calls < goal /\ calls = cycleIdx
    BY <1>4, <2>1, ThreadAssumption DEF Func, FuncFalse, Tick, LimitInv,
       CountInv
  <2>3. cycleIdx' = cycleIdx /\ wpc' \in {"ran", "exit"}
    BY <1>4 DEF Func, FuncFalse, sharedVars
  <2> QED
    BY <2>1, <2>2, <2>3 DEF CountInv
<1>5. CASE FuncPause \/ FuncPauseFlag
  <2>1. CASE FuncPause
    BY <2>1 DEF FuncPause
  <2>2. CASE FuncPauseFlag
    BY <1>2, <2>2 DEF FuncPauseFlag, Woken, CountInv
  <2> QED
    BY <1>5, <2>1, <2>2
<1>6. CASE Ran
  <2>1. Old /\ wpc = "ran"
    BY <1>2, <1>6 DEF Ran, Woken
  <2>2. calls' = calls /\ calls <= goal /\ calls = cycleIdx + 1
    BY <1>6, <2>1 DEF Ran, CountInv, histVars, runHist
  <2>3. Tick(cycleIdx) = cycleIdx + 1
    BY <2>1, <2>2, ThreadAssumption DEF Tick, LimitInv
  <2>4. wpc' \in {"exit", "cycle"} /\ (wpc' = "cycle" => cycleIdx' = Tick(cycleIdx))
    BY <1>6 DEF Ran
  <2> QED
    BY <2>1, <2>2, <2>3, <2>4 DEF CountInv
<1>7. CASE Cycle
  BY <1>2, <1>7 DEF Cycle, MustPause, CyclesDone, Woken, CountInv, sharedVars,
     histVars, runHist
<1>8. CASE Pausing \/ Clear \/ Exit
  BY <1>2, <1>8 DEF Pausing, Clear, Exit, Woken, CountInv, WorkerInv, histVars, runHist
<1> QED
  BY <1>1, <1>3, <1>4, <1>5, <1>6, <1>7, <1>8 DEF Worker

LEMMA CountController ==
  ASSUME TypeOK, goal > 0 /\ ~asked => CountInv, Controller, goal' > 0, ~asked'
  PROVE  CountInv'
<1>1. UNCHANGED <<stateId, wpc, curDoFlags, cycleIdx, calls>>
  BY DEF Controller, InCall, Begin, Destroy, Set, Request, Signal, Poll, Again,
     TimeOut, sharedVars, workerVars, histVars, runHist
<1>2. ~Set /\ ~Destroy
  BY DEF Set, Destroy
<1>3. ~Request
  <2> SUFFICES ASSUME Request PROVE FALSE
    OBVIOUS
  <2>1. req # "run"
    BY DEF Request
  <2>2. goal' = 0
    BY <2>1 DEF Request
  <2> QED
    BY <2>2
<1>4. goal' = goal /\ asked' = asked
  BY <1>2, <1>3 DEF Controller, InCall, Begin, Signal, Poll, Again, TimeOut,
     histVars, runHist
<1> QED
  BY <1>1, <1>4 DEF CountInv

\* For a strict controller, a run limited to n cycles makes n callbacks when
\* it ends by itself, and never more.
THEOREM CycleExactAlways == Spec => []CycleExact
<1>1. Init => CycleInv
  BY ThreadAssumption DEF Init, CycleInv, LimitInv
<1>2. TypeOK /\ WorkerInv /\ QuietInv /\ CycleInv /\ [Next]_vars => CycleInv'
  <2> SUFFICES ASSUME TypeOK, WorkerInv, QuietInv, CycleInv, [Next]_vars, strict'
               PROVE LimitInv' /\ (goal' > 0 /\ ~asked' => CountInv')
    BY DEF CycleInv
  <2>1. StrictInv /\ LimitInv /\ (goal > 0 /\ ~asked => CountInv)
    BY StrictBefore DEF QuietInv, CycleInv
  <2>2. LimitInv'
    BY <2>1, LimitStep
  <2>3. ASSUME goal' > 0, ~asked' PROVE CountInv'
    <3>1. CASE UNCHANGED vars
      BY <2>1, <2>3, <3>1 DEF CountInv, vars, sharedVars, workerVars, histVars,
         runHist
    <3> QED
      BY <2>1, <2>3, <3>1, CountWorker, CountController DEF Next
  <2> QED
    BY <2>2, <2>3
<1>3. CycleInv => CycleExact
  BY DEF CycleInv, CountInv, CycleExact
<1> QED
  BY <1>1, <1>2, <1>3, TypeCorrect, WorkerAlways, QuietInvAlways, PTL DEF Spec

------------------------------------------------------------------------------
(***************************************************************************)
(* A settled controller is heard.  Whether its calls are answered is a     *)
(* question of liveness; what that rests on is not: while it waits for the *)
(* worker, its request stands in doFlags, and the worker is on the way     *)
(* that leads it there, or has got where it is to go, or ends.             *)
(***************************************************************************)
Flag == [pause |-> "pause", run |-> "run", destroy |-> "exit"]

Ways == [pause   |-> {"top", "func", "ran", "cycle", "pausing"},
         run     |-> {"top", "wait", "woken", "start"},
         destroy |-> {"top", "wait", "woken", "func", "ran"}]

RequestStands ==
  settled /\ cpc \in {"poll", "sleep"} =>
    \/ Reached \/ stateId = "exited" \/ wpc = "exit"
    \/ doFlags = Flag[req] /\ wpc \in Ways[req]

\* Where the worker is for each request that it has not cleared.
Shape ==
  \/ wpc \in {"exit", "done"}
  \/ /\ doFlags \in {"none", "exit", "run"} /\ stateId = "paused"
     /\ wpc \in {"top", "wait", "woken"} \/ (wpc = "start" /\ doFlags = "run")
  \/ /\ doFlags = "run" /\ stateId = "running"
     /\ wpc \in {"top", "func", "ran"} \/ (wpc = "cycle" /\ curDoFlags # "pause")
  \/ doFlags = "pause" /\ stateId = "running" /\ wpc \in {"top", "func", "ran", "cycle", "pausing"}
  \/ doFlags = "pause" /\ stateId = "paused" /\ wpc = "clear"
  \/ doFlags = "exit" /\ stateId = "running" /\ wpc \in {"top", "func", "ran"}

CallInv ==
  /\ cycleCnt = 0
  /\ cpc \in {"idle", "set", "request"} => doFlags # "exit"
  /\ cpc \in {"set", "request"} =>
       cnt = 0 /\ doFlags # "pause" /\ (seen # "paused" => stateId # "paused")
  /\ cpc = "request" => (req = "run" <=> seen = "paused")
  /\ cpc \in {"signal", "poll", "sleep"} =>
       doFlags = Flag[req] \/ (req = "pause" /\ doFlags = "none")

SettledInv == settled => Shape /\ CallInv

LEMMA SettledWorker ==
  ASSUME TypeOK, WorkerInv, Shape, CallInv, Worker, settled'
  PROVE  Shape' /\ CallInv'
<1> USE DEF TypeOK, TypeShared, TypeWorker, TypeControl
<1>1. UNCHANGED <<cpc, req, cnt, seen>> /\ ~FuncPause
  BY DEF Worker, Top, Wake, Woken, Start, Func, FuncFalse, FuncPause,
     FuncPauseFlag, Ran, Cycle, Pausing, Clear, Exit, controlVars
<1>2. ~FuncPauseFlag
  BY DEF FuncPauseFlag, Shape
<1>3. Shape'
  <2>1. CASE Top \/ Wake \/ Woken \/ Start
    BY <2>1 DEF Top, Wake, Woken, Start, AfterWait, Shape, sharedVars
  <2>2. CASE Func \/ FuncFalse \/ Ran
    BY <2>2 DEF Func, FuncFalse, Ran, Shape, sharedVars
  <2>3. CASE Cycle
    BY <2>3 DEF Cycle, MustPause, CyclesDone, Shape, CallInv, sharedVars
  <2>4. CASE Pausing \/ Clear \/ Exit
    BY <2>4 DEF Pausing, Clear, ClearFlags, Exit, Shape
  <2>5. QED
    BY <1>1, <1>2, <2>1, <2>2, <2>3, <2>4 DEF Worker
<1>4. /\ cycleCnt' = cycleCnt
      /\ doFlags' = doFlags \/ (doFlags = "pause" /\ doFlags' = "none")
      /\ stateId # "paused" => stateId' # "paused" \/ doFlags = "pause"
  BY <1>1, <1>2 DEF Worker, Top, Wake, Woken, Start, Func, FuncFalse, Ran, Cycle, Pausing, Clear,
     ClearFlags, Exit, Shape, sharedVars
<1>5. CallInv'
  BY <1>1, <1>4 DEF CallInv, Flag
<1>6. QED
  BY <1>3, <1>5

LEMMA SettledController ==
  ASSUME TypeOK, WorkerInv, Shape, CallInv, Controller, settled'
  PROVE  Shape' /\ CallInv'
<1> USE DEF TypeOK, TypeShared, TypeWorker, TypeControl
<1>1. UNCHANGED <<stateId, wpc, curDoFlags>>
  BY DEF Controller, InCall, Begin, Destroy, Set, Request, Signal, Poll, Again,
     TimeOut, sharedVars, workerVars
<1>2. ASSUME NEW r \in {"pause", "run"}, NEW n \in CycleCnts, NEW w \in BOOLEAN, Begin(r, n, w)
      PROVE  Shape' /\ CallInv'
  BY <1>1, <1>2 DEF Begin, AtRest, Shape, CallInv, sharedVars
<1>3. CASE Destroy
  BY <1>1, <1>3 DEF Destroy, AtRest, Shape, CallInv, Flag
<1>4. CASE Set
  BY <1>1, <1>4 DEF Set, Shape, CallInv
<1>5. CASE Request
  <2>1. /\ doFlags' = req /\ req \in {"pause", "run"} /\ doFlags \in {"none", "run"}
        /\ cpc' \in {"idle", "poll", "signal"} /\ UNCHANGED <<req, cycleCnt>>
        /\ req = "pause" => stateId # "paused"
    BY <1>5 DEF Request, Return, CallInv
  <2>2. Shape'
    BY <1>1, <2>1 DEF Shape, WorkerInv
  <2>3. CallInv'
    BY <2>1 DEF CallInv, Flag
  <2>4. QED
    BY <2>2, <2>3
<1>6. CASE Signal
  BY <1>1, <1>6 DEF Signal, Return, Shape, CallInv, Flag, sharedVars
<1>7. CASE Poll
  BY <1>1, <1>7 DEF Poll, Reached, Target, Shape, CallInv, Flag, sharedVars
<1>8. CASE Again
  BY <1>1, <1>8 DEF Again, Shape, CallInv, sharedVars
<1>9. CASE TimeOut
  BY <1>9 DEF TimeOut
<1>10. QED
  BY <1>2, <1>3, <1>4, <1>5, <1>6, <1>7, <1>8, <1>9 DEF Controller, InCall

\* While a settled controller waits for the answer to pause(), unpause() or
\* destroy(), its request is neither overwritten nor cleared unread, whatever the
\* worker was doing when the call began, and every step that the worker then takes
\* leads to the state that is waited for.
THEOREM RequestAlwaysStands == Spec => []RequestStands
<1>1. Init => SettledInv
  BY DEF Init, SettledInv, Shape, CallInv
<1>2. TypeOK /\ WorkerInv /\ SettledInv /\ [Next]_vars => SettledInv'
  <2> SUFFICES ASSUME TypeOK, WorkerInv, SettledInv, [Next]_vars, settled'
               PROVE  Shape' /\ CallInv'
    BY DEF SettledInv
  <2>1. settled
    BY DEF Next, Worker, Top, Wake, Woken, Start, Func, FuncFalse, FuncPause, FuncPauseFlag,
       Ran, Cycle, Pausing, Clear, Exit, Controller, InCall, Begin, Destroy, Set, Request,
       Signal, Poll, Again, TimeOut, vars, histVars
  <2>2. CASE UNCHANGED vars
    BY <2>1, <2>2 DEF SettledInv, Shape, CallInv, vars, sharedVars, workerVars, controlVars
  <2>3. QED
    BY <2>1, <2>2, SettledWorker, SettledController DEF Next, SettledInv
<1>3. TypeOK /\ WorkerInv /\ SettledInv => RequestStands
  BY DEF RequestStands, SettledInv, Shape, CallInv, WorkerInv, TypeOK, TypeShared, TypeWorker,
     TypeControl, Reached, Target, Flag, Ways
<1>4. QED
  BY <1>1, <1>2, <1>3, TypeCorrect, WorkerAlways, PTL DEF Spec
------------------------------------------------------------------------------
(***************************************************************************)
(* WebSock, with one protocol that sends: with two, a list may refer to    *)
(* messages that are gone.  Its proofs are in this module, whose names and *)
(* those of WebSock are apart.                                             *)
(***************************************************************************)
OneSends == ProtocolN = 1

\* A non-empty set of natural numbers has a least element.
LEMMA LeastNat ==
  ASSUME NEW T, T \subseteq Nat, T # {}
  PROVE  \E x \in T : \A y \in T : x <= y
<1> DEFINE R == {ss \in Nat \X Nat : ss[1] < ss[2]}
<1>1. IsWellFoundedOn(R, Nat)
  BY NatLessThanWellFounded, Zenon DEF OpToRel
<1> HIDE DEF R
<1>2. PICK x \in T : \A y \in T : ~ (<<y, x>> \in R)
  BY <1>1, WFMin
<1>3. ASSUME NEW y \in T PROVE x <= y
  <2>1. <<y, x>> \notin R /\ y \in Nat /\ x \in Nat
    BY <1>2
  <2>2. ~(y < x)
    BY <2>1, Zenon DEF R
  <2>3. QED
    BY <2>1, <2>2
<1>4. QED
  BY <1>3

\* The list of the protocol, and the last message that was linked into it.
List == list[1]
Linked == popped + Len(List)

WsTyped ==
  /\ protocolId \in [Messages -> {0} \cup Protocols]
  /\ to \in [Messages -> {All} \cup Sessions]
  /\ msgId \in [Messages -> {InvalidId} \cup Nat] /\ sessionN \in [Messages -> Nat]
  /\ sent \in Nat /\ sent <= MaxSend /\ popped \in Nat /\ popped <= sent
  /\ peek \in Nat /\ peek <= sent
  /\ list \in [Protocols -> Seq(Messages)]
  /\ nextNewMsgId \in [Protocols -> Nat]
  /\ opened \in Nat /\ opened <= MaxOpen /\ live \subseteq 1 .. opened
  /\ protocol \in [Sessions -> {0} \cup Protocols]
  /\ nextMsgId \in [Sessions -> Nat] /\ requested \subseteq live
  /\ pc \in {"clean", "peek", "request", "serve", "wait"}
  /\ cur \in Nat /\ cur <= MaxSend /\ turn \in Nat
  /\ got \in [Sessions -> Seq(Messages)] /\ aud \in [Messages -> SUBSET Sessions]
  /\ lossy \in BOOLEAN /\ calm \in BOOLEAN

LEMMA WsIs ==
  ASSUME OneSends
  PROVE  /\ Protocols = {1} /\ Messages = 1 .. MaxSend /\ Sessions = 1 .. MaxOpen
         /\ MaxSend \in Nat /\ MaxOpen \in Nat
         /\ All = 0 /\ Null = 0 /\ InvalidId = -1
BY WebSockAssumption DEF OneSends, Protocols, Messages, Sessions, All, Null,
   InvalidId

LEMMA ListTyped ==
  ASSUME OneSends, WsTyped
  PROVE  /\ List \in Seq(Messages) /\ Len(List) \in Nat /\ Linked \in Nat
         /\ live \subseteq Sessions
BY WsIs DEF WsTyped, List, Linked

\* The places 1 to n of the list are cleaned, and its messages sent to all.
LEMMA CleanIs ==
  ASSUME OneSends, WsTyped
  PROVE  /\ CleanN(1) \in Nat /\ CleanN(1) <= Len(List) /\ popped + CleanN(1) <= sent
         /\ \A i \in 1 .. CleanN(1) : SentToAll(List[i], 1)
         /\ Cleaned(1) \in Seq(Messages)
         /\ Len(Cleaned(1)) = Len(List) - CleanN(1)
         /\ \A i \in 1 .. Len(Cleaned(1)) : Cleaned(1)[i] = List[CleanN(1) + i]
<1> DEFINE Ok(i) == /\ i <= Len(List) /\ popped + i <= sent
                    /\ SentToAll(List[i], 1)
                    /\ msgId[popped + i] = msgId[List[i]]
           Upto(n) == (\A i \in 1 .. n : Ok(i)) /\ ~Ok(n + 1)
           T == {i \in 1 .. (Len(List) + 1) : ~Ok(i)}
           c == CleanN(1)
<1>1. c = CHOOSE n \in 0 .. Len(List) : Upto(n)
  BY DEF CleanN, List
<1>2. List \in Seq(Messages) /\ Len(List) \in Nat
  BY ListTyped
<1>3. \E n \in 0 .. Len(List) : Upto(n)
  <2>1. Len(List) + 1 \in T
    BY <1>2
  <2>2. T \subseteq Nat
    BY <1>2
  <2> HIDE DEF T
  <2>3. PICK x \in T : \A y \in T : x <= y
    BY <2>1, <2>2, LeastNat
  <2> HIDE DEF Ok
  <2> USE DEF T
  <2>4. x \in 1 .. (Len(List) + 1) /\ ~Ok(x) /\ x - 1 \in 0 .. Len(List) /\ x - 1 + 1 = x
    BY <1>2
  <2>5. ASSUME NEW i \in 1 .. (x - 1) PROVE Ok(i)
    <3>1. i \in 1 .. (Len(List) + 1) /\ ~(x <= i)
      BY <1>2, <2>4
    <3>2. QED
      BY <2>3, <3>1
  <2>6. Upto(x - 1)
    BY <2>4, <2>5
  <2>7. QED
    BY <2>4, <2>6
<1> HIDE DEF Upto, c
<1>4. c \in 0 .. Len(List) /\ Upto(c)
  BY <1>1, <1>3
<1>5. \A i \in 1 .. c : Ok(i)
  BY <1>4 DEF Upto
<1>6. popped + c <= sent
  <2>1. popped \in Nat /\ sent \in Nat /\ popped <= sent
    BY DEF WsTyped
  <2>2. CASE c = 0
    BY <2>1, <2>2
  <2>3. CASE c # 0
    <3>1. c \in 1 .. c
      BY <1>2, <1>4, <2>3
    <3>2. QED
      BY <1>5, <3>1
  <2>4. QED
    BY <2>2, <2>3
<1>7. Cleaned(1) = SubSeq(List, c + 1, Len(List))
  BY DEF Cleaned, List, c
<1>8. /\ Cleaned(1) \in Seq(Messages)
      /\ Len(Cleaned(1)) = Len(List) - c
      /\ \A i \in 1 .. Len(Cleaned(1)) : Cleaned(1)[i] = List[c + i]
  <2>1. c + 1 \in 1 .. (Len(List) + 1) /\ c \in Nat
    BY <1>2, <1>4
  <2>2. \A i \in (c + 1) .. Len(List) : List[i] \in Messages
    BY <1>2, <2>1
  <2>3. /\ SubSeq(List, c + 1, Len(List)) \in Seq(Messages)
        /\ Len(SubSeq(List, c + 1, Len(List))) = Len(List) - c
    BY <1>2, <2>1, <2>2
  <2>4. ASSUME NEW i \in 1 .. (Len(List) - c) PROVE SubSeq(List, c + 1, Len(List))[i] = List[c + i]
    BY <1>2, <1>4, <2>1
  <2>5. QED
    BY <1>7, <2>3, <2>4
<1>9. QED
  BY <1>2, <1>4, <1>5, <1>6, <1>8 DEF c

(***************************************************************************)
(* The list holds the messages popped + 1 to Linked, in order: the message *)
(* that exec() links is the next one, as peek_reset() precedes each walk.  *)
(***************************************************************************)
Walking == pc \in {"peek", "request", "serve"}

ListInv ==
  /\ \A i \in 1 .. Len(List) : List[i] = popped + i
  /\ Linked <= sent /\ nextNewMsgId[1] = Linked
  /\ \A m \in Messages : msgId[m] = IF m <= Linked THEN m - 1 ELSE InvalidId
  /\ \A m \in 1 .. sent : protocolId[m] = 1
  /\ peek # Null => peek > popped
  /\ Walking /\ peek # Null => peek = Linked + 1
  /\ pc \in {"request", "serve"} => cur \in 1 .. sent
  /\ pc = "clean" => turn = 1

\* What an operation that leaves queue and list alone may do.
LEMMA ListSame ==
  ASSUME ListInv, UNCHANGED <<popped, list, nextNewMsgId, msgId, peek>>,
         protocolId' = protocolId /\ sent' = sent,
         Walking' => Walking,
         pc' \in {"request", "serve"} => cur' = cur /\ pc \in {"request", "serve"},
         pc' # "clean" \/ (pc' = pc /\ turn' = turn) \/ turn' = 1
  PROVE  ListInv'
BY DEF ListInv, List, Linked, Null

LEMMA ListInit ==
  ASSUME OneSends, WsInit
  PROVE  WsTyped /\ ListInv
<1> USE WsIs
<1>1. WsTyped
  <2>1. /\ protocolId = [m \in Messages |-> 0] /\ to = [m \in Messages |-> All]
        /\ msgId = [m \in Messages |-> InvalidId] /\ sessionN = [m \in Messages |-> 0]
        /\ aud = [m \in Messages |-> {}]
    BY DEF WsInit
  <2>2. /\ list = [p \in Protocols |-> <<>>] /\ nextNewMsgId = [p \in Protocols |-> 0]
        /\ protocol = [s \in Sessions |-> 0] /\ nextMsgId = [s \in Sessions |-> 0]
        /\ got = [s \in Sessions |-> <<>>]
    BY DEF WsInit
  <2>3. /\ protocolId \in [Messages -> {0} \cup Protocols]
        /\ to \in [Messages -> {All} \cup Sessions]
        /\ msgId \in [Messages -> {InvalidId} \cup Nat] /\ sessionN \in [Messages -> Nat]
        /\ aud \in [Messages -> SUBSET Sessions]
    BY <2>1
  <2>4. /\ list \in [Protocols -> Seq(Messages)] /\ nextNewMsgId \in [Protocols -> Nat]
        /\ protocol \in [Sessions -> {0} \cup Protocols]
        /\ nextMsgId \in [Sessions -> Nat] /\ got \in [Sessions -> Seq(Messages)]
    BY <2>2
  <2>5. /\ sent = 0 /\ popped = 0 /\ peek = 0 /\ opened = 0 /\ live = {} /\ requested = {}
        /\ pc = "wait" /\ cur = 0 /\ turn = 0 /\ lossy = FALSE /\ calm = TRUE
    BY DEF WsInit
  <2>6. /\ sent \in Nat /\ sent <= MaxSend /\ popped \in Nat /\ popped <= sent
        /\ peek \in Nat /\ peek <= sent /\ opened \in Nat /\ opened <= MaxOpen
        /\ cur \in Nat /\ cur <= MaxSend /\ turn \in Nat
    BY <2>5
  <2>7. /\ live \subseteq 1 .. opened /\ requested \subseteq live
        /\ pc \in {"clean", "peek", "request", "serve", "wait"}
        /\ lossy \in BOOLEAN /\ calm \in BOOLEAN
    BY <2>5
  <2>8. QED
    BY <2>3, <2>4, <2>6, <2>7, Zenon DEF WsTyped
<1>2. List = <<>> /\ Linked = 0
  BY DEF WsInit, List, Linked
<1>3. ListInv
  BY <1>2 DEF WsInit, ListInv, Walking
<1>4. QED
  BY <1>1, <1>3

\* The message that is linked is the one after the last.
LEMMA FreshIsNext ==
  ASSUME OneSends, WsTyped, ListInv, pc = "peek", Fresh
  PROVE  Peeked = Linked + 1 /\ Peeked \in 1 .. sent
<1>1. /\ Peeked # 0 /\ Peeked \in 0 .. sent /\ msgId[Peeked] = -1
      /\ peek # 0 => Peeked = peek
      /\ peek = 0 => Peeked = popped + 1
  BY WsIs DEF Fresh, Peeked, WsTyped
<1>2. Peeked \in Messages
  BY <1>1, WsIs DEF WsTyped
<1>3. ~(Peeked <= Linked)
  BY <1>1, <1>2, WsIs DEF ListInv
<1>4. Peeked = Linked + 1
  <2>1. CASE peek # 0
    BY <1>1, <2>1, WsIs DEF ListInv, Walking
  <2>2. CASE peek = 0
    BY <1>1, <1>3, <2>2, ListTyped DEF Linked, WsTyped
  <2>3. QED
    BY <2>1, <2>2
<1>5. QED
  BY <1>1, <1>4 DEF WsTyped

\* A message is linked at the end of what the clean-up leaves.
LEMMA LinkIs ==
  ASSUME OneSends, WsTyped, ListInv, Link
  PROVE  /\ Peeked = Linked + 1 /\ Peeked \in 1 .. sent /\ Peeked \in Messages
         /\ protocolId[Peeked] = 1
         /\ list' = [list EXCEPT ![1] = Append(Cleaned(1), Peeked)]
         /\ List' = Append(Cleaned(1), Peeked)
         /\ popped' = popped + CleanN(1)
         /\ Linked' = Linked + 1
         /\ msgId' = [msgId EXCEPT ![Peeked] = Linked]
         /\ nextNewMsgId' = [nextNewMsgId EXCEPT ![1] = Linked + 1]
         /\ aud' = [aud EXCEPT ![Peeked] = Of(1)]
<1>1. pc = "peek" /\ Fresh
  BY DEF Link
<1>2. Peeked = Linked + 1 /\ Peeked \in 1 .. sent
  BY <1>1, FreshIsNext
<1>3. Peeked \in Messages /\ protocolId[Peeked] = 1
  BY <1>2, WsIs DEF WsTyped, ListInv
<1>4. /\ list' = [list EXCEPT ![1] = Append(Cleaned(1), Peeked)]
      /\ popped' = popped + CleanN(1)
      /\ msgId' = [msgId EXCEPT ![Peeked] = nextNewMsgId[1]]
      /\ nextNewMsgId' = [nextNewMsgId EXCEPT ![1] = nextNewMsgId[1] + 1]
      /\ aud' = [aud EXCEPT ![Peeked] = Of(1)]
  BY <1>3 DEF Link
<1>5. List' = Append(Cleaned(1), Peeked)
  BY <1>4, WsIs DEF List, WsTyped
<1>6. /\ Cleaned(1) \in Seq(Messages) /\ Len(Cleaned(1)) = Len(List) - CleanN(1)
      /\ CleanN(1) \in Nat /\ Len(List) \in Nat /\ popped \in Nat
  BY CleanIs, ListTyped DEF WsTyped
<1>7. Len(List') = Len(List) - CleanN(1) + 1
  BY <1>3, <1>5, <1>6
<1>8. Linked' = popped' + Len(List')
  BY DEF Linked
<1>9. Linked' = Linked + 1
  BY <1>4, <1>6, <1>7, <1>8, SMTT(60) DEF Linked
<1>10. nextNewMsgId[1] = Linked
  BY DEF ListInv
<1>11. QED
  BY <1>2, <1>3, <1>4, <1>5, <1>9, <1>10

LEMMA LinkTyped ==
  ASSUME OneSends, WsTyped, ListInv, Link
  PROVE  WsTyped' /\ ListInv'
<1> USE WsIs
<1> DEFINE n == CleanN(1)
           m == Peeked
<1>1. /\ m = Linked + 1 /\ m \in 1 .. sent /\ m \in Messages
      /\ list' = [list EXCEPT ![1] = Append(Cleaned(1), m)]
      /\ List' = Append(Cleaned(1), m)
      /\ popped' = popped + n /\ Linked' = Linked + 1
      /\ msgId' = [msgId EXCEPT ![m] = Linked]
      /\ nextNewMsgId' = [nextNewMsgId EXCEPT ![1] = Linked + 1]
      /\ aud' = [aud EXCEPT ![m] = Of(1)]
  BY LinkIs
<1>2. /\ n \in Nat /\ n <= Len(List) /\ popped + n <= sent
      /\ Cleaned(1) \in Seq(Messages)
      /\ Len(Cleaned(1)) = Len(List) - n
      /\ \A i \in 1 .. Len(Cleaned(1)) : Cleaned(1)[i] = List[n + i]
  BY CleanIs
<1>3. /\ peek' = (IF m < sent THEN m + 1 ELSE 0) /\ cur' = m /\ turn' = 0 /\ pc' = "request"
      /\ UNCHANGED <<protocolId, to, sessionN, sent, opened, live, protocol, nextMsgId, requested,
                     got, lossy, calm>>
  BY DEF Link, PeekNext, Goto, sessVars
<1>4. List \in Seq(Messages) /\ Len(List) \in Nat /\ Linked \in Nat /\ popped \in Nat /\ sent \in Nat
  BY ListTyped DEF WsTyped
<1> HIDE DEF n, m
<1>5. WsTyped'
  <2>1. list' \in [Protocols -> Seq(Messages)]
    <3>1. Append(Cleaned(1), m) \in Seq(Messages)
      BY <1>1, <1>2
    <3>2. QED
      BY <1>1, <3>1 DEF WsTyped
  <2>2. msgId' \in [Messages -> {InvalidId} \cup Nat] /\ nextNewMsgId' \in [Protocols -> Nat]
    BY <1>1, <1>4, SMTT(60) DEF WsTyped
  <2>3. aud' \in [Messages -> SUBSET Sessions]
    BY <1>1, ListTyped DEF WsTyped, Of
  <2>4. popped' \in Nat /\ popped' <= sent /\ peek' \in Nat /\ peek' <= sent /\ cur' \in Nat
        /\ cur' <= MaxSend
    BY <1>1, <1>2, <1>3, <1>4 DEF WsTyped
  <2>5. QED
    BY <1>3, <2>1, <2>2, <2>3, <2>4 DEF WsTyped
<1>6. \A i \in 1 .. Len(List') : List'[i] = popped' + i
  <2>1. Len(List') = Len(List) - n + 1
    <3>1. List' = Append(Cleaned(1), m) /\ m \in Messages /\ Cleaned(1) \in Seq(Messages)
      BY <1>1, <1>2
    <3>2. Len(List') = Len(Cleaned(1)) + 1
      BY <3>1
    <3>3. QED
      BY <1>2, <3>2
  <2>2. ASSUME NEW i \in 1 .. (Len(List) - n) PROVE List'[i] = popped' + i
    <3>1. List'[i] = Cleaned(1)[i]
      BY <1>1, <1>2, <2>2, SMTT(60)
    <3>2. n + i \in 1 .. Len(List)
      BY <1>2, <1>4
    <3>3. List[n + i] = popped + (n + i)
      BY <3>2 DEF ListInv
    <3>4. QED
      BY <1>1, <1>2, <1>4, <3>1, <3>3, SMTT(60)
  <2>3. List'[Len(List) - n + 1] = m
    BY <1>1, <1>2
  <2>4. m = popped' + (Len(List) - n + 1)
    BY <1>1, <1>2, <1>4 DEF Linked
  <2>5. ASSUME NEW i \in 1 .. Len(List') PROVE List'[i] = popped' + i
    <3>1. i \in 1 .. (Len(List) - n) \/ i = Len(List) - n + 1
      BY <1>2, <1>4, <2>1
    <3>2. QED
      BY <2>2, <2>3, <2>4, <3>1
  <2>6. QED
    BY <2>5
<1>7. /\ Linked' <= sent' /\ nextNewMsgId'[1] = Linked' /\ (peek' # 0 => peek' > popped')
      /\ (peek' # 0 => peek' = Linked' + 1) /\ cur' \in 1 .. sent'
  <2>1. popped + n <= Linked
    BY <1>2, <1>4 DEF Linked
  <2>2. QED
    BY <1>1, <1>2, <1>3, <1>4, <2>1 DEF WsTyped
<1>8. \A k \in Messages : msgId'[k] = IF k <= Linked' THEN k - 1 ELSE InvalidId
  <2>1. \A k \in Messages : msgId[k] = IF k <= Linked THEN k - 1 ELSE InvalidId
    BY DEF ListInv
  <2>2. \A k \in Messages : msgId'[k] = IF k = m THEN Linked ELSE msgId[k]
    BY <1>1 DEF WsTyped
  <2>3. \A k \in Messages : k <= Linked' <=> k <= Linked \/ k = m
    BY <1>1, <1>4
  <2>4. m - 1 = Linked /\ ~(m <= Linked)
    BY <1>1, <1>4
  <2>5. QED
    BY <2>1, <2>2, <2>3, <2>4
<1>9. ListInv'
  BY <1>3, <1>6, <1>7, <1>8 DEF ListInv
<1>10. QED
  BY <1>5, <1>9

(***************************************************************************)
(* Sessions.  nextMsgId is the last message that a session was given; the  *)
(* sessionN of a message that is listed counts the sessions it was given   *)
(* to, unless one of them was closed (lossy).                              *)
(***************************************************************************)
Listed(m) == popped < m /\ m <= Linked
Had(m) == {s \in live : m <= nextMsgId[s]}

SessInv ==
  /\ \A s \in live : protocol[s] = 1
  /\ \A s \in Sessions : /\ nextMsgId[s] <= Linked
                         /\ s \notin live => nextMsgId[s] = 0 /\ got[s] = <<>>
  /\ \A s \in Sessions : \A k \in Elems(got[s]) : k <= nextMsgId[s]
  /\ \A m \in Messages : /\ aud[m] \subseteq live
                         /\ m > Linked => aud[m] = {} /\ sessionN[m] = 0
  /\ \A m \in Messages : \A s \in aud[m] :
       popped < m /\ Meant(m, s) /\ m <= nextMsgId[s] => m \in Elems(got[s])

GivenInv == ~lossy => \A m \in Messages : Listed(m) => sessionN[m] = Cardinality(Had(m))

\* The list by message, not by place.
LEMMA ListedIs ==
  ASSUME OneSends, WsTyped, ListInv
  PROVE  /\ \A i \in DOMAIN List : /\ List[i] \in Messages /\ List[i] = popped + i
                                   /\ Listed(List[i]) /\ msgId[List[i]] = List[i] - 1
         /\ \A m \in Messages : Listed(m) => /\ m - popped \in DOMAIN List
                                             /\ List[m - popped] = m /\ msgId[m] = m - 1
         /\ Elems(List) = {m \in Messages : Listed(m)}
<1>1. /\ List \in Seq(Messages) /\ Len(List) \in Nat /\ Linked = popped + Len(List)
      /\ popped \in Nat /\ DOMAIN List = 1 .. Len(List) /\ Messages = 1 .. MaxSend
      /\ MaxSend \in Nat
  BY ListTyped, WsIs DEF WsTyped, Linked
<1>2. ASSUME NEW i \in DOMAIN List
      PROVE  /\ List[i] \in Messages /\ List[i] = popped + i
             /\ Listed(List[i]) /\ msgId[List[i]] = List[i] - 1
  <2>1. List[i] \in Messages /\ List[i] = popped + i /\ i \in 1 .. Len(List)
    BY <1>1 DEF ListInv
  <2>2. popped < popped + i /\ popped + i <= Linked
    BY <1>1, <2>1, SMTT(60)
  <2>3. QED
    BY <2>1, <2>2 DEF ListInv, Listed
<1>3. ASSUME NEW m \in Messages, Listed(m)
      PROVE  m - popped \in DOMAIN List /\ List[m - popped] = m /\ msgId[m] = m - 1
  <2>1. m \in Nat /\ popped < m /\ m <= popped + Len(List) /\ m <= Linked
    BY <1>1, <1>3 DEF Listed
  <2>2. m - popped \in 1 .. Len(List)
    BY <1>1, <2>1
  <2>3. List[m - popped] = popped + (m - popped)
    BY <2>2 DEF ListInv
  <2>4. QED
    BY <1>1, <2>1, <2>2, <2>3 DEF ListInv
<1>4. Elems(List) = {m \in Messages : Listed(m)}
  <2>1. \A m : m \in Elems(List) <=> \E i \in DOMAIN List : m = List[i]
    BY DEF Elems
  <2>2. QED
    BY <1>2, <1>3, <2>1
<1>5. QED
  BY <1>2, <1>3, <1>4

\* What a session is given: the messages it has not had, up to the first for it.
LEMMA CountedIs ==
  ASSUME OneSends, WsTyped, ListInv, NEW s \in live, protocol[s] = 1
  PROVE  /\ \A m \in Counted(s) : m \in Messages /\ Listed(m) /\ nextMsgId[s] < m /\ msgId[m] = m - 1
         /\ \A m \in Counted(s) : \A k \in Messages :
              Listed(k) /\ nextMsgId[s] < k /\ k <= m => k \in Counted(s)
         /\ Mine(s) = {} => \A m \in Counted(s) : ~Meant(m, s)
         /\ Mine(s) # {} =>
            /\ List[First(s)] \in Counted(s) /\ Meant(List[First(s)], s)
            /\ \A m \in Counted(s) : m <= List[First(s)]
            /\ \A m \in Counted(s) : Meant(m, s) => m = List[First(s)]
         /\ Given(s) = {} <=> Counted(s) = {}
<1> DEFINE N == New(s)
           M == Mine(s)
           G == Given(s)
           f == First(s)
<1>1. /\ N = {i \in DOMAIN List : msgId[List[i]] >= nextMsgId[s]}
      /\ M = {i \in N : Meant(List[i], s)}
      /\ f = CHOOSE i \in M : \A j \in M : i <= j
      /\ G = (IF M = {} THEN N ELSE {i \in N : i <= f})
      /\ Counted(s) = {List[i] : i \in G}
  BY DEF List, New, Mine, First, Given, Counted
<1> HIDE DEF N, M, G, f
<1>2. /\ popped \in Nat /\ nextMsgId[s] \in Nat /\ DOMAIN List \subseteq Nat
      /\ Messages \subseteq Nat
  <2>1. s \in Sessions /\ List \in Seq(Messages)
    BY ListTyped
  <2>2. DOMAIN List = 1 .. Len(List) /\ Len(List) \in Nat
    BY <2>1
  <2>3. Messages = 1 .. MaxSend /\ MaxSend \in Nat
    BY WsIs
  <2>4. popped \in Nat /\ nextMsgId[s] \in Nat
    BY <2>1 DEF WsTyped
  <2>5. QED
    BY <2>2, <2>3, <2>4
<1>3. /\ \A i \in DOMAIN List : /\ List[i] \in Messages /\ List[i] = popped + i
                                /\ Listed(List[i]) /\ msgId[List[i]] = List[i] - 1
      /\ \A m \in Messages : Listed(m) => m - popped \in DOMAIN List /\ List[m - popped] = m
  BY ListedIs
<1>4. \A i \in DOMAIN List : i \in N <=> nextMsgId[s] < List[i]
  BY <1>1, <1>2, <1>3
<1>5. M # {} => f \in M /\ \A j \in M : f <= j
  <2>1. M \subseteq Nat
    BY <1>1, <1>2
  <2>2. M # {} => \E i \in M : \A j \in M : i <= j
    BY <2>1, LeastNat
  <2>3. QED
    BY <1>1, <2>2
<1>6. G \subseteq N /\ N \subseteq DOMAIN List /\ M \subseteq N
  BY <1>1
<1>7. \A m \in Counted(s) :
        m \in Messages /\ Listed(m) /\ nextMsgId[s] < m /\ msgId[m] = m - 1
        /\ m - popped \in G /\ List[m - popped] = m
  BY <1>1, <1>2, <1>3, <1>4, <1>6
<1>8. ASSUME NEW m \in Counted(s), NEW k \in Messages, Listed(k), nextMsgId[s] < k, k <= m
      PROVE  k \in Counted(s)
  <2>1. k - popped \in N /\ List[k - popped] = k
    BY <1>3, <1>4, <1>8
  <2>2. m - popped \in G /\ k - popped <= m - popped /\ m - popped \in Nat /\ k - popped \in Nat
    BY <1>2, <1>3, <1>6, <1>7, <1>8
  <2>3. k - popped \in G
    <3>1. CASE M = {}
      BY <1>1, <2>1, <3>1
    <3>2. CASE M # {}
      <4>1. m - popped <= f /\ f \in Nat
        BY <1>1, <1>2, <1>5, <1>6, <2>2, <3>2
      <4>2. k - popped <= f
        BY <2>2, <4>1
      <4>3. QED
        BY <1>1, <2>1, <3>2, <4>2
    <3>3. QED
      BY <3>1, <3>2
  <2>4. QED
    BY <1>1, <2>1, <2>3
<1>9. ASSUME M = {}, NEW m \in Counted(s) PROVE ~Meant(m, s)
  BY <1>1, <1>6, <1>7, <1>9
<1>10. ASSUME M # {}
       PROVE  /\ List[f] \in Counted(s) /\ Meant(List[f], s)
              /\ \A m \in Counted(s) : m <= List[f] /\ (Meant(m, s) => m = List[f])
  <2>1. f \in M /\ f \in N /\ f \in Nat /\ f \in G /\ List[f] = popped + f
    BY <1>1, <1>2, <1>3, <1>5, <1>6, <1>10
  <2>2. List[f] \in Counted(s) /\ Meant(List[f], s)
    <3>1. Counted(s) = {List[i] : i \in G} /\ M = {i \in N : Meant(List[i], s)}
      BY <1>1
    <3>2. QED
      BY <2>1, <3>1
  <2>3. ASSUME NEW m \in Counted(s) PROVE m <= List[f] /\ (Meant(m, s) => m = List[f])
    <3>1. m - popped \in G /\ List[m - popped] = m /\ m \in Nat /\ m - popped \in N
      BY <1>2, <1>6, <1>7
    <3>2. m - popped <= f
      BY <1>1, <1>10, <3>1
    <3>3. Meant(m, s) => f <= m - popped
      BY <1>1, <1>5, <1>10, <3>1
    <3>4. m - popped \in Nat
      BY <1>2, <1>6, <3>1
    <3>5. QED
      BY <1>2, <2>1, <3>1, <3>2, <3>3, <3>4
  <2>4. QED
    BY <2>2, <2>3
<1>11. G = {} <=> Counted(s) = {}
  BY <1>1
<1>12. QED
  BY <1>7, <1>8, <1>9, <1>10, <1>11 DEF M, G, f

\* Nor is sessionN ever more than the sessions that were opened.
HadOrGone(m) == {s \in 1 .. opened : s \notin live \/ m <= nextMsgId[s]}
BoundInv == \A m \in Messages : sessionN[m] <= Cardinality(HadOrGone(m))

WsInv == WsTyped /\ ListInv /\ SessInv /\ GivenInv /\ BoundInv /\ NoneLost

LEMMA HadFinite ==
  ASSUME OneSends, WsTyped
  PROVE  /\ IsFiniteSet(live) /\ Cardinality(live) \in Nat
         /\ \A m : /\ Had(m) \subseteq live /\ IsFiniteSet(Had(m)) /\ Cardinality(Had(m)) \in Nat
                   /\ HadOrGone(m) \subseteq 1 .. opened
                   /\ IsFiniteSet(HadOrGone(m)) /\ Cardinality(HadOrGone(m)) \in Nat
<1>1. IsFiniteSet(1 .. opened)
  BY FS_Interval DEF WsTyped
<1>2. live \in SUBSET (1 .. opened) /\ \A m : Had(m) \in SUBSET (1 .. opened)
                                  /\ HadOrGone(m) \in SUBSET (1 .. opened)
  BY DEF WsTyped, Had, HadOrGone
<1>3. /\ IsFiniteSet(live)
      /\ \A m : IsFiniteSet(Had(m)) /\ IsFiniteSet(HadOrGone(m))
  BY <1>1, <1>2, FS_Subset
<1>4. /\ Cardinality(live) \in Nat
      /\ \A m : Cardinality(Had(m)) \in Nat /\ Cardinality(HadOrGone(m)) \in Nat
  BY <1>3, FS_CardinalityType
<1>5. QED
  BY <1>2, <1>3, <1>4 DEF Had, HadOrGone

\* The places of what is left after the clean-up.
LEMMA CleanShift ==
  ASSUME OneSends, WsTyped, ListInv
  PROVE  \A i \in 1 .. Len(Cleaned(1)) : Cleaned(1)[i] = popped + CleanN(1) + i
<1>1. /\ CleanN(1) \in Nat /\ CleanN(1) <= Len(List)
      /\ Len(Cleaned(1)) = Len(List) - CleanN(1)
      /\ \A i \in 1 .. Len(Cleaned(1)) : Cleaned(1)[i] = List[CleanN(1) + i]
      /\ Len(List) \in Nat /\ popped \in Nat
  BY CleanIs, ListTyped DEF WsTyped
<1>2. ASSUME NEW i \in 1 .. Len(Cleaned(1))
      PROVE  Cleaned(1)[i] = popped + CleanN(1) + i
  <2>1. CleanN(1) + i \in 1 .. Len(List)
    BY <1>1
  <2>2. List[CleanN(1) + i] = popped + (CleanN(1) + i)
    BY <2>1 DEF ListInv
  <2>3. QED
    BY <1>1, <2>2
<1>3. QED
  BY <1>2

\* What is removed has been written to all it was for.
LEMMA CleanedWritten ==
  ASSUME OneSends, WsInv, ~lossy, NEW m \in Messages, popped < m, m <= popped + CleanN(1),
         NEW s \in aud[m], Meant(m, s)
  PROVE  m \in Elems(got[s])
<1>1. WsTyped /\ ListInv /\ SessInv /\ GivenInv
  BY DEF WsInv
<1>2. /\ CleanN(1) \in Nat /\ CleanN(1) <= Len(List)
      /\ \A i \in 1 .. CleanN(1) : SentToAll(List[i], 1)
      /\ Len(List) \in Nat /\ popped \in Nat /\ m \in Nat
  <2>1. Messages = 1 .. MaxSend /\ MaxSend \in Nat
    BY WsIs
  <2>2. m \in Nat
    BY <2>1
  <2>3. QED
    BY <1>1, <2>2, CleanIs, ListTyped DEF WsTyped
<1>3. Listed(m)
  BY <1>2 DEF Listed, Linked
<1>4. m - popped \in 1 .. CleanN(1) /\ List[m - popped] = m
  BY <1>1, <1>2, <1>3, ListedIs
<1>5. sessionN[m] >= Cardinality(live)
  <2>1. SentToAll(m, 1)
    BY <1>2, <1>4
  <2>2. Of(1) = live
    BY <1>1 DEF Of, SessInv
  <2>3. SessionN(1) = Cardinality(live)
    BY <2>2 DEF SessionN
  <2>4. QED
    BY <2>1, <2>3 DEF SentToAll
<1>6. sessionN[m] = Cardinality(Had(m))
  BY <1>1, <1>3 DEF GivenInv
<1>7. Had(m) = live
  <2>1. Had(m) \in SUBSET live /\ IsFiniteSet(live) /\ Cardinality(live) \in Nat
        /\ Cardinality(Had(m)) \in Nat
    BY <1>1, HadFinite
  <2>2. Cardinality(Had(m)) <= Cardinality(live)
        /\ (Cardinality(Had(m)) = Cardinality(live) => Had(m) = live)
    BY <2>1, FS_Subset
  <2>3. QED
    BY <1>5, <1>6, <2>1, <2>2
<1>8. s \in live
  BY <1>1 DEF SessInv
<1>9. m <= nextMsgId[s]
  BY <1>7, <1>8 DEF Had
<1>10. QED
  BY <1>1, <1>9 DEF SessInv

\* What a call for a writable session does.
LEMMA WriteIs ==
  ASSUME OneSends, WsInv, NEW s \in Sessions, Writeable(s)
  PROVE  /\ s \in live /\ requested' = requested \ {s}
         /\ UNCHANGED <<protocolId, to, msgId, sent, popped, peek, list, nextNewMsgId, opened, live,
                        protocol, pc, cur, turn, aud, lossy, calm>>
         /\ \E q \in Nat :
              /\ nextMsgId' = [nextMsgId EXCEPT ![s] = q]
              /\ nextMsgId[s] <= q /\ q <= Linked
              /\ sessionN' = [m \in Messages |->
                           sessionN[m] + IF Listed(m) /\ nextMsgId[s] < m /\ m <= q THEN 1 ELSE 0]
              /\ \/ /\ got' = got
                    /\ \A m \in Messages :
                         Listed(m) /\ nextMsgId[s] < m /\ m <= q => ~Meant(m, s)
                 \/ \E f \in Messages :
                      /\ got' = [got EXCEPT ![s] = Append(got[s], f)]
                      /\ Listed(f) /\ nextMsgId[s] < f /\ f <= q /\ Meant(f, s)
                      /\ \A m \in Messages :
                           Listed(m) /\ nextMsgId[s] < m /\ m <= q /\ Meant(m, s) => m = f
<1>1. WsTyped /\ ListInv /\ SessInv
  BY DEF WsInv
<1>2. s \in live /\ protocol[s] = 1 /\ nextMsgId[s] \in Nat /\ nextMsgId[s] <= Linked
  BY <1>1 DEF Writeable, WsTyped, SessInv
<1>3. /\ requested' = requested \ {s}
      /\ UNCHANGED <<protocolId, to, msgId, sent, popped, peek, list, nextNewMsgId, opened, live,
                     protocol, pc, cur, turn, aud, lossy, calm>>
      /\ sessionN' = [m \in Messages |-> sessionN[m] + IF m \in Counted(s) THEN 1 ELSE 0]
      /\ got' = IF Mine(s) = {} THEN got
                ELSE [got EXCEPT ![s] = Append(got[s], List[First(s)])]
  BY <1>2 DEF Writeable, queueVars, listVars, execVars, List
<1> DEFINE Pass(q) == /\ nextMsgId' = [nextMsgId EXCEPT ![s] = q]
                      /\ nextMsgId[s] <= q /\ q <= Linked
                      /\ \A m \in Messages :
                           m \in Counted(s) <=> Listed(m) /\ nextMsgId[s] < m /\ m <= q
<1>4. /\ \A m \in Counted(s) : m \in Messages /\ Listed(m) /\ nextMsgId[s] < m /\ msgId[m] = m - 1
      /\ \A m \in Counted(s) : \A k \in Messages :
           Listed(k) /\ nextMsgId[s] < k /\ k <= m => k \in Counted(s)
      /\ Given(s) = {} <=> Counted(s) = {}
  BY <1>1, <1>2, CountedIs
<1>5. Messages \subseteq Nat /\ Linked \in Nat
  BY <1>1, WsIs, ListTyped
<1>6. \E q \in Nat : Pass(q)
  <2>1. CASE Given(s) = {}
    <3>1. nextMsgId' = [nextMsgId EXCEPT ![s] = nextMsgId[s]]
      BY <1>1, <2>1 DEF Writeable, WsTyped
    <3>2. Counted(s) = {}
      BY <1>4, <2>1
    <3>3. ASSUME NEW m \in Messages PROVE ~(nextMsgId[s] < m /\ m <= nextMsgId[s])
      <4>1. m \in Nat /\ nextMsgId[s] \in Nat
        BY <1>2, <1>5
      <4>2. QED
        BY <4>1
    <3>4. nextMsgId[s] <= nextMsgId[s]
      BY <1>2
    <3>5. Pass(nextMsgId[s])
      BY <1>2, <3>1, <3>2, <3>3, <3>4
    <3> HIDE DEF Pass
    <3>6. QED
      BY <1>2, <3>5
  <2>2. CASE Given(s) # {}
    <3>1. PICK q \in Counted(s) : /\ \A k \in Counted(s) : msgId[k] <= msgId[q]
                                  /\ nextMsgId' = [nextMsgId EXCEPT ![s] = msgId[q] + 1]
      BY <2>2 DEF Writeable
    <3>2. q \in Messages /\ q \in Nat /\ Listed(q) /\ nextMsgId[s] < q /\ msgId[q] = q - 1
      BY <1>4, <1>5
    <3>3. \A k \in Counted(s) : k <= q
      BY <1>4, <1>5, <3>1, <3>2
    <3>4. nextMsgId' = [nextMsgId EXCEPT ![s] = q]
      BY <3>1, <3>2
    <3>5. \A m \in Messages :
            m \in Counted(s) <=> Listed(m) /\ nextMsgId[s] < m /\ m <= q
      BY <1>4, <3>3
    <3>6. nextMsgId[s] <= q /\ q <= Linked
      BY <1>2, <3>2 DEF Listed
    <3>7. Pass(q)
      BY <3>4, <3>5, <3>6
    <3> HIDE DEF Pass
    <3>8. QED
      BY <3>2, <3>7
  <2>3. QED
    BY <2>1, <2>2
<1>7. PICK q \in Nat : Pass(q)
  BY <1>6
<1>8. sessionN' = [m \in Messages |->
                sessionN[m] + IF Listed(m) /\ nextMsgId[s] < m /\ m <= q THEN 1 ELSE 0]
  BY <1>3, <1>7
<1>9. \/ /\ got' = got
         /\ \A m \in Messages : Listed(m) /\ nextMsgId[s] < m /\ m <= q => ~Meant(m, s)
      \/ \E f \in Messages :
           /\ got' = [got EXCEPT ![s] = Append(got[s], f)]
           /\ Listed(f) /\ nextMsgId[s] < f /\ f <= q /\ Meant(f, s)
           /\ \A m \in Messages :
                Listed(m) /\ nextMsgId[s] < m /\ m <= q /\ Meant(m, s) => m = f
  <2>1. CASE Mine(s) = {}
    <3>1. \A m \in Counted(s) : ~Meant(m, s)
      BY <1>1, <1>2, <2>1, CountedIs
    <3>2. QED
      BY <1>3, <1>7, <2>1, <3>1
  <2>2. CASE Mine(s) # {}
    <3>1. /\ List[First(s)] \in Counted(s) /\ Meant(List[First(s)], s)
          /\ \A m \in Counted(s) : Meant(m, s) => m = List[First(s)]
      BY <1>1, <1>2, <2>2, CountedIs
    <3>2. List[First(s)] \in Messages
      BY <1>4, <3>1
    <3>3. got' = [got EXCEPT ![s] = Append(got[s], List[First(s)])]
      BY <1>3, <2>2
    <3>4. QED
      BY <1>7, <3>1, <3>2, <3>3
  <2>3. QED
    BY <2>1, <2>2
<1>10. QED
  BY <1>2, <1>3, <1>7, <1>8, <1>9

\* A session is written: it is given the next messages.
LEMMA WriteKeeps ==
  ASSUME OneSends, WsInv, NEW s \in Sessions, Writeable(s)
  PROVE  WsInv'
<1>1. WsTyped /\ ListInv /\ SessInv /\ GivenInv /\ BoundInv /\ NoneLost
  BY DEF WsInv
<1>2. /\ s \in live /\ requested' = requested \ {s}
      /\ UNCHANGED <<protocolId, to, msgId, sent, popped, peek, list, nextNewMsgId, opened, live,
                     protocol, pc, cur, turn, aud, lossy, calm>>
  BY WriteIs
<1>3. PICK q \in Nat :
        /\ nextMsgId' = [nextMsgId EXCEPT ![s] = q]
        /\ nextMsgId[s] <= q /\ q <= Linked
        /\ sessionN' = [m \in Messages |->
                     sessionN[m] + IF Listed(m) /\ nextMsgId[s] < m /\ m <= q THEN 1 ELSE 0]
        /\ \/ /\ got' = got
              /\ \A m \in Messages :
                   Listed(m) /\ nextMsgId[s] < m /\ m <= q => ~Meant(m, s)
           \/ \E f \in Messages :
                /\ got' = [got EXCEPT ![s] = Append(got[s], f)]
                /\ Listed(f) /\ nextMsgId[s] < f /\ f <= q /\ Meant(f, s)
                /\ \A m \in Messages :
                     Listed(m) /\ nextMsgId[s] < m /\ m <= q /\ Meant(m, s) => m = f
  BY WriteIs
<1>4. /\ Messages \subseteq Nat /\ Linked \in Nat /\ popped \in Nat /\ nextMsgId[s] \in Nat
      /\ nextMsgId \in [Sessions -> Nat] /\ sessionN \in [Messages -> Nat]
      /\ got \in [Sessions -> Seq(Messages)]
  BY <1>1, WsIs, ListTyped, SMTT(60) DEF WsTyped
<1>5. \A u \in Sessions : /\ u # s => nextMsgId'[u] = nextMsgId[u] /\ got'[u] = got[u]
                          /\ nextMsgId[u] <= nextMsgId'[u]
      /\ nextMsgId'[s] = q
  BY <1>3, <1>4
\* What it is written it was given.
<1>6. /\ got' \in [Sessions -> Seq(Messages)]
      /\ Elems(got[s]) \subseteq Elems(got'[s])
      /\ \A k \in Elems(got'[s]) : k \in Elems(got[s]) \/ k <= q
      /\ \A m \in Messages : Listed(m) /\ nextMsgId[s] < m /\ m <= q /\ Meant(m, s) =>
                               m \in Elems(got'[s])
  <2>1. CASE got' = got
    BY <1>3, <1>4, <2>1 DEF Elems
  <2>2. CASE got' # got
    <3>1. PICK f \in Messages :
            /\ got' = [got EXCEPT ![s] = Append(got[s], f)]
            /\ Listed(f) /\ nextMsgId[s] < f /\ f <= q
            /\ \A m \in Messages :
                 Listed(m) /\ nextMsgId[s] < m /\ m <= q /\ Meant(m, s) => m = f
      BY <1>3, <2>2
    <3>2. got'[s] = Append(got[s], f) /\ got[s] \in Seq(Messages)
      BY <1>4, <3>1
    <3>3. Elems(got'[s]) = Elems(got[s]) \cup {f}
      <4>1. /\ DOMAIN got[s] = 1 .. Len(got[s]) /\ Len(got[s]) \in Nat
            /\ DOMAIN got'[s] = 1 .. (Len(got[s]) + 1)
            /\ \A i \in 1 .. Len(got[s]) : got'[s][i] = got[s][i]
            /\ got'[s][Len(got[s]) + 1] = f
        BY <3>2
      <4>2. \A i \in DOMAIN got'[s] : i \in DOMAIN got[s] \/ i = Len(got[s]) + 1
        BY <4>1
      <4>3. Len(got[s]) + 1 \in DOMAIN got'[s] /\ DOMAIN got[s] \subseteq DOMAIN got'[s]
        BY <4>1
      <4>4. QED
        BY <4>1, <4>2, <4>3 DEF Elems
    <3>4. got' \in [Sessions -> Seq(Messages)]
      BY <1>4, <3>1
    <3>5. QED
      BY <3>1, <3>3, <3>4
  <2>3. QED
    BY <2>1, <2>2
<1>7. WsTyped'
  <2>1. nextMsgId' \in [Sessions -> Nat] /\ sessionN' \in [Messages -> Nat]
    BY <1>3, <1>4
  <2>2. requested' \subseteq live
    BY <1>1, <1>2 DEF WsTyped
  <2>3. QED
    BY <1>1, <1>2, <1>6, <2>1, <2>2 DEF WsTyped
<1>8. ListInv'
  BY <1>1, <1>2, ListSame DEF Walking
<1>9. Linked' = Linked /\ List' = List /\ \A m : Listed(m)' <=> Listed(m)
  BY <1>2 DEF Linked, List, Listed
<1>10. \A m, u : Meant(m, u)' <=> Meant(m, u)
  BY <1>2 DEF Meant
<1>11. SessInv'
  <2>1. \A u \in Sessions : nextMsgId'[u] <= Linked'
    BY <1>1, <1>3, <1>5, <1>9 DEF SessInv
  <2>2. \A u \in Sessions : u \notin live' => nextMsgId'[u] = 0 /\ got'[u] = <<>>
    BY <1>1, <1>2, <1>5 DEF SessInv
  <2>3. ASSUME NEW u \in Sessions, NEW k \in Elems(got'[u]) PROVE k <= nextMsgId'[u]
    <3>1. CASE u # s
      BY <1>1, <1>5, <2>3, <3>1 DEF SessInv
    <3>2. CASE u = s
      <4>1. k \in Elems(got[s]) \/ k <= q
        BY <1>6, <2>3, <3>2
      <4>2. CASE k \in Elems(got[s])
        <5>1. k <= nextMsgId[s]
          BY <1>1, <4>2 DEF SessInv
        <5>2. k \in Messages
          <6>1. got[s] \in Seq(Messages)
            BY <1>4
          <6>2. QED
            BY <4>2, <6>1 DEF Elems
        <5>3. k \in Nat
          BY <1>4, <5>2
        <5>4. QED
          BY <1>3, <1>4, <1>5, <3>2, <5>1, <5>3
      <4>3. QED
        BY <1>5, <3>2, <4>1, <4>2
    <3>3. QED
      BY <3>1, <3>2
  <2>4. \A m \in Messages : /\ aud'[m] \subseteq live'
                            /\ m > Linked' => aud'[m] = {} /\ sessionN'[m] = 0
    <3>1. \A m \in Messages : m > Linked => ~Listed(m)
      BY <1>4 DEF Listed
    <3>2. QED
      BY <1>1, <1>2, <1>3, <1>9, <3>1 DEF SessInv
  <2>5. ASSUME NEW m \in Messages, NEW u \in aud[m], popped < m, Meant(m, u),
               m <= nextMsgId'[u]
        PROVE  m \in Elems(got'[u])
    <3>1. u \in live /\ u \in Sessions
      BY <1>1, ListTyped DEF SessInv
    <3>2. CASE m <= nextMsgId[u]
      BY <1>1, <1>5, <1>6, <2>5, <3>1, <3>2 DEF SessInv
    <3>3. CASE ~(m <= nextMsgId[u])
      <4>1. u = s /\ m <= q /\ nextMsgId[s] < m
        BY <1>4, <1>5, <2>5, <3>1, <3>3
      <4>2. Listed(m)
        BY <1>3, <1>4, <2>5, <4>1 DEF Listed
      <4>3. QED
        BY <1>6, <2>5, <4>1, <4>2
    <3>4. QED
      BY <3>2, <3>3
  <2>6. QED
    BY <1>1, <1>2, <1>10, <2>1, <2>2, <2>3, <2>4, <2>5 DEF SessInv
\* Each message that it is given counts it.
<1>12. GivenInv'
  <2> SUFFICES ASSUME ~lossy', NEW m \in Messages, Listed(m)'
               PROVE  sessionN'[m] = Cardinality(Had(m)')
    BY DEF GivenInv
  <2>1. Listed(m) /\ sessionN[m] = Cardinality(Had(m)) /\ sessionN[m] \in Nat
    BY <1>1, <1>2, <1>4, <1>9 DEF GivenInv
  <2>2. CASE nextMsgId[s] < m /\ m <= q
    <3>1. sessionN'[m] = sessionN[m] + 1
      BY <1>3, <2>1, <2>2
    <3>2. Had(m)' = Had(m) \cup {s} /\ s \notin Had(m)
      <4>1. \A u \in live : m <= nextMsgId'[u] <=> m <= nextMsgId[u] \/ u = s
        BY <1>1, <1>4, <1>5, <2>2, ListTyped
      <4>2. ~(m <= nextMsgId[s])
        BY <1>4, <2>2
      <4>3. QED
        BY <1>2, <4>1, <4>2 DEF Had
    <3>3. QED
      BY <1>1, <2>1, <3>1, <3>2, HadFinite, FS_AddElement
  <2>3. CASE ~(nextMsgId[s] < m /\ m <= q)
    <3>1. sessionN'[m] = sessionN[m]
      BY <1>3, <2>1, <2>3
    <3>2. \A u \in live : m <= nextMsgId'[u] <=> m <= nextMsgId[u]
      BY <1>1, <1>3, <1>4, <1>5, <2>3, ListTyped
    <3>3. Had(m)' = Had(m)
      BY <1>2, <3>2 DEF Had
    <3>4. QED
      BY <2>1, <3>1, <3>3
  <2>4. QED
    BY <2>2, <2>3
<1>13. BoundInv'
  <2> SUFFICES ASSUME NEW m \in Messages
               PROVE  sessionN'[m] <= Cardinality(HadOrGone(m)')
    BY DEF BoundInv
  <2>1. sessionN[m] <= Cardinality(HadOrGone(m)) /\ sessionN[m] \in Nat /\ m \in Nat
    BY <1>1, <1>4 DEF BoundInv
  <2>2. /\ IsFiniteSet(HadOrGone(m)) /\ Cardinality(HadOrGone(m)) \in Nat
        /\ IsFiniteSet(HadOrGone(m)') /\ Cardinality(HadOrGone(m)') \in Nat
    <3>1. IsFiniteSet(1 .. opened)
      BY <1>1, FS_Interval DEF WsTyped
    <3>2. HadOrGone(m)' \in SUBSET (1 .. opened)
      BY <1>2 DEF HadOrGone
    <3>3. QED
      BY <1>1, <3>1, <3>2, HadFinite, FS_Subset, FS_CardinalityType
  <2>3. HadOrGone(m) \subseteq HadOrGone(m)'
    <3>1. \A u \in live : m <= nextMsgId[u] => m <= nextMsgId'[u]
      BY <1>1, <1>4, <1>3, <1>5, <2>1, ListTyped
    <3>2. QED
      BY <1>2, <3>1 DEF HadOrGone
  <2>4. CASE Listed(m) /\ nextMsgId[s] < m /\ m <= q
    <3>1. sessionN'[m] = sessionN[m] + 1
      BY <1>3, <2>4
    <3>2. s \in HadOrGone(m)' /\ s \notin HadOrGone(m)
      BY <1>1, <1>2, <1>4, <1>5, <2>1, <2>4 DEF HadOrGone, WsTyped
    <3>3. IsFiniteSet(HadOrGone(m) \cup {s}) /\ Cardinality(HadOrGone(m) \cup {s}) = Cardinality(HadOrGone(m)) + 1
      BY <2>2, <3>2, FS_AddElement
    <3>4. Cardinality(HadOrGone(m) \cup {s}) <= Cardinality(HadOrGone(m)')
      BY <2>2, <2>3, <3>2, FS_Subset
    <3>5. QED
      BY <2>1, <2>2, <3>1, <3>3, <3>4
  <2>5. CASE ~(Listed(m) /\ nextMsgId[s] < m /\ m <= q)
    <3>1. sessionN'[m] = sessionN[m]
      BY <1>3, <2>1, <2>5
    <3>2. Cardinality(HadOrGone(m)) <= Cardinality(HadOrGone(m)')
      BY <2>2, <2>3, FS_Subset
    <3>3. QED
      BY <2>1, <2>2, <3>1, <3>2
  <2>6. QED
    BY <2>4, <2>5
<1>14. NoneLost'
  <2>1. \A u \in Sessions : Elems(got[u]) \subseteq Elems(got'[u])
    BY <1>5, <1>6
  <2>2. \A m \in 1 .. popped : m \in Messages
    BY <1>1, WsIs DEF WsTyped
  <2>3. \A m \in 1 .. popped : \A u \in aud[m] : u \in Sessions
    BY <1>1, <2>2 DEF WsTyped
  <2>4. QED
    BY <1>1, <1>2, <1>10, <2>1, <2>3 DEF NoneLost
<1>15. QED
  BY <1>7, <1>8, <1>11, <1>12, <1>13, <1>14 DEF WsInv

\* A step that leaves the sessions, and what they were given, alone.
LEMMA QuietKeeps ==
  ASSUME OneSends, WsInv, WsTyped', ListInv',
         UNCHANGED <<popped, list, opened, live, protocol, nextMsgId, sessionN, got, aud, lossy>>,
         \A m \in 1 .. sent : to'[m] = to[m]
  PROVE  WsInv'
<1>1. WsTyped /\ ListInv /\ SessInv /\ GivenInv /\ BoundInv /\ NoneLost
  BY DEF WsInv
<1>2. /\ Messages \subseteq Nat /\ Messages = 1 .. MaxSend /\ Linked \in Nat
      /\ Linked <= sent /\ popped <= sent /\ sent \in Nat /\ popped \in Nat
  <2>1. Messages = 1 .. MaxSend /\ MaxSend \in Nat
    BY WsIs
  <2>2. QED
    BY <1>1, <2>1, ListTyped DEF WsTyped, ListInv
<1>3. Linked' = Linked /\ \A m : (Listed(m)' <=> Listed(m)) /\ Had(m)' = Had(m)
                                 /\ HadOrGone(m)' = HadOrGone(m)
  BY DEF Linked, List, Listed, Had, HadOrGone
<1>4. \A m \in 1 .. sent : \A s : Meant(m, s)' <=> Meant(m, s)
  BY DEF Meant
<1>5. SessInv'
  <2>1. ASSUME NEW m \in Messages, NEW s \in aud[m], popped < m, Meant(m, s)',
               m <= nextMsgId[s]
        PROVE  m \in Elems(got[s])
    <3>1. ~(m > Linked)
      BY <1>1, <2>1 DEF SessInv
    <3>2. m \in 1 .. sent
      BY <1>2, <3>1
    <3>3. QED
      BY <1>1, <1>4, <2>1, <3>2 DEF SessInv
  <2>2. QED
    BY <1>1, <1>3, <2>1 DEF SessInv
<1>6. GivenInv' /\ BoundInv'
  BY <1>1, <1>3 DEF GivenInv, BoundInv
<1>7. NoneLost'
  <2>1. \A m \in 1 .. popped : m \in 1 .. sent
    BY <1>2
  <2>2. QED
    BY <1>1, <1>4, <2>1 DEF NoneLost
<1>8. QED
  BY <1>5, <1>6, <1>7 DEF WsInv

\* A clean-up, and a message that may be linked after it.
LEMMA CleanKeeps ==
  ASSUME OneSends, WsInv, WsTyped', ListInv', popped' = popped + CleanN(1),
         Linked <= Linked', \A m \in Messages : m <= Linked => aud'[m] = aud[m],
         \A m \in Messages : aud'[m] \subseteq live /\ (m > Linked' => aud'[m] = {}),
         UNCHANGED <<to, opened, live, protocol, nextMsgId, sessionN, got, lossy>>
  PROVE  WsInv'
<1>1. WsTyped /\ ListInv /\ SessInv /\ GivenInv /\ BoundInv /\ NoneLost
  BY DEF WsInv
<1>2. /\ Messages \subseteq Nat /\ Linked \in Nat /\ Linked' \in Nat
      /\ popped \in Nat /\ popped' \in Nat /\ popped <= popped' /\ popped' <= Linked
      /\ CleanN(1) \in Nat
  <2>1. Messages = 1 .. MaxSend /\ MaxSend \in Nat
    BY WsIs
  <2>2. Linked \in Nat /\ popped \in Nat /\ popped' \in Nat /\ Len(List) \in Nat
    BY <1>1, ListTyped DEF WsTyped
  <2>3. CleanN(1) \in Nat /\ CleanN(1) <= Len(List)
    BY <1>1, CleanIs
  <2>4. Linked' \in Nat
    <3>1. Linked' = nextNewMsgId'[1]
      BY DEF ListInv
    <3>2. nextNewMsgId'[1] \in Nat
      BY WsIs DEF WsTyped
    <3>3. QED
      BY <3>1, <3>2
  <2>5. QED
    BY <2>1, <2>2, <2>3, <2>4, SMTT(60) DEF Linked
<1>3. \A m : Had(m)' = Had(m) /\ HadOrGone(m)' = HadOrGone(m)
  BY DEF Had, HadOrGone
<1>4. \A m, s : Meant(m, s)' <=> Meant(m, s)
  BY DEF Meant
<1>5. \A s \in Sessions : nextMsgId[s] \in Nat /\ nextMsgId[s] <= Linked
  BY <1>1 DEF WsTyped, SessInv
<1>6. live \subseteq Sessions
  BY <1>1, ListTyped
<1>7. SessInv'
  <2>1. \A s \in Sessions : nextMsgId[s] <= Linked'
    BY <1>2, <1>5
  <2>2. \A m \in Messages : m > Linked' => aud'[m] = {} /\ sessionN[m] = 0
    <3>1. ASSUME NEW m \in Messages, m > Linked' PROVE m > Linked
      <4>1. m \in Nat /\ Linked \in Nat /\ Linked' \in Nat /\ Linked <= Linked'
        BY <1>2
      <4>2. QED
        BY <3>1, <4>1
    <3>2. QED
      BY <1>1, <3>1 DEF SessInv
  <2>3. ASSUME NEW m \in Messages, NEW s \in aud'[m], popped' < m, Meant(m, s),
               m <= nextMsgId[s]
        PROVE  m \in Elems(got[s])
    <3>1. s \in Sessions
      BY <1>6
    <3>2. popped < m /\ m <= Linked
      BY <1>2, <1>5, <2>3, <3>1
    <3>3. s \in aud[m]
      BY <2>3, <3>2
    <3>4. QED
      BY <1>1, <2>3, <3>2, <3>3 DEF SessInv
  <2>4. QED
    BY <1>1, <1>4, <2>1, <2>2, <2>3 DEF SessInv
<1>8. GivenInv'
  <2> SUFFICES ASSUME ~lossy, NEW m \in Messages, Listed(m)'
               PROVE  sessionN[m] = Cardinality(Had(m))
    BY <1>3 DEF GivenInv
  <2>1. popped < m /\ m <= Linked' /\ m \in Nat
    BY <1>2 DEF Listed
  <2>2. CASE m <= Linked
    BY <1>1, <2>1, <2>2 DEF GivenInv, Listed
  <2>3. CASE ~(m <= Linked)
    <3>1. sessionN[m] = 0
      BY <1>1, <1>2, <2>1, <2>3 DEF SessInv
    <3>2. \A s \in live : ~(m <= nextMsgId[s])
      BY <1>2, <1>5, <1>6, <2>1, <2>3
    <3>3. Had(m) = {}
      BY <3>2 DEF Had
    <3>4. QED
      BY <3>1, <3>3, FS_EmptySet
  <2>4. QED
    BY <2>2, <2>3
<1>9. BoundInv'
  BY <1>1, <1>3 DEF BoundInv
<1>10. NoneLost'
  <2> SUFFICES ASSUME ~lossy, NEW m \in 1 .. popped', NEW s \in aud'[m], Meant(m, s)
               PROVE  m \in Elems(got[s])
    BY <1>4 DEF NoneLost
  <2>1. m \in Messages /\ m <= Linked /\ m \in Nat
    <3>1. m \in Nat /\ 1 <= m /\ m <= popped' /\ popped' <= sent' /\ sent' <= MaxSend
          /\ sent' \in Nat /\ MaxSend \in Nat
      BY <1>2, WsIs DEF WsTyped
    <3>2. QED
      BY <1>2, <3>1, WsIs
  <2>2. s \in aud[m]
    BY <2>1
  <2>3. CASE m <= popped
    BY <1>1, <1>2, <2>1, <2>2, <2>3 DEF NoneLost
  <2>4. CASE ~(m <= popped)
    <3>1. popped < m /\ m <= popped + CleanN(1)
      BY <1>2, <2>1, <2>4
    <3>2. QED
      BY <2>1, <2>2, <3>1, CleanedWritten
  <2>5. QED
    BY <2>3, <2>4
<1>11. QED
  BY <1>7, <1>8, <1>9, <1>10 DEF WsInv

LEMMA LinkKeeps ==
  ASSUME OneSends, WsInv, Link
  PROVE  WsInv'
<1>1. WsTyped /\ ListInv /\ SessInv
  BY DEF WsInv
<1>2. WsTyped' /\ ListInv'
  BY <1>1, LinkTyped
<1>3. /\ Peeked = Linked + 1 /\ Peeked \in Messages /\ popped' = popped + CleanN(1)
      /\ Linked' = Linked + 1 /\ aud' = [aud EXCEPT ![Peeked] = Of(1)]
  BY <1>1, LinkIs
<1>4. UNCHANGED <<to, opened, live, protocol, nextMsgId, sessionN, got, lossy>>
  BY DEF Link, sessVars
<1>5. Linked \in Nat /\ Messages \subseteq Nat /\ Of(1) \subseteq live
      /\ aud \in [Messages -> SUBSET Sessions]
  BY <1>1, ListTyped, WsIs DEF Of, WsTyped
<1>6. \A m \in Messages : aud'[m] = IF m = Linked + 1 THEN Of(1) ELSE aud[m]
  BY <1>3, <1>5
<1>7. \A m \in Messages : m <= Linked => aud'[m] = aud[m]
  BY <1>5, <1>6
<1>8. \A m \in Messages : aud'[m] \subseteq live /\ (m > Linked' => aud'[m] = {})
  <2>1. \A m \in Messages : aud[m] \subseteq live /\ (m > Linked => aud[m] = {})
    BY <1>1 DEF SessInv
  <2>2. \A m \in Messages : m > Linked + 1 => m > Linked /\ m # Linked + 1
    BY <1>5
  <2>3. QED
    BY <1>3, <1>5, <1>6, <2>1, <2>2
<1>9. Linked <= Linked'
  BY <1>3, <1>5
<1>10. QED
  BY <1>2, <1>3, <1>4, <1>7, <1>8, <1>9, CleanKeeps

\* With one protocol, the walk over the protocols is one step.
LEMMA CleanStep ==
  ASSUME OneSends, WsInv, Clean
  PROVE  WsInv'
<1>1. WsTyped /\ ListInv /\ SessInv /\ turn = 1 /\ ProtocolN = 1
  BY DEF WsInv, ListInv, Clean, OneSends
<1>2. /\ list' = [list EXCEPT ![1] = Cleaned(1)] /\ popped' = popped + CleanN(1)
      /\ turn' = 2 /\ pc' = "peek" /\ peek' = 0
      /\ UNCHANGED <<protocolId, to, msgId, sessionN, sent, nextNewMsgId, opened, live, protocol,
                     nextMsgId, requested, cur, got, aud, lossy, calm>>
  BY <1>1, WsIs DEF Clean, Goto, msgVars, sessVars, wsHist
<1>3. /\ CleanN(1) \in Nat /\ CleanN(1) <= Len(List) /\ popped + CleanN(1) <= sent
      /\ Cleaned(1) \in Seq(Messages) /\ Len(Cleaned(1)) = Len(List) - CleanN(1)
      /\ Len(List) \in Nat /\ popped \in Nat /\ sent \in Nat
  BY <1>1, CleanIs, ListTyped DEF WsTyped
<1>4. List' = Cleaned(1)
  BY <1>1, <1>2, WsIs DEF List, WsTyped
<1>5. Linked' = Linked
  BY <1>2, <1>3, <1>4, SMTT(60) DEF Linked
<1>6. WsTyped'
  <2>1. list' \in [Protocols -> Seq(Messages)]
    BY <1>1, <1>2, <1>3 DEF WsTyped
  <2>2. popped' \in Nat /\ popped' <= sent /\ peek' \in Nat /\ peek' <= sent
    BY <1>2, <1>3
  <2>3. QED
    BY <1>1, <1>2, <2>1, <2>2 DEF WsTyped
<1>7. ListInv'
  <2>1. \A i \in 1 .. Len(List') : List'[i] = popped' + i
    BY <1>1, <1>2, <1>4, CleanShift
  <2>2. QED
    BY <1>1, <1>2, <1>5, <2>1, WsIs DEF ListInv, Walking
<1>8. Linked <= Linked'
  BY <1>1, <1>5, ListTyped
<1>9. \A m \in Messages : aud'[m] \subseteq live /\ (m > Linked' => aud'[m] = {})
  BY <1>1, <1>2, <1>5 DEF SessInv
<1>10. QED
  BY <1>2, <1>6, <1>7, <1>8, <1>9, CleanKeeps

\* A session is closed, after it was counted for messages it had not been given.
LEMMA GoneKeeps ==
  ASSUME OneSends, WsInv, NEW s \in live, NEW D, Gone(s, D),
         \A m \in D : m \in Messages /\ Listed(m) /\ nextMsgId[s] < m
  PROVE  WsInv'
<1>1. WsTyped /\ ListInv /\ SessInv /\ GivenInv /\ BoundInv /\ NoneLost
  BY DEF WsInv
<1>2. /\ live' = live \ {s} /\ requested' = requested \ {s}
      /\ sessionN' = [m \in Messages |-> sessionN[m] + IF m \in D THEN 1 ELSE 0]
      /\ nextMsgId' = [nextMsgId EXCEPT ![s] = 0] /\ got' = [got EXCEPT ![s] = <<>>]
      /\ protocol' = [protocol EXCEPT ![s] = 0]
      /\ aud' = [m \in Messages |-> aud[m] \ {s}]
      /\ UNCHANGED <<protocolId, to, msgId, sent, popped, peek, list, nextNewMsgId, opened,
                     pc, cur, turn, calm>>
  BY DEF Gone, queueVars, listVars, execVars
<1>3. /\ lossy' \in BOOLEAN /\ (lossy => lossy')
      /\ ~lossy' => \A m \in Elems(List) : m \notin D /\ ~(msgId[m] < nextMsgId[s])
  <2>1. protocol[s] = 1
    BY <1>1 DEF SessInv
  <2>2. QED
    BY <1>1, <2>1 DEF Gone, List, WsTyped
<1>4. /\ Messages \subseteq Nat /\ Linked \in Nat /\ popped \in Nat /\ s \in Sessions
      /\ live \subseteq Sessions
      /\ nextMsgId \in [Sessions -> Nat] /\ sessionN \in [Messages -> Nat]
      /\ got \in [Sessions -> Seq(Messages)] /\ protocol \in [Sessions -> {0} \cup Protocols]
      /\ aud \in [Messages -> SUBSET Sessions] /\ \A m \in Messages : m >= 1
  <2>1. Messages = 1 .. MaxSend /\ MaxSend \in Nat
    BY WsIs
  <2>2. live \subseteq Sessions /\ Linked \in Nat
    BY <1>1, ListTyped
  <2>3. QED
    BY <1>1, <2>1, <2>2, SMTT(60) DEF WsTyped
<1>5. /\ \A u \in Sessions : u # s => /\ nextMsgId'[u] = nextMsgId[u] /\ got'[u] = got[u]
                                      /\ protocol'[u] = protocol[u]
      /\ nextMsgId'[s] = 0 /\ got'[s] = <<>>
      /\ \A m \in Messages : aud'[m] = aud[m] \ {s}
      /\ \A m \in Messages : sessionN'[m] = sessionN[m] + IF m \in D THEN 1 ELSE 0
  BY <1>2, <1>4
<1>6. WsTyped'
  <2>1. nextMsgId' \in [Sessions -> Nat] /\ sessionN' \in [Messages -> Nat]
        /\ protocol' \in [Sessions -> {0} \cup Protocols]
    BY <1>2, <1>4
  <2>2. got' \in [Sessions -> Seq(Messages)]
    <3>1. <<>> \in Seq(Messages)
      OBVIOUS
    <3>2. QED
      BY <1>2, <1>4, <3>1
  <2>3. aud' \in [Messages -> SUBSET Sessions]
    BY <1>2, <1>4
  <2>4. live' \subseteq 1 .. opened /\ requested' \subseteq live'
    BY <1>1, <1>2 DEF WsTyped
  <2>5. QED
    BY <1>1, <1>2, <1>3, <2>1, <2>2, <2>3, <2>4 DEF WsTyped
<1>7. ListInv'
  BY <1>1, <1>2, ListSame DEF Walking
<1>8. Linked' = Linked /\ List' = List /\ \A m : Listed(m)' <=> Listed(m)
  BY <1>2 DEF Linked, List, Listed
<1>9. \A m, u : Meant(m, u)' <=> Meant(m, u)
  BY <1>2 DEF Meant
<1>10. SessInv'
  <2>1. \A u \in live' : protocol'[u] = 1
    BY <1>1, <1>2, <1>4, <1>5 DEF SessInv
  <2>2. ASSUME NEW u \in Sessions
        PROVE  /\ nextMsgId'[u] <= Linked'
               /\ u \notin live' => nextMsgId'[u] = 0 /\ got'[u] = <<>>
               /\ \A k \in Elems(got'[u]) : k <= nextMsgId'[u]
    <3>1. CASE u = s
      <4>1. Elems(<<>>) = {}
        BY DEF Elems
      <4>2. QED
        BY <1>4, <1>5, <1>8, <3>1, <4>1
    <3>2. CASE u # s
      BY <1>1, <1>2, <1>5, <1>8, <3>2 DEF SessInv
    <3>3. QED
      BY <3>1, <3>2
  <2>3. ASSUME NEW m \in Messages
        PROVE  /\ aud'[m] \subseteq live'
               /\ m > Linked' => aud'[m] = {} /\ sessionN'[m] = 0
    <3>1. m > Linked => m \notin D
      BY <1>4 DEF Listed
    <3>2. QED
      BY <1>1, <1>2, <1>5, <1>8, <3>1 DEF SessInv
  <2>4. ASSUME NEW m \in Messages, NEW u \in aud'[m], popped < m, Meant(m, u),
               m <= nextMsgId'[u]
        PROVE  m \in Elems(got'[u])
    <3>1. u \in aud[m] /\ u # s /\ u \in Sessions
      BY <1>4, <1>5
    <3>2. QED
      BY <1>1, <1>5, <2>4, <3>1 DEF SessInv
  <2>5. QED
    BY <1>2, <1>9, <2>1, <2>2, <2>3, <2>4 DEF SessInv
\* It was given nothing of what is listed, or what is counted is more than that.
<1>11. GivenInv'
  <2> SUFFICES ASSUME ~lossy', NEW m \in Messages, Listed(m)'
               PROVE  sessionN'[m] = Cardinality(Had(m)')
    BY DEF GivenInv
  <2>1. Listed(m) /\ sessionN[m] = Cardinality(Had(m)) /\ sessionN[m] \in Nat
    BY <1>1, <1>3, <1>4, <1>8 DEF GivenInv
  <2>2. m \in Elems(List) /\ msgId[m] = m - 1
    BY <1>1, <2>1, ListedIs
  <2>3. m \notin D /\ ~(m - 1 < nextMsgId[s])
    BY <1>3, <2>2
  <2>4. sessionN'[m] = sessionN[m]
    BY <1>5, <2>1, <2>3
  <2>5. ~(m <= nextMsgId[s])
    BY <1>4, <2>3
  <2>6. \A u \in live : u # s => (m <= nextMsgId'[u] <=> m <= nextMsgId[u])
    BY <1>4, <1>5
  <2>7. Had(m)' = Had(m)
    BY <1>2, <2>5, <2>6 DEF Had
  <2>8. QED
    BY <2>1, <2>4, <2>7
<1>12. BoundInv'
  <2> SUFFICES ASSUME NEW m \in Messages
               PROVE  sessionN'[m] <= Cardinality(HadOrGone(m)')
    BY DEF BoundInv
  <2>1. /\ sessionN[m] <= Cardinality(HadOrGone(m)) /\ sessionN[m] \in Nat /\ m \in Nat
        /\ IsFiniteSet(HadOrGone(m)) /\ Cardinality(HadOrGone(m)) \in Nat
    BY <1>1, <1>4, HadFinite DEF BoundInv
  <2>2. HadOrGone(m)' = HadOrGone(m) \cup {s}
    <3>1. s \in 1 .. opened /\ 1 .. opened \subseteq Sessions
      BY <1>1, WsIs DEF WsTyped
    <3>2. \A u \in 1 .. opened : u # s =>
            (u \notin live' \/ m <= nextMsgId'[u] <=> u \notin live \/ m <= nextMsgId[u])
      BY <1>2, <1>5, <3>1
    <3>3. HadOrGone(m)' = {u \in 1 .. opened : u \notin live' \/ m <= nextMsgId'[u]}
      BY <1>2 DEF HadOrGone
    <3>4. s \notin live'
      BY <1>2
    <3>5. QED
      BY <3>1, <3>2, <3>3, <3>4 DEF HadOrGone
  <2>3. CASE m \in D
    <3>1. s \notin HadOrGone(m)
      BY <1>4, <2>1, <2>3 DEF HadOrGone
    <3>2. Cardinality(HadOrGone(m)') = Cardinality(HadOrGone(m)) + 1
      BY <2>1, <2>2, <3>1, FS_AddElement
    <3>3. QED
      BY <1>5, <2>1, <2>3, <3>2
  <2>4. CASE m \notin D
    <3>1. Cardinality(HadOrGone(m)) <= Cardinality(HadOrGone(m) \cup {s})
          /\ Cardinality(HadOrGone(m) \cup {s}) \in Nat
      <4>1. IsFiniteSet(HadOrGone(m) \cup {s})
        BY <2>1, FS_AddElement
      <4>2. QED
        BY <4>1, FS_Subset, FS_CardinalityType
    <3>2. sessionN'[m] = sessionN[m]
      BY <1>5, <2>1, <2>4
    <3>3. QED
      BY <2>1, <2>2, <3>1, <3>2
  <2>5. QED
    BY <2>3, <2>4
<1>13. NoneLost'
  <2> SUFFICES ASSUME ~lossy', NEW m \in 1 .. popped, NEW u \in aud'[m], Meant(m, u)
               PROVE  m \in Elems(got'[u])
    BY <1>2, <1>9 DEF NoneLost
  <2>1. m \in Messages
    BY <1>1, WsIs DEF WsTyped
  <2>2. u \in aud[m] /\ u # s /\ u \in Sessions
    BY <1>4, <1>5, <2>1
  <2>3. QED
    BY <1>1, <1>3, <1>5, <2>2 DEF NoneLost
<1>14. QED
  BY <1>6, <1>7, <1>10, <1>11, <1>12, <1>13 DEF WsInv

\* A session is opened: it has been given nothing.
LEMMA OpenKeeps ==
  ASSUME OneSends, WsInv, Established(1)
  PROVE  WsInv'
<1> DEFINE s == opened + 1
<1>1. WsTyped /\ ListInv /\ SessInv /\ GivenInv /\ BoundInv /\ NoneLost
  BY DEF WsInv
<1>2. /\ opened' = s /\ live' = live \cup {s} /\ protocol' = [protocol EXCEPT ![s] = 1]
      /\ opened < MaxOpen /\ (calm' = (calm /\ list[1] = <<>>))
      /\ UNCHANGED <<protocolId, to, msgId, sessionN, sent, popped, peek, list, nextNewMsgId,
                     nextMsgId, requested, pc, cur, turn, got, aud, lossy>>
  BY DEF Established, msgVars, queueVars, listVars, execVars
<1>3. /\ opened \in Nat /\ MaxOpen \in Nat /\ s \in Sessions /\ s \notin live /\ s \in Nat
      /\ live \subseteq 1 .. opened /\ live \subseteq Sessions
      /\ Messages \subseteq Nat /\ \A m \in Messages : m >= 1
      /\ protocol \in [Sessions -> {0} \cup Protocols] /\ 1 \in Protocols
  <2>1. opened \in Nat /\ MaxOpen \in Nat /\ live \subseteq 1 .. opened
        /\ Sessions = 1 .. MaxOpen /\ Messages = 1 .. MaxSend /\ MaxSend \in Nat
    BY <1>1, WsIs DEF WsTyped
  <2>2. s \in Sessions /\ s \notin live /\ s \in Nat
    BY <1>2, <2>1
  <2>3. QED
    BY <1>1, <2>1, <2>2, WsIs, ListTyped, SMTT(60) DEF WsTyped
<1>4. nextMsgId[s] = 0
  BY <1>1, <1>3 DEF SessInv
<1> HIDE DEF s
<1>5. WsTyped'
  <2>1. opened' \in Nat /\ opened' <= MaxOpen /\ live' \subseteq 1 .. opened'
    <3>1. opened' = opened + 1 /\ opened < MaxOpen
      BY <1>2 DEF s
    <3>2. opened' \in Nat /\ opened' <= MaxOpen
      BY <1>3, <3>1
    <3>3. 1 .. opened \subseteq 1 .. opened' /\ s \in 1 .. opened'
      BY <1>3, <3>1 DEF s
    <3>4. QED
      BY <1>2, <1>3, <3>2, <3>3
  <2>2. protocol' \in [Sessions -> {0} \cup Protocols]
    BY <1>2, <1>3
  <2>3. requested' \subseteq live' /\ calm' \in BOOLEAN
    BY <1>1, <1>2 DEF WsTyped
  <2>4. QED
    BY <1>1, <1>2, <2>1, <2>2, <2>3 DEF WsTyped
<1>6. ListInv'
  BY <1>1, <1>2, ListSame DEF Walking
<1>7. Linked' = Linked /\ \A m : Listed(m)' <=> Listed(m)
  BY <1>2 DEF Linked, List, Listed
<1>8. \A m, u : Meant(m, u)' <=> Meant(m, u)
  BY <1>2 DEF Meant
<1>9. SessInv'
  <2>1. \A u \in live' : protocol'[u] = 1
    BY <1>1, <1>2, <1>3 DEF SessInv
  <2>2. QED
    BY <1>1, <1>2, <1>7, <1>8, <2>1 DEF SessInv
<1>10. \A m \in Messages : ~(m <= nextMsgId[s])
  BY <1>3, <1>4
<1>11. GivenInv'
  <2>1. \A m \in Messages : Had(m)' = Had(m)
    BY <1>2, <1>10 DEF Had
  <2>2. QED
    BY <1>1, <1>2, <1>7, <2>1 DEF GivenInv
<1>12. BoundInv'
  <2>1. ASSUME NEW m \in Messages PROVE HadOrGone(m)' = HadOrGone(m)
    <3>1. \A u : u \in 1 .. opened' <=> u \in 1 .. opened \/ u = s
      BY <1>2, <1>3 DEF s
    <3>2. s \notin 1 .. opened
      BY <1>3 DEF s
    <3>3. QED
      BY <1>2, <1>10, <3>1, <3>2 DEF HadOrGone
  <2>2. QED
    BY <1>1, <1>2, <2>1 DEF BoundInv
<1>13. NoneLost'
  BY <1>1, <1>2, <1>8 DEF NoneLost
<1>14. QED
  BY <1>5, <1>6, <1>9, <1>11, <1>12, <1>13 DEF WsInv

LEMMA SendKeeps ==
  ASSUME OneSends, WsInv, NEW s \in {All} \cup Of(1), Send(1, s)
  PROVE  WsInv'
<1>1. WsTyped /\ ListInv
  BY DEF WsInv
<1>2. /\ sent < MaxSend /\ sent' = sent + 1
      /\ protocolId' = [protocolId EXCEPT ![sent + 1] = 1] /\ to' = [to EXCEPT ![sent + 1] = s]
      /\ UNCHANGED <<msgId, sessionN, popped, peek, list, nextNewMsgId, opened, live, protocol,
                     nextMsgId, requested, pc, cur, turn, got, aud, lossy, calm>>
  BY DEF Send, listVars, sessVars, execVars, wsHist
<1>3. /\ sent \in Nat /\ MaxSend \in Nat /\ sent + 1 \in Messages /\ Messages = 1 .. MaxSend
      /\ s \in {All} \cup Sessions /\ 1 \in Protocols
      /\ protocolId \in [Messages -> {0} \cup Protocols]
      /\ to \in [Messages -> {All} \cup Sessions]
  <2>1. sent \in Nat /\ MaxSend \in Nat /\ Messages = 1 .. MaxSend /\ 1 \in Protocols
    BY <1>1, WsIs DEF WsTyped
  <2>2. Of(1) \subseteq Sessions
    BY <1>1, ListTyped DEF Of
  <2>3. sent + 1 \in Messages
    BY <1>2, <2>1
  <2>4. QED
    BY <1>1, <2>1, <2>2, <2>3 DEF WsTyped
<1>4. WsTyped'
  <2>1. /\ protocolId' \in [Messages -> {0} \cup Protocols]
        /\ to' \in [Messages -> {All} \cup Sessions]
    BY <1>2, <1>3
  <2>2. sent' \in Nat /\ sent' <= MaxSend /\ popped <= sent' /\ peek <= sent'
    BY <1>1, <1>2, <1>3 DEF WsTyped
  <2>3. QED
    BY <1>1, <1>2, <2>1, <2>2 DEF WsTyped
<1>5. ListInv'
  <2>1. Linked' = Linked /\ List' = List /\ Linked \in Nat
    BY <1>1, <1>2, ListTyped DEF Linked, List
  <2>2. Linked' <= sent'
    BY <1>1, <1>2, <1>3, <2>1 DEF ListInv
  <2>3. \A m \in 1 .. sent' : protocolId'[m] = 1
    BY <1>1, <1>2, <1>3 DEF ListInv
  <2>4. pc' \in {"request", "serve"} => cur' \in 1 .. sent'
    BY <1>1, <1>2, <1>3 DEF ListInv
  <2>5. QED
    BY <1>1, <1>2, <2>1, <2>2, <2>3, <2>4 DEF ListInv, Walking
<1>6. \A m \in 1 .. sent : to'[m] = to[m]
  BY <1>2, <1>3
<1>7. QED
  BY <1>2, <1>4, <1>5, <1>6, QuietKeeps

LEMMA ServedKeeps ==
  ASSUME OneSends, WsInv, EndServing
  PROVE  WsInv'
<1>1. WsTyped /\ ListInv
  BY DEF WsInv
<1>2. /\ pc \in {"serve", "wait"}
      /\ (pc = "serve" /\ pc' = "request" /\ turn' = turn)
         \/ (pc = "wait" /\ pc' = "clean" /\ turn' = 1)
      /\ UNCHANGED <<protocolId, to, msgId, sessionN, sent, popped, peek, list, nextNewMsgId, opened,
                     live, protocol, nextMsgId, requested, cur, got, aud, lossy, calm>>
  BY DEF EndServing, Serving, Goto, msgVars, queueVars, listVars, sessVars, wsHist
<1>3. WsTyped'
  BY <1>1, <1>2 DEF WsTyped
<1>4. ListInv'
  BY <1>1, <1>2, ListSame DEF Walking
<1>5. QED
  BY <1>2, <1>3, <1>4, QuietKeeps

LEMMA PeekEndKeeps ==
  ASSUME OneSends, WsInv, PeekEnd
  PROVE  WsInv'
<1>1. WsTyped /\ ListInv
  BY DEF WsInv
<1>2. /\ peek' = (IF Peeked = 0 THEN 0 ELSE IF Peeked < sent THEN Peeked + 1 ELSE 0)
      /\ pc' = "wait" /\ cur' = 0 /\ turn' = 0
      /\ UNCHANGED <<protocolId, to, msgId, sessionN, sent, popped, list, nextNewMsgId, opened,
                     live, protocol, nextMsgId, requested, got, aud, lossy, calm>>
  BY WsIs DEF PeekEnd, PeekNext, Goto, msgVars, listVars, sessVars, wsHist
<1>3. /\ sent \in Nat /\ popped \in Nat /\ Peeked \in Nat /\ Peeked <= sent
      /\ Peeked # 0 => Peeked > popped
  BY <1>1, WsIs DEF Peeked, WsTyped, ListInv
<1>4. peek' \in Nat /\ peek' <= sent /\ (peek' # 0 => peek' > popped)
  BY <1>2, <1>3
<1>5. WsTyped'
  <2>1. cur' \in Nat /\ cur' <= MaxSend /\ turn' \in Nat
    BY <1>2, WsIs
  <2>2. QED
    BY <1>1, <1>2, <1>4, <2>1 DEF WsTyped
<1>6. ListInv'
  <2>1. Linked' = Linked /\ List' = List
    BY <1>2 DEF Linked, List
  <2>2. QED
    BY <1>1, <1>2, <1>4, <2>1, WsIs DEF ListInv, Walking
<1>7. QED
  BY <1>2, <1>5, <1>6, QuietKeeps

LEMMA RequestKeeps ==
  ASSUME OneSends, WsInv, AskAll
  PROVE  WsInv'
<1>1. WsTyped /\ ListInv
  BY DEF WsInv
<1>2. /\ pc = "request" /\ pc' \in {"serve", "peek"} /\ (turn' = turn \/ turn' = turn + 1)
      /\ \E p : requested' \subseteq requested \cup Of(p)
      /\ calm' = calm \/ calm' \in BOOLEAN
      /\ UNCHANGED <<protocolId, to, msgId, sessionN, sent, popped, peek, list, nextNewMsgId, opened,
                     live, protocol, nextMsgId, cur, got, aud, lossy>>
  BY DEF AskAll, Goto, msgVars, queueVars, listVars
<1>3. WsTyped'
  <2>1. requested' \subseteq live
    BY <1>1, <1>2 DEF WsTyped, Of
  <2>2. QED
    BY <1>1, <1>2, <2>1 DEF WsTyped
<1>4. ListInv'
  BY <1>1, <1>2, ListSame DEF Walking
<1>5. QED
  BY <1>2, <1>3, <1>4, QuietKeeps

LEMMA WsInvInit ==
  ASSUME OneSends, WsInit
  PROVE  WsInv
<1>1. WsTyped /\ ListInv
  BY ListInit
<1>2. /\ sessionN = [m \in Messages |-> 0] /\ aud = [m \in Messages |-> {}]
      /\ nextMsgId = [s \in Sessions |-> 0] /\ got = [s \in Sessions |-> <<>>]
      /\ live = {} /\ popped = 0
  BY DEF WsInit
<1>3. Linked \in Nat /\ Elems(<<>>) = {}
  BY <1>1, ListTyped DEF Elems
<1>4. SessInv
  BY <1>2, <1>3 DEF SessInv
<1>5. /\ \A m : Had(m) = {}
      /\ Linked = 0
  BY <1>2, WsIs DEF Had, Linked, List, WsInit
<1>6. \A m \in Messages : ~Listed(m)
  BY <1>2, <1>5, WsIs DEF Listed
<1>7. BoundInv
  <2>1. \A m : Cardinality(HadOrGone(m)) \in Nat
    BY <1>1, HadFinite
  <2>2. QED
    BY <1>2, <2>1 DEF BoundInv
<1>8. NoneLost
  <2>1. 1 .. popped = {}
    BY <1>2
  <2>2. QED
    BY <2>1 DEF NoneLost
<1>9. QED
  BY <1>1, <1>4, <1>6, <1>7, <1>8 DEF WsInv, GivenInv

LEMMA WsInvStep ==
  ASSUME OneSends, WsInv, [WsNext]_wsVars
  PROVE  WsInv'
<1>1. WsTyped /\ ListInv /\ SessInv
  BY DEF WsInv
<1>2. ASSUME NEW p \in Protocols, NEW s \in {All} \cup Of(p), Send(p, s) PROVE WsInv'
  <2>1. p = 1
    BY WsIs
  <2>2. QED
    BY <1>2, <2>1, SendKeeps
<1>3. ASSUME NEW p \in Protocols, Established(p) PROVE WsInv'
  <2>1. p = 1
    BY WsIs
  <2>2. QED
    BY <1>3, <2>1, OpenKeeps
<1>4. ASSUME NEW s \in Sessions, Closed(s) PROVE WsInv'
  <2>1. s \in live /\ Gone(s, {})
    BY <1>4 DEF Closed
  <2>2. QED
    BY <2>1, GoneKeeps
<1>5. ASSUME NEW s \in Sessions, WriteFails(s) PROVE WsInv'
  <2> DEFINE D == Counted(s) \ {list[protocol[s]][First(s)]}
  <2>1. s \in live /\ protocol[s] = 1
    BY <1>1, <1>5 DEF WriteFails, WsTyped, SessInv
  <2>2. Gone(s, D)
    BY <1>5 DEF WriteFails
  <2>3. \A m \in D : m \in Messages /\ Listed(m) /\ nextMsgId[s] < m
    BY <1>1, <2>1, CountedIs
  <2> HIDE DEF D
  <2>4. QED
    BY <2>1, <2>2, <2>3, GoneKeeps
<1>6. ASSUME NEW s \in Sessions, Writeable(s) PROVE WsInv'
  BY <1>6, WriteKeeps
<1>7. ASSUME ExecStep PROVE WsInv'
  BY <1>7, ServedKeeps, CleanStep, PeekEndKeeps, LinkKeeps, RequestKeeps DEF ExecStep
<1>8. ASSUME UNCHANGED wsVars PROVE WsInv'
  <2>1. UNCHANGED <<protocolId, to, msgId, sessionN, sent, popped, peek, list, nextNewMsgId, opened,
                    live, protocol, nextMsgId, requested, pc, cur, turn, got, aud, lossy, calm>>
    BY <1>8 DEF wsVars, msgVars, queueVars, listVars, sessVars, execVars, wsHist
  <2>2. WsTyped'
    BY <1>1, <2>1 DEF WsTyped
  <2>3. ListInv'
    BY <1>1, <2>1, ListSame DEF Walking
  <2>4. QED
    BY <2>1, <2>2, <2>3, QuietKeeps
<1>9. QED
  BY <1>2, <1>3, <1>4, <1>5, <1>6, <1>7, <1>8 DEF WsNext

LEMMA WsAlways == OneSends => (WsSpec => []WsInv)
<1> SUFFICES ASSUME OneSends PROVE WsSpec => []WsInv
  OBVIOUS
<1>1. WsInit => WsInv
  BY WsInvInit
<1>2. WsInv /\ [WsNext]_wsVars => WsInv'
  BY WsInvStep
<1>3. QED
  BY <1>1, <1>2, PTL DEF WsSpec

\* Every variable of the websocket server keeps its type; that no message counts
\* more sessions than were opened needs the sessions that count for it.
THEOREM WebSockTypeCorrect == OneSends => (WsSpec => []WsTypeOK)
<1> SUFFICES ASSUME OneSends PROVE WsSpec => []WsTypeOK
  OBVIOUS
<1>1. WsInv => WsTypeOK
  <2> SUFFICES ASSUME WsInv PROVE WsTypeOK
    OBVIOUS
  <2>1. WsTyped /\ BoundInv
    BY DEF WsInv
  <2>2. sessionN \in [Messages -> 0 .. MaxOpen]
    <3> SUFFICES ASSUME NEW m \in Messages PROVE sessionN[m] \in 0 .. MaxOpen
      BY <2>1 DEF WsTyped
    <3>1. /\ sessionN[m] \in Nat /\ opened \in Nat /\ opened <= MaxOpen /\ MaxOpen \in Nat
          /\ HadOrGone(m) \subseteq 1 .. opened /\ Cardinality(HadOrGone(m)) \in Nat
          /\ sessionN[m] <= Cardinality(HadOrGone(m))
      BY <2>1, HadFinite, WsIs DEF WsTyped, BoundInv
    <3>2. IsFiniteSet(1 .. opened) /\ Cardinality(1 .. opened) = opened
      <4>1. /\ IsFiniteSet(1 .. opened)
            /\ Cardinality(1 .. opened) = IF 1 > opened THEN 0 ELSE opened - 1 + 1
        <5>1. 1 \in Int /\ opened \in Int
          BY <3>1
        <5>2. QED
          BY <5>1, FS_Interval, Zenon
      <4>2. QED
        BY <3>1, <4>1
    <3>3. Cardinality(HadOrGone(m)) <= opened
      BY <3>1, <3>2, FS_Subset
    <3>4. QED
      BY <3>1, <3>3
  <2>3. /\ sent \in 0 .. MaxSend /\ popped \in 0 .. sent /\ peek \in 0 .. sent
        /\ opened \in 0 .. MaxOpen /\ cur \in 0 .. MaxSend
    BY <2>1, WsIs DEF WsTyped
  <2>4. QED
    BY <2>1, <2>2, <2>3 DEF WsTyped, WsTypeOK
<1>2. QED
  BY <1>1, WsAlways, PTL

\* While one protocol sends, its list refers only to messages that are still in
\* the queue, and so does the pointer of peek(): neither is left to dangle by
\* _cleanProtocolStateList(), whichever sessions come and go.
THEOREM NeverDangles == OneSends => (WsSpec => []NoDangling)
<1> SUFFICES ASSUME OneSends PROVE WsSpec => []NoDangling
  OBVIOUS
<1>1. WsInv => NoDangling
  <2> SUFFICES ASSUME WsInv PROVE NoDangling
    OBVIOUS
  <2>1. WsTyped /\ ListInv
    BY DEF WsInv
  <2>2. ASSUME NEW m \in Elems(List) PROVE m \in (popped + 1) .. sent
    <3>1. m \in Messages /\ Listed(m)
      BY <2>1, ListedIs
    <3>2. m \in Nat /\ popped \in Nat /\ Linked \in Nat /\ sent \in Nat /\ Linked <= sent
      BY <2>1, <3>1, WsIs, ListTyped DEF WsTyped, ListInv
    <3>3. QED
      BY <3>1, <3>2 DEF Listed
  <2>3. \A p \in Protocols : Elems(list[p]) \subseteq (popped + 1) .. sent
    BY <2>2, WsIs DEF List
  <2>4. QED
    BY <2>1, <2>3 DEF ListInv, NoDangling
<1>2. QED
  BY <1>1, WsAlways, PTL

\* A message leaves the queue only when each session it was for has been written
\* it or is closed, unless one was closed that had counted for it.
THEOREM NothingLost == OneSends => (WsSpec => []NoneLost)
<1> SUFFICES ASSUME OneSends PROVE WsSpec => []NoneLost
  OBVIOUS
<1>1. WsInv => NoneLost
  BY DEF WsInv
<1>2. QED
  BY <1>1, WsAlways, PTL

\* Each session is written its messages in the order they were sent, each once,
\* and only those of its protocol that are meant for it.
THEOREM AlwaysInOrder == OneSends => (WsSpec => InOrder)
<1> DEFINE Order == \A s \in live : LET m == got'[s][Len(got'[s])] IN
                      Len(got'[s]) > Len(got[s]) =>
                        /\ protocolId[m] = protocol[s] /\ Meant(m, s)
                        /\ \A k \in Elems(got[s]) : k < m
<1> SUFFICES ASSUME OneSends PROVE WsSpec => [][Order]_wsVars
  BY DEF InOrder
<1>1. ASSUME WsInv, [WsNext]_wsVars PROVE [Order]_wsVars
  <2>1. WsTyped /\ ListInv /\ SessInv
    BY <1>1 DEF WsInv
  <2>2. /\ got \in [Sessions -> Seq(Messages)] /\ live \subseteq Sessions
        /\ \A s \in Sessions : Len(got[s]) \in Nat
    BY <2>1, ListTyped DEF WsTyped
  <2>3. ASSUME got' = got PROVE Order
    BY <2>2, <2>3
  <2>4. ASSUME NEW u \in Sessions, Writeable(u) PROVE Order
    <3>1. u \in live /\ nextMsgId[u] \in Nat
      BY <1>1, <2>1, <2>4, WriteIs DEF WsTyped
    <3>2. \/ got' = got
          \/ \E f \in Messages : /\ got' = [got EXCEPT ![u] = Append(got[u], f)]
                                 /\ Listed(f) /\ nextMsgId[u] < f /\ Meant(f, u)
      BY <1>1, <2>4, WriteIs
    <3>3. CASE got' = got
      BY <2>3, <3>3
    <3>4. CASE got' # got
      <4>1. PICK f \in Messages : /\ got' = [got EXCEPT ![u] = Append(got[u], f)]
                                  /\ Listed(f) /\ nextMsgId[u] < f /\ Meant(f, u)
        BY <3>2, <3>4
      <4>2. got'[u] = Append(got[u], f) /\ \A s \in Sessions : s # u => got'[s] = got[s]
        BY <2>2, <4>1
      <4>3. got[u] \in Seq(Messages)
        BY <2>2
      <4>4. got'[u][Len(got'[u])] = f
        BY <4>2, <4>3
      <4>5. protocolId[f] = 1 /\ protocol[u] = 1
        <5>1. f \in Nat /\ 1 <= f /\ popped \in Nat /\ Linked \in Nat /\ sent \in Nat /\ Linked <= sent
          BY <2>1, WsIs, ListTyped DEF WsTyped, ListInv
        <5>2. f \in 1 .. sent
          BY <4>1, <5>1 DEF Listed
        <5>3. QED
          BY <2>1, <3>1, <5>2 DEF ListInv, SessInv
      <4>6. ASSUME NEW k \in Elems(got[u]) PROVE k < f
        <5>1. k \in Messages
          BY <4>3 DEF Elems
        <5>2. k <= nextMsgId[u]
          BY <2>1 DEF SessInv
        <5>3. k \in Nat /\ f \in Nat
          BY <5>1, WsIs
        <5>4. QED
          BY <3>1, <4>1, <5>2, <5>3
      <4>7. \A s \in live : s # u => ~(Len(got'[s]) > Len(got[s]))
        BY <2>2, <4>2
      <4>8. QED
        BY <4>1, <4>4, <4>5, <4>6, <4>7
    <3>5. QED
      BY <3>3, <3>4
  <2>5. ASSUME NEW u \in Sessions, NEW D, Gone(u, D) PROVE Order
    <3>1. got' = [got EXCEPT ![u] = <<>>]
      BY <2>5 DEF Gone
    <3>2. \A s \in live : got'[s] = got[s] \/ Len(got'[s]) = 0
      BY <2>2, <3>1
    <3>3. \A s \in live : ~(Len(got'[s]) > Len(got[s]))
      BY <2>2, <3>2
    <3> QED
      BY <3>3
  <2> HIDE DEF Order
  <2>6. CASE UNCHANGED wsVars
    BY <2>6
  <2>7. ASSUME NEW u \in Sessions, Closed(u) \/ WriteFails(u) PROVE Order
    BY <2>5, <2>7 DEF Closed, WriteFails
  <2>8. ASSUME NEW p \in Protocols, NEW s \in {All} \cup Of(p), Send(p, s) PROVE Order
    BY <2>3, <2>8 DEF Send, wsHist
  <2>9. ASSUME NEW p \in Protocols, Established(p) PROVE Order
    BY <2>3, <2>9 DEF Established
  <2>10. ASSUME ExecStep PROVE Order
    BY <2>3, <2>10 DEF ExecStep, EndServing, Clean, PeekEnd, Link, AskAll, wsHist
  <2>11. QED
    BY <1>1, <2>4, <2>6, <2>7, <2>8, <2>9, <2>10 DEF WsNext
<1> HIDE DEF Order
<1>2. QED
  BY <1>1, WsAlways, PTL DEF WsSpec

------------------------------------------------------------------------------
(***************************************************************************)
(* Calm sessions are served.  That each message is sent in the end is a    *)
(* question of liveness; what it rests on is not.  While the server is     *)
(* calm, a session that lacks a message of the list is to be told that it  *)
(* can be written, or exec() is about to ask for that; and when nobody is, *)
(* the next clean-up leaves nothing in the list.                           *)
(***************************************************************************)
Linking(p) == pc = "request" /\ turn = 0 /\ protocolId[cur] = p

NobodyForgotten ==
  calm => \A s \in live : New(s) # {} => s \in requested \/ Linking(protocol[s])

NothingStuck ==
  calm => \A p \in Protocols :
    Of(p) \cap requested = {} /\ ~Linking(p) => CleanN(p) = Len(list[p])

\* The session was given all messages of the list but at most the last k.
But(s, k) == Linked <= nextMsgId[s] + k \/ Len(List) <= k

\* A session lacks one message for each time that it is to be written.
Asking == pc = "request" /\ turn = 0
Due(s) == \/ But(s, 0)
          \/ But(s, 1) /\ (s \in requested \/ Asking)
          \/ s \in requested /\ Asking

\* Closed sessions may have counted: sessionN is no less than those that were given it.
ServeInv ==
  /\ calm => \A s \in live : Due(s)
  /\ \A m \in Messages : Listed(m) => Cardinality(Had(m)) <= sessionN[m]

\* A session that lacks one message at most lacks none when it has been written.
LEMMA WriteServes ==
  ASSUME OneSends, WsInv, NEW s \in Sessions, Writeable(s), But(s, 1)
  PROVE  But(s, 0)'
<1>1. WsTyped /\ ListInv /\ SessInv
  BY DEF WsInv
<1>2. s \in live /\ Linked' = Linked /\ List' = List
  BY WriteIs DEF Linked, List
<1>3. /\ protocol[s] = 1 /\ nextMsgId \in [Sessions -> Nat] /\ Linked \in Nat /\ popped \in Nat
      /\ Len(List) \in Nat /\ Linked = popped + Len(List) /\ Messages \subseteq Nat
      /\ DOMAIN List = 1 .. Len(List)
  <2>1. Messages \subseteq Nat
    BY WsIs
  <2>2. List \in Seq(Messages) /\ Len(List) \in Nat /\ Linked \in Nat
    BY <1>1, ListTyped
  <2>3. nextMsgId \in [Sessions -> Nat] /\ popped \in Nat
    BY <1>1 DEF WsTyped
  <2>4. QED
    BY <1>1, <1>2, <2>1, <2>2, <2>3 DEF SessInv, Linked
<1>4. CASE But(s, 0)
  <2>1. PICK q \in Nat : nextMsgId' = [nextMsgId EXCEPT ![s] = q] /\ nextMsgId[s] <= q
    BY WriteIs
  <2>2. nextMsgId'[s] = q
    BY <1>3, <2>1
  <2>3. QED
    BY <1>2, <1>3, <1>4, <2>1, <2>2 DEF But
<1>5. CASE ~But(s, 0)
  <2>1. /\ nextMsgId[s] < Linked /\ 0 < Len(List) /\ nextMsgId[s] \in Nat
        /\ \A k \in Nat : popped < k /\ nextMsgId[s] < k /\ k <= Linked => k = Linked
    BY <1>3, <1>5 DEF But
  <2>2. Len(List) \in DOMAIN List
    BY <1>3, <2>1
  <2>3. List[Len(List)] = Linked /\ msgId[Linked] = Linked - 1 /\ Linked \in Messages
    BY <1>1, <1>3, <2>2, ListedIs
  <2>4. Len(List) \in New(s)
    <3>1. msgId[List[Len(List)]] >= nextMsgId[s]
      BY <1>3, <2>1, <2>3
    <3>2. QED
      BY <1>3, <2>2, <3>1 DEF New, List
  <2>5. Counted(s) # {}
    <3>1. CASE Mine(s) = {}
      BY <2>4, <3>1 DEF Given, Counted
    <3>2. CASE Mine(s) # {}
      BY <1>1, <1>2, <1>3, <3>2, CountedIs
    <3>3. QED
      BY <3>1, <3>2
  <2>6. Given(s) # {}
    BY <1>1, <1>2, <1>3, <2>5, CountedIs
  <2>7. PICK m \in Counted(s) : nextMsgId' = [nextMsgId EXCEPT ![s] = msgId[m] + 1]
    BY <2>6 DEF Writeable
  <2>8. m \in Messages /\ Listed(m) /\ nextMsgId[s] < m
    BY <1>1, <1>2, <1>3, CountedIs
  <2>9. m = Linked
    BY <1>3, <2>1, <2>8 DEF Listed
  <2>10. nextMsgId'[s] = Linked
    BY <1>3, <2>3, <2>7, <2>9
  <2>11. QED
    BY <1>2, <1>3, <2>10 DEF But
<1>6. QED
  BY <1>4, <1>5

\* Steps that leave the list, and what sessions were given, alone.
LEMMA ServeSame ==
  ASSUME ServeInv, UNCHANGED <<popped, list, nextMsgId, sessionN, live>>, calm' => calm,
         \A s \in live : calm' => Due(s)'
  PROVE  ServeInv'
<1>1. \A m : (Listed(m)' <=> Listed(m)) /\ Had(m)' = Had(m)
  BY DEF Listed, Linked, List, Had
<1>2. QED
  BY <1>1 DEF ServeInv

LEMMA SendServe ==
  ASSUME OneSends, WsInv, ServeInv, NEW p, NEW s, Send(p, s)
  PROVE  ServeInv'
<1>1. UNCHANGED <<popped, list, nextMsgId, sessionN, live, requested, pc, turn, calm>>
  BY DEF Send, listVars, sessVars, execVars, wsHist
<1>2. \A u : Due(u)' <=> Due(u)
  BY <1>1 DEF Due, But, Linked, List, Asking
<1>3. QED
  BY <1>1, <1>2, ServeSame DEF ServeInv

LEMMA EndServe ==
  ASSUME OneSends, WsInv, ServeInv, EndServing \/ PeekEnd
  PROVE  ServeInv'
<1>1. UNCHANGED <<popped, list, nextMsgId, sessionN, live, requested, calm>> /\ ~Asking
  BY DEF EndServing, PeekEnd, Serving, Asking, msgVars, queueVars, listVars, sessVars, wsHist
<1>2. \A u : Due(u) => Due(u)'
  BY <1>1 DEF Due, But, Linked, List
<1>3. QED
  BY <1>1, <1>2, ServeSame DEF ServeInv

\* exec() asks for all sessions of the protocol, and calm ones are not waiting;
\* it asks at least once, unless there are none.
LEMMA AskServe ==
  ASSUME OneSends, WsInv, ServeInv, AskAll
  PROVE  ServeInv'
<1>1. WsTyped /\ ListInv /\ SessInv
  BY DEF WsInv
<1>2. /\ UNCHANGED <<popped, list, nextMsgId, sessionN, live, protocol>>
      /\ pc = "request" /\ (calm' => calm)
  BY DEF AskAll, msgVars, queueVars, listVars
<1>3. protocolId[cur] = 1 /\ Of(1) = live
  BY <1>1, <1>2 DEF ListInv, Of, SessInv
<1>4. \A u, k : But(u, k)' <=> But(u, k)
  BY <1>2 DEF But, Linked, List
<1>5. CASE AskMore(1)
  <2>1. requested' = requested \cup live /\ (calm' => requested \cap live = {})
    BY <1>3, <1>5 DEF AskAll
  <2>2. ASSUME NEW u \in live, calm' PROVE Due(u)'
    <3>1. u \notin requested /\ u \in requested' /\ Due(u)
      BY <1>2, <2>1, <2>2 DEF ServeInv
    <3>2. QED
      BY <1>4, <3>1 DEF Due
  <2>3. QED
    BY <1>2, <2>2, ServeSame
<1>6. CASE ~AskMore(1)
  <2>1. UNCHANGED <<requested, turn, calm>>
    BY <1>3, <1>6 DEF AskAll
  <2>2. CASE turn = 0
    <3>1. ~(0 < Cardinality(live)) /\ IsFiniteSet(live) /\ Cardinality(live) \in Nat
      BY <1>1, <1>3, <1>6, <2>2, HadFinite DEF AskMore, SessionN
    <3>2. Cardinality(live) = 0
      BY <3>1
    <3>3. live = {}
      BY <3>1, <3>2, FS_EmptySet
    <3>4. QED
      BY <1>2, <3>3, ServeSame
  <2>3. CASE turn # 0
    <3>1. \A u : Due(u) => Due(u)'
      BY <1>4, <2>1, <2>3 DEF Due, Asking
    <3>2. QED
      BY <1>2, <3>1, ServeSame DEF ServeInv
  <2>4. QED
    BY <2>2, <2>3
<1>7. QED
  BY <1>5, <1>6

\* A session that is opened while the list is empty lacks nothing.
LEMMA OpenServe ==
  ASSUME OneSends, WsInv, ServeInv, Established(1)
  PROVE  ServeInv'
<1> DEFINE s == opened + 1
<1>1. WsTyped /\ SessInv
  BY DEF WsInv
<1>2. /\ live' = live \cup {s} /\ opened < MaxOpen /\ (calm' = (calm /\ List = <<>>))
      /\ UNCHANGED <<sessionN, popped, list, nextMsgId, requested, pc, turn>>
  BY DEF Established, msgVars, queueVars, listVars, execVars, List
<1>3. s \in Sessions /\ s \notin live
  <2>1. opened \in Nat /\ MaxOpen \in Nat /\ live \subseteq 1 .. opened
    BY <1>1, WsIs DEF WsTyped
  <2>2. QED
    BY <1>2, <2>1, WsIs
<1>4. nextMsgId[s] = 0
  BY <1>1, <1>3 DEF SessInv
<1> HIDE DEF s
<1>5. \A u : Due(u)' <=> Due(u)
  BY <1>2 DEF Due, But, Linked, List, Asking
<1>6. calm' => But(s, 0)
  <2>1. Len(<<>>) <= 0
    OBVIOUS
  <2>2. QED
    BY <1>2, <2>1, Zenon DEF But
<1>7. \A u \in live' : calm' => Due(u)'
  BY <1>2, <1>5, <1>6 DEF ServeInv, Due
<1>8. ASSUME NEW m \in Messages PROVE Had(m)' = Had(m)
  <2>1. ~(m <= nextMsgId[s])
    BY <1>4, WsIs
  <2>2. QED
    BY <1>2, <2>1 DEF Had
<1>9. \A m : Listed(m)' <=> Listed(m)
  BY <1>2 DEF Listed, Linked, List
<1>10. QED
  BY <1>2, <1>7, <1>8, <1>9 DEF ServeInv

LEMMA WriteServe ==
  ASSUME OneSends, WsInv, ServeInv, NEW s \in Sessions, Writeable(s)
  PROVE  ServeInv'
<1>1. WsTyped /\ ListInv /\ SessInv /\ WsTyped'
  BY WriteKeeps DEF WsInv
<1>2. /\ s \in live /\ requested' = requested \ {s} /\ s \in requested /\ ~Asking
      /\ UNCHANGED <<popped, list, live, pc, turn, calm>>
  BY WriteIs DEF Writeable, Serving, Asking
<1>3. PICK q \in Nat :
        /\ nextMsgId' = [nextMsgId EXCEPT ![s] = q]
        /\ nextMsgId[s] <= q /\ q <= Linked
        /\ sessionN' = [m \in Messages |->
                     sessionN[m] + IF Listed(m) /\ nextMsgId[s] < m /\ m <= q THEN 1 ELSE 0]
  BY WriteIs
<1>4. /\ Messages \subseteq Nat /\ nextMsgId \in [Sessions -> Nat] /\ live \subseteq Sessions
      /\ sessionN \in [Messages -> Nat]
  <2>1. Messages \subseteq Nat
    <3>1. Messages = 1 .. MaxSend /\ MaxSend \in Nat
      BY WsIs
    <3>2. QED
      BY <3>1
  <2>2. live \subseteq Sessions
    BY <1>1, ListTyped
  <2>3. nextMsgId \in [Sessions -> Nat] /\ sessionN \in [Messages -> Nat]
    BY <1>1 DEF WsTyped
  <2>4. QED
    BY <2>1, <2>2, <2>3
<1>5. nextMsgId'[s] = q /\ \A u \in Sessions : u # s => nextMsgId'[u] = nextMsgId[u]
  BY <1>3, <1>4
<1>6. ASSUME calm', NEW u \in live PROVE Due(u)'
  <2>1. Due(u)
    BY <1>2, <1>6 DEF ServeInv
  <2>2. CASE u = s
    <3>1. But(s, 1)
      <4>1. But(s, 0) => But(s, 1)
        <5>1. nextMsgId[s] \in Nat /\ Linked \in Nat /\ Len(List) \in Nat
          BY <1>1, <1>2, <1>4, ListTyped
        <5>2. QED
          BY <5>1 DEF But
      <4>2. QED
        BY <1>2, <2>1, <2>2, <4>1 DEF Due
    <3>2. QED
      BY <2>2, <3>1, WriteServes DEF Due
  <2>3. CASE u # s
    <3>1. \A k : But(u, k)' <=> But(u, k)
      BY <1>2, <1>4, <1>5, <2>3 DEF But, Linked, List
    <3>2. QED
      BY <1>2, <2>1, <2>3, <3>1 DEF Due
  <2>4. QED
    BY <2>2, <2>3
<1>7. ASSUME NEW m \in Messages, Listed(m)' PROVE Cardinality(Had(m)') <= sessionN'[m]
  <2>1. Listed(m) /\ Cardinality(Had(m)) <= sessionN[m] /\ sessionN[m] \in Nat
        /\ IsFiniteSet(Had(m)) /\ Cardinality(Had(m)) \in Nat
    BY <1>1, <1>2, <1>4, <1>7, HadFinite DEF ServeInv, Listed, Linked, List
  <2>2. CASE nextMsgId[s] < m /\ m <= q
    <3>1. Had(m)' \subseteq Had(m) \cup {s}
      BY <1>2, <1>4, <1>5 DEF Had
    <3>2. Cardinality(Had(m) \cup {s}) <= Cardinality(Had(m)) + 1
          /\ IsFiniteSet(Had(m) \cup {s}) /\ Cardinality(Had(m) \cup {s}) \in Nat
      <4>1. /\ IsFiniteSet(Had(m) \cup {s})
            /\ \/ Cardinality(Had(m) \cup {s}) = Cardinality(Had(m))
               \/ Cardinality(Had(m) \cup {s}) = Cardinality(Had(m)) + 1
        BY <2>1, FS_AddElement
      <4>2. QED
        BY <2>1, <4>1
    <3>3. Cardinality(Had(m)') <= Cardinality(Had(m) \cup {s}) /\ Cardinality(Had(m)') \in Nat
      BY <3>1, <3>2, FS_Subset, FS_CardinalityType
    <3>4. sessionN'[m] = sessionN[m] + 1
      BY <1>3, <2>1, <2>2
    <3>5. QED
      BY <2>1, <3>2, <3>3, <3>4
  <2>3. CASE ~(nextMsgId[s] < m /\ m <= q)
    <3>1. \A u \in live : m <= nextMsgId'[u] <=> m <= nextMsgId[u]
      BY <1>3, <1>4, <1>5, <2>3
    <3>2. Had(m)' = Had(m)
      BY <1>2, <3>1 DEF Had
    <3>3. sessionN'[m] = sessionN[m]
      BY <1>3, <2>1, <2>3
    <3>4. QED
      BY <2>1, <3>2, <3>3
  <2>4. QED
    BY <2>2, <2>3
<1>8. QED
  BY <1>2, <1>6, <1>7 DEF ServeInv

LEMMA GoneServe ==
  ASSUME OneSends, WsInv, ServeInv, NEW s \in live, NEW D, Gone(s, D), Serving
  PROVE  ServeInv'
<1>1. WsTyped
  BY DEF WsInv
<1>2. /\ live' = live \ {s} /\ requested' = requested \ {s}
      /\ sessionN' = [m \in Messages |-> sessionN[m] + IF m \in D THEN 1 ELSE 0]
      /\ nextMsgId' = [nextMsgId EXCEPT ![s] = 0]
      /\ UNCHANGED <<popped, list, pc, turn, calm>>
  BY DEF Gone, queueVars, listVars, execVars
<1>3. /\ sessionN \in [Messages -> Nat] /\ nextMsgId \in [Sessions -> Nat]
      /\ live \subseteq Sessions
  BY <1>1, ListTyped DEF WsTyped
<1>4. /\ \A u \in live' : nextMsgId'[u] = nextMsgId[u]
      /\ \A m \in Messages : sessionN[m] <= sessionN'[m] /\ sessionN'[m] \in Nat
  BY <1>2, <1>3
<1>5. ASSUME calm', NEW u \in live' PROVE Due(u)'
  <2>1. \A k : But(u, k)' <=> But(u, k)
    BY <1>2, <1>4 DEF But, Linked, List
  <2>2. Due(u) /\ (u \in requested => u \in requested')
    BY <1>2, <1>5 DEF ServeInv
  <2>3. QED
    BY <1>2, <2>1, <2>2 DEF Due, Asking
<1>6. ASSUME NEW m \in Messages, Listed(m)' PROVE Cardinality(Had(m)') <= sessionN'[m]
  <2>1. Listed(m) /\ Cardinality(Had(m)) <= sessionN[m]
    BY <1>2, <1>6 DEF ServeInv, Listed, Linked, List
  <2>2. Had(m)' \subseteq Had(m)
    BY <1>2, <1>4 DEF Had
  <2>3. IsFiniteSet(Had(m)) /\ Cardinality(Had(m)) \in Nat
    BY <1>1, HadFinite
  <2>4. Cardinality(Had(m)') <= Cardinality(Had(m)) /\ Cardinality(Had(m)') \in Nat
    BY <2>2, <2>3, FS_Subset, FS_CardinalityType
  <2>5. QED
    BY <1>3, <1>4, <2>1, <2>3, <2>4
<1>7. QED
  BY <1>5, <1>6 DEF ServeInv

\* The clean-up leaves what a session lacks, or less; a linked message adds one.
LEMMA CleanServe ==
  ASSUME OneSends, WsInv, ServeInv, Clean \/ Link
  PROVE  ServeInv'
<1>1. WsTyped /\ ListInv /\ SessInv
  BY DEF WsInv
<1>2. /\ CleanN(1) \in Nat /\ CleanN(1) <= Len(List) /\ Cleaned(1) \in Seq(Messages)
      /\ Len(Cleaned(1)) = Len(List) - CleanN(1) /\ Len(List) \in Nat
      /\ Linked = popped + Len(List) /\ popped \in Nat /\ Linked \in Nat
      /\ nextMsgId \in [Sessions -> Nat] /\ live \subseteq Sessions /\ Messages \subseteq Nat
  <2>1. /\ CleanN(1) \in Nat /\ CleanN(1) <= Len(List) /\ Cleaned(1) \in Seq(Messages)
        /\ Len(Cleaned(1)) = Len(List) - CleanN(1)
    BY <1>1, CleanIs
  <2>2. Len(List) \in Nat /\ Linked \in Nat /\ live \subseteq Sessions
    BY <1>1, ListTyped
  <2>3. Messages = 1 .. MaxSend /\ MaxSend \in Nat
    BY WsIs
  <2>4. QED
    BY <1>1, <2>1, <2>2, <2>3 DEF WsTyped, Linked
<1>3. /\ UNCHANGED <<nextMsgId, sessionN, live, requested, calm>>
      /\ popped' = popped + CleanN(1) /\ ~Asking
  <2>1. CASE Clean
    BY <1>1, <2>1 DEF Clean, ListInv, Asking, msgVars, sessVars, wsHist
  <2>2. CASE Link
    BY <1>1, <2>2, LinkIs DEF Link, Asking, sessVars
  <2>3. QED
    BY <2>1, <2>2
<1>4. \/ Len(List') <= Len(List) /\ Linked' = Linked
      \/ Len(List') <= Len(List) + 1 /\ Linked' = Linked + 1 /\ Asking'
  <2>1. CASE Clean
    <3>1. list' = [list EXCEPT ![1] = Cleaned(1)]
      BY <1>1, <2>1 DEF Clean, ListInv
    <3>2. List' = Cleaned(1)
      BY <1>1, <3>1, WsIs DEF List, WsTyped
    <3>3. Len(List') = Len(List) - CleanN(1) /\ Linked' = popped' + Len(List')
      BY <1>2, <3>2 DEF Linked
    <3>4. QED
      BY <1>2, <1>3, <3>3, SMTT(60)
  <2>2. CASE Link
    <3>1. List' = Append(Cleaned(1), Peeked) /\ Peeked \in Messages /\ Linked' = Linked + 1
      BY <1>1, <2>2, LinkIs
    <3>2. Len(List') = Len(Cleaned(1)) + 1
      BY <1>2, <3>1
    <3>3. Asking'
      BY <2>2 DEF Link, Goto, Asking
    <3>4. QED
      BY <1>2, <3>1, <3>2, <3>3, SMTT(60)
  <2>3. QED
    BY <2>1, <2>2
<1>5. Len(List') \in Nat
  <2>1. WsTyped'
    BY CleanStep, LinkKeeps DEF WsInv
  <2>2. QED
    BY <2>1, WsIs DEF WsTyped, List
<1>6. ASSUME calm', NEW u \in live PROVE Due(u)'
  <2>1. Due(u) /\ nextMsgId[u] \in Nat
    BY <1>2, <1>3, <1>6 DEF ServeInv
  <2>2. But(u, 0) \/ (But(u, 1) /\ u \in requested)
    BY <1>3, <2>1 DEF Due
  <2>3. CASE Len(List') <= Len(List) /\ Linked' = Linked
    <3>1. (But(u, 0) => But(u, 0)') /\ (But(u, 1) => But(u, 1)')
      BY <1>2, <1>3, <1>5, <2>1, <2>3, SMTT(60) DEF But
    <3>2. QED
      BY <1>3, <2>2, <3>1 DEF Due
  <2>4. CASE Len(List') <= Len(List) + 1 /\ Linked' = Linked + 1 /\ Asking'
    <3>1. But(u, 0) => But(u, 1)'
      BY <1>2, <1>3, <1>5, <2>1, <2>4, SMTT(60) DEF But
    <3>2. QED
      BY <1>3, <2>2, <2>4, <3>1 DEF Due
  <2>5. QED
    BY <1>4, <2>3, <2>4
<1>7. ASSUME NEW m \in Messages, Listed(m)' PROVE Cardinality(Had(m)') <= sessionN'[m]
  <2>1. Had(m)' = Had(m) /\ sessionN' = sessionN
    BY <1>3 DEF Had
  <2>2. CASE Listed(m)
    BY <2>1, <2>2 DEF ServeInv
  <2>3. CASE ~Listed(m)
    <3>1. popped < m /\ ~(m <= Linked) /\ m \in Nat
      BY <1>2, <1>3, <1>7, <2>3, SMTT(60) DEF Listed
    <3>2. \A u \in live : nextMsgId[u] <= Linked /\ nextMsgId[u] \in Nat
      BY <1>1, <1>2 DEF SessInv
    <3>3. Had(m) = {}
      BY <1>2, <3>1, <3>2 DEF Had
    <3>4. Cardinality(Had(m)) = 0 /\ sessionN[m] \in Nat
      BY <1>1, <3>3, FS_EmptySet DEF WsTyped
    <3>5. QED
      BY <2>1, <3>4
  <2>4. QED
    BY <2>2, <2>3
<1>8. QED
  BY <1>3, <1>6, <1>7 DEF ServeInv

LEMMA ServeAlways == OneSends => (WsSpec => [](WsInv /\ ServeInv))
<1> SUFFICES ASSUME OneSends PROVE WsSpec => [](WsInv /\ ServeInv)
  OBVIOUS
<1>1. ASSUME WsInit PROVE ServeInv
  <2>1. WsTyped /\ live = {} /\ Len(List) = 0
    BY <1>1, WsInvInit, WsIs DEF WsInv, WsInit, List
  <2>2. ASSUME NEW m \in Messages PROVE ~Listed(m)
    BY <1>1, <2>1, WsIs DEF Listed, Linked, WsInit
  <2>3. QED
    BY <2>1, <2>2 DEF ServeInv
<1>2. ASSUME WsInv, ServeInv, [WsNext]_wsVars PROVE ServeInv'
  <2>1. ASSUME NEW p \in Protocols, NEW s \in {All} \cup Of(p), Send(p, s) PROVE ServeInv'
    BY <1>2, <2>1, SendServe
  <2>2. ASSUME NEW p \in Protocols, Established(p) PROVE ServeInv'
    BY <1>2, <2>2, OpenServe, WsIs
  <2>3. ASSUME NEW s \in Sessions, Closed(s) \/ WriteFails(s) PROVE ServeInv'
    <3>1. s \in live /\ Serving /\ \E D : Gone(s, D)
      BY <1>2, <2>3 DEF Closed, WriteFails, WsInv, WsTyped
    <3>2. QED
      BY <1>2, <3>1, GoneServe
  <2>4. ASSUME NEW s \in Sessions, Writeable(s) PROVE ServeInv'
    BY <1>2, <2>4, WriteServe
  <2>5. CASE ExecStep
    BY <1>2, <2>5, EndServe, CleanServe, AskServe DEF ExecStep
  <2>6. CASE UNCHANGED wsVars
    <3>1. UNCHANGED <<popped, list, nextMsgId, sessionN, live, requested, pc, turn, calm>>
      BY <2>6 DEF wsVars, msgVars, queueVars, listVars, sessVars, execVars, wsHist
    <3>2. \A u : Due(u)' <=> Due(u)
      BY <3>1 DEF Due, But, Linked, List, Asking
    <3>3. QED
      BY <1>2, <3>1, <3>2, ServeSame DEF ServeInv
  <2>7. QED
    BY <1>2, <2>1, <2>2, <2>3, <2>4, <2>5, <2>6 DEF WsNext
<1>3. QED
  BY <1>1, <1>2, WsInvInit, WsInvStep, PTL DEF WsSpec

\* While no session is slow to read or opens at a bad time, each that lacks a
\* message of the list is to be told that it can be written, or exec() is about
\* to ask for it: no session waits for a message that nobody will write it.
THEOREM NoSessionForgotten == OneSends => (WsSpec => []NobodyForgotten)
<1> SUFFICES ASSUME OneSends PROVE WsSpec => []NobodyForgotten
  OBVIOUS
<1>1. ASSUME WsInv, ServeInv PROVE NobodyForgotten
  <2> SUFFICES ASSUME calm, NEW s \in live, New(s) # {}
               PROVE  s \in requested \/ Linking(protocol[s])
    BY DEF NobodyForgotten
  <2>1. WsTyped /\ ListInv /\ SessInv /\ Due(s)
    BY <1>1 DEF WsInv, ServeInv
  <2>2. protocol[s] = 1
    BY <2>1 DEF SessInv
  <2>3. PICK i \in DOMAIN List : msgId[List[i]] >= nextMsgId[s]
    BY <2>2 DEF New, List
  <2>4. /\ List[i] = popped + i /\ msgId[List[i]] = List[i] - 1 /\ List[i] <= Linked
        /\ Linked \in Nat /\ popped \in Nat /\ Len(List) \in Nat /\ DOMAIN List = 1 .. Len(List)
        /\ nextMsgId[s] \in Nat
    <3>1. List[i] = popped + i /\ msgId[List[i]] = List[i] - 1 /\ List[i] <= Linked
      BY <2>1, ListedIs DEF Listed
    <3>2. List \in Seq(Messages) /\ Len(List) \in Nat /\ Linked \in Nat /\ s \in Sessions
      BY <2>1, ListTyped
    <3>3. popped \in Nat /\ nextMsgId[s] \in Nat
      BY <2>1, <3>2 DEF WsTyped
    <3>4. QED
      BY <3>1, <3>2, <3>3
  <2>5. ~But(s, 0)
    BY <2>3, <2>4 DEF But
  <2>6. s \in requested \/ Asking
    BY <2>1, <2>5 DEF Due
  <2>7. Asking => Linking(1)
    BY <2>1 DEF Asking, Linking, ListInv
  <2>8. QED
    BY <2>2, <2>6, <2>7
<1>2. QED
  BY <1>1, ServeAlways, PTL

\* And when all calm sessions have been written, the next clean-up removes all
\* messages of the list: none is kept for a session that has been served.
THEOREM NothingEverStuck == OneSends => (WsSpec => []NothingStuck)
<1> SUFFICES ASSUME OneSends PROVE WsSpec => []NothingStuck
  OBVIOUS
<1>1. ASSUME WsInv, ServeInv PROVE NothingStuck
  <2> SUFFICES ASSUME calm, Of(1) \cap requested = {}, ~Linking(1)
               PROVE  CleanN(1) = Len(List)
    BY WsIs DEF NothingStuck, List
  <2> DEFINE Ok(i) == /\ i <= Len(List) /\ popped + i <= sent
                      /\ SentToAll(List[i], 1)
                      /\ msgId[popped + i] = msgId[List[i]]
             Upto(n) == (\A i \in 1 .. n : Ok(i)) /\ ~Ok(n + 1)
  <2>1. WsTyped /\ ListInv /\ SessInv
    BY <1>1 DEF WsInv
  <2>2. /\ Linked \in Nat /\ popped \in Nat /\ Len(List) \in Nat /\ Linked = popped + Len(List)
        /\ sent \in Nat /\ Linked <= sent /\ Messages \subseteq Nat
        /\ DOMAIN List = 1 .. Len(List) /\ nextMsgId \in [Sessions -> Nat] /\ live \subseteq Sessions
    BY <2>1, ListTyped, WsIs DEF WsTyped, ListInv, Linked
  <2>3. Of(1) = live
    BY <2>1 DEF Of, SessInv
  <2>4. ~Asking
    BY <2>1 DEF Asking, Linking, ListInv
  <2>5. ASSUME NEW s \in live PROVE But(s, 0)
    BY <1>1, <2>3, <2>4 DEF ServeInv, Due
  <2>6. ASSUME NEW i \in 1 .. Len(List) PROVE Ok(i)
    <3>1. List[i] \in Messages /\ List[i] = popped + i /\ Listed(List[i])
      BY <2>1, <2>2, ListedIs
    <3>2. ASSUME NEW s \in live PROVE List[i] <= nextMsgId[s]
      <4>1. Linked <= nextMsgId[s]
        BY <2>2, <2>5 DEF But
      <4>2. QED
        BY <2>2, <3>1, <4>1
    <3>3. Had(List[i]) = live
      BY <3>2 DEF Had
    <3>4. SentToAll(List[i], 1)
      <4>1. Cardinality(live) <= sessionN[List[i]] /\ SessionN(1) = Cardinality(live)
        BY <1>1, <2>3, <3>1, <3>3 DEF ServeInv, SessionN
      <4>2. Cardinality(live) \in Nat /\ sessionN[List[i]] \in Nat
        BY <2>1, <3>1, HadFinite DEF WsTyped
      <4>3. QED
        BY <4>1, <4>2 DEF SentToAll
    <3>5. QED
      BY <2>2, <3>1, <3>4
  <2>7. Upto(Len(List)) /\ \A n \in 0 .. Len(List) : Upto(n) => n = Len(List)
    <3>1. ~Ok(Len(List) + 1)
      BY <2>2
    <3> HIDE DEF Ok
    <3>2. ASSUME NEW n \in 0 .. Len(List), n # Len(List) PROVE Ok(n + 1)
      <4> DEFINE l == Len(List)
      <4>1. n + 1 \in 1 .. l
        <5>1. l \in Nat /\ n \in 0 .. l /\ n # l
          BY <2>2, <3>2, ZenonT(60)
        <5> HIDE DEF l
        <5>2. QED
          BY <5>1
      <4>2. QED
        BY <2>6, <4>1
    <3>3. QED
      BY <2>6, <3>1, <3>2
  <2>8. CleanN(1) = CHOOSE n \in 0 .. Len(List) : Upto(n)
    BY DEF CleanN, List
  <2> HIDE DEF Upto
  <2>9. Len(List) \in 0 .. Len(List)
    BY <2>2
  <2>10. QED
    BY <2>7, <2>8, <2>9
<1>2. QED
  BY <1>1, ServeAlways, PTL
==============================================================================
