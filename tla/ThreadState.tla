----------------------------- MODULE ThreadState -----------------------------
(***************************************************************************)
(* cw::thread: a worker thread that a controller pauses, unpauses and      *)
(* destroys.  The two talk through two words, without a lock: the worker   *)
(* alone writes stateId, the controller writes its request to doFlags and  *)
(* the worker clears it when it pauses.  One action is one access to a     *)
(* shared word with the thread-local work next to it.  All threads of io,  *)
(* the servers, the drivers and the worker pools are of this kind.         *)
(***************************************************************************)
EXTENDS Integers

CONSTANTS
  PauseMicros, \* create(): pauseMicros
  CycleCnts,   \* the values of cycleCnt pause() is given; 0 is no limit
  FuncEnds,    \* TRUE if the callback may return false
  SelfPause,   \* TRUE if the callback may pause its own thread
  MaxOps,      \* bound: operations of the controller
  MaxCycle     \* bound: callbacks are counted up to here

ASSUME ThreadAssumption ==
  /\ PauseMicros \in Nat
  /\ CycleCnts \subseteq Nat
  /\ FuncEnds \in BOOLEAN
  /\ SelfPause \in BOOLEAN
  /\ MaxOps \in Nat
  /\ MaxCycle \in Nat
  /\ \A n \in CycleCnts : n < MaxCycle

VARIABLES
  stateId,     \* thread_t: "paused", "running" or "exited"
  doFlags,     \* thread_t: the request, "none", "pause", "run" or "exit"
  cycleIdx,    \* thread_t: callbacks since the thread left the pause state
  cycleCnt,    \* thread_t: limit on cycleIdx
  wpc,         \* where the worker is in _threadCallback
  curDoFlags,  \* the worker's copy of doFlags
  signaled,    \* the worker waits on the cond. var. and was signaled
  cpc,         \* where the controller is
  req,         \* its operation: "pause", "run" or "destroy"
  cnt, wait,   \* its arguments: cycleCnt, kWaitFl
  seen,        \* the stateId it read on entry
  rc,          \* the result of its last operation
  opN,         \* operations so far
  asked, quiet, goal, calls, strict, settled    \* history, see below

sharedVars  == <<stateId, doFlags, cycleIdx, cycleCnt>>
workerVars  == <<wpc, curDoFlags>>
controlVars == <<cpc, req, cnt, wait, seen, rc, opN>>
runHist     == <<asked, quiet, goal, calls>>
histVars    == <<runHist, strict, settled>>
vars == <<sharedVars, workerVars, signaled, controlVars, histVars>>

(***************************************************************************)
(* History.  asked: the controller has requested a run since the worker    *)
(* last took one up or was last requested to do something else.  quiet:    *)
(* the last operation was a pause with kWaitFl that returned kOkRC.  goal: *)
(* the cycle limit of the last unpause, until pause() changes it.  calls:  *)
(* callbacks since the thread left the pause state.                        *)
(*   Two kinds of controller are told apart by what it has done so far.    *)
(* strict: it passed kWaitFl to every call and none was timed out.         *)
(* settled: it has called only when the worker was at rest, without a      *)
(* cycle limit, none of its calls was timed out, and the callback has not  *)
(* paused its thread.                                                      *)
(***************************************************************************)
AtRest == wpc \in {"top", "wait", "func", "done"} /\ doFlags # "pause"

PauseMs == PauseMicros \div 1000

Tick(n) == IF n < MaxCycle THEN n + 1 ELSE n

Init ==
  /\ stateId = "paused" /\ doFlags = "none"
  /\ cycleIdx = 0 /\ cycleCnt = 0
  /\ wpc = "top" /\ curDoFlags = "none"
  /\ signaled = FALSE
  /\ cpc = "idle" /\ req = "pause" /\ cnt = 0 /\ wait = FALSE
  /\ seen = "paused" /\ rc = "ok" /\ opN = 0
  /\ asked = FALSE /\ quiet = FALSE /\ goal = 0 /\ calls = 0
  /\ strict = TRUE /\ settled = TRUE

------------------------------------------------------------------------------
(* The worker: _threadCallback *)

\* The head of the loop: a paused thread waits, a running one works.
Top ==
  /\ wpc = "top"
  /\ wpc' = IF stateId = "paused" THEN "wait" ELSE "func"
  /\ signaled' = FALSE
  /\ UNCHANGED <<sharedVars, curDoFlags, controlVars, histVars>>

\* waitOnCondVar() returns: signaled, timed out, or spuriously.
Wake ==
  /\ wpc = "wait"
  /\ wpc' = "woken"
  /\ signaled' = FALSE
  /\ UNCHANGED <<sharedVars, curDoFlags, controlVars, histVars>>

\* What is certain to end the wait; timeOutMs == 0 waits without a limit.
MustWake == signaled \/ PauseMs > 0

FirstCycle == 0

AfterDeaf(f) == IF f = "run" THEN "start" ELSE "top"    \* mutant: no exit
AfterWait(f) == CASE f = "run" -> "start" [] f = "exit" -> "exit" [] OTHER -> "top"

\* doFlags.load() in the pause state.
Woken ==
  /\ wpc = "woken"
  /\ curDoFlags' = doFlags
  /\ IF doFlags = "run"
     THEN cycleIdx' = FirstCycle /\ calls' = 0 /\ asked' = FALSE
     ELSE UNCHANGED <<cycleIdx, calls, asked>>
  /\ wpc' = AfterWait(doFlags)
  /\ UNCHANGED <<stateId, doFlags, cycleCnt, signaled, controlVars, quiet, goal,
                 strict, settled>>

Start ==
  /\ wpc = "start"
  /\ stateId' = "running"
  /\ wpc' = "top"
  /\ UNCHANGED <<doFlags, cycleIdx, cycleCnt, curDoFlags, signaled, controlVars,
                 histVars>>

\* The callback returns true.
Func ==
  /\ wpc = "func"
  /\ calls' = Tick(calls)
  /\ wpc' = "ran"
  /\ UNCHANGED <<sharedVars, curDoFlags, signaled, controlVars, asked, quiet, goal,
                 strict, settled>>

\* The callback returns false.
FuncFalse ==
  /\ wpc = "func"
  /\ FuncEnds
  /\ calls' = Tick(calls)
  /\ wpc' = "exit"
  /\ UNCHANGED <<sharedVars, curDoFlags, signaled, controlVars, asked, quiet, goal,
                 strict, settled>>

\* The callback calls pause(h,kPauseFl) on its own thread, which is running:
\* cycleCnt is written, then doFlags.
FuncPause ==
  /\ wpc = "func"
  /\ SelfPause
  /\ cycleCnt' = 0
  /\ goal' = 0
  /\ calls' = Tick(calls)
  /\ settled' = FALSE
  /\ wpc' = "selfpause"
  /\ UNCHANGED <<stateId, doFlags, cycleIdx, curDoFlags, signaled, controlVars,
                 asked, quiet, strict>>

FuncPauseFlag ==
  /\ wpc = "selfpause"
  /\ doFlags' = "pause"
  /\ wpc' = "ran"
  /\ UNCHANGED <<stateId, cycleIdx, cycleCnt, curDoFlags, signaled, controlVars,
                 histVars>>

\* doFlags.load() after the callback.
Ran ==
  /\ wpc = "ran"
  /\ curDoFlags' = doFlags
  /\ IF doFlags = "exit"
     THEN wpc' = "exit" /\ UNCHANGED cycleIdx
     ELSE wpc' = "cycle" /\ cycleIdx' = Tick(cycleIdx)
  /\ UNCHANGED <<stateId, doFlags, cycleCnt, signaled, controlVars, histVars>>

CyclesOver == cycleCnt > 0 /\ cycleIdx > cycleCnt      \* mutant: off by one
CyclesDone == cycleCnt > 0 /\ cycleIdx >= cycleCnt

MustPause == curDoFlags = "pause" \/ CyclesDone

Cycle ==
  /\ wpc = "cycle"
  /\ wpc' = IF MustPause THEN "pausing" ELSE "top"
  /\ UNCHANGED <<sharedVars, curDoFlags, signaled, controlVars, histVars>>

Pausing ==
  /\ wpc = "pausing"
  /\ stateId' = "paused"
  /\ wpc' = "clear"
  /\ UNCHANGED <<doFlags, cycleIdx, cycleCnt, curDoFlags, signaled, controlVars,
                 histVars>>

KeepFlags == UNCHANGED doFlags         \* mutant: the request is not cleared
ClearFlags == doFlags' = "none"

Clear ==
  /\ wpc = "clear"
  /\ ClearFlags
  /\ wpc' = "top"
  /\ UNCHANGED <<stateId, cycleIdx, cycleCnt, curDoFlags, signaled, controlVars,
                 histVars>>

\* _threadCleanUpCallback
Exit ==
  /\ wpc = "exit"
  /\ stateId' = "exited"
  /\ wpc' = "done"
  /\ UNCHANGED <<doFlags, cycleIdx, cycleCnt, curDoFlags, signaled, controlVars,
                 histVars>>

Worker ==
  \/ Top \/ Wake \/ Woken \/ Start \/ Func \/ FuncFalse \/ FuncPause
  \/ FuncPauseFlag \/ Ran \/ Cycle \/ Pausing \/ Clear \/ Exit

------------------------------------------------------------------------------
(* The controller: pause(), unpause(), destroy() *)

\* pause(h, flags, cycleCnt), unpause(h, cycleCnt): the state is read.
Begin(r, n, w) ==
  /\ cpc = "idle"
  /\ opN < MaxOps
  /\ strict' = (strict /\ w)
  /\ settled' = (settled /\ AtRest /\ n = 0)
  /\ opN' = opN + 1
  /\ req' = r /\ cnt' = n /\ wait' = w
  /\ seen' = stateId
  /\ cpc' = "set"
  /\ UNCHANGED <<sharedVars, workerVars, signaled, rc, runHist>>

\* cycleCnt is stored and the call returns if there is nothing to do.
Set ==
  /\ cpc = "set"
  /\ cycleCnt' = cnt
  /\ goal' = 0
  /\ IF (seen = "paused") = (req = "pause")
     THEN /\ cpc' = "idle" /\ rc' = "ok"
          /\ quiet' = (req = "pause" /\ wait)
     ELSE /\ cpc' = "request"
          /\ quiet' = FALSE
          /\ UNCHANGED rc
  /\ UNCHANGED <<stateId, doFlags, cycleIdx, workerVars, signaled, req, cnt, wait,
                 seen, opN, asked, calls, strict, settled>>

\* The return of pause(): at once, or after _waitForState.
Return == IF wait THEN cpc' = "poll" /\ UNCHANGED rc
                  ELSE cpc' = "idle" /\ rc' = "ok"

Request ==
  /\ cpc = "request"
  /\ doFlags' = req
  /\ asked' = (req = "run")
  /\ goal' = IF req = "run" THEN cnt ELSE 0
  /\ IF req = "run"
     THEN cpc' = "signal" /\ UNCHANGED rc
     ELSE Return
  /\ UNCHANGED <<stateId, cycleIdx, cycleCnt, workerVars, signaled, req, cnt,
                 wait, seen, opN, quiet, calls, strict, settled>>

\* signalCondVar(): lost when the worker does not wait.
Signal ==
  /\ cpc = "signal"
  /\ signaled' = (wpc = "wait")
  /\ Return
  /\ UNCHANGED <<sharedVars, workerVars, req, cnt, wait, seen, opN, histVars>>

\* destroy(): the request to exit; a failed destroy may be repeated.
Destroy ==
  /\ cpc = "idle"
  /\ opN < MaxOps
  /\ settled' = (settled /\ AtRest)
  /\ opN' = opN + 1
  /\ req' = "destroy"
  /\ doFlags' = "exit"
  /\ cpc' = "poll"
  /\ asked' = FALSE /\ quiet' = FALSE /\ goal' = 0
  /\ UNCHANGED <<stateId, cycleIdx, cycleCnt, workerVars, signaled, cnt, wait,
                 seen, rc, calls, strict>>

Target == [pause |-> "paused", run |-> "running", destroy |-> "exited"]

ReachedAny == stateId # "exited"       \* mutant: any live state will do
Reached == stateId = Target[req]

\* _waitForState: one look at stateId ...
Poll ==
  /\ cpc = "poll"
  /\ CASE Reached ->
            /\ cpc' = IF req = "destroy" THEN "gone" ELSE "idle"
            /\ rc' = "ok" /\ quiet' = (req = "pause")
       [] ~Reached /\ stateId = "exited" ->
            cpc' = "idle" /\ rc' = "invalidState" /\ UNCHANGED quiet
       [] OTHER -> cpc' = "sleep" /\ UNCHANGED <<rc, quiet>>
  /\ UNCHANGED <<sharedVars, workerVars, signaled, req, cnt, wait, seen, opN,
                 asked, goal, calls, strict, settled>>

\* ... a sleep, and another look ...
Again ==
  /\ cpc = "sleep"
  /\ cpc' = "poll"
  /\ UNCHANGED <<sharedVars, workerVars, signaled, req, cnt, wait, seen, rc, opN,
                 histVars>>

\* ... or kTimeOutRC, whatever stateId is by then.
TimeOut ==
  /\ cpc = "sleep"
  /\ cpc' = "idle" /\ rc' = "timeOut"
  /\ strict' = FALSE /\ settled' = FALSE
  /\ UNCHANGED <<sharedVars, workerVars, signaled, req, cnt, wait, seen, opN,
                 runHist>>

InCall == Set \/ Request \/ Signal \/ Poll \/ Again \/ TimeOut

Controller ==
  \/ \E r \in {"pause", "run"}, n \in CycleCnts, w \in BOOLEAN : Begin(r, n, w)
  \/ Destroy
  \/ InCall

Next == Worker \/ Controller

Spec == Init /\ [][Next]_vars

(***************************************************************************)
(* The worker and a controller that is inside a call go on; the wait on    *)
(* the condition variable ends only when something ends it, and nobody has *)
(* to call.                                                                *)
(***************************************************************************)
Fairness ==
  /\ WF_vars(Worker /\ (wpc = "wait" => MustWake))
  /\ WF_vars(InCall)

FairSpec == Spec /\ Fairness

------------------------------------------------------------------------------
(* Properties *)

TypeShared ==
  /\ stateId \in {"paused", "running", "exited"}
  /\ doFlags \in {"none", "pause", "run", "exit"}
  /\ cycleIdx \in Nat /\ cycleCnt \in Nat

TypeWorker ==
  /\ wpc \in {"top", "wait", "woken", "start", "func", "selfpause", "ran",
              "cycle", "pausing", "clear", "exit", "done"}
  /\ curDoFlags \in {"none", "pause", "run", "exit"}
  /\ signaled \in BOOLEAN

TypeControl ==
  /\ cpc \in {"idle", "set", "request", "signal", "poll", "sleep", "gone"}
  /\ req \in {"pause", "run", "destroy"}
  /\ cpc \in {"set", "request", "signal"} => req # "destroy"
  /\ cnt \in Nat /\ wait \in BOOLEAN
  /\ seen \in {"paused", "running", "exited"}
  /\ rc \in {"ok", "timeOut", "invalidState"}
  /\ opN \in 0 .. MaxOps

TypeHistory ==
  /\ asked \in BOOLEAN /\ quiet \in BOOLEAN
  /\ goal \in Nat /\ calls \in Nat
  /\ strict \in BOOLEAN /\ settled \in BOOLEAN

TypeOK == TypeShared /\ TypeWorker /\ TypeControl /\ TypeHistory

\* NoGhostRun: the worker leaves the pause state only for a request that was
\* made since it last did and not withdrawn, whatever flags are left over,
\* however calls time out and overlap with the worker.
NoGhostRun == [][wpc = "woken" /\ wpc' = "start" => asked]_vars

\* CycleExact: for a strict controller, a run that unpause() limited to n
\* cycles makes exactly n callbacks when it ends by itself, and never more.
CycleExact ==
  strict /\ goal > 0 /\ ~asked =>
    /\ calls <= goal
    /\ wpc = "pausing" /\ curDoFlags # "pause" => calls = goal

\* PausedIsQuiet: "Counter should not increase while paused" (test_thread):
\* after pause() with kWaitFl returned kOkRC to a strict controller, the
\* callback does not run until the next unpause().  Without kWaitFl, or after
\* a timeout, a request to run may still be under way when pause() finds the
\* thread paused.
PausedIsQuiet == strict /\ quiet => wpc \notin {"start", "func"}

\* RequestAnswered: a settled controller that waits long enough is answered,
\* destroy() included: neither the worker nor a request is lost.  (With a
\* pauseMicros below 1000 a signal that comes too early is lost for good.)
RequestAnswered == settled /\ cpc = "poll" ~> cpc \in {"idle", "gone"} \/ ~settled
=============================================================================
