----------------------------- MODULE CondTasks -----------------------------
(***************************************************************************)
(* cw::thread_tasks: the worker pool that blocks on condition variables.   *)
(* run() publishes an array of tasks, takes its workers out of their pause *)
(* and waits to be signalled by the worker that ends the last task; each   *)
(* worker pauses itself, from its own callback, when no task is left.  The *)
(* caller of run() holds the mutex of the pool except while it waits.      *)
(***************************************************************************)
EXTENDS Integers, FiniteSets

CONSTANTS
  ThreadN,     \* create(): the number of workers
  Calls,       \* run(): its arguments, <<task array, number of tasks>>
  Wakes,       \* how the wait of run() may end without the signal:
               \* "timeout", or "ok" (a spurious wakeup)
  MaxRash      \* bound: calls of run() that find a worker not at rest

ASSUME CondAssumption ==
  /\ ThreadN \in Nat \ {0}
  /\ Calls \subseteq (Nat \ {0}) \X (Nat \ {0})
  /\ Wakes \subseteq {"timeout", "ok"}
  /\ MaxRash \in Nat

Main == 0
Workers == 1 .. ThreadN

VARIABLES
  call,        \* taskA and taskN
  next,        \* next_task_idx
  done,        \* done_cnt
  state,       \* thread_t: stateId of each worker, "paused" or "running"
  flags,       \* thread_t: doFlags, "none", "run", "pause" or "exit"
  pc,          \* where each thread is
  nti,         \* what fetch_add() returned to each worker, 0 when used
  task,        \* the task each executes, NoCall if none
  arg,         \* run(): its arguments
  wi,          \* run(), _destroy(): the next worker
  rc,          \* what the wait of run() returned, "none" before
  begun, ended, settled, rash, slow  \* history, see below

taskVars == <<call, next, done>>
workVars == <<state, flags>>
localVars == <<nti, task>>
mainVars == <<arg, wi, rc>>
histVars == <<begun, ended, settled, rash, slow>>
vars == <<taskVars, workVars, pc, localVars, mainVars, histVars>>

(***************************************************************************)
(* History.  begun, ended: the tasks of the last run that began and ended. *)
(* settled: the last call of run() found all workers at rest, and its wait *)
(* did not end without the signal.  rash: the calls that did not.  slow: a *)
(* wait of destroy() ran out although the worker was not at rest.          *)
(***************************************************************************)
Calling == pc[Main] \in {"setTasks", "setTaskN", "resetDone", "resetNext", "wake",
                         "unpause", "block", "blocked"}

Leaving == pc[Main] \in {"exit", "join", "gone"}

AtRest(w) == pc[w] = "wait" /\ flags[w] = "none"

NoCall == <<0, 0>>

TasksOf(c) == {c[1]} \X (0 .. (c[2] - 1))

Init ==
  /\ call = NoCall /\ next = 0 /\ done = 0
  /\ state = [w \in Workers |-> "paused"]
  /\ flags = [w \in Workers |-> "none"]
  /\ pc = [t \in {Main} \cup Workers |-> IF t = Main THEN "idle" ELSE "wait"]
  /\ nti = [w \in Workers |-> 0]
  /\ task = [w \in Workers |-> NoCall]
  /\ arg = NoCall /\ wi = 1 /\ rc = "none"
  /\ begun = {} /\ ended = {} /\ settled = TRUE /\ rash = 0 /\ slow = FALSE

Goto(t, l) == pc' = [pc EXCEPT ![t] = l]

------------------------------------------------------------------------------
(* _threadCallback() of a worker, paused *)

\* The wait on the condition variable has a limit of its own (pauseMicros), so
\* a request is seen whether or not its signal was missed.
Wait(w) ==
  /\ pc[w] = "wait"
  /\ \/ flags[w] = "run" /\ Goto(w, "start")
     \/ flags[w] = "exit" /\ Goto(w, "exited")
  /\ UNCHANGED <<taskVars, workVars, localVars, mainVars, histVars>>

\* stateId.store(kRunningThId); doFlags keeps the request.
Start(w) ==
  /\ pc[w] = "start"
  /\ state' = [state EXCEPT ![w] = "running"]
  /\ Goto(w, "take")
  /\ UNCHANGED <<taskVars, flags, localVars, mainVars, histVars>>

------------------------------------------------------------------------------
(* _threadFunc() *)

\* next_task_idx.fetch_add(1)
Take(w) ==
  /\ pc[w] = "take"
  /\ nti' = [nti EXCEPT ![w] = next]
  /\ next' = next + 1
  /\ Goto(w, "compare")
  /\ UNCHANGED <<call, done, task, workVars, mainVars, histVars>>

ValidAny(i) == i <= call[2]        \* mutant: off by one
Valid(i) == i < call[2]

\* taskN is loaded: is there a task left?
Compare(w) ==
  /\ pc[w] = "compare"
  /\ Goto(w, IF Valid(nti[w]) THEN "exec" ELSE "selfPause")
  /\ nti' = [nti EXCEPT ![w] = IF Valid(@) THEN @ ELSE 0]
  /\ UNCHANGED <<taskVars, workVars, task, mainVars, histVars>>

\* taskA is loaded and the task is called ...
Exec(w) ==
  /\ pc[w] = "exec"
  /\ task' = [task EXCEPT ![w] = <<call[1], nti[w]>>]
  /\ begun' = begun \cup {<<call[1], nti[w]>>}
  /\ Goto(w, "busy")
  /\ UNCHANGED <<taskVars, workVars, nti, mainVars, ended, settled, rash, slow>>

\* ... it returns: done_cnt.fetch_add(1)
Done(w) ==
  /\ pc[w] = "busy"
  /\ nti' = [nti EXCEPT ![w] = done]
  /\ done' = done + 1
  /\ ended' = ended \cup {task[w]}
  /\ task' = [task EXCEPT ![w] = NoCall]
  /\ Goto(w, "last")
  /\ UNCHANGED <<call, next, workVars, mainVars, begun, settled, rash, slow>>

Last(w) == nti[w] + 1 = call[2]

\* taskN is loaded again: was that the last task?
IsLast(w) ==
  /\ pc[w] = "last"
  /\ Goto(w, IF Last(w) THEN "signal" ELSE "ran")
  /\ nti' = [nti EXCEPT ![w] = 0]
  /\ UNCHANGED <<taskVars, workVars, task, mainVars, histVars>>

MutexAny == TRUE                   \* mutant: the mutex is not taken
MutexFree == pc[Main] \in {"blocked", "gone"}

\* The mutex is locked, which the caller of run() holds until it waits, and
\* unlocked; then the condition variable is signalled.
Signal(w) ==
  /\ pc[w] = "signal"
  /\ MutexFree
  /\ rc' = IF pc[Main] = "blocked" /\ rc = "none" THEN "ok" ELSE rc
  /\ Goto(w, "selfPause")
  /\ UNCHANGED <<taskVars, workVars, localVars, arg, wi, histVars>>

\* pause(kPauseFl) of the thread itself: doFlags.store(kDoPauseThFl), whatever
\* has been requested in the meantime.
SelfPause(w) ==
  /\ pc[w] = "selfPause"
  /\ flags' = [flags EXCEPT ![w] = "pause"]
  /\ Goto(w, "ran")
  /\ UNCHANGED <<taskVars, state, localVars, mainVars, histVars>>

------------------------------------------------------------------------------
(* _threadCallback() of a worker, running: the callback has returned *)

Ran(w) ==
  /\ pc[w] = "ran"
  /\ Goto(w, CASE flags[w] = "exit" -> "exited"
               [] flags[w] = "pause" -> "pausing"
               [] OTHER -> "take")
  /\ UNCHANGED <<taskVars, workVars, localVars, mainVars, histVars>>

\* stateId.store(kPausedThId) ...
Pausing(w) ==
  /\ pc[w] = "pausing"
  /\ state' = [state EXCEPT ![w] = "paused"]
  /\ Goto(w, "clear")
  /\ UNCHANGED <<taskVars, flags, localVars, mainVars, histVars>>

NoFlags(w) == "none"

\* ... doFlags.store(0)
Clear(w) ==
  /\ pc[w] = "clear"
  /\ flags' = [flags EXCEPT ![w] = NoFlags(w)]
  /\ Goto(w, "wait")
  /\ UNCHANGED <<taskVars, state, localVars, mainVars, histVars>>

Step(w) ==
  \/ Wait(w) \/ Start(w) \/ Take(w) \/ Compare(w) \/ Exec(w) \/ Done(w) \/ IsLast(w)
  \/ Signal(w) \/ SelfPause(w) \/ Ran(w) \/ Pausing(w) \/ Clear(w)

------------------------------------------------------------------------------
(* run() *)

Run(c) ==
  /\ pc[Main] = "idle"
  /\ arg' = c /\ wi' = 1 /\ rc' = "none"
  /\ begun' = {} /\ ended' = {}
  /\ settled' = \A w \in Workers : AtRest(w)
  /\ rash' = IF settled' THEN rash ELSE rash + 1
  /\ rash' <= MaxRash
  /\ Goto(Main, "setTasks")
  /\ UNCHANGED <<taskVars, workVars, localVars, slow>>

SetTasks ==
  /\ pc[Main] = "setTasks"
  /\ call' = [call EXCEPT ![1] = arg[1]]
  /\ Goto(Main, "setTaskN")
  /\ UNCHANGED <<next, done, workVars, localVars, mainVars, histVars>>

SetTaskN ==
  /\ pc[Main] = "setTaskN"
  /\ call' = [call EXCEPT ![2] = arg[2]]
  /\ Goto(Main, "resetDone")
  /\ UNCHANGED <<next, done, workVars, localVars, mainVars, histVars>>

KeepDone == UNCHANGED done         \* mutant: the count is not reset
ZeroDone == done' = 0

\* done_cnt.store(0)
ResetDone ==
  /\ pc[Main] = "resetDone"
  /\ ZeroDone
  /\ Goto(Main, "resetNext")
  /\ UNCHANGED <<call, next, workVars, localVars, mainVars, histVars>>

\* next_task_idx.store(0)
ResetNext ==
  /\ pc[Main] = "resetNext"
  /\ next' = 0
  /\ Goto(Main, "wake")
  /\ UNCHANGED <<call, done, workVars, localVars, mainVars, histVars>>

ActiveN == IF ThreadN < arg[2] THEN ThreadN ELSE arg[2]

\* pause(0) of the next worker does nothing if the worker is not paused ...
Wake ==
  /\ pc[Main] = "wake"
  /\ IF wi > ActiveN THEN Goto(Main, "block") /\ UNCHANGED wi
     ELSE IF state[wi] = "paused" THEN Goto(Main, "unpause") /\ UNCHANGED wi
     ELSE wi' = wi + 1 /\ UNCHANGED pc
  /\ UNCHANGED <<taskVars, workVars, localVars, arg, rc, histVars>>

\* ... otherwise doFlags.store(kDoRunThFl)
Unpause ==
  /\ pc[Main] = "unpause"
  /\ flags' = [flags EXCEPT ![wi] = "run"]
  /\ wi' = wi + 1
  /\ Goto(Main, "wake")
  /\ UNCHANGED <<taskVars, state, localVars, arg, rc, histVars>>

\* waitOnCondVar(): the mutex is released.
Block ==
  /\ pc[Main] = "block"
  /\ Goto(Main, "blocked")
  /\ UNCHANGED <<taskVars, workVars, localVars, mainVars, histVars>>

\* It returns, with the mutex, and run() with it.  done_cnt is not looked at.
Awake ==
  /\ pc[Main] = "blocked"
  /\ rc # "none"
  /\ Goto(Main, "idle")
  /\ UNCHANGED <<taskVars, workVars, localVars, mainVars, histVars>>

\* It returns without having been signalled.
EndWait(r) ==
  /\ pc[Main] = "blocked"
  /\ rc = "none"
  /\ rc' = r
  /\ settled' = FALSE
  /\ Goto(Main, "idle")
  /\ UNCHANGED <<taskVars, workVars, localVars, arg, wi, begun, ended, rash, slow>>

InRun ==
  \/ SetTasks \/ SetTaskN \/ ResetDone \/ ResetNext \/ Wake \/ Unpause \/ Block \/ Awake

------------------------------------------------------------------------------
(* destroy() *)

Destroy ==
  /\ pc[Main] = "idle"
  /\ wi' = 1
  /\ Goto(Main, "exit")
  /\ UNCHANGED <<taskVars, workVars, localVars, arg, rc, histVars>>

MoreWorkers == wi <= ThreadN

\* thread::destroy() of the next worker: doFlags.store(kDoExitThFl) ...
Exit ==
  /\ pc[Main] = "exit"
  /\ IF MoreWorkers
     THEN flags' = [flags EXCEPT ![wi] = "exit"] /\ Goto(Main, "join")
     ELSE Goto(Main, "gone") /\ UNCHANGED flags
  /\ UNCHANGED <<taskVars, state, localVars, mainVars, histVars>>

JoinNone(w) == TRUE                \* mutant: the worker is not waited for
HasExited(w) == pc[w] = "exited"

\* ... and _waitForState(kExitedThId).
Join ==
  /\ pc[Main] = "join"
  /\ HasExited(wi)
  /\ wi' = wi + 1
  /\ Goto(Main, "exit")
  /\ UNCHANGED <<taskVars, workVars, localVars, arg, rc, histVars>>

\* It looks for 100 ms, and may give up wherever the worker is.  _destroy() goes
\* on all the same, and releases the pool.
JoinTimeOut ==
  /\ pc[Main] = "join"
  /\ pc[wi] # "exited"
  /\ wi' = wi + 1
  /\ slow' = (slow \/ ~AtRest(wi))
  /\ Goto(Main, "exit")
  /\ UNCHANGED <<taskVars, workVars, localVars, arg, rc, begun, ended, settled, rash>>

InDestroy == Exit \/ Join \/ JoinTimeOut

Next ==
  \/ \E w \in Workers : Step(w)
  \/ \E c \in Calls : Run(c)
  \/ Destroy
  \/ \E r \in Wakes : EndWait(r)
  \/ InRun
  \/ InDestroy

Spec == Init /\ [][Next]_vars

(***************************************************************************)
(* Threads are scheduled, tasks return, and a limited wait on a condition  *)
(* variable ends; nobody has to call run() or destroy().                   *)
(***************************************************************************)
Fairness ==
  /\ \A w \in Workers : WF_vars(Step(w))
  /\ WF_vars(InRun \/ InDestroy)

FairSpec == Spec /\ Fairness

------------------------------------------------------------------------------
(* Properties *)

WorkerPcs == {"wait", "start", "take", "compare", "exec", "busy", "last", "signal",
              "selfPause", "ran", "pausing", "clear", "exited"}
MainPcs == {"idle", "setTasks", "setTaskN", "resetDone", "resetNext", "wake",
            "unpause", "block", "blocked", "exit", "join", "gone"}

TypeTasks ==
  /\ call \in Nat \X Nat
  /\ next \in Nat /\ done \in Nat

TypeThreads ==
  /\ state \in [Workers -> {"paused", "running"}]
  /\ flags \in [Workers -> {"none", "run", "pause", "exit"}]
  /\ DOMAIN pc = {Main} \cup Workers
  /\ pc[Main] \in MainPcs
  /\ \A w \in Workers : pc[w] \in WorkerPcs
  /\ nti \in [Workers -> Nat]
  /\ task \in [Workers -> Nat \X Nat]

TypeMain ==
  /\ arg \in Nat \X Nat
  /\ wi \in 1 .. (ThreadN + 1)
  /\ pc[Main] \in {"unpause", "join"} => wi \in Workers
  /\ rc \in {"none", "ok", "timeout"}

TypeHistory ==
  /\ begun \subseteq Nat \X Nat /\ ended \subseteq Nat \X Nat
  /\ settled \in BOOLEAN /\ rash \in 0 .. MaxRash /\ slow \in BOOLEAN

\* TypeOK: types, and the worker that run() or destroy() deals with exists.
TypeOK == TypeTasks /\ TypeThreads /\ TypeMain /\ TypeHistory

\* ImplementsTaskRun: a run that is called when all workers are at rest, and
\* is not given up, executes each of its tasks once and returns after all of
\* them, whatever happened in the runs before: run() itself does not look at
\* done_cnt when it is woken.
Abstract == INSTANCE TaskRun WITH
  Tasks <- UNION { TasksOf(c) : c \in Calls },
  active <- Calling,
  todo <- TasksOf(arg)
ImplementsTaskRun ==
  Abstract!Init /\ [][settled' => Abstract!Next \/ UNCHANGED Abstract!vars]_vars

\* RunEnds: a run that is called with all workers at rest ends without a
\* timeout: no worker that is to be woken is missed, nor is the signal.
RunEnds == settled /\ Calling ~> ~Calling \/ ~settled

\* DestroyIsSafe: when destroy() follows such a run no worker is in a task, or has
\* one, or has yet to signal, whatever the time limits do.  When the pool has been
\* released, none is in its callback, although a worker that overwrote the request
\* to exit with its own to pause is left behind, paused: provided no wait ran out
\* on a worker that was not at rest, which destroy() releases the pool under.
DestroyIsSafe ==
  settled /\ Leaving =>
    /\ \A w \in Workers : pc[w] \notin {"exec", "busy", "signal"}
    /\ pc[Main] = "gone" /\ ~slow =>
         \A w \in Workers : pc[w] \in {"exited", "wait"} /\ flags[w] # "run"
=============================================================================
