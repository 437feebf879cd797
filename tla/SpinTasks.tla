------------------------------ MODULE SpinTasks ------------------------------
(***************************************************************************)
(* cw::thread_stasks: the pool that executes the voices of a poly network  *)
(* of flow.  run() resets two counters, wakes its workers one at a time    *)
(* through a flag on which they spin, and takes tasks itself until all are *)
(* done.  Nobody takes a lock; one action is one access to shared memory   *)
(* with the thread-local work next to it.  Thread 0 is the caller of run() *)
(* and destroy(), the others are the workers.                              *)
(***************************************************************************)
EXTENDS Integers, FiniteSets

CONSTANTS
  ThreadN,     \* create(): the number of workers
  Calls,       \* run(): its arguments, <<task array, number of tasks>>
  WakeEvery,   \* the main thread executes so many tasks per worker it wakes (5)
  MaxIdx       \* bound: next_task_idx is counted up to here

ASSUME SpinAssumption ==
  /\ ThreadN \in Nat
  /\ Calls \subseteq (Nat \ {0}) \X (0 .. MaxIdx)
  /\ WakeEvery \in Nat \ {0}
  /\ MaxIdx \in Nat

Main == 0
Workers == 1 .. ThreadN
Threads == 0 .. ThreadN

VARIABLES
  call,        \* taskA and taskN
  next,        \* next_task_idx
  done,        \* done_cnt
  lock,        \* thread_t: lock_fl
  state,       \* thread_t: state_id, "wait", "run" or "exit"
  pc,          \* where each thread is
  nti,         \* the index each took from next_task_idx
  task,        \* the task each executes, NoCall if none
  arg,         \* run(): its arguments
  wi,          \* run(), _destroy(): the next worker
  taskCnt,     \* run(): main_thread_task_cnt, modulo WakeEvery
  begun, ended, same, settled       \* history, see below

taskVars == <<call, next, done>>
workVars == <<lock, state>>
localVars == <<nti, task>>
mainVars == <<arg, wi, taskCnt>>
histVars == <<begun, ended, same, settled>>
vars == <<taskVars, workVars, pc, localVars, mainVars, histVars>>

(***************************************************************************)
(* History.  begun, ended: the tasks that began and ended since run() reset *)
(* next_task_idx.  same: all runs so far had the same          *)
(* arguments, as those of a poly network.  settled: run() was called only  *)
(* when all workers were spinning on their flags.                          *)
(***************************************************************************)
Calling == pc[Main] \notin {"idle", "exit", "exitState", "join", "gone"}

AtRest(w) == pc[w] = "wait" /\ lock[w]

NoCall == <<0, 0>>         \* before the first run

\* The tasks of a call of run(): elements of its array.
TasksOf(c) == {c[1]} \X (0 .. (c[2] - 1))

Known == same \/ settled

\* create() has returned; its threads have not begun to run.
Init ==
  /\ call = NoCall /\ next = 0 /\ done = 0
  /\ lock = [w \in Workers |-> FALSE]
  /\ state = [w \in Workers |-> "wait"]
  /\ pc = [t \in Threads |-> IF t = Main THEN "idle" ELSE "new"]
  /\ nti = [t \in Threads |-> 0]
  /\ task = [t \in Threads |-> NoCall]
  /\ arg = NoCall /\ wi = 1 /\ taskCnt = 0
  /\ begun = {} /\ ended = {} /\ same = TRUE /\ settled = TRUE

Goto(t, l) == pc' = [pc EXCEPT ![t] = l]

------------------------------------------------------------------------------
(* _run_one_task(), called by the workers and by the main thread *)

AfterTask(t) == IF t = Main THEN "loop" ELSE "take"
NoTask(t) == IF t = Main THEN "loop" ELSE "lock"

\* next_task_idx.fetch_add(1).  An index past every taskN is as good as any
\* other, as long as the main thread spins less than 2^32 times.
Take(t) ==
  /\ pc[t] = "take"
  /\ nti' = [nti EXCEPT ![t] = next]
  /\ next' = IF next < MaxIdx THEN next + 1 ELSE next
  /\ Goto(t, "compare")
  /\ UNCHANGED <<call, done, task, workVars, mainVars, histVars>>

ValidAny(i) == i <= call[2]        \* mutant: off by one
Valid(i) == i < call[2]

\* taskN is loaded: is there a task left?
Compare(t) ==
  /\ pc[t] = "compare"
  /\ Goto(t, IF Valid(nti[t]) THEN "exec" ELSE NoTask(t))
  /\ UNCHANGED <<taskVars, workVars, localVars, mainVars, histVars>>

\* taskA is loaded and the task is called ...
Exec(t) ==
  /\ pc[t] = "exec"
  /\ task' = [task EXCEPT ![t] = <<call[1], nti[t]>>]
  /\ begun' = begun \cup {<<call[1], nti[t]>>}
  /\ Goto(t, "busy")
  /\ UNCHANGED <<taskVars, workVars, nti, mainVars, ended, same, settled>>

\* ... it returns: done_cnt.fetch_add(1)
Done(t) ==
  /\ pc[t] = "busy"
  /\ done' = done + 1
  /\ ended' = ended \cup {task[t]}
  /\ task' = [task EXCEPT ![t] = NoCall]
  /\ taskCnt' = IF t = Main THEN (taskCnt + 1) % WakeEvery ELSE taskCnt
  /\ Goto(t, AfterTask(t))
  /\ UNCHANGED <<call, next, workVars, nti, arg, wi, begun, same, settled>>

RunOneTask(t) == Take(t) \/ Compare(t) \/ Exec(t) \/ Done(t)

------------------------------------------------------------------------------
(* _worker_thread_func(); a change of state is two stores *)

Created(w) == pc[w] # "new"        \* thread_t: created_fl

Begin(w) ==
  /\ pc[w] = "new"
  /\ Goto(w, "initLock")
  /\ UNCHANGED <<taskVars, workVars, localVars, mainVars, histVars>>

\* _set_worker_state(kWaitOpId), on entry and when no task is left: lock_fl ...
Lock(w) ==
  /\ pc[w] \in {"initLock", "lock"}
  /\ lock' = [lock EXCEPT ![w] = TRUE]
  /\ Goto(w, IF pc[w] = "lock" THEN "waitState" ELSE "initState")
  /\ UNCHANGED <<taskVars, state, localVars, mainVars, histVars>>

\* ... and state_id, whatever the main thread has stored there by now.
WaitState(w) ==
  /\ pc[w] \in {"initState", "waitState"}
  /\ state' = [state EXCEPT ![w] = "wait"]
  /\ Goto(w, IF pc[w] = "waitState" THEN "check" ELSE "wait")
  /\ UNCHANGED <<taskVars, lock, localVars, mainVars, histVars>>

\* _worker_wait(): the spin on lock_fl ends ...
Wait(w) ==
  /\ pc[w] = "wait"
  /\ ~lock[w]
  /\ lock' = [lock EXCEPT ![w] = TRUE]
  /\ Goto(w, "got")
  /\ UNCHANGED <<taskVars, state, localVars, mainVars, histVars>>

\* ... and state_id is read.
Got(w) ==
  /\ pc[w] = "got"
  /\ Goto(w, IF state[w] = "run" THEN "take" ELSE "check")
  /\ UNCHANGED <<taskVars, workVars, localVars, mainVars, histVars>>

\* while( _get_worker_state(t) != kExitOpId )
Check(w) ==
  /\ pc[w] = "check"
  /\ Goto(w, IF state[w] = "exit" THEN "end" ELSE "wait")
  /\ UNCHANGED <<taskVars, workVars, localVars, mainVars, histVars>>

WorkerStep(w) ==
  \/ RunOneTask(w)
  \/ Begin(w) \/ Lock(w) \/ WaitState(w) \/ Wait(w) \/ Got(w) \/ Check(w)

------------------------------------------------------------------------------
(* run() *)

KeepNext == UNCHANGED next         \* mutant: the index is not reset
ResetNext == next' = 0

\* next_task_idx.store(0)
Run(c) ==
  /\ pc[Main] = "idle"
  /\ ResetNext
  /\ arg' = c /\ wi' = 1 /\ taskCnt' = 0
  /\ begun' = {} /\ ended' = {}
  /\ same' = (same /\ arg \in {NoCall, c})
  /\ settled' = (settled /\ \A w \in Workers : AtRest(w))
  /\ Goto(Main, "resetDone")
  /\ UNCHANGED <<call, done, workVars, localVars>>

ResetDone ==
  /\ pc[Main] = "resetDone"
  /\ done' = 0
  /\ Goto(Main, "setTasks")
  /\ UNCHANGED <<call, next, workVars, localVars, mainVars, histVars>>

SetTasks ==
  /\ pc[Main] = "setTasks"
  /\ call' = [call EXCEPT ![1] = arg[1]]
  /\ Goto(Main, "setTaskN")
  /\ UNCHANGED <<next, done, workVars, localVars, mainVars, histVars>>

SetTaskN ==
  /\ pc[Main] = "setTaskN"
  /\ call' = [call EXCEPT ![2] = arg[2]]
  /\ Goto(Main, "loop")
  /\ UNCHANGED <<next, done, workVars, localVars, mainVars, histVars>>

MoreWorkers == wi <= ThreadN

AllDone == done >= arg[2]

\* while( done_cnt < taskN ): there is no limit on the time.
Loop ==
  /\ pc[Main] = "loop"
  /\ Goto(Main, IF AllDone THEN "idle"
                ELSE IF MoreWorkers /\ taskCnt = 0 THEN "wake" ELSE "take")
  /\ UNCHANGED <<taskVars, workVars, localVars, mainVars, histVars>>

\* _set_worker_state(kRunOpId): lock_fl ...
Wake ==
  /\ pc[Main] = "wake"
  /\ lock' = [lock EXCEPT ![wi] = FALSE]
  /\ Goto(Main, "wakeState")
  /\ UNCHANGED <<taskVars, state, localVars, mainVars, histVars>>

\* ... and state_id
WakeState ==
  /\ pc[Main] = "wakeState"
  /\ state' = [state EXCEPT ![wi] = "run"]
  /\ wi' = wi + 1
  /\ Goto(Main, "take")
  /\ UNCHANGED <<taskVars, lock, localVars, arg, taskCnt, histVars>>

------------------------------------------------------------------------------
(* destroy() *)

Destroy ==
  /\ pc[Main] = "idle"
  /\ wi' = 1
  /\ Goto(Main, "exit")
  /\ UNCHANGED <<taskVars, workVars, localVars, arg, taskCnt, histVars>>

\* _set_worker_state(kExitOpId) for each worker: lock_fl ...
Exit ==
  /\ pc[Main] = "exit"
  /\ IF MoreWorkers
     THEN /\ lock' = [lock EXCEPT ![wi] = FALSE]
          /\ Goto(Main, "exitState")
          /\ UNCHANGED wi
     ELSE /\ wi' = 1
          /\ Goto(Main, "join")
          /\ UNCHANGED lock
  /\ UNCHANGED <<taskVars, state, localVars, arg, taskCnt, histVars>>

\* ... and state_id
ExitState ==
  /\ pc[Main] = "exitState"
  /\ state' = [state EXCEPT ![wi] = "exit"]
  /\ wi' = wi + 1
  /\ Goto(Main, "exit")
  /\ UNCHANGED <<taskVars, lock, localVars, arg, taskCnt, histVars>>

\* pthread_join(), unless the thread has not set created_fl yet; then all
\* memory is released.
Join ==
  /\ pc[Main] = "join"
  /\ IF MoreWorkers
     THEN /\ Created(wi) => pc[wi] = "end"
          /\ wi' = wi + 1
          /\ UNCHANGED pc
     ELSE Goto(Main, "gone") /\ UNCHANGED wi
  /\ UNCHANGED <<taskVars, workVars, localVars, arg, taskCnt, histVars>>

InRun ==
  \/ ResetDone \/ SetTasks \/ SetTaskN \/ Loop \/ Wake \/ WakeState
  \/ RunOneTask(Main)

InDestroy == Exit \/ ExitState \/ Join

Next ==
  \/ \E w \in Workers : WorkerStep(w)
  \/ \E c \in Calls : Run(c)
  \/ Destroy
  \/ InRun
  \/ InDestroy

Spec == Init /\ [][Next]_vars

(***************************************************************************)
(* Threads are scheduled and tasks return; nobody has to call run() or     *)
(* destroy().                                                              *)
(***************************************************************************)
Fairness ==
  /\ \A w \in Workers : WF_vars(WorkerStep(w))
  /\ WF_vars(InRun \/ InDestroy)

FairSpec == Spec /\ Fairness

------------------------------------------------------------------------------
(* Properties *)

TaskPcs == {"take", "compare", "exec", "busy"}
WorkerPcs == {"new", "initLock", "initState", "lock", "waitState", "wait", "got",
              "check", "end"}
MainPcs == {"idle", "resetDone", "setTasks", "setTaskN", "loop", "wake",
            "wakeState", "exit", "exitState", "join", "gone"}

TypeTasks ==
  /\ call \in Nat \X Nat
  /\ next \in Nat /\ done \in Nat

TypeThreads ==
  /\ lock \in [Workers -> BOOLEAN]
  /\ state \in [Workers -> {"wait", "run", "exit"}]
  /\ DOMAIN pc = Threads
  /\ pc[Main] \in TaskPcs \cup MainPcs
  /\ \A w \in Workers : pc[w] \in TaskPcs \cup WorkerPcs
  /\ nti \in [Threads -> Nat]
  /\ task \in [Threads -> Nat \X Nat]

TypeMain ==
  /\ arg \in Nat \X Nat
  /\ wi \in 1 .. (ThreadN + 1)
  /\ taskCnt \in 0 .. (WakeEvery - 1)

TypeHistory ==
  /\ begun \subseteq Nat \X Nat /\ ended \subseteq Nat \X Nat
  /\ same \in BOOLEAN /\ settled \in BOOLEAN

TypeOK == TypeTasks /\ TypeThreads /\ TypeMain /\ TypeHistory

\* NoStray: a worker that is late, because it was woken at the end of a run or
\* has not seen yet that no task is left, is never inside a task when run() has
\* returned: the caller may change what the tasks work on.
NoStray ==
  Known /\ ~Calling => \A w \in Workers : pc[w] \notin {"exec", "busy"}

\* ImplementsTaskRun: each run executes each task once and returns after all,
\* as long as all runs have the same arguments, or none is called before the
\* workers of the one before are back, although in the first case a worker of
\* one run may take a task of the next before that one has set its counters.
Abstract == INSTANCE TaskRun WITH
  Tasks <- UNION { TasksOf(c) : c \in Calls },
  active <- Calling,
  todo <- TasksOf(arg)
ImplementsTaskRun ==
  Abstract!Init /\ [][Known' => Abstract!Next \/ UNCHANGED Abstract!vars]_vars

\* RunEnds: cwThreadMach.h: "the count of milliseconds run() will block while
\* waiting for all the tasks to complete": run() ends if no worker of the run
\* before is still on its way to a task when it is called.
RunEnds == settled /\ Calling ~> ~Calling \/ ~settled
=============================================================================
