-------------------------- MODULE SpinTasksProofs --------------------------
(***************************************************************************)
(* Proofs about SpinTasks, for every number of workers and every set of    *)
(* calls.                                                                  *)
(***************************************************************************)
EXTENDS SpinTasks, FiniteSetTheorems, TLAPS

(***************************************************************************)
(* Types: a worker is named by wi only while there is one left.            *)
(***************************************************************************)
TypeInv ==
  /\ TypeOK
  /\ pc \in [Threads -> TaskPcs \cup WorkerPcs \cup MainPcs]
  /\ pc[Main] \in {"wake", "wakeState", "exitState"} => wi \in Workers

LEMMA MainIsThread == Main \in Threads /\ Main \notin Workers /\ Workers \subseteq Threads
  BY SpinAssumption DEF Main, Threads, Workers

LEMMA ModBound ==
  ASSUME NEW a \in Nat, NEW b \in Nat \ {0}
  PROVE  a % b \in 0 .. (b - 1)
  OBVIOUS

LEMMA MoreIsWorker == TypeMain /\ MoreWorkers => wi \in Workers
  BY SpinAssumption DEF TypeMain, MoreWorkers, Workers

LEMMA WorkerHasNext == wi \in Workers => wi + 1 \in 1 .. (ThreadN + 1)
  BY SpinAssumption DEF Workers

LEMMA TypeInit == Init => TypeInv
<1> USE SpinAssumption, MainIsThread
<1> SUFFICES ASSUME Init PROVE TypeInv
  OBVIOUS
<1>1. TypeTasks /\ TypeMain /\ TypeHistory
  BY DEF Init, TypeTasks, TypeMain, TypeHistory, NoCall
<1>2. TypeThreads /\ pc \in [Threads -> TaskPcs \cup WorkerPcs \cup MainPcs]
  BY DEF Init, TypeThreads, NoCall, TaskPcs, WorkerPcs, MainPcs
<1>3. QED
  BY <1>1, <1>2 DEF TypeInv, TypeOK, Init

LEMMA TypeNext == TypeInv /\ [Next]_vars => TypeInv'
<1> USE SpinAssumption, MainIsThread
<1> SUFFICES ASSUME TypeInv, [Next]_vars PROVE TypeInv'
  OBVIOUS
<1> USE DEF TypeInv, TypeOK, TypeTasks, TypeThreads, TypeMain, TypeHistory,
            TaskPcs, WorkerPcs, MainPcs, Goto, taskVars, workVars, localVars,
            mainVars, histVars
<1>1. ASSUME NEW t \in Threads, RunOneTask(t) PROVE TypeInv'
  <2>1. CASE Take(t)
    BY <2>1 DEF Take
  <2>2. CASE Compare(t)
    BY <2>2 DEF Compare, NoTask
  <2>3. CASE Exec(t)
    BY <2>3 DEF Exec
  <2>4. CASE Done(t)
    <3>1. (taskCnt + 1) % WakeEvery \in 0 .. (WakeEvery - 1)
      BY ModBound
    <3>2. taskCnt' \in 0 .. (WakeEvery - 1)
      BY <2>4, <3>1 DEF Done
    <3>3. TypeThreads' /\ pc' \in [Threads -> TaskPcs \cup WorkerPcs \cup MainPcs]
      BY <2>4 DEF Done, AfterTask, NoCall
    <3>4. ended' \subseteq Nat \X Nat
      BY <2>4 DEF Done
    <3>5. QED
      BY <2>4, <3>2, <3>3, <3>4 DEF Done, AfterTask
  <2>5. QED
    BY <1>1, <2>1, <2>2, <2>3, <2>4 DEF RunOneTask
<1>2. ASSUME NEW w \in Workers, WorkerStep(w) PROVE TypeInv'
  <2>1. CASE Begin(w) \/ Got(w) \/ Check(w)
    BY <2>1, SMTT(60) DEF Begin, Got, Check
  <2>2. CASE Lock(w) \/ Wait(w)
    BY <2>2, ZenonT(60) DEF Lock, Wait
  <2>3. CASE WaitState(w)
    BY <2>3 DEF WaitState
  <2>4. QED
    BY <1>1, <1>2, <2>1, <2>2, <2>3 DEF WorkerStep
<1>3. ASSUME NEW c \in Calls, Run(c) PROVE TypeInv'
  BY <1>3 DEF Run, ResetNext
<1>4. CASE Destroy
  BY <1>4 DEF Destroy
<1>5. CASE InRun
  <2>1. CASE RunOneTask(Main)
    BY <1>1, <2>1
  <2>2. CASE SetTasks \/ SetTaskN
    BY <2>2, SMTT(60) DEF SetTasks, SetTaskN
  <2>3. CASE ResetDone
    BY <2>3 DEF ResetDone
  <2>4. CASE Loop
    BY <2>4, MoreIsWorker DEF Loop
  <2>5. CASE Wake
    BY <2>5 DEF Wake
  <2>6. CASE WakeState
    BY <2>6, WorkerHasNext DEF WakeState
  <2>7. QED
    BY <1>5, <2>1, <2>2, <2>3, <2>4, <2>5, <2>6 DEF InRun
<1>6. CASE InDestroy
  <2>1. CASE Exit
    <3>1. CASE MoreWorkers
      BY <2>1, <3>1, MoreIsWorker, ZenonT(60) DEF Exit
    <3>2. CASE ~MoreWorkers
      <4>1. wi' = 1 /\ 1 \in 1 .. (ThreadN + 1)
        BY <2>1, <3>2 DEF Exit
      <4>2. pc' = [pc EXCEPT ![Main] = "join"]
        BY <2>1, <3>2 DEF Exit
      <4>3. QED
        BY <2>1, <3>2, <4>1, <4>2 DEF Exit
    <3>3. QED
      BY <3>1, <3>2
  <2>2. CASE ExitState
    BY <2>2, WorkerHasNext DEF ExitState
  <2>3. CASE Join
    BY <2>3, MoreIsWorker, WorkerHasNext, SMTT(60) DEF Join
  <2>4. QED
    BY <1>6, <2>1, <2>2, <2>3 DEF InDestroy
<1>7. CASE UNCHANGED vars
  BY <1>7 DEF vars
<1>8. QED
  BY <1>2, <1>3, <1>4, <1>5, <1>6, <1>7 DEF Next

\* Every state of every pool, with any number of workers and any calls, has its
\* type; in particular run() and destroy() name only workers that exist.
THEOREM TypeCorrect == Spec => []TypeOK
<1>1. TypeInv => TypeOK
  BY DEF TypeInv
<1>2. QED
  BY TypeInit, TypeNext, <1>1, PTL DEF Spec

(***************************************************************************)
(* What is known about late workers.  While run() prepares a call, none is *)
(* about to take a task unless the call is the one before once again.      *)
(***************************************************************************)
PreLoop == pc[Main] \in {"resetDone", "setTasks", "setTaskN"}

Unwoken == \A w \in Workers : state[w] # "run" /\ pc[w] \notin TaskPcs

AllAtRest == \A w \in Workers : AtRest(w)

CallInv ==
  /\ ~PreLoop => call = arg
  /\ pc[Main] = "setTaskN" => call[1] = arg[1]
  /\ arg = NoCall => Unwoken /\ ~Calling
  /\ arg # NoCall => arg \in Calls
  /\ PreLoop /\ Known => call = arg \/ Unwoken \/ AllAtRest

(***************************************************************************)
(* Who holds a task: an index below the number of tasks, taken and not yet *)
(* turned into a task, is nobody else's and below next_task_idx.           *)
(***************************************************************************)
Claim(t) == pc[t] \in {"compare", "exec"} /\ nti[t] < arg[2]

ClaimInv ==
  /\ begun \subseteq TasksOf(arg) /\ ended \subseteq begun
  /\ \A k \in begun : k[2] < next
  /\ \A t \in Threads :
       /\ Claim(t) => nti[t] < next /\ <<arg[1], nti[t]>> \notin begun
       /\ pc[t] = "exec" => nti[t] < arg[2]
       /\ pc[t] = "busy" => task[t] \in begun \ ended
  /\ \A t, u \in Threads : t # u =>
       /\ Claim(t) /\ Claim(u) => nti[t] # nti[u]
       /\ pc[t] = "busy" /\ pc[u] = "busy" => task[t] # task[u]

\* done_cnt never counts more than has ended, so that nothing is left to do
\* when run() returns.
DoneInv == Calling /\ pc[Main] # "resetDone" => done <= Cardinality(ended)

CompleteInv == ~Calling => ended = TasksOf(arg)

RunInv == TypeInv /\ CallInv /\ (Known => ClaimInv /\ DoneInv /\ CompleteInv)

LEMMA CallType == ASSUME NEW c \in Calls PROVE c \in Nat \X Nat /\ c[2] <= MaxIdx /\ c # NoCall
  BY SpinAssumption DEF NoCall

LEMMA TasksFinite ==
  ASSUME NEW c \in Nat \X Nat
  PROVE  IsFiniteSet(TasksOf(c)) /\ Cardinality(TasksOf(c)) = c[2]
<1> DEFINE S == {c[1]}
           T == 0 .. (c[2] - 1)
<1>1. c[2] \in Nat /\ IsFiniteSet(S) /\ Cardinality(S) = 1
  BY FS_Singleton
<1>2. IsFiniteSet(T) /\ Cardinality(T) = IF 0 > c[2] - 1 THEN 0 ELSE c[2] - 1 - 0 + 1
  <2>1. 0 \in Int /\ c[2] - 1 \in Int
    BY <1>1
  <2>2. QED
    BY <2>1, FS_Interval
<1>3. Cardinality(T) = c[2]
  BY <1>1, <1>2
<1> HIDE DEF S, T
<1>4. IsFiniteSet(S \X T) /\ Cardinality(S \X T) = Cardinality(S) * Cardinality(T)
  BY <1>1, <1>2, FS_Product
<1>5. QED
  BY <1>1, <1>3, <1>4 DEF TasksOf, S, T

LEMMA InitRun == Init => RunInv
<1> USE SpinAssumption, MainIsThread
<1> SUFFICES ASSUME Init PROVE RunInv
  OBVIOUS
<1>1. TasksOf(NoCall) = {}
  BY DEF TasksOf, NoCall
<1>2. CallInv /\ ClaimInv /\ DoneInv /\ CompleteInv
  BY <1>1 DEF Init, CallInv, Unwoken, Calling, PreLoop, ClaimInv, Claim, DoneInv,
              CompleteInv, TaskPcs
<1>3. QED
  BY <1>2, TypeInit DEF RunInv

LEMMA CallNext == TypeInv /\ CallInv /\ [Next]_vars => CallInv'
<1> USE SpinAssumption, MainIsThread
<1> SUFFICES ASSUME TypeInv, CallInv, [Next]_vars PROVE CallInv'
  OBVIOUS
<1> USE DEF TypeInv, TypeOK, TypeThreads, CallInv, PreLoop, Unwoken, AllAtRest, AtRest,
            Calling, Known, TaskPcs, WorkerPcs, MainPcs, Goto, taskVars, workVars,
            localVars, mainVars, histVars
<1>1. ASSUME NEW t \in Threads, RunOneTask(t) PROVE CallInv'
  <2>1. pc[t] \in TaskPcs /\ UNCHANGED <<call, arg, lock, state, same, settled>>
    BY <1>1 DEF RunOneTask, Take, Compare, Exec, Done
  <2>2. arg # NoCall /\ (PreLoop => t # Main)
    BY <2>1, t = Main \/ t \in Workers DEF Threads, Workers, Main
  <2>3. \A u \in Threads : u # t => pc'[u] = pc[u]
    BY <1>1 DEF RunOneTask, Take, Compare, Exec, Done
  <2>4. t = Main => ~PreLoop'
    BY <1>1 DEF RunOneTask, Take, Compare, Exec, Done, NoTask, AfterTask
  <2>5. (PreLoop' <=> PreLoop) /\ (PreLoop' => pc'[Main] = pc[Main])
    BY <2>2, <2>3, <2>4
  <2>6. PreLoop /\ Known => call = arg
    BY <2>1, <2>2, t = Main \/ t \in Workers DEF Threads, Workers, Main
  <2>7. QED
    BY <2>1, <2>2, <2>5, <2>6
<1>2. ASSUME NEW w \in Workers, WorkerStep(w), ~RunOneTask(w) PROVE CallInv'
  <2>1. UNCHANGED <<call, arg, same, settled>> /\ ~AtRest(w)
    BY <1>2 DEF WorkerStep, Begin, Lock, WaitState, Wait, Got, Check
  <2>2. pc'[Main] = pc[Main]
    BY <1>2 DEF WorkerStep, Begin, Lock, WaitState, Wait, Got, Check
  <2>3. Unwoken => Unwoken'
    BY <1>2 DEF WorkerStep, Begin, Lock, WaitState, Wait, Got, Check
  <2>4. ~AllAtRest
    BY <2>1
  <2>5. QED
    BY <2>1, <2>2, <2>3, <2>4
<1>3. ASSUME NEW c \in Calls, Run(c) PROVE CallInv'
  <2>1. /\ pc'[Main] = "resetDone" /\ \A w \in Workers : pc'[w] = pc[w]
        /\ arg' = c /\ call = arg
        /\ UNCHANGED <<call, lock, state>>
    BY <1>3 DEF Run
  <2>2. c # NoCall
    BY CallType
  <2>3. same' => call' = arg' \/ Unwoken'
    BY <1>3, <2>1 DEF Run
  <2>4. settled' => AllAtRest'
    BY <1>3, <2>1, ZenonT(60) DEF Run
  <2>5. QED
    BY <2>1, <2>2, <2>3, <2>4
<1>4. CASE Destroy
  BY <1>4 DEF Destroy
<1>5. CASE InRun /\ ~RunOneTask(Main)
  <2>0. Calling /\ arg # NoCall /\ UNCHANGED <<arg, same, settled>>
    BY <1>5 DEF InRun, ResetDone, SetTasks, SetTaskN, Loop, Wake, WakeState
  <2>1. CASE ResetDone \/ SetTasks
    <3>1. PreLoop /\ PreLoop' /\ UNCHANGED <<lock, state>>
      BY <2>1 DEF ResetDone, SetTasks
    <3>2. \A w \in Workers : pc'[w] = pc[w]
      BY <2>1 DEF ResetDone, SetTasks
    <3>3. call = arg => call' = arg'
      BY <2>1, <2>0, CallType DEF ResetDone, SetTasks
    <3>4. pc'[Main] = "setTaskN" => call'[1] = arg'[1]
      BY <2>1, <2>0 DEF ResetDone, SetTasks, TypeTasks
    <3>5. QED
      BY <2>0, <3>1, <3>2, <3>3, <3>4
  <2>2. CASE SetTaskN
    <3>1. call'[2] = arg[2] /\ pc'[Main] = "loop"
      BY <2>2 DEF SetTaskN, TypeTasks
    <3>2. call'[1] = arg[1] /\ call' \in Nat \X Nat /\ arg \in Nat \X Nat
      BY <2>2 DEF SetTaskN, TypeTasks, TypeMain
    <3>3. call' = arg'
      BY <2>0, <3>1, <3>2
    <3>4. QED
      BY <2>0, <3>1, <3>3
  <2>3. CASE Loop \/ Wake \/ WakeState
    BY <2>0, <2>3 DEF Loop, Wake, WakeState
  <2>4. QED
    BY <1>5, <2>1, <2>2, <2>3 DEF InRun
<1>6. CASE InDestroy
  BY <1>6 DEF InDestroy, Exit, ExitState, Join
<1>7. CASE UNCHANGED vars
  BY <1>7 DEF vars
<1>8. QED
  BY <1>1, <1>2, <1>3, <1>4, <1>5, <1>6, <1>7 DEF Next, InRun

(***************************************************************************)
(* The steps of ClaimInv.  A thread that is about to look at taskN or      *)
(* taskA finds what the call it works for has stored there.                *)
(***************************************************************************)
LEMMA ActiveSees ==
  ASSUME TypeInv, CallInv, Known, NEW t \in Threads, pc[t] \in TaskPcs
  PROVE  call = arg /\ arg \in Calls
<1> USE SpinAssumption, MainIsThread
<1>1. t = Main \/ t \in Workers
  BY DEF Threads, Workers, Main
<1>2. arg # NoCall
  BY <1>1 DEF CallInv, Unwoken, Calling, TaskPcs
<1>3. call = arg
  BY <1>1 DEF CallInv, Unwoken, AllAtRest, AtRest, PreLoop, TaskPcs
<1>4. QED
  BY <1>2, <1>3 DEF CallInv

LEMMA ClaimTask ==
  ASSUME TypeInv, CallInv, ClaimInv, Known, NEW t \in Threads, RunOneTask(t)
  PROVE  ClaimInv'
<1> USE SpinAssumption, MainIsThread
<1>0. call = arg /\ arg \in Calls /\ arg[1] \in Nat /\ arg[2] \in Nat /\ arg[2] <= MaxIdx
  <2>1. pc[t] \in TaskPcs
    BY DEF RunOneTask, Take, Compare, Exec, Done, TaskPcs
  <2>2. QED
    BY <2>1, ActiveSees, CallType
<1> USE DEF TypeInv, TypeOK, TypeThreads, TypeTasks, ClaimInv, Claim, Goto, taskVars,
            workVars, localVars, mainVars, histVars
<1>1. CASE Take(t)
  <2>1. next < arg[2] => next' = next + 1
    BY <1>0, <1>1 DEF Take
  <2>2. next <= next' /\ next' \in Nat /\ nti'[t] = next
    BY <1>1 DEF Take
  <2>3. \A u \in Threads : u # t => nti'[u] = nti[u] /\ pc'[u] = pc[u]
    BY <1>1 DEF Take
  <2>4. pc[t] = "take" /\ pc'[t] = "compare" /\ UNCHANGED <<arg, begun, ended, task>>
    BY <1>1 DEF Take
  <2>5. begun' \subseteq TasksOf(arg)' /\ \A k \in begun' : k[2] < next'
    <3>1. \A k \in begun : k[2] \in Nat
      BY <1>0 DEF TasksOf
    <3>2. QED
      BY <2>2, <2>4, <3>1 DEF TasksOf
  <2>6. ASSUME NEW u \in Threads PROVE
           /\ Claim(u)' => nti'[u] < next' /\ <<arg'[1], nti'[u]>> \notin begun'
           /\ pc'[u] = "exec" => nti'[u] < arg'[2]
           /\ pc'[u] = "busy" => task'[u] \in begun' \ ended'
    BY <1>0, <2>1, <2>2, <2>3, <2>4
  <2>7. ASSUME NEW u \in Threads, NEW v \in Threads, u # v PROVE
           /\ Claim(u)' /\ Claim(v)' => nti'[u] # nti'[v]
           /\ pc'[u] = "busy" /\ pc'[v] = "busy" => task'[u] # task'[v]
    <3>1. \A x \in Threads : Claim(x)' /\ x # t => Claim(x) /\ nti'[x] = nti[x]
      BY <2>3, <2>4
    <3>2. ASSUME NEW x \in Threads, Claim(x) PROVE nti[x] # next /\ nti[x] \in Nat
      <4>1. nti[x] \in Nat /\ next \in Nat
        OBVIOUS
      <4>2. nti[x] < next
        BY <3>2
      <4>3. QED
        BY <4>1, <4>2
    <3>3. Claim(u)' /\ Claim(v)' => nti'[u] # nti'[v]
      BY <2>2, <2>7, <3>1, <3>2
    <3>4. pc'[u] = "busy" /\ pc'[v] = "busy" => task'[u] # task'[v]
      BY <2>3, <2>4, <2>7
    <3>5. QED
      BY <3>3, <3>4
  <2>8. QED
    BY <2>4, <2>5, <2>6, <2>7
<1>2. CASE Compare(t)
  <2>1. /\ \A u \in Threads : u # t => pc'[u] = pc[u]
        /\ pc[t] = "compare"
        /\ pc'[t] = IF nti[t] < arg[2] THEN "exec" ELSE NoTask(t)
        /\ UNCHANGED <<arg, next, nti, task, begun, ended>>
    BY <1>0, <1>2 DEF Compare, Valid
  <2>2. NoTask(t) \notin {"compare", "exec", "busy"}
    BY DEF NoTask
  <2>3. \A u \in Threads : Claim(u)' => Claim(u)
    BY <2>1, <2>2
  <2>4. TasksOf(arg)' = TasksOf(arg)
    BY <2>1 DEF TasksOf
  <2>5. QED
    BY <2>1, <2>2, <2>3, <2>4
<1>3. CASE Exec(t)
  <2> DEFINE k == <<arg[1], nti[t]>>
  <2>1. /\ \A u \in Threads : u # t => pc'[u] = pc[u] /\ task'[u] = task[u]
        /\ pc[t] = "exec" /\ pc'[t] = "busy" /\ task'[t] = k
        /\ begun' = begun \cup {k}
        /\ UNCHANGED <<arg, next, nti, ended>>
    BY <1>0, <1>3 DEF Exec
  <2>2. Claim(t) /\ nti[t] \in Nat /\ k \notin begun /\ nti[t] < next /\ k \in TasksOf(arg)
    BY <1>0, <2>1 DEF TasksOf
  <2>3. TasksOf(arg)' = TasksOf(arg)
    BY <2>1 DEF TasksOf
  <2>4. /\ begun' \subseteq TasksOf(arg)' /\ ended' \subseteq begun'
        /\ \A j \in begun' : j[2] < next'
    <3>1. k[2] < next
      BY <2>2
    <3>2. k \in TasksOf(arg)
      BY <2>2
    <3> HIDE DEF k
    <3>3. QED
      BY <2>1, <2>3, <3>1, <3>2
  <2>5. ASSUME NEW u \in Threads PROVE
           /\ Claim(u)' => nti'[u] < next' /\ <<arg'[1], nti'[u]>> \notin begun'
           /\ pc'[u] = "exec" => nti'[u] < arg'[2]
           /\ pc'[u] = "busy" => task'[u] \in begun' \ ended'
    BY <2>1, <2>2, ZenonT(60)
  <2>6. ASSUME NEW u \in Threads, NEW v \in Threads, u # v PROVE
           /\ Claim(u)' /\ Claim(v)' => nti'[u] # nti'[v]
           /\ pc'[u] = "busy" /\ pc'[v] = "busy" => task'[u] # task'[v]
    <3>1. Claim(u)' /\ Claim(v)' => nti'[u] # nti'[v]
      BY <2>1, <2>6
    <3>2. pc'[u] = "busy" /\ pc'[v] = "busy" => task'[u] # task'[v]
      <4>1. \A x \in Threads : pc[x] = "busy" => task[x] # k
        BY <2>2
      <4> HIDE DEF k
      <4>2. QED
        BY <2>1, <2>6, <4>1
    <3>3. QED
      BY <3>1, <3>2
  <2>7. QED
    BY <2>4, <2>5, <2>6
<1>4. CASE Done(t)
  <2>1. /\ \A u \in Threads : u # t => pc'[u] = pc[u] /\ task'[u] = task[u]
        /\ pc[t] = "busy" /\ pc'[t] = AfterTask(t)
        /\ ended' = ended \cup {task[t]}
        /\ UNCHANGED <<arg, next, nti, begun>>
    BY <1>4 DEF Done
  <2>2. AfterTask(t) \notin {"compare", "exec", "busy"}
    BY DEF AfterTask
  <2>3. \A u \in Threads : Claim(u)' => Claim(u)
    BY <2>1, <2>2
  <2>4. TasksOf(arg)' = TasksOf(arg)
    BY <2>1 DEF TasksOf
  <2>5. /\ begun' \subseteq TasksOf(arg)' /\ ended' \subseteq begun'
        /\ \A j \in begun' : j[2] < next'
    BY <2>1, <2>4, ZenonT(60)
  <2>6. ASSUME NEW u \in Threads PROVE
           /\ Claim(u)' => nti'[u] < next' /\ <<arg'[1], nti'[u]>> \notin begun'
           /\ pc'[u] = "exec" => nti'[u] < arg'[2]
    BY <2>1, <2>2, <2>3
  <2>7. ASSUME NEW u \in Threads, pc'[u] = "busy" PROVE
           pc[u] = "busy" /\ u # t /\ task'[u] \in begun' \ ended'
    <3>1. pc[u] = "busy" /\ u # t
      BY <2>1, <2>2, <2>7
    <3>2. task[u] # task[t] /\ task[u] \in begun \ ended /\ task'[u] = task[u]
      BY <2>1, <3>1
    <3>3. QED
      BY <2>1, <3>1, <3>2
  <2>8. ASSUME NEW u \in Threads, NEW v \in Threads, u # v PROVE
           /\ Claim(u)' /\ Claim(v)' => nti'[u] # nti'[v]
           /\ pc'[u] = "busy" /\ pc'[v] = "busy" => task'[u] # task'[v]
    BY <2>1, <2>2, <2>3, <2>7, <2>8
  <2>9. QED
    BY <2>5, <2>6, <2>7, <2>8
<1>5. QED
  BY <1>1, <1>2, <1>3, <1>4 DEF RunOneTask

\* Outside a run nobody holds a task.
LEMMA NoClaim ==
  ASSUME TypeInv, CallInv, ClaimInv, CompleteInv, Known, ~Calling,
         NEW t \in Threads
  PROVE  ~Claim(t) /\ pc[t] \notin {"exec", "busy"}
<1> USE SpinAssumption, MainIsThread
<1>1. begun = TasksOf(arg) /\ ended = TasksOf(arg)
  BY DEF ClaimInv, CompleteInv
<1>2. pc[t] # "busy"
  BY <1>1 DEF ClaimInv
<1>3. ~Claim(t)
  <2>1. SUFFICES ASSUME Claim(t) PROVE FALSE
    OBVIOUS
  <2>2. <<arg[1], nti[t]>> \notin TasksOf(arg)
    BY <1>1, <2>1 DEF ClaimInv
  <2>3. nti[t] \in 0 .. (arg[2] - 1)
    BY <2>1 DEF Claim, TypeInv, TypeOK, TypeThreads, TypeMain
  <2>4. QED
    BY <2>2, <2>3 DEF TasksOf
<1>4. pc[t] # "exec"
  BY <1>3 DEF ClaimInv, Claim
<1>5. QED
  BY <1>2, <1>3, <1>4

LEMMA ClaimRun ==
  ASSUME TypeInv, CallInv, Known => ClaimInv /\ CompleteInv, NEW c \in Calls, Run(c), Known'
  PROVE  ClaimInv'
<1> USE SpinAssumption, MainIsThread
<1>1. /\ Known /\ ~Calling
      /\ begun' = {} /\ ended' = {} /\ arg' = c
      /\ pc'[Main] = "resetDone" /\ \A w \in Workers : pc'[w] = pc[w]
      /\ UNCHANGED <<nti, task>>
  BY DEF Run, Known, Calling, Goto, TypeInv, histVars, localVars
<1>2. ASSUME NEW t \in Threads PROVE ~Claim(t)' /\ pc'[t] \notin {"exec", "busy"}
  <2>1. CASE t = Main
    BY <1>1, <2>1 DEF Claim
  <2>2. CASE t \in Workers /\ settled'
    BY <1>1, <2>2 DEF Run, AtRest, Claim
  <2>3. CASE t \in Workers /\ arg = NoCall
    BY <1>1, <2>3 DEF CallInv, Unwoken, Claim, TaskPcs
  <2>4. CASE t \in Workers /\ same' /\ arg # NoCall
    <3>1. arg' = arg
      BY <1>1, <2>4 DEF Run
    <3>2. QED
      BY <1>1, <2>4, <3>1, NoClaim DEF Claim
  <2>5. QED
    BY <2>1, <2>2, <2>3, <2>4 DEF Known, Threads, Workers, Main
<1>3. QED
  BY <1>1, <1>2 DEF ClaimInv

LEMMA KnownBefore == ASSUME [Next]_vars, Known' PROVE Known
<1> USE DEF Known, histVars
<1>1. ASSUME NEW t \in Threads, RunOneTask(t) PROVE Known
  BY <1>1 DEF RunOneTask, Take, Compare, Exec, Done
<1>2. ASSUME NEW w \in Workers, WorkerStep(w) PROVE Known
  BY <1>1, <1>2, MainIsThread DEF WorkerStep, Begin, Lock, WaitState, Wait, Got, Check
<1>3. ASSUME NEW c \in Calls, Run(c) PROVE Known
  BY <1>3 DEF Run
<1>4. CASE InRun
  BY <1>1, <1>4, MainIsThread DEF InRun, ResetDone, SetTasks, SetTaskN, Loop, Wake,
     WakeState
<1>5. CASE Destroy \/ InDestroy
  BY <1>5 DEF Destroy, InDestroy, Exit, ExitState, Join
<1>6. CASE UNCHANGED vars
  BY <1>6 DEF vars
<1>7. QED
  BY <1>2, <1>3, <1>4, <1>5, <1>6 DEF Next

LEMMA ClaimNext ==
  ASSUME RunInv, [Next]_vars, Known'
  PROVE  Known /\ ClaimInv'
<1> USE SpinAssumption, MainIsThread
<1>1. Known
  BY KnownBefore
<1>2. TypeInv /\ CallInv /\ ClaimInv /\ CompleteInv
  BY <1>1 DEF RunInv
<1>3. ASSUME NEW t \in Threads, RunOneTask(t) PROVE ClaimInv'
  BY <1>1, <1>2, <1>3, ClaimTask
<1>4. ASSUME NEW c \in Calls, Run(c) PROVE ClaimInv'
  BY <1>2, <1>4, ClaimRun
<1>5. ASSUME UNCHANGED <<arg, nti, task, begun, ended, next>>,
             \A t \in Threads : pc'[t] \in {"compare", "exec", "busy"} => pc'[t] = pc[t]
      PROVE  ClaimInv'
  <2>1. TasksOf(arg)' = TasksOf(arg)
    BY <1>5 DEF TasksOf
  <2>2. \A t \in Threads : Claim(t)' => Claim(t)
    BY <1>5 DEF Claim
  <2>3. QED
    BY <1>2, <1>5, <2>1, <2>2 DEF ClaimInv
<1>6. ASSUME NEW w \in Workers, WorkerStep(w), ~RunOneTask(w) PROVE ClaimInv'
  BY <1>1, <1>2, <1>5, <1>6 DEF WorkerStep, Begin, Lock, WaitState, Wait, Got, Check, Goto,
     TypeInv, taskVars, localVars, mainVars, histVars
<1>7. CASE Destroy
  BY <1>1, <1>2, <1>5, <1>7 DEF Destroy, Goto, TypeInv, taskVars, localVars, histVars
<1>8. CASE InRun /\ ~RunOneTask(Main)
  BY <1>1, <1>2, <1>5, <1>8 DEF InRun, ResetDone, SetTasks, SetTaskN, Loop, Wake, WakeState, Goto,
     TypeInv, taskVars, localVars, mainVars, histVars
<1>9. CASE InDestroy
  BY <1>1, <1>2, <1>5, <1>9 DEF InDestroy, Exit, ExitState, Join, Goto, TypeInv, taskVars,
     localVars, histVars
<1>10. CASE UNCHANGED vars
  BY <1>1, <1>5, <1>10 DEF vars, taskVars, localVars, mainVars, histVars
<1>11. QED
  BY <1>1, <1>3, <1>4, <1>6, <1>7, <1>8, <1>9, <1>10 DEF Next, InRun

LEMMA EndedFinite ==
  ASSUME TypeInv, ClaimInv
  PROVE  IsFiniteSet(ended) /\ Cardinality(ended) \in Nat
<1>1. IsFiniteSet(TasksOf(arg))
  BY TasksFinite DEF TypeInv, TypeOK, TypeMain
<1>2. ended \subseteq TasksOf(arg)
  BY DEF ClaimInv
<1>3. QED
  BY <1>1, <1>2, FS_Subset, FS_CardinalityType

\* What run() needs when it returns.
LEMMA AllEnded ==
  ASSUME TypeInv, CallInv, ClaimInv, DoneInv, pc[Main] = "loop", AllDone
  PROVE  ended = TasksOf(arg)
<1>1. IsFiniteSet(TasksOf(arg)) /\ Cardinality(TasksOf(arg)) = arg[2] /\ arg[2] \in Nat
  BY TasksFinite DEF TypeInv, TypeOK, TypeMain
<1>2. ended \in SUBSET TasksOf(arg)
  BY DEF ClaimInv
<1>3. Cardinality(ended) <= Cardinality(TasksOf(arg))
  BY <1>1, <1>2, FS_Subset
<1>4. arg[2] <= Cardinality(ended)
  <2>1. arg[2] <= done /\ done <= Cardinality(ended)
    BY DEF DoneInv, Calling, AllDone, TypeInv, TypeOK, TypeTasks, TypeMain
  <2>2. QED
    BY <2>1, <1>1, EndedFinite DEF TypeInv, TypeOK, TypeTasks
<1>5. Cardinality(TasksOf(arg)) = Cardinality(ended)
  BY <1>1, <1>3, <1>4, EndedFinite
<1>6. QED
  BY <1>1, <1>2, <1>5, FS_Subset

LEMMA DoneTask ==
  ASSUME TypeInv, ClaimInv, DoneInv, NEW t \in Threads, RunOneTask(t)
  PROVE  DoneInv'
<1> USE MainIsThread
<1>1. CASE Done(t)
  <2>1. /\ pc[t] = "busy" /\ done' = done + 1 /\ ended' = ended \cup {task[t]}
        /\ Calling' /\ pc'[Main] # "resetDone" => Calling /\ pc[Main] # "resetDone"
    BY <1>1 DEF Done, Goto, AfterTask, Calling, TypeInv
  <2>2. task[t] \notin ended
    BY <2>1 DEF ClaimInv
  <2>3. Cardinality(ended') = Cardinality(ended) + 1
    BY <2>1, <2>2, EndedFinite, FS_AddElement
  <2>4. done \in Nat /\ Cardinality(ended) \in Nat
    BY EndedFinite DEF TypeInv, TypeOK, TypeTasks
  <2>5. QED
    BY <2>1, <2>3, <2>4 DEF DoneInv
<1>2. CASE Take(t) \/ Compare(t) \/ Exec(t)
  <2>1. UNCHANGED <<done, ended>>
    BY <1>2 DEF Take, Compare, Exec, histVars, taskVars
  <2>2. pc'[Main] # pc[Main] =>
          pc[Main] \in TaskPcs /\ pc'[Main] \in TaskPcs \cup {"loop"}
    BY <1>2 DEF Take, Compare, Exec, Goto, NoTask, TypeInv, TaskPcs
  <2>3. QED
    BY <2>1, <2>2 DEF DoneInv, Calling, TaskPcs
<1>3. QED
  BY <1>1, <1>2 DEF RunOneTask

LEMMA DoneNext ==
  ASSUME RunInv, [Next]_vars, Known'
  PROVE  DoneInv' /\ CompleteInv'
<1> USE SpinAssumption, MainIsThread
<1>1. Known /\ TypeInv /\ CallInv /\ ClaimInv /\ DoneInv /\ CompleteInv
  BY KnownBefore DEF RunInv
<1>2. ASSUME UNCHANGED <<done, ended, arg>>,
             Calling' => Calling /\ pc[Main] # "resetDone",
             ~Calling' => ~Calling
      PROVE  DoneInv' /\ CompleteInv'
  BY <1>1, <1>2 DEF DoneInv, CompleteInv, TasksOf
<1>3. ASSUME NEW t \in Threads, RunOneTask(t) PROVE DoneInv' /\ CompleteInv'
  <2>1. DoneInv'
    BY <1>1, <1>3, DoneTask
  <2>2. CASE Calling'
    BY <2>1, <2>2 DEF CompleteInv
  <2>3. CASE ~Calling'
    <3>1. ~Calling /\ UNCHANGED arg /\ (ended' = ended \/ pc[t] = "busy")
      BY <1>1, <1>3, <2>3 DEF RunOneTask, Take, Compare, Exec, Done, Goto, NoTask,
         AfterTask, Calling, TypeInv, mainVars, histVars
    <3>2. ended' = ended
      BY <1>1, <3>1, NoClaim
    <3>3. QED
      BY <1>1, <2>1, <3>1, <3>2 DEF CompleteInv, TasksOf
  <2>4. QED
    BY <2>2, <2>3
<1>4. ASSUME NEW w \in Workers, WorkerStep(w), ~RunOneTask(w)
      PROVE  DoneInv' /\ CompleteInv'
  BY <1>1, <1>4 DEF WorkerStep, Begin, Lock, WaitState, Wait, Got, Check, Goto, DoneInv,
     CompleteInv, TasksOf, Calling, TypeInv, taskVars, mainVars, histVars
<1>5. ASSUME NEW c \in Calls, Run(c) PROVE DoneInv' /\ CompleteInv'
  BY <1>1, <1>5 DEF Run, Goto, DoneInv, CompleteInv, Calling, TypeInv
<1>6. CASE Destroy \/ InDestroy
  BY <1>1, <1>6 DEF Destroy, InDestroy, Exit, ExitState, Join, Goto, DoneInv,
     CompleteInv, TasksOf, Calling, TypeInv, taskVars, histVars
<1>7. CASE ResetDone
  <2>1. done' = 0 /\ ended' = ended /\ Calling'
    BY <1>1, <1>7 DEF ResetDone, Goto, Calling, TypeInv, histVars
  <2>2. QED
    BY <1>1, <2>1, EndedFinite DEF DoneInv, CompleteInv
<1>8. CASE SetTasks \/ SetTaskN \/ Wake \/ WakeState
  BY <1>1, <1>2, <1>8 DEF SetTasks, SetTaskN, Wake, WakeState, Goto, Calling, TypeInv,
     taskVars, mainVars, histVars
<1>9. CASE Loop
  <2>1. Calling /\ pc[Main] = "loop" /\ UNCHANGED <<done, ended, arg>>
    BY <1>9 DEF Loop, Calling, taskVars, mainVars, histVars
  <2>2. ~Calling' => AllDone
    BY <1>1, <1>9 DEF Loop, Goto, Calling, TypeInv
  <2>3. ~Calling' => ended = TasksOf(arg)
    BY <1>1, <2>1, <2>2, AllEnded
  <2>4. QED
    BY <1>1, <2>1, <2>3 DEF DoneInv, CompleteInv, TasksOf
<1>10. CASE UNCHANGED vars
  BY <1>1, <1>10 DEF vars, taskVars, mainVars, histVars, DoneInv, CompleteInv, TasksOf,
     Calling
<1>11. QED
  BY <1>3, <1>4, <1>5, <1>6, <1>7, <1>8, <1>9, <1>10 DEF Next, InRun

LEMMA RunInvNext == RunInv /\ [Next]_vars => RunInv'
<1> SUFFICES ASSUME RunInv, [Next]_vars PROVE RunInv'
  OBVIOUS
<1>1. TypeInv' /\ CallInv'
  BY TypeNext, CallNext DEF RunInv
<1>2. Known' => ClaimInv' /\ DoneInv' /\ CompleteInv'
  BY ClaimNext, DoneNext
<1>3. QED
  BY <1>1, <1>2 DEF RunInv

LEMMA RunInvAlways == Spec => []RunInv
  BY InitRun, RunInvNext, PTL DEF Spec

LEMMA RunInvNoStray == RunInv => NoStray
<1> SUFFICES ASSUME RunInv, Known, ~Calling, NEW w \in Workers
             PROVE  pc[w] \notin {"exec", "busy"}
  BY DEF NoStray
<1>1. QED
  BY NoClaim, MainIsThread DEF RunInv

\* When run() has returned no worker is inside a task, however late it is, as
\* long as all runs have the same arguments or wait for the workers to be back.
THEOREM NoStrayAlways == Spec => []NoStray
  BY RunInvAlways, RunInvNoStray, PTL

(***************************************************************************)
(* The pool implements the abstract run: a call of run() is its Run, the   *)
(* call of a task its Begin, done_cnt.fetch_add() its End and the last     *)
(* look at done_cnt its Return.                                            *)
(***************************************************************************)
Simulated == Abstract!Next \/ UNCHANGED Abstract!vars

LEMMA SimTask ==
  ASSUME RunInv, Known, NEW t \in Threads, RunOneTask(t)
  PROVE  Simulated
<1> USE MainIsThread
<1>1. TypeInv /\ CallInv /\ ClaimInv /\ CompleteInv
  BY DEF RunInv
<1>2. (Calling' <=> Calling) /\ UNCHANGED arg
  BY <1>1 DEF RunOneTask, Take, Compare, Exec, Done, Goto, NoTask, AfterTask, Calling,
     TypeInv, mainVars
<1>3. TasksOf(arg)' = TasksOf(arg)
  BY <1>2 DEF TasksOf
<1>4. CASE Take(t) \/ Compare(t)
  <2>1. UNCHANGED <<begun, ended>>
    BY <1>4 DEF Take, Compare, histVars
  <2>2. QED
    BY <1>2, <1>3, <2>1 DEF Simulated, Abstract!vars
<1>5. CASE Exec(t)
  <2> DEFINE k == <<arg[1], nti[t]>>
  <2>1. Calling
    BY <1>1, <1>5, NoClaim DEF Exec
  <2>2. call = arg /\ begun' = begun \cup {<<call[1], nti[t]>>} /\ UNCHANGED ended
    BY <1>1, <1>5, ActiveSees DEF Exec, TaskPcs
  <2>3. begun' = begun \cup {k}
    BY <2>2
  <2>4. Claim(t) /\ nti[t] \in Nat /\ arg[2] \in Nat
    BY <1>1, <1>5 DEF Exec, ClaimInv, Claim, TypeInv, TypeOK, TypeThreads, TypeMain
  <2>5. k \in TasksOf(arg) \ begun
    BY <1>1, <2>4 DEF ClaimInv, Claim, TasksOf
  <2>6. Abstract!Begin
    BY <1>2, <1>3, <2>1, <2>2, <2>3, <2>5 DEF Abstract!Begin
  <2>7. QED
    BY <2>6 DEF Simulated, Abstract!Next
<1>6. CASE Done(t)
  <2>1. Calling
    BY <1>1, <1>6, NoClaim DEF Done
  <2>2. task[t] \in begun \ ended /\ ended' = ended \cup {task[t]} /\ UNCHANGED begun
    BY <1>1, <1>6 DEF Done, ClaimInv
  <2>3. Abstract!End
    BY <1>2, <1>3, <2>1, <2>2 DEF Abstract!End
  <2>4. QED
    BY <2>3 DEF Simulated, Abstract!Next
<1>7. QED
  BY <1>4, <1>5, <1>6 DEF RunOneTask

LEMMA SimStep ==
  ASSUME RunInv, [Next]_vars, Known'
  PROVE  Simulated
<1> USE MainIsThread
<1>1. Known /\ TypeInv /\ CallInv /\ ClaimInv /\ DoneInv /\ CompleteInv
  BY KnownBefore DEF RunInv
<1>2. ASSUME UNCHANGED <<arg, begun, ended>>, Calling' <=> Calling PROVE Simulated
  BY <1>2 DEF Simulated, Abstract!vars, TasksOf
<1>3. ASSUME NEW w \in Workers, WorkerStep(w) PROVE Simulated
  <2>1. CASE RunOneTask(w)
    BY <1>1, <2>1, SimTask
  <2>2. CASE ~RunOneTask(w)
    BY <1>1, <1>2, <1>3, <2>2 DEF WorkerStep, Begin, Lock, WaitState, Wait, Got, Check,
       Goto, Calling, TypeInv, mainVars, histVars
  <2>3. QED
    BY <2>1, <2>2
<1>4. ASSUME NEW c \in Calls, Run(c) PROVE Simulated
  <2>1. /\ ~Calling /\ Calling' /\ arg' = c /\ begun' = {} /\ ended' = {}
    BY <1>1, <1>4 DEF Run, Goto, Calling, TypeInv
  <2>2. TasksOf(arg)' \in SUBSET UNION { TasksOf(d) : d \in Calls }
    BY <2>1 DEF TasksOf
  <2>3. Abstract!Run
    BY <2>1, <2>2 DEF Abstract!Run
  <2>4. QED
    BY <2>3 DEF Simulated, Abstract!Next
<1>5. CASE Destroy \/ InDestroy
  BY <1>1, <1>2, <1>5 DEF Destroy, InDestroy, Exit, ExitState, Join, Goto, Calling,
     TypeInv, histVars
<1>6. CASE RunOneTask(Main)
  BY <1>1, <1>6, SimTask
<1>7. CASE ResetDone \/ SetTasks \/ SetTaskN \/ Wake \/ WakeState
  BY <1>1, <1>2, <1>7 DEF ResetDone, SetTasks, SetTaskN, Wake, WakeState, Goto, Calling,
     TypeInv, mainVars, histVars
<1>8. CASE Loop
  <2>1. Calling /\ pc[Main] = "loop" /\ UNCHANGED <<arg, begun, ended>>
    BY <1>8 DEF Loop, Calling, mainVars, histVars
  <2>2. CASE Calling'
    BY <1>2, <2>1, <2>2
  <2>3. CASE ~Calling'
    <3>1. AllDone
      BY <1>1, <1>8, <2>3 DEF Loop, Goto, Calling, TypeInv
    <3>2. ended = TasksOf(arg)
      BY <1>1, <2>1, <3>1, AllEnded
    <3>3. Abstract!Return
      BY <2>1, <2>3, <3>2 DEF Abstract!Return, TasksOf
    <3>4. QED
      BY <3>3 DEF Simulated, Abstract!Next
  <2>4. QED
    BY <2>2, <2>3
<1>9. CASE UNCHANGED vars
  BY <1>2, <1>9 DEF vars, mainVars, histVars, Calling
<1>10. QED
  BY <1>3, <1>4, <1>5, <1>6, <1>7, <1>8, <1>9 DEF Next, InRun

LEMMA SimInit == Init => Abstract!Init
<1> SUFFICES ASSUME Init PROVE Abstract!Init
  OBVIOUS
<1>1. TasksOf(NoCall) = {}
  BY DEF TasksOf, NoCall
<1>2. QED
  BY <1>1, MainIsThread DEF Init, Abstract!Init, Calling

\* Each run executes each of its tasks once, on whatever thread, and returns
\* after all, for any number of workers and tasks, as long as all runs have the
\* same arguments or wait for the workers to be back.
THEOREM TasksOnce == Spec => ImplementsTaskRun
<1>1. RunInv /\ [Next]_vars => [Known' => Simulated]_vars
  BY SimStep
<1>2. Spec => [][Known' => Simulated]_vars
  BY <1>1, RunInvAlways, PTL DEF Spec
<1>3. Spec => Abstract!Init
  BY SimInit DEF Spec
<1>4. QED
  BY <1>2, <1>3 DEF ImplementsTaskRun, Simulated

(***************************************************************************)
(* No task is forgotten.  Whether run() ends is a question of liveness;    *)
(* what it rests on is not: as long as done_cnt is short of the number of  *)
(* tasks, an index is left for the main thread to take, or a thread has a  *)
(* task and will count it.                                                 *)
(***************************************************************************)
NoTaskForgotten ==
  settled /\ Calling /\ ~PreLoop /\ done < arg[2] =>
    next < arg[2] \/ \E t \in Threads : Claim(t) \/ pc[t] = "busy"

\* Thread t has taken the index of task k, or executes it.
Holds(t, k) ==
  \/ Claim(t) /\ nti[t] = k[2]
  \/ pc[t] = "busy" /\ task[t] = k

\* Before the loop nobody steps but run(); from there on done_cnt is exact.
CountInv ==
  /\ PreLoop => /\ AllAtRest /\ next = 0 /\ ended = {}
                /\ pc[Main] # "resetDone" => done = 0
  /\ Calling /\ ~PreLoop => done = Cardinality(ended)

HoldInv ==
  Calling /\ ~PreLoop =>
    \A k \in TasksOf(arg) : k[2] >= next \/ k \in ended \/ \E t \in Threads : Holds(t, k)

ExactInv == settled => CountInv /\ HoldInv

LEMMA ExactTask ==
  ASSUME RunInv, settled, CountInv, HoldInv, NEW t \in Threads, RunOneTask(t)
  PROVE  CountInv' /\ HoldInv'
<1> USE MainIsThread
<1>1. /\ TypeInv /\ CallInv /\ ClaimInv /\ Known
      /\ pc \in [Threads -> TaskPcs \cup WorkerPcs \cup MainPcs]
      /\ nti \in [Threads -> Nat] /\ task \in [Threads -> Nat \X Nat]
      /\ next \in Nat /\ done \in Nat
  BY DEF RunInv, Known, TypeInv, TypeOK, TypeThreads, TypeTasks
<1>2. pc[t] \in TaskPcs
  BY DEF RunOneTask, Take, Compare, Exec, Done, TaskPcs
<1>3. call = arg /\ arg \in Calls /\ arg[1] \in Nat /\ arg[2] \in Nat /\ arg[2] <= MaxIdx /\ MaxIdx \in Nat
  BY <1>1, <1>2, ActiveSees, CallType, SpinAssumption
<1>4. ~PreLoop
  <2>1. CASE t = Main
    BY <1>2, <2>1 DEF PreLoop, TaskPcs
  <2>2. CASE t \in Workers
    BY <1>2, <2>2 DEF CountInv, AllAtRest, AtRest, TaskPcs
  <2>3. QED
    BY <2>1, <2>2 DEF Threads, Workers, Main
<1>5. \A u \in Threads : u # t => pc'[u] = pc[u] /\ nti'[u] = nti[u] /\ task'[u] = task[u]
  BY <1>1 DEF RunOneTask, Take, Compare, Exec, Done, Goto, localVars
<1>6. pc'[t] \in TaskPcs \cup {"loop", "lock"}
  BY <1>1 DEF RunOneTask, Take, Compare, Exec, Done, Goto, TaskPcs, NoTask, AfterTask
<1>7. ~PreLoop' /\ (Calling' => Calling)
  <2>1. CASE t = Main
    BY <1>2, <1>6, <2>1 DEF PreLoop, Calling, TaskPcs
  <2>2. CASE t # Main
    BY <1>4, <1>5, <2>2 DEF PreLoop, Calling
  <2>3. QED
    BY <2>1, <2>2
<1>8. SUFFICES ASSUME Calling
               PROVE  done' = Cardinality(ended') /\ \A k \in TasksOf(arg) :
                        k[2] >= next' \/ k \in ended' \/ \E u \in Threads : Holds(u, k)'
  <2>1. arg' = arg
    BY DEF RunOneTask, Take, Compare, Exec, Done, mainVars
  <2>2. TasksOf(arg)' = TasksOf(arg)
    BY <2>1 DEF TasksOf
  <2>3. QED
    BY <1>7, <2>2 DEF CountInv, HoldInv
<1>9. /\ done = Cardinality(ended)
      /\ \A k \in TasksOf(arg) : k[2] >= next \/ k \in ended \/ \E u \in Threads : Holds(u, k)
  BY <1>4, <1>8 DEF CountInv, HoldInv
<1>10. arg' = arg
  BY DEF RunOneTask, Take, Compare, Exec, Done, mainVars
<1>11. \A u \in Threads : \A k : u # t => (Holds(u, k)' <=> Holds(u, k))
  BY <1>5, <1>10 DEF Holds, Claim
<1>12. \A k \in TasksOf(arg) : k[2] \in Nat /\ k[2] < arg[2] /\ k = <<arg[1], k[2]>>
  BY <1>3 DEF TasksOf
<1>13. CASE Take(t)
  <2>1. /\ pc[t] = "take" /\ pc'[t] = "compare" /\ nti'[t] = next
        /\ next' = (IF next < MaxIdx THEN next + 1 ELSE next)
        /\ UNCHANGED <<done, ended>>
    BY <1>1, <1>13 DEF Take, Goto, histVars
  <2>2. ASSUME NEW k \in TasksOf(arg)
        PROVE  k[2] >= next' \/ k \in ended' \/ \E u \in Threads : Holds(u, k)'
    <3>1. CASE k[2] = next
      <4>1. Holds(t, k)'
        BY <1>10, <1>12, <2>1, <3>1 DEF Holds, Claim
      <4>2. QED
        BY <4>1
    <3>2. CASE k[2] >= next /\ k[2] # next
      <4>1. next' = next \/ next' = next + 1
        BY <2>1
      <4>2. k[2] \in Nat /\ next \in Nat
        BY <1>1, <1>12
      <4>3. k[2] >= next'
        BY <3>2, <4>1, <4>2
      <4>4. QED
        BY <4>3
    <3>3. CASE k \in ended
      BY <2>1, <3>3
    <3>4. ASSUME NEW u \in Threads, Holds(u, k) PROVE Holds(u, k)'
      <4>1. u # t
        BY <2>1, <3>4 DEF Holds, Claim
      <4>2. QED
        BY <1>11, <3>4, <4>1
    <3>5. QED
      BY <1>9, <3>1, <3>2, <3>3, <3>4
  <2>3. QED
    BY <1>9, <2>1, <2>2
<1>14. CASE Compare(t)
  <2>1. /\ pc[t] = "compare" /\ nti'[t] = nti[t] /\ UNCHANGED <<done, ended, next>>
        /\ nti[t] < arg[2] => pc'[t] = "exec"
    BY <1>1, <1>3, <1>14 DEF Compare, Valid, Goto, histVars, taskVars, localVars
  <2>2. \A k : Holds(t, k) => Holds(t, k)'
    BY <1>10, <2>1 DEF Holds, Claim
  <2>3. QED
    BY <1>9, <1>11, <2>1, <2>2
<1>15. CASE Exec(t)
  <2>1. /\ pc[t] = "exec" /\ pc'[t] = "busy" /\ task'[t] = <<arg[1], nti[t]>>
        /\ UNCHANGED <<done, ended, next>>
    BY <1>1, <1>3, <1>15 DEF Exec, Goto, taskVars
  <2>2. \A k \in TasksOf(arg) : Holds(t, k) => Holds(t, k)'
    BY <1>12, <2>1 DEF Holds
  <2>3. QED
    BY <1>9, <1>11, <2>1, <2>2
<1>16. CASE Done(t)
  <2>1. /\ pc[t] = "busy" /\ done' = done + 1 /\ ended' = ended \cup {task[t]} /\ next' = next
    BY <1>16 DEF Done
  <2>2. task[t] \notin ended
    BY <1>1, <2>1 DEF ClaimInv
  <2>3. done' = Cardinality(ended')
    BY <1>1, <1>9, <2>1, <2>2, EndedFinite, FS_AddElement
  <2>4. \A k : Holds(t, k) => k \in ended'
    BY <2>1 DEF Holds, Claim
  <2>5. QED
    BY <1>9, <1>11, <2>1, <2>3, <2>4
<1>17. QED
  BY <1>13, <1>14, <1>15, <1>16 DEF RunOneTask

LEMMA ExactNext ==
  ASSUME RunInv, ExactInv, [Next]_vars
  PROVE  ExactInv'
<1> USE MainIsThread
<1> SUFFICES ASSUME settled' PROVE CountInv' /\ HoldInv'
  BY DEF ExactInv
<1>1. pc \in [Threads -> TaskPcs \cup WorkerPcs \cup MainPcs] /\ next \in Nat
  BY DEF RunInv, TypeInv, TypeOK, TypeTasks
<1>2. ASSUME settled, ~PreLoop, UNCHANGED <<next, done, ended, arg, nti, task>>,
             ~PreLoop', Calling' => Calling,
             \A t \in Threads : pc[t] \in {"compare", "exec", "busy"} => pc'[t] = pc[t]
      PROVE  CountInv' /\ HoldInv'
  <2>1. \A t \in Threads : \A k : Holds(t, k) => Holds(t, k)'
    BY <1>2 DEF Holds, Claim
  <2>2. CountInv /\ HoldInv /\ TasksOf(arg)' = TasksOf(arg)
    BY <1>2 DEF ExactInv, TasksOf
  <2>3. QED
    BY <1>2, <2>1, <2>2 DEF CountInv, HoldInv
<1>3. ASSUME NEW t \in Threads, RunOneTask(t) PROVE CountInv' /\ HoldInv'
  <2>1. settled
    BY <1>3 DEF RunOneTask, Take, Compare, Exec, Done, histVars
  <2>2. QED
    BY <1>3, <2>1, ExactTask DEF ExactInv
<1>4. ASSUME NEW w \in Workers, WorkerStep(w), ~RunOneTask(w) PROVE CountInv' /\ HoldInv'
  <2>1. /\ UNCHANGED <<next, done, ended, arg, nti, task, settled>> /\ ~AtRest(w)
        /\ pc[w] \notin {"compare", "exec", "busy"}
    BY <1>4 DEF WorkerStep, Begin, Lock, WaitState, Wait, Got, Check, AtRest, taskVars,
       mainVars, histVars, localVars
  <2>2. \A u \in Threads : u # w => pc'[u] = pc[u]
    BY <1>1, <1>4 DEF WorkerStep, Begin, Lock, WaitState, Wait, Got, Check, Goto
  <2>3. ~PreLoop
    BY <2>1 DEF ExactInv, CountInv, AllAtRest
  <2>4. ~PreLoop' /\ (Calling' => Calling)
    BY <2>2, <2>3 DEF PreLoop, Calling
  <2>5. QED
    BY <1>2, <2>1, <2>2, <2>3, <2>4
<1>5. ASSUME NEW c \in Calls, Run(c) PROVE CountInv' /\ HoldInv'
  <2>1. /\ pc'[Main] = "resetDone" /\ next' = 0 /\ ended' = {}
        /\ \A w \in Workers : AtRest(w) /\ pc'[w] = pc[w] /\ lock'[w] = lock[w]
    BY <1>1, <1>5 DEF Run, ResetNext, Goto, workVars
  <2>2. AllAtRest' /\ PreLoop'
    BY <2>1 DEF AllAtRest, AtRest, PreLoop
  <2>3. QED
    BY <2>1, <2>2 DEF CountInv, HoldInv
<1>6. CASE ResetDone \/ SetTasks \/ SetTaskN
  <2>1. /\ PreLoop /\ settled /\ UNCHANGED <<next, ended, lock, settled>>
        /\ \A w \in Workers : pc'[w] = pc[w]
    BY <1>1, <1>6 DEF ResetDone, SetTasks, SetTaskN, Goto, PreLoop, workVars, histVars
  <2>2. AllAtRest' /\ next' = 0 /\ ended' = {}
    BY <2>1 DEF ExactInv, CountInv, AllAtRest, AtRest
  <2>3. done' = 0
    BY <1>6, <2>1 DEF ResetDone, SetTasks, SetTaskN, ExactInv, CountInv
  <2>4. \A k \in TasksOf(arg)' : k[2] >= next'
    BY <2>2 DEF TasksOf
  <2>5. QED
    BY <2>2, <2>3, <2>4, FS_EmptySet DEF CountInv, HoldInv
<1>7. CASE Loop \/ Wake \/ WakeState
  <2>1. /\ UNCHANGED <<next, done, ended, arg, nti, task, settled>>
        /\ pc[Main] \in {"loop", "wake", "wakeState"}
        /\ pc'[Main] \in {"idle", "wake", "wakeState", "take"}
        /\ \A w \in Workers : pc'[w] = pc[w]
    BY <1>1, <1>7 DEF Loop, Wake, WakeState, Goto, taskVars, localVars, mainVars, histVars
  <2>2. ~PreLoop /\ Calling /\ ~PreLoop'
    BY <2>1 DEF PreLoop, Calling
  <2>3. \A t \in Threads : pc[t] \in {"compare", "exec", "busy"} => pc'[t] = pc[t]
    BY <2>1 DEF Threads, Workers, Main
  <2>4. QED
    BY <1>2, <2>1, <2>2, <2>3
<1>8. CASE Destroy \/ InDestroy
  <2>1. pc'[Main] \in {"exit", "exitState", "join", "gone"}
    BY <1>1, <1>8 DEF Destroy, InDestroy, Exit, ExitState, Join, Goto
  <2>2. QED
    BY <2>1 DEF CountInv, HoldInv, PreLoop, Calling
<1>9. CASE UNCHANGED vars
  <2>1. UNCHANGED <<next, done, ended, arg, nti, task, pc, lock, settled>>
    BY <1>9 DEF vars, taskVars, localVars, mainVars, histVars, workVars
  <2>2. CountInv' <=> CountInv
    BY <2>1 DEF CountInv, PreLoop, AllAtRest, AtRest, Calling
  <2>3. HoldInv' <=> HoldInv
    BY <2>1 DEF HoldInv, PreLoop, Calling, Holds, Claim, TasksOf
  <2>4. QED
    BY <2>1, <2>2, <2>3 DEF ExactInv
<1>10. QED
  BY <1>3, <1>4, <1>5, <1>6, <1>7, <1>8, <1>9 DEF Next, InRun

\* While run() loops, every task that is not counted yet is still to be taken,
\* which the main thread does itself if no worker does, or is with a thread that
\* will end and count it, so that the loop does not spin on a count that nobody
\* will raise: for any number of workers, at whatever moment each is woken.
THEOREM NoTaskEverForgotten == Spec => []NoTaskForgotten
<1>1. Init => ExactInv
  <2> SUFFICES ASSUME Init PROVE ExactInv
    OBVIOUS
  <2>1. pc[Main] = "idle"
    BY MainIsThread DEF Init
  <2>2. QED
    BY <2>1 DEF ExactInv, CountInv, HoldInv, PreLoop, Calling
<1>2. RunInv /\ ExactInv /\ [Next]_vars => ExactInv'
  BY ExactNext
<1>3. RunInv /\ ExactInv => NoTaskForgotten
  <2> SUFFICES ASSUME RunInv, ExactInv, settled, Calling, ~PreLoop, done < arg[2], ~(next < arg[2]),
                      \A t \in Threads : ~Claim(t) /\ pc[t] # "busy"
               PROVE  FALSE
    BY DEF NoTaskForgotten
  <2>1. /\ TypeInv /\ ClaimInv /\ arg \in Nat \X Nat /\ next \in Nat
    BY DEF RunInv, Known, TypeInv, TypeOK, TypeMain, TypeTasks
  <2>2. \A k \in TasksOf(arg) : k \in ended
    <3>1. \A k \in TasksOf(arg) : ~(k[2] >= next)
      BY <2>1 DEF TasksOf
    <3>2. QED
      BY <3>1 DEF ExactInv, HoldInv, Holds
  <2>3. ended = TasksOf(arg)
    BY <2>1, <2>2 DEF ClaimInv
  <2>4. done = arg[2] /\ arg[2] \in Nat
    BY <2>1, <2>3, TasksFinite DEF ExactInv, CountInv
  <2>5. QED
    BY <2>4
<1>4. QED
  BY <1>1, <1>2, <1>3, RunInvAlways, RunInvNext, PTL DEF Spec
=============================================================================
