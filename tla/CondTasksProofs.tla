-------------------------- MODULE CondTasksProofs --------------------------
(***************************************************************************)
(* Proofs about CondTasks, for every number of workers and every set of    *)
(* calls.                                                                  *)
(***************************************************************************)
EXTENDS CondTasks, FiniteSetTheorems, TLAPS

(***************************************************************************)
(* Types.                                                                  *)
(***************************************************************************)
CondThreads == {Main} \cup Workers

CondTypeInv ==
  /\ TypeOK
  /\ pc \in [CondThreads -> WorkerPcs \cup MainPcs]

\* The constants, in the form in which the proofs use them.
LEMMA CondIs ==
  /\ ThreadN \in Nat \ {0} /\ Workers = 1 .. ThreadN /\ Main = 0
  /\ Main \in CondThreads /\ Main \notin Workers /\ Workers \subseteq CondThreads
  /\ Calls \subseteq (Nat \ {0}) \X (Nat \ {0})
  /\ "none" \notin Wakes /\ Wakes \subseteq {"timeout", "ok"} /\ MaxRash \in Nat
<1>1. ThreadN \in Nat \ {0} /\ Wakes \subseteq {"timeout", "ok"} /\ MaxRash \in Nat
      /\ Calls \subseteq (Nat \ {0}) \X (Nat \ {0})
  BY CondAssumption
<1>2. Workers = 1 .. ThreadN /\ Main = 0
  BY DEF Workers, Main
<1>3. Main \notin Workers
  BY <1>1, <1>2
<1>4. "none" \notin Wakes
  BY <1>1
<1>5. QED
  BY <1>1, <1>2, <1>3, <1>4 DEF CondThreads

LEMMA CondTypeInit ==
  ASSUME Init
  PROVE  CondTypeInv
<1> USE CondIs
<1>1. TypeTasks /\ TypeHistory
  <2>1. MaxRash \in Nat /\ 0 \in 0 .. MaxRash
    OBVIOUS
  <2>2. TypeTasks
    BY DEF Init, TypeTasks, NoCall
  <2>3. TypeHistory
    BY <2>1 DEF Init, TypeHistory
  <2>4. QED
    BY <2>2, <2>3
<1>2. pc \in [CondThreads -> WorkerPcs \cup MainPcs]
  BY DEF Init, CondThreads, WorkerPcs, MainPcs
<1>3. TypeThreads
  BY DEF Init, TypeThreads, NoCall, WorkerPcs, MainPcs
<1>4. TypeMain
  BY DEF Init, TypeMain, NoCall
<1>5. QED
  BY <1>1, <1>2, <1>3, <1>4 DEF CondTypeInv, TypeOK

\* Types as the steps use them.
CondTyped ==
  /\ call \in Nat \X Nat /\ next \in Nat /\ done \in Nat
  /\ state \in [Workers -> {"paused", "running"}]
  /\ flags \in [Workers -> {"none", "run", "pause", "exit"}]
  /\ pc \in [CondThreads -> WorkerPcs \cup MainPcs]
  /\ pc[Main] \in MainPcs
  /\ \A w \in Workers : pc[w] \in WorkerPcs
  /\ nti \in [Workers -> Nat] /\ task \in [Workers -> Nat \X Nat]
  /\ arg \in Nat \X Nat /\ wi \in 1 .. (ThreadN + 1)
  /\ pc[Main] \in {"unpause", "join"} => wi \in Workers
  /\ rc \in {"none", "ok", "timeout"}
  /\ begun \subseteq Nat \X Nat /\ ended \subseteq Nat \X Nat
  /\ settled \in BOOLEAN /\ rash \in 0 .. MaxRash /\ slow \in BOOLEAN

LEMMA CondTypedIs == CondTypeInv <=> CondTyped
<1>1. ASSUME pc \in [CondThreads -> WorkerPcs \cup MainPcs]
      PROVE  DOMAIN pc = {Main} \cup Workers
  BY <1>1 DEF CondThreads
<1>2. QED
  BY <1>1 DEF CondTypeInv, CondTyped, TypeOK, TypeTasks, TypeThreads, TypeMain,
     TypeHistory

\* Only thread t goes on, to l.
LEMMA GotoIs ==
  ASSUME pc \in [CondThreads -> WorkerPcs \cup MainPcs], NEW t \in CondThreads, NEW l,
         l \in WorkerPcs \cup MainPcs, Goto(t, l)
  PROVE  /\ pc' \in [CondThreads -> WorkerPcs \cup MainPcs]
         /\ pc'[t] = l
         /\ \A u \in CondThreads : u # t => pc'[u] = pc[u]
  BY DEF Goto

\* A step of a worker: where it may go, and what it leaves alone.
LEMMA StepGoes ==
  ASSUME CondTyped, NEW w \in Workers, Step(w)
  PROVE  /\ \E l \in WorkerPcs : Goto(w, l)
         /\ UNCHANGED <<call, arg, wi, settled, rash, slow>>
<1> USE DEF WorkerPcs
<1>1. CASE Wait(w)
  BY <1>1 DEF Wait, taskVars, mainVars, histVars
<1>2. CASE Start(w) \/ Take(w)
  BY <1>2 DEF Start, Take, taskVars, mainVars, histVars
<1>3. CASE Compare(w)
  BY <1>3 DEF Compare, taskVars, mainVars, histVars
<1>4. CASE Exec(w) \/ Done(w)
  BY <1>4 DEF Exec, Done, taskVars, mainVars
<1>5. CASE IsLast(w)
  BY <1>5 DEF IsLast, taskVars, mainVars, histVars
<1>6. CASE Signal(w) \/ SelfPause(w)
  BY <1>6 DEF Signal, SelfPause, taskVars, mainVars, histVars
<1>7. CASE Ran(w)
  <2>1. CASE flags[w] = "exit"
    BY <1>7, <2>1 DEF Ran, taskVars, mainVars, histVars
  <2>2. CASE flags[w] = "pause"
    BY <1>7, <2>2 DEF Ran, taskVars, mainVars, histVars
  <2>3. CASE flags[w] # "exit" /\ flags[w] # "pause"
    BY <1>7, <2>3 DEF Ran, taskVars, mainVars, histVars
  <2>4. QED
    BY <2>1, <2>2, <2>3
<1>8. CASE Pausing(w) \/ Clear(w)
  BY <1>8 DEF Pausing, Clear, taskVars, mainVars, histVars
<1>9. QED
  BY <1>1, <1>2, <1>3, <1>4, <1>5, <1>6, <1>7, <1>8 DEF Step

LEMMA StepTyped ==
  ASSUME CondTyped, NEW w \in Workers, Step(w)
  PROVE  CondTyped'
<1> USE CondIs
<1>1. PICK l \in WorkerPcs : Goto(w, l)
  BY StepGoes
<1>2. /\ pc' \in [CondThreads -> WorkerPcs \cup MainPcs]
      /\ pc'[Main] = pc[Main]
      /\ \A u \in Workers : pc'[u] \in WorkerPcs
  <2>1. l \in WorkerPcs \cup MainPcs /\ w \in CondThreads /\ w # Main
    OBVIOUS
  <2>2. pc \in [CondThreads -> WorkerPcs \cup MainPcs]
    BY DEF CondTyped
  <2>3. /\ pc' \in [CondThreads -> WorkerPcs \cup MainPcs] /\ pc'[w] = l
        /\ \A u \in CondThreads : u # w => pc'[u] = pc[u]
    BY <1>1, <2>1, <2>2, GotoIs
  <2>4. QED
    BY <2>1, <2>3 DEF CondTyped
<1>3. UNCHANGED <<call, arg, wi, settled, rash, slow>>
  BY StepGoes
<1>4. next' \in Nat /\ done' \in Nat
  BY SMTT(60) DEF CondTyped, Step, Wait, Start, Take, Compare, Exec, Done, IsLast,
     Signal, SelfPause, Ran, Pausing, Clear, taskVars
<1>5. /\ state' \in [Workers -> {"paused", "running"}]
      /\ flags' \in [Workers -> {"none", "run", "pause", "exit"}]
  BY DEF CondTyped, Step, Wait, Start, Take, Compare, Exec, Done, IsLast,
     Signal, SelfPause, Ran, Pausing, Clear, NoFlags, workVars
<1>6. nti' \in [Workers -> Nat]
  <2>1. nti \in [Workers -> Nat] /\ next \in Nat /\ done \in Nat
    BY DEF CondTyped
  <2>2. nti' = nti \/ \E k \in Nat : nti' = [nti EXCEPT ![w] = k]
    <3>1. CASE Compare(w)
      <4>1. nti' = [nti EXCEPT ![w] = IF Valid(nti[w]) THEN nti[w] ELSE 0]
        BY <3>1 DEF Compare
      <4>2. nti[w] \in Nat /\ 0 \in Nat
        BY <2>1
      <4>3. QED
        BY <4>1, <4>2
    <3>2. CASE ~Compare(w)
      BY <2>1, <3>2 DEF Step, Wait, Start, Take, Exec, Done, IsLast, Signal,
         SelfPause, Ran, Pausing, Clear, localVars
    <3>3. QED
      BY <3>1, <3>2
  <2>3. QED
    BY <2>1, <2>2
<1>7. CASE Exec(w)
  <2>1. <<call[1], nti[w]>> \in Nat \X Nat
    BY DEF CondTyped
  <2>2. /\ task' \in [Workers -> Nat \X Nat] /\ begun' \subseteq Nat \X Nat
        /\ UNCHANGED <<ended, rc>>
    BY <1>7, <2>1 DEF Exec, CondTyped, mainVars
  <2>3. QED
    BY <1>2, <1>3, <1>4, <1>5, <1>6, <2>2 DEF CondTyped
<1>8. CASE Done(w)
  <2>1. /\ task' \in [Workers -> Nat \X Nat] /\ ended' \subseteq Nat \X Nat
        /\ UNCHANGED <<begun, rc>>
    <3>1. task[w] \in Nat \X Nat /\ ended \subseteq Nat \X Nat
      BY DEF CondTyped
    <3>2. task' = [task EXCEPT ![w] = <<0, 0>>] /\ task \in [Workers -> Nat \X Nat]
      BY <1>8 DEF Done, CondTyped, NoCall
    <3>3. ended' = ended \cup {task[w]} /\ UNCHANGED <<begun, rc>>
      BY <1>8 DEF Done, mainVars
    <3>4. QED
      BY <3>1, <3>2, <3>3
  <2>2. QED
    BY <1>2, <1>3, <1>4, <1>5, <1>6, <2>1 DEF CondTyped
<1>9. CASE ~Exec(w) /\ ~Done(w)
  <2>1. UNCHANGED <<task, begun, ended>>
    BY <1>9 DEF Step, Wait, Start, Take, Compare, IsLast, Signal, SelfPause,
       Ran, Pausing, Clear, localVars, histVars
  <2>2. rc' \in {"none", "ok", "timeout"}
    BY <1>9 DEF CondTyped, Step, Wait, Start, Take, Compare, IsLast, Signal,
       SelfPause, Ran, Pausing, Clear, mainVars
  <2>3. QED
    BY <1>2, <1>3, <1>4, <1>5, <1>6, <2>1, <2>2 DEF CondTyped
<1>10. QED
  BY <1>7, <1>8, <1>9

\* The steps of the thread that calls run() and destroy().
MainStep ==
  \/ \E c \in Calls : Run(c)
  \/ Destroy
  \/ \E r \in Wakes : EndWait(r)
  \/ InRun
  \/ InDestroy

\* It goes to l, or stays; no worker does anything.
LEMMA MainGoes ==
  ASSUME CondTyped, NEW l, l \in MainPcs, Goto(Main, l)
  PROVE  /\ pc' \in [CondThreads -> WorkerPcs \cup MainPcs] /\ pc'[Main] = l
         /\ \A w \in Workers : pc'[w] = pc[w] /\ pc'[w] \in WorkerPcs
<1>1. /\ l \in WorkerPcs \cup MainPcs /\ Main \in CondThreads
      /\ pc \in [CondThreads -> WorkerPcs \cup MainPcs]
  BY CondIs DEF CondTyped
<1>2. /\ pc' \in [CondThreads -> WorkerPcs \cup MainPcs] /\ pc'[Main] = l
      /\ \A u \in CondThreads : u # Main => pc'[u] = pc[u]
  BY <1>1, GotoIs
<1>3. QED
  BY <1>2, CondIs DEF CondTyped

\* The active workers are workers.
LEMMA ActiveWorkers ==
  ASSUME CondTyped
  PROVE  /\ wi <= ActiveN => wi \in Workers
         /\ MoreWorkers => wi \in Workers
         /\ wi \in Workers => wi + 1 \in 1 .. (ThreadN + 1)
<1>1. ThreadN \in Nat /\ Workers = 1 .. ThreadN /\ arg[2] \in Nat /\ wi \in 1 .. (ThreadN + 1)
  BY CondIs DEF CondTyped
<1>2. QED
  BY <1>1 DEF ActiveN, MoreWorkers

LEMMA RunTyped ==
  ASSUME CondTyped, NEW c \in Calls, Run(c)
  PROVE  CondTyped'
<1>1. /\ arg' = c /\ wi' = 1 /\ rc' = "none" /\ begun' = {} /\ ended' = {}
      /\ settled' = \A w \in Workers : AtRest(w)
      /\ rash' = (IF settled' THEN rash ELSE rash + 1) /\ rash' <= MaxRash
      /\ Goto(Main, "setTasks")
      /\ UNCHANGED <<call, next, done, state, flags, nti, task, slow>>
  BY DEF Run, taskVars, workVars, localVars
<1>2. /\ pc' \in [CondThreads -> WorkerPcs \cup MainPcs] /\ pc'[Main] = "setTasks"
      /\ \A w \in Workers : pc'[w] \in WorkerPcs
  BY <1>1, MainGoes DEF MainPcs
<1>3. arg' \in Nat \X Nat /\ wi' \in 1 .. (ThreadN + 1)
  BY <1>1, CondIs
<1>4. settled' \in BOOLEAN /\ rash' \in 0 .. MaxRash /\ slow' \in BOOLEAN
  BY <1>1, CondIs DEF CondTyped
<1>5. QED
  BY <1>1, <1>2, <1>3, <1>4 DEF CondTyped, MainPcs

LEMMA InRunTyped ==
  ASSUME CondTyped, InRun \/ (\E r \in Wakes : EndWait(r))
  PROVE  CondTyped'
<1> USE CondIs
<1>1. CASE SetTasks \/ SetTaskN
  <2>1. /\ call' = [call EXCEPT ![1] = arg[1]] \/ call' = [call EXCEPT ![2] = arg[2]]
        /\ Goto(Main, "setTaskN") \/ Goto(Main, "resetDone")
        /\ UNCHANGED <<next, done, workVars, localVars, mainVars, histVars>>
    BY <1>1 DEF SetTasks, SetTaskN
  <2>2. call' \in Nat \X Nat
    BY <2>1 DEF CondTyped
  <2>3. /\ pc' \in [CondThreads -> WorkerPcs \cup MainPcs]
        /\ pc'[Main] \in {"setTaskN", "resetDone"}
        /\ \A w \in Workers : pc'[w] \in WorkerPcs
    BY <2>1, MainGoes DEF MainPcs
  <2>4. QED
    BY <2>1, <2>2, <2>3 DEF CondTyped, MainPcs, workVars, localVars, mainVars, histVars
<1>2. CASE ResetDone \/ ResetNext
  <2>1. /\ next' \in Nat /\ done' \in Nat
        /\ Goto(Main, "resetNext") \/ Goto(Main, "wake")
        /\ UNCHANGED <<call, workVars, localVars, mainVars, histVars>>
    BY <1>2, SMTT(60) DEF ResetDone, ResetNext, ZeroDone, CondTyped
  <2>2. /\ pc' \in [CondThreads -> WorkerPcs \cup MainPcs]
        /\ pc'[Main] \in {"resetNext", "wake"}
        /\ \A w \in Workers : pc'[w] \in WorkerPcs
    BY <2>1, MainGoes DEF MainPcs
  <2>3. QED
    BY <2>1, <2>2 DEF CondTyped, MainPcs, workVars, localVars, mainVars, histVars
<1>3. CASE Wake
  <2>1. /\ \/ Goto(Main, "block") /\ UNCHANGED wi
           \/ wi \in Workers /\ Goto(Main, "unpause") /\ UNCHANGED wi
           \/ wi \in Workers /\ wi' = wi + 1 /\ UNCHANGED pc /\ pc[Main] = "wake"
        /\ UNCHANGED <<taskVars, workVars, localVars, arg, rc, histVars>>
    <3>1. wi > ActiveN \/ wi <= ActiveN
      BY DEF CondTyped, ActiveN
    <3>2. QED
      BY <1>3, <3>1, ActiveWorkers DEF Wake
  <2>2. wi' \in 1 .. (ThreadN + 1)
    BY <2>1, ActiveWorkers DEF CondTyped
  <2>3. /\ pc' \in [CondThreads -> WorkerPcs \cup MainPcs]
        /\ pc'[Main] \in {"block", "unpause", "wake"}
        /\ pc'[Main] = "unpause" => wi' \in Workers
        /\ \A w \in Workers : pc'[w] \in WorkerPcs
    BY <2>1, MainGoes DEF MainPcs, CondTyped
  <2>4. QED
    BY <2>1, <2>2, <2>3 DEF CondTyped, MainPcs, taskVars, workVars, localVars, histVars
<1>4. CASE Unpause
  <2>1. /\ pc[Main] = "unpause" /\ flags' = [flags EXCEPT ![wi] = "run"] /\ wi' = wi + 1
        /\ Goto(Main, "wake")
        /\ UNCHANGED <<taskVars, state, localVars, arg, rc, histVars>>
    BY <1>4 DEF Unpause
  <2>2. wi' \in 1 .. (ThreadN + 1) /\ flags' \in [Workers -> {"none", "run", "pause", "exit"}]
    BY <2>1, ActiveWorkers DEF CondTyped
  <2>3. /\ pc' \in [CondThreads -> WorkerPcs \cup MainPcs]
        /\ pc'[Main] = "wake"
        /\ \A w \in Workers : pc'[w] \in WorkerPcs
    BY <2>1, MainGoes DEF MainPcs
  <2>4. QED
    BY <2>1, <2>2, <2>3 DEF CondTyped, MainPcs, taskVars, localVars, histVars
<1>5. CASE Block \/ Awake \/ \E r \in Wakes : EndWait(r)
  <2>1. /\ Goto(Main, "blocked") \/ Goto(Main, "idle")
        /\ rc' \in {"none", "ok", "timeout"} /\ settled' \in BOOLEAN
        /\ UNCHANGED <<taskVars, workVars, localVars, arg, wi, begun, ended, rash, slow>>
    BY <1>5 DEF Block, Awake, EndWait, mainVars, histVars, CondTyped
  <2>2. /\ pc' \in [CondThreads -> WorkerPcs \cup MainPcs]
        /\ pc'[Main] \in {"blocked", "idle"}
        /\ \A w \in Workers : pc'[w] \in WorkerPcs
    BY <2>1, MainGoes DEF MainPcs
  <2>3. QED
    BY <2>1, <2>2 DEF CondTyped, MainPcs, taskVars, workVars, localVars
<1>6. QED
  BY <1>1, <1>2, <1>3, <1>4, <1>5 DEF InRun

LEMMA DestroyTyped ==
  ASSUME CondTyped, Destroy \/ InDestroy
  PROVE  CondTyped'
<1> USE CondIs
<1>1. CASE Destroy
  <2>1. /\ wi' = 1 /\ Goto(Main, "exit")
        /\ UNCHANGED <<taskVars, workVars, localVars, arg, rc, histVars>>
    BY <1>1 DEF Destroy
  <2>2. /\ pc' \in [CondThreads -> WorkerPcs \cup MainPcs]
        /\ pc'[Main] = "exit"
        /\ \A w \in Workers : pc'[w] \in WorkerPcs
    BY <2>1, MainGoes DEF MainPcs
  <2>3. QED
    BY <2>1, <2>2 DEF CondTyped, MainPcs, taskVars, workVars, localVars, histVars
<1>2. CASE Exit
  <2>1. /\ \/ /\ wi \in Workers /\ flags' = [flags EXCEPT ![wi] = "exit"]
              /\ Goto(Main, "join")
           \/ Goto(Main, "gone") /\ UNCHANGED flags
        /\ UNCHANGED <<taskVars, state, localVars, mainVars, histVars>>
    BY <1>2, ActiveWorkers DEF Exit
  <2>2. flags' \in [Workers -> {"none", "run", "pause", "exit"}]
    BY <2>1 DEF CondTyped
  <2>3. /\ pc' \in [CondThreads -> WorkerPcs \cup MainPcs]
        /\ pc'[Main] \in {"join", "gone"}
        /\ pc'[Main] = "join" => wi \in Workers
        /\ \A w \in Workers : pc'[w] \in WorkerPcs
    BY <2>1, MainGoes DEF MainPcs
  <2>4. QED
    BY <2>1, <2>2, <2>3 DEF CondTyped, MainPcs, taskVars, localVars, mainVars, histVars
<1>3. CASE Join \/ JoinTimeOut
  <2>1. /\ pc[Main] = "join" /\ wi' = wi + 1 /\ Goto(Main, "exit") /\ slow' \in BOOLEAN
        /\ UNCHANGED <<taskVars, workVars, localVars, arg, rc, begun, ended, settled, rash>>
    BY <1>3 DEF Join, JoinTimeOut, histVars, CondTyped
  <2>2. wi' \in 1 .. (ThreadN + 1)
    BY <2>1, ActiveWorkers DEF CondTyped
  <2>3. /\ pc' \in [CondThreads -> WorkerPcs \cup MainPcs]
        /\ pc'[Main] = "exit"
        /\ \A w \in Workers : pc'[w] \in WorkerPcs
    BY <2>1, MainGoes DEF MainPcs
  <2>4. QED
    BY <2>1, <2>2, <2>3 DEF CondTyped, MainPcs, taskVars, workVars, localVars
<1>4. QED
  BY <1>1, <1>2, <1>3 DEF InDestroy

LEMMA CondTypeNext ==
  ASSUME CondTyped, [Next]_vars
  PROVE  CondTyped'
<1>1. CASE \E w \in Workers : Step(w)
  BY <1>1, StepTyped
<1>2. CASE MainStep
  BY <1>2, RunTyped, InRunTyped, DestroyTyped DEF MainStep
<1>3. CASE UNCHANGED vars
  BY <1>3 DEF CondTyped, vars, taskVars, workVars, localVars, mainVars, histVars
<1>4. QED
  BY <1>1, <1>2, <1>3 DEF Next, MainStep

\* For any number of workers and any calls of run() every variable has its type,
\* and the worker that run() or destroy() turns to exists.
THEOREM CondTypeCorrect == Spec => []TypeOK
<1>1. Init => CondTyped
  BY CondTypeInit, CondTypedIs
<1>2. CondTyped /\ [Next]_vars => CondTyped'
  BY CondTypeNext
<1>3. CondTyped => TypeOK
  BY CondTypedIs DEF CondTypeInv
<1>4. QED
  BY <1>1, <1>2, <1>3, PTL DEF Spec

------------------------------------------------------------------------------
(***************************************************************************)
(* A run that finds all workers at rest and is not given up (settled).     *)
(* While run() prepares it no worker moves.  Then each index belongs to    *)
(* one worker, done_cnt counts the tasks that ended, and only the worker   *)
(* that ended the last one signals: when run() returns all have ended and  *)
(* no worker is about to signal.                                           *)
(***************************************************************************)
Over == Leaving \/ pc[Main] = "idle"
Preparing == pc[Main] \in {"setTasks", "setTaskN", "resetDone", "resetNext"}

\* Only destroy() asks a worker to exit.
FlagInv ==
  \A w \in Workers :
    /\ flags[w] = "exit" => Leaving
    /\ pc[w] = "exited" => flags[w] = "exit"

PrepInv ==
  Preparing =>
    /\ \A w \in Workers : AtRest(w)
    /\ begun = {} /\ ended = {} /\ rc = "none"
    /\ pc[Main] # "setTasks" => call[1] = arg[1]
    /\ pc[Main] \in {"resetDone", "resetNext"} => call = arg
    /\ pc[Main] = "resetNext" => done = 0

Claims(w) == pc[w] = "exec" \/ (pc[w] = "compare" /\ Valid(nti[w]))

\* What a worker claims nobody has begun, and what it executes nobody ended.
CondClaims ==
  /\ call = arg
  /\ begun \subseteq TasksOf(arg) /\ ended \subseteq begun
  /\ \A k \in begun : k[2] < next
  /\ \A w \in Workers : Claims(w) =>
       nti[w] < next /\ nti[w] < arg[2] /\ <<arg[1], nti[w]>> \notin begun
  /\ \A w \in Workers : pc[w] = "busy" => task[w] \in begun \ ended
  /\ \A v, w \in Workers : v # w /\ Claims(v) /\ Claims(w) => nti[v] # nti[w]
  /\ \A v, w \in Workers : v # w /\ pc[v] = "busy" /\ pc[w] = "busy" => task[v] # task[w]

\* The worker that ended the last task, before it has signalled.
Ender(w) == pc[w] = "signal" \/ (pc[w] = "last" /\ Last(w))
CondDone ==
  /\ done = Cardinality(ended)
  /\ \A w \in Workers : Ender(w) => done = arg[2] /\ rc = "none" /\ ~Over
  /\ \A v, w \in Workers : Ender(v) /\ Ender(w) => v = w
  /\ rc # "none" \/ Over => done = arg[2]

\* destroy() has seen the workers before wi exit, or they are paused for good,
\* unless a wait ran out.
JoinInv ==
  /\ Leaving /\ ~slow =>
       \A w \in Workers : w < wi => pc[w] = "exited" \/ (pc[w] = "wait" /\ flags[w] = "none")
  /\ pc[Main] = "gone" => wi > ThreadN

CondRun == settled => PrepInv /\ (~Preparing => CondClaims /\ CondDone) /\ JoinInv

LEMMA TasksFinite ==
  ASSUME NEW c \in Nat \X Nat
  PROVE  IsFiniteSet(TasksOf(c)) /\ Cardinality(TasksOf(c)) = c[2]
<1> DEFINE S == {c[1]}
           T == 0 .. (c[2] - 1)
<1>1. c[2] \in Nat /\ IsFiniteSet(S) /\ Cardinality(S) = 1
  BY FS_Singleton
<1>2. IsFiniteSet(T) /\ Cardinality(T) = IF 0 > c[2] - 1 THEN 0 ELSE c[2] - 1 - 0 + 1
  <2>1. 0 \in Int /\ c[2] - 1 \in Int
    BY <1>1
  <2>2. QED
    BY <2>1, FS_Interval
<1>3. Cardinality(T) = c[2]
  BY <1>1, <1>2
<1> HIDE DEF S, T
<1>4. IsFiniteSet(S \X T) /\ Cardinality(S \X T) = Cardinality(S) * Cardinality(T)
  BY <1>1, <1>2, FS_Product
<1>5. QED
  BY <1>1, <1>3, <1>4 DEF TasksOf, S, T

LEMMA CondTasksFinite ==
  ASSUME CondTyped, CondClaims
  PROVE  /\ IsFiniteSet(TasksOf(arg)) /\ Cardinality(TasksOf(arg)) = arg[2] /\ arg[2] \in Nat
         /\ IsFiniteSet(ended) /\ Cardinality(ended) \in Nat /\ Cardinality(ended) <= arg[2]
         /\ Cardinality(ended) = arg[2] => ended = TasksOf(arg)
<1>1. /\ IsFiniteSet(TasksOf(arg)) /\ Cardinality(TasksOf(arg)) = arg[2] /\ arg[2] \in Nat
  <2>1. arg \in Nat \X Nat
    BY DEF CondTyped
  <2>2. QED
    BY <2>1, TasksFinite DEF TasksOf
<1>2. ended \in SUBSET TasksOf(arg)
  BY DEF CondClaims
<1>3. QED
  BY <1>1, <1>2, FS_Subset, FS_CardinalityType

LEMMA CondInit ==
  ASSUME Init
  PROVE  FlagInv /\ CondRun
<1> USE CondIs
<1>1. /\ pc[Main] = "idle"
      /\ \A w \in Workers : pc[w] = "wait" /\ flags[w] = "none"
      /\ call = NoCall /\ arg = NoCall /\ done = 0 /\ begun = {} /\ ended = {} /\ rc = "none"
  BY DEF Init, CondThreads
<1>2. FlagInv /\ PrepInv /\ JoinInv /\ ~Preparing
  BY <1>1 DEF FlagInv, PrepInv, JoinInv, Preparing, Leaving
<1>3. CondClaims
  BY <1>1 DEF CondClaims, Claims
<1>4. CondDone
  <2>1. Cardinality({}) = 0
    BY FS_EmptySet
  <2>2. arg[2] = 0
    BY <1>1 DEF NoCall
  <2>3. QED
    BY <1>1, <2>1, <2>2 DEF CondDone, Ender
<1>5. QED
  BY <1>2, <1>3, <1>4 DEF CondRun

\* Worker w goes to l, and nobody else goes anywhere.
LEMMA StepMoves ==
  ASSUME CondTyped, NEW w \in Workers, NEW l, l \in WorkerPcs, Goto(w, l)
  PROVE  /\ pc'[w] = l /\ pc'[Main] = pc[Main]
         /\ \A u \in Workers : u # w => pc'[u] = pc[u]
         /\ (Preparing' <=> Preparing) /\ (Leaving' <=> Leaving) /\ (Over' <=> Over)
<1>1. /\ l \in WorkerPcs \cup MainPcs /\ w \in CondThreads /\ w # Main
      /\ Main \in CondThreads /\ Workers \subseteq CondThreads
      /\ pc \in [CondThreads -> WorkerPcs \cup MainPcs]
  BY CondIs DEF CondTyped
<1>2. pc'[w] = l /\ \A u \in CondThreads : u # w => pc'[u] = pc[u]
  BY <1>1, GotoIs
<1>3. QED
  BY <1>1, <1>2 DEF Preparing, Leaving, Over

LEMMA FlagStep ==
  ASSUME CondTyped, FlagInv, NEW w \in Workers, Step(w)
  PROVE  FlagInv'
<1>1. PICK l \in WorkerPcs : Goto(w, l)
  BY StepGoes
<1>2. /\ pc'[w] = l /\ \A u \in Workers : u # w => pc'[u] = pc[u]
      /\ (Leaving' <=> Leaving)
  BY <1>1, StepMoves
<1>3. flags \in [Workers -> {"none", "run", "pause", "exit"}]
  BY DEF CondTyped
<1>4. CASE SelfPause(w) \/ Clear(w)
  <2>1. l # "exited" /\ pc[w] # "exited"
        /\ \E f \in {"pause", "none"} : flags' = [flags EXCEPT ![w] = f]
    BY <1>2, <1>4, CondIs DEF SelfPause, Clear, NoFlags, Goto, CondTyped, CondThreads
  <2>2. QED
    BY <1>2, <1>3, <2>1 DEF FlagInv
<1>5. CASE ~(SelfPause(w) \/ Clear(w))
  <2>1. flags' = flags
    BY <1>5 DEF Step, Wait, Start, Take, Compare, Exec, Done, IsLast, Signal,
       Ran, Pausing, workVars
  <2>2. pc'[w] = "exited" => flags[w] = "exit"
    <3>1. w \in CondThreads /\ pc \in [CondThreads -> WorkerPcs \cup MainPcs]
      BY CondIs DEF CondTyped
    <3>2. QED
      BY <1>5, <3>1 DEF Step, Wait, Start, Take, Compare, Exec, Done, IsLast,
         Signal, Ran, Pausing, Goto
  <2>3. QED
    BY <1>2, <2>1, <2>2 DEF FlagInv
<1>6. QED
  BY <1>4, <1>5

\* A step of worker w is no business of the others.
LEMMA StepFrame ==
  ASSUME CondTyped, NEW w \in Workers, Step(w)
  PROVE  /\ UNCHANGED <<call, arg, wi, settled, slow>> /\ pc'[Main] = pc[Main]
         /\ \A u \in Workers : u # w =>
              /\ pc'[u] = pc[u] /\ flags'[u] = flags[u]
              /\ nti'[u] = nti[u] /\ task'[u] = task[u]
         /\ (Preparing' <=> Preparing) /\ (Leaving' <=> Leaving) /\ (Over' <=> Over)
<1>1. PICK l \in WorkerPcs : Goto(w, l)
  BY StepGoes
<1>2. /\ pc'[w] = l /\ pc'[Main] = pc[Main]
      /\ \A u \in Workers : u # w => pc'[u] = pc[u]
      /\ (Preparing' <=> Preparing) /\ (Leaving' <=> Leaving) /\ (Over' <=> Over)
  BY <1>1, StepMoves
<1>3. UNCHANGED <<call, arg, wi, settled, slow>>
  BY StepGoes
<1>4. /\ flags' = flags \/ \E f \in {"pause", "none"} : flags' = [flags EXCEPT ![w] = f]
      /\ flags \in [Workers -> {"none", "run", "pause", "exit"}]
  BY DEF CondTyped, Step, Wait, Start, Take, Compare, Exec, Done, IsLast,
     Signal, SelfPause, Ran, Pausing, Clear, NoFlags, workVars
<1>5. \A u \in Workers : u # w => nti'[u] = nti[u]
  BY DEF CondTyped, Step, Wait, Start, Take, Compare, Exec, Done, IsLast,
     Signal, SelfPause, Ran, Pausing, Clear, localVars
<1>6. \A u \in Workers : u # w => task'[u] = task[u]
  BY DEF CondTyped, Step, Wait, Start, Take, Compare, Exec, Done, IsLast,
     Signal, SelfPause, Ran, Pausing, Clear, localVars
<1>7. \A u \in Workers : u # w => flags'[u] = flags[u]
  BY <1>4
<1>8. QED
  BY <1>2, <1>3, <1>5, <1>6, <1>7

\* While run() prepares a settled run nobody steps.
LEMMA StepPrep ==
  ASSUME CondTyped, PrepInv, Preparing, NEW w \in Workers, Step(w)
  PROVE  FALSE
<1>1. pc[w] = "wait" /\ flags[w] = "none"
  BY DEF PrepInv, AtRest
<1>2. QED
  BY <1>1 DEF Step, Wait, Start, Take, Compare, Exec, Done, IsLast,
     Signal, SelfPause, Ran, Pausing, Clear

\* A worker that has exited, or is paused for good, takes no step.
LEMMA JoinStep ==
  ASSUME CondTyped, JoinInv, NEW w \in Workers, Step(w)
  PROVE  JoinInv'
<1>1. /\ UNCHANGED <<wi, slow>> /\ pc'[Main] = pc[Main]
      /\ \A u \in Workers : u # w => pc'[u] = pc[u] /\ flags'[u] = flags[u]
      /\ (Leaving' <=> Leaving)
  BY StepFrame
<1>2. pc[w] # "exited" /\ ~(pc[w] = "wait" /\ flags[w] = "none")
  BY DEF Step, Wait, Start, Take, Compare, Exec, Done, IsLast,
     Signal, SelfPause, Ran, Pausing, Clear
<1>3. QED
  BY <1>1, <1>2 DEF JoinInv

\* A worker that has nothing to do with a task afterwards, and none before it
\* ended, changes nothing for the others.
LEMMA ClaimQuiet ==
  ASSUME CondTyped, CondClaims, CondDone, NEW w \in Workers, Step(w),
         pc'[w] \notin {"compare", "exec", "busy", "last", "signal"},
         UNCHANGED <<next, done, begun, ended, rc>>
  PROVE  CondClaims' /\ CondDone'
<1>1. /\ UNCHANGED <<call, arg>> /\ (Over' <=> Over)
      /\ \A u \in Workers : u # w => /\ pc'[u] = pc[u]
                                    /\ nti'[u] = nti[u] /\ task'[u] = task[u]
  BY StepFrame
<1>2. \A u \in Workers : (Claims(u)' => Claims(u) /\ u # w) /\ (Ender(u)' => Ender(u) /\ u # w)
                         /\ (pc'[u] = "busy" => pc[u] = "busy" /\ u # w)
  BY <1>1 DEF Claims, Ender, Valid, Last
<1>3. TasksOf(arg)' = TasksOf(arg)
  BY <1>1 DEF TasksOf
<1>4. CondClaims'
  BY <1>1, <1>2, <1>3 DEF CondClaims
<1>5. CondDone'
  BY <1>1, <1>2 DEF CondDone
<1>6. QED
  BY <1>4, <1>5

\* fetch_add() gives an index that nobody else has.
LEMMA ClaimTake ==
  ASSUME CondTyped, CondClaims, CondDone, NEW w \in Workers, Take(w)
  PROVE  CondClaims' /\ CondDone'
<1>1. /\ UNCHANGED <<call, arg>> /\ (Over' <=> Over)
      /\ \A u \in Workers : u # w => /\ pc'[u] = pc[u]
                                    /\ nti'[u] = nti[u] /\ task'[u] = task[u]
  BY StepFrame DEF Step
<1>2. /\ pc'[w] = "compare" /\ nti'[w] = next /\ next' = next + 1 /\ next \in Nat
      /\ UNCHANGED <<done, begun, ended, rc>>
  <2>1. Goto(w, "compare") /\ "compare" \in WorkerPcs
    BY DEF Take, WorkerPcs
  <2>2. pc'[w] = "compare"
    BY <2>1, StepMoves
  <2>3. QED
    BY <2>2 DEF Take, CondTyped, mainVars, histVars
<1>3. \A u \in Workers : u # w => (Claims(u)' <=> Claims(u)) /\ (Ender(u)' <=> Ender(u))
  BY <1>1 DEF Claims, Ender, Valid, Last
<1>4. /\ Claims(w)' => next < arg[2]
      /\ ~Ender(w)'
  BY <1>1, <1>2 DEF Claims, Ender, Valid, CondClaims
<1>5. TasksOf(arg)' = TasksOf(arg)
  BY <1>1 DEF TasksOf
<1>6. \A k \in begun : k[2] < next /\ k[2] \in Nat
  BY DEF CondClaims, CondTyped
<1>7. /\ \A k \in begun : k[2] < next'
      /\ <<arg[1], next>> \notin begun
  BY <1>2, <1>6
<1>8. \A u \in Workers : Claims(u) => nti[u] < next /\ nti[u] < next' /\ nti[u] # next
  <2>1. \A u \in Workers : Claims(u) => nti[u] < next /\ nti[u] \in Nat
    BY DEF CondClaims, CondTyped
  <2>2. QED
    BY <1>2, <2>1
<1>9. \A u \in Workers : Claims(u)' =>
        nti'[u] < next' /\ nti'[u] < arg'[2] /\ <<arg'[1], nti'[u]>> \notin begun'
  <2>1. \A u \in Workers : Claims(u) => nti[u] < arg[2] /\ <<arg[1], nti[u]>> \notin begun
    BY DEF CondClaims
  <2>2. next < next'
    BY <1>2
  <2>3. QED
    BY <1>1, <1>2, <1>3, <1>4, <1>7, <1>8, <2>1, <2>2
<1>10. \A v, u \in Workers : v # u /\ Claims(v)' /\ Claims(u)' => nti'[v] # nti'[u]
  <2>1. \A v, u \in Workers : v # u /\ Claims(v) /\ Claims(u) => nti[v] # nti[u]
    BY DEF CondClaims
  <2>2. QED
    BY <1>1, <1>2, <1>3, <1>8, <2>1
<1>11. CondClaims'
  BY <1>1, <1>2, <1>5, <1>7, <1>9, <1>10 DEF CondClaims
<1>12. CondDone'
  BY <1>1, <1>2, <1>3, <1>4 DEF CondDone
<1>13. QED
  BY <1>11, <1>12

\* A worker with a claim executes the task of its index, which nobody began.
LEMMA ClaimExec ==
  ASSUME CondTyped, CondClaims, CondDone, NEW w \in Workers, Exec(w)
  PROVE  /\ CondClaims' /\ CondDone'
         /\ \E k \in TasksOf(arg) \ begun : begun' = begun \cup {k}
         /\ UNCHANGED ended
<1> DEFINE k == <<arg[1], nti[w]>>
<1>1. /\ UNCHANGED <<call, arg>> /\ (Over' <=> Over)
      /\ \A u \in Workers : u # w => /\ pc'[u] = pc[u]
                                    /\ nti'[u] = nti[u] /\ task'[u] = task[u]
  BY StepFrame DEF Step
<1>2. /\ pc[w] = "exec" /\ pc'[w] = "busy" /\ call = arg /\ task'[w] = k
      /\ begun' = begun \cup {k} /\ UNCHANGED <<next, done, ended, rc, nti>>
  <2>1. Goto(w, "busy") /\ "busy" \in WorkerPcs
    BY DEF Exec, WorkerPcs
  <2>2. pc'[w] = "busy"
    BY <2>1, StepMoves
  <2>3. QED
    BY <2>2 DEF Exec, CondTyped, CondClaims, taskVars, mainVars
<1>3. Claims(w) /\ nti[w] \in Nat /\ arg \in Nat \X Nat
  BY <1>2 DEF Claims, CondTyped
<1>4. nti[w] < next /\ nti[w] < arg[2] /\ k \notin begun
  BY <1>3 DEF CondClaims
<1>5. k \in TasksOf(arg) \ begun
  BY <1>3, <1>4 DEF TasksOf
<1>6. /\ \A u \in Workers : u # w => (Claims(u)' <=> Claims(u)) /\ (Ender(u)' <=> Ender(u))
      /\ ~Claims(w)' /\ ~Ender(w)'
  BY <1>1, <1>2 DEF Claims, Ender, Valid, Last
<1>7. TasksOf(arg)' = TasksOf(arg)
  BY <1>1 DEF TasksOf
<1>8. /\ begun' \subseteq TasksOf(arg) /\ ended' \subseteq begun'
      /\ \A b \in begun' : b[2] < next
  BY <1>2, <1>4, <1>5 DEF CondClaims
<1>9. \A u \in Workers : Claims(u)' =>
        nti'[u] < next' /\ nti'[u] < arg'[2] /\ <<arg'[1], nti'[u]>> \notin begun'
  <2>1. \A u \in Workers : u # w /\ Claims(u) =>
          nti[u] < next /\ nti[u] < arg[2] /\ <<arg[1], nti[u]>> \notin begun /\ nti[u] # nti[w]
    BY <1>3 DEF CondClaims
  <2>2. QED
    BY <1>1, <1>2, <1>6, <2>1
<1>10. \A u \in Workers : pc'[u] = "busy" => task'[u] \in begun' \ ended'
  <2>1. k \notin ended
    BY <1>4 DEF CondClaims
  <2>2. QED
    BY <1>1, <1>2, <2>1 DEF CondClaims
<1>11. \A v, u \in Workers : v # u /\ pc'[v] = "busy" /\ pc'[u] = "busy" => task'[v] # task'[u]
  <2>1. \A u \in Workers : u # w /\ pc[u] = "busy" => task[u] # k
    BY <1>4 DEF CondClaims
  <2>2. QED
    BY <1>1, <1>2, <2>1 DEF CondClaims
<1>12. \A v, u \in Workers : v # u /\ Claims(v)' /\ Claims(u)' => nti'[v] # nti'[u]
  BY <1>2, <1>6 DEF CondClaims
<1>13. CondClaims'
  BY <1>1, <1>2, <1>7, <1>8, <1>9, <1>10, <1>11, <1>12 DEF CondClaims
<1>14. CondDone'
  BY <1>1, <1>2, <1>6 DEF CondDone
<1>15. QED
  BY <1>2, <1>5, <1>13, <1>14

\* As long as a task is executed nobody has ended the last one.
LEMMA BusyNotDone ==
  ASSUME CondTyped, CondClaims, CondDone, NEW w \in Workers, pc[w] = "busy"
  PROVE  /\ done \in Nat /\ done # arg[2] /\ rc = "none" /\ ~Over
         /\ \A u \in Workers : ~Ender(u)
<1>1. task[w] \in begun \ ended /\ begun \subseteq TasksOf(arg)
  BY DEF CondClaims
<1>2. ended # TasksOf(arg)
  BY <1>1
<1>3. done \in Nat /\ done # arg[2]
  BY <1>2, CondTasksFinite DEF CondDone
<1>4. QED
  BY <1>3 DEF CondDone

\* A worker ends its task, and done_cnt counts it.
LEMMA ClaimEnd ==
  ASSUME CondTyped, CondClaims, CondDone, NEW w \in Workers, Done(w)
  PROVE  /\ CondClaims' /\ CondDone'
         /\ \E k \in begun \ ended : ended' = ended \cup {k}
         /\ UNCHANGED begun
<1>1. /\ UNCHANGED <<call, arg>> /\ (Over' <=> Over)
      /\ \A u \in Workers : u # w => /\ pc'[u] = pc[u]
                                    /\ nti'[u] = nti[u] /\ task'[u] = task[u]
  BY StepFrame DEF Step
<1>2. /\ pc[w] = "busy" /\ pc'[w] = "last" /\ nti'[w] = done /\ done' = done + 1
      /\ ended' = ended \cup {task[w]} /\ UNCHANGED <<next, begun, rc>>
  <2>1. Goto(w, "last") /\ "last" \in WorkerPcs
    BY DEF Done, WorkerPcs
  <2>2. pc'[w] = "last"
    BY <2>1, StepMoves
  <2>3. QED
    BY <2>2 DEF Done, CondTyped, mainVars
<1>3. /\ done \in Nat /\ done # arg[2] /\ rc = "none" /\ ~Over
      /\ \A u \in Workers : ~Ender(u)
  BY <1>2, BusyNotDone
<1>4. task[w] \in begun \ ended /\ call = arg
  BY <1>2 DEF CondClaims
<1>5. /\ \A u \in Workers : u # w => (Claims(u)' <=> Claims(u)) /\ ~Ender(u)'
      /\ ~Claims(w)'
  BY <1>1, <1>2, <1>3 DEF Claims, Ender, Valid, Last
<1>6. Ender(w)' => done' = arg[2]
  BY <1>1, <1>2, <1>4 DEF Ender, Last
<1>7. TasksOf(arg)' = TasksOf(arg)
  BY <1>1 DEF TasksOf
<1>8. \A u \in Workers : pc'[u] = "busy" => task'[u] \in begun' \ ended'
  <2>1. \A u \in Workers : u # w /\ pc[u] = "busy" => task[u] \in begun \ ended /\ task[u] # task[w]
    BY <1>2 DEF CondClaims
  <2>2. QED
    BY <1>1, <1>2, <2>1
<1>9. \A v, u \in Workers : v # u /\ pc'[v] = "busy" /\ pc'[u] = "busy" => task'[v] # task'[u]
  BY <1>1, <1>2 DEF CondClaims
<1>10. CondClaims'
  BY <1>1, <1>2, <1>4, <1>5, <1>7, <1>8, <1>9 DEF CondClaims
<1>11. done' = Cardinality(ended')
  <2>1. IsFiniteSet(ended)
    BY CondTasksFinite
  <2>2. Cardinality(ended') = Cardinality(ended) + 1
    BY <1>2, <1>4, <2>1, FS_AddElement
  <2>3. QED
    BY <1>2, <2>2 DEF CondDone
<1>12. CondDone'
  BY <1>1, <1>2, <1>3, <1>5, <1>6, <1>11 DEF CondDone
<1>13. QED
  BY <1>2, <1>4, <1>10, <1>12

\* Where a worker looks at taskN: it claims the task of its index, or has none.
LEMMA ClaimCompare ==
  ASSUME CondTyped, CondClaims, CondDone, NEW w \in Workers, Compare(w)
  PROVE  CondClaims' /\ CondDone'
<1>1. /\ UNCHANGED <<call, arg>> /\ (Over' <=> Over)
      /\ \A u \in Workers : u # w => /\ pc'[u] = pc[u]
                                    /\ nti'[u] = nti[u] /\ task'[u] = task[u]
  BY StepFrame DEF Step
<1>2. pc[w] = "compare" /\ UNCHANGED <<next, done, begun, ended, rc, task>>
  BY DEF Compare, taskVars, mainVars, histVars
<1>3. CASE ~Valid(nti[w])
  <2>1. Goto(w, "selfPause") /\ "selfPause" \in WorkerPcs
    BY <1>3 DEF Compare, WorkerPcs
  <2>2. pc'[w] = "selfPause"
    BY <2>1, StepMoves
  <2>3. QED
    BY <1>2, <2>2, ClaimQuiet DEF Step
<1>4. CASE Valid(nti[w])
  <2>1. Goto(w, "exec") /\ "exec" \in WorkerPcs
    BY <1>4 DEF Compare, WorkerPcs
  <2>2. pc'[w] = "exec"
    BY <2>1, StepMoves
  <2>3. nti'[w] = nti[w]
    BY <1>4 DEF Compare, CondTyped
  <2>4. \A u \in Workers : /\ Claims(u)' <=> Claims(u)
                           /\ Ender(u)' <=> Ender(u)
                           /\ nti'[u] = nti[u] /\ task'[u] = task[u]
                           /\ pc'[u] = "busy" <=> pc[u] = "busy"
    BY <1>1, <1>2, <1>4, <2>2, <2>3 DEF Claims, Ender, Valid, Last
  <2>5. TasksOf(arg)' = TasksOf(arg)
    BY <1>1 DEF TasksOf
  <2>6. CondClaims'
    BY <1>1, <1>2, <2>4, <2>5 DEF CondClaims
  <2>7. CondDone'
    BY <1>1, <1>2, <2>4 DEF CondDone
  <2>8. QED
    BY <2>6, <2>7
<1>5. QED
  BY <1>3, <1>4

\* The worker that ended the last task is to signal.
LEMMA ClaimLast ==
  ASSUME CondTyped, CondClaims, CondDone, NEW w \in Workers, IsLast(w)
  PROVE  CondClaims' /\ CondDone'
<1>1. /\ UNCHANGED <<call, arg>> /\ (Over' <=> Over)
      /\ \A u \in Workers : u # w => /\ pc'[u] = pc[u]
                                    /\ nti'[u] = nti[u] /\ task'[u] = task[u]
  BY StepFrame DEF Step
<1>2. pc[w] = "last" /\ UNCHANGED <<next, done, begun, ended, rc, task>>
  BY DEF IsLast, taskVars, mainVars, histVars
<1>3. CASE ~Last(w)
  <2>1. Goto(w, "ran") /\ "ran" \in WorkerPcs
    BY <1>3 DEF IsLast, WorkerPcs
  <2>2. pc'[w] = "ran"
    BY <2>1, StepMoves
  <2>3. QED
    BY <1>2, <2>2, ClaimQuiet DEF Step
<1>4. CASE Last(w)
  <2>1. Goto(w, "signal") /\ "signal" \in WorkerPcs
    BY <1>4 DEF IsLast, WorkerPcs
  <2>2. pc'[w] = "signal"
    BY <2>1, StepMoves
  <2>3. \A u \in Workers : /\ Claims(u)' <=> Claims(u)
                           /\ Ender(u)' <=> Ender(u)
                           /\ Claims(u) => u # w /\ nti'[u] = nti[u]
                           /\ task'[u] = task[u]
                           /\ pc'[u] = "busy" <=> pc[u] = "busy"
    BY <1>1, <1>2, <1>4, <2>2 DEF Claims, Ender, Valid, Last
  <2>4. TasksOf(arg)' = TasksOf(arg)
    BY <1>1 DEF TasksOf
  <2>5. CondClaims'
    BY <1>1, <1>2, <2>3, <2>4 DEF CondClaims
  <2>6. CondDone'
    BY <1>1, <1>2, <2>3 DEF CondDone
  <2>7. QED
    BY <2>5, <2>6
<1>5. QED
  BY <1>3, <1>4

\* It signals once, and run() is then waiting.
LEMMA ClaimSignal ==
  ASSUME CondTyped, CondClaims, CondDone, NEW w \in Workers, Signal(w)
  PROVE  CondClaims' /\ CondDone'
<1>1. /\ UNCHANGED <<call, arg>> /\ (Over' <=> Over)
      /\ \A u \in Workers : u # w => /\ pc'[u] = pc[u]
                                    /\ nti'[u] = nti[u] /\ task'[u] = task[u]
  BY StepFrame DEF Step
<1>2. /\ pc[w] = "signal" /\ pc'[w] = "selfPause"
      /\ UNCHANGED <<next, done, begun, ended, nti, task>>
  <2>1. Goto(w, "selfPause") /\ "selfPause" \in WorkerPcs
    BY DEF Signal, WorkerPcs
  <2>2. pc'[w] = "selfPause"
    BY <2>1, StepMoves
  <2>3. QED
    BY <2>2 DEF Signal, taskVars, localVars, histVars
<1>3. /\ done = arg[2] /\ rc = "none" /\ ~Over
      /\ \A u \in Workers : Ender(u) => u = w
  BY <1>2 DEF CondDone, Ender
<1>4. \A u \in Workers : /\ Claims(u)' <=> Claims(u)
                         /\ ~Ender(u)'
                         /\ pc'[u] = "busy" <=> pc[u] = "busy"
  BY <1>1, <1>2, <1>3 DEF Claims, Ender, Valid, Last
<1>5. TasksOf(arg)' = TasksOf(arg)
  BY <1>1 DEF TasksOf
<1>6. CondClaims'
  BY <1>1, <1>2, <1>4, <1>5 DEF CondClaims
<1>7. CondDone'
  BY <1>1, <1>2, <1>3, <1>4 DEF CondDone
<1>8. QED
  BY <1>6, <1>7

\* The other steps of a worker have nothing to do with tasks.
LEMMA ClaimIdle ==
  ASSUME CondTyped, CondClaims, CondDone, NEW w \in Workers,
         Wait(w) \/ Start(w) \/ SelfPause(w) \/ Ran(w) \/ Pausing(w) \/ Clear(w)
  PROVE  CondClaims' /\ CondDone' /\ UNCHANGED <<begun, ended>>
<1>1. UNCHANGED <<next, done, begun, ended, rc>>
  BY DEF Wait, Start, SelfPause, Ran, Pausing, Clear, taskVars, mainVars,
     histVars
<1>2. \E l \in {"start", "exited", "take", "ran", "pausing", "clear", "wait"} : Goto(w, l)
  BY DEF Wait, Start, SelfPause, Ran, Pausing, Clear
<1>3. pc'[w] \notin {"compare", "exec", "busy", "last", "signal"}
  <2>1. PICK l \in {"start", "exited", "take", "ran", "pausing", "clear", "wait"} : Goto(w, l)
    BY <1>2
  <2>2. l \in WorkerPcs
    BY DEF WorkerPcs
  <2>3. pc'[w] = l
    BY <2>1, <2>2, StepMoves
  <2>4. QED
    BY <2>1, <2>3
<1>4. Step(w)
  BY DEF Step
<1>5. QED
  BY <1>1, <1>3, <1>4, ClaimQuiet

\* A step of a worker keeps what holds of a settled run.
LEMMA RunStep ==
  ASSUME CondTyped, CondRun, NEW w \in Workers, Step(w)
  PROVE  CondRun'
<1> SUFFICES ASSUME settled' PROVE PrepInv' /\ (~Preparing' => CondClaims' /\ CondDone') /\ JoinInv'
  BY DEF CondRun
<1>1. settled /\ (Preparing' <=> Preparing)
  BY StepFrame
<1>2. ~Preparing /\ CondClaims /\ CondDone /\ JoinInv
  BY <1>1, StepPrep DEF CondRun
<1>3. PrepInv'
  BY <1>1, <1>2 DEF PrepInv
<1>4. JoinInv'
  BY <1>2, JoinStep
<1>5. CondClaims' /\ CondDone'
  <2>1. CASE Take(w) \/ Compare(w) \/ Exec(w)
    BY <1>2, <2>1, ClaimTake, ClaimCompare, ClaimExec
  <2>2. CASE Done(w) \/ IsLast(w) \/ Signal(w)
    BY <1>2, <2>2, ClaimEnd, ClaimLast, ClaimSignal
  <2>3. CASE Wait(w) \/ Start(w) \/ SelfPause(w) \/ Ran(w) \/ Pausing(w) \/ Clear(w)
    BY <1>2, <2>3, ClaimIdle
  <2>4. QED
    BY <2>1, <2>2, <2>3 DEF Step
<1>6. QED
  BY <1>3, <1>4, <1>5

\* A step of run() or destroy() moves no worker.
LEMMA MainFrame ==
  ASSUME CondTyped, MainStep
  PROVE  /\ \A w \in Workers : pc'[w] = pc[w]
         /\ UNCHANGED <<nti, task>>
<1>1. UNCHANGED <<nti, task>>
  BY DEF MainStep, Run, Destroy, EndWait, InRun, InDestroy, SetTasks, SetTaskN,
     ResetDone, ResetNext, Wake, Unpause, Block, Awake, Exit, Join, JoinTimeOut, localVars
<1>2. UNCHANGED pc \/ \E l \in MainPcs : Goto(Main, l)
  <2>1. CASE Destroy \/ InDestroy
    BY <2>1 DEF Destroy, InDestroy, Exit, Join, JoinTimeOut, MainPcs
  <2>2. CASE (\E c \in Calls : Run(c)) \/ \E r \in Wakes : EndWait(r)
    BY <2>2 DEF Run, EndWait, MainPcs
  <2>3. CASE SetTasks \/ SetTaskN \/ ResetDone \/ ResetNext
    BY <2>3 DEF SetTasks, SetTaskN, ResetDone, ResetNext, MainPcs
  <2>4. CASE Wake \/ Unpause \/ Block \/ Awake
    BY <2>4 DEF Wake, Unpause, Block, Awake, MainPcs
  <2>5. QED
    BY <2>1, <2>2, <2>3, <2>4 DEF MainStep, InRun
<1>3. \A w \in Workers : pc'[w] = pc[w]
  BY <1>2, MainGoes
<1>4. QED
  BY <1>1, <1>3

LEMMA FlagMain ==
  ASSUME CondTyped, FlagInv, MainStep
  PROVE  FlagInv'
<1>1. \A w \in Workers : pc'[w] = pc[w]
  BY MainFrame
<1>2. /\ flags \in [Workers -> {"none", "run", "pause", "exit"}]
      /\ pc \in [CondThreads -> WorkerPcs \cup MainPcs] /\ Main \in CondThreads
  BY CondIs DEF CondTyped
<1>3. CASE Unpause
  <2>1. flags' = [flags EXCEPT ![wi] = "run"] /\ ~Leaving
    BY <1>3 DEF Unpause, Leaving
  <2>2. \A w \in Workers : flags[w] # "exit" /\ pc[w] # "exited"
    BY <2>1 DEF FlagInv
  <2>3. QED
    BY <1>1, <1>2, <2>1, <2>2 DEF FlagInv
<1>4. CASE Exit
  <2>1. /\ flags' = flags \/ flags' = [flags EXCEPT ![wi] = "exit"]
        /\ Goto(Main, "join") \/ Goto(Main, "gone")
    BY <1>4 DEF Exit
  <2>2. Leaving'
    BY <2>1, MainGoes DEF Leaving, MainPcs
  <2>3. QED
    BY <1>1, <1>2, <2>1, <2>2 DEF FlagInv
<1>5. CASE ~Unpause /\ ~Exit
  <2>1. flags' = flags
    BY <1>5 DEF MainStep, Run, Destroy, EndWait, InRun, InDestroy, SetTasks,
       SetTaskN, ResetDone, ResetNext, Wake, Block, Awake, Join, JoinTimeOut, workVars
  <2>2. CASE ~Leaving
    <3>1. \A w \in Workers : flags[w] # "exit" /\ pc[w] # "exited"
      BY <2>2 DEF FlagInv
    <3>2. QED
      BY <1>1, <2>1, <3>1 DEF FlagInv
  <2>3. CASE Leaving
    <3>1. Join \/ JoinTimeOut
      BY <1>5, <2>3 DEF Leaving, MainStep, Run, Destroy, EndWait, InRun, InDestroy,
         SetTasks, SetTaskN, ResetDone, ResetNext, Wake, Block, Awake
    <3>2. Goto(Main, "exit")
      BY <3>1 DEF Join, JoinTimeOut
    <3>3. Leaving'
      BY <3>2, MainGoes DEF Leaving, MainPcs
    <3>4. QED
      BY <1>1, <2>1, <3>3 DEF FlagInv
  <2>4. QED
    BY <2>2, <2>3
<1>6. QED
  BY <1>3, <1>4, <1>5

\* run() goes on, or returns when it has been signalled.
LEMMA ClaimMain ==
  ASSUME CondTyped, CondClaims, CondDone, MainStep,
         UNCHANGED <<call, arg, next, done, begun, ended, rc>>, Over' => Over \/ rc # "none"
  PROVE  CondClaims' /\ CondDone'
<1>1. /\ \A w \in Workers : pc'[w] = pc[w]
      /\ UNCHANGED <<nti, task>>
  BY MainFrame
<1>2. \A w \in Workers : (Claims(w)' <=> Claims(w)) /\ (Ender(w)' <=> Ender(w))
  BY <1>1 DEF Claims, Ender, Valid, Last
<1>3. TasksOf(arg)' = TasksOf(arg)
  BY DEF TasksOf
<1>4. CondClaims'
  BY <1>1, <1>2, <1>3 DEF CondClaims
<1>5. CondDone'
  BY <1>1, <1>2 DEF CondDone
<1>6. QED
  BY <1>4, <1>5

\* run() is called: what it prepares is settled if all workers are at rest.
LEMMA RunBegins ==
  ASSUME CondTyped, NEW c \in Calls, Run(c)
  PROVE  CondRun'
<1>1. /\ rc' = "none" /\ begun' = {} /\ ended' = {} /\ flags' = flags
      /\ settled' = \A w \in Workers : AtRest(w)
      /\ Goto(Main, "setTasks")
  BY DEF Run, workVars
<1>2. /\ pc'[Main] = "setTasks"
      /\ \A w \in Workers : pc'[w] = pc[w]
  BY <1>1, MainGoes DEF MainPcs
<1>3. settled' => PrepInv'
  BY <1>1, <1>2 DEF PrepInv, AtRest
<1>4. Preparing' /\ JoinInv'
  BY <1>2 DEF Preparing, JoinInv, Leaving
<1>5. QED
  BY <1>3, <1>4 DEF CondRun

LEMMA RunPrepares ==
  ASSUME CondTyped, PrepInv,
         SetTasks \/ SetTaskN \/ ResetDone
  PROVE  PrepInv' /\ Preparing' /\ JoinInv'
<1>1. /\ UNCHANGED <<flags, begun, ended, rc, arg>>
      /\ MainStep
  BY DEF SetTasks, SetTaskN, ResetDone, workVars, histVars, mainVars, MainStep, InRun
<1>2. \A w \in Workers : pc'[w] = pc[w]
  BY <1>1, MainFrame
<1>3. Preparing
  BY DEF Preparing, SetTasks, SetTaskN, ResetDone
<1>4. \A w \in Workers : AtRest(w)'
  BY <1>1, <1>2, <1>3 DEF PrepInv, AtRest
<1>5. /\ pc'[Main] \in {"setTaskN", "resetDone", "resetNext"}
      /\ call'[1] = arg[1]
      /\ pc'[Main] # "setTaskN" => call' = arg
      /\ pc'[Main] = "resetNext" => done' = 0
  <2>1. CASE SetTasks
    <3>1. pc'[Main] = "setTaskN"
      BY <2>1, MainGoes DEF SetTasks, MainPcs
    <3>2. QED
      BY <2>1, <3>1 DEF SetTasks, CondTyped
  <2>2. CASE SetTaskN
    <3>1. pc'[Main] = "resetDone"
      BY <2>2, MainGoes DEF SetTaskN, MainPcs
    <3>2. call[1] = arg[1] /\ call' = [call EXCEPT ![2] = arg[2]]
      BY <1>3, <2>2 DEF PrepInv, SetTaskN
    <3>3. call' = arg
      BY <3>2 DEF CondTyped
    <3>4. QED
      BY <3>1, <3>3
  <2>3. CASE ResetDone
    <3>1. pc'[Main] = "resetNext"
      BY <2>3, MainGoes DEF ResetDone, MainPcs
    <3>2. QED
      BY <1>3, <2>3, <3>1 DEF PrepInv, ResetDone, ZeroDone
  <2>4. QED
    BY <2>1, <2>2, <2>3
<1>6. PrepInv'
  BY <1>1, <1>3, <1>4, <1>5 DEF PrepInv
<1>7. QED
  BY <1>5, <1>6 DEF Preparing, JoinInv, Leaving

\* The run is prepared, and no worker has seen anything of it.
LEMMA RunPrepared ==
  ASSUME CondTyped, PrepInv, ResetNext
  PROVE  PrepInv' /\ CondClaims' /\ CondDone' /\ JoinInv'
<1>1. /\ UNCHANGED <<call, done, begun, ended, rc, arg>>
      /\ MainStep
  BY DEF ResetNext, workVars, histVars, mainVars, MainStep, InRun
<1>2. \A w \in Workers : pc'[w] = pc[w]
  BY <1>1, MainFrame
<1>3. pc'[Main] = "wake"
  BY MainGoes DEF ResetNext, MainPcs
<1>4. /\ \A w \in Workers : pc[w] = "wait"
      /\ begun = {} /\ ended = {} /\ rc = "none" /\ call = arg /\ done = 0
  BY DEF PrepInv, Preparing, AtRest, ResetNext
<1>5. \A w \in Workers : ~Claims(w)' /\ ~Ender(w)' /\ pc'[w] # "busy"
  BY <1>2, <1>4 DEF Claims, Ender
<1>6. CondClaims'
  BY <1>1, <1>4, <1>5 DEF CondClaims
<1>7. CondDone'
  <2>1. Cardinality({}) = 0
    BY FS_EmptySet
  <2>2. QED
    BY <1>1, <1>3, <1>4, <1>5, <2>1 DEF CondDone, Over, Leaving
<1>8. QED
  BY <1>3, <1>6, <1>7 DEF PrepInv, JoinInv, Preparing, Leaving

LEMMA RunGoesOn ==
  ASSUME CondTyped, CondRun, Wake \/ Unpause \/ Block \/ Awake
  PROVE  CondRun'
<1>1. /\ pc[Main] \in {"wake", "unpause", "block", "blocked"} /\ MainStep
      /\ UNCHANGED <<call, arg, next, done, begun, ended, rc, settled>>
  BY DEF Wake, Unpause, Block, Awake, taskVars, mainVars, histVars, MainStep,
     InRun
<1>2. /\ pc'[Main] \in {"wake", "unpause", "block", "blocked", "idle"}
      /\ pc'[Main] = "idle" => rc # "none"
  <2>1. CASE Wake
    <3>1. pc' = pc \/ Goto(Main, "unpause") \/ Goto(Main, "block")
      BY <2>1 DEF Wake
    <3>2. QED
      BY <1>1, <3>1, MainGoes DEF MainPcs
  <2>2. CASE Unpause
    BY <2>2, MainGoes DEF Unpause, MainPcs
  <2>3. CASE Block
    BY <2>3, MainGoes DEF Block, MainPcs
  <2>4. CASE Awake
    BY <2>4, MainGoes DEF Awake, MainPcs
  <2>5. QED
    BY <2>1, <2>2, <2>3, <2>4
<1>3. ~Preparing /\ ~Preparing' /\ ~Leaving' /\ (Over' => Over \/ rc # "none")
  BY <1>1, <1>2 DEF Preparing, Leaving, Over
<1>4. settled => CondClaims' /\ CondDone'
  BY <1>1, <1>3, ClaimMain DEF CondRun
<1>5. PrepInv' /\ JoinInv'
  BY <1>2, <1>3 DEF PrepInv, JoinInv, Leaving
<1>6. QED
  BY <1>1, <1>4, <1>5 DEF CondRun

\* destroy() finds each worker out of its callback, unless a wait ran out.
LEMMA RunLeaves ==
  ASSUME CondTyped, FlagInv, CondRun, Destroy \/ InDestroy
  PROVE  CondRun'
<1>1. /\ Over /\ ~Preparing /\ MainStep
      /\ UNCHANGED <<call, arg, next, done, begun, ended, rc, settled>>
  BY DEF Destroy, InDestroy, Exit, Join, JoinTimeOut, taskVars, mainVars, histVars, MainStep,
     Over, Preparing, Leaving
<1>2. /\ \A w \in Workers : pc'[w] = pc[w]
      /\ pc'[Main] \in {"exit", "join", "gone"}
  <2>1. Goto(Main, "exit") \/ Goto(Main, "join") \/ Goto(Main, "gone")
    BY DEF Destroy, InDestroy, Exit, Join, JoinTimeOut
  <2>2. QED
    BY <2>1, MainGoes DEF MainPcs
<1>3. settled => CondClaims /\ CondDone /\ CondClaims' /\ CondDone'
  BY <1>1, ClaimMain DEF CondRun
<1>4. PrepInv' /\ ~Preparing'
  BY <1>2 DEF PrepInv, Preparing
<1>5. ASSUME settled PROVE JoinInv'
  <2>1. JoinInv /\ \A w \in Workers : pc[w] # "signal"
    BY <1>1, <1>3, <1>5 DEF CondRun, CondDone, Ender
  <2>2. /\ ThreadN \in Nat /\ Workers = 1 .. ThreadN /\ wi \in 1 .. (ThreadN + 1)
        /\ flags \in [Workers -> {"none", "run", "pause", "exit"}]
    BY CondIs DEF CondTyped
  <2>3. CASE Destroy
    <3>1. wi' = 1 /\ pc'[Main] = "exit"
      BY <2>3, MainGoes DEF Destroy, MainPcs
    <3>2. \A w \in Workers : ~(w < wi')
      BY <2>2, <3>1
    <3>3. QED
      BY <3>1, <3>2 DEF JoinInv
  <2>4. CASE Exit
    <3>1. /\ wi' = wi /\ Leaving /\ slow' = slow
          /\ \A w \in Workers : w < wi => flags'[w] = flags[w]
      BY <2>2, <2>4 DEF Exit, mainVars, histVars, Leaving
    <3>2. pc'[Main] = "gone" => wi > ThreadN
      <4>1. CASE MoreWorkers
        BY <2>4, <4>1, MainGoes DEF Exit, MainPcs
      <4>2. CASE ~MoreWorkers
        BY <2>2, <4>2 DEF MoreWorkers
      <4>3. QED
        BY <4>1, <4>2
    <3>3. QED
      BY <1>2, <2>1, <3>1, <3>2 DEF JoinInv
  <2>5. CASE Join
    <3>1. wi' = wi + 1 /\ flags' = flags /\ pc[Main] = "join" /\ pc[wi] = "exited"
          /\ slow' = slow
      BY <2>5 DEF Join, HasExited, workVars, histVars
    <3>2. wi \in Workers
      BY <3>1 DEF CondTyped
    <3>4. \A w \in Workers : w < wi' => w < wi \/ w = wi
      BY <2>2, <3>1
    <3>5. Leaving /\ pc'[Main] = "exit"
      BY <2>5, <3>1, MainGoes DEF Leaving, Join, MainPcs
    <3>6. QED
      BY <1>2, <2>1, <3>1, <3>4, <3>5 DEF JoinInv
  <2>6. CASE JoinTimeOut
    <3>1. wi' = wi + 1 /\ flags' = flags /\ pc[Main] = "join"
          /\ slow' = (slow \/ ~AtRest(wi))
      BY <2>6 DEF JoinTimeOut, workVars
    <3>2. wi \in Workers
      BY <3>1 DEF CondTyped
    <3>3. ~slow' => ~slow /\ pc[wi] = "wait" /\ flags[wi] = "none"
      BY <3>1 DEF AtRest
    <3>4. \A w \in Workers : w < wi' => w < wi \/ w = wi
      BY <2>2, <3>1
    <3>5. Leaving /\ pc'[Main] = "exit"
      BY <2>6, <3>1, MainGoes DEF Leaving, JoinTimeOut, MainPcs
    <3>6. QED
      BY <1>2, <2>1, <3>1, <3>3, <3>4, <3>5 DEF JoinInv
  <2>7. QED
    BY <2>3, <2>4, <2>5, <2>6 DEF InDestroy
<1>6. QED
  BY <1>1, <1>3, <1>4, <1>5 DEF CondRun

CondInv == CondTyped /\ FlagInv /\ CondRun

LEMMA CondInvInit == Init => CondInv
  BY CondTypeInit, CondTypedIs, CondInit DEF CondInv

LEMMA RunMain ==
  ASSUME CondTyped, FlagInv, CondRun, MainStep
  PROVE  CondRun'
<1>1. ASSUME NEW c \in Calls, Run(c) PROVE CondRun'
  BY <1>1, RunBegins
<1>2. CASE SetTasks \/ SetTaskN \/ ResetDone
  <2>1. settled' = settled /\ Preparing
    BY <1>2 DEF SetTasks, SetTaskN, ResetDone, histVars, Preparing
  <2>2. settled => PrepInv' /\ Preparing' /\ JoinInv'
    BY <1>2, RunPrepares DEF CondRun
  <2>3. QED
    BY <2>1, <2>2 DEF CondRun
<1>3. CASE ResetNext
  <2>1. settled' = settled
    BY <1>3 DEF ResetNext, histVars
  <2>2. settled => PrepInv' /\ CondClaims' /\ CondDone' /\ JoinInv'
    BY <1>3, RunPrepared DEF CondRun
  <2>3. QED
    BY <2>1, <2>2 DEF CondRun
<1>4. CASE Wake \/ Unpause \/ Block \/ Awake
  BY <1>4, RunGoesOn
<1>5. CASE \E r \in Wakes : EndWait(r)
  BY <1>5 DEF EndWait, CondRun
<1>6. CASE Destroy \/ InDestroy
  BY <1>6, RunLeaves
<1>7. QED
  BY <1>1, <1>2, <1>3, <1>4, <1>5, <1>6 DEF MainStep, InRun

LEMMA CondInvNext ==
  ASSUME CondInv, [Next]_vars
  PROVE  CondInv'
<1>1. CondTyped /\ FlagInv /\ CondRun /\ CondTyped'
  BY CondTypeNext DEF CondInv
<1>2. ASSUME NEW w \in Workers, Step(w) PROVE FlagInv' /\ CondRun'
  BY <1>1, <1>2, FlagStep, RunStep
<1>3. ASSUME MainStep PROVE FlagInv' /\ CondRun'
  BY <1>1, <1>3, FlagMain, RunMain
<1>4. ASSUME UNCHANGED vars PROVE FlagInv' /\ CondRun'
  <2>1. UNCHANGED <<call, next, done, flags, pc, nti, task, arg, wi, rc, begun, ended, settled, slow>>
    BY <1>4 DEF vars, taskVars, workVars, localVars, mainVars, histVars
  <2>2. FlagInv'
    BY <1>1, <2>1 DEF FlagInv, Leaving
  <2>3. PrepInv' <=> PrepInv
    BY <2>1 DEF PrepInv, Preparing, AtRest
  <2>4. (JoinInv' <=> JoinInv) /\ (Preparing' <=> Preparing)
    BY <2>1 DEF JoinInv, Leaving, Preparing
  <2>5. CondClaims' <=> CondClaims
    BY <2>1 DEF CondClaims, Claims, Valid, TasksOf
  <2>6. CondDone' <=> CondDone
    BY <2>1 DEF CondDone, Ender, Last, Over, Leaving
  <2>7. QED
    BY <1>1, <2>1, <2>2, <2>3, <2>4, <2>5, <2>6 DEF CondRun
<1>5. FlagInv' /\ CondRun'
  BY <1>2, <1>3, <1>4 DEF Next, MainStep
<1>6. QED
  BY <1>1, <1>5 DEF CondInv

\* When destroy() follows a settled run no worker has a task left or has to
\* signal; when the pool is released none is in its callback, or can get there,
\* unless a wait of destroy() ran out before the worker was at rest.
THEOREM DestroyAlwaysSafe == Spec => []DestroyIsSafe
<1>1. Init => CondInv
  BY CondInvInit
<1>2. CondInv /\ [Next]_vars => CondInv'
  BY CondInvNext
<1>3. CondInv => DestroyIsSafe
  <2> SUFFICES ASSUME CondInv, settled, Leaving, NEW w \in Workers
               PROVE  /\ pc[w] \notin {"exec", "busy", "signal"}
                      /\ pc[Main] = "gone" /\ ~slow =>
                           pc[w] \in {"exited", "wait"} /\ flags[w] # "run"
    BY DEF DestroyIsSafe
  <2>1. CondTyped /\ JoinInv /\ FlagInv /\ CondClaims /\ CondDone /\ Over
    BY DEF CondInv, CondRun, Leaving, Preparing, Over
  <2>2. ended = TasksOf(arg) /\ begun = TasksOf(arg) /\ arg \in Nat \X Nat /\ nti[w] \in Nat
    <3>1. done = arg[2] /\ done = Cardinality(ended)
      BY <2>1 DEF CondDone
    <3>2. ended = TasksOf(arg)
      BY <2>1, <3>1, CondTasksFinite
    <3>3. QED
      BY <2>1, <3>2 DEF CondClaims, CondTyped
  <2>3. pc[w] # "exec"
    <3>1. SUFFICES ASSUME pc[w] = "exec" PROVE FALSE
      OBVIOUS
    <3>2. nti[w] < arg[2] /\ <<arg[1], nti[w]>> \notin begun
      BY <2>1, <3>1 DEF CondClaims, Claims
    <3>3. nti[w] \in 0 .. (arg[2] - 1)
      BY <2>2, <3>2
    <3>4. QED
      BY <2>2, <3>2, <3>3 DEF TasksOf
  <2>4. pc[w] # "busy" /\ pc[w] # "signal"
    BY <2>1, <2>2 DEF CondClaims, CondDone, Ender
  <2>5. ASSUME pc[Main] = "gone", ~slow
        PROVE  pc[w] \in {"exited", "wait"} /\ flags[w] # "run"
    <3>1. w < wi
      BY <2>1, <2>5, CondIs DEF JoinInv, CondTyped
    <3>2. pc[w] = "exited" \/ (pc[w] = "wait" /\ flags[w] = "none")
      BY <2>1, <2>5, <3>1 DEF JoinInv
    <3>3. QED
      BY <2>1, <3>2 DEF FlagInv
  <2>6. QED
    BY <2>3, <2>4, <2>5
<1>4. QED
  BY <1>1, <1>2, <1>3, PTL DEF Spec

(***************************************************************************)
(* A settled run implements the abstract one: the call of run() is its     *)
(* Run, the call of a task its Begin, done_cnt.fetch_add() its End and the *)
(* return of the wait, which looks at no count, its Return.                *)
(***************************************************************************)
CondSimulated == settled' => Abstract!Next \/ UNCHANGED Abstract!vars

LEMMA CondSimStep ==
  ASSUME CondInv, NEW w \in Workers, Step(w)
  PROVE  CondSimulated
<1> SUFFICES ASSUME settled' PROVE Abstract!Next \/ UNCHANGED Abstract!vars
  BY DEF CondSimulated
<1>1. /\ UNCHANGED <<arg, settled>> /\ pc'[Main] = pc[Main]
      /\ CondTyped /\ CondRun /\ ~Preparing
  BY StepFrame, StepPrep DEF CondInv, CondRun
<1>2. (Calling' <=> Calling) /\ TasksOf(arg)' = TasksOf(arg)
  BY <1>1 DEF Calling, TasksOf
<1>3. CondClaims /\ CondDone
  BY <1>1 DEF CondRun
<1>4. ~Over => Calling
  BY <1>1 DEF Over, Leaving, Calling, CondTyped, MainPcs
<1>5. CASE Exec(w)
  <2>1. PICK k \in TasksOf(arg) \ begun : begun' = begun \cup {k} /\ UNCHANGED ended
    BY <1>1, <1>3, <1>5, ClaimExec
  <2>2. Calling
    <3>1. done # arg[2]
      <4>1. k \notin ended
        BY <1>3, <2>1 DEF CondClaims
      <4>2. QED
        BY <1>1, <1>3, <2>1, <4>1, CondTasksFinite DEF CondDone
    <3>2. QED
      BY <1>3, <1>4, <3>1 DEF CondDone
  <2>3. Abstract!Begin
    BY <1>2, <2>1, <2>2 DEF Abstract!Begin
  <2>4. QED
    BY <2>3 DEF Abstract!Next
<1>6. CASE Done(w)
  <2>1. PICK k \in begun \ ended : ended' = ended \cup {k} /\ UNCHANGED begun
    BY <1>1, <1>3, <1>6, ClaimEnd
  <2>2. Calling
    BY <1>1, <1>3, <1>4, <1>6, BusyNotDone DEF Done
  <2>3. Abstract!End
    BY <1>2, <2>1, <2>2 DEF Abstract!End
  <2>4. QED
    BY <2>3 DEF Abstract!Next
<1>7. CASE ~Exec(w) /\ ~Done(w)
  <2>1. UNCHANGED <<begun, ended>>
    BY <1>7 DEF Step, Wait, Start, Take, Compare, IsLast, Signal, SelfPause,
       Ran, Pausing, Clear, histVars
  <2>2. QED
    BY <1>2, <2>1 DEF Abstract!vars
<1>8. QED
  BY <1>5, <1>6, <1>7

LEMMA CondSimMain ==
  ASSUME CondInv, MainStep
  PROVE  CondSimulated
<1> SUFFICES ASSUME settled' PROVE Abstract!Next \/ UNCHANGED Abstract!vars
  BY DEF CondSimulated
<1>1. CondTyped /\ CondRun
  BY DEF CondInv
<1>2. ASSUME NEW c \in Calls, Run(c) PROVE Abstract!Run
  <2>1. pc'[Main] = "setTasks" /\ pc[Main] = "idle" /\ arg' = c /\ begun' = {} /\ ended' = {}
    BY <1>1, <1>2, MainGoes DEF Run, MainPcs
  <2>2. ~Calling /\ Calling'
    BY <2>1 DEF Calling
  <2>3. TasksOf(arg)' \in SUBSET UNION { TasksOf(d) : d \in Calls }
    BY <2>1 DEF TasksOf
  <2>4. QED
    BY <2>1, <2>2, <2>3 DEF Abstract!Run
<1>3. ASSUME UNCHANGED <<arg, begun, ended>>, Calling' <=> Calling
      PROVE  UNCHANGED Abstract!vars
  BY <1>3, ZenonT(60) DEF Abstract!vars, TasksOf
<1>4. CASE SetTasks \/ SetTaskN \/ ResetDone \/ ResetNext
  <2>1. UNCHANGED <<arg, begun, ended>> /\ Calling
    BY <1>4 DEF SetTasks, SetTaskN, ResetDone, ResetNext, mainVars, histVars, Calling
  <2>2. pc'[Main] \in {"setTaskN", "resetDone", "resetNext", "wake"}
    BY <1>1, <1>4, MainGoes DEF SetTasks, SetTaskN, ResetDone, ResetNext, MainPcs
  <2>3. Calling'
    BY <2>2 DEF Calling
  <2>4. QED
    BY <1>3, <2>1, <2>3
<1>5. CASE Wake \/ Unpause \/ Block
  <2>1. UNCHANGED <<arg, begun, ended>> /\ Calling
    BY <1>5 DEF Wake, Unpause, Block, mainVars, histVars, Calling
  <2>2. pc'[Main] \in {"wake", "unpause", "block", "blocked"}
    <3>1. CASE Wake
      <4>1. (pc' = pc /\ pc[Main] = "wake") \/ Goto(Main, "unpause") \/ Goto(Main, "block")
        BY <3>1 DEF Wake
      <4>2. QED
        BY <1>1, <4>1, MainGoes DEF MainPcs
    <3>2. CASE Unpause \/ Block
      BY <1>1, <3>2, MainGoes DEF Unpause, Block, MainPcs
    <3>3. QED
      BY <1>5, <3>1, <3>2
  <2>3. Calling'
    BY <2>2 DEF Calling
  <2>4. QED
    BY <1>3, <2>1, <2>3
<1>6. CASE Awake
  <2>1. /\ pc[Main] = "blocked" /\ pc'[Main] = "idle" /\ rc # "none"
        /\ UNCHANGED <<arg, begun, ended, settled>>
    BY <1>1, <1>6, MainGoes DEF Awake, MainPcs, mainVars, histVars
  <2>2. Calling /\ ~Calling' /\ ~Preparing /\ settled
    BY <2>1 DEF Calling, Preparing
  <2>3. CondClaims /\ CondDone
    BY <1>1, <2>2 DEF CondRun
  <2>4. ended = TasksOf(arg)
    BY <1>1, <2>1, <2>3, CondTasksFinite DEF CondDone
  <2>5. Abstract!Return
    BY <2>1, <2>2, <2>4 DEF Abstract!Return, TasksOf
  <2>6. QED
    BY <2>5 DEF Abstract!Next
<1>7. CASE Destroy \/ InDestroy
  <2>1. UNCHANGED <<arg, begun, ended>> /\ ~Calling
    BY <1>7 DEF Destroy, InDestroy, Exit, Join, JoinTimeOut, mainVars, histVars, Calling
  <2>2. pc'[Main] \in {"exit", "join", "gone"}
    <3>1. Goto(Main, "exit") \/ Goto(Main, "join") \/ Goto(Main, "gone")
      BY <1>7 DEF Destroy, InDestroy, Exit, Join, JoinTimeOut
    <3>2. QED
      BY <1>1, <3>1, MainGoes DEF MainPcs
  <2>3. ~Calling'
    BY <2>2 DEF Calling
  <2>4. QED
    BY <1>3, <2>1, <2>3
<1>8. ~(\E r \in Wakes : EndWait(r))
  BY DEF EndWait
<1>9. QED
  BY <1>2, <1>4, <1>5, <1>6, <1>7, <1>8 DEF MainStep, InRun, Abstract!Next

LEMMA CondSimInit ==
  ASSUME Init
  PROVE  Abstract!Init
<1>1. TasksOf(NoCall) = {}
  BY DEF TasksOf, NoCall
<1>2. pc[Main] = "idle" /\ arg = NoCall /\ begun = {} /\ ended = {}
  BY CondIs DEF Init, CondThreads
<1>3. QED
  BY <1>1, <1>2 DEF Abstract!Init, Calling

\* A run that finds all workers at rest and is not given up executes each of its
\* tasks once, and returns after all of them although it never looks at done_cnt,
\* for any number of workers and tasks and whatever happened in the runs before.
THEOREM CondTasksOnce == Spec => ImplementsTaskRun
<1>1. Init => CondInv /\ Abstract!Init
  BY CondInvInit, CondSimInit
<1>2. CondInv /\ [Next]_vars => CondInv'
  BY CondInvNext
<1>3. CondInv /\ [Next]_vars => [CondSimulated]_vars
  BY CondSimStep, CondSimMain DEF Next, MainStep
<1>4. Spec => Abstract!Init /\ [][CondSimulated]_vars
  BY <1>1, <1>2, <1>3, PTL DEF Spec
<1>5. QED
  BY <1>4 DEF ImplementsTaskRun, CondSimulated

(***************************************************************************)
(* No lost wake-up.  Whether run() ends is a question of liveness; what it *)
(* rests on is not: while run() waits to be signalled, there is a worker   *)
(* that still has to do something before it can pause, and nothing keeps   *)
(* it from its next step.                                                  *)
(***************************************************************************)
Waking == pc[Main] \in {"wake", "unpause", "block", "blocked"}

\* A worker that will take another index before it pauses.
ToTake(w) ==
  \/ pc[w] = "wait" /\ flags[w] = "run"
  \/ pc[w] \in {"start", "take", "compare", "exec", "busy", "last"}
  \/ pc[w] = "ran" /\ flags[w] = "run"

\* A worker on which the end of the run depends: it has a task, or has ended the
\* last one, or will take an index while there are tasks left.
Owes(w) ==
  \/ Claims(w) \/ pc[w] = "busy" \/ Ender(w)
  \/ next < arg[2] /\ ToTake(w)

NoLostWakeup ==
  settled /\ pc[Main] = "blocked" /\ rc = "none" => \E w \in Workers : Owes(w)

\* A worker that waits is paused, so that run() does not pass it over.
PausedInv == \A w \in Workers : pc[w] \in {"wait", "start", "clear"} => state[w] = "paused"

\* The request to run stands until the worker requests its own pause, and a
\* worker that run() has turned to is on its way as long as tasks are left.
WorkOK(w) ==
  /\ pc[w] \in {"start", "take", "compare", "exec", "busy", "last", "signal"} => flags[w] = "run"
  /\ pc[w] = "ran" => flags[w] \in {"run", "pause"}
  /\ pc[w] = "compare" => nti[w] < next
  /\ pc[Main] \in {"wake", "unpause"} /\ w >= wi => AtRest(w)
  /\ w < wi => next >= arg[2] \/ ToTake(w)

WakeInv ==
  /\ Preparing => arg \in Calls /\ wi = 1
  /\ Waking =>
       /\ arg \in Calls
       /\ pc[Main] = "unpause" => wi <= ActiveN
       /\ pc[Main] \in {"block", "blocked"} => wi > ActiveN
       /\ \A w \in Workers : WorkOK(w)

\* An index that was taken is with a worker until its task begins, the task is
\* until it ends, and the end of the last is until it has been signalled.
HeldIndex ==
  \A i \in 0 .. (arg[2] - 1) : i < next =>
    <<arg[1], i>> \in begun \/ \E w \in Workers : Claims(w) /\ nti[w] = i
HeldTask == \A k \in begun \ ended : \E w \in Workers : pc[w] = "busy" /\ task[w] = k
HeldEnd == rc = "none" /\ done = arg[2] => \E w \in Workers : Ender(w)

HeldInv == Waking => HeldIndex /\ HeldTask /\ HeldEnd

AwakeInv == PausedInv /\ (settled => WakeInv /\ HeldInv)

LEMMA PausedStep ==
  ASSUME CondTyped, PausedInv, [Next]_vars
  PROVE  PausedInv'
<1>1. state \in [Workers -> {"paused", "running"}]
  BY DEF CondTyped
<1>2. CASE MainStep
  <2>1. \A w \in Workers : pc'[w] = pc[w]
    BY <1>2, MainFrame
  <2>2. UNCHANGED state
    BY <1>2 DEF MainStep, Run, Destroy, EndWait, InRun, InDestroy, SetTasks, SetTaskN, ResetDone,
       ResetNext, Wake, Unpause, Block, Awake, Exit, Join, JoinTimeOut, workVars
  <2>3. QED
    BY <2>1, <2>2 DEF PausedInv
<1>3. ASSUME NEW w \in Workers, Step(w) PROVE PausedInv'
  <2>1. \A u \in Workers : u # w => pc'[u] = pc[u]
    BY <1>3, StepFrame
  <2>2. CASE Start(w) \/ Pausing(w)
    <3>1. pc'[w] \in {"take", "clear"}
      <4>1. \E l \in {"take", "clear"} : Goto(w, l) /\ l \in WorkerPcs
        BY <2>2 DEF Start, Pausing, WorkerPcs
      <4>2. QED
        BY <4>1, StepMoves
    <3>2. \A u \in Workers : u # w => state'[u] = state[u]
      BY <1>1, <2>2 DEF Start, Pausing
    <3>3. pc'[w] = "clear" => state'[w] = "paused"
      <4>1. CASE Start(w)
        <5>1. Goto(w, "take") /\ "take" \in WorkerPcs
          BY <4>1 DEF Start, WorkerPcs
        <5>2. QED
          BY <5>1, StepMoves
      <4>2. CASE Pausing(w)
        BY <1>1, <4>2 DEF Pausing
      <4>3. QED
        BY <2>2, <4>1, <4>2
    <3>4. QED
      BY <2>1, <3>1, <3>2, <3>3 DEF PausedInv
  <2>3. CASE ~Start(w) /\ ~Pausing(w)
    <3>1. UNCHANGED state
      BY <1>3, <2>3 DEF Step, Wait, Take, Compare, Exec, Done, IsLast, Signal, SelfPause, Ran,
         Clear, workVars
    <3>2. pc[w] \in {"wait", "clear"} \/ pc'[w] \notin {"wait", "start", "clear"}
      <4>1. PICK l \in WorkerPcs : Goto(w, l) /\ pc'[w] = l
        BY <1>3, StepGoes, StepMoves
      <4>2. CASE Wait(w) \/ Clear(w)
        BY <4>2 DEF Wait, Clear
      <4>3. CASE Take(w) \/ Compare(w) \/ Exec(w) \/ Done(w) \/ IsLast(w) \/ Signal(w) \/ SelfPause(w)
        <5>1. \E k \in {"compare", "exec", "selfPause", "busy", "last", "signal", "ran"} :
                 Goto(w, k) /\ k \in WorkerPcs
          BY <4>3 DEF Take, Compare, Exec, Done, IsLast, Signal, SelfPause, WorkerPcs
        <5>2. QED
          BY <5>1, StepMoves
      <4>4. CASE Ran(w)
        <5>1. \E k \in {"exited", "pausing", "take"} : Goto(w, k) /\ k \in WorkerPcs
          BY <4>4 DEF Ran, WorkerPcs
        <5>2. QED
          BY <5>1, StepMoves
      <4>5. QED
        BY <1>3, <2>3, <4>2, <4>3, <4>4 DEF Step
    <3>3. QED
      BY <2>1, <3>1, <3>2 DEF PausedInv
  <2>4. QED
    BY <2>2, <2>3
<1>4. CASE UNCHANGED vars
  BY <1>4 DEF PausedInv, vars, workVars
<1>5. QED
  BY <1>2, <1>3, <1>4 DEF Next, MainStep

\* Where the step of a worker takes it; the rest of it is unchanged.
LEMMA StepFrom ==
  ASSUME CondTyped, NEW w \in Workers, Step(w)
  PROVE  /\ Wait(w) => pc'[w] = (IF flags[w] = "run" THEN "start" ELSE "exited") /\ flags' = flags
         /\ Start(w) => pc'[w] = "take" /\ flags' = flags
         /\ Take(w) => pc'[w] = "compare" /\ flags' = flags
         /\ Compare(w) => pc'[w] = (IF Valid(nti[w]) THEN "exec" ELSE "selfPause") /\ flags' = flags
         /\ Exec(w) => pc'[w] = "busy" /\ flags' = flags
         /\ Done(w) => pc'[w] = "last" /\ flags' = flags
         /\ IsLast(w) => pc'[w] = (IF Last(w) THEN "signal" ELSE "ran") /\ flags' = flags
         /\ Signal(w) => pc'[w] = "selfPause" /\ flags' = flags
         /\ SelfPause(w) => pc'[w] = "ran" /\ flags'[w] = "pause"
         /\ Ran(w) => /\ pc'[w] \in {"exited", "pausing", "take"} /\ flags' = flags
                      /\ pc'[w] = "take" => flags[w] \notin {"exit", "pause"}
         /\ Pausing(w) => pc'[w] = "clear" /\ flags' = flags
         /\ Clear(w) => pc'[w] = "wait"
<1> USE DEF WorkerPcs
<1>1. flags \in [Workers -> {"none", "run", "pause", "exit"}]
      /\ pc \in [CondThreads -> WorkerPcs \cup MainPcs] /\ w \in CondThreads
  BY CondIs DEF CondTyped
<1>2. \A l : Goto(w, l) => pc'[w] = l
  BY <1>1 DEF Goto
<1>3. /\ Wait(w) => pc'[w] = (IF flags[w] = "run" THEN "start" ELSE "exited") /\ flags' = flags
      /\ Start(w) => pc'[w] = "take" /\ flags' = flags
      /\ Take(w) => pc'[w] = "compare" /\ flags' = flags
  BY <1>2 DEF Wait, Start, Take, workVars
<1>4. /\ Compare(w) => pc'[w] = (IF Valid(nti[w]) THEN "exec" ELSE "selfPause") /\ flags' = flags
      /\ Exec(w) => pc'[w] = "busy" /\ flags' = flags
      /\ Done(w) => pc'[w] = "last" /\ flags' = flags
  BY <1>2 DEF Compare, Exec, Done, workVars
<1>5. /\ IsLast(w) => pc'[w] = (IF Last(w) THEN "signal" ELSE "ran") /\ flags' = flags
      /\ Signal(w) => pc'[w] = "selfPause" /\ flags' = flags
  BY <1>2 DEF IsLast, Signal, workVars
<1>6. SelfPause(w) => pc'[w] = "ran" /\ flags'[w] = "pause"
  BY <1>1, <1>2 DEF SelfPause
<1>7. Ran(w) => /\ pc'[w] \in {"exited", "pausing", "take"} /\ flags' = flags
                /\ pc'[w] = "take" => flags[w] \notin {"exit", "pause"}
  <2>1. ASSUME Ran(w)
        PROVE  pc'[w] = (CASE flags[w] = "exit" -> "exited"
                           [] flags[w] = "pause" -> "pausing"
                           [] OTHER -> "take") /\ flags' = flags
    BY <1>2, <2>1 DEF Ran, workVars
  <2>2. QED
    BY <2>1
<1>8. (Pausing(w) => pc'[w] = "clear" /\ flags' = flags) /\ (Clear(w) => pc'[w] = "wait")
  BY <1>2 DEF Pausing, Clear
<1>9. QED
  BY <1>3, <1>4, <1>5, <1>6, <1>7, <1>8

\* Who has ended the last task knows that all indexes were taken.
LEMMA EndedTaken ==
  ASSUME CondTyped, CondClaims, CondDone, arg \in Calls, done = arg[2]
  PROVE  next >= arg[2]
<1>1. ended = TasksOf(arg) /\ arg[2] \in Nat \ {0} /\ arg[1] \in Nat /\ next \in Nat
  <2>1. Cardinality(ended) = arg[2]
    BY DEF CondDone
  <2>2. QED
    BY <2>1, CondTasksFinite, CondIs DEF CondTyped
<1>2. <<arg[1], arg[2] - 1>> \in TasksOf(arg)
  BY <1>1 DEF TasksOf
<1>3. <<arg[1], arg[2] - 1>>[2] < next
  BY <1>1, <1>2 DEF CondClaims
<1>4. arg[2] - 1 < next
  BY <1>3
<1>5. QED
  BY <1>1, <1>4

LEMMA WakeStep ==
  ASSUME CondTyped, FlagInv, settled, CondRun, WakeInv, Waking, NEW w \in Workers, Step(w)
  PROVE  WakeInv'
<1>1. CondClaims /\ CondDone /\ ~Leaving
  BY DEF CondRun, Waking, Preparing, Leaving
<1>2. /\ UNCHANGED <<call, arg, wi, settled, slow>> /\ pc'[Main] = pc[Main]
      /\ \A u \in Workers : u # w => /\ pc'[u] = pc[u] /\ flags'[u] = flags[u]
                                     /\ nti'[u] = nti[u]
  BY StepFrame
<1>3. next \in Nat /\ next' \in Nat /\ next <= next' /\ nti[w] \in Nat /\ arg \in Nat \X Nat /\ arg[2] \in Nat
      /\ \A u \in Workers : nti[u] \in Nat
  <2>1. next \in Nat /\ nti \in [Workers -> Nat] /\ arg \in Nat \X Nat
    BY DEF CondTyped
  <2>2. next' = next \/ next' = next + 1
    BY DEF Step, Wait, Start, Take, Compare, Exec, Done, IsLast, Signal, SelfPause, Ran, Pausing,
       Clear, taskVars
  <2>3. QED
    BY <2>1, <2>2
<1>4. /\ arg \in Calls /\ call = arg
      /\ \A u \in Workers : WorkOK(u)
  BY <1>1 DEF WakeInv, CondClaims
<1>5. ~AtRest(w)
  BY DEF AtRest, Step, Wait, Start, Take, Compare, Exec, Done, IsLast, Signal, SelfPause, Ran,
     Pausing, Clear
<1>6. ASSUME NEW u \in Workers, u # w PROVE WorkOK(u)'
  <2>1. WorkOK(u)
    BY <1>4
  <2>2. /\ pc'[u] = pc[u] /\ flags'[u] = flags[u] /\ nti'[u] = nti[u] /\ wi' = wi /\ arg' = arg
        /\ pc'[Main] = pc[Main]
    BY <1>2, <1>6
  <2>3. pc[u] = "compare" => nti[u] < next'
    BY <1>3, <2>1 DEF WorkOK
  <2>4. next >= arg[2] => next' >= arg[2]
    BY <1>3
  <2>5. QED
    BY <2>1, <2>2, <2>3, <2>4 DEF WorkOK, AtRest, ToTake
<1>7. WorkOK(w)'
  <2>1. /\ ~(pc[Main] \in {"wake", "unpause"} /\ w >= wi)
        /\ w < wi => next >= arg[2] \/ ToTake(w)
        /\ pc[w] = "compare" => nti[w] < next
        /\ pc[w] \in {"start", "take", "compare", "exec", "busy", "last", "signal"} => flags[w] = "run"
        /\ pc[w] = "ran" => flags[w] \in {"run", "pause"}
        /\ flags[w] # "exit"
    BY <1>1, <1>4, <1>5 DEF WorkOK, FlagInv
  <2>2. SUFFICES /\ pc'[w] \in {"start", "take", "compare", "exec", "busy", "last", "signal"}
                      => flags'[w] = "run"
                 /\ pc'[w] = "ran" => flags'[w] \in {"run", "pause"}
                 /\ pc'[w] = "compare" => nti'[w] < next'
                 /\ w < wi => next' >= arg[2] \/ ToTake(w)'
    BY <1>2, <2>1 DEF WorkOK
  <2>3. next >= arg[2] => next' >= arg[2]
    BY <1>3
  <2>4. CASE Wait(w)
    BY <2>1, <2>3, <2>4, StepFrom DEF ToTake, Wait
  <2>5. CASE Start(w)
    BY <2>1, <2>3, <2>5, StepFrom DEF ToTake, Start
  <2>6. CASE Take(w)
    <3>1. nti'[w] < next'
      <4>1. nti' = [nti EXCEPT ![w] = next] /\ next' = next + 1 /\ nti \in [Workers -> Nat]
        BY <2>6 DEF Take, CondTyped
      <4>2. QED
        BY <1>3, <4>1
    <3>2. QED
      BY <2>1, <2>3, <2>6, <3>1, StepFrom DEF ToTake, Take
  <2>7. CASE Compare(w)
    <3>1. pc[w] = "compare" /\ (Valid(nti[w]) \/ next >= arg[2])
      <4>1. pc[w] = "compare"
        BY <2>7 DEF Compare
      <4>2. nti[w] < next
        BY <2>1, <4>1
      <4>3. QED
        BY <1>3, <1>4, <4>1, <4>2 DEF Valid
    <3>2. QED
      BY <2>1, <2>3, <2>7, <3>1, StepFrom DEF ToTake
  <2>8. CASE Exec(w)
    BY <2>1, <2>3, <2>8, StepFrom DEF ToTake, Exec
  <2>9. CASE Done(w)
    BY <2>1, <2>3, <2>9, StepFrom DEF ToTake, Done
  <2>10. CASE IsLast(w)
    <3>1. pc[w] = "last" /\ (Last(w) => next >= arg[2])
      <4>1. pc[w] = "last"
        BY <2>10 DEF IsLast
      <4>2. Last(w) => done = arg[2]
        BY <1>1, <4>1 DEF CondDone, Ender
      <4>3. QED
        BY <1>1, <1>4, <4>1, <4>2, EndedTaken
    <3>2. QED
      BY <2>1, <2>3, <2>10, <3>1, StepFrom DEF ToTake
  <2>11. CASE Signal(w)
    BY <2>1, <2>3, <2>11, StepFrom DEF ToTake, Signal
  <2>12. CASE SelfPause(w)
    <3>1. pc[w] = "selfPause" /\ pc'[w] = "ran" /\ flags'[w] = "pause"
      BY <2>12, StepFrom DEF SelfPause
    <3>2. w < wi => next >= arg[2]
      BY <2>1, <3>1 DEF ToTake
    <3>3. w < wi => next' >= arg[2]
      BY <2>3, <3>2
    <3>4. QED
      BY <3>1, <3>3 DEF ToTake
  <2>13. CASE Ran(w)
    <3>1. /\ pc[w] = "ran" /\ pc'[w] \in {"exited", "pausing", "take"} /\ flags' = flags
          /\ pc'[w] = "take" => flags[w] \notin {"exit", "pause"}
      BY <2>13, StepFrom DEF Ran
    <3>2. pc'[w] # "take" => flags[w] # "run"
      <4>1. CASE flags[w] = "run"
        <5>1. Goto(w, "take") /\ "take" \in WorkerPcs
          BY <2>13, <4>1 DEF Ran, WorkerPcs
        <5>2. QED
          BY <5>1, StepMoves
      <4>2. QED
        BY <4>1
    <3>3. w < wi => next' >= arg[2] \/ ToTake(w)'
      <4>1. pc'[w] = "take" => ToTake(w)'
        BY DEF ToTake
      <4>2. pc'[w] # "take" => ~ToTake(w)
        BY <3>1, <3>2 DEF ToTake
      <4>3. QED
        BY <2>1, <2>3, <4>1, <4>2
    <3>4. pc'[w] = "take" => flags'[w] = "run"
      BY <2>1, <3>1
    <3>5. QED
      BY <3>1, <3>3, <3>4
  <2>14. CASE Pausing(w)
    BY <2>1, <2>3, <2>14, StepFrom DEF ToTake, Pausing
  <2>15. CASE Clear(w)
    BY <2>1, <2>3, <2>15, StepFrom DEF ToTake, Clear
  <2>16. QED
    BY <2>4, <2>5, <2>6, <2>7, <2>8, <2>9, <2>10, <2>11, <2>12, <2>13, <2>14, <2>15 DEF Step
<1>8. QED
  BY <1>2, <1>4, <1>6, <1>7 DEF WakeInv, Waking, Preparing, ActiveN

\* run() turns to the active workers one after the other, all of them at rest.
LEMMA WakeMain ==
  ASSUME CondTyped, PausedInv, settled', CondRun, settled => WakeInv, MainStep
  PROVE  WakeInv'
<1>1. /\ \A w \in Workers : pc'[w] = pc[w]
      /\ UNCHANGED <<nti, task>>
  BY MainFrame
<1>2. /\ flags \in [Workers -> {"none", "run", "pause", "exit"}] /\ arg \in Nat \X Nat
      /\ Workers \subseteq Nat /\ wi \in Nat
  BY CondIs DEF CondTyped
<1>3. ASSUME NEW c \in Calls, Run(c) PROVE WakeInv'
  <2>1. pc'[Main] = "setTasks" /\ arg' = c /\ wi' = 1
    BY <1>3, MainGoes DEF Run, MainPcs
  <2>2. QED
    BY <2>1 DEF WakeInv, Waking, Preparing
<1>4. CASE SetTasks \/ SetTaskN \/ ResetDone
  <2>1. pc'[Main] \in {"setTaskN", "resetDone", "resetNext"} /\ UNCHANGED <<arg, wi, settled>>
    BY <1>4, MainGoes DEF SetTasks, SetTaskN, ResetDone, MainPcs, mainVars, histVars
  <2>2. Preparing
    BY <1>4 DEF Preparing, SetTasks, SetTaskN, ResetDone
  <2>3. QED
    BY <2>1, <2>2 DEF WakeInv, Waking, Preparing
<1>5. CASE ResetNext
  <2>1. pc'[Main] = "wake" /\ UNCHANGED <<arg, wi, settled, flags>> /\ Preparing
    BY <1>5, MainGoes DEF ResetNext, MainPcs, mainVars, histVars, workVars, Preparing
  <2>2. arg \in Calls /\ wi = 1 /\ \A w \in Workers : AtRest(w)
    BY <2>1 DEF WakeInv, CondRun, PrepInv
  <2>3. ASSUME NEW w \in Workers PROVE WorkOK(w)'
    <3>1. pc'[w] = "wait" /\ flags'[w] = "none" /\ ~(w < wi')
      BY <1>1, <2>1, <2>2, CondIs DEF AtRest
    <3>2. QED
      BY <3>1 DEF WorkOK, AtRest
  <2>4. QED
    BY <2>1, <2>2, <2>3 DEF WakeInv, Waking, Preparing
<1>6. CASE Wake
  <2>1. /\ pc[Main] = "wake" /\ Waking /\ UNCHANGED <<arg, settled, flags, next>>
        /\ \/ wi > ActiveN /\ pc'[Main] = "block" /\ wi' = wi
           \/ wi <= ActiveN /\ state[wi] = "paused" /\ pc'[Main] = "unpause" /\ wi' = wi
           \/ wi <= ActiveN /\ state[wi] # "paused"
    <3>1. wi > ActiveN \/ wi <= ActiveN
      BY CondIs DEF CondTyped, ActiveN
    <3>2. QED
      BY <1>6, <3>1, MainGoes DEF Wake, MainPcs, histVars, workVars, taskVars, Waking
  <2>2. WakeInv
    BY <2>1
  <2>3. arg \in Calls /\ \A w \in Workers : WorkOK(w)
    BY <2>1, <2>2 DEF WakeInv
  <2>4. wi <= ActiveN => state[wi] = "paused"
    <3>1. SUFFICES ASSUME wi <= ActiveN PROVE state[wi] = "paused"
      OBVIOUS
    <3>2. wi \in Workers
      BY <3>1, ActiveWorkers
    <3>3. AtRest(wi)
      BY <1>2, <2>1, <2>3, <3>2 DEF WorkOK
    <3>4. QED
      BY <3>2, <3>3 DEF AtRest, PausedInv
  <2>5. /\ wi' = wi /\ pc'[Main] \in {"block", "unpause"}
        /\ pc'[Main] = "unpause" => wi <= ActiveN
        /\ pc'[Main] = "block" => wi > ActiveN
    BY <2>1, <2>4
  <2>6. ASSUME NEW w \in Workers PROVE WorkOK(w)'
    <3>1. WorkOK(w) /\ pc'[w] = pc[w] /\ flags'[w] = flags[w] /\ nti'[w] = nti[w]
      BY <1>1, <2>1, <2>3
    <3>2. QED
      BY <2>1, <2>5, <3>1 DEF WorkOK, AtRest, ToTake
  <2>7. QED
    BY <2>1, <2>3, <2>5, <2>6 DEF WakeInv, Waking, Preparing, ActiveN
<1>7. CASE Unpause
  <2>1. /\ pc[Main] = "unpause" /\ pc'[Main] = "wake" /\ Waking /\ wi' = wi + 1
        /\ flags' = [flags EXCEPT ![wi] = "run"] /\ UNCHANGED <<arg, settled, next>>
    BY <1>7, MainGoes DEF Unpause, MainPcs, histVars, taskVars, Waking
  <2>2. arg \in Calls /\ \A w \in Workers : WorkOK(w)
    BY <2>1 DEF WakeInv
  <2>3. ASSUME NEW w \in Workers PROVE WorkOK(w)'
    <3>1. WorkOK(w) /\ pc'[w] = pc[w] /\ nti'[w] = nti[w] /\ w \in Nat
      BY <1>1, <1>2, <2>2
    <3>2. CASE w = wi
      <4>1. pc'[w] = "wait" /\ flags'[w] = "run" /\ ~(w >= wi')
        BY <1>2, <2>1, <3>1, <3>2 DEF WorkOK, AtRest
      <4>2. QED
        BY <4>1 DEF WorkOK, ToTake
    <3>3. CASE w # wi
      <4>1. flags'[w] = flags[w] /\ (w < wi' => w < wi) /\ (w >= wi' => w >= wi)
        BY <1>2, <2>1, <3>1, <3>3
      <4>2. QED
        BY <2>1, <3>1, <4>1 DEF WorkOK, AtRest, ToTake
    <3>4. QED
      BY <3>2, <3>3
  <2>4. QED
    BY <2>1, <2>2, <2>3 DEF WakeInv, Waking, Preparing
<1>8. CASE Block
  <2>1. /\ pc[Main] = "block" /\ pc'[Main] = "blocked" /\ Waking
        /\ UNCHANGED <<arg, wi, settled, flags, next>>
    BY <1>8, MainGoes DEF Block, MainPcs, histVars, taskVars, workVars, mainVars, Waking
  <2>2. arg \in Calls /\ wi > ActiveN /\ \A w \in Workers : WorkOK(w)
    BY <2>1 DEF WakeInv
  <2>3. ASSUME NEW w \in Workers PROVE WorkOK(w)'
    <3>1. WorkOK(w) /\ pc'[w] = pc[w] /\ nti'[w] = nti[w]
      BY <1>1, <2>2
    <3>2. QED
      BY <2>1, <3>1 DEF WorkOK, ToTake
  <2>4. QED
    BY <2>1, <2>2, <2>3 DEF WakeInv, Waking, Preparing, ActiveN
<1>9. CASE Awake \/ Destroy \/ InDestroy
  <2>1. Goto(Main, "idle") \/ Goto(Main, "exit") \/ Goto(Main, "join") \/ Goto(Main, "gone")
    BY <1>9 DEF Awake, Destroy, InDestroy, Exit, Join, JoinTimeOut
  <2>2. pc'[Main] \in {"idle", "exit", "join", "gone"}
    BY <2>1, MainGoes DEF MainPcs
  <2>3. QED
    BY <2>2 DEF WakeInv, Waking, Preparing
<1>10. ~(\E r \in Wakes : EndWait(r))
  BY DEF EndWait
<1>11. QED
  BY <1>3, <1>4, <1>5, <1>6, <1>7, <1>8, <1>9, <1>10 DEF MainStep, InRun

\* When no worker has anything yet, nothing was taken; afterwards run() leaves
\* what they have with them.
LEMMA HeldMain ==
  ASSUME CondTyped, settled', CondRun, settled => WakeInv /\ HeldInv, MainStep
  PROVE  HeldInv'
<1>1. /\ \A w \in Workers : pc'[w] = pc[w]
      /\ UNCHANGED <<nti, task>>
  BY MainFrame
<1>2. CASE ResetNext
  <2>1. /\ next' = 0 /\ UNCHANGED <<arg, begun, ended, done, settled>> /\ Preparing
        /\ pc[Main] = "resetNext"
    BY <1>2 DEF ResetNext, mainVars, histVars, Preparing
  <2>2. begun = {} /\ done = 0 /\ arg \in Calls
    BY <2>1 DEF CondRun, PrepInv, WakeInv
  <2>3. arg[2] \in Nat \ {0}
    BY <2>2, CondIs
  <2>4. HeldIndex' /\ HeldTask' /\ HeldEnd'
    BY <2>1, <2>2, <2>3 DEF HeldIndex, HeldTask, HeldEnd
  <2>5. QED
    BY <2>4 DEF HeldInv
<1>3. CASE Wake \/ Unpause \/ Block
  <2>1. Waking /\ UNCHANGED <<call, arg, next, done, begun, ended, rc, settled>>
    BY <1>3 DEF Wake, Unpause, Block, taskVars, mainVars, histVars, Waking
  <2>2. \A w \in Workers : /\ Claims(w)' <=> Claims(w)
                           /\ Ender(w)' <=> Ender(w)
                           /\ nti'[w] = nti[w] /\ task'[w] = task[w]
    BY <1>1, <2>1 DEF Claims, Ender, Valid, Last
  <2>3. HeldIndex /\ HeldTask /\ HeldEnd
    BY <2>1 DEF HeldInv
  <2>4. HeldIndex' /\ HeldTask' /\ HeldEnd'
    BY <1>1, <2>1, <2>2, <2>3 DEF HeldIndex, HeldTask, HeldEnd
  <2>5. QED
    BY <2>4 DEF HeldInv
<1>4. CASE ~ResetNext /\ ~(Wake \/ Unpause \/ Block)
  <2>1. \/ Goto(Main, "setTasks") \/ Goto(Main, "setTaskN") \/ Goto(Main, "resetDone")
        \/ Goto(Main, "resetNext") \/ Goto(Main, "idle") \/ Goto(Main, "exit")
        \/ Goto(Main, "join") \/ Goto(Main, "gone")
    BY <1>4 DEF MainStep, InRun, InDestroy, Run, SetTasks, SetTaskN, ResetDone, Awake, EndWait,
       Destroy, Exit, Join, JoinTimeOut
  <2>2. pc'[Main] \in {"setTasks", "setTaskN", "resetDone", "resetNext", "idle", "exit", "join",
                       "gone"}
    BY <2>1, MainGoes DEF MainPcs
  <2>3. QED
    BY <2>2 DEF HeldInv, Waking
<1>5. QED
  BY <1>2, <1>3, <1>4

LEMMA HeldStep ==
  ASSUME CondTyped, CondClaims, CondDone, Waking, HeldIndex, HeldTask, HeldEnd,
         NEW w \in Workers, Step(w)
  PROVE  HeldIndex' /\ HeldTask' /\ HeldEnd'
<1>1. /\ UNCHANGED <<call, arg>> /\ call = arg
      /\ \A u \in Workers : u # w => /\ pc'[u] = pc[u]
                                     /\ nti'[u] = nti[u] /\ task'[u] = task[u]
  BY StepFrame DEF CondClaims
<1>2. \A u \in Workers : u # w => (Claims(u)' <=> Claims(u)) /\ (Ender(u)' <=> Ender(u))
  BY <1>1 DEF Claims, Ender, Valid, Last
<1>3. ASSUME ~Claims(w), pc[w] # "busy", ~Ender(w),
             UNCHANGED <<next, done, begun, ended, rc>>
      PROVE  HeldIndex' /\ HeldTask' /\ HeldEnd'
  <2>1. HeldIndex'
    BY <1>1, <1>2, <1>3 DEF HeldIndex
  <2>2. HeldTask'
    BY <1>1, <1>3 DEF HeldTask
  <2>3. HeldEnd'
    BY <1>1, <1>2, <1>3 DEF HeldEnd
  <2>4. QED
    BY <2>1, <2>2, <2>3
<1>4. CASE Wait(w) \/ Start(w) \/ SelfPause(w) \/ Ran(w) \/ Pausing(w) \/ Clear(w)
  <2>1. pc[w] \in {"wait", "start", "selfPause", "ran", "pausing", "clear"}
    BY <1>4 DEF Wait, Start, SelfPause, Ran, Pausing, Clear
  <2>2. UNCHANGED <<next, done, begun, ended, rc>>
    BY <1>4 DEF Wait, Start, SelfPause, Ran, Pausing, Clear, taskVars, mainVars, histVars
  <2>3. ~Claims(w) /\ pc[w] # "busy" /\ ~Ender(w)
    BY <2>1 DEF Claims, Ender
  <2>4. QED
    BY <1>3, <2>2, <2>3
<1>5. CASE Take(w)
  <2>1. /\ pc[w] = "take" /\ pc'[w] = "compare" /\ nti'[w] = next /\ next' = next + 1
        /\ next \in Nat /\ UNCHANGED <<done, begun, ended, rc>>
    BY <1>5, StepFrom, ZenonT(60) DEF Take, CondTyped, mainVars, histVars
  <2>2. ~Claims(w) /\ pc[w] # "busy" /\ ~Ender(w)
    BY <2>1 DEF Claims, Ender
  <2>3. HeldIndex'
    <3>1. SUFFICES ASSUME NEW i \in 0 .. (arg[2] - 1), i < next',
                          <<arg[1], i>> \notin begun
                   PROVE  \E u \in Workers : Claims(u)' /\ nti'[u] = i
      BY <1>1, <2>1 DEF HeldIndex
    <3>2. arg[2] \in Nat /\ i \in Nat /\ i < arg[2] /\ (i < next \/ i = next)
      BY <2>1, <3>1 DEF CondTyped
    <3>3. CASE i < next
      BY <1>1, <1>2, <2>2, <3>1, <3>3 DEF HeldIndex
    <3>4. CASE i = next
      <4>1. Claims(w)' /\ nti'[w] = i
        BY <1>1, <2>1, <3>2, <3>4 DEF Claims, Valid
      <4>2. QED
        BY <4>1
    <3>5. QED
      BY <3>2, <3>3, <3>4
  <2>4. HeldTask'
    BY <1>1, <2>1, <2>2 DEF HeldTask
  <2>5. HeldEnd'
    BY <1>1, <1>2, <2>1, <2>2 DEF HeldEnd
  <2>6. QED
    BY <2>3, <2>4, <2>5
<1>6. CASE Compare(w)
  <2>1. /\ pc[w] = "compare" /\ UNCHANGED <<next, done, begun, ended, rc>>
    BY <1>6 DEF Compare, taskVars, mainVars, histVars
  <2>2. CASE ~Valid(nti[w])
    BY <1>3, <2>1, <2>2 DEF Claims, Ender
  <2>3. CASE Valid(nti[w])
    <3>1. pc'[w] = "exec" /\ nti'[w] = nti[w]
      BY <1>6, <2>3, StepFrom, ZenonT(60) DEF Compare, CondTyped
    <3>2. Claims(w)' /\ ~Ender(w)
      BY <2>1, <3>1 DEF Claims, Ender
    <3>3. HeldIndex'
      BY <1>1, <1>2, <2>1, <3>1, <3>2 DEF HeldIndex
    <3>4. HeldTask'
      BY <1>1, <2>1 DEF HeldTask
    <3>5. HeldEnd'
      BY <1>1, <1>2, <2>1, <3>2 DEF HeldEnd
    <3>6. QED
      BY <3>3, <3>4, <3>5
  <2>4. QED
    BY <2>2, <2>3
<1>7. CASE Exec(w)
  <2>1. /\ pc[w] = "exec" /\ pc'[w] = "busy" /\ task'[w] = <<arg[1], nti[w]>>
        /\ begun' = begun \cup {<<arg[1], nti[w]>>} /\ UNCHANGED <<next, done, ended, rc>>
    BY <1>1, <1>7, StepFrom, ZenonT(60) DEF Exec, CondTyped, taskVars, mainVars
  <2>2. ~Ender(w)
    BY <2>1 DEF Ender
  <2>3. HeldIndex'
    <3>1. SUFFICES ASSUME NEW i \in 0 .. (arg[2] - 1), i < next
                   PROVE  \/ <<arg[1], i>> \in begun'
                          \/ \E u \in Workers : Claims(u)' /\ nti'[u] = i
      BY <1>1, <2>1 DEF HeldIndex
    <3>2. <<arg[1], i>> \in begun \/ \E u \in Workers : Claims(u) /\ nti[u] = i
      BY <3>1 DEF HeldIndex
    <3>3. QED
      BY <1>1, <1>2, <2>1, <3>2
  <2>4. HeldTask'
    BY <1>1, <2>1 DEF HeldTask
  <2>5. HeldEnd'
    BY <1>1, <1>2, <2>1, <2>2 DEF HeldEnd
  <2>6. QED
    BY <2>3, <2>4, <2>5
<1>8. CASE Done(w)
  <2>1. /\ pc[w] = "busy" /\ pc'[w] = "last" /\ nti'[w] = done /\ done' = done + 1
        /\ ended' = ended \cup {task[w]} /\ UNCHANGED <<next, begun, rc>>
    BY <1>8, StepFrom, ZenonT(60) DEF Done, CondTyped, mainVars
  <2>2. ~Claims(w)
    BY <2>1 DEF Claims
  <2>3. HeldIndex'
    BY <1>1, <1>2, <2>1, <2>2 DEF HeldIndex
  <2>4. HeldTask'
    BY <1>1, <2>1 DEF HeldTask
  <2>5. HeldEnd'
    BY <1>1, <2>1 DEF HeldEnd, Ender, Last
  <2>6. QED
    BY <2>3, <2>4, <2>5
<1>9. CASE IsLast(w)
  <2>1. /\ pc[w] = "last" /\ UNCHANGED <<next, done, begun, ended, rc>>
        /\ pc'[w] = IF Last(w) THEN "signal" ELSE "ran"
    BY <1>9, StepFrom DEF IsLast, taskVars, mainVars, histVars
  <2>2. ~Claims(w) /\ (Ender(w) => Ender(w)')
    BY <2>1 DEF Claims, Ender
  <2>3. HeldIndex'
    BY <1>1, <1>2, <2>1, <2>2 DEF HeldIndex
  <2>4. HeldTask'
    BY <1>1, <2>1 DEF HeldTask
  <2>5. HeldEnd'
    BY <1>1, <1>2, <2>1, <2>2 DEF HeldEnd
  <2>6. QED
    BY <2>3, <2>4, <2>5
<1>10. CASE Signal(w)
  <2>1. /\ pc[w] = "signal" /\ UNCHANGED <<next, done, begun, ended>>
        /\ rc' = IF pc[Main] = "blocked" /\ rc = "none" THEN "ok" ELSE rc
        /\ MutexFree
    BY <1>10 DEF Signal, taskVars, histVars
  <2>2. rc' = "ok"
    BY <2>1 DEF CondDone, Ender, MutexFree, Waking
  <2>3. ~Claims(w)
    BY <2>1 DEF Claims
  <2>4. HeldIndex'
    BY <1>1, <1>2, <2>1, <2>3 DEF HeldIndex
  <2>5. HeldTask'
    BY <1>1, <2>1 DEF HeldTask
  <2>6. QED
    BY <2>2, <2>4, <2>5 DEF HeldEnd
<1>11. QED
  BY <1>4, <1>5, <1>6, <1>7, <1>8, <1>9, <1>10 DEF Step

AwakeAll == CondInv /\ AwakeInv

LEMMA AwakeNext ==
  ASSUME AwakeAll, [Next]_vars
  PROVE  AwakeAll'
<1>1. CondInv' /\ PausedInv' /\ CondTyped /\ FlagInv /\ CondRun /\ PausedInv
  BY CondInvNext, PausedStep DEF AwakeAll, AwakeInv, CondInv
<1>2. settled => WakeInv /\ HeldInv
  BY DEF AwakeAll, AwakeInv
<1>3. ASSUME NEW w \in Workers, Step(w), settled' PROVE WakeInv' /\ HeldInv'
  <2>1. /\ settled' = settled /\ pc'[Main] = pc[Main]
        /\ UNCHANGED <<arg, wi>>
    BY <1>1, <1>3, StepFrame
  <2>2. CASE ~Waking
    BY <1>2, <1>3, <2>1, <2>2 DEF WakeInv, HeldInv, Waking, Preparing
  <2>3. CASE Waking
    <3>1. CondClaims /\ CondDone
      BY <1>1, <1>3, <2>1, <2>3 DEF CondRun, Waking, Preparing
    <3>2. HeldInv'
      BY <1>1, <1>2, <1>3, <2>1, <2>3, <3>1, HeldStep DEF HeldInv
    <3>3. WakeInv'
      BY <1>1, <1>2, <1>3, <2>1, <2>3, WakeStep
    <3>4. QED
      BY <3>2, <3>3
  <2>4. QED
    BY <2>2, <2>3
<1>4. ASSUME MainStep, settled' PROVE WakeInv' /\ HeldInv'
  BY <1>1, <1>2, <1>4, WakeMain, HeldMain
<1>5. ASSUME UNCHANGED vars, settled' PROVE WakeInv' /\ HeldInv'
  <2>1. UNCHANGED <<call, next, done, flags, pc, nti, task, arg, wi, rc, begun, ended, settled, slow>>
    BY <1>5, ZenonT(60) DEF vars, taskVars, workVars, localVars, mainVars, histVars
  <2>2. WakeInv' <=> WakeInv
    BY <2>1 DEF WakeInv, Waking, Preparing, WorkOK, AtRest, ToTake, ActiveN
  <2>3. HeldInv' <=> HeldInv
    BY <2>1 DEF HeldInv, Waking, HeldIndex, HeldTask, HeldEnd, Claims, Valid, Ender, Last
  <2>4. QED
    BY <1>2, <1>5, <2>1, <2>2, <2>3
<1>6. settled' => WakeInv' /\ HeldInv'
  BY <1>3, <1>4, <1>5 DEF Next, MainStep
<1>7. QED
  BY <1>1, <1>6 DEF AwakeAll, AwakeInv

\* While run() waits for the signal there is a worker that will give it or will
\* go on until it does: none of them can pause with a task left to take, however
\* its request to pause races with the request of run() to run, and the signal
\* of the worker that ends the last task is not given before run() waits.
THEOREM SignalNeverLost == Spec => []NoLostWakeup
<1>1. Init => AwakeAll
  <2> SUFFICES ASSUME Init PROVE AwakeInv
    BY CondInvInit DEF AwakeAll
  <2>1. pc[Main] = "idle" /\ \A w \in Workers : state[w] = "paused"
    BY CondIs DEF Init, CondThreads
  <2>2. QED
    BY <2>1 DEF AwakeInv, PausedInv, WakeInv, HeldInv, Waking, Preparing
<1>2. AwakeAll /\ [Next]_vars => AwakeAll'
  BY AwakeNext
<1>3. AwakeAll => NoLostWakeup
  <2> SUFFICES ASSUME AwakeAll, settled, pc[Main] = "blocked", rc = "none"
               PROVE  \E w \in Workers : Owes(w)
    BY DEF NoLostWakeup
  <2>1. /\ CondTyped /\ CondRun /\ Waking /\ ~Preparing
        /\ WakeInv /\ HeldIndex /\ HeldTask /\ HeldEnd
    BY DEF AwakeAll, AwakeInv, CondInv, Waking, Preparing, HeldInv
  <2>2. CondClaims /\ CondDone
    BY <2>1 DEF CondRun
  <2>3. arg \in Calls /\ wi > ActiveN /\ \A w \in Workers : WorkOK(w)
    BY <2>1 DEF WakeInv
  <2>4. arg[2] \in Nat \ {0} /\ arg \in Nat \X Nat /\ next \in Nat /\ wi \in Nat
    BY <2>1, <2>3, CondIs DEF CondTyped
  <2>5. CASE next < arg[2]
    <3>1. 1 \in Workers /\ 1 < wi
      BY <2>3, <2>4, CondIs DEF ActiveN
    <3>2. ToTake(1)
      BY <2>3, <2>4, <2>5, <3>1 DEF WorkOK
    <3>3. QED
      BY <2>5, <3>1, <3>2 DEF Owes
  <2>6. CASE ~(next < arg[2])
    <3>1. CASE \E i \in 0 .. (arg[2] - 1) : <<arg[1], i>> \notin begun
      <4>1. PICK i \in 0 .. (arg[2] - 1) : <<arg[1], i>> \notin begun
        BY <3>1
      <4>2. i < next
        BY <2>4, <2>6, <4>1
      <4>3. \E w \in Workers : Claims(w)
        BY <2>1, <4>1, <4>2 DEF HeldIndex
      <4>4. QED
        BY <4>3 DEF Owes
    <3>2. CASE begun \ ended # {}
      BY <2>1, <3>2 DEF HeldTask, Owes
    <3>3. CASE (\A i \in 0 .. (arg[2] - 1) : <<arg[1], i>> \in begun) /\ begun \ ended = {}
      <4>1. TasksOf(arg) \subseteq begun
        BY <3>3 DEF TasksOf
      <4>2. ended = TasksOf(arg)
        BY <2>2, <3>3, <4>1 DEF CondClaims
      <4>3. done = arg[2]
        BY <2>1, <2>2, <4>2, CondTasksFinite DEF CondDone
      <4>4. QED
        BY <2>1, <4>3 DEF HeldEnd, Owes
    <3>4. QED
      BY <3>1, <3>2, <3>3
  <2>7. QED
    BY <2>5, <2>6
<1>4. QED
  BY <1>1, <1>2, <1>3, PTL DEF Spec
=============================================================================
