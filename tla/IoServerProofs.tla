--------------------------- MODULE IoServerProofs ---------------------------
(***************************************************************************)
(* Proofs about IoServer, for every set of threads, timers, drivers and    *)
(* jobs; and, further down, about FlowVars, the networks of processors     *)
(* that the callbacks of the server drive, for every network.              *)
(***************************************************************************)
EXTENDS IoServer, FlowVars, FiniteSetTheorems, WellFoundedInduction, TLAPS

(***************************************************************************)
(* The inductive invariant.  A thread that does not run is not in its      *)
(* callback, so that a pause() that succeeded leaves nobody who could go   *)
(* on to call the application, unless a request to run was pending when    *)
(* pause() passed; and what was asked of the thread that is waited for     *)
(* stands, or was forgotten on its way into the pause.                     *)
(***************************************************************************)
PcSet == {"out", "exec", "lock", "cb", "end", "clear", "done"}

\* Allocations of timerA follow the number of slots.
GenIsSlots == gen = slots
\* Only callers that ask for the mutex wait for it.
LockersSync == \A c \in Callers : pc[c] = "lock" => c \notin Async
\* A thread that does not run is not in its callback.
StillOut == \A t \in Loops :
  /\ mode[t] # "running" => pc[t] \in {"out", "clear"}
  /\ pc[t] = "clear" => mode[t] = "paused"
\* What stop() has passed does not run and will not, as long as all is well.
Passed == api = "stop" /\ ok =>
  \A t \in Mach : \/ t \in todo \/ t = cur \/ t \in hasty
                 \/ (mode[t] # "running" /\ ~WillRun(t))
\* Nobody who read startedFl before a pause goes on to call.
NobodyOnTheWay == ~started => \A t \in Mach \ hasty : pc[t] \notin {"lock", "cb"}
\* What does not exist is in no list.
Fresh == \A t \in Loops :
  mode[t] = "none" => req[t] = "none" /\ t \notin todo /\ t # cur /\ t \notin listed
\* Who has no list of threads to go through.
Listless == api \in {"none", "once", "unmake", "gone"} => todo = {}
\* What was asked of the thread that is waited for.
AskedFor ==
  cur # Nobody =>
    /\ Wanted = "running" => req[cur] = "run" \/ (req[cur] = "none" /\ mode[cur] = "paused")
    /\ Wanted = "paused" => /\ req[cur] \in {"pause", "none"}
                            /\ mode[cur] = "running" => req[cur] = "pause"
    /\ Wanted = "exited" => \/ req[cur] = "exit" \/ mode[cur] = "exited"
                            \/ (req[cur] = "none" /\ mode[cur] = "paused")

IInv ==
  /\ TypeOK /\ GenIsSlots /\ Fresh
  /\ LockersSync /\ OneAtATime /\ StillOut
  /\ Passed /\ NobodyOnTheWay /\ Listless /\ AskedFor

LEMMA LoopsAre ==
  /\ Loops \subseteq Callers /\ Mach \subseteq Loops /\ Jobs \subseteq Loops
  /\ Main \in Callers /\ Main \notin Loops /\ Nobody \notin Loops
  /\ Mach \cap Jobs = {} /\ Drivers \cap Loops = {} /\ Drivers \subseteq Callers
  /\ Timers \subseteq Mach /\ Threads \subseteq Mach /\ Threads \cap Timers = {}
  BY IoAssumption DEF Loops, Mach, Callers

LEMMA InitIInv == Init => IInv
<1> SUFFICES ASSUME Init PROVE IInv
  OBVIOUS
<1>1. TypeOK /\ GenIsSlots
  <2>1. pc \in [Callers -> PcSet] /\ holder \in {Nobody} \cup (Callers \ Async)
    BY DEF Init, PcSet
  <2>2. mode \in [Loops -> Modes] /\ req \in [Loops -> Requests]
    BY DEF Init, Modes, Requests
  <2>3. todo \subseteq Loops /\ cur \in {Nobody} \cup Loops /\ listed \subseteq Jobs
        /\ doneFl \in [Jobs -> BOOLEAN] /\ hasty \subseteq Loops
    BY DEF Init
  <2>4. 0 \in 0 .. SlotN /\ 0 \in 0 .. 2 /\ 0 \in 0 .. MaxCalls
    BY IoAssumption
  <2>5. /\ slot \in [Timers -> 0 .. SlotN] /\ slots \in 0 .. SlotN
        /\ base \in [Timers -> 0 .. SlotN] /\ gen \in 0 .. SlotN
        /\ calls \in 0 .. MaxCalls /\ late \in [Slots -> 0 .. 2]
    BY <2>4 DEF Init
  <2>6. deletedFl \in [Slots -> BOOLEAN] /\ startedFl \in [Slots -> BOOLEAN]
    BY DEF Init
  <2>7. started \in BOOLEAN /\ ok \in BOOLEAN /\ api \in Calls /\ gen = slots
    BY DEF Init, Calls
  <2>8. QED
    BY ONLY <2>1, <2>2, <2>3, <2>5, <2>6, <2>7 DEF TypeOK, GenIsSlots, PcSet
<1>2. LockersSync /\ OneAtATime
  BY IoAssumption DEF Init, LockersSync, OneAtATime, InApp
<1>3. StillOut /\ Passed /\ NobodyOnTheWay /\ Fresh /\ Listless /\ AskedFor
  BY LoopsAre DEF Init, Listless, StillOut, Passed, NobodyOnTheWay, Fresh, AskedFor
<1>4. QED
  BY <1>1, <1>2, <1>3 DEF IInv

(***************************************************************************)
(* What one caller's step does to the places of the callers: it moves that *)
(* caller, and the mutex is taken or given back by it alone.               *)
(***************************************************************************)

\* The move of caller c from a place in which it is not in the application.
AskMoves(c) ==
  /\ pc' = [pc EXCEPT ![c] = pc'[c]]
  /\ pc'[c] \in {"lock", "cb", "end", "out"}
  /\ pc'[c] = "lock" => started /\ c \notin Async
  /\ pc'[c] = "cb" => started /\ c \in Async
  /\ pc'[c] \in {"end", "out"} => pc'[c] = After(c)
  /\ late' \in [Slots -> 0 .. 2]

LEMMA AfterIs ==
  ASSUME NEW c \in Callers
  PROVE  (c \in Loops /\ After(c) = "end") \/ (c \notin Loops /\ After(c) = "out")
  BY DEF After

LEMMA EnterType ==
  ASSUME TypeOK, NEW c \in Callers, Enter(c)
  PROVE  late' \in [Slots -> 0 .. 2] /\ pc' = [pc EXCEPT ![c] = "cb"]
<1>1. pc' = [pc EXCEPT ![c] = "cb"]
  BY DEF Enter, Goto
<1>2. ASSUME NEW s, late[s] < 2
      PROVE  [late EXCEPT ![s] = @ + 1] \in [Slots -> 0 .. 2]
  <2>1. s \in Slots => late[s] \in 0 .. 2 /\ late[s] + 1 \in 0 .. 2
    BY <1>2 DEF TypeOK
  <2>2. QED
    BY <2>1 DEF TypeOK
<1>3. QED
  BY <1>1, <1>2 DEF Enter, TypeOK

LEMMA SkipMoves ==
  ASSUME TypeOK, NEW c \in Callers, Skip(c)
  PROVE  AskMoves(c)
<1>1. pc' = [pc EXCEPT ![c] = After(c)] /\ pc'[c] = After(c)
  BY DEF Skip, Goto, TypeOK
<1>2. After(c) \in {"end", "out"}
  BY AfterIs
<1>3. late' \in [Slots -> 0 .. 2]
  BY DEF Skip, TypeOK
<1>4. QED
  BY <1>1, <1>2, <1>3 DEF AskMoves

LEMMA AskIsMove ==
  ASSUME TypeOK, NEW c \in Callers, Ask(c)
  PROVE  AskMoves(c)
<1>1. CASE ~started
  BY <1>1, SkipMoves DEF Ask
<1>2. CASE started /\ AsksMutex(c)
  BY <1>2 DEF Ask, AsksMutex, Goto, AskMoves, TypeOK
<1>3. CASE started /\ ~AsksMutex(c)
  <2>1. Enter(c)
    BY <1>3 DEF Ask
  <2>2. late' \in [Slots -> 0 .. 2] /\ pc' = [pc EXCEPT ![c] = "cb"]
    BY <2>1, EnterType
  <2>3. QED
    BY <1>3, <2>2 DEF AsksMutex, AskMoves, TypeOK
<1>4. QED
  BY <1>1, <1>2, <1>3

\* A caller that is at the beginning of a callback, in a thread that runs.
LEMMA AskKeeps ==
  ASSUME IInv, NEW c \in Callers, AskMoves(c),
         pc[c] \notin {"cb", "lock"},
         c \in Loops => mode[c] = "running",
         calls' \in 0 .. MaxCalls,
         UNCHANGED <<started, holder, machVars, jobVars, timerVars, apiVars, hasty>>
  PROVE  IInv'
<1> USE DEF IInv, AskMoves, machVars, jobVars, timerVars, apiVars
<1>1. TypeOK' /\ GenIsSlots' /\ Fresh'
  BY DEF TypeOK, GenIsSlots, Fresh
<1>2. LockersSync' /\ OneAtATime' /\ Listless'
  BY DEF Listless, LockersSync, OneAtATime, InApp, TypeOK
<1>3. StillOut' /\ AskedFor'
  BY LoopsAre DEF StillOut, AskedFor, Wanted, TypeOK
<1>4. Passed'
  <2>1. \A t \in Mach : mode[t] # "running" => pc'[t] = pc[t]
    BY LoopsAre DEF TypeOK
  <2>2. QED
    BY <2>1 DEF Passed, WillRun
<1>5. NobodyOnTheWay'
  BY LoopsAre DEF NobodyOnTheWay, TypeOK
<1>6. QED
  BY <1>1, <1>2, <1>3, <1>4, <1>5

(***************************************************************************)
(* The other steps.                                                        *)
(***************************************************************************)
LEMMA CallbackKeeps ==
  ASSUME IInv, NEW c \in Callers, Callback(c), calls' \in 0 .. MaxCalls
  PROVE  IInv'
<1> USE DEF IInv
<1>1. PICK l \in {"cb", After(c)} :
        /\ pc' = [pc EXCEPT ![c] = l] /\ pc[c] \in {"lock", "cb"}
        /\ late' \in [Slots -> 0 .. 2]
        /\ UNCHANGED <<started, mode, req, listed, doneFl, slot, slots, base, gen,
                       deletedFl, startedFl, api, todo, cur, ok, hasty>>
  <2>1. CASE Lock(c)
    BY <2>1, EnterType DEF Lock, machVars, jobVars, timerVars, apiVars
  <2>2. CASE LockTimeOut(c) \/ Return(c)
    BY <2>2 DEF LockTimeOut, Return, Skip, Goto, machVars, jobVars, timerVars, apiVars,
                histVars, TypeOK
  <2>3. QED
    BY <2>1, <2>2 DEF Callback
<1>2. l \in {"cb", "end", "out"} /\ (c \in Loops => mode[c] = "running" /\ l # "out")
  BY <1>1, AfterIs DEF StillOut
<1>3. holder' \in {Nobody} \cup (Callers \ Async) /\ OneAtATime'
  <2>1. CASE Lock(c)
    <3>1. pc[c] = "lock" /\ c \notin Async /\ holder = Nobody /\ holder' = c
          /\ pc' = [pc EXCEPT ![c] = "cb"]
      BY <2>1, EnterType DEF Lock, LockersSync
    <3>2. QED
      BY <3>1, IoAssumption DEF OneAtATime, InApp, TypeOK
  <2>2. CASE LockTimeOut(c)
    <3>1. pc[c] = "lock" /\ holder' = holder /\ pc' = [pc EXCEPT ![c] = After(c)]
      BY <2>2 DEF LockTimeOut, Skip, Goto
    <3>2. QED
      BY <3>1, AfterIs DEF OneAtATime, InApp, TypeOK
  <2>3. CASE Return(c)
    <3>1. /\ pc[c] = "cb" /\ pc' = [pc EXCEPT ![c] = After(c)]
          /\ holder' = IF holder = c THEN Nobody ELSE holder
      BY <2>3 DEF Return, FreedHolder, Goto
    <3>2. QED
      BY <3>1, AfterIs, IoAssumption DEF OneAtATime, InApp, TypeOK
  <2>4. QED
    BY <2>1, <2>2, <2>3 DEF Callback
<1>4. TypeOK' /\ GenIsSlots' /\ Fresh'
  BY <1>1, <1>2, <1>3 DEF TypeOK, GenIsSlots, Fresh
<1>5. LockersSync' /\ Listless'
  BY <1>1, <1>2 DEF LockersSync, Listless, TypeOK
<1>6. StillOut' /\ AskedFor'
  BY <1>1, <1>2, LoopsAre DEF StillOut, AskedFor, Wanted, TypeOK
<1>7. Passed'
  <2>1. \A t \in Mach : mode[t] # "running" => pc'[t] = pc[t]
    BY <1>1, <1>2, LoopsAre DEF TypeOK
  <2>2. QED
    BY <1>1, <2>1 DEF Passed, WillRun
<1>8. NobodyOnTheWay'
  BY <1>1, <1>2, LoopsAre DEF NobodyOnTheWay, TypeOK
<1>9. QED
  BY <1>3, <1>4, <1>5, <1>6, <1>7, <1>8

LEMMA BeginKeeps ==
  ASSUME IInv, NEW c \in Callers, calls' \in 0 .. MaxCalls,
         \/ c \in Threads \cup Jobs /\ ThreadBegin(c)
         \/ c \in Timers /\ TimerBegin(c)
         \/ c \in Drivers /\ DriverBegin(c)
         \/ c = Main /\ ExecBegin
  PROVE  IInv'
<1>1. TypeOK
  BY DEF IInv
<1>2. /\ pc[c] \in {"out", "exec"} /\ (Ask(c) \/ Skip(c))
      /\ UNCHANGED <<started, holder, machVars, jobVars, timerVars, apiVars, hasty>>
  BY DEF ThreadBegin, TimerBegin, DriverBegin, ExecBegin
<1>3. c \in Loops => mode[c] = "running"
  BY LoopsAre DEF ThreadBegin, TimerBegin
<1>4. AskMoves(c)
  BY <1>1, <1>2, AskIsMove, SkipMoves
<1>5. QED
  BY <1>2, <1>3, <1>4, AskKeeps

LEMMA EndKeeps ==
  ASSUME IInv, NEW t \in Mach, ThreadEnd(t), calls' \in 0 .. MaxCalls
  PROVE  IInv'
<1> USE DEF IInv
<1>1. t \in Loops /\ t \in Callers /\ pc[t] = "end" /\ mode[t] = "running"
  BY LoopsAre DEF ThreadEnd, StillOut
<1>2. PICK e \in BOOLEAN :
        mode' = [mode EXCEPT ![t] = IF e \/ req[t] = "exit" THEN "exited"
                                    ELSE IF req[t] = "pause" THEN "paused" ELSE @]
  BY DEF ThreadEnd, Ends, TypeOK
<1>3. /\ mode' = [mode EXCEPT ![t] = mode'[t]]
      /\ mode'[t] = "exited" \/ (mode'[t] = "paused" /\ req[t] = "pause")
           \/ (mode'[t] = "running" /\ req[t] \notin {"pause", "exit"})
  BY <1>1, <1>2 DEF TypeOK
<1>4. /\ pc' = [pc EXCEPT ![t] = IF mode'[t] = "paused" THEN "clear" ELSE "out"]
      /\ UNCHANGED <<started, holder, req, listed, doneFl, slot, slots, base, gen,
                     deletedFl, startedFl, api, todo, cur, ok, late, hasty>>
  BY DEF ThreadEnd, Goto, jobVars, timerVars, apiVars, histVars
<1>5. TypeOK' /\ GenIsSlots' /\ Fresh'
  BY <1>1, <1>3, <1>4 DEF TypeOK, GenIsSlots, Fresh, Modes
<1>6. LockersSync' /\ OneAtATime' /\ Listless'
  BY <1>1, <1>4 DEF Listless, LockersSync, OneAtATime, InApp, TypeOK
<1>7. StillOut' /\ NobodyOnTheWay'
  BY <1>1, <1>3, <1>4, LoopsAre DEF StillOut, NobodyOnTheWay, TypeOK
<1>8. Passed'
  BY <1>1, <1>3, <1>4, LoopsAre DEF Passed, WillRun, TypeOK
<1>9. AskedFor'
  BY <1>1, <1>3, <1>4 DEF AskedFor, Wanted, TypeOK
<1>10. QED
  BY <1>5, <1>6, <1>7, <1>8, <1>9

LEMMA ClearKeeps ==
  ASSUME IInv, NEW t \in Mach, Clear(t), calls' \in 0 .. MaxCalls
  PROVE  IInv'
<1> USE DEF IInv
<1>1. /\ t \in Loops /\ t \in Callers /\ pc[t] = "clear" /\ mode[t] = "paused"
      /\ pc' = [pc EXCEPT ![t] = "out"] /\ req' = [req EXCEPT ![t] = "none"]
      /\ UNCHANGED <<started, holder, mode, listed, doneFl, slot, slots, base, gen,
                     deletedFl, startedFl, api, todo, cur, ok, late, hasty>>
  BY LoopsAre DEF Clear, Goto, StillOut, jobVars, timerVars, apiVars, histVars
<1>2. TypeOK' /\ GenIsSlots' /\ Fresh'
  BY <1>1 DEF TypeOK, GenIsSlots, Fresh, Requests
<1>3. LockersSync' /\ OneAtATime' /\ Listless'
  BY <1>1 DEF Listless, LockersSync, OneAtATime, InApp, TypeOK
<1>4. StillOut' /\ NobodyOnTheWay'
  BY <1>1, LoopsAre DEF StillOut, NobodyOnTheWay, TypeOK
<1>5. Passed' /\ AskedFor'
  BY <1>1, LoopsAre DEF Passed, WillRun, AskedFor, Wanted, TypeOK
<1>6. QED
  BY <1>2, <1>3, <1>4, <1>5

LEMMA UnpauseKeeps ==
  ASSUME IInv, NEW t \in Loops, Unpause(t), calls' \in 0 .. MaxCalls
  PROVE  IInv'
<1> USE DEF IInv
<1>1. /\ t \in Callers /\ mode[t] = "paused" /\ pc[t] = "out"
      /\ req[t] \in {"run", "exit"}
      /\ mode' = [mode EXCEPT ![t] = IF req[t] = "run" THEN "running" ELSE "exited"]
      /\ UNCHANGED <<started, holder, pc, req, listed, doneFl, slot, slots, base, gen,
                     deletedFl, startedFl, api, todo, cur, ok, late, hasty>>
  BY LoopsAre DEF Unpause, callVars, jobVars, timerVars, apiVars, histVars
<1>2. TypeOK' /\ GenIsSlots' /\ Fresh'
  BY <1>1 DEF TypeOK, GenIsSlots, Fresh, Modes
<1>3. LockersSync' /\ OneAtATime' /\ Listless' /\ NobodyOnTheWay'
  BY <1>1 DEF Listless, LockersSync, OneAtATime, InApp, NobodyOnTheWay
<1>4. StillOut' /\ Passed' /\ AskedFor'
  BY <1>1, LoopsAre DEF StillOut, Passed, WillRun, AskedFor, Wanted, TypeOK
<1>5. QED
  BY <1>2, <1>3, <1>4

LEMMA JobKeeps ==
  ASSUME IInv, NEW j \in Jobs, JobDone(j) \/ JobExit(j), calls' \in 0 .. MaxCalls
  PROVE  IInv'
<1> USE DEF IInv
<1>1. j \in Loops /\ j \in Callers /\ j \notin Mach
  BY LoopsAre
<1>2. PICK l \in {"out", "done"}, m \in {"running", "exited"} :
        /\ pc' = [pc EXCEPT ![j] = l] /\ mode' = [mode EXCEPT ![j] = m]
        /\ m = "running" \/ l = "out"
        /\ doneFl' \in [Jobs -> BOOLEAN] /\ mode[j] = "running" /\ pc[j] \in {"end", "done"}
        /\ UNCHANGED <<started, holder, req, listed, slot, slots, base, gen,
                       deletedFl, startedFl, api, todo, cur, ok, late, hasty>>
  <2>1. mode[j] # "running" => pc[j] \in {"out", "clear"}
    BY <1>1 DEF StillOut
  <2>2. CASE JobDone(j)
    BY <1>1, <2>1, <2>2 DEF JobDone, Goto, machVars, timerVars, apiVars, histVars,
                                 TypeOK
  <2>3. CASE JobExit(j)
    BY <1>1, <2>1, <2>3 DEF JobExit, Goto, jobVars, timerVars, apiVars, histVars, TypeOK
  <2>4. QED
    BY <2>2, <2>3
<1>3. TypeOK' /\ GenIsSlots' /\ Fresh'
  BY <1>1, <1>2 DEF TypeOK, GenIsSlots, Fresh, Modes
<1>4. LockersSync' /\ OneAtATime' /\ Listless'
  BY <1>1, <1>2 DEF Listless, LockersSync, OneAtATime, InApp, TypeOK
<1>5. StillOut' /\ NobodyOnTheWay' /\ Passed'
  BY <1>1, <1>2, LoopsAre DEF StillOut, NobodyOnTheWay, Passed, WillRun, TypeOK
<1>6. AskedFor'
  BY <1>1, <1>2 DEF AskedFor, Wanted, TypeOK
<1>7. QED
  BY <1>3, <1>4, <1>5, <1>6

\* Exists and the list of jobs name threads that exist.
LEMMA ListsAre ==
  ASSUME IInv
  PROVE  /\ Exists \subseteq Mach /\ \A t \in Mach : t \in Exists <=> mode[t] # "none"
         /\ listed \subseteq Loops /\ \A j \in listed : mode[j] # "none"
  BY LoopsAre DEF Exists, IInv, TypeOK, Fresh

\* A call begins, of whatever threads.
LEMMA BeginCallKeeps ==
  ASSUME IInv, calls' \in 0 .. MaxCalls,
         api' \in {"start", "stop", "exec", "destroy", "force"}, cur' = Nobody, ok' = TRUE,
         todo' \in {Exists, listed}, api' = "stop" => todo' = Exists,
         \/ UNCHANGED pc
         \/ pc[Main] \in {"out"} /\ pc' = [pc EXCEPT ![Main] = "exec"],
         UNCHANGED <<started, holder, machVars, jobVars, timerVars, histVars>>
  PROVE  IInv'
<1> USE DEF IInv, machVars, jobVars, timerVars, histVars
<1>1. \A t \in Loops : pc'[t] = pc[t]
  BY LoopsAre DEF TypeOK
<1>2. TypeOK' /\ GenIsSlots' /\ Fresh'
  <2>1. todo' \subseteq Loops /\ \A t \in todo' : mode[t] # "none"
    BY ListsAre, LoopsAre
  <2>2. pc' \in [Callers -> {"out", "exec", "lock", "cb", "end", "clear", "done"}]
    BY LoopsAre DEF TypeOK
  <2>3. TypeOK'
    BY <2>1, <2>2 DEF TypeOK, Calls
  <2>4. QED
    BY <2>1, <2>3, LoopsAre DEF GenIsSlots, Fresh
<1>3. LockersSync' /\ OneAtATime' /\ Listless'
  BY LoopsAre DEF Listless, LockersSync, OneAtATime, InApp, TypeOK
<1>4. StillOut' /\ NobodyOnTheWay' /\ AskedFor'
  BY <1>1, LoopsAre DEF StillOut, NobodyOnTheWay, AskedFor
<1>5. Passed'
  BY <1>1, ListsAre, LoopsAre DEF Passed, WillRun
<1>6. QED
  BY <1>2, <1>3, <1>4, <1>5

LEMMA RunOnceKeeps ==
  ASSUME IInv, NEW j \in Jobs, RunOnce(j), calls' \in 0 .. MaxCalls
  PROVE  IInv'
<1> USE DEF IInv
<1>1. /\ api = "none" /\ mode[j] = "none" /\ listed' = listed \cup {j}
      /\ mode' = [mode EXCEPT ![j] = "paused"] /\ req' = [req EXCEPT ![j] = "run"]
      /\ api' = "once" /\ cur' = j /\ ok' = TRUE
      /\ UNCHANGED <<started, holder, pc, doneFl, slot, slots, base, gen, deletedFl,
                     startedFl, todo, late, hasty>>
  BY DEF RunOnce, Free, callVars, timerVars, histVars
<1>2. j \in Loops /\ j \in Callers /\ j \notin Mach /\ pc[j] = "out"
  BY <1>1, LoopsAre DEF StillOut, TypeOK
<1>3. TypeOK' /\ GenIsSlots' /\ Fresh'
  <2>1. TypeOK'
    BY <1>1, <1>2 DEF TypeOK, Modes, Requests, Calls
  <2>2. GenIsSlots' /\ Fresh'
    BY <1>1, <1>2 DEF TypeOK, GenIsSlots, Fresh
  <2>3. QED
    BY <2>1, <2>2
<1>4. LockersSync' /\ OneAtATime' /\ Listless' /\ NobodyOnTheWay'
  BY <1>1 DEF Listless, LockersSync, OneAtATime, InApp, NobodyOnTheWay
<1>5. StillOut' /\ Passed' /\ AskedFor'
  BY <1>1, <1>2, LoopsAre DEF StillOut, Passed, AskedFor, Wanted, Asks, TypeOK
<1>6. QED
  BY <1>3, <1>4, <1>5

LEMMA TimerKeeps ==
  ASSUME IInv, Timer, calls' \in 0 .. MaxCalls
  PROVE  IInv'
<1> USE DEF IInv
<1>1. UNCHANGED <<started, holder, pc, req, listed, doneFl, api, todo, cur, ok, hasty>>
  BY DEF Timer, TimerCreate, TimerStart, TimerStop, TimerDestroy, callVars, machVars,
         jobVars, apiVars, histVars
<1>2. mode' = mode \/ \E t \in Mach : mode[t] = "none" /\ api = "none"
                                 /\ mode' = [mode EXCEPT ![t] = "paused"]
  BY LoopsAre DEF Timer, TimerCreate, TimerStart, TimerStop, TimerDestroy, machVars, Free
<1>3. TypeOK' /\ GenIsSlots'
  <2>0. mode' \in [Loops -> Modes]
    BY <1>2, LoopsAre DEF TypeOK, Modes
  <2>1. ASSUME NEW t \in Timers, TimerCreate(t)
        PROVE  TypeOK' /\ GenIsSlots'
    <3>1. UNCHANGED <<deletedFl, startedFl, late>>
      BY <2>1 DEF TimerCreate, histVars
    <3>2. /\ slot' \in [Timers -> 0 .. SlotN] /\ slots' \in 0 .. SlotN
          /\ base' \in [Timers -> 0 .. SlotN] /\ gen' \in 0 .. SlotN
          /\ gen' = slots'
      BY <2>1, IoAssumption DEF TimerCreate, TypeOK, GenIsSlots
    <3>3. QED
      BY <1>1, <2>0, <3>1, <3>2 DEF TypeOK, GenIsSlots
  <2>2. ASSUME NEW s \in Slots, TimerStart(s) \/ TimerStop(s) \/ TimerDestroy(s)
        PROVE  TypeOK' /\ GenIsSlots'
    <3>1. /\ UNCHANGED <<slot, slots, base, gen>>
          /\ startedFl' \in [Slots -> BOOLEAN] /\ deletedFl' \in [Slots -> BOOLEAN]
          /\ late' \in [Slots -> 0 .. 2]
      <4>1. \A b \in BOOLEAN : /\ [startedFl EXCEPT ![s] = b] \in [Slots -> BOOLEAN]
                              /\ [deletedFl EXCEPT ![s] = b] \in [Slots -> BOOLEAN]
        BY DEF TypeOK
      <4>2. [late EXCEPT ![s] = 0] \in [Slots -> 0 .. 2] /\ late \in [Slots -> 0 .. 2]
            /\ startedFl \in [Slots -> BOOLEAN] /\ deletedFl \in [Slots -> BOOLEAN]
        BY DEF TypeOK
      <4>3. QED
        BY <2>2, <4>1, <4>2 DEF TimerStart, TimerStop, TimerDestroy, histVars
    <3>2. QED
      BY <1>1, <2>0, <3>1 DEF TypeOK, GenIsSlots
  <2>3. QED
    BY <2>1, <2>2 DEF Timer
<1>4. LockersSync' /\ OneAtATime' /\ Listless' /\ NobodyOnTheWay'
  BY <1>1 DEF Listless, LockersSync, OneAtATime, InApp, NobodyOnTheWay
<1>5. Fresh' /\ StillOut'
  BY <1>1, <1>2, LoopsAre DEF Fresh, StillOut, TypeOK
<1>6. Passed' /\ AskedFor'
  BY <1>1, <1>2, LoopsAre DEF Passed, WillRun, AskedFor, Wanted, Fresh, TypeOK
<1>7. QED
  BY <1>3, <1>4, <1>5, <1>6

LEMMA RequestKeeps ==
  ASSUME IInv, Request, calls' \in 0 .. MaxCalls
  PROVE  IInv'
<1> USE DEF IInv
<1> DEFINE t == NextThread
<1>1. t \in todo /\ t \in Loops /\ mode[t] # "none" /\ t \in Callers
  BY LoopsAre DEF Request, NextThread, TypeOK, Fresh
<1>2. /\ cur = Nobody /\ todo' = todo \ {t}
      /\ UNCHANGED <<started, holder, pc, mode, doneFl, slot, slots, base, gen, deletedFl,
                     startedFl, api, ok, late>>
      /\ hasty' = IF api = "stop" /\ WillRun(t) THEN hasty \cup {t} ELSE hasty
  BY DEF Request, callVars, timerVars
<1>3. \/ Due(t) /\ cur' = t /\ req' = [req EXCEPT ![t] = Asks] /\ listed' = listed \ {t}
      \/ ~Due(t) /\ UNCHANGED <<req, cur, listed>>
  BY DEF Request
<1> HIDE DEF t
<1>4. TypeOK' /\ GenIsSlots' /\ Fresh'
  <2>1. Asks \in Requests
    BY DEF Asks, Requests
  <2>2. QED
    BY <1>1, <1>2, <1>3, <2>1 DEF TypeOK, GenIsSlots, Fresh
<1>5. LockersSync' /\ OneAtATime' /\ Listless' /\ NobodyOnTheWay' /\ StillOut'
  BY <1>2 DEF Listless, LockersSync, OneAtATime, InApp, NobodyOnTheWay, StillOut
<1>6. Passed'
  <2> SUFFICES ASSUME api = "stop", ok, NEW u \in Mach
               PROVE  u \in todo' \/ u = cur' \/ u \in hasty'
                        \/ (mode[u] # "running" /\ ~WillRun(u)')
    BY <1>2 DEF Passed
  <2>1. CASE u = t
    <3>1. CASE Due(t)
      BY <1>3, <2>1, <3>1
    <3>2. CASE ~Due(t)
      <4>1. mode[t] = "paused" /\ req' = req
        BY <1>3, <3>2 DEF Due
      <4>2. QED
        BY <1>2, <2>1, <4>1 DEF WillRun
    <3>3. QED
      BY <3>1, <3>2
  <2>2. CASE u # t
    <3>1. u \in todo \/ u \in hasty \/ (mode[u] # "running" /\ ~WillRun(u))
      BY <1>2, LoopsAre DEF Passed
    <3>2. req'[u] = req[u]
      BY <1>3, <2>2, LoopsAre DEF TypeOK
    <3>3. QED
      BY <1>2, <2>2, <3>1, <3>2 DEF WillRun
  <2>3. QED
    BY <2>1, <2>2
<1>7. AskedFor'
  <2>1. CASE Due(t)
    <3>1. cur' = t /\ req'[t] = Asks /\ mode' = mode /\ api' = api
      BY <1>1, <1>2, <1>3, <2>1 DEF TypeOK
    <3>2. QED
      BY <1>1, <3>1 DEF Listless, AskedFor, Wanted, Asks, Calls, TypeOK, Due
  <2>2. CASE ~Due(t)
    BY <1>2, <1>3, <2>2 DEF AskedFor
  <2>3. QED
    BY <2>1, <2>2
<1>8. QED
  BY <1>4, <1>5, <1>6, <1>7

LEMMA WaitKeeps ==
  ASSUME IInv, Arrived \/ WaitTimeOut \/ OnceTimeOut, calls' \in 0 .. MaxCalls
  PROVE  IInv'
<1> USE DEF IInv
<1>1. CASE OnceTimeOut
  <2>1. /\ cur # Nobody /\ api = "once" /\ api' = "unmake" /\ listed' = listed \ {cur}
        /\ req' = [req EXCEPT ![cur] = "exit"]
        /\ UNCHANGED <<started, holder, pc, mode, doneFl, slot, slots, base, gen,
                       deletedFl, startedFl, todo, cur, ok, late, hasty>>
    BY <1>1 DEF OnceTimeOut, callVars, timerVars, histVars
  <2>2. TypeOK' /\ GenIsSlots' /\ Fresh'
    BY <2>1 DEF TypeOK, GenIsSlots, Fresh, Requests, Calls
  <2>3. LockersSync' /\ OneAtATime' /\ Listless' /\ NobodyOnTheWay' /\ StillOut' /\ Passed'
    BY <2>1 DEF Listless, LockersSync, OneAtATime, InApp, NobodyOnTheWay, StillOut, Passed
  <2>4. AskedFor'
    BY <2>1 DEF AskedFor, Wanted, TypeOK
  <2>5. QED
    BY <2>2, <2>3, <2>4
<1>2. CASE Arrived \/ WaitTimeOut
  <2>1. /\ cur # Nobody /\ cur' = Nobody /\ todo' \in {todo, {}} /\ ok' \in BOOLEAN
        /\ ok' => todo' = todo /\ ok /\ (mode[cur] = Wanted \/ api = "once")
        /\ UNCHANGED <<started, holder, pc, mode, req, listed, doneFl, slot, slots, base,
                       gen, deletedFl, startedFl, api, late, hasty>>
    BY <1>2 DEF Arrived, WaitTimeOut, callVars, machVars, jobVars, timerVars, histVars,
                TypeOK
  <2>2. TypeOK' /\ GenIsSlots' /\ Fresh'
    BY <2>1, LoopsAre DEF TypeOK, GenIsSlots, Fresh
  <2>3. /\ LockersSync' /\ OneAtATime' /\ Listless'
        /\ NobodyOnTheWay' /\ StillOut' /\ AskedFor'
    BY <2>1 DEF Listless, LockersSync, OneAtATime, InApp, NobodyOnTheWay, StillOut, AskedFor
  <2>4. Passed'
    <3> SUFFICES ASSUME api = "stop", ok', NEW u \in Mach
                 PROVE  u \in todo \/ u \in hasty \/ (mode[u] # "running" /\ ~WillRun(u))
      BY <2>1 DEF Passed, WillRun
    <3>1. mode[cur] = "paused" /\ req[cur] \in {"pause", "none"} /\ ok
      BY <2>1 DEF Wanted, AskedFor
    <3>2. QED
      BY <2>1, <3>1 DEF Passed, WillRun
  <2>5. QED
    BY <2>2, <2>3, <2>4
<1>3. QED
  BY <1>1, <1>2

LEMMA FinishKeeps ==
  ASSUME IInv, FinishStart \/ FinishStop \/ FinishJobs \/ FinishDestroy,
         calls' \in 0 .. MaxCalls
  PROVE  IInv'
<1> USE DEF IInv
<1>0. /\ cur = Nobody /\ todo = {} /\ cur' = Nobody
      /\ UNCHANGED <<holder, pc, mode, req, listed, doneFl, slot, slots, base, gen,
                     deletedFl, startedFl, late>>
  BY DEF FinishStart, FinishStop, FinishJobs, FinishDestroy, Ready, Begin, callVars,
         machVars,
         jobVars, timerVars, histVars
<1>1. CASE api' \in {"none", "gone"} /\ UNCHANGED <<todo, ok>>
           /\ started' \in BOOLEAN /\ hasty' \subseteq Loops /\ NobodyOnTheWay'
  <2>1. TypeOK' /\ GenIsSlots' /\ Fresh'
    BY <1>0, <1>1, LoopsAre DEF TypeOK, GenIsSlots, Fresh, Calls
  <2>2. LockersSync' /\ OneAtATime' /\ StillOut'
    BY <1>0 DEF LockersSync, OneAtATime, InApp, StillOut
  <2>3. Listless' /\ Passed' /\ AskedFor'
    BY <1>0, <1>1 DEF Listless, Passed, AskedFor
  <2>4. QED
    BY <1>1, <2>1, <2>2, <2>3
<1>2. CASE FinishStart
  <2>1. CASE ok
    <3>1. started' = TRUE /\ hasty' = {} /\ api' = "none" /\ UNCHANGED <<todo, ok>>
      BY <1>2, <2>1 DEF FinishStart, Result
    <3>2. QED
      BY <1>1, <3>1 DEF NobodyOnTheWay
  <2>2. CASE ~ok
    <3>1. Begin("stop", Exists) /\ UNCHANGED <<started, hasty>>
          /\ UNCHANGED <<callVars, machVars, jobVars, timerVars, late>>
      BY <1>2, <2>2 DEF FinishStart, Result
    <3>2. QED
      BY <3>1, BeginCallKeeps DEF Begin, callVars, histVars
  <2>3. QED
    BY <2>1, <2>2
<1>3. CASE FinishStop
  <2>1. api = "stop" /\ started' = (started /\ ~ok) /\ api' = "none"
        /\ UNCHANGED <<todo, ok, hasty>>
    BY <1>3 DEF FinishStop, Ready, Result, histVars
  <2>2. NobodyOnTheWay'
    <3>1. CASE ok
      <4>1. \A t \in Mach \ hasty : mode[t] # "running"
        BY <1>0, <2>1, <3>1, LoopsAre DEF Passed
      <4>2. QED
        BY <1>0, <2>1, <4>1, LoopsAre DEF NobodyOnTheWay, StillOut
    <3>2. CASE ~ok
      BY <1>0, <2>1, <3>2 DEF NobodyOnTheWay, TypeOK
    <3>3. QED
      BY <3>1, <3>2
  <2>3. QED
    BY <1>1, <2>1, <2>2 DEF TypeOK
<1>4. CASE FinishJobs
  <2>1. api' = "none" /\ UNCHANGED <<started, todo, ok, hasty>>
    BY <1>4 DEF FinishJobs, histVars
  <2>2. QED
    BY <1>0, <1>1, <2>1 DEF TypeOK, NobodyOnTheWay
<1>5. CASE FinishDestroy
  <2>1. CASE api = "destroy" /\ ok
    <3>1. /\ Begin("force", listed)
          /\ UNCHANGED <<started, callVars, machVars, jobVars, timerVars, histVars>>
      BY <1>5, <2>1 DEF FinishDestroy
    <3>2. QED
      BY <3>1, BeginCallKeeps DEF Begin, callVars
  <2>2. CASE ~(api = "destroy" /\ ok)
    <3>1. api' = "gone" /\ UNCHANGED <<started, todo, ok, hasty>>
      BY <1>5, <2>2 DEF FinishDestroy, histVars
    <3>2. QED
      BY <1>0, <1>1, <3>1 DEF TypeOK, NobodyOnTheWay
  <2>3. QED
    BY <2>1, <2>2
<1>6. QED
  BY <1>2, <1>3, <1>4, <1>5

LEMMA NextKeeps == IInv /\ [Next]_vars => IInv'
<1> SUFFICES ASSUME IInv, [Next]_vars PROVE IInv'
  OBVIOUS
<1>0. calls' \in 0 .. MaxCalls
  BY IoAssumption DEF Next, vars, IInv, TypeOK
<1>1. ASSUME NEW c \in Callers, Step(c) PROVE IInv'
  BY <1>0, <1>1, LoopsAre, CallbackKeeps, BeginKeeps, EndKeeps, ClearKeeps, UnpauseKeeps,
     JobKeeps, RequestKeeps, WaitKeeps, FinishKeeps DEF Step, ApiStep
<1>2. ASSUME NEW d \in Drivers, DriverBegin(d) PROVE IInv'
  BY <1>0, <1>2, BeginKeeps, LoopsAre
<1>3. CASE Exec
  <2>1. /\ pc[Main] = "out" /\ pc' = [pc EXCEPT ![Main] = "exec"] /\ Begin("exec", listed)
        /\ UNCHANGED <<started, holder, machVars, jobVars, timerVars, histVars>>
    BY <1>3 DEF Exec, Goto
  <2>2. QED
    BY <1>0, <2>1, BeginCallKeeps DEF Begin
<1>4. CASE WaitTimeOut \/ OnceTimeOut
  BY <1>0, <1>4, WaitKeeps
<1>5. CASE Call
  <2>1. CASE Timer
    BY <1>0, <2>1, TimerKeeps
  <2>2. ASSUME NEW j \in Jobs, RunOnce(j) PROVE IInv'
    BY <1>0, <2>2, RunOnceKeeps
  <2>3. CASE Destroy
    BY <1>0, <2>3, BeginCallKeeps DEF Destroy, Begin, callVars
  <2>4. ASSUME NEW a \in {"start", "stop"}, Api(a) PROVE IInv'
    BY <1>0, <2>4, BeginCallKeeps DEF Api, Begin, callVars
  <2>5. QED
    BY <1>5, <2>1, <2>2, <2>3, <2>4 DEF Call
<1>6. CASE UNCHANGED vars
  BY <1>6 DEF vars, callVars, machVars, jobVars, timerVars, apiVars, histVars, IInv, TypeOK,
       GenIsSlots, Fresh, LockersSync, OneAtATime, InApp, StillOut, Passed, WillRun,
       NobodyOnTheWay, Listless, AskedFor, Wanted
<1>7. QED
  BY <1>1, <1>2, <1>3, <1>4, <1>5, <1>6 DEF Next

LEMMA Invariant == Spec => []IInv
  BY InitIInv, NextKeeps, PTL DEF Spec

(***************************************************************************)
(* Timers that are stopped.  What holds of the timers of a slot, until the *)
(* array is moved away from under one of them.                             *)
(***************************************************************************)

\* A timer has a slot and knows an array of timers, of now or before.
KnowSlot == \A t \in Timers :
  IF mode[t] = "none" THEN slot[t] = 0
  ELSE slot[t] \in 1 .. slots /\ base[t] <= gen
\* A slot is used again only after its timer was destroyed ...
OneLives == \A t, u \in Timers :
  t # u /\ slot[t] = slot[u] /\ slot[t] # 0 => deletedFl[slot[t]]
\* ... which it stays, so that one thread at most has read its flags and waits.
OneAsks == \A t, u \in Timers :
  pc[t] = "lock" /\ pc[u] = "lock" /\ slot[t] = slot[u] /\ ~Moved(slot[t]) => t = u
\* A timer that is started is not late.
NotLateYet == \A s \in Slots : ~Moved(s) /\ startedFl[s] /\ ~deletedFl[s] => late[s] = 0
\* Who is late and still waits has not called before.
Spent == \A t \in Timers : pc[t] = "lock" /\ ~Moved(slot[t]) => late[slot[t]] = 0

LateInv == KnowSlot /\ OneLives /\ OneAsks /\ NotLateYet /\ Spent /\ LateOnce

LEMMA TimersAre ==
  /\ \A t \in Timers : t \in Mach /\ t \in Loops /\ t \in Callers
                      /\ t \notin Threads \cup Drivers \cup Jobs \cup {Main}
  /\ Slots = 1 .. SlotN /\ SlotN \in Nat
  BY LoopsAre, IoAssumption DEF Slots

\* The steps that create no timer, change no flag, and let none call or wait.
LEMMA LateSame ==
  ASSUME LateInv, UNCHANGED <<timerVars, late>>,
         \A t \in Timers : (mode'[t] = "none") <=> (mode[t] = "none"),
         \A t \in Timers : pc'[t] = "lock" => pc[t] = "lock"
  PROVE  LateInv'
<1> USE DEF timerVars
<1>1. KnowSlot'
  BY DEF LateInv, KnowSlot
<1>2. OneLives' /\ OneAsks' /\ NotLateYet' /\ Spent' /\ LateOnce'
  BY DEF LateInv, OneLives, OneAsks, NotLateYet, Spent, LateOnce, Moved
<1>3. QED
  BY <1>1, <1>2 DEF LateInv

\* What is true of a timer whose thread is not paused.
LEMMA LiveTimer ==
  ASSUME IInv, LateInv, NEW t \in Timers, pc[t] = "lock" \/ mode[t] = "running"
  PROVE  mode[t] # "none" /\ slot[t] \in Slots /\ slot[t] # 0 /\ base[t] <= gen
<1>1. mode[t] # "none"
  BY TimersAre DEF IInv, StillOut
<1>2. slot[t] \in 1 .. slots /\ base[t] <= gen
  BY <1>1 DEF LateInv, KnowSlot
<1>3. QED
  BY <1>1, <1>2, TimersAre DEF IInv, TypeOK

LEMMA LockLate ==
  ASSUME IInv, LateInv, NEW c \in Callers, Lock(c)
  PROVE  LateInv'
<1>1. /\ pc[c] = "lock" /\ UNCHANGED <<mode, slot, slots, base, gen, deletedFl, startedFl>>
      /\ pc' = [pc EXCEPT ![c] = "cb"]
      /\ late' = IF c \in Timers /\ IsLate(c) /\ late[slot[c]] < 2
                 THEN [late EXCEPT ![slot[c]] = @ + 1] ELSE late
  BY DEF Lock, Enter, Goto, machVars, timerVars
<1>2. \A t \in Timers : pc'[t] = "lock" => pc[t] = "lock" /\ t # c
  BY <1>1, TimersAre DEF IInv, TypeOK
<1>3. CASE ~(c \in Timers /\ IsLate(c))
  BY <1>1, <1>2, <1>3, LateSame DEF timerVars
<1>4. CASE c \in Timers /\ IsLate(c)
  <2> DEFINE s == slot[c]
  <2>1. s \in Slots /\ (~startedFl[s] \/ deletedFl[s])
    BY <1>1, <1>4, LiveTimer DEF IsLate
  <2>2. /\ \A r \in Slots : r # s => late'[r] = late[r]
        /\ late[s] = 0 => late'[s] = 1
    BY <1>1, <1>4, <2>1 DEF IInv, TypeOK
  <2>3. ~Moved(s) => late[s] = 0
    BY <1>1, <1>4 DEF LateInv, Spent
  <2>4. \A r : Moved(r)' <=> Moved(r)
    BY <1>1 DEF Moved
  <2>5. LateOnce' /\ NotLateYet'
    BY <1>1, <2>1, <2>2, <2>3, <2>4 DEF LateInv, LateOnce, NotLateYet
  <2>6. Spent'
    <3> SUFFICES ASSUME NEW t \in Timers, pc'[t] = "lock", ~Moved(slot[t])
                 PROVE  late'[slot[t]] = 0
      BY <1>1, <2>4 DEF Spent
    <3>1. pc[t] = "lock" /\ t # c /\ late[slot[t]] = 0 /\ slot[t] \in Slots
      BY <1>2, LiveTimer DEF LateInv, Spent
    <3>2. slot[t] # s
      BY <1>1, <1>4, <3>1 DEF LateInv, OneAsks
    <3>3. QED
      BY <2>2, <3>1, <3>2
  <2>7. KnowSlot' /\ OneLives' /\ OneAsks'
    BY <1>1, <1>2, <2>4 DEF LateInv, KnowSlot, OneLives, OneAsks
  <2>8. QED
    BY <2>5, <2>6, <2>7 DEF LateInv
<1> QED
  BY <1>3, <1>4

LEMMA TimerBeginLate ==
  ASSUME IInv, LateInv, NEW c \in Timers, TimerBegin(c)
  PROVE  LateInv'
<1>1. /\ mode[c] = "running" /\ pc[c] = "out"
      /\ UNCHANGED <<mode, slot, slots, base, gen, deletedFl, startedFl>>
  BY DEF TimerBegin, machVars, timerVars
<1>2. CASE Skip(c)
  <2>1. late' = late /\ pc' = [pc EXCEPT ![c] = "end"]
    BY <1>2, TimersAre DEF Skip, Goto, After
  <2>2. \A t \in Timers : pc'[t] = "lock" => pc[t] = "lock"
    BY <2>1, TimersAre DEF IInv, TypeOK
  <2> QED
    BY <1>1, <2>1, <2>2, LateSame DEF timerVars
<1>3. CASE ~Skip(c)
  <2> DEFINE s == slot[c]
  <2>1. s \in Slots /\ s # 0 /\ base[c] <= gen
    BY <1>1, LiveTimer
  <2>2. Ask(c) /\ (~Moved(s) => startedFl[s] /\ ~deletedFl[s])
    BY <1>3 DEF TimerBegin, Fires, Moved
  <2>3. \E l \in {"lock", "cb"} : pc' = [pc EXCEPT ![c] = l]
    BY <1>3, <2>2 DEF Ask, Enter, Goto
  <2>4. \A r : Moved(r)' <=> Moved(r)
    BY <1>1 DEF Moved
  <2>5. /\ \A r \in Slots : r # s => late'[r] = late[r]
        /\ ~Moved(s) => late'[s] = late[s] /\ late[s] = 0
    <3>1. late' = late \/ (IsLate(c) /\ late' = [late EXCEPT ![s] = @ + 1])
      BY <1>3, <2>2 DEF Ask, Enter
    <3>2. ~Moved(s) => ~IsLate(c) /\ late[s] = 0
      BY <2>1, <2>2 DEF IsLate, LateInv, NotLateYet
    <3>3. QED
      BY <3>1, <3>2 DEF IInv, TypeOK
  <2>6. \A t \in Timers : t # c => pc'[t] = pc[t]
    BY <2>3, TimersAre DEF IInv, TypeOK
  <2>7. \A t \in Timers : slot[t] = s /\ ~Moved(s) => t = c
    BY <2>1, <2>2 DEF LateInv, OneLives
  <2>8. KnowSlot' /\ OneLives'
    BY <1>1 DEF LateInv, KnowSlot, OneLives
  <2>9. OneAsks'
    BY <1>1, <2>4, <2>6, <2>7 DEF LateInv, OneAsks
  <2>10. NotLateYet' /\ LateOnce'
    BY <1>1, <2>4, <2>5 DEF LateInv, NotLateYet, LateOnce
  <2>11. Spent'
    <3> SUFFICES ASSUME NEW t \in Timers, pc'[t] = "lock", ~Moved(slot[t])
                 PROVE  late'[slot[t]] = 0
      BY <1>1, <2>4 DEF Spent
    <3>1. CASE slot[t] = s
      BY <2>5, <3>1
    <3>2. CASE slot[t] # s
      <4>1. pc[t] = "lock" /\ slot[t] \in Slots
        BY <2>6, <3>2, LiveTimer
      <4>2. QED
        BY <2>5, <3>2, <4>1 DEF LateInv, Spent
    <3>3. QED
      BY <3>1, <3>2
  <2> QED
    BY <2>8, <2>9, <2>10, <2>11 DEF LateInv
<1> QED
  BY <1>2, <1>3

LEMMA CreateLate ==
  ASSUME IInv, LateInv, NEW t \in Timers, TimerCreate(t)
  PROVE  LateInv'
<1>1. /\ mode[t] = "none" /\ mode' = [mode EXCEPT ![t] = "paused"]
      /\ UNCHANGED <<pc, deletedFl, startedFl, late>>
      /\ slots \in Nat /\ gen = slots /\ slot[t] = 0 /\ pc[t] # "lock"
  <2>1. mode[t] = "none" /\ t \in Loops /\ mode[t] # "running"
    BY TimersAre DEF TimerCreate
  <2>2. pc[t] # "lock"
    BY <2>1 DEF IInv, StillOut
  <2>3. slot[t] = 0
    BY <2>1 DEF LateInv, KnowSlot
  <2>4. slots \in Nat /\ gen = slots
    BY TimersAre DEF IInv, TypeOK, GenIsSlots
  <2>5. QED
    BY <2>1, <2>2, <2>3, <2>4 DEF TimerCreate, callVars, histVars
<1>2. PICK s \in 1 .. (slots + 1), g \in {gen, gen + 1} :
        /\ slot' = [slot EXCEPT ![t] = s] /\ base' = [base EXCEPT ![t] = g] /\ gen' = g
        /\ slots' = g
        /\ \/ g = gen /\ s \in 1 .. slots /\ deletedFl[s]
           \/ g = gen + 1 /\ s = slots + 1
  <2>1. CASE \E s \in 1 .. slots : deletedFl[s]
    BY <1>1, <2>1 DEF TimerCreate
  <2>2. CASE ~\E s \in 1 .. slots : deletedFl[s]
    BY <1>1, <2>2 DEF TimerCreate, IInv, TypeOK
  <2>3. QED
    BY <2>1, <2>2
<1>3. /\ slot'[t] = s /\ base'[t] = g
      /\ \A u \in Timers : u # t => slot'[u] = slot[u] /\ base'[u] = base[u]
                              /\ (mode'[u] = "none" <=> mode[u] = "none")
      /\ mode'[t] # "none" /\ s # 0 /\ gen \in Nat
      /\ \A u \in Timers : base[u] \in Nat
  BY <1>1, <1>2, TimersAre DEF IInv, TypeOK
<1>4. KnowSlot'
  BY <1>1, <1>2, <1>3 DEF LateInv, KnowSlot
<1>5. OneLives'
  <2> SUFFICES ASSUME NEW u \in Timers, NEW v \in Timers, u # v,
                      slot'[u] = slot'[v], slot'[u] # 0
               PROVE  deletedFl[slot'[u]]
    BY <1>1 DEF OneLives
  <2>1. CASE u # t /\ v # t
    BY <1>3, <2>1 DEF LateInv, OneLives
  <2>2. CASE u = t \/ v = t
    <3>1. PICK w \in {u, v} : w # t /\ slot[w] = s /\ slot'[u] = s
      BY <1>3, <2>2
    <3>2. s <= slots
      BY <1>1, <1>3, <3>1 DEF LateInv, KnowSlot
    <3>3. QED
      BY <1>1, <1>2, <3>1, <3>2
  <2>3. QED
    BY <2>1, <2>2
<1>6. \A r \in Nat \ {0} : ~Moved(r)' => ~Moved(r)
  <2> SUFFICES ASSUME NEW r \in Nat \ {0}, NEW u \in Timers, slot[u] = r, base[u] # gen
               PROVE  slot'[u] = r /\ base'[u] # gen'
    BY DEF Moved
  <2>1. u # t
    BY <1>1
  <2>2. base[u] <= gen
    BY DEF LateInv, KnowSlot
  <2>3. QED
    BY <1>2, <1>3, <2>1, <2>2
<1>7. \A u \in Timers : pc[u] = "lock" =>
        u # t /\ slot'[u] = slot[u] /\ slot[u] \in Nat \ {0}
  BY <1>1, <1>3, LiveTimer, TimersAre
<1>8. OneAsks' /\ Spent'
  BY <1>1, <1>6, <1>7 DEF LateInv, OneAsks, Spent
<1>9. NotLateYet' /\ LateOnce'
  BY <1>1, <1>6, TimersAre DEF LateInv, NotLateYet, LateOnce
<1> QED
  BY <1>4, <1>5, <1>8, <1>9 DEF LateInv

LEMMA FlagsLate ==
  ASSUME IInv, LateInv, NEW s \in Slots, TimerStart(s) \/ TimerStop(s) \/ TimerDestroy(s)
  PROVE  LateInv'
<1>1. UNCHANGED <<pc, mode, slot, slots, base, gen>>
  BY DEF TimerStart, TimerStop, TimerDestroy, callVars, machVars
<1>2. \A r \in Slots : /\ deletedFl[r] => deletedFl'[r]
                       /\ \/ late'[r] = late[r] /\ (startedFl'[r] => startedFl[r])
                          \/ late'[r] = 0
                       /\ late[r] = 0 => late'[r] = 0
  BY DEF TimerStart, TimerStop, TimerDestroy, histVars, IInv, TypeOK
<1>3. \A r : Moved(r)' <=> Moved(r)
  BY <1>1 DEF Moved
<1>4. KnowSlot' /\ OneAsks'
  BY <1>1, <1>3 DEF LateInv, KnowSlot, OneAsks
<1>5. OneLives'
  <2> SUFFICES ASSUME NEW t \in Timers, NEW u \in Timers,
                      t # u, slot[t] = slot[u], slot[t] # 0
               PROVE  deletedFl'[slot[t]]
    BY <1>1 DEF OneLives
  <2>1. slot[t] \in Slots /\ deletedFl[slot[t]]
    BY TimersAre DEF LateInv, OneLives, IInv, TypeOK
  <2>2. QED
    BY <1>2, <2>1
<1>6. NotLateYet' /\ LateOnce'
  BY <1>2, <1>3 DEF LateInv, NotLateYet, LateOnce
<1>7. Spent'
  BY <1>1, <1>2, <1>3, LiveTimer DEF LateInv, Spent
<1> QED
  BY <1>4, <1>5, <1>6, <1>7 DEF LateInv

LEMMA NextLate ==
  ASSUME IInv, LateInv, [Next]_vars
  PROVE  LateInv'
<1>1. ASSUME NEW c \in Callers, c \notin Timers, Ask(c), UNCHANGED <<machVars, timerVars>>
      PROVE  LateInv'
  <2>1. late' = late
    BY <1>1 DEF Ask, Skip, Enter
  <2>2. PICK l : pc' = [pc EXCEPT ![c] = l]
    BY <1>1, AskIsMove DEF AskMoves, IInv
  <2>3. \A t \in Timers : pc'[t] = pc[t]
    BY <1>1, <2>2, TimersAre DEF IInv, TypeOK
  <2> QED
    BY <1>1, <2>1, <2>3, LateSame DEF machVars
<1>2. ASSUME NEW c \in Callers, LockTimeOut(c) \/ Return(c)
      PROVE  LateInv'
  <2>1. UNCHANGED <<machVars, timerVars, late>> /\ pc' = [pc EXCEPT ![c] = After(c)]
    BY <1>2 DEF LockTimeOut, Return, Skip, Goto, histVars
  <2>2. \A t \in Timers : pc'[t] = "lock" => pc[t] = "lock"
    BY <2>1, AfterIs, TimersAre DEF IInv, TypeOK
  <2> QED
    BY <2>1, <2>2, LateSame DEF machVars
<1>3. ASSUME NEW c \in Callers \ Timers,
             ThreadBegin(c) \/ (ExecBegin /\ c = Main) \/ DriverBegin(c)
      PROVE  LateInv'
  BY <1>1, <1>3 DEF ThreadBegin, ExecBegin, DriverBegin
<1>4. ASSUME NEW c \in Loops, UNCHANGED <<timerVars, late>>,
             (c \in Mach /\ (ThreadEnd(c) \/ Clear(c))) \/ Unpause(c)
               \/ (c \in Jobs /\ (JobDone(c) \/ JobExit(c)))
      PROVE  LateInv'
  <2>1. PICK l \in {"clear", "out", "done", pc[c]},
             m \in {"exited", "paused", "running", mode[c]} :
          /\ pc' = [pc EXCEPT ![c] = l] /\ mode' = [mode EXCEPT ![c] = m]
    <3>1. CASE c \in Mach /\ ThreadEnd(c)
      <4>1. PICK e \in BOOLEAN :
              mode' = [mode EXCEPT ![c] = IF e \/ req[c] = "exit" THEN "exited"
                                          ELSE IF req[c] = "pause" THEN "paused"
                                          ELSE mode[c]]
        BY <3>1 DEF ThreadEnd, Ends, IInv, TypeOK
      <4>2. \E l \in {"clear", "out"} : pc' = [pc EXCEPT ![c] = l]
        BY <3>1 DEF ThreadEnd, Goto
      <4>3. QED
        BY <4>1, <4>2
    <3>2. CASE ~(c \in Mach /\ ThreadEnd(c))
      BY <1>4, <3>2, LoopsAre DEF Clear, Unpause, JobDone, JobExit, Goto, callVars,
                                 machVars, IInv, TypeOK
    <3>3. QED
      BY <3>1, <3>2
  <2>2. mode[c] # "none"
    BY <1>4, LoopsAre DEF IInv, StillOut, ThreadEnd, Clear, Unpause, JobDone, JobExit
  <2>3. \A t \in Timers : (pc'[t] = "lock" => pc[t] = "lock")
                          /\ (mode'[t] = "none" <=> mode[t] = "none")
    BY <2>1, <2>2, TimersAre, LoopsAre DEF IInv, TypeOK
  <2> QED
    BY <1>4, <2>3, LateSame
<1>5. ASSUME UNCHANGED <<pc, mode, timerVars, late>>
      PROVE  LateInv'
  BY <1>5, LateSame
<1>6. CASE ApiStep \/ WaitTimeOut \/ OnceTimeOut \/ UNCHANGED vars
  BY <1>5, <1>6 DEF ApiStep, Request, Arrived, WaitTimeOut, OnceTimeOut, FinishStart,
     FinishStop, FinishJobs, FinishDestroy, callVars, machVars, histVars, vars
<1>7. CASE Exec
  <2>1. UNCHANGED <<mode, timerVars, late>> /\ pc' = [pc EXCEPT ![Main] = "exec"]
    BY <1>7 DEF Exec, Goto, machVars, histVars
  <2>2. \A t \in Timers : pc'[t] = pc[t]
    BY <2>1, TimersAre DEF IInv, TypeOK
  <2> QED
    BY <2>1, <2>2, LateSame
<1>8. ASSUME NEW c \in Callers, Step(c)
      PROVE  LateInv'
  <2>1. CASE Callback(c)
    BY <1>2, <2>1, LockLate DEF Callback
  <2>2. CASE (c \in Threads \cup Jobs /\ ThreadBegin(c)) \/ (c = Main /\ ExecBegin)
    <3>1. c \notin Timers
      BY <2>2, TimersAre
    <3>2. QED
      BY <1>3, <2>2, <3>1
  <2>3. CASE c \in Timers /\ TimerBegin(c)
    BY <2>3, TimerBeginLate
  <2>4. CASE \/ c \in Mach /\ (ThreadEnd(c) \/ Clear(c))
             \/ c \in Loops /\ Unpause(c)
             \/ c \in Jobs /\ (JobDone(c) \/ JobExit(c))
    <3>1. UNCHANGED <<timerVars, late>> /\ c \in Loops
      BY <2>4, LoopsAre DEF ThreadEnd, Clear, Unpause, JobDone, JobExit, histVars
    <3>2. QED
      BY <1>4, <2>4, <3>1
  <2>5. CASE ApiStep
    BY <1>6, <2>5
  <2> QED
    BY <1>8, <2>1, <2>2, <2>3, <2>4, <2>5 DEF Step
<1>9. CASE Call
  <2>1. CASE Timer
    BY <2>1, CreateLate, FlagsLate DEF Timer
  <2>2. CASE Destroy \/ \E a \in {"start", "stop"} : Api(a)
    BY <1>5, <2>2 DEF Destroy, Api, callVars, machVars, histVars
  <2>3. ASSUME NEW j \in Jobs, RunOnce(j)
        PROVE  LateInv'
    <3>1. UNCHANGED <<pc, timerVars, late>> /\ mode' = [mode EXCEPT ![j] = "paused"]
      BY <2>3 DEF RunOnce, callVars, histVars
    <3>2. \A t \in Timers : mode'[t] = mode[t]
      BY <3>1, TimersAre DEF IInv, TypeOK
    <3> QED
      BY <3>1, <3>2, LateSame
  <2> QED
    BY <1>9, <2>1, <2>2, <2>3 DEF Call
<1>10. ASSUME NEW d \in Drivers, DriverBegin(d)
       PROVE  LateInv'
  BY <1>3, <1>10, TimersAre, LoopsAre
<1> QED
  BY <1>6, <1>7, <1>8, <1>9, <1>10 DEF Next

(***************************************************************************)
(* The theorems.                                                           *)
(***************************************************************************)

\* Every variable of the server has its type: in particular the mutex is held
\* by a caller that asks for it, or by nobody.
THEOREM IoTypeCorrect == Spec => []TypeOK
<1>1. IInv => TypeOK
  BY DEF IInv
<1>2. QED
  BY <1>1, Invariant, PTL

\* _ioCallback() lets one synchronous callback through at a time, with any number
\* of threads, timers, drivers and jobs, and gives the mutex back.
THEOREM CallbacksExclude == Spec => []OneAtATime
<1>1. IInv => OneAtATime
  BY DEF IInv
<1>2. QED
  BY <1>1, Invariant, PTL

\* After a pause() or stop() that succeeded no thread or timer is in the application
\* until start() has succeeded, wherever the waits of earlier calls ran out and
\* whichever requests were lost; except a thread that pause() or stop() passed while
\* it had still to meet the request of a start() that gave up.
THEOREM PauseIsQuiet == Spec => []QuietWhenPaused
<1>1. IInv => QuietWhenPaused
  BY DEF IInv, NobodyOnTheWay, QuietWhenPaused, InApp
<1>2. QED
  BY <1>1, Invariant, PTL

\* A timer that was stopped or destroyed calls once more at most, for any number of
\* timers and slots, of timers that take a slot one after the other, and whoever waits
\* for the mutex meanwhile; until timerCreate() moves the array from under a timer of
\* that slot.
THEOREM LateOnceAlways == Spec => []LateOnce
<1>1. Init => LateInv
  BY TimersAre DEF Init, LateInv, KnowSlot, OneLives, OneAsks, NotLateYet, Spent, LateOnce
<1>2. LateInv => LateOnce
  BY DEF LateInv
<1>3. QED
  BY <1>1, <1>2, NextLate, Invariant, PTL DEF Spec

------------------------------------------------------------------------------
(***************************************************************************)
(* Calls are answered.  That they return is a question of liveness; what   *)
(* it rests on is not: while one waits for a thread, the thread has got    *)
(* where it is to go, or has ended, or its request stands, in a state in   *)
(* which the thread will look at it; or it was lost.                       *)
(***************************************************************************)
AnswerComes ==
  cur # Nobody =>
    \/ WaitEnds \/ Lost
    \/ Wanted = "running" /\ WillRun(cur)
    \/ Wanted = "paused" /\ mode[cur] = "running" /\ req[cur] = "pause"
    \/ Wanted = "exited" /\ mode[cur] \in {"running", "paused"} /\ req[cur] = "exit"

\* While a call waits for a thread, its request stands and the thread is going to meet
\* it, or has; or the request was stored between the two stores with which the thread
\* enters its pause, which happens to requests to run or to end and never to pause.
THEOREM CallsAnswered == Spec => []AnswerComes
<1>1. ASSUME IInv PROVE AnswerComes
  <2> SUFFICES ASSUME cur # Nobody, ~WaitEnds, ~Lost
               PROVE  \/ Wanted = "running" /\ WillRun(cur)
                      \/ Wanted = "paused" /\ mode[cur] = "running" /\ req[cur] = "pause"
                      \/ /\ Wanted = "exited" /\ mode[cur] \in {"running", "paused"}
                         /\ req[cur] = "exit"
    BY DEF AnswerComes
  <2>1. cur \in Loops /\ mode[cur] \in {"paused", "running"} /\ mode[cur] # Wanted
    BY <1>1 DEF IInv, TypeOK, Fresh, Modes, WaitEnds
  <2>2. Wanted \in {"running", "paused", "exited"}
    BY DEF Wanted
  <2>3. CASE mode[cur] = "paused"
    BY <1>1, <2>1, <2>2, <2>3 DEF IInv, AskedFor, StillOut, WillRun, Lost
  <2>4. CASE mode[cur] = "running"
    BY <1>1, <2>1, <2>2, <2>4 DEF IInv, AskedFor
  <2>5. QED
    BY <2>1, <2>3, <2>4
<1>2. QED
  BY <1>1, Invariant, PTL

------------------------------------------------------------------------------
(***************************************************************************)
(* FlowVars, for the application that holds the callback mutex.  Its       *)
(* proofs are in this module, whose names and those of FlowVars are apart. *)
(***************************************************************************)

(***************************************************************************)
(* Types.  A call of var_set() has a variable to work on, and one that is  *)
(* scheduled is in the list of its processor, whose map is not empty then. *)
(***************************************************************************)
LinkPcs == {"link", "exchange", "chain"}
SchedPcs == {"sched", "check", "reserve", "head", "slot", "mark"}
Telling == {"tell", "unmark", "release"}
Places == {"idle", "enter", "load", "exec", "left"} \cup Telling \cup SchedPcs \cup LinkPcs

MapTyped ==
  /\ modN \in [Vars -> Nat] /\ fullCnt \in [Procs -> Int] /\ headIdx \in [Procs -> 0 .. (Word - 1)]
  /\ tailIdx \in [Procs -> Nat] /\ recurse \in [Procs -> BOOLEAN]
  /\ DOMAIN mapA = Procs /\ \A p \in Procs : mapA[p] \in [MapSlots(p) -> Vars \cup {Nil}]
  /\ mapA = [p \in Procs |-> mapA[p]]

UiTyped ==
  /\ linkFl \in [Vars -> Int] /\ link \in [Vars \cup {Stub} -> Vars \cup {Nil}]
  /\ uiHead \in Vars \cup {Stub}

ThreadTyped ==
  /\ place \in [FlowThreads -> Places] /\ work \in [FlowThreads -> Seq(Vars)]
  /\ DOMAIN idx = FlowThreads /\ idx = [t \in FlowThreads |-> idx[t]]
  /\ prev \in [FlowThreads -> Vars \cup {Stub}]
  /\ cnt \in [Procs -> Int] /\ toldN \in [Procs -> Nat]

CycleTyped ==
  /\ stage \in 0 .. Len(Stages)
  /\ flush \in {"no", "first", "show", "unlink", "unflag", "head", "stub"}
  /\ uiVar \in (Vars \cup {Nil}) \X (Vars \cup {Nil})
  /\ flush \in {"show", "unlink", "unflag"} => uiVar[1] \in Vars
  /\ uiIdx \in Nat /\ sets \in 0 .. MaxSets

HistTyped == val \in [Vars -> Nat] /\ seen \in [Vars -> Nat] /\ shown \in [Vars -> Nat]

WorkOK ==
  /\ \A t \in FlowThreads : place[t] \in SchedPcs \cup LinkPcs => work[t] # <<>>
  /\ \A t \in FlowThreads : place[t] \in SchedPcs \ {"sched"} => work[t][1] \in NotifyAll
  /\ \A t \in FlowThreads : place[t] \in {"slot", "mark"} => idx[t] \in MapSlots(Target(t))
  /\ \A p \in Procs : place[p] \in Telling => MapN(p) # 0
  /\ \A p \in Procs : MapN(p) = 0 => fullCnt[p] = 0

FlowTyped == MapTyped /\ UiTyped /\ ThreadTyped /\ CycleTyped /\ HistTyped /\ WorkOK

LEMMA RemainderIs ==
  ASSUME NEW a \in Nat, NEW m \in Nat \ {0}
  PROVE  a % m \in 0 .. (m - 1) /\ a % m \in Nat
OBVIOUS

LEMMA ElemsOf ==
  ASSUME NEW s, NEW r, \A i \in DOMAIN s : \E j \in DOMAIN r : r[j] = s[i]
  PROVE  Elems(s) \subseteq Elems(r)
<1> SUFFICES ASSUME NEW i \in DOMAIN s PROVE s[i] \in Elems(r)
  BY DEF Elems
<1>1. PICK j \in DOMAIN r : r[j] = s[i]
  OBVIOUS
<1>2. QED
  BY <1>1 DEF Elems

\* A function whose value at a place is replaced by one of its range.
LEMMA ExceptIn ==
  ASSUME NEW S, NEW T, NEW h \in [S -> T], NEW m, NEW y, m \in S => y \in T
  PROVE  [h EXCEPT ![m] = y] \in [S -> T]
OBVIOUS

\* The network.
LEMMA NetIs ==
  /\ App \notin Procs /\ FlowThreads = Procs \cup {App} /\ Stub \notin Vars
  /\ Nil \notin Vars /\ Nil # Stub
  /\ Owner \in [Vars -> Procs] /\ Dsts \in [Vars -> Seq(Vars)]
  /\ Outs \subseteq Vars /\ UiSets \subseteq Vars /\ HasUi \subseteq Vars
  /\ Stages \in Seq(SUBSET Procs) /\ Len(Stages) \in Nat \ {0}
  /\ ChN \in Nat \ {0} /\ Word \in Nat \ {0} /\ UiEvery \in Nat /\ MaxSets \in Nat
BY FlowAssumption DEF App, FlowThreads, Stub, Nil

\* The variables that a processor is told of.
LEMMA NotifyIs ==
  ASSUME NEW p \in Procs
  PROVE  /\ Len(NotifyVars[p]) \in Nat /\ MapN(p) \in Nat /\ Len(NotifyVars[p]) <= MapN(p)
         /\ Notify(p) \subseteq Vars /\ \A v \in Notify(p) : Owner[v] = p
         /\ Notify(p) # {} => MapN(p) > 0
         /\ MapN(p) > 0 => Len(NotifyVars[p]) > 0
         /\ \A i \in 1 .. Len(NotifyVars[p]) : NotifyVars[p][i] \in Notify(p)
         /\ IsFiniteSet(Notify(p)) /\ Cardinality(Notify(p)) <= Len(NotifyVars[p])
<1> DEFINE s == NotifyVars[p]
           n == Len(s)
<1>1. s \in Seq({v \in Vars : Owner[v] = p}) /\ ChN \in Nat \ {0}
  BY FlowAssumption
<1>2. n \in Nat /\ DOMAIN s = 1 .. n /\ \A i \in 1 .. n : s[i] \in Vars /\ Owner[s[i]] = p
  BY <1>1
<1>3. Notify(p) = {s[i] : i \in 1 .. n}
  BY <1>2 DEF Notify, Elems
<1>4. MapN(p) = n * ChN
  BY DEF MapN
<1> HIDE DEF s, n
<1>5. n * ChN \in Nat /\ n <= n * ChN /\ (n = 0 => n * ChN = 0) /\ (n > 0 => n * ChN > 0)
  BY <1>1, <1>2
<1>6. IsFiniteSet(Notify(p)) /\ Cardinality(Notify(p)) <= n
  <2> DEFINE f == [i \in 1 .. n |-> s[i]]
  <2>1. f \in Surjection(1 .. n, Notify(p))
    BY <1>3 DEF Surjection
  <2>2. IsFiniteSet(1 .. n) /\ Cardinality(1 .. n) = n
    <3>1. 1 \in Int /\ n \in Int
      BY <1>2
    <3>2. /\ IsFiniteSet(1 .. n)
          /\ Cardinality(1 .. n) = IF 1 > n THEN 0 ELSE n - 1 + 1
      BY <3>1, FS_Interval, Zenon
    <3>3. QED
      BY <1>2, <3>2
  <2> HIDE DEF f
  <2>3. QED
    BY <2>1, <2>2, FS_Surjection
<1>7. Notify(p) # {} => n > 0
  BY <1>2, <1>3
<1>8. QED
  BY <1>2, <1>3, <1>4, <1>5, <1>6, <1>7 DEF s, n

LEMMA NotifyOwner ==
  ASSUME NEW v \in NotifyAll
  PROVE  /\ v \in Vars /\ Owner[v] \in Procs /\ v \in Notify(Owner[v])
         /\ MapN(Owner[v]) \in Nat \ {0}
<1>1. PICK p \in Procs : v \in Notify(p)
  BY DEF NotifyAll
<1>2. v \in Vars /\ Owner[v] = p /\ MapN(p) > 0 /\ MapN(p) \in Nat
  BY <1>1, NotifyIs
<1>3. QED
  BY <1>1, <1>2

LEMMA SourceIs ==
  ASSUME NEW v \in Vars
  PROVE  /\ Src(v) \in Vars
         /\ \A d \in Elems(Dsts[v]) : d \in Vars /\ Src(d) = v
<1>1. Src(v) \in Vars
  BY DEF Src
<1>2. ASSUME NEW d \in Elems(Dsts[v]) PROVE d \in Vars /\ Src(d) = v
  <2>1. d \in Vars
    BY NetIs DEF Elems
  <2>2. \A u \in Vars : d \in Elems(Dsts[u]) => u = v
    BY FlowAssumption
  <2>3. QED
    BY <2>1, <2>2 DEF Src
<1>3. QED
  BY <1>1, <1>2

\* The head of a list that is worked on, and its rest.
LEMMA WorkIs ==
  ASSUME NEW s \in Seq(Vars), s # <<>>
  PROVE  /\ s[1] \in Vars /\ Len(s) \in Nat \ {0} /\ Tail(s) \in Seq(Vars) /\ Len(Tail(s)) = Len(s) - 1
         /\ Elems(s) = {s[1]} \cup Elems(Tail(s)) /\ Elems(s) \subseteq Vars
         /\ (Len(s) > 1 <=> Tail(s) # <<>>) /\ (Tail(s) # <<>> => Tail(s)[1] \in Elems(Tail(s)))
<1>1. /\ Len(s) \in Nat \ {0} /\ s[1] \in Vars /\ DOMAIN s = 1 .. Len(s)
      /\ Tail(s) \in Seq(Vars) /\ Len(Tail(s)) = Len(s) - 1 /\ DOMAIN Tail(s) = 1 .. (Len(s) - 1)
      /\ \A i \in 1 .. (Len(s) - 1) : Tail(s)[i] = s[i + 1]
  OBVIOUS
<1>2. Elems(s) = {s[1]} \cup Elems(Tail(s))
  <2>1. \A i \in DOMAIN s : i = 1 \/ (i - 1 \in DOMAIN Tail(s) /\ Tail(s)[i - 1] = s[i])
    BY <1>1
  <2>2. 1 \in DOMAIN s /\ \A i \in DOMAIN Tail(s) : i + 1 \in DOMAIN s /\ s[i + 1] = Tail(s)[i]
    BY <1>1
  <2>3. QED
    BY <2>1, <2>2, SMTT(30) DEF Elems
<1>3. Elems(s) \subseteq Vars
  BY DEF Elems
<1>4. (Len(s) > 1 <=> Tail(s) # <<>>) /\ (Tail(s) # <<>> => Tail(s)[1] \in Elems(Tail(s)))
  <2>1. Tail(s) # <<>> => 1 \in DOMAIN Tail(s)
    BY <1>1
  <2>2. Len(s) > 1 <=> Tail(s) # <<>>
    <3>1. \A r \in Seq(Vars) : r = <<>> <=> Len(r) = 0
      OBVIOUS
    <3>2. Tail(s) \in Seq(Vars) /\ Len(Tail(s)) = Len(s) - 1 /\ Len(s) \in Nat \ {0}
      BY <1>1
    <3>3. Tail(s) = <<>> <=> Len(Tail(s)) = 0
      BY <3>1, <3>2, Zenon
    <3>4. Len(Tail(s)) = 0 <=> ~(Len(s) > 1)
      BY <3>2, SMTT(30)
    <3>5. QED
      BY <3>3, <3>4
  <2>3. QED
    BY <2>1, <2>2 DEF Elems
<1>5. QED
  BY <1>1, <1>2, <1>3, <1>4

\* What a step of one thread does to its own work.
LEMMA WorkStep ==
  ASSUME FlowTyped, NEW t \in FlowThreads, NEW l \in Places, NEW w \in Seq(Vars), NEW i,
         place' = [place EXCEPT ![t] = l], work' = [work EXCEPT ![t] = w],
         idx' = [idx EXCEPT ![t] = i], fullCnt' = fullCnt,
         l \in SchedPcs \cup LinkPcs => w # <<>>,
         l \in SchedPcs \ {"sched"} => w[1] \in NotifyAll,
         l \in {"slot", "mark"} => i \in MapSlots(Owner[w[1]]),
         t \in Procs /\ l \in Telling => MapN(t) # 0
  PROVE  /\ place' \in [FlowThreads -> Places] /\ work' \in [FlowThreads -> Seq(Vars)]
         /\ DOMAIN idx' = FlowThreads /\ idx' = [u \in FlowThreads |-> idx'[u]] /\ WorkOK'
<1>1. /\ place \in [FlowThreads -> Places] /\ work \in [FlowThreads -> Seq(Vars)]
      /\ DOMAIN idx = FlowThreads /\ idx = [u \in FlowThreads |-> idx[u]] /\ WorkOK
  BY DEF FlowTyped, ThreadTyped
<1>2. /\ place' \in [FlowThreads -> Places] /\ work' \in [FlowThreads -> Seq(Vars)]
      /\ DOMAIN idx' = FlowThreads /\ idx' = [u \in FlowThreads |-> idx'[u]]
  BY <1>1
<1>3. /\ place'[t] = l /\ work'[t] = w /\ idx'[t] = i
      /\ \A u \in FlowThreads : u # t => place'[u] = place[u] /\ work'[u] = work[u] /\ idx'[u] = idx[u]
  BY <1>1
<1>4. \A u \in FlowThreads : Target(u) = Owner[work[u][1]] /\ Target(u)' = Owner[work'[u][1]]
  BY DEF Target, Scheduled
<1>5. \A u \in FlowThreads : place'[u] \in SchedPcs \cup LinkPcs => work'[u] # <<>>
  BY <1>1, <1>3 DEF WorkOK
<1>6. \A u \in FlowThreads : place'[u] \in SchedPcs \ {"sched"} => work'[u][1] \in NotifyAll
  BY <1>1, <1>3 DEF WorkOK
<1>7. ASSUME NEW u \in FlowThreads, place'[u] \in {"slot", "mark"}
      PROVE  idx'[u] \in MapSlots(Target(u)')
  <2>1. CASE u = t
    BY <1>3, <1>4, <1>7, <2>1
  <2>2. CASE u # t
    <3>1. place[u] \in {"slot", "mark"} /\ idx'[u] = idx[u] /\ Target(u)' = Target(u)
      BY <1>3, <1>4, <1>7, <2>2
    <3>2. QED
      BY <1>1, <3>1 DEF WorkOK
  <2>3. QED
    BY <2>1, <2>2
<1>8. \A p \in Procs : place'[p] \in Telling => MapN(p) # 0
  <2>1. \A p \in Procs : p \in FlowThreads
    BY DEF FlowThreads
  <2>2. QED
    BY <1>1, <1>3, <2>1 DEF WorkOK
<1>9. QED
  BY <1>1, <1>2, <1>5, <1>6, <1>7, <1>8 DEF WorkOK

\* A step that changes nothing of a type but the place of a thread.
LEMMA PlaceStep ==
  ASSUME FlowTyped, NEW t \in FlowThreads, NEW l \in Places,
         place' = [place EXCEPT ![t] = l], UNCHANGED <<work, idx, fullCnt>>,
         l \in SchedPcs \cup LinkPcs => place[t] \in SchedPcs \cup LinkPcs,
         l \in SchedPcs \ {"sched"} => work[t][1] \in NotifyAll,
         l = "slot" => FALSE, l = "mark" => place[t] = "slot",
         t \in Procs /\ l \in Telling => MapN(t) # 0
  PROVE  /\ place' \in [FlowThreads -> Places] /\ work' \in [FlowThreads -> Seq(Vars)]
         /\ DOMAIN idx' = FlowThreads /\ idx' = [u \in FlowThreads |-> idx'[u]] /\ WorkOK'
<1>1. /\ work \in [FlowThreads -> Seq(Vars)] /\ DOMAIN idx = FlowThreads
      /\ idx = [u \in FlowThreads |-> idx[u]] /\ WorkOK
  BY DEF FlowTyped, ThreadTyped
<1>2. work' = [work EXCEPT ![t] = work[t]] /\ idx' = [idx EXCEPT ![t] = idx[t]] /\ work[t] \in Seq(Vars)
  BY <1>1
<1>3. l \in SchedPcs \cup LinkPcs => work[t] # <<>>
  BY <1>1 DEF WorkOK
<1>4. l \in {"slot", "mark"} => idx[t] \in MapSlots(Owner[work[t][1]])
  BY <1>1 DEF WorkOK, Target, Scheduled
<1> DEFINE w == work[t]
           i == idx[t]
<1>5. w \in Seq(Vars) /\ work' = [work EXCEPT ![t] = w] /\ idx' = [idx EXCEPT ![t] = i]
      /\ (l \in SchedPcs \cup LinkPcs => w # <<>>) /\ (l \in SchedPcs \ {"sched"} => w[1] \in NotifyAll)
      /\ (l \in {"slot", "mark"} => i \in MapSlots(Owner[w[1]]))
  BY <1>2, <1>3, <1>4
<1> HIDE DEF w, i
<1>6. QED
  BY <1>5, WorkStep

\* The next of the variables.
LEMMA NextIs ==
  ASSUME FlowTyped, NEW t \in FlowThreads, place[t] \in LinkPcs,
         NextTarget(t), UNCHANGED <<idx, fullCnt>>
  PROVE  /\ place' \in [FlowThreads -> Places] /\ work' \in [FlowThreads -> Seq(Vars)]
         /\ DOMAIN idx' = FlowThreads /\ idx' = [u \in FlowThreads |-> idx'[u]] /\ WorkOK'
         /\ work[t] # <<>> /\ work' = [work EXCEPT ![t] = Tail(work[t])]
         /\ place' = [place EXCEPT ![t] = IF Tail(work[t]) # <<>> THEN "sched" ELSE Home(t)]
<1> DEFINE w == Tail(work[t])
           l == IF w # <<>> THEN "sched" ELSE Home(t)
           i == idx[t]
<1>1. /\ work \in [FlowThreads -> Seq(Vars)] /\ place \in [FlowThreads -> Places]
      /\ DOMAIN idx = FlowThreads /\ idx = [u \in FlowThreads |-> idx[u]] /\ WorkOK
  BY DEF FlowTyped, ThreadTyped
<1>2. work[t] # <<>> /\ work[t] \in Seq(Vars)
  BY <1>1 DEF WorkOK
<1>3. w \in Seq(Vars) /\ (Len(work[t]) > 1 <=> w # <<>>)
  BY <1>2, WorkIs
<1>4. /\ work' = [work EXCEPT ![t] = w] /\ idx' = [idx EXCEPT ![t] = i]
      /\ place' = [place EXCEPT ![t] = l]
  <2>1. /\ work' = [work EXCEPT ![t] = Tail(work[t])]
        /\ place' = [place EXCEPT ![t] = IF Len(work[t]) > 1 THEN "sched" ELSE Home(t)]
    BY DEF NextTarget, MoveTo
  <2>2. l = IF Len(work[t]) > 1 THEN "sched" ELSE Home(t)
    BY <1>3
  <2>3. idx' = [idx EXCEPT ![t] = i]
    BY <1>1
  <2>4. QED
    BY <2>1, <2>2, <2>3
<1>5. l \in {"sched", "idle", "exec"} /\ (l = "sched" => w # <<>>)
  BY DEF Home
<1>6. /\ l \in Places /\ (l \in SchedPcs \cup LinkPcs => l = "sched") /\ l \notin {"slot", "mark"}
      /\ l \notin Telling /\ l \notin SchedPcs \ {"sched"}
  BY <1>5 DEF Places, SchedPcs, LinkPcs, Telling
<1> HIDE DEF w, l, i
<1>7. /\ place' \in [FlowThreads -> Places] /\ work' \in [FlowThreads -> Seq(Vars)]
      /\ DOMAIN idx' = FlowThreads /\ idx' = [u \in FlowThreads |-> idx'[u]] /\ WorkOK'
  BY <1>3, <1>4, <1>5, <1>6, WorkStep
<1>8. QED
  BY <1>2, <1>4, <1>7 DEF w, l

\* The types of what a step leaves alone.
LEMMA TypesKept ==
  ASSUME FlowTyped
  PROVE  /\ UNCHANGED mapVars => MapTyped'
         /\ UNCHANGED uiVars => UiTyped'
         /\ UNCHANGED <<cycleVars, sets>> => CycleTyped'
         /\ UNCHANGED <<val, flowHist>> => HistTyped'
         /\ UNCHANGED <<prev, cnt, toldN>> =>
              /\ prev' \in [FlowThreads -> Vars \cup {Stub}]
              /\ cnt' \in [Procs -> Int] /\ toldN' \in [Procs -> Nat]
<1>1. UNCHANGED mapVars => MapTyped'
  BY DEF FlowTyped, MapTyped, mapVars
<1>2. UNCHANGED uiVars => UiTyped'
  BY DEF FlowTyped, UiTyped, uiVars
<1>3. UNCHANGED <<cycleVars, sets>> => CycleTyped'
  BY DEF FlowTyped, CycleTyped, cycleVars
<1>4. UNCHANGED <<val, flowHist>> => HistTyped'
  BY DEF FlowTyped, HistTyped, flowHist
<1>5. QED
  BY <1>1, <1>2, <1>3, <1>4 DEF FlowTyped, ThreadTyped

LEMMA ScheduleTyped ==
  ASSUME FlowTyped, NEW t \in FlowThreads, Schedule(t)
  PROVE  FlowTyped'
<1> USE DEF SchedPcs, LinkPcs, Telling
<1>1. /\ MapTyped /\ UiTyped /\ ThreadTyped /\ CycleTyped /\ HistTyped /\ WorkOK
  BY DEF FlowTyped
<1> DEFINE v == work[t][1]
           Threads1 == /\ place' \in [FlowThreads -> Places] /\ work' \in [FlowThreads -> Seq(Vars)]
                       /\ DOMAIN idx' = FlowThreads /\ idx' = [u \in FlowThreads |-> idx'[u]] /\ WorkOK'
           Threads2 == /\ prev' \in [FlowThreads -> Vars \cup {Stub}]
                       /\ cnt' \in [Procs -> Int] /\ toldN' \in [Procs -> Nat]
<1>2. /\ Scheduled(t) = v /\ Target(t) = Owner[v]
      /\ place[t] \in SchedPcs \cup LinkPcs => work[t] # <<>> /\ v \in Vars
  <2>1. place[t] \in SchedPcs \cup LinkPcs => work[t] # <<>> /\ work[t] \in Seq(Vars)
    BY <1>1 DEF WorkOK, ThreadTyped
  <2>2. place[t] \in SchedPcs \cup LinkPcs => v \in Vars
    BY <2>1, WorkIs
  <2>3. QED
    BY <2>1, <2>2 DEF Target, Scheduled
<1>3. place[t] \in SchedPcs \ {"sched"} => /\ v \in NotifyAll /\ Owner[v] \in Procs
                                          /\ MapN(Owner[v]) \in Nat \ {0}
  <2>1. place[t] \in SchedPcs \ {"sched"} => v \in NotifyAll
    BY <1>1 DEF WorkOK
  <2>2. QED
    BY <2>1, NotifyOwner
<1>4. t \in Procs => t \in FlowThreads
  OBVIOUS
<1> HIDE DEF v
\* The steps that change the map.
<1>5. CASE Sched(t)
  <2> DEFINE l == IF Scheduled(t) \in NotifyAll /\ ~recurse[Target(t)] THEN "check" ELSE "link"
  <2>1. /\ place[t] = "sched" /\ place' = [place EXCEPT ![t] = l]
        /\ UNCHANGED <<val, mapVars, uiVars, work, idx, prev, cnt, toldN, cycleVars, sets,
                       flowHist>>
    BY <1>5 DEF Sched, MoveTo
  <2>2. l \in Places /\ l \in {"check", "link"} /\ (l = "check" => v \in NotifyAll)
    BY <1>2 DEF Places
  <2> HIDE DEF l
  <2>3. Threads1
    BY <2>1, <2>2, PlaceStep DEF v, mapVars
  <2>4. QED
    BY <2>1, <2>3, TypesKept DEF FlowTyped, ThreadTyped
<1>6. CASE Check(t)
  <2> DEFINE l == IF Marked(Scheduled(t)) THEN "link" ELSE "reserve"
  <2>1. /\ place[t] = "check" /\ place' = [place EXCEPT ![t] = l]
        /\ UNCHANGED <<val, mapVars, uiVars, work, idx, prev, cnt, toldN, cycleVars, sets,
                       flowHist>>
    BY <1>6 DEF Check, MoveTo
  <2>2. l \in Places /\ l \in {"reserve", "link"} /\ v \in NotifyAll
    BY <1>3, <2>1 DEF Places
  <2> HIDE DEF l
  <2>3. Threads1
    BY <2>1, <2>2, PlaceStep DEF v, mapVars
  <2>4. QED
    BY <2>1, <2>3, TypesKept DEF FlowTyped, ThreadTyped
<1>7. CASE Reserve(t)
  <2> DEFINE p == Owner[v]
             full == fullCnt[p] >= MapN(p)
             l == IF full THEN Home(t) ELSE "head"
             w == IF full THEN <<>> ELSE work[t]
  <2>1. /\ place[t] = "reserve" /\ fullCnt' = [fullCnt EXCEPT ![p] = @ + 1]
        /\ UNCHANGED <<val, modN, headIdx, tailIdx, mapA, recurse, uiVars, idx, prev, cnt, toldN,
                       cycleVars, sets, flowHist>>
    BY <1>2, <1>7 DEF Reserve
  <2>2. place' = [place EXCEPT ![t] = l] /\ work' = [work EXCEPT ![t] = w]
    BY <1>1, <1>2, <1>7 DEF Reserve, MoveTo, ThreadTyped
  <2>3. p \in Procs /\ MapN(p) # 0 /\ v \in NotifyAll
    BY <1>3, <2>1
  <2>4. MapTyped'
    BY <1>1, <2>1, <2>3, SMTT(30) DEF MapTyped
  <2>5. /\ l \in Places /\ w \in Seq(Vars) /\ l \in {"idle", "exec", "head"}
        /\ l = "head" => w = work[t] /\ w # <<>>
    BY <1>1, <1>2, <2>1 DEF Places, Home, ThreadTyped
  <2>6. Threads1
    \* as if the count had not changed: it is 0 for no processor without a map
    <3>1. idx' = [idx EXCEPT ![t] = idx[t]]
      BY <1>1, <2>1 DEF ThreadTyped
    <3> DEFINE i == idx[t]
    <3>2. idx' = [idx EXCEPT ![t] = i] /\ (l \in SchedPcs \cup LinkPcs => w # <<>>)
          /\ (l \in SchedPcs \ {"sched"} => w[1] \in NotifyAll) /\ l \notin {"slot", "mark"}
          /\ l \notin Telling
      BY <2>3, <2>5, <3>1 DEF v
    <3>3. /\ place' \in [FlowThreads -> Places] /\ work' \in [FlowThreads -> Seq(Vars)]
          /\ DOMAIN idx' = FlowThreads /\ idx' = [u \in FlowThreads |-> idx'[u]]
      BY <1>1, <2>1, <2>2, <2>5, SMTT(30) DEF ThreadTyped
    <3>4. /\ place'[t] = l /\ work'[t] = w /\ idx' = idx
          /\ \A u \in FlowThreads : u # t => place'[u] = place[u] /\ work'[u] = work[u]
      BY <1>1, <2>1, <2>2 DEF ThreadTyped
    <3> HIDE DEF l, w, i, p
    <3>5. \A u \in FlowThreads : place'[u] \in SchedPcs \cup LinkPcs => work'[u] # <<>>
      BY <1>1, <3>2, <3>4 DEF WorkOK
    <3>6. \A u \in FlowThreads : place'[u] \in SchedPcs \ {"sched"} => work'[u][1] \in NotifyAll
      BY <1>1, <3>2, <3>4 DEF WorkOK
    <3>7. \A u \in FlowThreads : place'[u] \in {"slot", "mark"} => idx'[u] \in MapSlots(Target(u)')
      BY <1>1, <3>2, <3>4 DEF WorkOK, Target, Scheduled
    <3>8. \A q \in Procs : place'[q] \in Telling => MapN(q) # 0
      <4>1. \A q \in Procs : q \in FlowThreads
        BY DEF FlowThreads
      <4>2. QED
        BY <1>1, <3>2, <3>4, <4>1 DEF WorkOK
    <3>9. \A q \in Procs : MapN(q) = 0 => fullCnt'[q] = 0
      BY <1>1, <2>1, <2>3 DEF WorkOK, MapTyped
    <3>10. QED
      BY <3>3, <3>5, <3>6, <3>7, <3>8, <3>9 DEF WorkOK
  <2>7. QED
    BY <2>1, <2>4, <2>6, TypesKept DEF FlowTyped, ThreadTyped
<1>8. CASE TakeHead(t)
  <2> DEFINE p == Owner[v]
             i == headIdx[p] % MapN(p)
  <2>1. /\ place[t] = "head" /\ idx' = [idx EXCEPT ![t] = i] /\ place' = [place EXCEPT ![t] = "slot"]
        /\ headIdx' = [headIdx EXCEPT ![p] = (headIdx[p] + 1) % Word]
        /\ UNCHANGED <<val, modN, fullCnt, tailIdx, mapA, recurse, uiVars, work, prev, cnt, toldN,
                       cycleVars, sets, flowHist>>
    BY <1>2, <1>8 DEF TakeHead, Index, MoveTo
  <2>2. p \in Procs /\ MapN(p) \in Nat \ {0} /\ headIdx[p] \in Nat /\ v \in NotifyAll
        /\ Word \in Nat \ {0}
    BY <1>1, <1>3, <2>1, NetIs DEF MapTyped
  <2>3. i \in MapSlots(p) /\ (headIdx[p] + 1) % Word \in 0 .. (Word - 1)
    <3>1. i \in 0 .. (MapN(p) - 1)
      BY <2>2, RemainderIs
    <3>2. headIdx[p] + 1 \in Nat
      BY <2>2
    <3>3. (headIdx[p] + 1) % Word \in 0 .. (Word - 1)
      BY <2>2, <3>2, RemainderIs
    <3>4. QED
      BY <3>1, <3>3 DEF MapSlots
  <2>4. MapTyped'
    BY <1>1, <2>1, <2>2, <2>3 DEF MapTyped
  <2>5. work' = [work EXCEPT ![t] = work[t]] /\ work[t] \in Seq(Vars) /\ work[t] # <<>>
    BY <1>1, <1>2, <2>1 DEF ThreadTyped
  <2> HIDE DEF i, p
  <2>6. Threads1
    <3> DEFINE w == work[t]
    <3>1. /\ w \in Seq(Vars) /\ w # <<>> /\ work' = [work EXCEPT ![t] = w] /\ w[1] \in NotifyAll
          /\ i \in MapSlots(Owner[w[1]]) /\ "slot" \in Places /\ "slot" \notin Telling
      BY <2>2, <2>3, <2>5 DEF v, p, Places
    <3> HIDE DEF w
    <3>2. QED
      BY <2>1, <3>1, WorkStep
  <2>7. QED
    BY <2>1, <2>4, <2>6, TypesKept DEF FlowTyped, ThreadTyped
<1>9. CASE Slot(t)
  <2> DEFINE p == Owner[v]
             m == [mapA[p] EXCEPT ![idx[t]] = v]
  <2>1. /\ place[t] = "slot" /\ place' = [place EXCEPT ![t] = "mark"]
        /\ mapA' = [mapA EXCEPT ![p] = m]
        /\ UNCHANGED <<val, modN, fullCnt, headIdx, tailIdx, recurse, uiVars, work, idx, prev,
                       cnt, toldN, cycleVars, sets, flowHist>>
    BY <1>2, <1>9 DEF Slot, MoveTo
  <2>2. p \in Procs /\ v \in Vars /\ v \in NotifyAll
    BY <1>2, <1>3, <2>1
  <2>3. m \in [MapSlots(p) -> Vars \cup {Nil}]
    BY <1>1, <2>2 DEF MapTyped
  <2> HIDE DEF m
  <2>4. MapTyped'
    BY <1>1, <2>1, <2>2, <2>3 DEF MapTyped
  <2>5. Threads1
    <3> DEFINE l == "mark"
    <3>1. /\ l \in Places /\ l \notin Telling /\ l # "slot" /\ (l = "mark" => place[t] = "slot")
         /\ place[t] \in SchedPcs \cup LinkPcs /\ (l \in SchedPcs \ {"sched"} => v \in NotifyAll)
         /\ place' = [place EXCEPT ![t] = l] /\ UNCHANGED <<work, idx, fullCnt>>
      BY <2>1, <2>2 DEF Places
    <3> HIDE DEF l
    <3>2. QED
      BY <3>1, PlaceStep DEF v
  <2>6. QED
    BY <2>1, <2>4, <2>5, TypesKept DEF FlowTyped, ThreadTyped
<1>10. CASE Mark(t)
  <2>1. /\ place[t] = "mark" /\ place' = [place EXCEPT ![t] = "link"]
        /\ modN' = [modN EXCEPT ![v] = modN[v] + 1]
        /\ UNCHANGED <<val, fullCnt, headIdx, tailIdx, mapA, recurse, uiVars, work, idx, prev,
                       cnt, toldN, cycleVars, sets, flowHist>>
    BY <1>2, <1>10 DEF Mark, MoveTo
  <2>2. MapTyped'
    BY <1>1, <1>2, <2>1 DEF MapTyped
  <2>3. Threads1
    <3> DEFINE l == "link"
    <3>1. /\ l \in Places /\ l \notin Telling /\ l # "slot" /\ (l = "mark" => place[t] = "slot")
         /\ place[t] \in SchedPcs \cup LinkPcs /\ (l \in SchedPcs \ {"sched"} => v \in NotifyAll)
         /\ place' = [place EXCEPT ![t] = l] /\ UNCHANGED <<work, idx, fullCnt>>
      BY <2>1 DEF Places
    <3> HIDE DEF l
    <3>2. QED
      BY <3>1, PlaceStep DEF v
  <2>4. QED
    BY <2>1, <2>2, <2>3, TypesKept DEF FlowTyped, ThreadTyped
\* The steps that put it on the list for the UI.
<1>11. CASE Link(t)
  <2>1. /\ place[t] = "link"
        /\ linkFl' = linkFl \/ linkFl' = [linkFl EXCEPT ![v] = linkFl[v] + 1]
        /\ \/ NextTarget(t)
           \/ place' = [place EXCEPT ![t] = "exchange"] /\ work' = work
        /\ UNCHANGED <<val, mapVars, link, uiHead, idx, prev, cnt, toldN, cycleVars, sets,
                       flowHist>>
    BY <1>2, <1>11 DEF Link, MoveTo
  <2>2. Threads1
    <3>1. UNCHANGED <<idx, fullCnt>>
      BY <2>1 DEF mapVars
    <3>2. CASE NextTarget(t)
      BY <2>1, <3>1, <3>2, NextIs
    <3>3. CASE place' = [place EXCEPT ![t] = "exchange"] /\ work' = work
      <4> DEFINE l == "exchange"
      <4>1. /\ l \in Places /\ l \notin Telling /\ l # "slot" /\ (l = "mark" => place[t] = "slot")
           /\ place[t] \in SchedPcs \cup LinkPcs /\ (l \in SchedPcs \ {"sched"} => v \in NotifyAll)
           /\ place' = [place EXCEPT ![t] = l] /\ UNCHANGED <<work, idx, fullCnt>>
        BY <2>1, <3>1, <3>3 DEF Places
      <4> HIDE DEF l
      <4>2. QED
        BY <4>1, PlaceStep DEF v
    <3>4. QED
      BY <2>1, <3>2, <3>3
  <2>3. UiTyped'
    <3>1. linkFl' \in [Vars -> Int]
      BY <1>1, <1>2, <2>1 DEF UiTyped
    <3>2. QED
      BY <1>1, <2>1, <3>1 DEF UiTyped
  <2>4. QED
    BY <2>1, <2>2, <2>3, TypesKept DEF FlowTyped, ThreadTyped
<1>12. CASE Exchange(t)
  <2>1. /\ place[t] = "exchange" /\ place' = [place EXCEPT ![t] = "chain"]
        /\ prev' = [prev EXCEPT ![t] = uiHead] /\ uiHead' = v
        /\ UNCHANGED <<val, mapVars, linkFl, link, work, idx, cnt, toldN, cycleVars, sets,
                       flowHist>>
    BY <1>2, <1>12 DEF Exchange, MoveTo
  <2>2. Threads1
    <3> DEFINE l == "chain"
    <3>1. /\ l \in Places /\ l \notin Telling /\ l # "slot" /\ (l = "mark" => place[t] = "slot")
         /\ place[t] \in SchedPcs \cup LinkPcs /\ (l \in SchedPcs \ {"sched"} => v \in NotifyAll)
         /\ place' = [place EXCEPT ![t] = l] /\ UNCHANGED <<work, idx, fullCnt>>
      BY <2>1 DEF Places, mapVars
    <3> HIDE DEF l
    <3>2. QED
      BY <3>1, PlaceStep DEF v
  <2>3. Threads2
    BY <1>1, <2>1 DEF ThreadTyped, UiTyped
  <2>4. UiTyped'
    BY <1>1, <1>2, <2>1 DEF UiTyped
  <2>5. QED
    BY <2>1, <2>2, <2>3, <2>4, TypesKept DEF FlowTyped, ThreadTyped
<1>13. CASE Chain(t)
  <2>1. /\ place[t] = "chain" /\ NextTarget(t)
        /\ link' = [link EXCEPT ![prev[t]] = v]
        /\ UNCHANGED <<val, mapVars, linkFl, uiHead, idx, prev, cnt, toldN, cycleVars, sets,
                       flowHist>>
    BY <1>2, <1>13 DEF Chain
  <2>2. Threads1
    BY <2>1, NextIs DEF mapVars
  <2>3. UiTyped'
    BY <1>1, <1>2, <2>1 DEF UiTyped
  <2>4. QED
    BY <2>1, <2>2, <2>3, TypesKept DEF FlowTyped, ThreadTyped
<1>14. QED
  BY <1>5, <1>6, <1>7, <1>8, <1>9, <1>10, <1>11, <1>12, <1>13 DEF Schedule

LEMMA ProcTyped ==
  ASSUME FlowTyped, NEW p \in Procs, ProcExec(p)
  PROVE  FlowTyped'
<1> USE DEF SchedPcs, LinkPcs, Telling
<1>1. /\ MapTyped /\ UiTyped /\ ThreadTyped /\ CycleTyped /\ HistTyped /\ WorkOK
  BY DEF FlowTyped
<1>2. p \in FlowThreads
  BY DEF FlowThreads
<1> DEFINE Threads1 == /\ place' \in [FlowThreads -> Places] /\ work' \in [FlowThreads -> Seq(Vars)]
                       /\ DOMAIN idx' = FlowThreads /\ idx' = [u \in FlowThreads |-> idx'[u]]
           Off(l) == l \in Places /\ l \notin SchedPcs \cup LinkPcs
                     /\ (l \in Telling => MapN(p) # 0)
\* A step to a place that is not in a call of var_set().
<1>3. ASSUME NEW l, Off(l), place' = [place EXCEPT ![p] = l], UNCHANGED <<work, idx, fullCnt>>
      PROVE  Threads1 /\ WorkOK'
  <2>1. l \in Places /\ l \notin SchedPcs \cup LinkPcs /\ (l \in Telling => MapN(p) # 0)
    BY <1>3
  <2>2. l # "slot" /\ l # "mark" /\ l \notin SchedPcs
    BY <2>1
  <2>3. QED
    BY <1>2, <1>3, <2>1, <2>2, PlaceStep
<1>4. CASE EnterProc(p)
  <2> DEFINE l == "load"
  <2>1. /\ place' = [place EXCEPT ![p] = l] /\ recurse' = [recurse EXCEPT ![p] = TRUE] /\ Off(l)
        /\ UNCHANGED <<val, modN, fullCnt, headIdx, tailIdx, mapA, uiVars, work, idx, prev, cnt,
                       toldN, cycleVars, sets, flowHist>>
    BY <1>4 DEF EnterProc, MoveTo, Places
  <2> HIDE DEF l
  <2>2. MapTyped'
    BY <1>1, <2>1 DEF MapTyped
  <2>3. Threads1 /\ WorkOK'
    BY <1>3, <2>1
  <2>4. QED
    BY <2>1, <2>2, <2>3, TypesKept DEF FlowTyped, ThreadTyped
<1>5. CASE Load(p)
  <2> DEFINE l == IF fullCnt[p] = 0 THEN "exec" ELSE "tell"
  <2>1. /\ place' = [place EXCEPT ![p] = l] /\ cnt' = [cnt EXCEPT ![p] = fullCnt[p]]
        /\ toldN' = [toldN EXCEPT ![p] = 0]
        /\ UNCHANGED <<val, mapVars, uiVars, work, idx, prev, cycleVars, sets, flowHist>>
    BY <1>5 DEF Load, MoveTo
  <2>2. Off(l)
    BY <1>1 DEF Places, WorkOK
  <2> HIDE DEF l
  <2>3. Threads1 /\ WorkOK'
    BY <1>3, <2>1, <2>2 DEF mapVars
  <2>4. cnt' \in [Procs -> Int] /\ toldN' \in [Procs -> Nat] /\ prev' = prev
    BY <1>1, <2>1 DEF ThreadTyped, MapTyped
  <2>5. QED
    BY <1>1, <2>1, <2>3, <2>4, TypesKept DEF FlowTyped, ThreadTyped
<1>6. CASE TellVar(p)
  <2> DEFINE l == "unmark"
             m == Modified(p)
  <2>1. /\ place[p] = "tell" /\ place' = [place EXCEPT ![p] = l]
        /\ seen' = [seen EXCEPT ![m] = Value(m)]
        /\ UNCHANGED <<val, mapVars, uiVars, work, idx, prev, cnt, toldN, cycleVars, sets, shown>>
    BY <1>6 DEF TellVar, MoveTo
  <2>2. Off(l)
    BY <1>1, <2>1 DEF Places, WorkOK
  <2>3. m \in Vars => Value(m) \in Nat
    BY <1>1, SourceIs DEF Value, HistTyped
  <2> HIDE DEF l, m
  <2>4. HistTyped'
    <3>1. val \in [Vars -> Nat] /\ seen \in [Vars -> Nat] /\ shown \in [Vars -> Nat]
      BY <1>1 DEF HistTyped
    <3>y. PICK y : y = Value(m)
      OBVIOUS
    <3>2. seen' \in [Vars -> Nat]
      <4>1. seen' = [seen EXCEPT ![m] = y] /\ (m \in Vars => y \in Nat)
        BY <2>1, <2>3, <3>y
      <4>2. [seen EXCEPT ![m] = y] \in [Vars -> Nat]
        BY <3>1, <4>1, ExceptIn
      <4>3. QED
        BY <4>1, <4>2
    <3>3. val' = val /\ shown' = shown
      BY <2>1
    <3>4. QED
      BY <3>1, <3>2, <3>3 DEF HistTyped
  <2>5. Threads1 /\ WorkOK'
    BY <1>3, <2>1, <2>2 DEF mapVars
  <2>6. QED
    BY <2>1, <2>4, <2>5, TypesKept DEF FlowTyped, ThreadTyped
<1>7. CASE Unmark(p)
  <2> DEFINE l == IF toldN[p] + 1 = cnt[p] THEN "release" ELSE "tell"
             m == Modified(p)
             i == (tailIdx[p] + 1) % MapN(p)
  <2>1. /\ place[p] = "unmark" /\ place' = [place EXCEPT ![p] = l]
        /\ modN' = [modN EXCEPT ![m] = 0] /\ tailIdx' = [tailIdx EXCEPT ![p] = i]
        /\ toldN' = [toldN EXCEPT ![p] = toldN[p] + 1]
        /\ UNCHANGED <<val, fullCnt, headIdx, mapA, recurse, uiVars, work, idx, prev, cnt,
                       cycleVars, sets, flowHist>>
    BY <1>7 DEF Unmark, Unmarked, MoveTo
  <2>2. Off(l) /\ MapN(p) # 0
    BY <1>1, <2>1 DEF Places, WorkOK
  <2>3. i \in Nat
    <3>1. MapN(p) \in Nat \ {0} /\ tailIdx[p] \in Nat
      BY <1>1, <2>2, NotifyIs DEF MapTyped
    <3>2. QED
      BY <3>1
  <2> HIDE DEF l, m, i
  <2>4. modN' \in [Vars -> Nat] /\ tailIdx' \in [Procs -> Nat]
    BY <1>1, <2>1, <2>3 DEF MapTyped
  <2>5. MapTyped'
    BY <1>1, <2>1, <2>4, SMTT(30) DEF MapTyped
  <2>6. Threads1 /\ WorkOK'
    BY <1>3, <2>1, <2>2
  <2>7. toldN' \in [Procs -> Nat] /\ cnt' \in [Procs -> Int] /\ prev' = prev
    BY <1>1, <2>1 DEF ThreadTyped
  <2>8. QED
    BY <1>1, <2>1, <2>5, <2>6, <2>7, TypesKept DEF FlowTyped, ThreadTyped
<1>8. CASE Release(p)
  <2> DEFINE l == "exec"
  <2>1. /\ place[p] = "release" /\ place' = [place EXCEPT ![p] = l]
        /\ fullCnt' = [fullCnt EXCEPT ![p] = fullCnt[p] - cnt[p]]
        /\ UNCHANGED <<val, modN, headIdx, tailIdx, mapA, recurse, uiVars, work, idx, prev, cnt,
                       toldN, cycleVars, sets, flowHist>>
    BY <1>8 DEF Release, Released, MoveTo
  <2>2. MapN(p) # 0
    BY <1>1, <2>1 DEF WorkOK
  <2>3. MapTyped'
    <3>1. fullCnt' \in [Procs -> Int]
      BY <1>1, <2>1 DEF MapTyped, ThreadTyped
    <3>2. QED
      BY <1>1, <2>1, <3>1 DEF MapTyped
  <2>4. Threads1
    BY <1>1, <1>2, <2>1 DEF ThreadTyped, Places
  <2>5. WorkOK'
    <3>1. /\ place'[p] = "exec" /\ work' = work /\ idx' = idx
          /\ \A u \in FlowThreads : u # p => place'[u] = place[u]
          /\ \A u \in FlowThreads : place'[u] # "exec" => u # p
      BY <1>1, <1>2, <2>1 DEF ThreadTyped
    <3>2. \A q \in Procs : MapN(q) = 0 => fullCnt'[q] = 0
      BY <1>1, <2>1, <2>2 DEF WorkOK, MapTyped
    <3>3. \A q \in Procs : q \in FlowThreads
      BY DEF FlowThreads
    <3>4. \A u \in FlowThreads : Target(u)' = Target(u)
      BY <2>1 DEF Target, Scheduled
    <3>5. \A u \in FlowThreads : place'[u] \in SchedPcs \cup LinkPcs \cup Telling => place'[u] = place[u]
      BY <3>1
    <3>6. QED
      BY <1>1, <3>1, <3>2, <3>3, <3>4, <3>5 DEF WorkOK
  <2>6. QED
    BY <2>1, <2>3, <2>4, <2>5, TypesKept DEF FlowTyped, ThreadTyped
<1>9. CASE Leave(p)
  <2> DEFINE l == "left"
  <2>1. /\ place' = [place EXCEPT ![p] = l] /\ recurse' = [recurse EXCEPT ![p] = FALSE] /\ Off(l)
        /\ UNCHANGED <<val, modN, fullCnt, headIdx, tailIdx, mapA, uiVars, work, idx, prev, cnt,
                       toldN, cycleVars, sets, flowHist>>
    BY <1>9 DEF Leave, MoveTo, Places
  <2> HIDE DEF l
  <2>2. MapTyped'
    BY <1>1, <2>1 DEF MapTyped
  <2>3. Threads1 /\ WorkOK'
    BY <1>3, <2>1
  <2>4. QED
    BY <2>1, <2>2, <2>3, TypesKept DEF FlowTyped, ThreadTyped
<1>10. QED
  BY <1>4, <1>5, <1>6, <1>7, <1>8, <1>9 DEF ProcExec

LEMMA TargetsTyped ==
  ASSUME NEW t, NEW v \in Vars
  PROVE  /\ Targets(t, v) \in Seq(Vars) /\ Targets(t, v) # <<>> /\ Targets(t, v)[1] = v
         /\ \A d \in Elems(Tail(Targets(t, v))) :
              d \in Elems(Dsts[v]) \/ (t = App /\ d = v)
         /\ t = App => v \in Elems(Tail(Targets(t, v)))
         /\ Elems(Dsts[v]) \subseteq Elems(Tail(Targets(t, v)))
<1> DEFINE s == Dsts[v]
           r == IF t = App THEN <<v>> ELSE <<>>
           n == Len(s)
           m == Len(r)
           w == (<<v>> \o s) \o r
<1>1. s \in Seq(Vars) /\ r \in Seq(Vars) /\ m \in {0, 1} /\ n \in Nat /\ DOMAIN s = 1 .. n
      /\ (t = App => m = 1) /\ (m = 1 => t = App /\ r[1] = v)
  BY NetIs
<1>2. Targets(t, v) = w
  BY DEF Targets
<1> HIDE DEF s, r
<1>3. /\ w \in Seq(Vars) /\ Len(w) = 1 + n + m /\ w[1] = v
      /\ \A i \in 1 .. n : w[i + 1] = s[i]
      /\ m = 1 => w[n + 2] = v
  BY <1>1, SMTT(60)
<1> HIDE DEF w, n, m
<1>4. w # <<>> /\ Len(w) \in Nat \ {0}
  BY <1>1, <1>3
<1>5. /\ Tail(w) \in Seq(Vars) /\ Len(Tail(w)) = Len(w) - 1 /\ DOMAIN Tail(w) = 1 .. (Len(w) - 1)
      /\ \A i \in 1 .. (Len(w) - 1) : Tail(w)[i] = w[i + 1]
  BY <1>3, <1>4
<1>6. Len(w) - 1 = n + m
  BY <1>1, <1>3
<1>7. DOMAIN Tail(w) = 1 .. (n + m) /\ \A i \in 1 .. (n + m) : Tail(w)[i] = w[i + 1]
  BY <1>5, <1>6
<1>8. /\ \A i \in 1 .. (n + m) : i \in 1 .. n \/ (i = n + 1 /\ m = 1)
      /\ 1 .. n \subseteq 1 .. (n + m) /\ (m = 1 => n + 1 \in 1 .. (n + m)) /\ (n + 1) + 1 = n + 2
  BY <1>1
<1>9. ASSUME NEW i \in DOMAIN Tail(w)
      PROVE  Tail(w)[i] \in Elems(s) \/ (t = App /\ Tail(w)[i] = v)
  <2>1. i \in 1 .. n \/ (i = n + 1 /\ m = 1)
    BY <1>7, <1>8
  <2>2. CASE i \in 1 .. n
    <3>1. i \in DOMAIN s /\ Tail(w)[i] = s[i]
      BY <1>1, <1>3, <1>7, <1>8, <2>2
    <3>2. QED
      BY <3>1 DEF Elems
  <2>3. CASE i = n + 1 /\ m = 1
    BY <1>1, <1>3, <1>7, <1>8, <2>3
  <2>4. QED
    BY <2>1, <2>2, <2>3
<1>10. ASSUME t = App PROVE v \in Elems(Tail(w))
  <2>1. n + 1 \in DOMAIN Tail(w) /\ Tail(w)[n + 1] = v
    BY <1>1, <1>3, <1>7, <1>8, <1>10
  <2>2. QED
    BY <2>1 DEF Elems
<1>11. Elems(s) \subseteq Elems(Tail(w))
  <2>1. \A i \in DOMAIN s : i \in DOMAIN Tail(w) /\ s[i] = Tail(w)[i]
    BY <1>1, <1>3, <1>7, <1>8
  <2>2. QED
    BY <2>1, ElemsOf
<1>12. \A d \in Elems(Tail(w)) : d \in Elems(s) \/ (t = App /\ d = v)
  BY <1>9 DEF Elems
<1>13. QED
  BY <1>2, <1>3, <1>4, <1>10, <1>11, <1>12 DEF s

LEMMA SetTyped ==
  ASSUME FlowTyped, NEW t \in FlowThreads, NEW v \in Vars, VarSet(t, v)
  PROVE  FlowTyped'
<1>1. /\ MapTyped /\ UiTyped /\ ThreadTyped /\ CycleTyped /\ HistTyped /\ WorkOK
  BY DEF FlowTyped
<1> DEFINE w == Targets(t, v)
           l == "link"
           i == idx[t]
<1>2. /\ sets < MaxSets /\ sets' = sets + 1 /\ val' = [val EXCEPT ![v] = val[v] + 1]
      /\ work' = [work EXCEPT ![t] = w] /\ place' = [place EXCEPT ![t] = l]
      /\ UNCHANGED <<mapVars, uiVars, idx, prev, cnt, toldN, cycleVars, flowHist>>
  BY DEF VarSet, MoveTo
<1>3. w \in Seq(Vars) /\ w # <<>> /\ idx' = [idx EXCEPT ![t] = i] /\ fullCnt' = fullCnt
  <2>1. w \in Seq(Vars) /\ w # <<>>
    BY TargetsTyped
  <2>2. idx' = [idx EXCEPT ![t] = i]
    BY <1>1, <1>2 DEF ThreadTyped
  <2>3. QED
    BY <1>2, <2>1, <2>2 DEF mapVars
<1>4. l \in Places /\ l \in LinkPcs /\ l \notin SchedPcs /\ l \notin Telling /\ l \notin {"slot", "mark"}
  BY DEF Places, LinkPcs, SchedPcs, Telling
<1> HIDE DEF w, l, i
<1>5. /\ place' \in [FlowThreads -> Places] /\ work' \in [FlowThreads -> Seq(Vars)]
      /\ DOMAIN idx' = FlowThreads /\ idx' = [u \in FlowThreads |-> idx'[u]] /\ WorkOK'
  BY <1>2, <1>3, <1>4, WorkStep
<1>6. CycleTyped'
  <2>1. sets' \in 0 .. MaxSets
    BY <1>1, <1>2, NetIs DEF CycleTyped
  <2>2. QED
    BY <1>1, <1>2, <2>1 DEF CycleTyped, cycleVars
<1>7. HistTyped'
  BY <1>1, <1>2 DEF HistTyped, flowHist
<1>8. QED
  BY <1>2, <1>5, <1>6, <1>7, TypesKept DEF FlowTyped, ThreadTyped

\* A step that changes the places of the threads alone, and only to those of
\* threads that are not in a call of var_set().
LEMMA PlacesStep ==
  ASSUME FlowTyped, place' \in [FlowThreads -> Places], UNCHANGED <<work, idx, fullCnt>>,
         \A t \in FlowThreads : place'[t] = place[t] \/ place'[t] \in {"idle", "enter"}
  PROVE  /\ work' \in [FlowThreads -> Seq(Vars)] /\ DOMAIN idx' = FlowThreads
         /\ idx' = [u \in FlowThreads |-> idx'[u]] /\ WorkOK'
<1>1. /\ work \in [FlowThreads -> Seq(Vars)] /\ DOMAIN idx = FlowThreads
      /\ idx = [u \in FlowThreads |-> idx[u]] /\ WorkOK
  BY DEF FlowTyped, ThreadTyped
<1>2. \A u \in FlowThreads : Target(u)' = Target(u)
  BY DEF Target, Scheduled
<1>3. \A u \in FlowThreads : place'[u] \in SchedPcs \cup LinkPcs \cup Telling => place'[u] = place[u]
  BY DEF SchedPcs, LinkPcs, Telling
<1>4. \A p \in Procs : p \in FlowThreads
  BY DEF FlowThreads
<1>5. SchedPcs \ {"sched"} \subseteq SchedPcs /\ {"slot", "mark"} \subseteq SchedPcs
  BY DEF SchedPcs
<1>6. QED
  BY <1>1, <1>2, <1>3, <1>4, <1>5 DEF WorkOK

LEMMA CycleStepTyped ==
  ASSUME FlowTyped, BeginCycle \/ NextStage \/ EndCycle \/ SendUiUpdates
  PROVE  FlowTyped'
<1>1. /\ MapTyped /\ UiTyped /\ ThreadTyped /\ CycleTyped /\ HistTyped /\ WorkOK
  BY DEF FlowTyped
<1> DEFINE Places1 == /\ place' \in [FlowThreads -> Places]
                      /\ \A t \in FlowThreads : place'[t] = place[t] \/ place'[t] \in {"idle", "enter"}
<1>2. {"idle", "enter"} \subseteq Places
  BY DEF Places
<1>3. UNCHANGED <<val, mapVars, uiVars, work, idx, prev, cnt, toldN, uiVar, sets, flowHist>>
  BY DEF BeginCycle, NextStage, EndCycle, SendUiUpdates, threadVars
<1>4. Len(Stages) \in Nat /\ stage \in Nat /\ uiIdx \in Nat
          /\ Len(Stages) > 0
  BY <1>1, NetIs DEF CycleTyped
<1>5. Places1 /\ CycleTyped'
  <2>1. CASE BeginCycle
    <3>1. place' = [t \in FlowThreads |-> IF t \in Stages[1] THEN "enter" ELSE place[t]]
          /\ stage' = 1 /\ UNCHANGED <<flush, uiVar, uiIdx, sets>>
      BY <2>1 DEF BeginCycle, Starts
    <3>2. Places1
      BY <1>1, <1>2, <3>1 DEF ThreadTyped
    <3>3. stage' \in 0 .. Len(Stages)
      BY <1>4, <3>1
    <3>4. QED
      BY <1>1, <3>1, <3>2, <3>3 DEF CycleTyped
  <2>2. CASE NextStage
    <3>1. place' = [t \in FlowThreads |->
                      IF t \in Stages[stage + 1] THEN "enter"
                      ELSE IF t = App THEN place[t] ELSE "idle"]
          /\ stage' = stage + 1 /\ stage < Len(Stages) /\ UNCHANGED <<flush, uiVar, uiIdx, sets>>
      BY <2>2 DEF NextStage, Starts, Rested
    <3>2. Places1
      BY <1>1, <1>2, <3>1 DEF ThreadTyped
    <3>3. stage' \in 0 .. Len(Stages)
      BY <1>4, <3>1
    <3>4. QED
      BY <1>1, <3>1, <3>2, <3>3 DEF CycleTyped
  <2>3. CASE EndCycle
    <3>1. /\ place' = [t \in FlowThreads |-> IF t = App THEN place[t] ELSE "idle"]
          /\ stage' = 0 /\ (flush' = "first" \/ flush' = flush) /\ (uiIdx' = 1 \/ uiIdx' = uiIdx + 1)
          /\ UNCHANGED <<uiVar, sets>>
      BY <2>3 DEF EndCycle, Rested
    <3>2. Places1
      BY <1>1, <1>2, <3>1 DEF ThreadTyped
    <3>3. stage' \in 0 .. Len(Stages) /\ uiIdx' \in Nat
      BY <1>4, <3>1
    <3>4. QED
      BY <1>1, <3>1, <3>2, <3>3 DEF CycleTyped
  <2>4. CASE SendUiUpdates
    <3>1. place' = place /\ flush' = "first" /\ UNCHANGED <<stage, uiVar, uiIdx, sets>>
      BY <2>4 DEF SendUiUpdates, threadVars
    <3>2. Places1
      BY <1>1, <3>1 DEF ThreadTyped
    <3>3. QED
      BY <1>1, <3>1, <3>2 DEF CycleTyped
  <2>5. QED
    BY <2>1, <2>2, <2>3, <2>4
<1>6. /\ work' \in [FlowThreads -> Seq(Vars)] /\ DOMAIN idx' = FlowThreads
      /\ idx' = [u \in FlowThreads |-> idx'[u]] /\ WorkOK'
  <2>1. UNCHANGED <<work, idx, fullCnt>>
    BY <1>3 DEF mapVars
  <2>2. QED
    BY <1>5, <2>1, PlacesStep
<1>7. QED
  BY <1>3, <1>5, <1>6, TypesKept DEF FlowTyped, ThreadTyped

LEMMA FlushTyped ==
  ASSUME FlowTyped, Flush
  PROVE  FlowTyped'
<1>1. /\ MapTyped /\ UiTyped /\ ThreadTyped /\ CycleTyped /\ HistTyped /\ WorkOK
  BY DEF FlowTyped
<1>2. UNCHANGED <<val, mapVars, threadVars, stage, uiIdx, sets, seen>>
  BY DEF Flush, FlushFirst, FlushShow, FlushUnlink, FlushUnflag, FlushHead,
         FlushStub, flowHist
<1>3. Stub # Nil
  BY NetIs
<1>4. UiTyped' /\ shown' \in [Vars -> Nat] /\ CycleTyped'
  <2>1. CASE FlushFirst
    BY <1>1, <2>1 DEF FlushFirst, FlushTo, UiTyped, CycleTyped, HistTyped, uiVars, flowHist
  <2>2. CASE FlushShow
    <3> DEFINE v == uiVar[1]
    <3>1. /\ v \in Vars /\ shown' = [shown EXCEPT ![v] = Value(v)] /\ UNCHANGED <<uiVars, stage, uiIdx, sets>>
          /\ flush' = "unlink" /\ uiVar' = <<v, link[v]>>
      BY <1>1, <2>2 DEF FlushShow, FlushTo, CycleTyped
    <3> HIDE DEF v
    <3>2. Value(v) \in Nat
      BY <1>1, <3>1, SourceIs DEF Value, HistTyped
    <3>3. shown' \in [Vars -> Nat]
      BY <1>1, <3>1, <3>2 DEF HistTyped
    <3>4. UiTyped'
      BY <1>1, <3>1 DEF UiTyped, uiVars
    <3>5. CycleTyped'
      BY <1>1, <3>1 DEF UiTyped, CycleTyped
    <3>6. QED
      BY <3>3, <3>4, <3>5
  <2>3. CASE FlushUnlink
    BY <1>1, <1>3, <2>3 DEF FlushUnlink, FlushTo, UiTyped, CycleTyped, HistTyped, flowHist
  <2>4. CASE FlushUnflag
    BY <1>1, <2>4 DEF FlushUnflag, FlagZero, FlushTo, UiTyped, CycleTyped, HistTyped, flowHist
  <2>5. CASE FlushHead
    BY <1>1, <2>5 DEF FlushHead, HeadStub, FlushTo, UiTyped, CycleTyped, HistTyped, flowHist
  <2>6. CASE FlushStub
    BY <1>1, <2>6 DEF FlushStub, FlushTo, UiTyped, CycleTyped, HistTyped, flowHist
  <2>7. QED
    BY <2>1, <2>2, <2>3, <2>4, <2>5, <2>6 DEF Flush
<1>5. ThreadTyped' /\ WorkOK'
  BY <1>1, <1>2 DEF ThreadTyped, WorkOK, threadVars, mapVars, Target, Scheduled
<1>6. QED
  BY <1>1, <1>2, <1>4, <1>5, TypesKept DEF FlowTyped, HistTyped

LEMMA FlowTypedInit ==
  ASSUME FlowInit
  PROVE  FlowTyped
<1>1. MapTyped
  <2>1. ASSUME NEW p \in Procs
        PROVE  /\ Len(NotifyVars[p]) % Word \in 0 .. (Word - 1)
               /\ (IF MapN(p) = 0 THEN 0 ELSE Len(NotifyVars[p]) % MapN(p)) \in Nat
               /\ [i \in MapSlots(p) |-> IF i < Len(NotifyVars[p]) THEN NotifyVars[p][i + 1] ELSE Nil]
                    \in [MapSlots(p) -> Vars \cup {Nil}]
    <3>1. Len(NotifyVars[p]) \in Nat /\ MapN(p) \in Nat /\ Word \in Nat \ {0}
      BY NotifyIs, NetIs
    <3>2. \A i \in 1 .. Len(NotifyVars[p]) : NotifyVars[p][i] \in Vars
      BY NotifyIs
    <3>3. MapSlots(p) = 0 .. (MapN(p) - 1)
      BY DEF MapSlots
    <3>4. \A i \in MapSlots(p) : i < Len(NotifyVars[p]) => NotifyVars[p][i + 1] \in Vars
      BY <3>1, <3>2, <3>3
    <3>5. Len(NotifyVars[p]) % Word \in 0 .. (Word - 1)
      BY <3>1, RemainderIs
    <3>6. (IF MapN(p) = 0 THEN 0 ELSE Len(NotifyVars[p]) % MapN(p)) \in Nat
      <4> DEFINE n == Len(NotifyVars[p])
                 m == MapN(p)
      <4>1. n \in Nat /\ m \in Nat
        BY <3>1
      <4> HIDE DEF n, m
      <4>2. (IF m = 0 THEN 0 ELSE n % m) \in Nat
        BY <4>1
      <4>3. QED
        BY <4>2 DEF n, m
    <3>7. QED
      BY <3>4, <3>5, <3>6
  <2>2. /\ modN = [v \in Vars |-> 0] /\ fullCnt = [p \in Procs |-> 0]
        /\ headIdx = [p \in Procs |-> Len(NotifyVars[p]) % Word]
        /\ tailIdx = [p \in Procs |-> IF MapN(p) = 0 THEN 0 ELSE Len(NotifyVars[p]) % MapN(p)]
        /\ mapA = [p \in Procs |-> [i \in MapSlots(p) |->
                     IF i < Len(NotifyVars[p]) THEN NotifyVars[p][i + 1] ELSE Nil]]
        /\ recurse = [p \in Procs |-> FALSE]
    BY DEF FlowInit
  <2>3. /\ modN \in [Vars -> Nat] /\ fullCnt \in [Procs -> Int] /\ recurse \in [Procs -> BOOLEAN]
    BY <2>2
  <2>4. headIdx \in [Procs -> 0 .. (Word - 1)] /\ tailIdx \in [Procs -> Nat]
    BY <2>1, <2>2
  <2>5. DOMAIN mapA = Procs /\ \A p \in Procs : mapA[p] \in [MapSlots(p) -> Vars \cup {Nil}]
    BY <2>1, <2>2
  <2>6. mapA = [p \in Procs |-> mapA[p]]
    BY <2>2
  <2>7. QED
    BY <2>3, <2>4, <2>5, <2>6 DEF MapTyped
<1>2. UiTyped
  BY DEF FlowInit, UiTyped
<1>3. ThreadTyped
  <2>1. /\ place = [t \in FlowThreads |-> "idle"] /\ work = [t \in FlowThreads |-> <<>>]
        /\ idx = [t \in FlowThreads |-> 0] /\ prev = [t \in FlowThreads |-> Stub]
        /\ cnt = [p \in Procs |-> 0] /\ toldN = [p \in Procs |-> 0]
    BY DEF FlowInit
  <2>2. <<>> \in Seq(Vars) /\ "idle" \in Places
    BY DEF Places
  <2>3. QED
    BY <2>1, <2>2 DEF ThreadTyped
<1>4. CycleTyped
  <2>1. stage = 0 /\ flush = "no" /\ uiVar = <<Nil, Nil>> /\ uiIdx = 0 /\ sets = 0
    BY DEF FlowInit
  <2>2. 0 \in 0 .. Len(Stages) /\ 0 \in 0 .. MaxSets
    BY NetIs
  <2>3. QED
    BY <2>1, <2>2 DEF CycleTyped
<1>5. HistTyped
  BY DEF FlowInit, HistTyped
<1>6. WorkOK
  <2>1. /\ place = [t \in FlowThreads |-> "idle"] /\ fullCnt = [p \in Procs |-> 0]
    BY DEF FlowInit
  <2>2. \A p \in Procs : p \in FlowThreads
    BY DEF FlowThreads
  <2>3. "idle" \notin SchedPcs \cup LinkPcs \cup Telling \cup {"slot", "mark"}
    BY DEF SchedPcs, LinkPcs, Telling
  <2>4. QED
    BY <2>1, <2>2, <2>3 DEF WorkOK
<1>7. QED
  BY <1>1, <1>2, <1>3, <1>4, <1>5, <1>6 DEF FlowTyped

LEMMA FlowTypedStep ==
  ASSUME FlowTyped, [FlowNext]_flowVars
  PROVE  FlowTyped'
<1>1. CASE UNCHANGED flowVars
  <2>1. UNCHANGED <<val, mapVars, uiVars, threadVars, cycleVars, sets, flowHist>>
    BY <1>1 DEF flowVars
  <2>2. ThreadTyped' /\ WorkOK'
    BY <2>1 DEF FlowTyped, ThreadTyped, WorkOK, threadVars, mapVars, Target, Scheduled
  <2>3. QED
    BY <2>1, <2>2, TypesKept DEF FlowTyped
<1>2. ASSUME NEW t \in FlowThreads, Schedule(t) PROVE FlowTyped'
  BY <1>2, ScheduleTyped
<1>3. ASSUME NEW p \in Procs, ProcExec(p) PROVE FlowTyped'
  BY <1>3, ProcTyped
<1>4. ASSUME NEW v \in UiSets, AppSet(v) PROVE FlowTyped'
  <2>1. App \in FlowThreads /\ v \in Vars /\ VarSet(App, v)
    BY <1>4, NetIs DEF AppSet
  <2>2. QED
    BY <2>1, SetTyped
<1>5. ASSUME NEW p \in Procs, NEW v \in Outs, ProcSet(p, v) PROVE FlowTyped'
  <2>1. p \in FlowThreads /\ v \in Vars /\ VarSet(p, v)
    BY <1>5, NetIs DEF ProcSet
  <2>2. QED
    BY <2>1, SetTyped
<1>6. CASE SendUiUpdates \/ Cycle
  BY <1>6, CycleStepTyped, FlushTyped DEF Cycle
<1>7. QED
  BY <1>1, <1>2, <1>3, <1>4, <1>5, <1>6 DEF FlowNext

\* The types that FlowVars states are among these.
LEMMA FlowTypedIs ==
  ASSUME FlowTyped
  PROVE  FlowTypeOK
<1>1. Places = {"idle", "enter", "load", "tell", "unmark", "release", "exec",
                "left", "sched", "check", "reserve", "head", "slot", "mark",
                "link", "exchange", "chain"}
  BY DEF Places, Telling, SchedPcs, LinkPcs
<1>2. TypeMaps /\ TypeUi
  BY DEF FlowTyped, MapTyped, UiTyped, TypeMaps, TypeUi
<1>3. TypeThreads
  BY <1>1 DEF FlowTyped, ThreadTyped, WorkOK, TypeThreads
<1>4. TypeCycle /\ TypeHistory
  BY DEF FlowTyped, CycleTyped, HistTyped, TypeCycle, TypeHistory
<1>5. QED
  BY <1>2, <1>3, <1>4 DEF FlowTypeOK

\* FlowTypeCorrect: whoever sets variables, and whenever, the variables of the
\* model of the network have their types.  In particular the slot of a map
\* that a thread has been given is one of the map.
THEOREM FlowTypeCorrect == FlowSpec => []FlowTypeOK
<1>1. FlowInit => FlowTyped
  BY FlowTypedInit
<1>2. FlowTyped /\ [FlowNext]_flowVars => FlowTyped'
  BY FlowTypedStep
<1>3. FlowTyped => FlowTypeOK
  BY FlowTypedIs
<1>4. QED
  BY <1>1, <1>2, <1>3, PTL DEF FlowSpec

------------------------------------------------------------------------------
(***************************************************************************)
(* That no change is lost, when the application holds the callback mutex   *)
(* (~UiAsync).  Where each thread is: the application is idle in a cycle,  *)
(* and the processors that execute are those of the stage.  So whoever     *)
(* schedules a variable does so while its processor is idle, and nobody    *)
(* else schedules that variable.                                           *)
(***************************************************************************)
PhaseInv ==
  /\ InCycle => place[App] = "idle"
  /\ stage = 0 => \A p \in Procs : place[p] = "idle"
  /\ stage # 0 => \A p \in Procs : place[p] # "idle" => p \in Stages[stage]
  /\ \A p \in Procs : recurse[p] => place[p] \notin {"idle", "enter", "left"}
  /\ \A t \in FlowThreads : work[t] # <<>> => place[t] \in SchedPcs \cup LinkPcs

\* What a processor still has to link or to schedule comes from one of its own.
SourceInv ==
  \A p \in Procs : \A v \in Elems(work[p]) : Src(v) \in Outs /\ Owner[Src(v)] = p

(***************************************************************************)
(* The map of modified variables of a processor.  The count is that of the *)
(* variables that are marked or about to be (Busy).  The slots from the    *)
(* tail to the head are those of the variables that have one (Held), and   *)
(* each of these is in its slot unless its thread has still to write it.   *)
(* While the processor is told, the window is what is left to tell.        *)
(***************************************************************************)
On(p, L) == {v \in Notify(p) : \E t \in FlowThreads : place[t] \in L /\ work[t][1] = v}
MarkedIn(p) == {v \in Notify(p) : modN[v] > 0}
Counted(p) == On(p, {"head", "slot", "mark"})
Given(p) == On(p, {"slot", "mark"})
Writing(p) == On(p, {"slot"})
Busy(p) == MarkedIn(p) \cup Counted(p)
Held(p) == MarkedIn(p) \cup Given(p)
Win(p) == IF place[p] \in Telling THEN cnt[p] - toldN[p] ELSE Cardinality(Held(p))
At(p, k) == (tailIdx[p] + k) % MapN(p)
Claims(t, p) == place[t] = "slot" /\ work[t][1] \in Notify(p)

CountInv(p) ==
  /\ fullCnt[p] = IF place[p] \in Telling THEN cnt[p] ELSE Cardinality(Busy(p))
  /\ place[p] \in {"tell", "unmark"} => toldN[p] < cnt[p]
  /\ place[p] = "release" => toldN[p] = cnt[p]
  /\ place[p] \in Telling => cnt[p] <= MapN(p)
HeadInv(p) == MapN(p) # 0 =>
  /\ tailIdx[p] \in MapSlots(p)
  /\ headIdx[p] % MapN(p) = At(p, Win(p))
ClaimInv(p) ==
  /\ \A t \in FlowThreads : Claims(t, p) => \E k \in 0 .. (Win(p) - 1) : idx[t] = At(p, k)
  /\ \A t, u \in FlowThreads : Claims(t, p) /\ Claims(u, p) /\ t # u => idx[t] # idx[u]
SlotInv(p) ==
  /\ \A i \in MapSlots(p) : mapA[p][i] \in Notify(p) \cup {Nil}
  /\ \A v \in Held(p) \ Writing(p) : \E k \in 0 .. (Win(p) - 1) :
       mapA[p][At(p, k)] = v /\ \A t \in FlowThreads : Claims(t, p) => idx[t] # At(p, k)
MapInv(p) == CountInv(p) /\ HeadInv(p) /\ ClaimInv(p) /\ SlotInv(p)

\* A variable that is about to be marked is not marked yet.
UnmarkedInv ==
  \A t \in FlowThreads : place[t] \in {"reserve", "head", "slot", "mark"} => modN[work[t][1]] = 0

\* What a thread has still to schedule.
Later(t) ==
  IF place[t] \in SchedPcs THEN Elems(work[t])
  ELSE IF place[t] \in LinkPcs THEN Elems(Tail(work[t])) ELSE {}

\* A processor knows the value of each of its variables, or will be told.
SeenInv(p) ==
  \A v \in Notify(p) :
    seen[v] = Value(v) \/ modN[v] > 0 \/ \E t \in FlowThreads : v \in Later(t)

\* After proc_notify() nothing is marked; what it is telling is seen.
ToldInv(p) ==
  /\ place[p] \notin {"idle", "enter", "load"} \cup Telling => MarkedIn(p) = {}
  /\ place[p] = "unmark" =>
       LET m == Modified(p) IN m \in Notify(p) => seen[m] = Value(m)

ChangeInv ==
  /\ FlowTyped /\ PhaseInv /\ SourceInv /\ UnmarkedInv
  /\ \A p \in Procs : MapInv(p) /\ SeenInv(p) /\ ToldInv(p)

\* What the theorem is about: the application holds the callback mutex, a
\* processor does not set those of its variables that notify, and the index of
\* the head is not cut down by a map of fewer variables than there are.
FlowSync ==
  /\ ~UiAsync
  /\ Outs \cap NotifyAll = {}
  /\ \A p \in Procs : Len(NotifyVars[p]) < Word

\* The steps of a call of var_set().
LEMMA ScheduleMoves ==
  ASSUME FlowTyped, NEW t \in FlowThreads, Schedule(t)
  PROVE  /\ place[t] \in SchedPcs \cup LinkPcs
         /\ \E l \in SchedPcs \cup LinkPcs \cup {Home(t)}, w \in Seq(Vars) :
              /\ place' = [place EXCEPT ![t] = l] /\ work' = [work EXCEPT ![t] = w]
              /\ Elems(w) \subseteq Elems(work[t])
              /\ w # <<>> => l \in SchedPcs \cup LinkPcs
         /\ UNCHANGED <<recurse, stage, flush, val, cnt, toldN, tailIdx, seen>>
<1> USE DEF SchedPcs, LinkPcs
<1>1. place[t] \in SchedPcs \cup LinkPcs
  BY DEF Schedule, Sched, Check, Reserve, TakeHead, Slot, Mark, Link, Exchange, Chain
<1>2. UNCHANGED <<recurse, stage, flush, val, cnt, toldN, tailIdx, seen>>
  BY DEF Schedule, Sched, Check, Reserve, TakeHead, Slot, Mark, Link, Exchange,
         Chain, mapVars, cycleVars, flowHist
<1>3. work \in [FlowThreads -> Seq(Vars)] /\ work[t] \in Seq(Vars) /\ work[t] # <<>>
  BY <1>1 DEF FlowTyped, ThreadTyped, WorkOK
<1> DEFINE Goal == \E l \in SchedPcs \cup LinkPcs \cup {Home(t)}, w \in Seq(Vars) :
                     /\ place' = [place EXCEPT ![t] = l] /\ work' = [work EXCEPT ![t] = w]
                     /\ Elems(w) \subseteq Elems(work[t])
                     /\ w # <<>> => l \in SchedPcs \cup LinkPcs
<1> SUFFICES Goal
  BY <1>1, <1>2
<1>4. ASSUME NEW l \in SchedPcs \cup LinkPcs, place' = [place EXCEPT ![t] = l], work' = work
      PROVE  Goal
  <2> DEFINE w == work[t]
  <2>1. w \in Seq(Vars) /\ work' = [work EXCEPT ![t] = w] /\ Elems(w) \subseteq Elems(work[t])
    BY <1>3, <1>4
  <2> HIDE DEF w
  <2>2. QED
    BY <1>4, <2>1
<1>5. ASSUME NextTarget(t) PROVE Goal
  <2> DEFINE w == Tail(work[t])
             l == IF Len(work[t]) > 1 THEN "sched" ELSE Home(t)
  <2>1. work' = [work EXCEPT ![t] = w] /\ place' = [place EXCEPT ![t] = l]
    BY <1>5 DEF NextTarget, MoveTo
  <2>2. w \in Seq(Vars) /\ Elems(w) \subseteq Elems(work[t]) /\ (Len(work[t]) > 1 <=> w # <<>>)
    BY <1>3, WorkIs, ZenonT(30)
  <2>3. l \in SchedPcs \cup LinkPcs \cup {Home(t)} /\ (w # <<>> => l = "sched")
    BY <2>2
  <2> HIDE DEF w, l
  <2>4. QED
    BY <2>1, <2>2, <2>3
<1>6. CASE Sched(t) \/ Check(t) \/ TakeHead(t) \/ Slot(t) \/ Mark(t) \/ Exchange(t)
  <2>1. work' = work
    BY <1>6 DEF Sched, Check, TakeHead, Slot, Mark, Exchange
  <2>2. \E l \in SchedPcs \cup LinkPcs : place' = [place EXCEPT ![t] = l]
    BY <1>6 DEF Sched, Check, TakeHead, Slot, Mark, Exchange, MoveTo
  <2>3. QED
    BY <1>4, <2>1, <2>2, ZenonT(30)
<1>7. CASE Reserve(t)
  <2>1. \/ work' = [work EXCEPT ![t] = <<>>] /\ place' = [place EXCEPT ![t] = Home(t)]
        \/ place' = [place EXCEPT ![t] = "head"] /\ work' = work
    BY <1>7 DEF Reserve, MoveTo
  <2>2. CASE work' = [work EXCEPT ![t] = <<>>] /\ place' = [place EXCEPT ![t] = Home(t)]
    <3>1. <<>> \in Seq(Vars) /\ Elems(<<>>) \subseteq Elems(work[t])
      BY DEF Elems
    <3>2. QED
      BY <2>2, <3>1
  <2>3. CASE place' = [place EXCEPT ![t] = "head"] /\ work' = work
    BY <1>4, <2>3, ZenonT(30)
  <2>4. QED
    BY <2>1, <2>2, <2>3
<1>8. CASE Link(t)
  <2>1. NextTarget(t) \/ (place' = [place EXCEPT ![t] = "exchange"] /\ work' = work)
    BY <1>8 DEF Link, MoveTo
  <2>2. QED
    BY <1>4, <1>5, <2>1
<1>9. CASE Chain(t)
  <2>1. NextTarget(t)
    BY <1>9 DEF Chain
  <2>2. QED
    BY <1>5, <2>1
<1>10. QED
  BY <1>6, <1>7, <1>8, <1>9 DEF Schedule

\* The steps of proc_exec().
LEMMA ExecMoves ==
  ASSUME FlowTyped, NEW p \in Procs, ProcExec(p)
  PROVE  /\ place[p] \in {"enter", "load", "exec"} \cup Telling
         /\ \E l \in {"load", "exec", "left"} \cup Telling : 
              /\ place' = [place EXCEPT ![p] = l]
              /\ l = "left" => place[p] = "exec" /\ ~recurse'[p]
              /\ l = "load" => place[p] = "enter"
              /\ l # "load" => place[p] # "enter"
         /\ \A q \in Procs : q # p => recurse'[q] = recurse[q]
         /\ UNCHANGED <<stage, flush, val, work, idx, uiVars>>
<1>1. CASE EnterProc(p)
  BY <1>1 DEF EnterProc, MoveTo, cycleVars, FlowTyped, MapTyped
<1>2. CASE Leave(p)
  BY <1>2 DEF Leave, MoveTo, cycleVars, FlowTyped, MapTyped
<1>3. CASE Load(p)
  <2>1. place[p] = "load" /\ UNCHANGED <<recurse, stage, flush, val, work, idx, uiVars>>
    BY <1>3 DEF Load, cycleVars, mapVars
  <2>2. \E l \in {"exec", "tell"} : place' = [place EXCEPT ![p] = l]
    BY <1>3 DEF Load, MoveTo
  <2>3. QED
    BY <2>1, <2>2 DEF Telling
<1>4. CASE TellVar(p)
  BY <1>4 DEF TellVar, MoveTo, cycleVars, mapVars, Telling
<1>5. CASE Unmark(p)
  BY <1>5 DEF Unmark, MoveTo, cycleVars, Telling
<1>6. CASE Release(p)
  BY <1>6 DEF Release, MoveTo, cycleVars, Telling
<1>7. QED
  BY <1>1, <1>2, <1>3, <1>4, <1>5, <1>6 DEF ProcExec

\* A step of one thread, in a cycle if it executes a processor and between
\* cycles if it is that of the application, leaves everybody in his phase.
LEMMA ThreadPhase ==
  ASSUME FlowTyped, PhaseInv, NEW t \in FlowThreads, NEW l, NEW w,
         place' = [place EXCEPT ![t] = l], work' = [work EXCEPT ![t] = w],
         UNCHANGED <<stage, flush>>,
         t \in Procs => place[t] # "idle", t = App => ~InCycle,
         w # <<>> => l \in SchedPcs \cup LinkPcs,
         \A p \in Procs : p # t => recurse'[p] = recurse[p],
         t \in Procs /\ recurse'[t] => l \notin {"idle", "enter", "left"}
  PROVE  PhaseInv'
<1>1. place \in [FlowThreads -> Places] /\ work \in [FlowThreads -> Seq(Vars)]
  BY DEF FlowTyped, ThreadTyped
<1>2. FlowThreads = Procs \cup {App} /\ App \notin Procs
  BY NetIs
<1>3. /\ place'[t] = l /\ work'[t] = w
      /\ \A u \in FlowThreads : u # t => place'[u] = place[u] /\ work'[u] = work[u]
  BY <1>1
<1>4. InCycle' <=> InCycle
  BY DEF InCycle
<1>5. (InCycle => place[App] = "idle")'
  BY <1>2, <1>3, <1>4 DEF PhaseInv
<1>6. stage = 0 => \A p \in Procs : place'[p] = "idle"
  BY <1>2, <1>3 DEF PhaseInv
<1>7. stage # 0 => \A p \in Procs : place'[p] # "idle" => p \in Stages[stage]
  BY <1>2, <1>3 DEF PhaseInv
<1>8. \A p \in Procs : recurse'[p] => place'[p] \notin {"idle", "enter", "left"}
  BY <1>2, <1>3 DEF PhaseInv
<1>9. \A u \in FlowThreads : work'[u] # <<>> => place'[u] \in SchedPcs \cup LinkPcs
  BY <1>3 DEF PhaseInv
<1>10. QED
  BY <1>5, <1>6, <1>7, <1>8, <1>9 DEF PhaseInv

LEMMA SchedulePhase ==
  ASSUME FlowTyped, PhaseInv, NEW t \in FlowThreads, Schedule(t)
  PROVE  PhaseInv'
<1>1. PICK l \in SchedPcs \cup LinkPcs \cup {Home(t)}, w \in Seq(Vars) :
        /\ place' = [place EXCEPT ![t] = l] /\ work' = [work EXCEPT ![t] = w]
        /\ w # <<>> => l \in SchedPcs \cup LinkPcs
  BY ScheduleMoves
<1>2. place[t] \in SchedPcs \cup LinkPcs /\ UNCHANGED <<recurse, stage, flush>>
  BY ScheduleMoves
<1>3. "idle" \notin SchedPcs \cup LinkPcs /\ "enter" \notin SchedPcs \cup LinkPcs
      /\ "left" \notin SchedPcs \cup LinkPcs
  BY DEF SchedPcs, LinkPcs
<1>4. t = App => ~InCycle
  BY <1>2, <1>3 DEF PhaseInv
<1>5. t \in Procs => l \notin {"idle", "enter", "left"}
  BY <1>3, NetIs DEF Home
<1>6. QED
  BY <1>1, <1>2, <1>3, <1>4, <1>5, ThreadPhase

LEMMA ExecPhase ==
  ASSUME FlowTyped, PhaseInv, NEW p \in Procs, ProcExec(p)
  PROVE  PhaseInv'
<1>1. PICK l \in {"load", "exec", "left"} \cup Telling : 
        place' = [place EXCEPT ![p] = l] /\ (l = "left" => ~recurse'[p])
  BY ExecMoves
<1>2. /\ place[p] \in {"enter", "load", "exec"} \cup Telling
      /\ \A q \in Procs : q # p => recurse'[q] = recurse[q]
      /\ UNCHANGED <<stage, flush, work>>
  BY ExecMoves
<1>3. p \in FlowThreads /\ p # App
  BY NetIs
<1>4. "idle" \notin Telling /\ "enter" \notin Telling /\ "left" \notin Telling
      /\ (SchedPcs \cup LinkPcs) \cap ({"enter", "load", "exec"} \cup Telling) = {}
  BY DEF Telling, SchedPcs, LinkPcs
<1> DEFINE w == work[p]
<1>5. work' = [work EXCEPT ![p] = w] /\ w = <<>>
  BY <1>2, <1>3, <1>4 DEF FlowTyped, ThreadTyped, PhaseInv
<1> HIDE DEF w
<1>6. place[p] # "idle" /\ (recurse'[p] => l \notin {"idle", "enter", "left"})
  BY <1>1, <1>2, <1>4
<1>7. (w # <<>> => l \in SchedPcs \cup LinkPcs) /\ (p = App => ~InCycle)
      /\ (p \in Procs => place[p] # "idle")
      /\ (p \in Procs /\ recurse'[p] => l \notin {"idle", "enter", "left"})
  BY <1>3, <1>5, <1>6
<1>8. work' = [work EXCEPT ![p] = w] /\ place' = [place EXCEPT ![p] = l]
  BY <1>1, <1>5
<1>9. UNCHANGED <<stage, flush>> /\ \A q \in Procs : q # p => recurse'[q] = recurse[q]
  BY <1>2
<1>10. QED
  BY <1>3, <1>7, <1>8, <1>9, ThreadPhase

LEMMA SetPhase ==
  ASSUME FlowTyped, PhaseInv, NEW t \in FlowThreads, NEW v \in Vars,
         VarSet(t, v), IF t = App THEN ~InCycle ELSE place[t] = "exec"
  PROVE  PhaseInv'
<1> DEFINE w == Targets(t, v)
           l == "link"
<1>1. /\ work' = [work EXCEPT ![t] = w] /\ place' = [place EXCEPT ![t] = l]
      /\ UNCHANGED <<recurse, stage, flush>>
  BY DEF VarSet, MoveTo, mapVars, cycleVars
<1>2. l \in SchedPcs \cup LinkPcs /\ l \notin {"idle", "enter", "left"}
  BY DEF LinkPcs
<1>3. t \in Procs => t # App
  BY NetIs
<1> HIDE DEF w, l
<1>4. QED
  BY <1>1, <1>2, <1>3, ThreadPhase

LEMMA CyclePhase ==
  ASSUME ~UiAsync, FlowTyped, PhaseInv, SendUiUpdates \/ Cycle
  PROVE  PhaseInv'
<1>1. place \in [FlowThreads -> Places] /\ FlowThreads = Procs \cup {App} /\ App \notin Procs
  BY NetIs DEF FlowTyped, ThreadTyped
<1>2. Len(Stages) \in Nat \ {0} /\ Stages \in Seq(SUBSET Procs) /\ stage \in 0 .. Len(Stages)
  BY NetIs DEF FlowTyped, CycleTyped
<1>3. BeginCycle \/ NextStage \/ EndCycle \/ SendUiUpdates \/ Flush => UNCHANGED <<recurse, work>>
  BY DEF BeginCycle, NextStage, EndCycle, SendUiUpdates, Flush, FlushFirst, FlushShow,
         FlushUnlink, FlushUnflag, FlushHead, FlushStub, mapVars, threadVars
<1>4. UNCHANGED <<recurse, work>>
  BY <1>3 DEF Cycle
\* A stage begins, and nobody else has anything to do.
<1>5. ASSUME NEW i \in Nat \ {0}, i <= Len(Stages), stage' = i, place[App] = "idle",
             \A p \in Procs : place[p] \in {"idle", "left"},
             \A t \in FlowThreads : place'[t] = "enter" \/ (place'[t] = "idle" /\ t \notin Stages[i]),
             \A t \in FlowThreads : place'[t] = "enter" => t \in Stages[i]
      PROVE  PhaseInv'
  <2>1. Stages[i] \subseteq Procs
    BY <1>2, <1>5
  <2>2. place'[App] = "idle"
    BY <1>1, <1>5, <2>1
  <2>3. \A p \in Procs : ~recurse'[p]
    BY <1>4, <1>5 DEF PhaseInv
  <2>4. \A t \in FlowThreads : work'[t] = <<>>
    <3>1. \A t \in FlowThreads : place[t] \in {"idle", "left"}
      BY <1>1, <1>5
    <3>2. QED
      BY <1>4, <3>1 DEF PhaseInv, SchedPcs, LinkPcs
  <2>5. QED
    BY <1>1, <1>5, <2>2, <2>3, <2>4 DEF PhaseInv
<1>6. CASE BeginCycle
  <2>1. /\ place' = [t \in FlowThreads |-> IF t \in Stages[1] THEN "enter" ELSE place[t]]
        /\ stage' = 1 /\ ~InCycle /\ place[App] = "idle"
    BY <1>6 DEF BeginCycle, Starts
  <2>2. \A p \in Procs : place[p] = "idle"
    BY <2>1 DEF PhaseInv, InCycle
  <2>3. \A t \in FlowThreads : place'[t] = IF t \in Stages[1] THEN "enter" ELSE "idle"
    BY <1>1, <2>1, <2>2
  <2>4. 1 \in Nat \ {0} /\ 1 <= Len(Stages)
    BY <1>2
  <2>5. QED
    BY <1>5, <2>1, <2>2, <2>3, <2>4
<1>7. ASSUME StageDone
      PROVE  /\ stage # 0 /\ place[App] = "idle" /\ \A p \in Procs : place[p] \in {"idle", "left"}
  BY <1>7 DEF StageDone, PhaseInv, InCycle
<1>8. CASE NextStage
  <2>1. /\ StageDone
        /\ place' = [t \in FlowThreads |->
                       IF t \in Stages[stage + 1] THEN "enter" ELSE IF t = App THEN place[t] ELSE "idle"]
        /\ stage' = stage + 1 /\ stage < Len(Stages)
    BY <1>8 DEF NextStage, Starts, Rested
  <2>2. \A t \in FlowThreads : place'[t] = IF t \in Stages[stage + 1] THEN "enter" ELSE "idle"
    BY <1>7, <2>1
  <2> DEFINE i == stage + 1
  <2>3. i \in Nat \ {0} /\ i <= Len(Stages) /\ stage' = i
    BY <1>2, <2>1
  <2>4. \A t \in FlowThreads : place'[t] = IF t \in Stages[i] THEN "enter" ELSE "idle"
    BY <2>2
  <2> HIDE DEF i
  <2>5. QED
    BY <1>5, <1>7, <2>1, <2>3, <2>4
<1>9. CASE EndCycle
  <2>1. /\ StageDone /\ place' = [t \in FlowThreads |-> IF t = App THEN place[t] ELSE "idle"]
        /\ stage' = 0
    BY <1>9 DEF EndCycle, Rested
  <2>2. \A t \in FlowThreads : place'[t] = "idle" /\ place[t] \in {"idle", "left"}
    BY <1>1, <1>7, <2>1
  <2>3. \A t \in FlowThreads : work'[t] = <<>>
    BY <1>4, <2>2 DEF PhaseInv, SchedPcs, LinkPcs
  <2>4. \A p \in Procs : ~recurse'[p]
    BY <1>1, <1>4, <2>2 DEF PhaseInv
  <2>5. QED
    BY <1>1, <2>1, <2>2, <2>3, <2>4 DEF PhaseInv
<1>10. ASSUME place' = place, stage' = stage, InCycle \/ place[App] = "idle"
       PROVE  PhaseInv'
  BY <1>4, <1>10 DEF PhaseInv, InCycle
<1>11. CASE SendUiUpdates
  BY <1>10, <1>11 DEF SendUiUpdates, threadVars
<1>12. CASE Flush
  BY <1>10, <1>12 DEF Flush, FlushFirst, FlushShow, FlushUnlink, FlushUnflag, FlushHead,
                     FlushStub, threadVars, InCycle
<1>13. QED
  BY <1>6, <1>8, <1>9, <1>11, <1>12 DEF Cycle

\* Everybody stays in his phase.
LEMMA PhaseStep ==
  ASSUME ~UiAsync, FlowTyped, PhaseInv, [FlowNext]_flowVars
  PROVE  PhaseInv'
<1>1. CASE UNCHANGED flowVars
  BY <1>1 DEF flowVars, mapVars, threadVars, cycleVars, PhaseInv, InCycle
<1>2. ASSUME NEW v \in UiSets, AppSet(v) PROVE PhaseInv'
  <2>1. App \in FlowThreads /\ v \in Vars /\ VarSet(App, v) /\ ~InCycle
    BY <1>2, NetIs DEF AppSet
  <2>2. QED
    BY <2>1, SetPhase
<1>3. ASSUME NEW p \in Procs, NEW v \in Outs, ProcSet(p, v) PROVE PhaseInv'
  <2>1. p \in FlowThreads /\ p # App /\ v \in Vars /\ VarSet(p, v) /\ place[p] = "exec"
    BY <1>3, NetIs DEF ProcSet
  <2>2. QED
    BY <2>1, SetPhase
<1>4. QED
  BY <1>1, <1>2, <1>3, SchedulePhase, ExecPhase, CyclePhase DEF FlowNext

LEMMA SourceStep ==
  ASSUME FlowTyped, SourceInv, [FlowNext]_flowVars
  PROVE  SourceInv'
<1>1. /\ work \in [FlowThreads -> Seq(Vars)] /\ FlowThreads = Procs \cup {App} /\ App \notin Procs
      /\ Outs \subseteq Vars /\ UiSets \subseteq Vars
  BY NetIs DEF FlowTyped, ThreadTyped
<1>2. ASSUME \A p \in Procs : Elems(work'[p]) \subseteq Elems(work[p])
      PROVE  SourceInv'
  BY <1>2 DEF SourceInv
<1>3. ASSUME NEW t \in FlowThreads, Schedule(t) PROVE SourceInv'
  <2>1. PICK w \in Seq(Vars) : work' = [work EXCEPT ![t] = w] /\ Elems(w) \subseteq Elems(work[t])
    BY <1>3, ScheduleMoves
  <2>2. QED
    BY <1>1, <1>2, <2>1
<1>4. ASSUME NEW p \in Procs, ProcExec(p) PROVE SourceInv'
  BY <1>2, <1>4, ExecMoves
<1>5. ASSUME NEW v \in UiSets, AppSet(v) PROVE SourceInv'
  <2>1. work' = [work EXCEPT ![App] = Targets(App, v)]
    BY <1>5 DEF AppSet, VarSet
  <2>2. QED
    BY <1>1, <1>2, <2>1
<1>6. ASSUME NEW p \in Procs, NEW v \in Outs, ProcSet(p, v) PROVE SourceInv'
  <2> DEFINE w == Targets(p, v)
  <2>1. work' = [work EXCEPT ![p] = w] /\ Owner[v] = p /\ v \in Vars
    BY <1>1, <1>6 DEF ProcSet, VarSet
  <2>2. /\ w \in Seq(Vars) /\ w # <<>> /\ w[1] = v
        /\ \A d \in Elems(Tail(w)) : d \in Elems(Dsts[v])
    BY <1>1, <2>1, TargetsTyped
  <2> HIDE DEF w
  <2>3. Elems(w) = {v} \cup Elems(Tail(w))
    BY <2>2, WorkIs
  <2>4. Src(v) = v
    BY FlowAssumption
  <2>5. \A d \in Elems(w) : Src(d) = v
    BY <2>1, <2>2, <2>3, <2>4, SourceIs
  <2>6. QED
    BY <1>1, <2>1, <2>5 DEF SourceInv
<1>7. ASSUME work' = work PROVE SourceInv'
  BY <1>2, <1>7
<1>8. CASE SendUiUpdates \/ Cycle \/ UNCHANGED flowVars
  <2>1. work' = work
    BY <1>8 DEF flowVars, Cycle, BeginCycle, NextStage, EndCycle, SendUiUpdates, Flush,
                FlushFirst, FlushShow, FlushUnlink, FlushUnflag, FlushHead, FlushStub,
                threadVars
  <2>2. QED
    BY <1>7, <2>1
<1>9. QED
  BY <1>3, <1>4, <1>5, <1>6, <1>8 DEF FlowNext

\* Nobody schedules a variable whose processor is not idle.
LEMMA TargetIdle ==
  ASSUME FlowSync, FlowTyped, PhaseInv, SourceInv, NEW t \in FlowThreads,
         NEW v \in Elems(work[t]), v \in NotifyAll
  PROVE  place[Owner[v]] = "idle" /\ t # Owner[v]
<1>1. Outs \cap NotifyAll = {}
  BY DEF FlowSync
<1>2. FlowThreads = Procs \cup {App} /\ App \notin Procs /\ Len(Stages) \in Nat
      /\ stage \in 0 .. Len(Stages) /\ Owner[v] \in Procs /\ v \in Vars
  BY <1>1, NetIs, NotifyOwner DEF FlowTyped, CycleTyped
<1>3. work[t] # <<>>
  BY DEF Elems
<1>4. place[t] # "idle"
  BY <1>3 DEF PhaseInv, SchedPcs, LinkPcs
<1>5. CASE t = App
  BY <1>2, <1>4, <1>5 DEF PhaseInv, InCycle
<1>6. CASE t \in Procs
  <2>1. stage # 0 /\ t \in Stages[stage] /\ stage \in DOMAIN Stages
    <3>1. stage # 0 /\ t \in Stages[stage]
      BY <1>4, <1>6 DEF PhaseInv
    <3>2. DOMAIN Stages = 1 .. Len(Stages)
      BY <1>1, NetIs
    <3>3. QED
      BY <1>2, <3>1, <3>2
  <2> DEFINE u == Src(v)
  <2>2. u \in Outs /\ Owner[u] = t /\ u # v
    BY <1>1, <1>6 DEF SourceInv
  <2>3. v \in Elems(Dsts[u])
    BY <2>2 DEF Src
  <2> HIDE DEF u
  <2>4. ~ {Owner[u], Owner[v]} \subseteq Stages[stage]
    BY FlowAssumption, <1>1, <2>1, <2>2, <2>3
  <2>5. Owner[v] \notin Stages[stage]
    BY <2>1, <2>2, <2>4
  <2>6. place[Owner[v]] = "idle"
    BY <1>2, <2>1, <2>5 DEF PhaseInv
  <2>7. QED
    BY <1>4, <2>6
<1>7. QED
  BY <1>2, <1>5, <1>6

\* Two threads never have the same variable to schedule.
LEMMA OneScheduler ==
  ASSUME FlowSync, FlowTyped, PhaseInv, SourceInv, NEW t \in FlowThreads, NEW u \in FlowThreads,
         NEW v \in Elems(work[t]), v \in Elems(work[u])
  PROVE  t = u
<1>1. FlowThreads = Procs \cup {App} /\ App \notin Procs
  BY NetIs DEF FlowSync
<1>2. \A x \in FlowThreads : v \in Elems(work[x]) => place[x] # "idle"
  <2>1. \A x \in FlowThreads : v \in Elems(work[x]) => work[x] # <<>>
    BY DEF Elems
  <2>2. QED
    BY <2>1 DEF PhaseInv, SchedPcs, LinkPcs
<1>3. t \in Procs => u # App
  BY <1>1, <1>2 DEF PhaseInv, InCycle
<1>4. u \in Procs => t # App
  BY <1>1, <1>2 DEF PhaseInv, InCycle
<1>5. t \in Procs /\ u \in Procs => t = u
  BY DEF SourceInv
<1>6. QED
  BY <1>1, <1>3, <1>4, <1>5

\* The index after h, and the slots of a window that begins at x.
LEMMA NextRemainder ==
  ASSUME NEW h \in Nat, NEW m \in Nat \ {0}
  PROVE  (h + 1) % m = IF (h % m) + 1 < m THEN (h % m) + 1 ELSE 0
<1> DEFINE q == h \div m
           r == h % m
<1>1. q \in Nat /\ r \in 0 .. (m - 1) /\ h = m * q + r
  OBVIOUS
<1> HIDE DEF q, r
<1>2. CASE r + 1 < m
  <2>1. (m * q + (r + 1)) % m = r + 1
    BY <1>1, <1>2
  <2>2. QED
    BY <1>1, <1>2, <2>1 DEF r
<1>3. CASE ~ (r + 1 < m)
  <2>1. (m * (q + 1)) % m = 0
    BY <1>1
  <2>2. h + 1 = m * (q + 1)
    BY <1>1, <1>3
  <2>3. QED
    BY <1>1, <1>3, <2>1, <2>2 DEF r
<1>4. QED
  BY <1>2, <1>3

LEMMA AtIs ==
  ASSUME NEW m \in Nat \ {0}, NEW x \in 0 .. (m - 1), NEW k \in 0 .. m
  PROVE  (x + k) % m = IF x + k < m THEN x + k ELSE x + k - m
<1>1. x + k < m => (x + k) % m = x + k
  OBVIOUS
<1>2. x + k >= m => (x + k) % m = x + k - m
  OBVIOUS
<1>3. QED
  BY <1>1, <1>2

LEMMA WindowIs ==
  ASSUME NEW m \in Nat \ {0}, NEW x \in 0 .. (m - 1)
  PROVE  /\ (x + 0) % m = x /\ (x + 1) % m = IF x + 1 < m THEN x + 1 ELSE 0
         /\ (x + 1) % m \in 0 .. (m - 1)
<1>1. 0 \in 0 .. m /\ 1 \in 0 .. m
  OBVIOUS
<1>2. (x + 1) % m = IF x + 1 < m THEN x + 1 ELSE x + 1 - m
  BY <1>1, AtIs
<1>3. (x + 0) % m = x
  <2>1. x + 0 = x /\ x % m = x
    OBVIOUS
  <2>2. QED
    BY <2>1
<1>4. (IF x + 1 < m THEN x + 1 ELSE x + 1 - m) = (IF x + 1 < m THEN x + 1 ELSE 0)
  OBVIOUS
<1>5. (IF x + 1 < m THEN x + 1 ELSE 0) \in 0 .. (m - 1)
  OBVIOUS
<1>6. QED
  BY <1>2, <1>3, <1>4, <1>5

LEMMA WindowApart ==
  ASSUME NEW m \in Nat \ {0}, NEW x \in 0 .. (m - 1), NEW j \in 0 .. (m - 1),
         NEW k \in 0 .. (m - 1), j # k
  PROVE  (x + j) % m # (x + k) % m
<1>1. j \in 0 .. m /\ k \in 0 .. m
  OBVIOUS
<1>2. /\ (x + j) % m = IF x + j < m THEN x + j ELSE x + j - m
      /\ (x + k) % m = IF x + k < m THEN x + k ELSE x + k - m
  BY <1>1, AtIs
<1>3. QED
  BY <1>2

LEMMA WindowNext ==
  ASSUME NEW m \in Nat \ {0}, NEW x \in 0 .. (m - 1), NEW k \in 0 .. (m - 1)
  PROVE  (x + (k + 1)) % m = IF ((x + k) % m) + 1 < m THEN ((x + k) % m) + 1 ELSE 0
<1>1. k \in 0 .. m /\ k + 1 \in 0 .. m
  OBVIOUS
<1>2. (x + (k + 1)) % m = IF x + (k + 1) < m THEN x + (k + 1) ELSE x + (k + 1) - m
  BY <1>1, AtIs
<1>3. (x + k) % m = IF x + k < m THEN x + k ELSE x + k - m
  BY <1>1, AtIs
<1>4. (IF x + (k + 1) < m THEN x + (k + 1) ELSE x + (k + 1) - m)
        = LET z == IF x + k < m THEN x + k ELSE x + k - m IN IF z + 1 < m THEN z + 1 ELSE 0
  OBVIOUS
<1>5. QED
  BY <1>2, <1>3, <1>4

LEMMA WindowShift ==
  ASSUME NEW m \in Nat \ {0}, NEW x \in 0 .. (m - 1), NEW k \in 0 .. (m - 1)
  PROVE  (((x + 1) % m) + k) % m = (x + (k + 1)) % m
<1> DEFINE y == (x + 1) % m
<1>1. y \in 0 .. (m - 1) /\ y = IF x + 1 < m THEN x + 1 ELSE 0
  BY WindowIs
<1>2. k \in 0 .. m /\ k + 1 \in 0 .. m
  OBVIOUS
<1>3. (x + (k + 1)) % m = IF x + (k + 1) < m THEN x + (k + 1) ELSE x + (k + 1) - m
  BY <1>2, AtIs
<1> HIDE DEF y
<1>4. (y + k) % m = IF y + k < m THEN y + k ELSE y + k - m
  BY <1>1, <1>2, AtIs
<1>5. (IF y + k < m THEN y + k ELSE y + k - m)
        = (IF x + (k + 1) < m THEN x + (k + 1) ELSE x + (k + 1) - m)
  BY <1>1
<1>6. QED
  BY <1>3, <1>4, <1>5 DEF y

\* Sets of variables that a processor is told of.
LEMMA NotifyCard ==
  ASSUME NEW p \in Procs, NEW S \in SUBSET Notify(p)
  PROVE  /\ IsFiniteSet(S) /\ Cardinality(S) \in Nat /\ Cardinality(S) <= MapN(p)
         /\ Cardinality(S) = 0 <=> S = {}
         /\ \A v \in Notify(p) \ S : /\ Cardinality(S) < MapN(p)
                                     /\ Cardinality(S \cup {v}) = Cardinality(S) + 1
<1> DEFINE N == Notify(p)
           n == MapN(p)
<1>1. IsFiniteSet(N) /\ Cardinality(N) \in Nat /\ n \in Nat /\ Cardinality(N) <= n
  <2>1. IsFiniteSet(N) /\ Cardinality(N) <= Len(NotifyVars[p]) /\ Len(NotifyVars[p]) <= n
        /\ Len(NotifyVars[p]) \in Nat /\ n \in Nat
    BY NotifyIs
  <2>2. Cardinality(N) \in Nat
    BY <2>1, FS_CardinalityType
  <2>3. QED
    BY <2>1, <2>2
<1> HIDE DEF N, n
<1>2. \A T \in SUBSET N : IsFiniteSet(T) /\ Cardinality(T) \in Nat /\ Cardinality(T) <= n
  <2> SUFFICES ASSUME NEW T \in SUBSET N
               PROVE  IsFiniteSet(T) /\ Cardinality(T) \in Nat /\ Cardinality(T) <= n
    OBVIOUS
  <2>1. IsFiniteSet(T) /\ Cardinality(T) <= Cardinality(N)
    BY <1>1, FS_Subset
  <2>2. Cardinality(T) \in Nat
    BY <2>1, FS_CardinalityType
  <2>3. QED
    BY <1>1, <2>1, <2>2
<1>3. S \in SUBSET N
  BY DEF N
<1>4. Cardinality(S) = 0 <=> S = {}
  BY <1>2, <1>3, FS_EmptySet
<1>5. ASSUME NEW v \in N \ S
      PROVE  Cardinality(S) < n /\ Cardinality(S \cup {v}) = Cardinality(S) + 1
  <2>1. S \cup {v} \in SUBSET N
    BY <1>3
  <2>2. Cardinality(S \cup {v}) = Cardinality(S) + 1
    BY <1>2, <1>3, FS_AddElement
  <2>3. Cardinality(S \cup {v}) <= n /\ Cardinality(S) \in Nat
    BY <1>2, <1>3, <2>1
  <2>4. QED
    BY <1>1, <2>2, <2>3
<1>6. QED
  BY <1>2, <1>3, <1>4, <1>5 DEF N, n

\* The ring of a processor is as it was if the variables that hold a slot are
\* the same, and those that have still to write it.
LEMMA RingSame ==
  ASSUME NEW q \in Procs, HeadInv(q), ClaimInv(q), SlotInv(q),
         headIdx'[q] = headIdx[q], tailIdx'[q] = tailIdx[q], mapA'[q] = mapA[q],
         Held(q)' = Held(q), Writing(q)' = Writing(q), Win(q)' = Win(q),
         \A t \in FlowThreads : Claims(t, q)' <=> Claims(t, q),
         \A t \in FlowThreads : Claims(t, q) => idx'[t] = idx[t]
  PROVE  HeadInv(q)' /\ ClaimInv(q)' /\ SlotInv(q)'
<1>1. \A k : At(q, k)' = At(q, k)
  BY DEF At
<1>2. HeadInv(q)'
  <2>1. At(q, Win(q))' = At(q, Win(q))
    BY DEF At
  <2>2. QED
    BY <2>1 DEF HeadInv
<1>3. ClaimInv(q)'
  BY <1>1 DEF ClaimInv
<1>4. SlotInv(q)'
  <2>1. \A i \in MapSlots(q) : mapA'[q][i] \in Notify(q) \cup {Nil}
    BY DEF SlotInv
  <2>2. ASSUME NEW v \in Held(q) \ Writing(q)
        PROVE  \E k \in 0 .. (Win(q)' - 1) :
                 /\ mapA'[q][At(q, k)'] = v
                 /\ \A t \in FlowThreads : Claims(t, q)' => idx'[t] # At(q, k)'
    <3>1. PICK k \in 0 .. (Win(q) - 1) :
            mapA[q][At(q, k)] = v /\ \A t \in FlowThreads : Claims(t, q) => idx[t] # At(q, k)
      BY DEF SlotInv
    <3>2. QED
      BY <1>1, <3>1
  <2>3. QED
    BY <2>1, <2>2 DEF SlotInv
<1>5. QED
  BY <1>2, <1>3, <1>4

\* The map of a processor is as it was if nothing of it is written and nobody
\* begins or ends to schedule one of its variables.
LEMMA MapSame ==
  ASSUME NEW q \in Procs, MapInv(q),
         fullCnt'[q] = fullCnt[q], headIdx'[q] = headIdx[q], tailIdx'[q] = tailIdx[q],
         mapA'[q] = mapA[q], \A v \in Notify(q) : modN'[v] = modN[v],
         place[q] \in Telling \/ place'[q] \in Telling =>
           place'[q] = place[q] /\ cnt'[q] = cnt[q] /\ toldN'[q] = toldN[q],
         \A t \in FlowThreads, v \in Notify(q), l \in {"head", "slot", "mark"} :
           place'[t] = l /\ work'[t][1] = v <=> place[t] = l /\ work[t][1] = v,
         \A t \in FlowThreads : place[t] = "slot" => idx'[t] = idx[t]
  PROVE  MapInv(q)'
<1>1. MarkedIn(q)' = MarkedIn(q)
  BY DEF MarkedIn
<1>2. ASSUME NEW L \in SUBSET {"head", "slot", "mark"} PROVE On(q, L)' = On(q, L)
  BY ZenonT(30) DEF On
<1>3. Counted(q)' = Counted(q)
      /\ Given(q)' = Given(q) /\ Writing(q)' = Writing(q)
  BY <1>2 DEF Counted, Given, Writing
<1>4. Held(q)' = Held(q) /\ Busy(q)' = Busy(q)
  BY <1>1, <1>3 DEF Held, Busy
<1>5. Win(q)' = Win(q)
  BY <1>4 DEF Win
<1>7. \A t \in FlowThreads : /\ Claims(t, q)' <=> Claims(t, q)
                             /\ Claims(t, q) => idx'[t] = idx[t]
  BY DEF Claims
<1>8. CountInv(q)'
  <2>1. CountInv(q)
    BY DEF MapInv
  <2>2. CASE place[q] \in Telling \/ place'[q] \in Telling
    BY <1>4, <2>1, <2>2 DEF CountInv
  <2>3. CASE ~ (place[q] \in Telling \/ place'[q] \in Telling)
    BY <1>4, <2>1, <2>3 DEF CountInv, Telling
  <2>4. QED
    BY <2>2, <2>3
<1>9. HeadInv(q)' /\ ClaimInv(q)' /\ SlotInv(q)'
  BY <1>3, <1>4, <1>5, <1>7, RingSame DEF MapInv
<1>10. QED
  BY <1>8, <1>9 DEF MapInv

MapPcs == {"head", "slot", "mark"}

\* Steps that are not about a map at all.
LEMMA MapOff ==
  ASSUME NEW q \in Procs, MapInv(q), Procs \subseteq FlowThreads,
         UNCHANGED <<modN, fullCnt, headIdx, tailIdx, mapA, cnt, toldN, idx>>,
         \A t \in FlowThreads :
           \/ place'[t] = place[t] /\ work'[t] = work[t]
           \/ {place[t], place'[t]} \cap (MapPcs \cup Telling) = {}
  PROVE  MapInv(q)'
<1>1. place[q] \in Telling \/ place'[q] \in Telling => place'[q] = place[q]
  OBVIOUS
<1>2. \A t \in FlowThreads, v \in Notify(q), l \in {"head", "slot", "mark"} :
        place'[t] = l /\ work'[t][1] = v <=> place[t] = l /\ work[t][1] = v
  BY DEF MapPcs
<1>3. QED
  BY <1>1, <1>2, MapSame

\* What a thread does with a variable is nothing to the other maps.
LEMMA MapElse ==
  ASSUME FlowTyped, NEW q \in Procs, MapInv(q), NEW t \in FlowThreads, NEW l,
         place' = [place EXCEPT ![t] = l], work' = work,
         place[t] \notin Telling, l \notin Telling, work[t][1] \notin Notify(q),
         fullCnt'[q] = fullCnt[q], headIdx'[q] = headIdx[q], tailIdx'[q] = tailIdx[q],
         mapA'[q] = mapA[q], \A v \in Notify(q) : modN'[v] = modN[v],
         UNCHANGED <<cnt, toldN>>,
         \A u \in FlowThreads : place[u] = "slot" => idx'[u] = idx[u]
  PROVE  MapInv(q)'
<1>1. place \in [FlowThreads -> Places] /\ Procs \subseteq FlowThreads
  BY DEF FlowTyped, ThreadTyped, FlowThreads
<1>2. place'[t] = l /\ \A u \in FlowThreads : u # t => place'[u] = place[u]
  BY <1>1
<1>3. place[q] \in Telling \/ place'[q] \in Telling =>
        place'[q] = place[q] /\ cnt'[q] = cnt[q] /\ toldN'[q] = toldN[q]
  BY <1>1, <1>2
<1>4. \A u \in FlowThreads, v \in Notify(q), m \in {"head", "slot", "mark"} :
        place'[u] = m /\ work'[u][1] = v <=> place[u] = m /\ work[u][1] = v
  BY <1>1, <1>2
<1>5. QED
  BY <1>3, <1>4, MapSame

\* The thread that schedules a variable is the only one.
LEMMA OnlyOn ==
  ASSUME FlowSync, FlowTyped, PhaseInv, SourceInv, NEW t \in FlowThreads, work[t] # <<>>,
         NEW u \in FlowThreads, place[u] \in SchedPcs, work[u][1] = work[t][1]
  PROVE  u = t
<1>1. work \in [FlowThreads -> Seq(Vars)] /\ work[u] # <<>>
  BY DEF FlowTyped, ThreadTyped, WorkOK
<1>2. work[u][1] \in Elems(work[u]) /\ work[t][1] \in Elems(work[t])
  BY <1>1, WorkIs
<1>3. QED
  BY <1>2, OneScheduler

LEMMA OnMoves ==
  ASSUME FlowSync, FlowTyped, PhaseInv, SourceInv, NEW t \in FlowThreads, NEW l,
         place[t] \in SchedPcs, NEW p \in Procs, NEW v \in Notify(p), v = work[t][1],
         place'[t] = l, \A u \in FlowThreads : u # t => place'[u] = place[u],
         \A u \in FlowThreads : work'[u] = work[u]
  PROVE  /\ l \in {"head", "slot", "mark"} =>
              Counted(p)' = Counted(p) \cup {v}
         /\ l \notin {"head", "slot", "mark"} =>
              Counted(p)' = Counted(p) \ {v}
         /\ l \in {"slot", "mark"} => Given(p)' = Given(p) \cup {v}
         /\ l \notin {"slot", "mark"} => Given(p)' = Given(p) \ {v}
         /\ l = "slot" => Writing(p)' = Writing(p) \cup {v}
         /\ l # "slot" => Writing(p)' = Writing(p) \ {v}
         /\ v \in Counted(p) <=> place[t] \in {"head", "slot", "mark"}
         /\ v \in Given(p) <=> place[t] \in {"slot", "mark"}
         /\ v \in Writing(p) <=> place[t] = "slot"
<1>1. {"head", "slot", "mark"} \subseteq SchedPcs /\ {"slot", "mark"} \subseteq SchedPcs
      /\ {"slot"} \subseteq SchedPcs
  BY DEF SchedPcs
<1>2. work[t] # <<>>
  BY DEF FlowTyped, WorkOK
<1> DEFINE S(L) == {w \in Notify(p) : \E u \in FlowThreads : place'[u] \in L /\ work'[u][1] = w}
<1>3. ASSUME NEW L, L \subseteq SchedPcs
      PROVE  /\ S(L) = IF l \in L THEN On(p, L) \cup {v} ELSE On(p, L) \ {v}
             /\ v \in On(p, L) <=> place[t] \in L
  <2>1. \A u \in FlowThreads : place[u] \in L /\ work[u][1] = v => u = t
    BY <1>2, <1>3, OnlyOn
  <2>2. S(L) = {w \in Notify(p) : \E u \in FlowThreads : place'[u] \in L /\ work[u][1] = w}
    OBVIOUS
  <2>3. On(p, L) = {w \in Notify(p) : \E u \in FlowThreads : place[u] \in L /\ work[u][1] = w}
    BY DEF On
  <2> HIDE DEF S
  <2>4. \A w \in Notify(p) : w # v => (w \in S(L) <=> w \in On(p, L))
    BY <2>2, <2>3
  <2>5. (v \in S(L) <=> l \in L) /\ (v \in On(p, L) <=> place[t] \in L)
    BY <2>1, <2>2, <2>3
  <2>6. S(L) \subseteq Notify(p) /\ On(p, L) \subseteq Notify(p)
    BY <2>2, <2>3
  <2>7. QED
    BY <2>4, <2>5, <2>6
<1>4. /\ Counted(p)' = S({"head", "slot", "mark"})
      /\ Given(p)' = S({"slot", "mark"}) /\ Writing(p)' = S({"slot"})
  BY DEF On, Counted, Given, Writing
<1> HIDE DEF S
<1>5. /\ S({"head", "slot", "mark"}) =
           IF l \in {"head", "slot", "mark"} THEN Counted(p) \cup {v}
           ELSE Counted(p) \ {v}
      /\ v \in Counted(p) <=> place[t] \in {"head", "slot", "mark"}
  BY <1>1, <1>3 DEF Counted
<1>6. /\ S({"slot", "mark"}) =
           IF l \in {"slot", "mark"} THEN Given(p) \cup {v}
           ELSE Given(p) \ {v}
      /\ v \in Given(p) <=> place[t] \in {"slot", "mark"}
  BY <1>1, <1>3 DEF Given
<1>7. /\ S({"slot"}) = IF l \in {"slot"} THEN Writing(p) \cup {v} ELSE Writing(p) \ {v}
      /\ v \in Writing(p) <=> place[t] \in {"slot"}
  BY <1>1, <1>3 DEF Writing
<1>8. QED
  BY <1>4, <1>5, <1>6, <1>7

\* While a processor is not idle nobody schedules a variable of it.
LEMMA NobodyOn ==
  ASSUME FlowSync, FlowTyped, PhaseInv, SourceInv, NEW p \in Procs, place[p] # "idle"
  PROVE  /\ \A t \in FlowThreads : place[t] \in SchedPcs => work[t][1] \notin Notify(p)
         /\ \A t \in FlowThreads : \A v \in Elems(work[t]) : v \notin Notify(p)
         /\ \A L \in SUBSET SchedPcs : On(p, L) = {}
         /\ \A t \in FlowThreads : ~Claims(t, p)
         /\ Held(p) = MarkedIn(p) /\ Busy(p) = MarkedIn(p)
<1>1. work \in [FlowThreads -> Seq(Vars)]
  BY DEF FlowSync, FlowTyped, ThreadTyped
<1>2. \A v \in Notify(p) : v \in NotifyAll /\ Owner[v] = p
  <2>1. \A v \in Notify(p) : Owner[v] = p
    BY <1>1, NotifyIs
  <2>2. \A v \in Notify(p) : v \in NotifyAll
    BY DEF NotifyAll
  <2>3. QED
    BY <2>1, <2>2
<1>3. \A t \in FlowThreads : \A v \in Elems(work[t]) : v \notin Notify(p)
  BY <1>2, TargetIdle
<1>4. \A t \in FlowThreads : place[t] \in SchedPcs => work[t][1] \in Elems(work[t])
  BY <1>1, WorkIs DEF FlowTyped, WorkOK
<1>5. \A t \in FlowThreads : place[t] \in SchedPcs => work[t][1] \notin Notify(p)
  BY <1>3, <1>4
<1>6. \A L \in SUBSET SchedPcs : On(p, L) = {}
  BY <1>5 DEF On
<1>7. \A t \in FlowThreads : ~Claims(t, p)
  BY <1>5 DEF Claims, SchedPcs
<1>8. {"head", "slot", "mark"} \in SUBSET SchedPcs /\ {"slot", "mark"} \in SUBSET SchedPcs
  BY DEF SchedPcs
<1>9. QED
  BY <1>3, <1>5, <1>6, <1>7, <1>8 DEF Held, Busy, Counted, Given

\* What a thread that schedules a variable that notifies works with.
LEMMA TargetIs ==
  ASSUME FlowSync, FlowTyped, PhaseInv, SourceInv, NEW t \in FlowThreads,
         place[t] \in SchedPcs, work[t][1] \in NotifyAll
  PROVE  LET v == work[t][1]
             p == Owner[v]
         IN  /\ v \in Vars /\ p \in Procs /\ v \in Notify(p) /\ MapN(p) \in Nat \ {0}
             /\ Scheduled(t) = v /\ Target(t) = p /\ place[p] = "idle" /\ t # p
             /\ work[t] # <<>> /\ work[t] \in Seq(Vars)
             /\ \A q \in Procs : q # p => v \notin Notify(q)
<1> DEFINE v == work[t][1]
           p == Owner[v]
<1>2. v \in Vars /\ p \in Procs /\ v \in Notify(p) /\ MapN(p) \in Nat \ {0}
  BY NotifyOwner
<1>3. Scheduled(t) = v /\ Target(t) = p
  BY DEF Scheduled, Target
<1>4. work[t] # <<>> /\ work[t] \in Seq(Vars)
  BY DEF FlowTyped, ThreadTyped, WorkOK
<1>5. v \in Elems(work[t])
  BY <1>4, WorkIs
<1>6. place[p] = "idle" /\ t # p
  BY <1>5, TargetIdle
<1>7. \A q \in Procs : q # p => v \notin Notify(q)
  BY NotifyIs
<1>8. QED
  BY <1>2, <1>3, <1>4, <1>6, <1>7

LEMMA MapTarget ==
  ASSUME FlowSync, ChangeInv, NEW t \in FlowThreads, place[t] \in SchedPcs \ {"sched"}
  PROVE  \E v \in Vars, p \in Procs :
           /\ v = work[t][1] /\ p = Owner[v] /\ v \in Notify(p) /\ MapN(p) \in Nat \ {0}
           /\ Scheduled(t) = v /\ Target(t) = p /\ place[p] = "idle" /\ t # p
           /\ work[t] # <<>> /\ work[t] \in Seq(Vars) /\ v \in NotifyAll
           /\ \A q \in Procs : q # p => v \notin Notify(q)
<1>1. FlowTyped /\ PhaseInv /\ SourceInv
  BY DEF ChangeInv
<1>2. work[t][1] \in NotifyAll
  BY <1>1 DEF FlowTyped, WorkOK
<1>3. QED
  BY <1>1, <1>2, TargetIs

\* There is room in the map for a variable that is not in it.
LEMMA ReserveMap ==
  ASSUME FlowSync, ChangeInv, NEW t \in FlowThreads, Reserve(t)
  PROVE  /\ place' = [place EXCEPT ![t] = "head"] /\ work' = work
         /\ \A q \in Procs : MapInv(q)'
<1>1. place[t] = "reserve" /\ place[t] \in SchedPcs \ {"sched"}
  BY DEF Reserve, SchedPcs
<1>2. PICK v \in Vars, p \in Procs :
        /\ v = work[t][1] /\ p = Owner[v] /\ v \in Notify(p) /\ MapN(p) \in Nat \ {0}
        /\ Scheduled(t) = v /\ Target(t) = p /\ place[p] = "idle" /\ t # p
        /\ work[t] # <<>> /\ \A q \in Procs : q # p => v \notin Notify(q)
  BY <1>1, MapTarget
<1>3. /\ FlowTyped /\ PhaseInv /\ SourceInv /\ UnmarkedInv
      /\ \A q \in Procs : MapInv(q)
  BY DEF ChangeInv, FlowSync
<1>4. /\ v \notin Counted(p) /\ v \notin Given(p)
      /\ v \notin Writing(p)
  <2>1. \A u \in FlowThreads : place[u] \in {"head", "slot", "mark"} => work[u][1] # v
    BY <1>1, <1>2, <1>3, OnlyOn DEF SchedPcs
  <2>2. QED
    BY <2>1 DEF On, Counted, Given, Writing
<1>6. v \notin Busy(p)
  BY <1>1, <1>2, <1>3, <1>4 DEF Busy, MarkedIn, UnmarkedInv
<1>7. fullCnt[p] = Cardinality(Busy(p)) /\ fullCnt[p] < MapN(p)
      /\ Cardinality(Busy(p) \cup {v}) = fullCnt[p] + 1
  <2>1. fullCnt[p] = Cardinality(Busy(p))
    BY <1>2, <1>3 DEF MapInv, CountInv, Telling
  <2>2. Busy(p) \in SUBSET Notify(p)
    BY DEF Busy, MarkedIn, Counted, On
  <2> DEFINE S == Busy(p)
  <2>3. S \in SUBSET Notify(p) /\ v \in Notify(p) \ S /\ p \in Procs
    BY <1>2, <1>3, <1>6, <2>2
  <2> HIDE DEF S
  <2>4. Cardinality(S) < MapN(p) /\ Cardinality(S \cup {v}) = Cardinality(S) + 1
    BY <2>3, NotifyCard
  <2>5. QED
    BY <2>1, <2>4 DEF S
<1>8. fullCnt[p] \in Int /\ fullCnt \in [Procs -> Int] /\ place \in [FlowThreads -> Places]
  BY <1>2, <1>3, ZenonT(30) DEF FlowTyped, MapTyped, ThreadTyped
<1>9. /\ place' = [place EXCEPT ![t] = "head"] /\ work' = work
      /\ fullCnt' = [fullCnt EXCEPT ![p] = fullCnt[p] + 1]
      /\ UNCHANGED <<modN, headIdx, tailIdx, mapA, cnt, toldN, idx>>
  <2>1. ~ (fullCnt[p] >= MapN(p))
    BY <1>2, <1>7, <1>8
  <2>2. QED
    BY <1>2, <2>1 DEF Reserve, MoveTo
<1>10. MapInv(p)'
  <2>1. MarkedIn(p)' = MarkedIn(p)
    BY <1>9 DEF MarkedIn
  <2>2. /\ Counted(p)' = Counted(p) \cup {v}
        /\ Given(p)' = Given(p) \ {v}
        /\ Writing(p)' = Writing(p) \ {v}
    <3> DEFINE l == "head"
    <3>1. /\ l \in {"head", "slot", "mark"} /\ l \notin {"slot", "mark"} /\ l # "slot"
          /\ place'[t] = l /\ place[t] \in SchedPcs /\ v \in Notify(p) /\ v = work[t][1]
          /\ \A u \in FlowThreads : u # t => place'[u] = place[u]
          /\ \A u \in FlowThreads : work'[u] = work[u]
      BY <1>1, <1>2, <1>8, <1>9
    <3>2. FlowTyped /\ PhaseInv /\ SourceInv /\ p \in Procs
      BY <1>2, <1>3
    <3> HIDE DEF l
    <3>3. QED
      BY <3>1, <3>2, OnMoves
  <2>4. Held(p)' = Held(p) /\ Busy(p)' = Busy(p) \cup {v} /\ Writing(p)' = Writing(p)
    BY <1>4, <2>1, <2>2 DEF Held, Busy
  <2>5. place'[p] = place[p] /\ place'[p] = "idle"
    BY <1>2, <1>8, <1>9 DEF FlowThreads
  <2>6. Win(p)' = Win(p)
    BY <2>4, <2>5, <1>9 DEF Win
  <2>7. \A u \in FlowThreads : (Claims(u, p)' <=> Claims(u, p)) /\ idx'[u] = idx[u]
    BY <1>1, <1>8, <1>9 DEF Claims
  <2>8. HeadInv(p)' /\ ClaimInv(p)' /\ SlotInv(p)'
    BY <1>2, <1>3, <1>9, <2>4, <2>6, <2>7, RingSame DEF MapInv
  <2>9. CountInv(p)'
    BY <1>2, <1>7, <1>8, <1>9, <2>4, <2>5, ZenonT(60) DEF CountInv, Telling
  <2>10. QED
    BY <2>8, <2>9 DEF MapInv
<1>11. ASSUME NEW q \in Procs, q # p PROVE MapInv(q)'
  <2> DEFINE l == "head"
  <2>1. l \notin Telling /\ place[t] \notin Telling /\ place' = [place EXCEPT ![t] = l]
    BY <1>1, <1>9 DEF Telling
  <2>2. fullCnt'[q] = fullCnt[q] /\ v \notin Notify(q) /\ MapInv(q)
    BY <1>2, <1>3, <1>8, <1>9, <1>11
  <2> HIDE DEF l
  <2>3. QED
    BY <1>2, <1>3, <1>9, <2>1, <2>2, MapElse, ZenonT(30)
<1>12. QED
  BY <1>9, <1>10, <1>11

\* What the index of the head of a map must not do: start again at 0 when the
\* number of slots of the map does not divide 2^32.
Unwrapped == \A p \in Procs : headIdx'[p] < headIdx[p] => Word % MapN(p) = 0

\* The thread gets the slot at the head, which nobody else has.
LEMMA HeadMap ==
  ASSUME FlowSync, ChangeInv, Unwrapped, NEW t \in FlowThreads, TakeHead(t)
  PROVE  \A q \in Procs : MapInv(q)'
<1>1. place[t] = "head" /\ place[t] \in SchedPcs \ {"sched"} /\ place[t] \in SchedPcs
  BY DEF TakeHead, SchedPcs
<1>2. PICK v \in Vars, p \in Procs :
        /\ v = work[t][1] /\ p = Owner[v] /\ v \in Notify(p) /\ MapN(p) \in Nat \ {0}
        /\ Scheduled(t) = v /\ Target(t) = p /\ place[p] = "idle" /\ t # p
        /\ work[t] # <<>> /\ \A q \in Procs : q # p => v \notin Notify(q)
  BY <1>1, MapTarget
<1>3. /\ FlowTyped /\ PhaseInv /\ SourceInv /\ UnmarkedInv
      /\ \A q \in Procs : MapInv(q)
  BY DEF ChangeInv, FlowSync
<1> DEFINE h == headIdx[p]
           n == MapN(p)
           x == tailIdx[p]
<1>4. /\ place' = [place EXCEPT ![t] = "slot"] /\ work' = work
      /\ headIdx' = [headIdx EXCEPT ![p] = (h + 1) % Word]
      /\ idx' = [idx EXCEPT ![t] = h % n]
      /\ UNCHANGED <<modN, fullCnt, tailIdx, mapA, cnt, toldN>>
  BY <1>2 DEF TakeHead, Index, MoveTo
<1>5. /\ h \in Nat /\ h < Word /\ Word \in Nat /\ n \in Nat \ {0} /\ n \in Int
      /\ place \in [FlowThreads -> Places] /\ headIdx \in [Procs -> 0 .. (Word - 1)]
      /\ DOMAIN idx = FlowThreads
  <2>1. /\ place \in [FlowThreads -> Places] /\ headIdx \in [Procs -> 0 .. (Word - 1)]
        /\ DOMAIN idx = FlowThreads
    BY <1>3 DEF FlowTyped, MapTyped, ThreadTyped
  <2>2. Word \in Nat \ {0} /\ h \in 0 .. (Word - 1)
    BY <1>2, <1>3, <2>1, NetIs
  <2>3. QED
    BY <1>2, <2>1, <2>2
<1>6. /\ place'[t] = "slot" /\ idx'[t] = h % n /\ headIdx'[p] = (h + 1) % Word
      /\ \A u \in FlowThreads : u # t => place'[u] = place[u] /\ idx'[u] = idx[u]
      /\ \A q \in Procs : q # p => headIdx'[q] = headIdx[q]
      /\ place'[p] = "idle"
  BY <1>2, <1>4, <1>5 DEF FlowThreads
\* The window.
<1> DEFINE W == Win(p)
<1>7. /\ x \in 0 .. (n - 1) /\ W = Cardinality(Held(p)) /\ h % n = (x + W) % n
      /\ W \in Nat /\ W < n /\ v \notin Held(p) /\ Cardinality(Held(p) \cup {v}) = W + 1
  <2>1. x \in 0 .. (n - 1) /\ h % n = (x + W) % n
    BY <1>2, <1>3 DEF MapInv, HeadInv, MapSlots, At
  <2>2. W = Cardinality(Held(p))
    BY <1>2 DEF Win, Telling
  <2>3. \A u \in FlowThreads : place[u] \in {"slot", "mark"} => work[u][1] # v
    BY <1>1, <1>2, <1>3, OnlyOn DEF SchedPcs
  <2>4. v \notin Held(p)
    BY <1>1, <1>2, <1>3, <2>3 DEF Held, MarkedIn, Given, On, UnmarkedInv
  <2>5. Held(p) \in SUBSET Notify(p)
    BY DEF Held, MarkedIn, Given, On
  <2> DEFINE S == Held(p)
  <2>6. S \in SUBSET Notify(p) /\ v \in Notify(p) \ S
    BY <1>2, <2>4, <2>5
  <2> HIDE DEF S
  <2>7. Cardinality(S) \in Nat /\ Cardinality(S) < MapN(p) /\ Cardinality(S \cup {v}) = Cardinality(S) + 1
    <3>1. p \in Procs
      BY <1>2, <1>3
    <3>2. /\ Cardinality(S) \in Nat
          /\ \A u \in Notify(p) \ S : /\ Cardinality(S) < MapN(p)
                                     /\ Cardinality(S \cup {u}) = Cardinality(S) + 1
      BY <2>6, <3>1, NotifyCard, Zenon
    <3>3. QED
      BY <2>6, <3>2
  <2>8. QED
    BY <2>1, <2>2, <2>4, <2>7 DEF S
<1>8. headIdx'[p] % n = (x + (W + 1)) % n
  <2>1. Word > 1
    <3>1. Len(NotifyVars[p]) < Word /\ Len(NotifyVars[p]) > 0 /\ Len(NotifyVars[p]) \in Nat
      BY <1>2, <1>3, NotifyIs DEF FlowSync
    <3>2. QED
      BY <1>5, <3>1
  <2>2. headIdx'[p] < h => Word % n = 0
    BY <1>2 DEF Unwrapped
  <2> HIDE DEF h, n, x, W
  <2>3. (h + 1) % n = IF (h % n) + 1 < n THEN (h % n) + 1 ELSE 0
    BY <1>5, NextRemainder
  <2>4. W \in 0 .. (n - 1) /\ n \in Nat \ {0} /\ x \in 0 .. (n - 1)
    BY <1>5, <1>7
  <2>5. (x + (W + 1)) % n = IF ((x + W) % n) + 1 < n THEN ((x + W) % n) + 1 ELSE 0
    BY <2>4, WindowNext
  <2>6. (h + 1) % n = (x + (W + 1)) % n
    BY <1>7, <2>3, <2>5
  <2>7. CASE h + 1 < Word
    <3>1. (h + 1) % Word = h + 1
      BY <1>5, <2>7
    <3>2. QED
      BY <1>6, <2>6, <3>1
  <2>8. CASE ~ (h + 1 < Word)
    <3>1. h + 1 = Word
      BY <1>5, <2>8
    <3>2. (h + 1) % Word = 0
      BY <1>5, <3>1
    <3>3. headIdx'[p] = 0 /\ 0 < h
      BY <1>5, <1>6, <2>1, <3>1, <3>2
    <3>4. (h + 1) % n = 0
      BY <2>2, <3>1, <3>3
    <3>5. 0 % n = 0
      BY <1>5
    <3>6. QED
      BY <2>6, <3>3, <3>4, <3>5
  <2>9. QED
    BY <2>7, <2>8
\* The variable is held now.
<1>9. /\ Counted(p)' = Counted(p) /\ Given(p)' = Given(p) \cup {v}
      /\ Writing(p)' = Writing(p) \cup {v} /\ MarkedIn(p)' = MarkedIn(p)
  <2> DEFINE l == "slot"
  <2>1. /\ l \in {"head", "slot", "mark"} /\ l \in {"slot", "mark"} /\ l = "slot" /\ place'[t] = l
        /\ \A u \in FlowThreads : u # t => place'[u] = place[u]
        /\ \A u \in FlowThreads : work'[u] = work[u]
    BY <1>4, <1>6
  <2>2. FlowTyped /\ PhaseInv /\ SourceInv /\ p \in Procs /\ v \in Notify(p) /\ v = work[t][1]
    BY <1>2, <1>3
  <2> HIDE DEF l
  <2>3. /\ Counted(p)' = Counted(p) \cup {v} /\ Given(p)' = Given(p) \cup {v}
        /\ Writing(p)' = Writing(p) \cup {v} /\ v \in Counted(p)
    BY <1>1, <2>1, <2>2, OnMoves
  <2>4. MarkedIn(p)' = MarkedIn(p)
    BY <1>4 DEF MarkedIn
  <2>5. QED
    BY <2>3, <2>4
<1>10. /\ Held(p)' = Held(p) \cup {v} /\ Busy(p)' = Busy(p) /\ Win(p)' = W + 1
  <2>1. Held(p)' = Held(p) \cup {v} /\ Busy(p)' = Busy(p)
    BY <1>9 DEF Held, Busy
  <2>2. Win(p)' = Cardinality(Held(p)')
    BY <1>6 DEF Win, Telling
  <2>3. QED
    BY <1>7, <2>1, <2>2
<1>11. (\A k : At(p, k)' = (x + k) % n) /\ (\A k : At(p, k) = (x + k) % n)
  BY <1>4 DEF At
<1>12. \A u \in FlowThreads : Claims(u, p)' <=> (u = t \/ Claims(u, p))
  BY <1>2, <1>4, <1>6 DEF Claims
<1>13. ~Claims(t, p)
  BY <1>1 DEF Claims
<1>14. /\ W \in 0 .. (n - 1) /\ W \in 0 .. ((W + 1) - 1)
       /\ \A k \in 0 .. (W - 1) : k \in 0 .. ((W + 1) - 1) /\ (x + k) % n # (x + W) % n
  <2> HIDE DEF n, x, W
  <2>1. /\ W \in 0 .. (n - 1) /\ W \in 0 .. ((W + 1) - 1)
        /\ \A k \in 0 .. (W - 1) : k \in 0 .. ((W + 1) - 1) /\ k \in 0 .. (n - 1) /\ k # W
    BY <1>5, <1>7
  <2>2. n \in Nat \ {0} /\ x \in 0 .. (n - 1)
    BY <1>5, <1>7
  <2>3. \A j, k \in 0 .. (n - 1) : j # k => (x + j) % n # (x + k) % n
    BY <2>2, WindowApart
  <2>4. QED
    BY <2>1, <2>3
<1>15. MapInv(p)'
  <2>1. CountInv(p)'
    <3>1. fullCnt[p] = Cardinality(Busy(p)) /\ fullCnt'[p] = fullCnt[p]
      BY <1>2, <1>3, <1>4 DEF MapInv, CountInv, Telling
    <3>2. QED
      BY <1>6, <1>10, <3>1 DEF CountInv, Telling
  <2>2. HeadInv(p)'
    BY <1>4, <1>7, <1>8, <1>10, <1>11 DEF HeadInv, MapSlots
  <2>3. ClaimInv(p)'
    <3>1. ASSUME NEW u \in FlowThreads, Claims(u, p)'
          PROVE  \E k \in 0 .. (Win(p)' - 1) : idx'[u] = At(p, k)'
      <4>1. CASE u = t
        BY <1>6, <1>7, <1>10, <1>11, <1>14, <4>1
      <4>2. CASE u # t
        <5>1. PICK k \in 0 .. (W - 1) : idx[u] = At(p, k)
          BY <1>2, <1>3, <1>12, <3>1, <4>2 DEF MapInv, ClaimInv
        <5>2. QED
          BY <1>6, <1>10, <1>11, <1>14, <4>2, <5>1
      <4>3. QED
        BY <4>1, <4>2
    <3>2. ASSUME NEW u \in FlowThreads, Claims(u, p), u # t PROVE idx'[u] # idx'[t]
      <4>1. PICK k \in 0 .. (W - 1) : idx[u] = At(p, k)
        BY <1>2, <1>3, <3>2 DEF MapInv, ClaimInv
      <4>2. QED
        BY <1>6, <1>7, <1>11, <1>14, <3>2, <4>1
    <3>3. \A u, w \in FlowThreads : Claims(u, p) /\ Claims(w, p) /\ u # w => idx'[u] # idx'[w]
      BY <1>2, <1>3, <1>6, <1>13 DEF MapInv, ClaimInv
    <3>4. \A u, w \in FlowThreads : Claims(u, p)' /\ Claims(w, p)' /\ u # w => idx'[u] # idx'[w]
      BY <1>12, <1>13, <3>2, <3>3
    <3>5. QED
      BY <3>1, <3>4 DEF ClaimInv
  <2>4. SlotInv(p)'
    <3>1. \A i \in MapSlots(p) : mapA'[p][i] \in Notify(p) \cup {Nil}
      BY <1>2, <1>3, <1>4 DEF MapInv, SlotInv
    <3>2. ASSUME NEW w \in Held(p)' \ Writing(p)'
          PROVE  \E k \in 0 .. (Win(p)' - 1) :
                   mapA'[p][At(p, k)'] = w /\ \A u \in FlowThreads : Claims(u, p)' => idx'[u] # At(p, k)'
      <4>1. w \in Held(p) \ Writing(p)
        BY <1>9, <1>10, <3>2
      <4>2. PICK k \in 0 .. (W - 1) :
              mapA[p][At(p, k)] = w /\ \A u \in FlowThreads : Claims(u, p) => idx[u] # At(p, k)
        <5>1. SlotInv(p)
          BY <1>2, <1>3 DEF MapInv
        <5>2. QED
          BY <4>1, <5>1 DEF SlotInv
      <4>3. k \in 0 .. (Win(p)' - 1) /\ At(p, k)' = At(p, k) /\ idx'[t] # At(p, k)
        BY <1>6, <1>7, <1>10, <1>11, <1>14, <4>2
      <4>4. \A u \in FlowThreads : Claims(u, p)' => idx'[u] # At(p, k)'
        BY <1>6, <1>12, <1>13, <4>2, <4>3
      <4>5. QED
        BY <1>4, <4>2, <4>3, <4>4
    <3>3. QED
      BY <3>1, <3>2 DEF SlotInv
  <2>5. QED
    BY <2>1, <2>2, <2>3, <2>4 DEF MapInv
<1>16. ASSUME NEW q \in Procs, q # p PROVE MapInv(q)'
  <2> DEFINE l == "slot"
  <2>1. l \notin Telling /\ place[t] \notin Telling /\ place' = [place EXCEPT ![t] = l]
    BY <1>1, <1>4 DEF Telling
  <2>2. /\ headIdx'[q] = headIdx[q] /\ v \notin Notify(q) /\ MapInv(q)
        /\ \A u \in FlowThreads : place[u] = "slot" => idx'[u] = idx[u]
    BY <1>1, <1>2, <1>3, <1>6, <1>16
  <2> HIDE DEF l
  <2>3. QED
    BY <1>2, <1>3, <1>4, <2>1, <2>2, MapElse, ZenonT(30)
<1>17. QED
  BY <1>15, <1>16

\* The variable is written into the slot of the thread.
LEMMA SlotMap ==
  ASSUME FlowSync, ChangeInv, NEW t \in FlowThreads, Slot(t)
  PROVE  \A q \in Procs : MapInv(q)'
<1>1. place[t] = "slot" /\ place[t] \in SchedPcs \ {"sched"} /\ place[t] \in SchedPcs
  BY DEF Slot, SchedPcs
<1>2. PICK v \in Vars, p \in Procs :
        /\ v = work[t][1] /\ p = Owner[v] /\ v \in Notify(p) /\ MapN(p) \in Nat \ {0}
        /\ Scheduled(t) = v /\ Target(t) = p /\ place[p] = "idle" /\ t # p
        /\ work[t] # <<>> /\ \A q \in Procs : q # p => v \notin Notify(q)
  BY <1>1, MapTarget
<1>3. /\ FlowTyped /\ PhaseInv /\ SourceInv
      /\ \A q \in Procs : MapInv(q)
  BY DEF ChangeInv, FlowSync
<1>4. /\ place' = [place EXCEPT ![t] = "mark"] /\ work' = work
      /\ mapA' = [mapA EXCEPT ![p] = [mapA[p] EXCEPT ![idx[t]] = v]]
      /\ UNCHANGED <<modN, fullCnt, headIdx, tailIdx, idx, cnt, toldN>>
  BY <1>2 DEF Slot, MoveTo
<1>5. /\ place \in [FlowThreads -> Places] /\ DOMAIN mapA = Procs
      /\ mapA[p] \in [MapSlots(p) -> Vars \cup {Nil}] /\ idx[t] \in MapSlots(p)
  BY <1>1, <1>2, <1>3 DEF FlowTyped, MapTyped, ThreadTyped, WorkOK
<1>6. /\ place'[t] = "mark" /\ \A u \in FlowThreads : u # t => place'[u] = place[u]
      /\ mapA'[p][idx[t]] = v /\ \A i \in MapSlots(p) : i # idx[t] => mapA'[p][i] = mapA[p][i]
      /\ \A q \in Procs : q # p => mapA'[q] = mapA[q]
      /\ place'[p] = "idle"
  <2>1. mapA'[p] = [mapA[p] EXCEPT ![idx[t]] = v]
    BY <1>4, <1>5
  <2>2. QED
    BY <1>2, <1>4, <1>5, <2>1, ZenonT(60) DEF FlowThreads
<1>7. /\ Counted(p)' = Counted(p) /\ Given(p)' = Given(p)
      /\ Writing(p)' = Writing(p) \ {v} /\ MarkedIn(p)' = MarkedIn(p) /\ v \in Writing(p)
  <2> DEFINE l == "mark"
  <2>1. /\ l \in {"head", "slot", "mark"} /\ l \in {"slot", "mark"} /\ l # "slot" /\ place'[t] = l
        /\ \A u \in FlowThreads : u # t => place'[u] = place[u]
        /\ \A u \in FlowThreads : work'[u] = work[u]
    BY <1>4, <1>6
  <2>2. FlowTyped /\ PhaseInv /\ SourceInv /\ p \in Procs /\ v \in Notify(p) /\ v = work[t][1]
    BY <1>2, <1>3
  <2> HIDE DEF l
  <2>3. /\ Counted(p)' = Counted(p) \cup {v} /\ Given(p)' = Given(p) \cup {v}
        /\ Writing(p)' = Writing(p) \ {v} /\ v \in Counted(p) /\ v \in Given(p) /\ v \in Writing(p)
    BY <1>1, <2>1, <2>2, OnMoves
  <2>4. MarkedIn(p)' = MarkedIn(p)
    BY <1>4 DEF MarkedIn
  <2>5. QED
    BY <2>3, <2>4
<1>8. Held(p)' = Held(p) /\ Busy(p)' = Busy(p) /\ Win(p)' = Win(p)
  <2>1. Held(p)' = Held(p) /\ Busy(p)' = Busy(p)
    BY <1>7 DEF Held, Busy
  <2>2. QED
    BY <1>2, <1>6, <2>1 DEF Win, Telling
<1>9. \A k : At(p, k)' = At(p, k)
  BY <1>4 DEF At
<1>10. \A u \in FlowThreads : Claims(u, p)' <=> (u # t /\ Claims(u, p))
  BY <1>4, <1>6 DEF Claims
<1>11. Claims(t, p)
  BY <1>1, <1>2 DEF Claims
<1>12. HeadInv(p) /\ ClaimInv(p) /\ SlotInv(p) /\ CountInv(p)
  BY <1>2, <1>3 DEF MapInv
<1>13. MapInv(p)'
  <2>1. CountInv(p)'
    BY <1>2, <1>4, <1>6, <1>8, <1>12, ZenonT(30) DEF CountInv, Telling
  <2>2. HeadInv(p)'
    <3>1. At(p, Win(p))' = At(p, Win(p))
      BY <1>4, <1>8 DEF At
    <3>2. QED
      BY <1>4, <1>12, <3>1 DEF HeadInv
  <2>3. ClaimInv(p)'
    BY <1>4, <1>8, <1>9, <1>10, <1>12 DEF ClaimInv
  <2>4. SlotInv(p)'
    <3>1. \A i \in MapSlots(p) : mapA'[p][i] \in Notify(p) \cup {Nil}
      BY <1>2, <1>6, <1>12, ZenonT(30) DEF SlotInv
    <3>2. ASSUME NEW w \in Held(p)' \ Writing(p)'
          PROVE  \E k \in 0 .. (Win(p)' - 1) :
                   mapA'[p][At(p, k)'] = w /\ \A u \in FlowThreads : Claims(u, p)' => idx'[u] # At(p, k)'
      <4>1. CASE w = v
        <5>1. PICK k \in 0 .. (Win(p) - 1) : idx[t] = At(p, k)
          BY <1>11, <1>12 DEF ClaimInv
        <5>2. \A u \in FlowThreads : Claims(u, p)' => idx'[u] # idx[t]
          BY <1>4, <1>10, <1>11, <1>12 DEF ClaimInv
        <5>3. QED
          BY <1>6, <1>8, <1>9, <4>1, <5>1, <5>2
      <4>2. CASE w # v
        <5>1. w \in Held(p) \ Writing(p)
          BY <1>7, <1>8, <3>2, <4>2
        <5>2. PICK k \in 0 .. (Win(p) - 1) :
                mapA[p][At(p, k)] = w /\ \A u \in FlowThreads : Claims(u, p) => idx[u] # At(p, k)
          BY <1>12, <5>1 DEF SlotInv
        <5>3. mapA'[p][At(p, k)] = w
          <6>1. At(p, k) # idx[t]
            BY <1>11, <5>2
          <6>2. mapA'[p] = [mapA[p] EXCEPT ![idx[t]] = v]
            BY <1>4, <1>5
          <6>3. mapA'[p][At(p, k)] = mapA[p][At(p, k)]
            <7>1. At(p, k) \in MapSlots(p)
              <8>1. tailIdx[p] \in MapSlots(p) /\ MapN(p) \in Nat \ {0}
                BY <1>2, <1>12 DEF HeadInv
              <8>2. tailIdx[p] + k \in Nat
                <9>1. tailIdx[p] \in Nat /\ k \in Nat
                  BY <8>1 DEF MapSlots
                <9>2. QED
                  BY <9>1
              <8>3. QED
                BY <8>1, <8>2, RemainderIs DEF At, MapSlots
            <7>2. QED
              BY <1>6, <6>1, <7>1
          <6>4. QED
            BY <5>2, <6>3
        <5>4. QED
          BY <1>4, <1>8, <1>9, <1>10, <5>2, <5>3
      <4>3. QED
        BY <4>1, <4>2
    <3>3. QED
      BY <3>1, <3>2 DEF SlotInv
  <2>5. QED
    BY <2>1, <2>2, <2>3, <2>4 DEF MapInv
<1>14. ASSUME NEW q \in Procs, q # p PROVE MapInv(q)'
  <2> DEFINE l == "mark"
  <2>1. l \notin Telling /\ place[t] \notin Telling /\ place' = [place EXCEPT ![t] = l]
    BY <1>1, <1>4 DEF Telling
  <2>2. mapA'[q] = mapA[q] /\ v \notin Notify(q) /\ MapInv(q)
    BY <1>2, <1>3, <1>6, <1>14
  <2> HIDE DEF l
  <2>3. QED
    BY <1>2, <1>3, <1>4, <2>1, <2>2, MapElse, ZenonT(30)
<1>15. QED
  BY <1>13, <1>14

\* The variable is marked: it was counted already, and held its slot.
LEMMA MarkMap ==
  ASSUME FlowSync, ChangeInv, NEW t \in FlowThreads, Mark(t)
  PROVE  /\ \A q \in Procs : MapInv(q)'
         /\ \A q \in Procs : place[q] # "idle" => MarkedIn(q)' = MarkedIn(q)
<1>1. place[t] = "mark" /\ place[t] \in SchedPcs \ {"sched"} /\ place[t] \in SchedPcs
  BY DEF Mark, SchedPcs
<1>2. PICK v \in Vars, p \in Procs :
        /\ v = work[t][1] /\ p = Owner[v] /\ v \in Notify(p) /\ MapN(p) \in Nat \ {0}
        /\ Scheduled(t) = v /\ Target(t) = p /\ place[p] = "idle" /\ t # p
        /\ work[t] # <<>> /\ \A q \in Procs : q # p => v \notin Notify(q)
  BY <1>1, MapTarget
<1>3. /\ FlowTyped /\ PhaseInv /\ SourceInv
      /\ \A q \in Procs : MapInv(q)
  BY DEF ChangeInv, FlowSync
<1>4. /\ place' = [place EXCEPT ![t] = "link"] /\ work' = work
      /\ modN' = [modN EXCEPT ![v] = modN[v] + 1]
      /\ UNCHANGED <<fullCnt, headIdx, tailIdx, mapA, idx, cnt, toldN>>
  BY <1>2 DEF Mark, MoveTo
<1>5. place \in [FlowThreads -> Places] /\ modN \in [Vars -> Nat]
  BY <1>3 DEF FlowTyped, MapTyped, ThreadTyped
<1>6. /\ place'[t] = "link" /\ \A u \in FlowThreads : u # t => place'[u] = place[u]
      /\ modN'[v] > 0 /\ \A w \in Vars : w # v => modN'[w] = modN[w]
      /\ place'[p] = "idle"
  BY <1>2, <1>4, <1>5 DEF FlowThreads
<1>7. \A q \in Procs : \A w \in Notify(q) : w \in Vars
  BY <1>3, NotifyIs
<1>8. /\ Counted(p)' = Counted(p) \ {v} /\ Given(p)' = Given(p) \ {v} /\ Writing(p)' = Writing(p)
      /\ MarkedIn(p)' = MarkedIn(p) \cup {v} /\ v \in Counted(p) /\ v \in Given(p)
  <2> DEFINE l == "link"
  <2>1. /\ l \notin {"head", "slot", "mark"} /\ l \notin {"slot", "mark"} /\ l # "slot" /\ place'[t] = l
        /\ \A u \in FlowThreads : u # t => place'[u] = place[u]
        /\ \A u \in FlowThreads : work'[u] = work[u]
    BY <1>4, <1>6
  <2>2. FlowTyped /\ PhaseInv /\ SourceInv /\ p \in Procs /\ v \in Notify(p) /\ v = work[t][1]
    BY <1>2, <1>3
  <2> HIDE DEF l
  <2>3. /\ Counted(p)' = Counted(p) \ {v} /\ Given(p)' = Given(p) \ {v}
        /\ Writing(p)' = Writing(p) \ {v} /\ v \in Counted(p) /\ v \in Given(p) /\ v \notin Writing(p)
    BY <1>1, <2>1, <2>2, OnMoves
  <2>4. MarkedIn(p)' = MarkedIn(p) \cup {v}
    BY <1>2, <1>6, <1>7 DEF MarkedIn
  <2>5. QED
    BY <2>3, <2>4
<1>9. Held(p)' = Held(p) /\ Busy(p)' = Busy(p) /\ Win(p)' = Win(p)
  <2>1. Held(p)' = Held(p) /\ Busy(p)' = Busy(p)
    BY <1>8 DEF Held, Busy
  <2>2. QED
    BY <1>2, <1>6, <2>1 DEF Win, Telling
<1>10. \A u \in FlowThreads : (Claims(u, p)' <=> Claims(u, p)) /\ idx'[u] = idx[u]
  BY <1>1, <1>4, <1>6 DEF Claims
<1>11. HeadInv(p) /\ ClaimInv(p) /\ SlotInv(p) /\ CountInv(p)
  BY <1>2, <1>3 DEF MapInv
<1>12. MapInv(p)'
  <2>1. CountInv(p)'
    BY <1>2, <1>4, <1>6, <1>9, <1>11 DEF CountInv, Telling
  <2>2. HeadInv(p)' /\ ClaimInv(p)' /\ SlotInv(p)'
    BY <1>2, <1>4, <1>8, <1>9, <1>10, <1>11, RingSame
  <2>3. QED
    BY <2>1, <2>2 DEF MapInv
<1>13. ASSUME NEW q \in Procs, q # p PROVE MapInv(q)' /\ MarkedIn(q)' = MarkedIn(q)
  <2> DEFINE l == "link"
  <2>1. l \notin Telling /\ place[t] \notin Telling /\ place' = [place EXCEPT ![t] = l]
    BY <1>1, <1>4 DEF Telling
  <2>2. v \notin Notify(q) /\ MapInv(q) /\ \A w \in Notify(q) : modN'[w] = modN[w]
    BY <1>2, <1>3, <1>6, <1>7, <1>13
  <2> HIDE DEF l
  <2>3. MapInv(q)'
    BY <1>2, <1>3, <1>4, <2>1, <2>2, MapElse, ZenonT(30)
  <2>4. QED
    BY <2>2, <2>3 DEF MarkedIn
<1>14. QED
  BY <1>2, <1>12, <1>13

\* The processor is told: every variable that is marked is in the window, which
\* gets shorter with each one told, so that nothing is marked when it is empty.
LEMMA ExecMap ==
  ASSUME FlowSync, ChangeInv, NEW p \in Procs, ProcExec(p)
  PROVE  /\ \A q \in Procs : MapInv(q)'
         /\ place'[p] = "exec" => MarkedIn(p)' = {}
<1>1. /\ FlowTyped /\ PhaseInv /\ SourceInv
      /\ \A q \in Procs : MapInv(q)
      /\ Procs \subseteq FlowThreads /\ place \in [FlowThreads -> Places] /\ modN \in [Vars -> Nat]
      /\ cnt \in [Procs -> Int] /\ toldN \in [Procs -> Nat] /\ tailIdx \in [Procs -> Nat]
      /\ fullCnt \in [Procs -> Int] /\ Nil \notin Vars
  BY NetIs DEF ChangeInv, FlowSync, FlowTyped, ThreadTyped, MapTyped, FlowThreads
<1>2. place[p] \in {"enter", "load", "exec"} \cup Telling /\ UNCHANGED <<work, idx>>
  BY ExecMoves, <1>1
<1>3. PICK l \in {"load", "exec", "left"} \cup Telling : place' = [place EXCEPT ![p] = l]
  BY ExecMoves, <1>1
<1>4. /\ place[p] \notin SchedPcs /\ l \notin SchedPcs /\ place[p] # "idle"
      /\ place[p] \notin MapPcs /\ l \notin MapPcs
  BY <1>2, <1>3 DEF SchedPcs, Telling, MapPcs
<1>5. /\ place'[p] = l /\ \A t \in FlowThreads : t # p => place'[t] = place[t]
      /\ \A q \in Procs : q # p => place'[q] = place[q]
  BY <1>1, <1>3
<1>6. /\ \A t \in FlowThreads : place[t] \in SchedPcs => work[t][1] \notin Notify(p)
      /\ \A t \in FlowThreads : ~Claims(t, p)
      /\ Writing(p) = {} /\ Held(p) = MarkedIn(p) /\ Busy(p) = MarkedIn(p)
  <2>1. {"slot"} \in SUBSET SchedPcs
    BY DEF SchedPcs
  <2>2. QED
    BY <1>1, <1>4, <2>1, NobodyOn DEF Writing
<1>7. /\ \A t \in FlowThreads : ~Claims(t, p)'
      /\ Writing(p)' = {} /\ Held(p)' = MarkedIn(p)' /\ Busy(p)' = MarkedIn(p)'
  <2>1. \A t \in FlowThreads : place'[t] \in SchedPcs => work'[t][1] \notin Notify(p)
    BY <1>2, <1>4, <1>5, <1>6
  <2>2. \A t \in FlowThreads : ~Claims(t, p)'
    BY <2>1 DEF Claims, SchedPcs
  <2>3. Writing(p)' = {} /\ Counted(p)' = {} /\ Given(p)' = {}
    BY <2>1 DEF Writing, Counted, Given, On, SchedPcs
  <2>4. QED
    BY <2>2, <2>3 DEF Held, Busy
<1>8. CountInv(p) /\ HeadInv(p) /\ ClaimInv(p) /\ SlotInv(p)
  BY <1>1 DEF MapInv
<1>9. /\ MarkedIn(p) \in SUBSET Notify(p) /\ IsFiniteSet(MarkedIn(p))
      /\ Cardinality(MarkedIn(p)) \in Nat /\ Cardinality(MarkedIn(p)) <= MapN(p)
      /\ Cardinality(MarkedIn(p)) = 0 <=> MarkedIn(p) = {}
  <2> DEFINE S == MarkedIn(p)
  <2>1. S \in SUBSET Notify(p)
    BY DEF MarkedIn
  <2> HIDE DEF S
  <2>2. /\ IsFiniteSet(S) /\ Cardinality(S) \in Nat /\ Cardinality(S) <= MapN(p)
        /\ Cardinality(S) = 0 <=> S = {}
    BY <1>1, <2>1, NotifyCard
  <2>3. QED
    BY <2>1, <2>2 DEF S
\* The other maps.
<1>10. ASSUME NEW q \in Procs, q # p, UNCHANGED <<headIdx, mapA>>,
              fullCnt'[q] = fullCnt[q], tailIdx'[q] = tailIdx[q], cnt'[q] = cnt[q],
              toldN'[q] = toldN[q], \A v \in Notify(q) : modN'[v] = modN[v]
       PROVE  MapInv(q)'
  <2>1. \A t \in FlowThreads, v \in Notify(q), m \in {"head", "slot", "mark"} :
          place'[t] = m /\ work'[t][1] = v <=> place[t] = m /\ work[t][1] = v
    BY <1>2, <1>4, <1>5 DEF MapPcs
  <2>2. MapInv(q) /\ place'[q] = place[q] /\ \A t \in FlowThreads : idx'[t] = idx[t]
    BY <1>1, <1>2, <1>5, <1>10
  <2>3. QED
    BY <1>10, <2>1, <2>2, MapSame
\* The window stays.
<1>11. ASSUME UNCHANGED <<modN, headIdx, tailIdx, mapA>>, Win(p)' = Win(p)
       PROVE  HeadInv(p)' /\ ClaimInv(p)' /\ SlotInv(p)' /\ Busy(p)' = Busy(p)
  <2>1. MarkedIn(p)' = MarkedIn(p)
    BY <1>11 DEF MarkedIn
  <2>2. Held(p)' = Held(p) /\ Writing(p)' = Writing(p) /\ Busy(p)' = Busy(p)
    BY <1>6, <1>7, <2>1
  <2>3. QED
    BY <1>6, <1>7, <1>8, <1>11, <2>2, RingSame
<1>12. CASE EnterProc(p) \/ Leave(p)
  <2>1. /\ UNCHANGED <<modN, fullCnt, headIdx, tailIdx, mapA, cnt, toldN, idx>>
        /\ {place[p], place'[p]} \cap (MapPcs \cup Telling) = {}
    <3>1. {"enter", "load", "exec", "left"} \cap (MapPcs \cup Telling) = {}
      BY DEF MapPcs, Telling
    <3>2. (place[p] = "enter" /\ place' = [place EXCEPT ![p] = "load"])
          \/ (place[p] = "exec" /\ place' = [place EXCEPT ![p] = "left"])
      BY <1>12 DEF EnterProc, Leave, MoveTo
    <3>3. place[p] \in {"enter", "exec"} /\ place'[p] \in {"load", "left"}
      BY <1>1, <3>2
    <3>4. QED
      BY <1>12, <3>1, <3>3 DEF EnterProc, Leave
  <2>2. \A t \in FlowThreads : \/ place'[t] = place[t] /\ work'[t] = work[t]
                               \/ {place[t], place'[t]} \cap (MapPcs \cup Telling) = {}
    BY <1>2, <1>5, <2>1
  <2>3. place'[p] # "exec"
    BY <1>1, <1>12 DEF EnterProc, Leave, MoveTo
  <2>4. QED
    BY <1>1, <2>1, <2>2, <2>3, MapOff
<1>13. CASE Load(p)
  <2>1. /\ place[p] = "load" /\ cnt' = [cnt EXCEPT ![p] = fullCnt[p]]
        /\ toldN' = [toldN EXCEPT ![p] = 0]
        /\ place' = [place EXCEPT ![p] = IF fullCnt[p] = 0 THEN "exec" ELSE "tell"]
        /\ UNCHANGED <<modN, fullCnt, headIdx, tailIdx, mapA>>
    BY <1>13 DEF Load, MoveTo, mapVars
  <2>2. /\ cnt'[p] = fullCnt[p] /\ toldN'[p] = 0
        /\ place'[p] = IF fullCnt[p] = 0 THEN "exec" ELSE "tell"
        /\ \A q \in Procs : q # p => cnt'[q] = cnt[q] /\ toldN'[q] = toldN[q]
    BY <1>1, <2>1
  <2>3. fullCnt[p] = Cardinality(MarkedIn(p)) /\ fullCnt[p] \in Nat /\ fullCnt[p] <= MapN(p)
    BY <1>6, <1>8, <1>9, <2>1 DEF CountInv, Telling
  <2>4. Win(p)' = Win(p)
    <3>1. Win(p) = fullCnt[p]
      BY <1>6, <2>1, <2>3 DEF Win, Telling
    <3>2. CASE fullCnt[p] = 0
      <4>1. MarkedIn(p)' = MarkedIn(p)
        BY <2>1 DEF MarkedIn
      <4>2. place'[p] = "exec" /\ Held(p)' = MarkedIn(p)
        BY <1>7, <2>2, <3>2, <4>1
      <4>3. Win(p)' = Cardinality(MarkedIn(p))
        BY <4>2 DEF Win, Telling
      <4>4. QED
        BY <2>3, <3>1, <4>3
    <3>3. CASE fullCnt[p] # 0
      <4>1. place'[p] = "tell" /\ cnt'[p] - toldN'[p] = fullCnt[p]
        BY <2>2, <2>3, <3>3
      <4>2. QED
        BY <3>1, <4>1 DEF Win, Telling
    <3>4. QED
      BY <3>2, <3>3
  <2>5. HeadInv(p)' /\ ClaimInv(p)' /\ SlotInv(p)' /\ Busy(p)' = Busy(p)
    BY <1>11, <2>1, <2>4
  <2>6. CountInv(p)'
    <3>1. fullCnt'[p] = fullCnt[p]
      BY <2>1
    <3>2. CASE fullCnt[p] = 0
      BY <1>6, <2>2, <2>3, <2>5, <3>1, <3>2 DEF CountInv, Telling
    <3>3. CASE fullCnt[p] # 0
      <4>1. toldN'[p] < cnt'[p] /\ cnt'[p] <= MapN(p) /\ fullCnt'[p] = cnt'[p]
        BY <2>2, <2>3, <3>1, <3>3
      <4>2. place'[p] = "tell"
        BY <2>2, <3>3
      <4>3. QED
        BY <4>1, <4>2 DEF CountInv, Telling
    <3>4. QED
      BY <3>2, <3>3
  <2>7. MapInv(p)'
    BY <2>5, <2>6 DEF MapInv
  <2>8. \A q \in Procs : q # p => MapInv(q)'
    BY <1>10, <2>1, <2>2
  <2>9. fullCnt[p] = 0 => MarkedIn(p)' = {}
    BY <1>9, <2>1, <2>3 DEF MarkedIn
  <2>10. QED
    BY <2>2, <2>7, <2>8, <2>9
<1>14. CASE TellVar(p)
  <2>1. /\ place[p] = "tell" /\ place' = [place EXCEPT ![p] = "unmark"]
        /\ UNCHANGED <<modN, fullCnt, headIdx, tailIdx, mapA, cnt, toldN>>
    BY <1>14 DEF TellVar, MoveTo, mapVars
  <2>2. place'[p] = "unmark"
    BY <1>1, <2>1
  <2>3. Win(p)' = Win(p)
    BY <2>1, <2>2 DEF Win, Telling
  <2>4. HeadInv(p)' /\ ClaimInv(p)' /\ SlotInv(p)'
    BY <1>11, <2>1, <2>3
  <2>5. CountInv(p)'
    BY <1>8, <2>1, <2>2 DEF CountInv, Telling
  <2>6. MapInv(p)'
    BY <2>4, <2>5 DEF MapInv
  <2>7. \A q \in Procs : q # p => MapInv(q)'
    BY <1>10, <2>1
  <2>8. QED
    BY <2>2, <2>6, <2>7
<1>15. CASE Unmark(p)
  <2> DEFINE n == MapN(p)
             x == tailIdx[p]
             W == cnt[p] - toldN[p]
             m == mapA[p][x]
  <2>1. /\ place[p] = "unmark" /\ modN' = [modN EXCEPT ![m] = 0]
        /\ tailIdx' = [tailIdx EXCEPT ![p] = (x + 1) % n]
        /\ toldN' = [toldN EXCEPT ![p] = toldN[p] + 1]
        /\ place' = [place EXCEPT ![p] = IF toldN[p] + 1 = cnt[p] THEN "release" ELSE "tell"]
        /\ UNCHANGED <<fullCnt, headIdx, mapA, cnt>>
    BY <1>15 DEF Unmark, Unmarked, Modified, MoveTo
  <2>2. /\ tailIdx'[p] = (x + 1) % n /\ toldN'[p] = toldN[p] + 1
        /\ place'[p] = IF toldN[p] + 1 = cnt[p] THEN "release" ELSE "tell"
        /\ \A q \in Procs : q # p => tailIdx'[q] = tailIdx[q] /\ toldN'[q] = toldN[q]
    BY <1>1, <2>1
  <2>3. n \in Nat \ {0} /\ x \in 0 .. (n - 1) /\ headIdx[p] % n = (x + W) % n
    <3>1. n # 0 /\ n \in Nat
      BY <1>1, <2>1, NotifyIs DEF FlowTyped, WorkOK, Telling
    <3>2. Win(p) = W
      BY <2>1 DEF Win, Telling
    <3>3. QED
      BY <1>8, <3>1, <3>2 DEF HeadInv, MapSlots, At
  <2>4. /\ toldN[p] \in Nat /\ cnt[p] \in Int /\ toldN[p] < cnt[p] /\ cnt[p] <= n
        /\ fullCnt[p] = cnt[p]
    BY <1>1, <1>8, <2>1 DEF CountInv, Telling
  <2>5. W \in 1 .. n /\ W - 1 \in 0 .. (n - 1) /\ cnt'[p] - toldN'[p] = W - 1 /\ (W - 1) + 1 = W
    <3> HIDE DEF n
    <3>1. cnt'[p] = cnt[p]
      BY <2>1
    <3>2. QED
      BY <2>2, <2>3, <2>4, <3>1
  <2>6. place'[p] \in {"release", "tell"} /\ Win(p)' = W - 1
    BY <2>2, <2>5 DEF Win, Telling
  <2>7. \A k : At(p, k)' = (((x + 1) % n) + k) % n /\ At(p, k) = (x + k) % n
    BY <2>2 DEF At
  <2>8. m \in Notify(p) \cup {Nil} /\ Notify(p) \subseteq Vars
    <3>1. x \in MapSlots(p)
      BY <2>3 DEF MapSlots
    <3>2. QED
      BY <1>1, <1>8, <3>1, NotifyIs DEF SlotInv
  <2>9. \A v \in Vars : modN'[v] = IF v = m THEN 0 ELSE modN[v]
    BY <1>1, <2>1
  <2>10. \A v \in MarkedIn(p)' : v \in MarkedIn(p) /\ v # m
    <3>1. \A v \in Notify(p) : modN'[v] > 0 => v # m /\ modN[v] > 0
      <4>1. ~ (0 > 0)
        OBVIOUS
      <4>2. QED
        BY <2>8, <2>9, <4>1
    <3>2. QED
      BY <3>1 DEF MarkedIn
  <2>11. CountInv(p)'
    <3>1. fullCnt'[p] = cnt'[p] /\ cnt'[p] <= n
      BY <2>1, <2>4
    <3>2. place'[p] = "tell" => toldN'[p] < cnt'[p]
      <4>1. place'[p] = "tell" => toldN[p] + 1 # cnt[p]
        BY <2>2
      <4>2. cnt'[p] = cnt[p]
        BY <2>1
      <4>3. QED
        BY <2>2, <2>4, <4>1, <4>2
    <3>3. place'[p] = "release" => toldN'[p] = cnt'[p]
      BY <2>1, <2>2
    <3>4. QED
      BY <2>6, <3>1, <3>2, <3>3 DEF CountInv, Telling
  <2>12. /\ (x + 1) % n \in 0 .. (n - 1) /\ (((x + 1) % n) + (W - 1)) % n = (x + W) % n
         /\ (x + 0) % n = x
         /\ \A k \in 0 .. (n - 1) : (((x + 1) % n) + k) % n = (x + (k + 1)) % n
    <3> HIDE DEF n, x, W
    <3>1. (x + 1) % n \in 0 .. (n - 1) /\ (x + 0) % n = x
      BY <2>3, WindowIs
    <3>2. \A k \in 0 .. (n - 1) : (((x + 1) % n) + k) % n = (x + (k + 1)) % n
      BY <2>3, WindowShift
    <3>3. QED
      BY <2>5, <3>1, <3>2
  <2>13. HeadInv(p)'
    <3>1. tailIdx'[p] \in MapSlots(p)
      BY <2>2, <2>12 DEF MapSlots
    <3>2. headIdx'[p] = headIdx[p]
      BY <2>1
    <3>3. At(p, Win(p))' = (x + W) % n
      BY <2>2, <2>6, <2>12 DEF At
    <3>4. QED
      BY <2>3, <3>1, <3>2, <3>3 DEF HeadInv
  <2>14. SlotInv(p)'
    <3>1. \A i \in MapSlots(p) : mapA'[p][i] \in Notify(p) \cup {Nil}
      BY <1>8, <2>1 DEF SlotInv
    <3>2. ASSUME NEW v \in Held(p)' \ Writing(p)'
          PROVE  \E k \in 0 .. (Win(p)' - 1) :
                   mapA'[p][At(p, k)'] = v /\ \A t \in FlowThreads : Claims(t, p)' => idx'[t] # At(p, k)'
      <4>1. v \in Held(p) \ Writing(p) /\ v # m
        BY <1>6, <1>7, <2>10, <3>2
      <4>2. Win(p) = W
        BY <2>1 DEF Win, Telling
      <4>3. PICK k \in 0 .. (W - 1) : mapA[p][At(p, k)] = v
        BY <1>8, <4>1, <4>2 DEF SlotInv
      <4>4. k # 0
        BY <2>7, <2>12, <4>1, <4>3
      <4>5. k - 1 \in 0 .. ((W - 1) - 1) /\ k - 1 \in 0 .. (n - 1) /\ (k - 1) + 1 = k
        <5> HIDE DEF n, W
        <5>1. QED
          BY <2>3, <2>5, <4>3, <4>4
      <4>6. At(p, k - 1)' = At(p, k)
        BY <2>7, <2>12, <4>5
      <4>7. QED
        BY <1>7, <2>1, <2>6, <4>3, <4>5, <4>6
    <3>3. QED
      BY <3>1, <3>2 DEF SlotInv
  <2>15. ClaimInv(p)'
    BY <1>7 DEF ClaimInv
  <2>16. MapInv(p)'
    BY <2>11, <2>13, <2>14, <2>15 DEF MapInv
  <2>17. ASSUME NEW q \in Procs, q # p PROVE MapInv(q)'
    <3>1. \A v \in Notify(q) : v \in Vars /\ v # m
      <4>1. \A v \in Notify(q) : v \in Vars /\ Owner[v] = q
        BY <1>1, NotifyIs
      <4>2. \A v \in Notify(p) : Owner[v] = p
        BY <1>1, NotifyIs
      <4>3. QED
        BY <1>1, <2>8, <2>17, <4>1, <4>2
    <3>2. \A v \in Notify(q) : modN'[v] = modN[v]
      BY <2>9, <3>1
    <3>3. QED
      BY <1>10, <2>1, <2>2, <2>17, <3>2
  <2>18. QED
    BY <2>6, <2>16, <2>17
<1>16. CASE Release(p)
  <2>1. /\ place[p] = "release" /\ place' = [place EXCEPT ![p] = "exec"]
        /\ fullCnt' = [fullCnt EXCEPT ![p] = fullCnt[p] - cnt[p]]
        /\ UNCHANGED <<modN, headIdx, tailIdx, mapA, cnt, toldN>>
    BY <1>16 DEF Release, Released, MoveTo
  <2>2. /\ place'[p] = "exec" /\ fullCnt'[p] = fullCnt[p] - cnt[p]
        /\ \A q \in Procs : q # p => fullCnt'[q] = fullCnt[q]
    BY <1>1, <2>1
  <2>3. Win(p) = 0 /\ fullCnt'[p] = 0
    <3>1. toldN[p] = cnt[p] /\ fullCnt[p] = cnt[p] /\ cnt[p] \in Int
      BY <1>1, <1>8, <2>1 DEF CountInv, Telling
    <3>2. QED
      BY <2>1, <2>2, <3>1 DEF Win, Telling
  <2>4. MarkedIn(p) = {} /\ MarkedIn(p)' = MarkedIn(p)
    <3>1. \A v \in MarkedIn(p) : \E k \in 0 .. (0 - 1) : TRUE
      BY <1>6, <1>8, <2>3 DEF SlotInv
    <3>2. QED
      BY <2>1, <3>1 DEF MarkedIn
  <2>5. Win(p)' = Win(p) /\ Cardinality(Busy(p)') = 0
    <3>1. Held(p)' = {} /\ Busy(p)' = {} /\ Cardinality({}) = 0
      BY <1>7, <2>4, FS_EmptySet
    <3>2. QED
      BY <2>2, <2>3, <3>1 DEF Win, Telling
  <2>6. HeadInv(p)' /\ ClaimInv(p)' /\ SlotInv(p)'
    BY <1>11, <2>1, <2>5
  <2>7. CountInv(p)'
    BY <2>2, <2>3, <2>5 DEF CountInv, Telling
  <2>8. MapInv(p)'
    BY <2>6, <2>7 DEF MapInv
  <2>9. \A q \in Procs : q # p => MapInv(q)'
    BY <1>10, <2>1, <2>2
  <2>10. QED
    BY <2>4, <2>8, <2>9
<1>17. QED
  BY <1>12, <1>13, <1>14, <1>15, <1>16 DEF ProcExec

\* The steps of exec_cycle() and of the callbacks to the UI.
LEMMA CycleMoves ==
  ASSUME FlowTyped, PhaseInv, SendUiUpdates \/ Cycle
  PROVE  /\ UNCHANGED <<mapVars, work, idx, cnt, toldN, val, seen>>
         /\ \A t \in FlowThreads :
              \/ place'[t] = place[t]
              \/ place[t] \in {"idle", "left"} /\ place'[t] \in {"idle", "enter"}
<1>1. UNCHANGED <<mapVars, work, idx, cnt, toldN, val, seen>>
  BY DEF Cycle, BeginCycle, NextStage, EndCycle, SendUiUpdates, Flush, FlushFirst,
         FlushShow, FlushUnlink, FlushUnflag, FlushHead, FlushStub, threadVars, flowHist
<1>2. /\ FlowThreads = Procs \cup {App} /\ App \notin Procs
      /\ place \in [FlowThreads -> Places] /\ Stages \in Seq(SUBSET Procs) /\ Len(Stages) \in Nat \ {0}
      /\ stage \in 0 .. Len(Stages)
  BY NetIs DEF FlowTyped, ThreadTyped, CycleTyped
<1>3. CASE BeginCycle
  <2>1. place' = [t \in FlowThreads |-> IF t \in Stages[1] THEN "enter" ELSE place[t]]
        /\ \A p \in Procs : place[p] = "idle"
    BY <1>3 DEF BeginCycle, Starts, InCycle, PhaseInv
  <2>2. Stages[1] \subseteq Procs
    BY <1>2
  <2>3. QED
    BY <1>1, <2>1, <2>2
<1>4. ASSUME StageDone PROVE \A p \in Procs : place[p] \in {"idle", "left"}
  BY <1>4 DEF StageDone, PhaseInv
<1>5. CASE NextStage
  <2>1. /\ place' = [t \in FlowThreads |->
                       IF t \in Stages[stage + 1] THEN "enter" ELSE IF t = App THEN place[t] ELSE "idle"]
        /\ StageDone /\ stage < Len(Stages)
    BY <1>5 DEF NextStage, Starts, Rested
  <2>2. Stages[stage + 1] \subseteq Procs
    <3>1. stage + 1 \in 1 .. Len(Stages)
      BY <1>2, <2>1
    <3>2. QED
      BY <1>2, <3>1
  <2>3. QED
    BY <1>1, <1>2, <1>4, <2>1, <2>2
<1>6. CASE EndCycle
  <2>1. StageDone /\ place' = [t \in FlowThreads |-> IF t = App THEN place[t] ELSE "idle"]
    BY <1>6 DEF EndCycle, Rested
  <2>2. QED
    BY <1>1, <1>2, <1>4, <2>1
<1>7. CASE SendUiUpdates \/ Flush
  <2>1. place' = place
    BY <1>7 DEF SendUiUpdates, Flush, FlushFirst, FlushShow, FlushUnlink, FlushUnflag,
                FlushHead, FlushStub, threadVars
  <2>2. QED
    BY <1>1, <2>1
<1>8. QED
  BY <1>3, <1>5, <1>6, <1>7 DEF Cycle

\* The maps in the steps that are not about them.
LEMMA OtherMap ==
  ASSUME FlowSync, ChangeInv, NEW t \in FlowThreads,
         \/ Sched(t) \/ Check(t) \/ Link(t) \/ Exchange(t) \/ Chain(t)
         \/ place[t] \in {"idle", "exec"} /\ \E v \in Vars : VarSet(t, v)
  PROVE  \A q \in Procs : MapInv(q)'
<1>1. /\ FlowTyped /\ \A q \in Procs : MapInv(q)
      /\ Procs \subseteq FlowThreads /\ place \in [FlowThreads -> Places] /\ work \in [FlowThreads -> Seq(Vars)]
  BY DEF ChangeInv, FlowSync, FlowTyped, ThreadTyped, FlowThreads
<1>2. UNCHANGED <<modN, fullCnt, headIdx, tailIdx, mapA, cnt, toldN, idx>>
  BY DEF Sched, Check, Link, Exchange, Chain, VarSet, mapVars
<1> DEFINE Off == {"idle", "exec", "sched", "check", "reserve", "link", "exchange", "chain"}
           Goal == \E l \in Off : \E w :
                         /\ place' = [place EXCEPT ![t] = l] /\ work' = [work EXCEPT ![t] = w]
                         /\ place[t] \in Off
<1>3. Goal
  <2>1. CASE Sched(t) \/ Check(t) \/ Exchange(t)
    <3>1. work' = [work EXCEPT ![t] = work[t]]
      BY <1>1, <2>1 DEF Sched, Check, Exchange
    <3>2. place[t] \in Off /\ \E l \in Off : place' = [place EXCEPT ![t] = l]
      BY <2>1 DEF Sched, Check, Exchange, MoveTo
    <3>3. QED
      BY <3>1, <3>2
  <2>2. ASSUME NextTarget(t), place[t] \in Off PROVE Goal
    BY <2>2 DEF NextTarget, MoveTo, Home
  <2>3. CASE Chain(t)
    BY <2>2, <2>3 DEF Chain
  <2>4. CASE Link(t)
    <3>1. place[t] \in Off
      BY <2>4 DEF Link
    <3>2. NextTarget(t) \/ (place' = [place EXCEPT ![t] = "exchange"] /\ work' = work)
      BY <2>4 DEF Link, MoveTo
    <3>3. CASE place' = [place EXCEPT ![t] = "exchange"] /\ work' = work
      <4>1. work' = [work EXCEPT ![t] = work[t]]
        BY <1>1, <3>3
      <4>2. QED
        BY <3>1, <3>3, <4>1
    <3>4. QED
      BY <2>2, <3>1, <3>2, <3>3
  <2>5. CASE place[t] \in {"idle", "exec"} /\ \E v \in Vars : VarSet(t, v)
    BY <2>5 DEF VarSet, MoveTo
  <2>6. QED
    BY <2>1, <2>3, <2>4, <2>5
<1>4. PICK l \in Off : \E w : /\ place' = [place EXCEPT ![t] = l]
                              /\ work' = [work EXCEPT ![t] = w] /\ place[t] \in Off
  BY <1>3
<1>5. Off \cap (MapPcs \cup Telling) = {}
  BY DEF MapPcs, Telling
<1> HIDE DEF Off
<1>6. \A u \in FlowThreads : \/ place'[u] = place[u] /\ work'[u] = work[u]
                             \/ {place[u], place'[u]} \cap (MapPcs \cup Telling) = {}
  <2>1. place'[t] = l /\ \A u \in FlowThreads : u # t => place'[u] = place[u] /\ work'[u] = work[u]
    BY <1>1, <1>4
  <2>2. {place[t], place'[t]} \subseteq Off
    BY <1>4, <2>1
  <2>3. {place[t], place'[t]} \cap (MapPcs \cup Telling) = {}
    BY <1>5, <2>2
  <2>4. QED
    BY <2>1, <2>3
<1>7. QED
  BY <1>1, <1>2, <1>6, MapOff

\* Every map stays as it has to be.
LEMMA MapStep ==
  ASSUME FlowSync, ChangeInv, Unwrapped, [FlowNext]_flowVars
  PROVE  \A q \in Procs : MapInv(q)'
<1>1. /\ FlowTyped /\ PhaseInv /\ \A q \in Procs : MapInv(q)
      /\ Procs \subseteq FlowThreads /\ App \in FlowThreads
  BY DEF ChangeInv, FlowSync, FlowThreads
<1>2. ASSUME NEW t \in FlowThreads, Schedule(t) PROVE \A q \in Procs : MapInv(q)'
  BY <1>2, ReserveMap, HeadMap, SlotMap, MarkMap, OtherMap DEF Schedule
<1>3. ASSUME NEW p \in Procs, ProcExec(p) PROVE \A q \in Procs : MapInv(q)'
  BY <1>3, ExecMap
<1>4. ASSUME NEW v \in UiSets, AppSet(v) PROVE \A q \in Procs : MapInv(q)'
  <2>1. place[App] = "idle" /\ VarSet(App, v) /\ v \in Vars
    BY <1>1, <1>4, NetIs DEF AppSet
  <2>2. QED
    BY <1>1, <2>1, OtherMap
<1>5. ASSUME NEW p \in Procs, NEW v \in Outs, ProcSet(p, v) PROVE \A q \in Procs : MapInv(q)'
  <2>1. place[p] = "exec" /\ VarSet(p, v) /\ v \in Vars
    BY <1>1, <1>5, NetIs DEF ProcSet
  <2>2. QED
    BY <1>1, <2>1, OtherMap
<1>6. CASE SendUiUpdates \/ Cycle
  <2>1. UNCHANGED <<modN, fullCnt, headIdx, tailIdx, mapA, cnt, toldN, idx, work>>
    BY <1>1, <1>6, CycleMoves DEF mapVars
  <2>2. {"idle", "left", "enter"} \cap (MapPcs \cup Telling) = {}
    BY DEF MapPcs, Telling
  <2>3. \A t \in FlowThreads : \/ place'[t] = place[t] /\ work'[t] = work[t]
                               \/ {place[t], place'[t]} \cap (MapPcs \cup Telling) = {}
    BY <1>1, <1>6, <2>1, <2>2, CycleMoves, ZenonT(30)
  <2>4. QED
    BY <1>1, <2>1, <2>3, MapOff
<1>7. CASE UNCHANGED flowVars
  <2>1. UNCHANGED <<modN, fullCnt, headIdx, tailIdx, mapA, cnt, toldN, idx, work, place>>
    BY <1>7 DEF flowVars, mapVars, threadVars
  <2>2. QED
    BY <1>1, <2>1, MapOff
<1>8. QED
  BY <1>2, <1>3, <1>4, <1>5, <1>6, <1>7 DEF FlowNext

\* What is about to be marked is not marked.
LEMMA UnmarkedStep ==
  ASSUME FlowSync, ChangeInv, [FlowNext]_flowVars
  PROVE  UnmarkedInv'
<1> DEFINE Marking == {"reserve", "head", "slot", "mark"}
<1>1. /\ FlowTyped /\ PhaseInv /\ SourceInv /\ UnmarkedInv
      /\ Procs \subseteq FlowThreads /\ App \in FlowThreads
      /\ place \in [FlowThreads -> Places] /\ work \in [FlowThreads -> Seq(Vars)] /\ modN \in [Vars -> Nat]
  BY DEF ChangeInv, FlowSync, FlowTyped, ThreadTyped, MapTyped, FlowThreads
<1>2. \A u \in FlowThreads : place[u] \in Marking => work[u][1] \in Vars /\ modN[work[u][1]] = 0
  BY <1>1, WorkIs DEF FlowTyped, WorkOK, UnmarkedInv, SchedPcs
<1>3. ASSUME \A u \in FlowThreads : place'[u] \in Marking => place'[u] = place[u] /\ work'[u] = work[u],
             \A w \in Vars : modN[w] = 0 => modN'[w] = 0
      PROVE  UnmarkedInv'
  BY <1>2, <1>3 DEF UnmarkedInv
<1>4. ASSUME NEW t \in FlowThreads, NEW l, NEW w, place' = [place EXCEPT ![t] = l],
             work' = [work EXCEPT ![t] = w], l \notin Marking,
             \A x \in Vars : modN[x] = 0 => modN'[x] = 0
      PROVE  UnmarkedInv'
  <2>1. place'[t] = l /\ \A u \in FlowThreads : u # t => place'[u] = place[u] /\ work'[u] = work[u]
    BY <1>1, <1>4
  <2>2. QED
    BY <1>3, <1>4, <2>1
<1>5. ASSUME NEW t \in FlowThreads, NEW l, place' = [place EXCEPT ![t] = l], work' = work,
             UNCHANGED modN, l \in Marking => modN[work[t][1]] = 0
      PROVE  UnmarkedInv'
  <2>1. place'[t] = l /\ \A u \in FlowThreads : u # t => place'[u] = place[u]
    BY <1>1, <1>5
  <2>2. QED
    BY <1>2, <1>5, <2>1 DEF UnmarkedInv
<1>6. ASSUME NEW t \in FlowThreads, Schedule(t) PROVE UnmarkedInv'
  <2> DEFINE v == work[t][1]
  <2>1. CASE Sched(t)
    <3>1. work' = work /\ UNCHANGED modN /\ \E l \in {"check", "link"} : place' = [place EXCEPT ![t] = l]
      BY <2>1 DEF Sched, MoveTo, mapVars
    <3>2. QED
      BY <1>5, <3>1
  <2>2. CASE Check(t)
    <3>1. v \in Vars
      BY <1>1, <2>2, WorkIs DEF Check, FlowTyped, WorkOK, SchedPcs
    <3>2. /\ work' = work /\ UNCHANGED modN
          /\ place' = [place EXCEPT ![t] = IF modN[v] > 0 THEN "link" ELSE "reserve"]
      BY <2>2 DEF Check, MoveTo, mapVars, Marked, Scheduled
    <3>3. modN[v] \in Nat
      BY <1>1, <3>1
    <3>4. CASE modN[v] > 0
      BY <1>5, <3>2, <3>4
    <3>5. CASE ~(modN[v] > 0)
      <4>1. modN[v] = 0
        BY <3>3, <3>5
      <4>2. place' = [place EXCEPT ![t] = "reserve"]
        BY <3>2, <3>5
      <4>3. QED
        BY <1>5, <3>2, <4>1, <4>2
    <3>6. QED
      BY <3>4, <3>5
  <2>3. CASE Reserve(t)
    <3>1. place[t] = "reserve" /\ UNCHANGED modN
      BY <2>3 DEF Reserve
    <3>2. place' = [place EXCEPT ![t] = "head"] /\ work' = work
      BY <2>3, ReserveMap
    <3>3. QED
      BY <1>2, <1>5, <3>1, <3>2
  <2>4. CASE TakeHead(t) \/ Slot(t)
    <3>1. /\ work' = work /\ UNCHANGED modN /\ place[t] \in Marking
          /\ \E l : place' = [place EXCEPT ![t] = l]
      BY <2>4 DEF TakeHead, Slot, MoveTo
    <3>2. QED
      BY <1>2, <1>5, <3>1
  <2>5. CASE Mark(t)
    <3>1. /\ place[t] = "mark" /\ place' = [place EXCEPT ![t] = "link"] /\ work' = work
          /\ modN' = [modN EXCEPT ![v] = @ + 1]
      BY <2>5 DEF Mark, MoveTo, Scheduled
    <3>2. place'[t] = "link" /\ \A u \in FlowThreads : u # t => place'[u] = place[u]
      BY <1>1, <3>1
    <3>3. \A w \in Vars : w # v => modN'[w] = modN[w]
      BY <1>1, <3>1
    <3>4. work[t] # <<>>
      BY <1>1, <3>1 DEF FlowTyped, WorkOK, SchedPcs
    <3>5. \A u \in FlowThreads : u # t /\ place[u] \in Marking => work[u][1] # v
      BY <1>1, <3>4, OnlyOn DEF SchedPcs
    <3>6. \A u \in FlowThreads : place'[u] \in Marking =>
            place[u] \in Marking /\ work'[u][1] = work[u][1] /\ work[u][1] # v
      BY <3>1, <3>2, <3>5
    <3>7. QED
      BY <1>2, <3>3, <3>6 DEF UnmarkedInv
  <2>6. ASSUME NextTarget(t), UNCHANGED modN PROVE UnmarkedInv'
    <3>1. \E l : place' = [place EXCEPT ![t] = l] /\ l \in {"sched", "idle", "exec"}
      BY <2>6 DEF NextTarget, MoveTo, Home
    <3>2. work' = [work EXCEPT ![t] = Tail(work[t])]
      BY <2>6 DEF NextTarget
    <3>3. QED
      BY <1>4, <2>6, <3>1, <3>2
  <2>7. ASSUME NEW l \in {"exchange", "chain"}, place' = [place EXCEPT ![t] = l], work' = work, UNCHANGED modN
        PROVE  UnmarkedInv'
    BY <1>5, <2>7
  <2>8. CASE Link(t)
    <3>1. NextTarget(t) \/ (place' = [place EXCEPT ![t] = "exchange"] /\ work' = work)
      BY <2>8 DEF Link, MoveTo
    <3>2. UNCHANGED modN
      BY <2>8 DEF Link, mapVars
    <3>3. QED
      BY <2>6, <2>7, <3>1, <3>2
  <2>9. CASE Exchange(t)
    <3>1. place' = [place EXCEPT ![t] = "chain"] /\ work' = work /\ UNCHANGED modN
      BY <2>9 DEF Exchange, MoveTo, mapVars
    <3>2. QED
      BY <2>7, <3>1
  <2>10. CASE Chain(t)
    BY <2>6, <2>10 DEF Chain, mapVars
  <2>11. QED
    BY <1>6, <2>1, <2>2, <2>3, <2>4, <2>5, <2>8, <2>9, <2>10 DEF Schedule
<1>7. ASSUME NEW p \in Procs, ProcExec(p) PROVE UnmarkedInv'
  <2>1. PICK l \in {"load", "exec", "left"} \cup Telling : place' = [place EXCEPT ![p] = l]
    BY <1>1, <1>7, ExecMoves
  <2>2. work' = work /\ l \notin Marking
    BY <1>1, <1>7, ExecMoves DEF Telling
  <2>3. place'[p] = l /\ \A u \in FlowThreads : u # p => place'[u] = place[u]
    BY <1>1, <2>1
  <2>4. modN' = modN \/ modN' = [modN EXCEPT ![Modified(p)] = 0]
    BY <1>7 DEF ProcExec, EnterProc, Load, TellVar, Unmark, Release, Leave, mapVars, Unmarked
  <2>5. \A w \in Vars : modN[w] = 0 => modN'[w] = 0
    BY <1>1, <2>4
  <2>6. QED
    BY <1>3, <2>2, <2>3, <2>5
<1>8. ASSUME NEW t \in FlowThreads, NEW v \in Vars, VarSet(t, v) PROVE UnmarkedInv'
  <2>1. /\ place' = [place EXCEPT ![t] = "link"] /\ work' = [work EXCEPT ![t] = Targets(t, v)]
        /\ UNCHANGED modN
    BY <1>8 DEF VarSet, MoveTo, mapVars
  <2>2. QED
    BY <1>4, <2>1
<1>9. ASSUME NEW v \in UiSets, AppSet(v) PROVE UnmarkedInv'
  BY <1>1, <1>8, <1>9, NetIs DEF AppSet
<1>10. ASSUME NEW p \in Procs, NEW v \in Outs, ProcSet(p, v) PROVE UnmarkedInv'
  BY <1>1, <1>8, <1>10, NetIs DEF ProcSet
<1>11. CASE SendUiUpdates \/ Cycle
  <2>1. UNCHANGED <<work, modN>> /\ \A t \in FlowThreads :
          place'[t] = place[t] \/ place'[t] \in {"idle", "enter"}
    BY <1>1, <1>11, CycleMoves DEF mapVars
  <2>2. QED
    BY <1>3, <2>1
<1>12. CASE UNCHANGED flowVars
  <2>1. UNCHANGED <<modN, work, place>>
    BY <1>12 DEF flowVars, mapVars, threadVars
  <2>2. QED
    BY <1>3, <2>1
<1>13. QED
  BY <1>6, <1>7, <1>9, <1>10, <1>11, <1>12 DEF FlowNext

\* Nobody sets what a variable of a processor that is not idle gets its value from.
LEMMA ValueKept ==
  ASSUME FlowSync, ChangeInv, [FlowNext]_flowVars, NEW p \in Procs, place[p] # "idle",
         NEW m \in Notify(p)
  PROVE  Value(m)' = Value(m)
<1>1. /\ FlowTyped /\ PhaseInv /\ Outs \cap NotifyAll = {}
      /\ Procs \subseteq FlowThreads /\ App \in FlowThreads /\ val \in [Vars -> Nat]
  BY DEF ChangeInv, FlowSync, FlowTyped, HistTyped, FlowThreads
<1>2. m \in Vars /\ Owner[m] = p /\ m \in NotifyAll
  <2>1. m \in Vars /\ Owner[m] = p
    BY <1>1, NotifyIs
  <2>2. m \in NotifyAll
    BY DEF NotifyAll
  <2>3. QED
    BY <2>1, <2>2
<1>3. ASSUME val' = val PROVE Value(m)' = Value(m)
  BY <1>3 DEF Value
<1>4. ASSUME NEW v \in UiSets, AppSet(v) PROVE FALSE
  BY <1>1, <1>4 DEF AppSet, InCycle, FlowSync, PhaseInv
<1>5. ASSUME NEW q \in Procs, NEW v \in Outs, ProcSet(q, v) PROVE Value(m)' = Value(m)
  <2>1. /\ place[q] = "exec" /\ Owner[v] = q /\ v \in Vars
        /\ val' = [val EXCEPT ![v] = @ + 1]
    BY <1>1, <1>5, NetIs DEF ProcSet, VarSet
  <2>2. stage # 0 /\ q \in Stages[stage] /\ p \in Stages[stage] /\ stage \in DOMAIN Stages
    <3>1. stage # 0 /\ q \in Stages[stage] /\ p \in Stages[stage]
      BY <1>1, <2>1 DEF PhaseInv
    <3>2. stage \in 0 .. Len(Stages) /\ DOMAIN Stages = 1 .. Len(Stages) /\ Len(Stages) \in Nat
      BY <1>1, NetIs DEF FlowTyped, CycleTyped
    <3>3. QED
      BY <3>1, <3>2
  <2> DEFINE u == Src(m)
  <2>3. u # v
    <3>1. m # v
      BY <1>1, <1>2
    <3>2. u = v => m \in Elems(Dsts[v])
      BY <3>1 DEF Src
    <3>3. m \in Elems(Dsts[v]) => ~ {Owner[v], Owner[m]} \subseteq Stages[stage]
      BY FlowAssumption, <1>1, <2>2
    <3>4. QED
      BY <1>2, <2>1, <2>2, <3>2, <3>3
  <2>4. u \in Vars
    BY <1>1, <1>2, SourceIs
  <2>5. val'[u] = val[u]
    BY <1>1, <2>1, <2>3, <2>4
  <2>6. QED
    BY <2>5 DEF Value
<1>6. ASSUME NEW t \in FlowThreads, Schedule(t) PROVE val' = val
  BY <1>1, <1>6, ScheduleMoves
<1>7. ASSUME NEW q \in Procs, ProcExec(q) PROVE val' = val
  BY <1>1, <1>7, ExecMoves
<1>8. SendUiUpdates \/ Cycle => val' = val
  BY <1>1, CycleMoves
<1>9. UNCHANGED flowVars => val' = val
  BY DEF flowVars
<1>10. QED
  BY <1>3, <1>4, <1>5, <1>6, <1>7, <1>8, <1>9 DEF FlowNext

\* When a processor has been told, nothing of it is marked until its cycle ends.
LEMMA ToldStep ==
  ASSUME FlowSync, ChangeInv, [FlowNext]_flowVars, NEW p \in Procs
  PROVE  ToldInv(p)'
<1> DEFINE Before == {"idle", "enter", "load"} \cup Telling
<1>1. /\ FlowTyped /\ PhaseInv /\ SourceInv /\ MapInv(p) /\ ToldInv(p)
      /\ Procs \subseteq FlowThreads /\ App \in FlowThreads /\ p \in FlowThreads
      /\ place \in [FlowThreads -> Places] /\ modN \in [Vars -> Nat] /\ seen \in [Vars -> Nat]
      /\ tailIdx \in [Procs -> Nat] /\ Nil \notin Vars
  BY NetIs DEF ChangeInv, FlowSync, FlowTyped, ThreadTyped, MapTyped, HistTyped, FlowThreads
<1>x. PICK x : x = tailIdx[p]
  OBVIOUS
<1>m. PICK m : m = mapA[p][x]
  OBVIOUS
<1>2. place[p] \notin Before => MarkedIn(p) = {}
  BY <1>1 DEF ToldInv
<1>3. ASSUME place'[p] \in Before \/ (place[p] \notin Before /\ MarkedIn(p)' \subseteq MarkedIn(p)),
             place'[p] = "unmark" => place[p] = "unmark" /\ tailIdx'[p] = x /\ mapA'[p] = mapA[p]
                                     /\ \A v \in Notify(p) : v = m => seen'[v] = seen[v]
      PROVE  ToldInv(p)'
  <2>1. place'[p] \notin Before => MarkedIn(p)' = {}
    BY <1>2, <1>3
  <2>2. ASSUME place'[p] = "unmark", Modified(p)' \in Notify(p)
        PROVE  seen'[Modified(p)'] = Value(Modified(p))'
    <3>1. Modified(p) = m /\ Modified(p)' = m /\ m \in Notify(p) /\ place[p] = "unmark"
      BY <1>x, <1>m, <1>3, <2>2 DEF Modified
    <3>2. seen[m] = Value(m)
      BY <1>1, <3>1 DEF ToldInv
    <3>3. Value(m)' = Value(m)
      <4>1. place[p] # "idle" /\ m \in Notify(p)
        BY <3>1
      <4>2. QED
        BY <4>1, ValueKept
    <3>4. seen'[m] = seen[m]
      BY <1>3, <2>2, <3>1
    <3>5. seen'[m] = val'[Src(m)]
      BY <3>2, <3>3, <3>4 DEF Value
    <3>6. QED
      BY <3>1, <3>5 DEF Value
  <2>3. QED
    BY <2>1, <2>2 DEF ToldInv
<1>4. ASSUME place'[p] = place[p] \/ place'[p] \in {"idle", "enter"} \/ place[p] = "exec" \/
               place[p] \in SchedPcs \cup LinkPcs,
             place[p] \in {"exec"} \cup SchedPcs \cup LinkPcs => place'[p] # "unmark",
             UNCHANGED <<modN, tailIdx, mapA, seen>>
      PROVE  ToldInv(p)'
  <2>1. MarkedIn(p)' = MarkedIn(p)
    BY <1>4 DEF MarkedIn
  <2>2. {"exec"} \cup SchedPcs \cup LinkPcs \subseteq {y \in {"exec"} \cup SchedPcs \cup LinkPcs : y \notin Before}
    BY DEF SchedPcs, LinkPcs, Telling
  <2>3. place'[p] \in Before \/ place[p] \notin Before
    BY <1>4, <2>2
  <2>4. place'[p] = "unmark" => place[p] = "unmark"
    BY <1>4
  <2>5. QED
    BY <1>3, <1>4, <1>x, <2>1, <2>3, <2>4
<1>5. ASSUME NEW t \in FlowThreads, Schedule(t) PROVE ToldInv(p)'
  <2>1. PICK l \in SchedPcs \cup LinkPcs \cup {Home(t)} : place' = [place EXCEPT ![t] = l]
    BY <1>1, <1>5, ScheduleMoves
  <2>2. place[t] \in SchedPcs \cup LinkPcs /\ UNCHANGED <<tailIdx, seen>>
    BY <1>1, <1>5, ScheduleMoves
  <2>3. /\ p = t => l \notin Before
        /\ p = t => place'[p] # "unmark" /\ place[p] \notin Before
        /\ p # t => place'[p] = place[p]
    <3>1. \A y \in SchedPcs \cup LinkPcs \cup {"exec"} : y \notin Before
      BY DEF SchedPcs, LinkPcs, Telling
    <3>2. p = t => l \in SchedPcs \cup LinkPcs \cup {"exec"}
      BY <1>1, <2>1, NetIs DEF Home
    <3>3. "unmark" \in Before
      BY DEF Telling
    <3>4. p = t => place'[p] = l
      BY <1>1, <2>1
    <3>5. p # t => place'[p] = place[p]
      BY <1>1, <2>1
    <3>6. QED
      BY <2>2, <3>1, <3>2, <3>3, <3>4, <3>5
  <2>4. place[p] # "idle" => MarkedIn(p)' = MarkedIn(p) /\ mapA'[p] = mapA[p]
    <3>1. CASE Mark(t)
      BY <3>1, MarkMap DEF Mark
    <3>2. CASE Slot(t)
      <4>1. place[t] \in SchedPcs \ {"sched"}
        BY <3>2 DEF Slot, SchedPcs
      <4>2. PICK q \in Procs : Target(t) = q /\ place[q] = "idle"
        BY <4>1, MapTarget
      <4>3. modN' = modN /\ mapA' = [mapA EXCEPT ![q][idx[t]] = Scheduled(t)]
        BY <3>2, <4>2 DEF Slot
      <4>4. MarkedIn(p)' = MarkedIn(p)
        BY <4>3 DEF MarkedIn
      <4>5. p # q => mapA'[p] = mapA[p]
        BY <1>1, <4>3 DEF FlowTyped, MapTyped
      <4>6. QED
        BY <4>2, <4>4, <4>5
    <3>3. CASE ~ (Mark(t) \/ Slot(t))
      <4>1. UNCHANGED <<modN, mapA>>
        BY <1>5, <3>3 DEF Schedule, Sched, Check, Reserve, TakeHead, Link, Exchange,
                         Chain, mapVars
      <4>2. QED
        BY <4>1 DEF MarkedIn
    <3>4. QED
      BY <3>1, <3>2, <3>3
  <2>5. CASE place[p] = "idle"
    <3>1. place'[p] = "idle"
      <4>1. "idle" \in Before
        OBVIOUS
      <4>2. QED
        BY <2>3, <2>5, <4>1
    <3>2. QED
      BY <1>3, <3>1
  <2>6. CASE place[p] # "idle"
    <3>1. place'[p] \in Before \/ place[p] \notin Before
      BY <2>3
    <3>2. place'[p] = "unmark" => place[p] = "unmark"
      BY <2>3
    <3>3. QED
      BY <1>3, <1>x, <2>2, <2>4, <2>6, <3>1, <3>2
  <2>7. QED
    BY <2>5, <2>6
<1>6. ASSUME NEW q \in Procs, ProcExec(q) PROVE ToldInv(p)'
  <2>1. PICK l \in {"load", "exec", "left"} \cup Telling :
          place' = [place EXCEPT ![q] = l] /\ (l = "left" => place[q] = "exec")
    BY <1>1, <1>6, ExecMoves
  <2>2. /\ q = p => place'[p] = l
        /\ q # p => place'[p] = place[p]
    BY <1>1, <2>1
  <2>3. MarkedIn(p)' \subseteq MarkedIn(p)
    <3>1. modN' = modN \/ modN' = [modN EXCEPT ![Modified(q)] = 0]
      BY <1>6 DEF ProcExec, EnterProc, Load, TellVar, Unmark, Release, Leave, mapVars, Unmarked
    <3>2. \A w \in Vars : modN'[w] > 0 => modN[w] > 0
      <4>1. \A w \in Vars : modN'[w] = modN[w] \/ modN'[w] = 0
        BY <1>1, <3>1
      <4>2. ~ (0 > 0)
        OBVIOUS
      <4>3. QED
        BY <4>1, <4>2
    <3>3. QED
      BY <1>1, <3>2, NotifyIs DEF MarkedIn
  <2>4. mapA' = mapA
    BY <1>6 DEF ProcExec, EnterProc, Load, TellVar, Unmark, Release, Leave, mapVars
  <2>5. CASE q # p
    <3>1. tailIdx'[p] = x
      <4>1. tailIdx' = tailIdx \/ tailIdx' = [tailIdx EXCEPT ![q] = (@ + 1) % MapN(q)]
        BY <1>6 DEF ProcExec, EnterProc, Load, TellVar, Unmark, Release, Leave, mapVars
      <4>2. QED
        BY <1>1, <1>x, <2>5, <4>1
    <3>2. \A v \in Notify(p) : seen'[v] = seen[v]
      <4>1. CASE TellVar(q)
        <5>1. /\ seen' = [seen EXCEPT ![Modified(q)] = Value(Modified(q))]
              /\ place[q] = "tell"
          BY <4>1 DEF TellVar
        <5>2. Modified(q) \in Notify(q) \cup {Nil}
          <6>1. MapInv(q)
            BY DEF ChangeInv
          <6>2. tailIdx[q] \in MapSlots(q)
            BY <1>1, <5>1, <6>1 DEF MapInv, HeadInv, FlowTyped, WorkOK, Telling
          <6>3. QED
            BY <6>1, <6>2 DEF MapInv, SlotInv, Modified
        <5>3. \A v \in Notify(p) : v \in Vars /\ v # Modified(q)
          <6>1. \A v \in Notify(p) : v \in Vars /\ Owner[v] = p
            BY <1>1, NotifyIs
          <6>2. \A v \in Notify(q) : Owner[v] = q
            BY <1>1, NotifyIs
          <6>3. QED
            BY <1>1, <2>5, <5>2, <6>1, <6>2
        <5>4. QED
          BY <1>1, <5>1, <5>3
      <4>2. CASE ~TellVar(q)
        BY <1>6, <4>2 DEF ProcExec, EnterProc, Load, Unmark, Release, Leave, flowHist
      <4>3. QED
        BY <4>1, <4>2
    <3>3. QED
      BY <1>3, <2>2, <2>3, <2>4, <2>5, <3>1, <3>2
  <2>6. CASE q = p
    <3>1. CASE TellVar(p)
      <4>1. /\ place' = [place EXCEPT ![p] = "unmark"]
            /\ seen' = [seen EXCEPT ![m] = Value(m)] /\ UNCHANGED <<val, tailIdx, mapA>>
        BY <1>x, <1>m, <3>1 DEF TellVar, MoveTo, Modified, mapVars
      <4>2. place'[p] \in Before
        BY <1>1, <4>1 DEF Telling
      <4>3. Modified(p)' = m /\ \A v : Value(v)' = Value(v)
        BY <1>x, <1>m, <4>1 DEF Modified, Value
      <4>4. m \in Notify(p) => seen'[m] = Value(m)'
        <5>1. Notify(p) \subseteq Vars
          BY <1>1, NotifyIs
        <5>2. QED
          BY <1>1, <4>1, <4>3, <5>1
      <4>5. place'[p] \notin Before => MarkedIn(p)' = {}
        BY <4>2
      <4>6. Modified(p)' \in Notify(p) => seen'[Modified(p)'] = Value(Modified(p))'
        <5>1. Value(m)' = val'[Src(m)] /\ Value(Modified(p))' = val'[Src(Modified(p)')]
          BY DEF Value
        <5>2. QED
          BY <4>3, <4>4, <5>1
      <4>7. QED
        BY <4>5, <4>6 DEF ToldInv
    <3>2. CASE ~TellVar(p)
      <4>1. l # "unmark"
        <5>1. \E y \in {"load", "exec", "tell", "release", "left"} : place' = [place EXCEPT ![p] = y]
          BY <1>6, <2>6, <3>2 DEF ProcExec, EnterProc, Load, Unmark, Release, Leave, MoveTo
        <5>2. place'[p] \in {"load", "exec", "tell", "release", "left"}
          BY <1>1, <5>1
        <5>3. QED
          BY <2>2, <2>6, <5>2
      <4>2. CASE l = "exec"
        <5>1. MarkedIn(p)' = {}
          BY <1>6, <2>2, <2>6, <4>2, ExecMap
        <5>2. QED
          BY <2>2, <2>6, <4>2, <5>1 DEF ToldInv
      <4>3. CASE l # "exec"
        <5>1. l \in Before \/ place[p] = "exec"
          BY <2>1, <2>6, <4>3
        <5>2. "exec" \notin Before
          BY DEF Telling
        <5>3. QED
          BY <1>3, <2>2, <2>3, <2>6, <4>1, <5>1, <5>2
      <4>4. QED
        BY <4>2, <4>3
    <3>3. QED
      BY <3>1, <3>2
  <2>7. QED
    BY <2>5, <2>6
<1>7. ASSUME NEW t \in FlowThreads, NEW v \in Vars, VarSet(t, v), t = p => place[p] = "exec"
      PROVE  ToldInv(p)'
  <2>1. /\ place' = [place EXCEPT ![t] = "link"]
        /\ UNCHANGED <<modN, tailIdx, mapA, seen>>
    BY <1>7 DEF VarSet, MoveTo, mapVars, flowHist
  <2>2. /\ t = p => place'[p] = "link"
        /\ t # p => place'[p] = place[p]
    BY <1>1, <2>1
  <2>3. "unmark" \notin {"exec"} \cup SchedPcs \cup LinkPcs
    BY DEF SchedPcs, LinkPcs
  <2>4. QED
    BY <1>4, <1>7, <2>1, <2>2, <2>3
<1>8. ASSUME NEW v \in UiSets, AppSet(v) PROVE ToldInv(p)'
  <2>1. App # p /\ v \in Vars /\ VarSet(App, v)
    BY <1>1, <1>8, NetIs DEF AppSet
  <2>2. QED
    BY <1>1, <1>7, <2>1
<1>9. ASSUME NEW q \in Procs, NEW v \in Outs, ProcSet(q, v) PROVE ToldInv(p)'
  <2>1. v \in Vars /\ VarSet(q, v) /\ place[q] = "exec"
    BY <1>1, <1>9, NetIs DEF ProcSet
  <2>2. QED
    BY <1>1, <1>7, <2>1
<1>10. CASE SendUiUpdates \/ Cycle
  <2>1. UNCHANGED <<modN, tailIdx, mapA, seen>>
        /\ (place'[p] = place[p] \/ (place[p] \in {"idle", "left"} /\ place'[p] \in {"idle", "enter"}))
    BY <1>1, <1>10, CycleMoves DEF mapVars
  <2>2. "unmark" \notin {"exec"} \cup SchedPcs \cup LinkPcs
    BY DEF SchedPcs, LinkPcs
  <2>3. QED
    BY <1>4, <2>1, <2>2
<1>11. CASE UNCHANGED flowVars
  <2>1. UNCHANGED <<modN, tailIdx, mapA, seen, place>>
    BY <1>11 DEF flowVars, mapVars, threadVars, flowHist
  <2>2. "unmark" \notin {"exec"} \cup SchedPcs \cup LinkPcs
    BY DEF SchedPcs, LinkPcs
  <2>3. QED
    BY <1>4, <2>1, <2>2
<1>12. QED
  BY <1>5, <1>6, <1>8, <1>9, <1>10, <1>11 DEF FlowNext

\* A variable is not dropped from what a thread has still to schedule unless
\* it is marked: its processor is idle, so that it is not skipped, and there is
\* room for it.
LEMMA LaterMoves ==
  ASSUME FlowSync, ChangeInv, NEW t \in FlowThreads, Schedule(t), NEW v \in NotifyAll,
         v \in Later(t)
  PROVE  v \in Later(t)' \/ modN'[v] > 0
<1>1. /\ FlowTyped /\ PhaseInv /\ SourceInv
      /\ place \in [FlowThreads -> Places] /\ work \in [FlowThreads -> Seq(Vars)]
      /\ modN \in [Vars -> Nat] /\ v \in Vars
  BY NotifyOwner DEF ChangeInv, FlowSync, FlowTyped, ThreadTyped, MapTyped
<1>2. /\ place[t] \in SchedPcs \cup LinkPcs /\ work[t] # <<>> /\ work[t] \in Seq(Vars)
      /\ SchedPcs \cap LinkPcs = {}
  <2>1. place[t] \in SchedPcs \cup LinkPcs
    BY <1>1, ScheduleMoves
  <2>2. QED
    BY <1>1, <2>1 DEF FlowTyped, WorkOK, SchedPcs, LinkPcs
<1>s. PICK s : s = work[t]
  OBVIOUS
<1>3. s \in Seq(Vars) /\ Elems(s) = {s[1]} \cup Elems(Tail(s)) /\ (Len(s) > 1 <=> Tail(s) # <<>>)
      /\ (Tail(s) = <<>> => Elems(Tail(s)) = {})
  <2>1. s # <<>> /\ s \in Seq(Vars)
    BY <1>2, <1>s
  <2>2. Elems(<<>>) = {}
    BY DEF Elems
  <2>3. QED
    BY <2>1, <2>2, WorkIs
<1>4. ASSUME NEW l, place' = [place EXCEPT ![t] = l], work' = work
      PROVE  /\ l \in SchedPcs => Later(t)' = Elems(s)
             /\ l \in LinkPcs => Later(t)' = Elems(Tail(s))
  <2>1. place'[t] = l /\ work'[t] = s
    BY <1>1, <1>s, <1>4
  <2>2. QED
    BY <1>2, <2>1 DEF Later
<1>5. /\ place[t] \in SchedPcs => v \in Elems(s)
      /\ place[t] \in LinkPcs => v \in Elems(Tail(s))
  BY <1>2, <1>s DEF Later
<1>6. ASSUME NextTarget(t), place[t] \in LinkPcs PROVE v \in Later(t)'
  <2>1. /\ work' = [work EXCEPT ![t] = Tail(s)]
        /\ place' = [place EXCEPT ![t] = IF Len(s) > 1 THEN "sched" ELSE Home(t)]
    BY <1>s, <1>6 DEF NextTarget, MoveTo
  <2>2. Len(s) > 1
    BY <1>3, <1>5, <1>6
  <2>3. work'[t] = Tail(s) /\ place'[t] = "sched"
    BY <1>1, <2>1, <2>2
  <2>4. QED
    BY <1>5, <1>6, <2>3 DEF Later, SchedPcs
<1>7. CASE Sched(t)
  <2>1. place[t] = "sched" /\ place[t] \in SchedPcs
    BY <1>7 DEF Sched, SchedPcs
  <2>2. CASE v = s[1]
    <3>1. place[Owner[v]] = "idle" /\ Owner[v] \in Procs
      <4>1. v \in Elems(work[t])
        BY <1>5, <1>s, <2>1
      <4>2. QED
        BY <1>1, <4>1, TargetIdle, NotifyOwner
    <3>2. recurse[Owner[v]] = FALSE
      BY <1>1, <3>1 DEF PhaseInv, FlowTyped, MapTyped
    <3>3. place' = [place EXCEPT ![t] = "check"] /\ work' = work
      BY <1>7, <1>s, <2>2, <3>2 DEF Sched, MoveTo, Scheduled, Target
    <3>4. QED
      BY <1>4, <1>5, <2>1, <3>3 DEF SchedPcs
  <2>3. CASE v # s[1]
    <3>1. v \in Elems(Tail(s))
      BY <1>3, <1>5, <2>1, <2>3
    <3>2. work' = work /\ \E l \in {"check", "link"} : place' = [place EXCEPT ![t] = l]
      BY <1>7 DEF Sched, MoveTo
    <3>3. \A l \in {"check", "link"} : l \in SchedPcs \/ l \in LinkPcs
      BY DEF SchedPcs, LinkPcs
    <3>4. QED
      BY <1>3, <1>4, <3>1, <3>2, <3>3
  <2>4. QED
    BY <2>2, <2>3
<1>8. CASE Check(t)
  <2>1. place[t] \in SchedPcs /\ work' = work /\ modN' = modN
    BY <1>8 DEF Check, SchedPcs, mapVars
  <2>2. place' = [place EXCEPT ![t] = IF modN[s[1]] > 0 THEN "link" ELSE "reserve"]
    BY <1>8, <1>s DEF Check, MoveTo, Marked, Scheduled
  <2>3. "link" \in LinkPcs /\ "reserve" \in SchedPcs
    BY DEF SchedPcs, LinkPcs
  <2>4. CASE modN[s[1]] > 0
    <3>1. Later(t)' = Elems(Tail(s))
      BY <1>4, <2>1, <2>2, <2>3, <2>4
    <3>2. v = s[1] \/ v \in Elems(Tail(s))
      BY <1>3, <1>5, <2>1
    <3>3. QED
      BY <2>1, <2>4, <3>1, <3>2
  <2>5. CASE ~(modN[s[1]] > 0)
    BY <1>4, <1>5, <2>1, <2>2, <2>3, <2>5
  <2>6. QED
    BY <2>4, <2>5
<1>9. CASE Reserve(t) \/ TakeHead(t) \/ Slot(t)
  <2>1. place[t] \in SchedPcs
    BY <1>9 DEF Reserve, TakeHead, Slot, SchedPcs
  <2>2. work' = work /\ \E l \in {"head", "slot", "mark"} : place' = [place EXCEPT ![t] = l]
    BY <1>9, ReserveMap DEF TakeHead, Slot, MoveTo
  <2>3. {"head", "slot", "mark"} \subseteq SchedPcs
    BY DEF SchedPcs
  <2>4. QED
    BY <1>4, <1>5, <2>1, <2>2, <2>3
<1>10. CASE Mark(t)
  <2>1. /\ place[t] \in SchedPcs /\ work' = work /\ place' = [place EXCEPT ![t] = "link"]
        /\ modN' = [modN EXCEPT ![s[1]] = @ + 1]
    BY <1>10, <1>s DEF Mark, MoveTo, Scheduled, SchedPcs
  <2>2. CASE v = s[1]
    BY <1>1, <2>1, <2>2
  <2>3. CASE v # s[1]
    BY <1>3, <1>4, <1>5, <2>1, <2>3 DEF LinkPcs
  <2>4. QED
    BY <2>2, <2>3
<1>11. CASE Link(t)
  <2>1. place[t] \in LinkPcs
    BY <1>11 DEF Link, LinkPcs
  <2>2. NextTarget(t) \/ (place' = [place EXCEPT ![t] = "exchange"] /\ work' = work)
    BY <1>11 DEF Link, MoveTo
  <2>3. "exchange" \in LinkPcs
    BY DEF LinkPcs
  <2>4. QED
    BY <1>4, <1>5, <1>6, <2>1, <2>2, <2>3
<1>12. CASE Exchange(t)
  <2>1. place[t] \in LinkPcs /\ place' = [place EXCEPT ![t] = "chain"] /\ work' = work
    BY <1>12 DEF Exchange, MoveTo, LinkPcs
  <2>2. "chain" \in LinkPcs
    BY DEF LinkPcs
  <2>3. QED
    BY <1>4, <1>5, <2>1, <2>2
<1>13. CASE Chain(t)
  <2>1. place[t] \in LinkPcs /\ NextTarget(t)
    BY <1>13 DEF Chain, LinkPcs
  <2>2. QED
    BY <1>6, <2>1
<1>14. QED
  BY <1>7, <1>8, <1>9, <1>10, <1>11, <1>12, <1>13 DEF Schedule

\* Every change of a variable is known to its processor, or marked, or still to
\* be scheduled.
LEMMA SeenStep ==
  ASSUME FlowSync, ChangeInv, [FlowNext]_flowVars, NEW p \in Procs
  PROVE  SeenInv(p)'
<1>1. /\ FlowTyped /\ PhaseInv /\ SourceInv /\ MapInv(p) /\ ToldInv(p) /\ SeenInv(p)
      /\ Procs \subseteq FlowThreads /\ App \in FlowThreads /\ App \notin Procs
      /\ place \in [FlowThreads -> Places] /\ work \in [FlowThreads -> Seq(Vars)]
      /\ modN \in [Vars -> Nat] /\ seen \in [Vars -> Nat] /\ val \in [Vars -> Nat]
      /\ Outs \cap NotifyAll = {}
  BY NetIs DEF ChangeInv, FlowSync, FlowTyped, ThreadTyped, MapTyped, HistTyped, FlowThreads
<1>2. \A v \in Notify(p) : v \in Vars /\ v \in NotifyAll
  <2>1. \A v \in Notify(p) : v \in Vars
    BY <1>1, NotifyIs
  <2>2. QED
    BY <2>1 DEF NotifyAll
<1>3. ASSUME \A v \in Notify(p) : Value(v)' = Value(v) /\ seen'[v] = seen[v],
             \A v \in Notify(p) : modN[v] > 0 => modN'[v] > 0,
             \A t \in FlowThreads : \A v \in Later(t) :
               v \in Notify(p) => v \in Later(t)' \/ modN'[v] > 0
      PROVE  SeenInv(p)'
  <2>1. ASSUME NEW v \in Notify(p)
        PROVE  seen'[v] = Value(v)' \/ modN'[v] > 0 \/ \E t \in FlowThreads : v \in Later(t)'
    <3>1. seen[v] = Value(v) \/ modN[v] > 0 \/ \E t \in FlowThreads : v \in Later(t)
      BY <1>1 DEF SeenInv
    <3>2. Value(v)' = Value(v) /\ seen'[v] = seen[v]
      BY <1>3
    <3>3. QED
      BY <1>3, <3>1, <3>2
  <2>2. QED
    BY <2>1 DEF SeenInv
<1>4. ASSUME val' = val, NEW v PROVE Value(v)' = Value(v)
  BY <1>4 DEF Value
\* What a thread has to schedule is not changed by the others.
<1>5. ASSUME NEW t \in FlowThreads, place'[t] = place[t], work'[t] = work[t]
      PROVE  Later(t)' = Later(t)
  BY <1>5 DEF Later
<1>6. ASSUME NEW t \in FlowThreads, Schedule(t) PROVE SeenInv(p)'
  <2>1. UNCHANGED <<val, seen>> /\ \A u \in FlowThreads : u # t => place'[u] = place[u] /\ work'[u] = work[u]
    <3>1. PICK l \in SchedPcs \cup LinkPcs \cup {Home(t)}, w \in Seq(Vars) :
            place' = [place EXCEPT ![t] = l] /\ work' = [work EXCEPT ![t] = w]
      BY <1>1, <1>6, ScheduleMoves
    <3>2. UNCHANGED <<val, seen>>
      BY <1>1, <1>6, ScheduleMoves
    <3>3. QED
      BY <1>1, <3>1, <3>2
  <2>2. \A v \in Notify(p) : modN[v] > 0 => modN'[v] > 0
    <3>1. modN' = modN \/ modN' = [modN EXCEPT ![Scheduled(t)] = @ + 1]
      BY <1>6 DEF Schedule, Sched, Check, Reserve, TakeHead, Slot, Mark, Link,
                  Exchange, Chain, mapVars
    <3>2. PICK y : y = Scheduled(t)
      OBVIOUS
    <3>3. \A v \in Vars : modN'[v] = modN[v] \/ modN'[v] = modN[v] + 1
      <4>1. modN' = modN \/ modN' = [modN EXCEPT ![y] = @ + 1]
        BY <3>1, <3>2
      <4>2. QED
        BY <1>1, <4>1
    <3>4. \A v \in Vars : modN[v] \in Nat
      BY <1>1
    <3>5. QED
      BY <1>2, <3>3, <3>4
  <2>3. ASSUME NEW u \in FlowThreads, NEW v \in Later(u), v \in Notify(p)
        PROVE  v \in Later(u)' \/ modN'[v] > 0
    <3>1. CASE u = t
      <4>1. v \in NotifyAll /\ v \in Later(t)
        BY <1>2, <2>3, <3>1
      <4>2. v \in Later(t)' \/ modN'[v] > 0
        BY <1>6, <4>1, LaterMoves
      <4>3. QED
        BY <3>1, <4>2
    <3>2. CASE u # t
      <4>1. Later(u)' = Later(u)
        BY <1>5, <2>1, <3>2
      <4>2. QED
        BY <2>3, <4>1
    <3>3. QED
      BY <3>1, <3>2
  <2>4. \A v \in Notify(p) : Value(v)' = Value(v) /\ seen'[v] = seen[v]
    BY <1>4, <2>1
  <2>5. QED
    BY <1>3, <2>2, <2>3, <2>4
<1>7. ASSUME NEW q \in Procs, ProcExec(q) PROVE SeenInv(p)'
  <2>1. /\ UNCHANGED <<val, work>> /\ \A u \in FlowThreads : Later(u)' = Later(u)
    <3>1. PICK l \in {"load", "exec", "left"} \cup Telling : place' = [place EXCEPT ![q] = l]
      BY <1>1, <1>7, ExecMoves
    <3>2. place[q] \in {"enter", "load", "exec"} \cup Telling /\ UNCHANGED <<val, work>>
      BY <1>1, <1>7, ExecMoves
    <3>3. place'[q] = l /\ \A u \in FlowThreads : u # q => place'[u] = place[u]
      BY <1>1, <3>1
    <3>4. \A y \in {"enter", "load", "exec", "left"} \cup Telling : y \notin SchedPcs /\ y \notin LinkPcs
      BY DEF Telling, SchedPcs, LinkPcs
    <3>5. place[q] \notin SchedPcs \cup LinkPcs /\ place'[q] \notin SchedPcs \cup LinkPcs
      BY <3>1, <3>2, <3>3, <3>4
    <3>6. Later(q)' = {} /\ Later(q) = {}
      BY <3>5 DEF Later
    <3>7. \A u \in FlowThreads : u # q => Later(u)' = Later(u)
      BY <1>5, <3>2, <3>3
    <3>8. QED
      BY <3>2, <3>6, <3>7
  <2>2. \A v : Value(v)' = Value(v)
    BY <1>4, <2>1
  <2>m. PICK m : m = Modified(q)
    OBVIOUS
  <2>3. CASE TellVar(q)
    <3>1. modN' = modN /\ seen' = [seen EXCEPT ![m] = Value(m)]
      BY <2>m, <2>3 DEF TellVar, mapVars
    <3>2. ASSUME NEW v \in Notify(p)
          PROVE  seen'[v] = Value(v)' \/ modN'[v] > 0 \/ \E t \in FlowThreads : v \in Later(t)'
      <4>1. seen[v] = Value(v) \/ modN[v] > 0 \/ \E t \in FlowThreads : v \in Later(t)
        BY <1>1 DEF SeenInv
      <4>2. seen'[v] = IF v = m THEN Value(v) ELSE seen[v]
        BY <1>1, <1>2, <3>1
      <4>3. QED
        BY <2>1, <2>2, <3>1, <4>1, <4>2
    <3>3. QED
      BY <3>2 DEF SeenInv
  <2>4. CASE Unmark(q)
    <3>1. modN' = [modN EXCEPT ![m] = 0] /\ seen' = seen /\ place[q] = "unmark"
      BY <2>m, <2>4 DEF Unmark, Unmarked, flowHist
    <3>2. m \in Notify(p) => seen[m] = Value(m)
      <4>1. ToldInv(q) /\ MapInv(q)
        BY DEF ChangeInv
      <4>2. m \in Notify(q) => seen[m] = Value(m)
        BY <2>m, <3>1, <4>1 DEF ToldInv
      <4>3. m \in Notify(q) \cup {Nil}
        <5>1. tailIdx[q] \in MapSlots(q)
          BY <1>1, <3>1, <4>1 DEF MapInv, HeadInv, FlowTyped, WorkOK, Telling
        <5>2. QED
          BY <2>m, <4>1, <5>1 DEF MapInv, SlotInv, Modified
      <4>4. Nil \notin Vars
        BY <1>1, NetIs
      <4>5. QED
        BY <1>2, <4>2, <4>3, <4>4
    <3>3. ASSUME NEW v \in Notify(p)
          PROVE  seen'[v] = Value(v)' \/ modN'[v] > 0 \/ \E t \in FlowThreads : v \in Later(t)'
      <4>1. seen[v] = Value(v) \/ modN[v] > 0 \/ \E t \in FlowThreads : v \in Later(t)
        BY <1>1 DEF SeenInv
      <4>2. v # m => modN'[v] = modN[v]
        BY <1>1, <1>2, <3>1
      <4>3. v = m => seen[v] = Value(v)
        BY <3>2
      <4>4. QED
        BY <2>1, <2>2, <3>1, <4>1, <4>2, <4>3
    <3>4. QED
      BY <3>3 DEF SeenInv
  <2>5. CASE ~TellVar(q) /\ ~Unmark(q)
    <3>1. UNCHANGED <<modN, seen>>
      BY <1>7, <2>5 DEF ProcExec, EnterProc, Load, Release, Leave, mapVars, flowHist
    <3>2. QED
      BY <1>3, <2>1, <2>2, <3>1
  <2>6. QED
    BY <2>3, <2>4, <2>5
\* A variable is set: what it feeds is to be scheduled.
<1>8. ASSUME NEW t \in FlowThreads, NEW x \in Vars, VarSet(t, x), place[t] \in {"idle", "exec"},
             t = App \/ x \in Outs
      PROVE  SeenInv(p)'
  <2>w. PICK w : w = Targets(t, x)
    OBVIOUS
  <2>1. /\ val' = [val EXCEPT ![x] = @ + 1] /\ work' = [work EXCEPT ![t] = w]
        /\ place' = [place EXCEPT ![t] = "link"] /\ UNCHANGED <<modN, seen>>
    BY <1>8, <2>w DEF VarSet, MoveTo, mapVars, flowHist
  <2>2. place'[t] = "link" /\ work'[t] = w
        /\ \A u \in FlowThreads : u # t => place'[u] = place[u] /\ work'[u] = work[u]
    BY <1>1, <2>1
  <2>3. Later(t) = {} /\ Later(t)' = Elems(Tail(w)) /\ \A u \in FlowThreads : u # t => Later(u)' = Later(u)
    <3>1. place[t] \notin SchedPcs \cup LinkPcs
      BY <1>8 DEF SchedPcs, LinkPcs
    <3>2. Later(t) = {}
      BY <3>1 DEF Later
    <3>3. place'[t] \in LinkPcs /\ place'[t] \notin SchedPcs
      BY <2>2 DEF SchedPcs, LinkPcs
    <3>4. Later(t)' = Elems(Tail(w))
      BY <2>2, <3>3 DEF Later
    <3>5. QED
      BY <1>5, <2>2, <3>2, <3>4
  <2>4. ASSUME NEW v \in Notify(p)
        PROVE  seen'[v] = Value(v)' \/ modN'[v] > 0 \/ \E u \in FlowThreads : v \in Later(u)'
    <3>1. seen[v] = Value(v) \/ modN[v] > 0 \/ \E u \in FlowThreads : v \in Later(u)
      BY <1>1 DEF SeenInv
    <3>2. CASE Src(v) = x
      <4>1. v \in Elems(Tail(w))
        <5>1. CASE \E u \in Vars : v \in Elems(Dsts[u])
          <6>1. v \in Elems(Dsts[x])
            BY <3>2, <5>1 DEF Src
          <6>2. QED
            BY <1>1, <2>w, <6>1, TargetsTyped
        <5>2. CASE ~ \E u \in Vars : v \in Elems(Dsts[u])
          <6>1. v = x
            BY <3>2, <5>2 DEF Src
          <6>2. t = App
            BY <1>1, <1>2, <1>8, <6>1
          <6>3. QED
            BY <1>1, <2>w, <6>1, <6>2, TargetsTyped
        <5>3. QED
          BY <5>1, <5>2
      <4>2. QED
        BY <2>3, <4>1
    <3>3. CASE Src(v) # x
      <4>1. Src(v) \in Vars
        BY <1>1, <1>2, SourceIs
      <4>2. val'[Src(v)] = val[Src(v)]
        BY <1>1, <2>1, <3>3, <4>1
      <4>3. Value(v)' = Value(v)
        BY <4>2 DEF Value
      <4>4. QED
        BY <2>1, <2>3, <3>1, <4>3
    <3>4. QED
      BY <3>2, <3>3
  <2>5. QED
    BY <2>4 DEF SeenInv
<1>9. ASSUME NEW v \in UiSets, AppSet(v) PROVE SeenInv(p)'
  <2>1. place[App] = "idle" /\ VarSet(App, v) /\ v \in Vars
    BY <1>1, <1>9, NetIs DEF AppSet
  <2>2. QED
    BY <1>1, <1>8, <2>1
<1>10. ASSUME NEW q \in Procs, NEW v \in Outs, ProcSet(q, v) PROVE SeenInv(p)'
  <2>1. place[q] = "exec" /\ VarSet(q, v) /\ v \in Vars
    BY <1>1, <1>10, NetIs DEF ProcSet
  <2>2. QED
    BY <1>1, <1>8, <2>1
<1>11. CASE SendUiUpdates \/ Cycle
  <2>1. UNCHANGED <<modN, val, seen, work>>
        /\ \A u \in FlowThreads : place'[u] = place[u]
                 \/ (place[u] \in {"idle", "left"} /\ place'[u] \in {"idle", "enter"})
    BY <1>1, <1>11, CycleMoves DEF mapVars
  <2>2. \A y \in {"idle", "left", "enter"} : y \notin SchedPcs \cup LinkPcs
    BY DEF SchedPcs, LinkPcs
  <2>3. ASSUME NEW u \in FlowThreads PROVE Later(u)' = Later(u)
    <3>1. CASE place'[u] = place[u]
      BY <1>5, <2>1, <3>1
    <3>2. CASE place[u] \in {"idle", "left"} /\ place'[u] \in {"idle", "enter"}
      <4>1. place[u] \notin SchedPcs \cup LinkPcs /\ place'[u] \notin SchedPcs \cup LinkPcs
        BY <2>2, <3>2
      <4>2. QED
        BY <4>1 DEF Later
    <3>3. QED
      BY <2>1, <3>1, <3>2
  <2>4. \A v : Value(v)' = Value(v)
    BY <1>4, <2>1
  <2>5. QED
    BY <1>3, <2>1, <2>3, <2>4
<1>12. CASE UNCHANGED flowVars
  <2>1. UNCHANGED <<modN, val, seen, work, place>>
    BY <1>12 DEF flowVars, mapVars, threadVars, flowHist
  <2>2. \A u \in FlowThreads : Later(u)' = Later(u)
    BY <1>5, <2>1
  <2>3. \A v : Value(v)' = Value(v)
    BY <1>4, <2>1
  <2>4. QED
    BY <1>3, <2>1, <2>2, <2>3
<1>13. QED
  BY <1>6, <1>7, <1>9, <1>10, <1>11, <1>12 DEF FlowNext

LEMMA ChangeInit ==
  ASSUME FlowSync, FlowInit
  PROVE  ChangeInv
<1>1. FlowTyped
  BY FlowTypedInit DEF FlowSync
<1>2. /\ \A t \in FlowThreads : place[t] = "idle" /\ work[t] = <<>>
      /\ \A p \in Procs : place[p] = "idle" /\ fullCnt[p] = 0 /\ recurse[p] = FALSE
      /\ \A v \in Vars : modN[v] = 0 /\ val[v] = 0 /\ seen[v] = 0
      /\ ~InCycle /\ stage = 0
  BY DEF FlowInit, InCycle, FlowThreads
<1>3. PhaseInv
  BY <1>2 DEF PhaseInv
<1>4. Elems(<<>>) = {}
  BY DEF Elems
<1>5. SourceInv
  BY <1>2, <1>4 DEF SourceInv, FlowThreads
<1>6. UnmarkedInv
  BY <1>2 DEF UnmarkedInv
<1>7. ASSUME NEW p \in Procs PROVE MapInv(p) /\ SeenInv(p) /\ ToldInv(p)
  <2> DEFINE n == MapN(p)
             len == Len(NotifyVars[p])
  <2>1. n \in Nat /\ len \in Nat /\ len < Word /\ Word \in Nat /\ Notify(p) \subseteq Vars
        /\ \A i \in 1 .. len : NotifyVars[p][i] \in Notify(p)
    BY <1>1, NotifyIs, NetIs DEF FlowSync
  <2>2. Held(p) = {} /\ Busy(p) = {} /\ Writing(p) = {} /\ Cardinality({}) = 0 /\ ~ (0 > 0)
    <3>1. ~ (0 > 0) /\ Cardinality({}) = 0
      BY FS_EmptySet
    <3>2. QED
      BY <1>2, <2>1, <3>1 DEF Held, Busy, MarkedIn, Counted, Given, Writing, On
  <2>3. Win(p) = 0
    BY <1>2, <2>2 DEF Win, Telling
  <2>4. CountInv(p)
    BY <1>2, <2>2 DEF CountInv, Telling
  <2>5. HeadInv(p)
    <3>1. SUFFICES ASSUME n # 0 PROVE tailIdx[p] \in MapSlots(p) /\ headIdx[p] % n = At(p, 0)
      BY <2>3 DEF HeadInv
    <3>2. headIdx[p] = len % Word /\ tailIdx[p] = len % n
      BY <3>1 DEF FlowInit
    <3> HIDE DEF n, len
    <3>3. len % Word = len /\ len % n \in 0 .. (n - 1) /\ n \in Nat \ {0}
      <4>1. n \in Nat \ {0}
        BY <2>1, <3>1
      <4>2. len % n \in 0 .. (n - 1)
        BY <2>1, <4>1, RemainderIs
      <4>3. len % Word = len
        BY <2>1
      <4>4. QED
        BY <4>1, <4>2, <4>3
    <3>4. (tailIdx[p] + 0) % n = tailIdx[p]
      BY <3>2, <3>3, WindowIs
    <3>5. QED
      BY <3>2, <3>3, <3>4 DEF At, MapSlots, n
  <2>6. ClaimInv(p)
    BY <1>2 DEF ClaimInv, Claims
  <2>7. SlotInv(p)
    <3>1. ASSUME NEW i \in MapSlots(p) PROVE mapA[p][i] \in Notify(p) \cup {Nil}
      <4>1. mapA[p][i] = IF i < len THEN NotifyVars[p][i + 1] ELSE Nil
        BY <3>1 DEF FlowInit
      <4>2. i < len => i + 1 \in 1 .. len
        BY <2>1, <3>1 DEF MapSlots
      <4>3. QED
        BY <2>1, <4>1, <4>2
    <3>2. QED
      BY <2>2, <3>1 DEF SlotInv
  <2>8. SeenInv(p)
    <3>1. \A v \in Notify(p) : seen[v] = Value(v)
      BY <1>1, <1>2, <2>1, SourceIs DEF Value
    <3>2. QED
      BY <3>1 DEF SeenInv
  <2>9. ToldInv(p)
    BY <1>2 DEF ToldInv
  <2>10. QED
    BY <2>4, <2>5, <2>6, <2>7, <2>8, <2>9 DEF MapInv
<1>8. QED
  BY <1>1, <1>3, <1>5, <1>6, <1>7 DEF ChangeInv

LEMMA ChangeStep ==
  ASSUME FlowSync, ChangeInv, Unwrapped, [FlowNext]_flowVars
  PROVE  ChangeInv'
<1>1. FlowTyped /\ PhaseInv /\ SourceInv /\ ~UiAsync
  BY DEF ChangeInv, FlowSync
<1>2. FlowTyped' /\ PhaseInv' /\ SourceInv'
  BY <1>1, FlowTypedStep, PhaseStep, SourceStep
<1>3. UnmarkedInv'
  BY UnmarkedStep
<1>4. \A p \in Procs : MapInv(p)'
  BY MapStep
<1>5. \A p \in Procs : SeenInv(p)' /\ ToldInv(p)'
  BY SeenStep, ToldStep
<1>6. QED
  BY <1>2, <1>3, <1>4, <1>5 DEF ChangeInv

\* A processor that executes has nothing marked, and nobody has a variable of
\* it to schedule: so it has seen them all.
LEMMA ChangeTold ==
  ASSUME FlowSync, ChangeInv
  PROVE  ChangesToldInTime
<1>1. SUFFICES ASSUME NEW p \in Procs, place[p] = "exec", NEW v \in Notify(p)
               PROVE  seen[v] = Value(v)
  BY DEF ChangesToldInTime
<1>2. FlowTyped /\ PhaseInv /\ SourceInv /\ SeenInv(p) /\ ToldInv(p)
  BY <1>1 DEF ChangeInv
<1>3. ~(modN[v] > 0)
  <2>1. MarkedIn(p) = {}
    BY <1>1, <1>2 DEF ToldInv, Telling
  <2>2. QED
    BY <2>1 DEF MarkedIn
<1>4. \A t \in FlowThreads : v \notin Later(t)
  <2>1. \A t \in FlowThreads : v \notin Elems(work[t])
    BY <1>1, <1>2, NobodyOn
  <2>2. \A t \in FlowThreads : place[t] \in LinkPcs => Elems(Tail(work[t])) \subseteq Elems(work[t])
    <3>1. \A t \in FlowThreads : place[t] \in LinkPcs => work[t] # <<>> /\ work[t] \in Seq(Vars)
      BY <1>2 DEF FlowTyped, ThreadTyped, WorkOK
    <3>2. QED
      BY <3>1, WorkIs
  <2>3. QED
    BY <2>1, <2>2 DEF Later
<1>5. QED
  BY <1>2, <1>3, <1>4 DEF SeenInv

LEMMA ChangeAlways ==
  ASSUME FlowSync, ChangeInv, [FlowNext]_flowVars, [Unwrapped]_flowVars
  PROVE  ChangeInv'
<1>1. CASE Unwrapped
  BY <1>1, ChangeStep
<1>2. CASE UNCHANGED flowVars
  <2>1. Unwrapped
    <3>1. headIdx' = headIdx
      BY <1>2 DEF flowVars, mapVars
    <3>2. \A p \in Procs : headIdx[p] \in Nat
      <4>1. Word \in Nat
        BY NetIs DEF FlowSync
      <4>2. QED
        BY <4>1 DEF ChangeInv, FlowTyped, MapTyped
    <3>3. QED
      BY <3>1, <3>2 DEF Unwrapped
  <2>2. QED
    BY <2>1, ChangeStep
<1>3. QED
  BY <1>1, <1>2

\* ChangesAlwaysTold: no change of a variable is lost.  In whatever order the
\* threads run, a processor that executes has been told the value of each of
\* its variables (proc_notify() of cwFlowProc), as long as the application
\* holds the callback mutex and the 32 bit index of the head does not start
\* again at 0 in a map whose size does not divide 2^32.
THEOREM ChangesAlwaysTold ==
  FlowSync => (FlowSpec /\ [][Unwrapped]_flowVars => []ChangesToldInTime)
<1> SUFFICES ASSUME FlowSync
             PROVE  FlowSpec /\ [][Unwrapped]_flowVars => []ChangesToldInTime
  OBVIOUS
<1>1. FlowInit => ChangeInv
  BY ChangeInit
<1>2. ChangeInv /\ [FlowNext]_flowVars /\ [Unwrapped]_flowVars => ChangeInv'
  BY ChangeAlways
<1>3. ChangeInv => ChangesToldInTime
  BY ChangeTold
<1>4. QED
  BY <1>1, <1>2, <1>3, PTL DEF FlowSpec

------------------------------------------------------------------------------
(***************************************************************************)
(* The list of variables to send to the UI.  c is the list in the order of *)
(* the exchanges of its head.  While threads push (PushList) the pointer   *)
(* to a variable is that to its predecessor until its thread has stored    *)
(* it; while the list is emptied (PopList) c is what is left of it, and    *)
(* nobody pushes, because the application holds the callback mutex.        *)
(***************************************************************************)
Linking == {"exchange", "chain"}
OnWay(l) == {v \in Vars : \E t \in FlowThreads : place[t] = l /\ work[t][1] = v}
Flagged == {v \in Vars : linkFl[v] > 0}
Pred(c, i) == IF i = 1 THEN Stub ELSE c[i - 1]
Succ(c, i) == IF i = Len(c) THEN Nil ELSE c[i + 1]
Once(c) == \A i, j \in 1 .. Len(c) : c[i] = c[j] => i = j

\* Who is at work on a variable of the list is alone with it.
FlaggedInv ==
  /\ \A v \in Vars : linkFl[v] >= 0 /\ (linkFl[v] > 0 => v \in HasUi)
  /\ \A t \in FlowThreads : place[t] \in Linking => linkFl[work[t][1]] > 0
  /\ \A t, u \in FlowThreads :
       place[t] \in Linking /\ place[u] \in Linking /\ work[t][1] = work[u][1] => t = u

PushList(c) ==
  /\ Elems(c) = Flagged \ OnWay("exchange")
  /\ uiHead = Pred(c, Len(c) + 1) /\ link[uiHead] = Nil
  /\ \A i \in 1 .. Len(c) : link[Pred(c, i)] = IF c[i] \in OnWay("chain") THEN Nil ELSE c[i]
  /\ \A t \in FlowThreads : place[t] = "chain" =>
       \E i \in 1 .. Len(c) : work[t][1] = c[i] /\ prev[t] = Pred(c, i)
  /\ \A v \in Vars \ Elems(c) : link[v] = Nil

PopList(c) ==
  /\ Elems(c) = Flagged
  /\ \A i \in 1 .. Len(c) :
       link[c[i]] = IF i = 1 /\ flush = "unflag" THEN Nil ELSE Succ(c, i)
  /\ flush \in {"show", "unlink", "unflag"} => c # <<>> /\ uiVar[1] = c[1]
  /\ flush \in {"unlink", "unflag"} => uiVar[2] = Succ(c, 1)
  /\ flush \in {"head", "stub"} => c = <<>>
  /\ flush = "stub" => uiHead = Stub
  /\ \A v \in Vars \ Elems(c) : link[v] = Nil

Pushing == flush \in {"no", "first"}

ListInv ==
  /\ flush # "no" => stage = 0
  /\ Pushing => \E c \in Seq(Vars) : Once(c) /\ PushList(c)
  /\ ~Pushing => \E c \in Seq(Vars) : Once(c) /\ PopList(c)

\* What a thread has still to link.
ToShow(t) ==
  IF place[t] \in SchedPcs \cup {"link"} THEN Elems(work[t])
  ELSE IF place[t] \in Linking THEN Elems(Tail(work[t])) ELSE {}

\* The UI has seen the value of a variable, or the variable is on the list, or
\* will be.
ShownInv ==
  /\ \A v \in HasUi :
       shown[v] = Value(v) \/ linkFl[v] > 0 \/ \E t \in FlowThreads : v \in ToShow(t)
  /\ flush \in {"unlink", "unflag"} => shown[uiVar[1]] = Value(uiVar[1])

UiInv == FlaggedInv /\ ListInv /\ ShownInv

\* A non-empty set of natural numbers has a least element.
LEMMA LeastNat ==
  ASSUME NEW T, T \subseteq Nat, T # {}
  PROVE  \E x \in T : \A y \in T : x <= y
<1> DEFINE R == {ss \in Nat \X Nat : ss[1] < ss[2]}
<1>1. IsWellFoundedOn(R, Nat)
  BY NatLessThanWellFounded, Zenon DEF OpToRel
<1> HIDE DEF R
<1>2. PICK x \in T : \A y \in T : ~ (<<y, x>> \in R)
  BY <1>1, WFMin
<1>3. ASSUME NEW y \in T PROVE x <= y
  <2>1. <<y, x>> \notin R /\ y \in Nat /\ x \in Nat
    BY <1>2
  <2>2. ~(y < x)
    BY <2>1, Zenon DEF R
  <2>3. QED
    BY <2>1, <2>2
<1>4. QED
  BY <1>3

\* What is as ListNode is defined is ListNode.
LEMMA NodeIs ==
  ASSUME NEW N \in Nat, N = Cardinality(Vars), NEW h, h[0] = Stub,
         \A n \in 1 .. N : h[n] = IF h[n - 1] = Nil THEN Nil ELSE link[h[n - 1]]
  PROVE  \A n \in 0 .. N : ListNode[n] = h[n]
<1>f. PICK f : f = [n \in 0 .. N |-> h[n]]
  OBVIOUS
<1>0. f = [n \in 0 .. N |-> IF n = 0 THEN Stub
                            ELSE IF f[n - 1] = Nil THEN Nil ELSE link[f[n - 1]]]
  <2>1. ASSUME NEW n \in 0 .. N
        PROVE  h[n] = IF n = 0 THEN Stub
                      ELSE IF f[n - 1] = Nil THEN Nil ELSE link[f[n - 1]]
    <3>1. n # 0 => n \in 1 .. N /\ n - 1 \in 0 .. N
      OBVIOUS
    <3>2. n # 0 => f[n - 1] = h[n - 1]
      BY <1>f, <3>1
    <3>3. QED
      BY <3>1, <3>2
  <2>2. QED
    BY <1>f, <2>1
<1>g. PICK g : g = ListNode
  OBVIOUS
<1>1. g = [n \in 0 .. N |-> IF n = 0 THEN Stub
                               ELSE IF g[n - 1] = Nil THEN Nil ELSE link[g[n - 1]]]
  BY <1>0, <1>g, Zenon DEF ListNode
<1> DEFINE B == {n \in 0 .. N : g[n] # f[n]}
<1>2. ASSUME B # {} PROVE FALSE
  <2>1. PICK n \in B : \A m \in B : n <= m
    <3>1. B \subseteq Nat
      OBVIOUS
    <3>2. QED
      BY <1>2, <3>1, LeastNat
  <2>2. n # 0 /\ n - 1 \in 0 .. N /\ n - 1 \notin B /\ n \in 0 .. N
    BY <1>0, <1>1, <2>1
  <2>3. g[n - 1] = f[n - 1]
    BY <2>2
  <2>4. g[n] = f[n]
    BY <1>0, <1>1, <2>2, <2>3
  <2>5. QED
    BY <2>1, <2>4
<1>3. QED
  BY <1>2, <1>f, <1>g

LEMMA UiIs ==
  ASSUME FlowTyped
  PROVE  /\ linkFl \in [Vars -> Int] /\ link \in [Vars \cup {Stub} -> Vars \cup {Nil}]
         /\ uiHead \in Vars \cup {Stub} /\ prev \in [FlowThreads -> Vars \cup {Stub}]
         /\ place \in [FlowThreads -> Places] /\ work \in [FlowThreads -> Seq(Vars)]
         /\ Stub \notin Vars /\ Nil \notin Vars /\ Nil # Stub /\ HasUi \subseteq Vars
         /\ \A t \in FlowThreads : place[t] \in LinkPcs => work[t] # <<>> /\ work[t][1] \in Vars
<1>1. \A t \in FlowThreads : place[t] \in LinkPcs => work[t] # <<>>
  BY DEF FlowTyped, WorkOK
<1>2. work \in [FlowThreads -> Seq(Vars)]
  BY DEF FlowTyped, ThreadTyped
<1>3. \A t \in FlowThreads : place[t] \in LinkPcs => work[t][1] \in Vars
  BY <1>1, <1>2
<1>4. QED
  BY <1>1, <1>2, <1>3, NetIs DEF FlowTyped, UiTyped, ThreadTyped

\* The elements of a list c, and which of them come before others.
LEMMA ListIs ==
  ASSUME NEW c \in Seq(Vars), Stub \notin Vars
  PROVE  /\ Len(c) \in Nat /\ \A i \in 1 .. Len(c) : c[i] \in Vars
         /\ \A x : x \in Elems(c) <=> \E i \in 1 .. Len(c) : x = c[i]
         /\ Elems(c) \subseteq Vars
         /\ (c = <<>> <=> Len(c) = 0)
         /\ \A i \in 1 .. (Len(c) + 1) : Pred(c, i) \in Elems(c) \cup {Stub}
         /\ Once(c) => \A i, j \in 1 .. (Len(c) + 1) : Pred(c, i) = Pred(c, j) => i = j
<1>1. Len(c) \in Nat /\ DOMAIN c = 1 .. Len(c) /\ \A i \in 1 .. Len(c) : c[i] \in Vars
  OBVIOUS
<1>2. Elems(c) = {c[i] : i \in 1 .. Len(c)}
  BY <1>1 DEF Elems
<1>3. \A i \in 1 .. (Len(c) + 1) : i # 1 => i - 1 \in 1 .. Len(c)
  BY <1>1
<1>4. \A i \in 1 .. (Len(c) + 1) : Pred(c, i) \in Elems(c) \cup {Stub}
  BY <1>2, <1>3 DEF Pred
<1>5. ASSUME Once(c), NEW i \in 1 .. (Len(c) + 1), NEW j \in 1 .. (Len(c) + 1), Pred(c, i) = Pred(c, j)
      PROVE  i = j
  <2>1. CASE i = 1 \/ j = 1
    BY <1>1, <1>3, <1>5, <2>1 DEF Pred
  <2>2. CASE i # 1 /\ j # 1
    <3>1. i - 1 \in 1 .. Len(c) /\ j - 1 \in 1 .. Len(c) /\ c[i - 1] = c[j - 1]
      BY <1>3, <1>5, <2>2 DEF Pred
    <3>2. i - 1 = j - 1
      BY <1>5, <3>1 DEF Once
    <3>3. QED
      BY <1>1, <3>2
  <2>3. QED
    BY <2>1, <2>2
<1>6. QED
  BY <1>1, <1>2, <1>4, <1>5

\* While the list is sent to the UI nobody executes.
LEMMA FlushIdle ==
  ASSUME PhaseInv, ListInv, flush # "no"
  PROVE  \A t \in FlowThreads : place[t] = "idle"
<1>1. InCycle /\ stage = 0
  BY DEF ListInv, InCycle
<1>2. place[App] = "idle" /\ \A p \in Procs : place[p] = "idle"
  BY <1>1 DEF PhaseInv
<1>3. QED
  BY <1>2, NetIs

\* A step that neither flags a variable nor moves a thread in or out of the list.
LEMMA PushSame ==
  ASSUME FlowTyped, FlaggedInv, ListInv, Pushing, Pushing', flush' # "no" => stage' = 0,
         UNCHANGED <<link, uiHead, prev>>,
         \A v \in Vars : linkFl'[v] >= 0 /\ (linkFl'[v] > 0 <=> linkFl[v] > 0),
         \A t \in FlowThreads : \/ place'[t] = place[t] /\ work'[t] = work[t]
                                \/ place[t] \notin Linking /\ place'[t] \notin Linking
  PROVE  FlaggedInv' /\ ListInv'
<1>1. \A t \in FlowThreads : place'[t] \in Linking \/ place[t] \in Linking =>
        /\ place'[t] = place[t] /\ work'[t] = work[t]
        /\ work[t][1] \in Vars
  BY UiIs DEF LinkPcs, Linking
<1>2. FlaggedInv'
  <2>1. \A t \in FlowThreads : place'[t] \in Linking => linkFl'[work'[t][1]] > 0
    BY <1>1 DEF FlaggedInv
  <2>2. \A t, u \in FlowThreads : place'[t] \in Linking /\ place'[u] \in Linking
                                   /\ work'[t][1] = work'[u][1] => t = u
    BY <1>1 DEF FlaggedInv
  <2>3. \A v \in Vars : linkFl'[v] >= 0 /\ (linkFl'[v] > 0 => v \in HasUi)
    BY DEF FlaggedInv
  <2>4. QED
    BY <2>1, <2>2, <2>3 DEF FlaggedInv
<1>3. ASSUME NEW l \in Linking PROVE OnWay(l)' = OnWay(l)
  <2>1. \A t \in FlowThreads, v \in Vars :
          (place'[t] = l /\ work'[t][1] = v) <=> (place[t] = l /\ work[t][1] = v)
    BY <1>1
  <2>2. QED
    BY <2>1 DEF OnWay
<1>4. Flagged' = Flagged
  BY DEF Flagged
<1>5. PICK c \in Seq(Vars) : Once(c) /\ PushList(c)
  BY DEF ListInv
<1>6. PushList(c)'
  <2>1. OnWay("exchange")' = OnWay("exchange") /\ OnWay("chain")' = OnWay("chain")
    BY <1>3 DEF Linking
  <2>2. \A t \in FlowThreads : place'[t] = "chain" =>
          \E i \in 1 .. Len(c) : work'[t][1] = c[i] /\ prev'[t] = Pred(c, i)
    BY <1>1, <1>5 DEF PushList, Linking
  <2>3. QED
    BY <1>4, <1>5, <2>1, <2>2 DEF PushList, Pred
<1>7. QED
  BY <1>2, <1>5, <1>6 DEF ListInv

\* ui_var_link_fl.fetch_add(1)
LEMMA LinkUi ==
  ASSUME FlowTyped, FlaggedInv, ListInv, flush = "no", NEW t \in FlowThreads, Link(t)
  PROVE  FlaggedInv' /\ ListInv'
<1>v. PICK v : v = work[t][1]
  OBVIOUS
<1>1. /\ place[t] = "link" /\ v \in Vars /\ UNCHANGED <<link, uiHead, prev, stage, flush>>
      /\ linkFl \in [Vars -> Int] /\ place \in [FlowThreads -> Places] /\ work \in [FlowThreads -> Seq(Vars)]
      /\ link \in [Vars \cup {Stub} -> Vars \cup {Nil}] /\ HasUi \subseteq Vars /\ Stub \notin Vars
  BY <1>v, UiIs DEF Link, cycleVars, LinkPcs
<1>2. Pushing /\ Pushing' /\ flush' = "no" /\ place[t] \notin Linking
  BY <1>1 DEF Pushing, Linking
<1>3. ASSUME NextTarget(t), \A x \in Vars : linkFl'[x] >= 0 /\ (linkFl'[x] > 0 <=> linkFl[x] > 0)
      PROVE  FlaggedInv' /\ ListInv'
  <2>1. \E l \in {"sched", "idle", "exec"} : place' = [place EXCEPT ![t] = l]
    BY <1>3 DEF NextTarget, MoveTo, Home
  <2>2. place'[t] \notin Linking
    BY <1>1, <2>1 DEF Linking
  <2>3. \A u \in FlowThreads : u # t => place'[u] = place[u] /\ work'[u] = work[u]
    BY <1>1, <1>3, <2>1 DEF NextTarget
  <2>4. \A u \in FlowThreads : \/ place'[u] = place[u] /\ work'[u] = work[u]
                               \/ place[u] \notin Linking /\ place'[u] \notin Linking
    BY <1>2, <2>2, <2>3
  <2>5. QED
    BY <1>1, <1>2, <1>3, <2>4, PushSame
<1>4. \A x \in Vars : linkFl[x] \in Int /\ linkFl[x] >= 0
  BY <1>1 DEF FlaggedInv
<1>5. CASE v \notin HasUi
  <2>1. NextTarget(t) /\ linkFl' = linkFl
    BY <1>v, <1>5 DEF Link, Scheduled
  <2>2. QED
    BY <1>3, <1>4, <2>1
<1>6. CASE v \in HasUi /\ linkFl[v] # 0
  <2>1. NextTarget(t) /\ linkFl' = [linkFl EXCEPT ![v] = @ + 1]
    BY <1>v, <1>6 DEF Link, Scheduled
  <2>2. \A x \in Vars : linkFl'[x] >= 0 /\ (linkFl'[x] > 0 <=> linkFl[x] > 0)
    <3>1. linkFl'[v] = linkFl[v] + 1 /\ \A x \in Vars : x # v => linkFl'[x] = linkFl[x]
      BY <1>1, <2>1
    <3>2. linkFl[v] \in Int /\ linkFl[v] >= 0 /\ linkFl[v] # 0
      BY <1>1, <1>4, <1>6
    <3>3. linkFl'[v] >= 0 /\ linkFl'[v] > 0 /\ linkFl[v] > 0
      BY <3>1, <3>2
    <3>4. QED
      BY <1>4, <3>1, <3>3
  <2>3. QED
    BY <1>3, <2>1, <2>2
<1>7. CASE v \in HasUi /\ linkFl[v] = 0
  <2>1. /\ place' = [place EXCEPT ![t] = "exchange"] /\ work' = work
        /\ linkFl' = [linkFl EXCEPT ![v] = @ + 1]
    BY <1>v, <1>7 DEF Link, Scheduled, MoveTo
  <2>2. /\ place'[t] = "exchange" /\ linkFl'[v] = 1 /\ \A u \in FlowThreads : u # t => place'[u] = place[u]
        /\ \A x \in Vars : x # v => linkFl'[x] = linkFl[x]
    BY <1>1, <1>7, <2>1
  <2>3. \A u \in FlowThreads : place[u] \in Linking => work[u][1] \in Vars /\ work[u][1] # v
    <3>1. \A u \in FlowThreads : place[u] \in Linking => linkFl[work[u][1]] > 0
      BY DEF FlaggedInv
    <3>2. \A u \in FlowThreads : place[u] \in Linking => work[u][1] \in Vars
      BY UiIs DEF Linking, LinkPcs
    <3>3. ~(linkFl[v] > 0)
      BY <1>7
    <3>4. QED
      BY <3>1, <3>2, <3>3
  <2>4. \A u \in FlowThreads : place'[u] \in Linking => u = t \/ (place[u] \in Linking /\ work[u][1] # v)
    <3>1. \A u \in FlowThreads : u # t => place'[u] = place[u]
      BY <2>2
    <3>2. QED
      BY <2>3, <3>1
  <2>5. FlaggedInv'
    <3>1. \A x \in Vars : linkFl'[x] >= 0 /\ (linkFl'[x] > 0 => x \in HasUi)
      <4>1. \A x \in Vars : linkFl[x] > 0 => x \in HasUi
        BY DEF FlaggedInv
      <4>2. ASSUME NEW x \in Vars PROVE linkFl'[x] >= 0 /\ (linkFl'[x] > 0 => x \in HasUi)
        <5>1. CASE x = v
          BY <1>7, <2>2, <5>1
        <5>2. CASE x # v
          BY <1>4, <2>2, <4>1, <5>2
        <5>3. QED
          BY <5>1, <5>2
      <4>3. QED
        BY <4>2
    <3>2. \A u \in FlowThreads : place'[u] \in Linking => linkFl'[work'[u][1]] > 0
      <4>1. ASSUME NEW u \in FlowThreads, place'[u] \in Linking PROVE linkFl'[work[u][1]] > 0
        <5>1. CASE u = t
          BY <1>v, <2>2, <5>1
        <5>2. CASE u # t
          <6>1. work[u][1] \in Vars /\ work[u][1] # v /\ linkFl[work[u][1]] > 0
            BY <2>3, <2>4, <4>1, <5>2 DEF FlaggedInv
          <6>2. QED
            BY <2>2, <6>1
        <5>3. QED
          BY <5>1, <5>2
      <4>2. QED
        BY <2>1, <4>1
    <3>3. \A u, w \in FlowThreads : place'[u] \in Linking /\ place'[w] \in Linking
                                     /\ work'[u][1] = work'[w][1] => u = w
      BY <1>v, <2>1, <2>4 DEF FlaggedInv
    <3>4. QED
      BY <3>1, <3>2, <3>3 DEF FlaggedInv
  <2>6. Flagged' = Flagged \cup {v} /\ v \notin Flagged
    BY <1>1, <1>7, <2>2 DEF Flagged
  <2>7. OnWay("exchange")' = OnWay("exchange") \cup {v}
    <3>1. \A x \in Vars, u \in FlowThreads :
            (place'[u] = "exchange" /\ work'[u][1] = x)
              <=> (place[u] = "exchange" /\ work[u][1] = x) \/ (u = t /\ x = v)
      BY <1>1, <1>v, <2>1, <2>2
    <3>2. QED
      BY <1>1, <3>1 DEF OnWay
  <2>8. OnWay("chain")' = OnWay("chain") /\ \A u \in FlowThreads : place'[u] = "chain" <=> place[u] = "chain"
    <3>1. \A u \in FlowThreads : place'[u] = "chain" <=> place[u] = "chain"
      BY <1>1, <2>2
    <3>2. QED
      BY <2>1, <3>1 DEF OnWay
  <2>9. PICK c \in Seq(Vars) : Once(c) /\ PushList(c)
    BY <1>2 DEF ListInv
  <2>10. PushList(c)'
    <3>1. Elems(c) = Flagged' \ OnWay("exchange")'
      <4>1. Elems(c) = Flagged \ OnWay("exchange")
        BY <2>9 DEF PushList
      <4>2. QED
        BY <2>6, <2>7, <4>1
    <3>2. /\ \A u \in FlowThreads : place'[u] = "chain" =>
               \E i \in 1 .. Len(c) : work'[u][1] = c[i] /\ prev'[u] = Pred(c, i)
          /\ \A i \in 1 .. Len(c) :
               link'[Pred(c, i)] = IF c[i] \in OnWay("chain")' THEN Nil ELSE c[i]
      <4>1. /\ \A u \in FlowThreads : place[u] = "chain" =>
                 \E i \in 1 .. Len(c) : work[u][1] = c[i] /\ prev[u] = Pred(c, i)
            /\ \A i \in 1 .. Len(c) :
                 link[Pred(c, i)] = IF c[i] \in OnWay("chain") THEN Nil ELSE c[i]
        BY <2>9 DEF PushList
      <4>2. work' = work /\ prev' = prev /\ link' = link
        BY <1>1, <2>1
      <4>3. QED
        BY <2>8, <4>1, <4>2
    <3>3. /\ uiHead' = Pred(c, Len(c) + 1) /\ link'[uiHead'] = Nil
          /\ \A x \in Vars \ Elems(c) : link'[x] = Nil
      BY <1>1, <2>9 DEF PushList
    <3>4. QED
      BY <3>1, <3>2, <3>3 DEF PushList, Pred
  <2>11. QED
    BY <1>1, <1>2, <2>5, <2>9, <2>10 DEF ListInv
<1>8. QED
  BY <1>5, <1>6, <1>7

\* ui_var_head.exchange(var): the list ends with the variable.
LEMMA ExchangeUi ==
  ASSUME FlowTyped, FlaggedInv, ListInv, flush = "no", NEW t \in FlowThreads, Exchange(t)
  PROVE  FlaggedInv' /\ ListInv'
<1>v. PICK v : v = work[t][1]
  OBVIOUS
<1>1. /\ place[t] = "exchange" /\ v \in Vars /\ UNCHANGED <<link, linkFl, work, stage, flush>>
      /\ uiHead' = v /\ prev' = [prev EXCEPT ![t] = uiHead] /\ place' = [place EXCEPT ![t] = "chain"]
      /\ place \in [FlowThreads -> Places] /\ prev \in [FlowThreads -> Vars \cup {Stub}]
      /\ Stub \notin Vars
  BY <1>v, UiIs DEF Exchange, Scheduled, MoveTo, cycleVars, LinkPcs
<1>2. Pushing /\ Pushing' /\ flush' = "no" /\ place[t] \in Linking
  BY <1>1 DEF Pushing, Linking
<1>3. /\ place'[t] = "chain" /\ prev'[t] = uiHead
      /\ \A u \in FlowThreads : u # t => place'[u] = place[u] /\ prev'[u] = prev[u]
  BY <1>1
<1>4. \A u \in FlowThreads : place'[u] \in Linking <=> place[u] \in Linking
  BY <1>2, <1>3 DEF Linking
<1>5. FlaggedInv'
  BY <1>1, <1>4 DEF FlaggedInv
\* Nobody else is at work on the variable.
<1>6. \A u \in FlowThreads : u # t /\ place[u] \in Linking => work[u][1] # v
  BY <1>v, <1>2 DEF FlaggedInv
<1>7. linkFl[v] > 0
  BY <1>v, <1>2 DEF FlaggedInv
<1>8. OnWay("exchange")' = OnWay("exchange") \ {v} /\ v \in OnWay("exchange")
  <2>1. \A u \in FlowThreads, x \in Vars :
          (place'[u] = "exchange" /\ work[u][1] = x) <=> (place[u] = "exchange" /\ work[u][1] = x /\ x # v)
    BY <1>v, <1>1, <1>3, <1>6 DEF Linking
  <2>2. QED
    BY <1>v, <1>1, <2>1 DEF OnWay
<1>9. OnWay("chain")' = OnWay("chain") \cup {v} /\ v \notin OnWay("chain")
  <2>1. \A u \in FlowThreads, x \in Vars :
          (place'[u] = "chain" /\ work[u][1] = x)
             <=> (place[u] = "chain" /\ work[u][1] = x) \/ (u = t /\ x = v)
    BY <1>v, <1>1, <1>3
  <2>2. \A u \in FlowThreads : ~(place[u] = "chain" /\ work[u][1] = v)
    BY <1>1, <1>6 DEF Linking
  <2>3. QED
    BY <1>1, <2>1, <2>2 DEF OnWay
<1>10. PICK c \in Seq(Vars) : Once(c) /\ PushList(c)
  BY <1>2 DEF ListInv
<1>d. PICK d : d = Append(c, v)
  OBVIOUS
<1>11. /\ d \in Seq(Vars) /\ Len(c) \in Nat /\ Len(d) = Len(c) + 1 /\ d[Len(c) + 1] = v
       /\ \A i \in 1 .. Len(c) : d[i] = c[i] /\ i \in 1 .. Len(d)
       /\ Len(d) \in 1 .. Len(d)
       /\ \A i \in 1 .. Len(d) : i \in 1 .. Len(c) \/ i = Len(d)
  <2>1. d \in Seq(Vars) /\ Len(c) \in Nat /\ Len(d) = Len(c) + 1 /\ d[Len(c) + 1] = v
        /\ \A i \in 1 .. Len(c) : d[i] = c[i]
    BY <1>1, <1>d
  <2>2. (\A i \in 1 .. Len(c) : i \in 1 .. Len(d)) /\ Len(d) \in 1 .. Len(d)
        /\ \A i \in 1 .. Len(d) : i \in 1 .. Len(c) \/ i = Len(d)
    BY <2>1
  <2>3. QED
    BY <2>1, <2>2
<1>12. v \notin Elems(c) /\ Elems(d) = Elems(c) \cup {v}
  <2>1. v \notin Elems(c)
    BY <1>8, <1>10 DEF PushList
  <2>2. Elems(d) = Elems(c) \cup {v}
    <3>1. \A x : /\ x \in Elems(c) <=> \E i \in 1 .. Len(c) : x = c[i]
                 /\ x \in Elems(d) <=> \E i \in 1 .. Len(d) : x = d[i]
      BY <1>1, <1>11, ListIs
    <3>2. \A x : (\E i \in 1 .. Len(d) : x = d[i]) <=> (\E i \in 1 .. Len(c) : x = c[i]) \/ x = v
      BY <1>11
    <3>3. QED
      BY <3>1, <3>2
  <2>3. QED
    BY <2>1, <2>2
<1>13. Once(d)
  <2>1. \A i \in 1 .. Len(c) : c[i] # v
    BY <1>1, <1>12, ListIs
  <2>2. \A i \in 1 .. Len(d) : i = Len(d) \/ i \in 1 .. Len(c)
    BY <1>11
  <2>3. QED
    BY <1>10, <1>11, <2>1, <2>2 DEF Once
<1>14. \A i \in 1 .. Len(d) : Pred(d, i) = Pred(c, i)
  <2>1. ASSUME NEW i \in 1 .. Len(d), i # 1 PROVE d[i - 1] = c[i - 1]
    <3>1. i - 1 \in 1 .. Len(c)
      BY <1>11, <2>1
    <3>2. QED
      BY <1>11, <3>1
  <2>2. QED
    BY <2>1 DEF Pred
<1>15. PushList(d)'
  <2>1. Elems(d) = Flagged' \ OnWay("exchange")'
    <3>1. Flagged' = Flagged /\ v \in Flagged
      BY <1>1, <1>7 DEF Flagged
    <3>2. QED
      BY <1>8, <1>10, <1>12, <3>1 DEF PushList
  <2>2. uiHead' = Pred(d, Len(d) + 1) /\ link'[uiHead'] = Nil
    <3>1. Pred(d, Len(d) + 1) = v
      BY <1>11 DEF Pred
    <3>2. link[v] = Nil
      BY <1>1, <1>10, <1>12 DEF PushList
    <3>3. QED
      BY <1>1, <3>1, <3>2
  <2>3. ASSUME NEW i \in 1 .. Len(d)
        PROVE  link'[Pred(d, i)] = IF d[i] \in OnWay("chain")' THEN Nil ELSE d[i]
    <3>1. CASE i = Len(d)
      <4>1. Pred(d, i) = uiHead /\ link[uiHead] = Nil
        BY <1>10, <1>11, <1>14, <3>1 DEF PushList
      <4>2. d[i] \in OnWay("chain")'
        BY <1>9, <1>11, <3>1
      <4>3. QED
        BY <1>1, <4>1, <4>2
    <3>2. CASE i # Len(d)
      <4>1. i \in 1 .. Len(c) /\ d[i] = c[i]
        BY <1>11, <3>2
      <4>2. c[i] # v
        BY <1>1, <1>12, <4>1, ListIs
      <4>3. d[i] \in OnWay("chain")' <=> c[i] \in OnWay("chain")
        BY <1>9, <4>1, <4>2
      <4>4. QED
        BY <1>1, <1>10, <1>14, <4>1, <4>3 DEF PushList
    <3>3. QED
      BY <3>1, <3>2
  <2>4. ASSUME NEW u \in FlowThreads, place'[u] = "chain"
        PROVE  \E i \in 1 .. Len(d) : work'[u][1] = d[i] /\ prev'[u] = Pred(d, i)
    <3>1. CASE u = t
      <4>1. work[t][1] = d[Len(d)] /\ prev'[t] = Pred(d, Len(d)) /\ Len(d) \in 1 .. Len(d)
        BY <1>v, <1>3, <1>10, <1>11, <1>14 DEF PushList
      <4>2. QED
        BY <1>1, <3>1, <4>1
    <3>2. CASE u # t
      <4>1. PICK i \in 1 .. Len(c) : work[u][1] = c[i] /\ prev[u] = Pred(c, i)
        BY <1>3, <1>10, <2>4, <3>2 DEF PushList
      <4>2. i \in 1 .. Len(d) /\ d[i] = c[i] /\ Pred(d, i) = Pred(c, i)
        <5>1. i \in 1 .. Len(d)
          BY <1>11
        <5>2. QED
          BY <1>11, <1>14, <5>1
      <4>3. QED
        BY <1>1, <1>3, <3>2, <4>1, <4>2
    <3>3. QED
      BY <3>1, <3>2
  <2>5. \A x \in Vars \ Elems(d) : link'[x] = Nil
    BY <1>1, <1>10, <1>12 DEF PushList
  <2>6. QED
    BY <2>1, <2>2, <2>3, <2>4, <2>5 DEF PushList, Pred
<1>16. QED
  BY <1>1, <1>2, <1>5, <1>11, <1>13, <1>15 DEF ListInv

\* prev->ui_var_link.store(var): the pointer to the variable is there.
LEMMA ChainUi ==
  ASSUME FlowTyped, FlaggedInv, ListInv, flush = "no", NEW t \in FlowThreads, Chain(t)
  PROVE  FlaggedInv' /\ ListInv'
<1>v. PICK v : v = work[t][1]
  OBVIOUS
<1>1. /\ place[t] = "chain" /\ v \in Vars /\ UNCHANGED <<linkFl, uiHead, prev, stage, flush>>
      /\ link' = [link EXCEPT ![prev[t]] = v] /\ NextTarget(t)
      /\ place \in [FlowThreads -> Places] /\ work \in [FlowThreads -> Seq(Vars)]
      /\ link \in [Vars \cup {Stub} -> Vars \cup {Nil}] /\ Stub \notin Vars
  BY <1>v, UiIs DEF Chain, Scheduled, cycleVars, LinkPcs
<1>2. Pushing /\ Pushing' /\ flush' = "no" /\ place[t] \in Linking
  BY <1>1 DEF Pushing, Linking
<1>3. /\ place'[t] \notin Linking
      /\ \A u \in FlowThreads : u # t => place'[u] = place[u] /\ work'[u] = work[u]
  <2>1. \E l \in {"sched", "idle", "exec"} : place' = [place EXCEPT ![t] = l]
    BY <1>1 DEF NextTarget, MoveTo, Home
  <2>2. QED
    BY <1>1, <2>1 DEF NextTarget, Linking
<1>4. \A u \in FlowThreads : place'[u] \in Linking =>
        u # t /\ place[u] \in Linking /\ place'[u] = place[u] /\ work'[u] = work[u]
  BY <1>3
<1>5. FlaggedInv'
  BY <1>1, <1>4 DEF FlaggedInv
<1>6. \A u \in FlowThreads : u # t /\ place[u] \in Linking => work[u][1] # v
  BY <1>v, <1>2 DEF FlaggedInv
<1>7. OnWay("exchange")' = OnWay("exchange")
  <2>1. \A u \in FlowThreads, x \in Vars :
          (place'[u] = "exchange" /\ work'[u][1] = x) <=> (place[u] = "exchange" /\ work[u][1] = x)
    BY <1>1, <1>3 DEF Linking
  <2>2. QED
    BY <2>1 DEF OnWay
<1>8. OnWay("chain")' = OnWay("chain") \ {v} /\ v \in OnWay("chain")
  <2>1. \A u \in FlowThreads, x \in Vars :
          (place'[u] = "chain" /\ work'[u][1] = x) <=> (place[u] = "chain" /\ work[u][1] = x /\ x # v)
    BY <1>v, <1>1, <1>3, <1>6 DEF Linking
  <2>2. QED
    BY <1>v, <1>1, <2>1 DEF OnWay
<1>9. PICK c \in Seq(Vars) : Once(c) /\ PushList(c)
  BY <1>2 DEF ListInv
<1>10. PICK k \in 1 .. Len(c) : v = c[k] /\ prev[t] = Pred(c, k)
  BY <1>v, <1>1, <1>9 DEF PushList
<1>11. /\ Len(c) \in Nat /\ \A i \in 1 .. Len(c) : c[i] \in Vars /\ i \in 1 .. (Len(c) + 1)
       /\ Elems(c) \subseteq Vars
       /\ \A i \in 1 .. (Len(c) + 1) : Pred(c, i) \in Elems(c) \cup {Stub}
       /\ \A i, j \in 1 .. (Len(c) + 1) : Pred(c, i) = Pred(c, j) => i = j
  <2>1. Len(c) \in Nat /\ \A i \in 1 .. Len(c) : i \in 1 .. (Len(c) + 1)
    OBVIOUS
  <2>2. QED
    BY <1>1, <1>9, <2>1, ListIs
<1>12. Pred(c, k) \in Vars \cup {Stub} /\ Len(c) + 1 \in 1 .. (Len(c) + 1) /\ k # Len(c) + 1
       /\ k \in 1 .. (Len(c) + 1)
  <2>1. Len(c) + 1 \in 1 .. (Len(c) + 1) /\ k # Len(c) + 1 /\ k \in 1 .. (Len(c) + 1)
    BY <1>11
  <2>2. QED
    BY <1>11, <2>1
<1>13. link'[Pred(c, k)] = v
       /\ \A x \in Vars \cup {Stub} : x # Pred(c, k) => link'[x] = link[x]
  BY <1>1, <1>10, <1>12
<1>14. PushList(c)'
  <2>1. Elems(c) = Flagged' \ OnWay("exchange")'
    BY <1>1, <1>7, <1>9 DEF Flagged, PushList
  <2>2. uiHead' = Pred(c, Len(c) + 1) /\ link'[uiHead'] = Nil
    <3>1. uiHead = Pred(c, Len(c) + 1) /\ link[uiHead] = Nil
      BY <1>9 DEF PushList
    <3>2. uiHead # Pred(c, k) /\ uiHead \in Vars \cup {Stub}
      BY <1>11, <1>12, <3>1
    <3>3. QED
      BY <1>1, <1>13, <3>1, <3>2
  <2>3. ASSUME NEW i \in 1 .. Len(c)
        PROVE  link'[Pred(c, i)] = IF c[i] \in OnWay("chain")' THEN Nil ELSE c[i]
    <3>1. CASE i = k
      BY <1>8, <1>10, <1>13, <3>1
    <3>2. CASE i # k
      <4>1. c[i] # v
        BY <1>9, <1>10, <3>2 DEF Once
      <4>2. Pred(c, i) # Pred(c, k) /\ Pred(c, i) \in Vars \cup {Stub}
        BY <1>11, <3>2
      <4>3. link'[Pred(c, i)] = link[Pred(c, i)]
        BY <1>13, <4>2
      <4>4. c[i] \in OnWay("chain")' <=> c[i] \in OnWay("chain")
        BY <1>8, <4>1
      <4>5. QED
        BY <1>9, <4>3, <4>4 DEF PushList
    <3>3. QED
      BY <3>1, <3>2
  <2>4. ASSUME NEW u \in FlowThreads, place'[u] = "chain"
        PROVE  \E i \in 1 .. Len(c) : work'[u][1] = c[i] /\ prev'[u] = Pred(c, i)
    <3>1. place[u] = "chain" /\ work'[u] = work[u]
      BY <1>4, <2>4 DEF Linking
    <3>2. QED
      BY <1>1, <1>9, <3>1 DEF PushList
  <2>5. ASSUME NEW x \in Vars, x \notin Elems(c) PROVE link'[x] = Nil
    <3>1. x # Pred(c, k)
      BY <1>1, <1>11, <2>5
    <3>2. QED
      BY <1>9, <1>13, <2>5, <3>1 DEF PushList
  <2>6. QED
    BY <2>1, <2>2, <2>3, <2>4, <2>5 DEF PushList, Pred
<1>15. QED
  BY <1>1, <1>2, <1>5, <1>9, <1>14 DEF ListInv

\* While nobody executes, nobody is at work on the list.
LEMMA IdleList ==
  ASSUME \A t \in FlowThreads : place[t] = "idle"
  PROVE  OnWay("exchange") = {} /\ OnWay("chain") = {} /\ \A t \in FlowThreads : place[t] \notin Linking
BY DEF OnWay, Linking

\* ui_var_tail->ui_var_link: the list as it was pushed is the one to send.
LEMMA FirstUi ==
  ASSUME FlowTyped, PhaseInv, ListInv, FlushFirst
  PROVE  ListInv'
<1>1. /\ flush = "first" /\ stage' = stage /\ stage = 0 /\ UNCHANGED <<linkFl, link, uiHead>>
      /\ flush' = (IF link[Stub] = Nil THEN "head" ELSE "show")
      /\ uiVar' = <<link[Stub], Nil>>
  BY DEF FlushFirst, FlushTo, uiVars, ListInv
<1>2. OnWay("exchange") = {} /\ OnWay("chain") = {} /\ Stub \notin Vars /\ Nil \notin Vars
  BY <1>1, FlushIdle, IdleList, UiIs
<1>3. PICK c \in Seq(Vars) : Once(c) /\ PushList(c)
  BY <1>1 DEF ListInv, Pushing
<1>4. /\ Len(c) \in Nat /\ \A i \in 1 .. Len(c) : c[i] \in Vars
      /\ (c = <<>> <=> Len(c) = 0)
  BY <1>2, ListIs
<1>5. Elems(c) = Flagged /\ uiHead = Pred(c, Len(c) + 1) /\ link[uiHead] = Nil
      /\ \A i \in 1 .. Len(c) : link[Pred(c, i)] = c[i]
  BY <1>2, <1>3 DEF PushList
<1>6. c = <<>> => link[Stub] = Nil
  <2>1. Len(c) + 1 = 1 \/ c # <<>>
    BY <1>4
  <2>2. QED
    BY <1>5, <2>1 DEF Pred
<1>7. c # <<>> => link[Stub] = c[1] /\ c[1] # Nil
  <2>1. c # <<>> => 1 \in 1 .. Len(c)
    BY <1>4
  <2>2. QED
    BY <1>2, <1>4, <1>5, <2>1 DEF Pred
<1>8. PopList(c)'
  <2>1. ASSUME NEW i \in 1 .. Len(c) PROVE link[c[i]] = Succ(c, i)
    <3>1. i + 1 # 1 /\ i + 1 - 1 = i /\ (i # Len(c) => i + 1 \in 1 .. Len(c))
      BY <1>4, <2>1
    <3>2. Pred(c, i + 1) = c[i]
      BY <3>1 DEF Pred
    <3>3. CASE i = Len(c)
      BY <1>5, <3>2, <3>3 DEF Succ
    <3>4. CASE i # Len(c)
      BY <1>5, <3>1, <3>2, <3>4 DEF Succ
    <3>5. QED
      BY <3>3, <3>4
  <2>2. \A i \in 1 .. Len(c) :
          link'[c[i]] = IF i = 1 /\ flush' = "unflag" THEN Nil ELSE Succ(c, i)
    BY <1>1, <2>1
  <2>3. /\ flush' \in {"show", "unlink", "unflag"} => c # <<>> /\ uiVar'[1] = c[1]
        /\ flush' \in {"head", "stub"} => c = <<>>
        /\ flush' \notin {"unlink", "unflag", "stub"}
    BY <1>1, <1>6, <1>7
  <2>4. Elems(c) = Flagged' /\ \A v \in Vars \ Elems(c) : link'[v] = Nil
    BY <1>1, <1>3, <1>5 DEF PushList, Flagged
  <2>5. QED
    BY <2>2, <2>3, <2>4 DEF PopList, Succ
<1>9. flush' \notin {"no", "first"} /\ stage' = 0
  BY <1>1
<1>10. QED
  BY <1>3, <1>8, <1>9 DEF ListInv, Pushing

\* The next of the list is read, and the variable unlinked.
LEMMA ShowUi ==
  ASSUME FlowTyped, ListInv, FlushShow \/ FlushUnlink
  PROVE  ListInv'
<1>1. /\ flush \in {"show", "unlink"} /\ stage' = stage /\ stage = 0 /\ UNCHANGED <<linkFl, uiHead>>
      /\ uiVar'[1] = uiVar[1] /\ flush' = (IF flush = "show" THEN "unlink" ELSE "unflag")
      /\ flush = "show" => link' = link /\ uiVar'[2] = link[uiVar[1]]
      /\ flush = "unlink" => link' = [link EXCEPT ![uiVar[1]] = Nil] /\ uiVar'[2] = uiVar[2]
  BY DEF FlushShow, FlushUnlink, FlushTo, uiVars, ListInv
<1>2. /\ link \in [Vars \cup {Stub} -> Vars \cup {Nil}] /\ Stub \notin Vars
  BY UiIs
<1>3. PICK c \in Seq(Vars) : Once(c) /\ PopList(c)
  BY <1>1 DEF ListInv, Pushing
<1>4. /\ Len(c) \in Nat /\ \A i \in 1 .. Len(c) : c[i] \in Vars /\ c[i] \in Elems(c)
      /\ (c = <<>> <=> Len(c) = 0)
  BY <1>2, ListIs
<1>5. c # <<>> /\ uiVar[1] = c[1] /\ 1 \in 1 .. Len(c)
  BY <1>1, <1>3, <1>4 DEF PopList
<1>6. flush = "unlink" => link'[c[1]] = Nil /\ \A x \in Vars : x # c[1] => link'[x] = link[x]
  BY <1>1, <1>2, <1>4, <1>5
<1>7. link[c[1]] = Succ(c, 1)
  BY <1>1, <1>3, <1>5 DEF PopList
<1>8. PopList(c)'
  <2>1. ASSUME NEW i \in 1 .. Len(c)
        PROVE  link'[c[i]] = IF i = 1 /\ flush' = "unflag" THEN Nil ELSE Succ(c, i)
    <3>1. link[c[i]] = Succ(c, i)
      BY <1>1, <1>3, <2>1 DEF PopList
    <3>2. i # 1 => c[i] # c[1]
      BY <1>3, <1>5, <2>1 DEF Once
    <3>3. CASE flush = "show"
      BY <1>1, <3>1, <3>3
    <3>4. CASE flush = "unlink"
      BY <1>1, <1>4, <1>6, <3>1, <3>2, <3>4
    <3>5. QED
      BY <1>1, <3>3, <3>4
  <2>2. uiVar'[2] = Succ(c, 1)
    BY <1>1, <1>3, <1>5, <1>7 DEF PopList
  <2>3. ASSUME NEW x \in Vars, x \notin Elems(c) PROVE link'[x] = Nil
    <3>1. x # c[1] /\ link[x] = Nil
      BY <1>3, <1>4, <1>5, <2>3 DEF PopList
    <3>2. QED
      BY <1>1, <1>6, <2>3, <3>1
  <2>4. Elems(c) = Flagged'
    BY <1>1, <1>3 DEF PopList, Flagged
  <2>5. flush' \notin {"head", "stub"} /\ uiVar'[1] = c[1]
    BY <1>1, <1>5
  <2>6. QED
    BY <1>5, <2>1, <2>2, <2>3, <2>4, <2>5 DEF PopList, Succ
<1>9. flush' \notin {"no", "first"} /\ stage' = 0
  BY <1>1
<1>10. QED
  BY <1>3, <1>8, <1>9 DEF ListInv, Pushing

\* ui_var_link_fl.store(0): the variable is off the list.
LEMMA UnflagUi ==
  ASSUME FlowTyped, ListInv, FlushUnflag
  PROVE  /\ ListInv' /\ linkFl' = [linkFl EXCEPT ![uiVar[1]] = 0] /\ uiVar[1] \in Vars
<1>1. /\ flush = "unflag" /\ stage' = stage /\ stage = 0 /\ UNCHANGED <<link, uiHead>>
      /\ linkFl' = [linkFl EXCEPT ![uiVar[1]] = 0]
      /\ flush' = (IF uiVar[2] = Nil THEN "head" ELSE "show") /\ uiVar' = <<uiVar[2], Nil>>
  BY DEF FlushUnflag, FlagZero, FlushTo, ListInv
<1>2. linkFl \in [Vars -> Int] /\ Stub \notin Vars /\ Nil \notin Vars
  BY UiIs
<1>3. PICK c \in Seq(Vars) : Once(c) /\ PopList(c)
  BY <1>1 DEF ListInv, Pushing
<1>4. /\ Len(c) \in Nat /\ \A i \in 1 .. Len(c) : c[i] \in Vars
      /\ \A x : x \in Elems(c) <=> \E i \in 1 .. Len(c) : x = c[i]
      /\ (c = <<>> <=> Len(c) = 0)
  BY <1>2, ListIs
<1>5. c # <<>> /\ uiVar[1] = c[1] /\ uiVar[2] = Succ(c, 1) /\ 1 \in 1 .. Len(c)
  BY <1>1, <1>3, <1>4 DEF PopList
<1>d. PICK d : d = Tail(c)
  OBVIOUS
<1>6. /\ d \in Seq(Vars) /\ Len(d) = Len(c) - 1 /\ Len(d) \in Nat
      /\ \A i \in 1 .. Len(d) : d[i] = c[i + 1]
  BY <1>5, <1>d
<1>7. /\ \A i \in 1 .. Len(d) : i + 1 \in 1 .. Len(c) /\ i + 1 # 1
      /\ \A i \in 1 .. Len(c) : i # 1 => i - 1 \in 1 .. Len(d) /\ i - 1 + 1 = i
      /\ \A i \in 1 .. Len(d) : (i = Len(d) <=> i + 1 = Len(c))
      /\ (d = <<>> <=> Len(c) = 1)
  <2>1. /\ \A i \in 1 .. Len(d) : i + 1 \in 1 .. Len(c) /\ i + 1 # 1
        /\ \A i \in 1 .. Len(c) : i # 1 => i - 1 \in 1 .. Len(d) /\ i - 1 + 1 = i
        /\ \A i \in 1 .. Len(d) : (i = Len(d) <=> i + 1 = Len(c))
    BY <1>4, <1>6
  <2>2. d = <<>> <=> Len(d) = 0
    BY <1>2, <1>6, ListIs
  <2>3. QED
    BY <1>4, <1>6, <2>1, <2>2
<1>8. \A x : x \in Elems(d) <=> x \in Elems(c) /\ x # c[1]
  <2>1. \A x : x \in Elems(d) <=> \E i \in 1 .. Len(d) : x = d[i]
    BY <1>2, <1>6, ListIs
  <2>2. \A i \in 1 .. Len(c) : i # 1 <=> c[i] # c[1]
    BY <1>3, <1>5 DEF Once
  <2>3. ASSUME NEW x \in Elems(d) PROVE x \in Elems(c) /\ x # c[1]
    <3>1. PICK i \in 1 .. Len(d) : x = d[i]
      BY <2>1
    <3>2. x = c[i + 1] /\ i + 1 \in 1 .. Len(c) /\ i + 1 # 1
      BY <1>6, <1>7, <3>1
    <3>3. QED
      BY <1>4, <2>2, <3>2
  <2>4. ASSUME NEW x \in Elems(c), x # c[1] PROVE x \in Elems(d)
    <3>1. PICK i \in 1 .. Len(c) : x = c[i]
      BY <1>4
    <3>2. i - 1 \in 1 .. Len(d) /\ i - 1 + 1 = i
      BY <1>7, <2>4, <3>1
    <3>3. d[i - 1] = x
      BY <1>6, <3>1, <3>2
    <3>4. QED
      BY <2>1, <3>2, <3>3
  <2>5. QED
    BY <2>3, <2>4
<1>9. Once(d)
  <2>1. ASSUME NEW i \in 1 .. Len(d), NEW j \in 1 .. Len(d), d[i] = d[j] PROVE i = j
    <3>1. i + 1 = j + 1
      BY <1>3, <1>6, <1>7, <2>1 DEF Once
    <3>2. QED
      BY <3>1
  <2>2. QED
    BY <2>1 DEF Once
<1>10. Flagged' = Flagged \ {c[1]}
  <2>1. \A x \in Vars : linkFl'[x] > 0 <=> linkFl[x] > 0 /\ x # c[1]
    BY <1>1, <1>2, <1>4, <1>5
  <2>2. QED
    BY <2>1 DEF Flagged
<1>11. PopList(d)'
  <2>1. Elems(d) = Flagged'
    BY <1>3, <1>8, <1>10 DEF PopList
  <2>2. \A i \in 1 .. Len(d) : Succ(d, i) = Succ(c, i + 1)
    <3>1. ASSUME NEW i \in 1 .. Len(d), i # Len(d) PROVE d[i + 1] = c[i + 1 + 1]
      <4>1. i + 1 \in 1 .. Len(d)
        BY <1>6, <3>1
      <4>2. QED
        BY <1>6, <4>1
    <3>2. QED
      BY <1>7, <3>1 DEF Succ
  <2>3. ASSUME NEW i \in 1 .. Len(d)
        PROVE  link'[d[i]] = IF i = 1 /\ flush' = "unflag" THEN Nil ELSE Succ(d, i)
    <3>1. link[c[i + 1]] = Succ(c, i + 1)
      BY <1>3, <1>7 DEF PopList
    <3>2. QED
      BY <1>1, <1>6, <2>2, <3>1
  <2>4. d = <<>> => uiVar[2] = Nil
    BY <1>5, <1>7 DEF Succ
  <2>5. d # <<>> => uiVar[2] # Nil /\ uiVar[2] = d[1]
    <3>1. d # <<>> => 1 \in 1 .. Len(d) /\ Len(c) # 1 /\ 1 + 1 \in 1 .. Len(c)
      <4>1. Len(c) \in Nat /\ Len(c) >= 1
        BY <1>4, <1>5
      <4>2. d # <<>> => Len(c) # 1
        BY <1>7
      <4>3. Len(c) # 1 => Len(c) >= 2 /\ Len(d) >= 1
        BY <1>6, <4>1
      <4>4. Len(c) >= 2 /\ Len(d) >= 1 => 1 \in 1 .. Len(d) /\ 1 + 1 \in 1 .. Len(c)
        BY <1>6, <4>1
      <4>5. QED
        BY <4>2, <4>3, <4>4
    <3>2. d # <<>> => d[1] = c[1 + 1] /\ uiVar[2] = c[1 + 1] /\ c[1 + 1] \in Vars
      BY <1>4, <1>5, <1>6, <3>1 DEF Succ
    <3>3. QED
      BY <1>2, <3>2
  <2>6. /\ flush' \in {"show", "unlink", "unflag"} => d # <<>> /\ uiVar'[1] = d[1]
        /\ flush' \in {"head", "stub"} => d = <<>>
        /\ flush' \notin {"unlink", "unflag", "stub"}
    BY <1>1, <2>4, <2>5
  <2>7. \A x \in Vars \ Elems(d) : link'[x] = Nil
    BY <1>1, <1>3, <1>5, <1>8 DEF PopList
  <2>8. QED
    BY <2>1, <2>3, <2>6, <2>7 DEF PopList, Succ
<1>12. flush' \notin {"no", "first"} /\ stage' = 0
  BY <1>1
<1>13. ListInv'
  BY <1>6, <1>9, <1>11, <1>12 DEF ListInv, Pushing
<1>14. QED
  BY <1>1, <1>4, <1>5, <1>13

\* The list is empty, and so are its head and the stub.
LEMMA EmptyUi ==
  ASSUME FlowTyped, PhaseInv, ListInv, FlushHead \/ FlushStub
  PROVE  ListInv'
<1>1. /\ flush \in {"head", "stub"} /\ stage' = stage /\ stage = 0 /\ linkFl' = linkFl
      /\ flush = "head" => flush' = "stub" /\ uiHead' = Stub /\ link' = link
      /\ flush = "stub" => flush' = "no" /\ uiHead' = uiHead /\ link' = [link EXCEPT ![Stub] = Nil]
  BY DEF FlushHead, FlushStub, HeadStub, FlushTo, ListInv
<1>2. /\ link \in [Vars \cup {Stub} -> Vars \cup {Nil}] /\ Stub \notin Vars
  BY UiIs
<1>3. PICK c \in Seq(Vars) : Once(c) /\ PopList(c)
  BY <1>1 DEF ListInv, Pushing
<1>4. /\ c = <<>> /\ Elems(c) = Flagged /\ \A x \in Vars \ Elems(c) : link[x] = Nil
      /\ Len(c) = 0 /\ \A i : i \notin 1 .. Len(c)
  <2>1. c = <<>> /\ Elems(c) = Flagged /\ \A x \in Vars \ Elems(c) : link[x] = Nil
    BY <1>1, <1>3 DEF PopList
  <2>2. Len(c) = 0 /\ \A i : i \notin 1 .. Len(c)
    BY <2>1
  <2>3. QED
    BY <2>1, <2>2
<1>5. \A x \in Vars : link'[x] = link[x]
  BY <1>1, <1>2
<1>6. Flagged' = Flagged
  BY <1>1 DEF Flagged
<1>7. CASE flush = "head"
  <2>1. PopList(c)'
    BY <1>1, <1>4, <1>5, <1>6, <1>7 DEF PopList
  <2>2. QED
    BY <1>1, <1>3, <1>7, <2>1 DEF ListInv, Pushing
<1>8. CASE flush = "stub"
  <2>1. uiHead' = Stub /\ link'[Stub] = Nil /\ flush' = "no"
    BY <1>1, <1>2, <1>3, <1>8 DEF PopList
  <2>2. \A t \in FlowThreads : place'[t] = "idle"
    <3>1. \A t \in FlowThreads : place[t] = "idle"
      BY <1>8, FlushIdle
    <3>2. place' = place
      BY <1>8 DEF FlushHead, FlushStub, threadVars
    <3>3. QED
      BY <3>1, <3>2
  <2>3. OnWay("exchange")' = {} /\ \A t \in FlowThreads : place'[t] # "chain"
    BY <2>2 DEF OnWay
  <2>4. Pred(c, Len(c) + 1) = Stub
    BY <1>4 DEF Pred
  <2>5. PushList(c)'
    BY <1>4, <1>5, <1>6, <2>1, <2>3, <2>4 DEF PushList, Pred
  <2>6. QED
    BY <1>1, <1>3, <2>1, <2>5 DEF ListInv, Pushing
<1>9. QED
  BY <1>1, <1>7, <1>8

\* The list in every step.
LEMMA UiListStep ==
  ASSUME FlowSync, ChangeInv, FlaggedInv, ListInv, [FlowNext]_flowVars
  PROVE  FlaggedInv' /\ ListInv'
<1>1. /\ FlowTyped /\ PhaseInv /\ ~UiAsync
      /\ place \in [FlowThreads -> Places] /\ work \in [FlowThreads -> Seq(Vars)]
      /\ FlowThreads = Procs \cup {App} /\ App \notin Procs
      /\ \A v \in Vars : linkFl[v] >= 0
  BY NetIs DEF ChangeInv, FlowSync, FlowTyped, ThreadTyped, FlaggedInv
<1>2. ASSUME NEW t \in FlowThreads, place[t] # "idle" PROVE flush = "no"
  BY <1>1, <1>2, FlushIdle
<1>3. ASSUME flush = "no", UNCHANGED <<linkFl, link, uiHead, prev, stage, flush>>,
             \A u \in FlowThreads : \/ place'[u] = place[u] /\ work'[u] = work[u]
                                    \/ place[u] \notin Linking /\ place'[u] \notin Linking
      PROVE  FlaggedInv' /\ ListInv'
  <2>1. Pushing /\ Pushing'
    BY <1>3 DEF Pushing
  <2>2. \A v \in Vars : linkFl'[v] >= 0 /\ (linkFl'[v] > 0 <=> linkFl[v] > 0)
    BY <1>1, <1>3
  <2>3. QED
    BY <1>1, <1>3, <2>1, <2>2, PushSame
<1>4. ASSUME NEW t \in FlowThreads, Schedule(t) PROVE FlaggedInv' /\ ListInv'
  <2>1. place[t] \in SchedPcs \cup LinkPcs /\ flush = "no"
    <3>1. place[t] \in SchedPcs \cup LinkPcs
      BY <1>1, <1>4, ScheduleMoves
    <3>2. place[t] # "idle"
      BY <3>1 DEF SchedPcs, LinkPcs
    <3>3. QED
      BY <1>2, <3>1, <3>2
  <2>2. CASE Link(t) \/ Exchange(t) \/ Chain(t)
    BY <1>1, <2>1, <2>2, LinkUi, ExchangeUi, ChainUi
  <2>3. CASE ~(Link(t) \/ Exchange(t) \/ Chain(t))
    <3>1. Sched(t) \/ Check(t) \/ Reserve(t) \/ TakeHead(t) \/ Slot(t) \/ Mark(t)
      BY <1>4, <2>3 DEF Schedule
    <3>2. UNCHANGED <<linkFl, link, uiHead, prev, stage, flush>>
      BY <3>1 DEF Sched, Check, Reserve, TakeHead, Slot, Mark, uiVars, cycleVars
    <3>3. place[t] \in {"sched", "check", "reserve", "head", "slot", "mark"}
      BY <3>1 DEF Sched, Check, Reserve, TakeHead, Slot, Mark
    <3>4. \E l \in SchedPcs \cup {"link", "idle", "exec"} : place' = [place EXCEPT ![t] = l]
      BY <3>1 DEF Sched, Check, Reserve, TakeHead, Slot, Mark, MoveTo, Home, SchedPcs
    <3>5. place[t] \notin Linking /\ place'[t] \notin Linking
      BY <1>1, <3>3, <3>4 DEF Linking, SchedPcs
    <3>6. \A u \in FlowThreads : u # t => place'[u] = place[u] /\ work'[u] = work[u]
      <4>1. \E l \in SchedPcs \cup LinkPcs \cup {Home(t)}, w \in Seq(Vars) :
              /\ place' = [place EXCEPT ![t] = l] /\ work' = [work EXCEPT ![t] = w]
              /\ Elems(w) \subseteq Elems(work[t])
              /\ w # <<>> => l \in SchedPcs \cup LinkPcs
        BY <1>1, <1>4, ScheduleMoves
      <4>2. PICK l, w : place' = [place EXCEPT ![t] = l] /\ work' = [work EXCEPT ![t] = w]
        BY <4>1
      <4>3. QED
        BY <1>1, <4>2
    <3>7. QED
      BY <1>3, <2>1, <3>2, <3>5, <3>6
  <2>4. QED
    BY <2>2, <2>3
<1>5. ASSUME NEW p \in Procs, ProcExec(p) PROVE FlaggedInv' /\ ListInv'
  <2>1. PICK l \in {"load", "exec", "left"} \cup Telling : place' = [place EXCEPT ![p] = l]
    BY <1>1, <1>5, ExecMoves
  <2>2. place[p] \in {"enter", "load", "exec"} \cup Telling
        /\ UNCHANGED <<stage, flush, work, linkFl, link, uiHead>>
    BY <1>1, <1>5, ExecMoves DEF uiVars
  <2>3. prev' = prev
    BY <1>5 DEF ProcExec, EnterProc, Load, TellVar, Unmark, Release, Leave
  <2>4. place[p] # "idle" /\ place[p] \notin Linking /\ l \notin Linking
    BY <2>2 DEF Linking, Telling
  <2>5. p \in FlowThreads /\ place'[p] = l /\ \A u \in FlowThreads : u # p => place'[u] = place[u]
    BY <1>1, <2>1
  <2>6. QED
    BY <1>2, <1>3, <2>2, <2>3, <2>4, <2>5
<1>6. ASSUME NEW t \in FlowThreads, NEW v, VarSet(t, v), place[t] \in {"idle", "exec"}, flush = "no"
      PROVE  FlaggedInv' /\ ListInv'
  <2>1. /\ UNCHANGED <<linkFl, link, uiHead, prev, stage, flush>>
        /\ place' = [place EXCEPT ![t] = "link"] /\ work' = [work EXCEPT ![t] = Targets(t, v)]
    BY <1>6 DEF VarSet, MoveTo, uiVars, cycleVars
  <2>2. /\ place'[t] = "link" /\ \A u \in FlowThreads : u # t => place'[u] = place[u] /\ work'[u] = work[u]
    BY <1>1, <2>1
  <2>3. place[t] \notin Linking /\ place'[t] \notin Linking
    BY <1>6, <2>2 DEF Linking
  <2>4. QED
    BY <1>3, <1>6, <2>1, <2>2, <2>3
<1>7. ASSUME NEW v \in UiSets, AppSet(v) PROVE FlaggedInv' /\ ListInv'
  BY <1>1, <1>6, <1>7 DEF AppSet, InCycle
<1>8. ASSUME NEW p \in Procs, NEW v \in Outs, ProcSet(p, v) PROVE FlaggedInv' /\ ListInv'
  BY <1>1, <1>2, <1>6, <1>8 DEF ProcSet
<1>9. CASE BeginCycle \/ NextStage \/ EndCycle \/ SendUiUpdates
  <2>1. /\ UNCHANGED <<linkFl, link, uiHead, prev, work>> /\ flush = "no"
        /\ flush' \in {"no", "first"} /\ (flush' # "no" => stage' = 0)
    <3>1. CASE BeginCycle \/ SendUiUpdates
      BY <3>1 DEF BeginCycle, SendUiUpdates, InCycle, uiVars, threadVars
    <3>2. CASE NextStage \/ EndCycle
      BY <3>2 DEF NextStage, EndCycle, StageDone, uiVars, ListInv
    <3>3. QED
      BY <1>9, <3>1, <3>2
  <2>2. Pushing /\ Pushing'
    BY <2>1 DEF Pushing
  <2>3. \A v \in Vars : linkFl'[v] >= 0 /\ (linkFl'[v] > 0 <=> linkFl[v] > 0)
    BY <1>1, <2>1
  <2>4. \A u \in FlowThreads : \/ place'[u] = place[u]
                               \/ place[u] \in {"idle", "left"} /\ place'[u] \in {"idle", "enter"}
    BY <1>1, <1>9, CycleMoves DEF Cycle
  <2>5. \A u \in FlowThreads : \/ place'[u] = place[u] /\ work'[u] = work[u]
                               \/ place[u] \notin Linking /\ place'[u] \notin Linking
    BY <2>1, <2>4 DEF Linking
  <2>6. QED
    BY <1>1, <2>1, <2>2, <2>3, <2>5, PushSame
<1>10. CASE Flush
  <2>1. flush # "no" /\ UNCHANGED <<place, work>>
    BY <1>10 DEF Flush, FlushFirst, FlushShow, FlushUnlink, FlushUnflag, FlushHead,
                 FlushStub, threadVars
  <2>2. \A t \in FlowThreads : place'[t] \notin Linking
    BY <1>1, <2>1, FlushIdle, IdleList
  <2>3. ListInv'
    BY <1>1, <1>10, FirstUi, ShowUi, UnflagUi, EmptyUi DEF Flush
  <2>4. \A v \in Vars : linkFl'[v] >= 0 /\ (linkFl'[v] > 0 => linkFl[v] > 0)
    <3>1. CASE FlushUnflag
      <4>1. linkFl' = [linkFl EXCEPT ![uiVar[1]] = 0] /\ linkFl \in [Vars -> Int]
        BY <1>1, <3>1, UnflagUi, UiIs
      <4>2. QED
        BY <1>1, <4>1
    <3>2. CASE ~FlushUnflag
      <4>1. linkFl' = linkFl
        BY <1>10, <3>2 DEF Flush, FlushFirst, FlushShow, FlushUnlink, FlushHead,
                           FlushStub, uiVars
      <4>2. QED
        BY <1>1, <4>1
    <3>3. QED
      BY <3>1, <3>2
  <2>5. FlaggedInv'
    BY <2>2, <2>4 DEF FlaggedInv
  <2>6. QED
    BY <2>3, <2>5
<1>11. CASE UNCHANGED flowVars
  <2>1. UNCHANGED <<linkFl, link, uiHead, prev, stage, flush, uiVar, place, work>>
    BY <1>11 DEF flowVars, uiVars, threadVars, cycleVars
  <2>2. FlaggedInv'
    BY <2>1 DEF FlaggedInv
  <2>3. Pushing' <=> Pushing
    BY <2>1 DEF Pushing
  <2>4. \A c : (PushList(c)' <=> PushList(c)) /\ (PopList(c)' <=> PopList(c))
    BY <2>1 DEF PushList, PopList, Flagged, OnWay, Pred, Succ
  <2>5. ListInv'
    BY <2>1, <2>3, <2>4 DEF ListInv
  <2>6. QED
    BY <2>2, <2>5
<1>12. QED
  BY <1>4, <1>5, <1>7, <1>8, <1>9, <1>10, <1>11 DEF FlowNext, Cycle

\* What a thread has to link is linked by it, or is still to be.
LEMMA ToShowMoves ==
  ASSUME FlowSync, ChangeInv, FlaggedInv, NEW t \in FlowThreads, Schedule(t), NEW v \in HasUi,
         v \in ToShow(t)
  PROVE  v \in ToShow(t)' \/ linkFl'[v] > 0
<1>1. /\ FlowTyped /\ v \in Vars
      /\ place \in [FlowThreads -> Places] /\ work \in [FlowThreads -> Seq(Vars)]
      /\ linkFl \in [Vars -> Int] /\ \A x \in Vars : linkFl[x] >= 0
  <2>1. FlowTyped
    BY DEF ChangeInv, FlowSync
  <2>2. QED
    BY <2>1, UiIs DEF FlaggedInv
<1>2. work[t] # <<>>
  <2>1. place[t] \in SchedPcs \cup LinkPcs
    BY <1>1, ScheduleMoves
  <2>2. QED
    BY <1>1, <2>1 DEF FlowTyped, WorkOK
<1>s. PICK s : s = work[t]
  OBVIOUS
<1>3. Elems(s) = {s[1]} \cup Elems(Tail(s)) /\ (Len(s) > 1 <=> Tail(s) # <<>>)
      /\ (Tail(s) = <<>> => Elems(Tail(s)) = {})
  <2>1. s # <<>> /\ s \in Seq(Vars)
    BY <1>1, <1>2, <1>s
  <2>2. Elems(<<>>) = {}
    BY DEF Elems
  <2>3. QED
    BY <2>1, <2>2, WorkIs
<1>4. ASSUME NEW l, place' = [place EXCEPT ![t] = l], work' = work
      PROVE  /\ l \in SchedPcs \cup {"link"} => ToShow(t)' = Elems(s)
             /\ l \in Linking => ToShow(t)' = Elems(Tail(s))
  <2>1. place'[t] = l /\ work'[t] = s
    BY <1>1, <1>s, <1>4
  <2>2. l \in Linking => l \notin SchedPcs \cup {"link"}
    BY DEF Linking, SchedPcs
  <2>3. QED
    BY <2>1, <2>2 DEF ToShow
<1>5. ASSUME NextTarget(t), v \in Elems(Tail(s)) PROVE v \in ToShow(t)'
  <2>1. /\ work' = [work EXCEPT ![t] = Tail(s)]
        /\ place' = [place EXCEPT ![t] = IF Len(s) > 1 THEN "sched" ELSE Home(t)]
    BY <1>s, <1>5 DEF NextTarget, MoveTo
  <2>2. Len(s) > 1
    BY <1>3, <1>5
  <2>3. work'[t] = Tail(s) /\ place'[t] = "sched"
    BY <1>1, <2>1, <2>2
  <2>4. QED
    BY <1>5, <2>3 DEF ToShow, SchedPcs
<1>6. CASE Sched(t) \/ Check(t) \/ Reserve(t) \/ TakeHead(t) \/ Slot(t) \/ Mark(t)
  <2>1. place[t] \in SchedPcs
    BY <1>6 DEF Sched, Check, Reserve, TakeHead, Slot, Mark, SchedPcs
  <2>2. work' = work /\ \E l \in SchedPcs \cup {"link"} : place' = [place EXCEPT ![t] = l]
    BY <1>6, ReserveMap DEF Sched, Check, TakeHead, Slot, Mark, MoveTo, SchedPcs
  <2>3. ToShow(t) = Elems(s)
    BY <1>s, <2>1 DEF ToShow
  <2>4. QED
    BY <1>4, <2>2, <2>3
<1>7. CASE Link(t)
  <2>1. place[t] = "link"
    BY <1>7 DEF Link
  <2>2. v = s[1] \/ v \in Elems(Tail(s))
    BY <1>3, <1>s, <2>1 DEF ToShow
  <2>3. CASE v = s[1]
    <3>1. linkFl' = [linkFl EXCEPT ![v] = @ + 1]
      BY <1>7, <1>s, <2>3 DEF Link, Scheduled
    <3>2. QED
      BY <1>1, <3>1
  <2>4. CASE v \in Elems(Tail(s))
    <3>1. NextTarget(t) \/ (place' = [place EXCEPT ![t] = "exchange"] /\ work' = work)
      BY <1>7 DEF Link, MoveTo
    <3>2. "exchange" \in Linking
      BY DEF Linking
    <3>3. QED
      BY <1>4, <1>5, <2>4, <3>1, <3>2
  <2>5. QED
    BY <2>2, <2>3, <2>4
<1>8. CASE Exchange(t) \/ Chain(t)
  <2>1. place[t] \in Linking
    BY <1>8 DEF Exchange, Chain, Linking
  <2>2. place[t] \notin SchedPcs \cup {"link"}
    BY <2>1 DEF Linking, SchedPcs
  <2>3. v \in Elems(Tail(s))
    BY <1>s, <2>1, <2>2 DEF ToShow
  <2>4. NextTarget(t) \/ (place' = [place EXCEPT ![t] = "chain"] /\ work' = work)
    BY <1>8 DEF Exchange, Chain, MoveTo
  <2>5. "chain" \in Linking
    BY DEF Linking
  <2>6. QED
    BY <1>4, <1>5, <2>3, <2>4, <2>5
<1>9. QED
  BY <1>6, <1>7, <1>8 DEF Schedule

\* No value is set that would not be shown.
LEMMA ShownStep ==
  ASSUME FlowSync, ChangeInv, UiInv, [FlowNext]_flowVars
  PROVE  ShownInv'
<1>1. /\ FlowTyped /\ PhaseInv /\ ~UiAsync /\ FlaggedInv /\ ListInv /\ ShownInv
      /\ place \in [FlowThreads -> Places] /\ work \in [FlowThreads -> Seq(Vars)]
      /\ FlowThreads = Procs \cup {App} /\ App \notin Procs /\ HasUi \subseteq Vars
      /\ linkFl \in [Vars -> Int] /\ \A v \in Vars : linkFl[v] >= 0
      /\ val \in [Vars -> Nat] /\ shown \in [Vars -> Nat]
  <2>1. FlowTyped /\ PhaseInv /\ ~UiAsync /\ FlaggedInv /\ ListInv /\ ShownInv
    BY DEF ChangeInv, FlowSync, UiInv
  <2>2. QED
    BY <2>1, NetIs, UiIs DEF FlaggedInv, FlowTyped, HistTyped
<1>2. ASSUME NEW t \in FlowThreads, place[t] # "idle" PROVE flush = "no"
  BY <1>1, <1>2, FlushIdle
<1>3. ASSUME val' = val, NEW v PROVE Value(v)' = Value(v)
  BY <1>3 DEF Value
<1>4. ASSUME NEW t \in FlowThreads, place'[t] = place[t], work'[t] = work[t]
      PROVE  ToShow(t)' = ToShow(t)
  BY <1>4 DEF ToShow
<1>5. ASSUME UNCHANGED <<val, shown>>, flush' \notin {"unlink", "unflag"},
             \A v \in HasUi : linkFl[v] > 0 => linkFl'[v] > 0,
             \A t \in FlowThreads : \A v \in ToShow(t) :
               v \in HasUi => v \in ToShow(t)' \/ linkFl'[v] > 0
      PROVE  ShownInv'
  <2>1. ASSUME NEW v \in HasUi
        PROVE  shown'[v] = Value(v)' \/ linkFl'[v] > 0 \/ \E t \in FlowThreads : v \in ToShow(t)'
    <3>1. shown[v] = Value(v) \/ linkFl[v] > 0 \/ \E t \in FlowThreads : v \in ToShow(t)
      BY <1>1 DEF ShownInv
    <3>2. Value(v)' = Value(v)
      BY <1>3, <1>5
    <3>3. QED
      BY <1>5, <3>1, <3>2
  <2>2. QED
    BY <1>5, <2>1 DEF ShownInv
<1>6. ASSUME NEW t \in FlowThreads, Schedule(t) PROVE ShownInv'
  <2>1. /\ place[t] \in SchedPcs \cup LinkPcs /\ UNCHANGED <<val, flush>>
        /\ \A u \in FlowThreads : u # t => place'[u] = place[u] /\ work'[u] = work[u]
    <3>1. PICK l, w : place' = [place EXCEPT ![t] = l] /\ work' = [work EXCEPT ![t] = w]
      <4>1. \E l \in SchedPcs \cup LinkPcs \cup {Home(t)}, w \in Seq(Vars) :
              /\ place' = [place EXCEPT ![t] = l] /\ work' = [work EXCEPT ![t] = w]
              /\ Elems(w) \subseteq Elems(work[t])
              /\ w # <<>> => l \in SchedPcs \cup LinkPcs
        BY <1>1, <1>6, ScheduleMoves
      <4>2. QED
        BY <4>1
    <3>2. place[t] \in SchedPcs \cup LinkPcs /\ UNCHANGED <<val, flush>>
      BY <1>1, <1>6, ScheduleMoves
    <3>3. QED
      BY <1>1, <3>1, <3>2
  <2>2. flush' = "no"
    <3>1. place[t] # "idle"
      BY <2>1 DEF SchedPcs, LinkPcs
    <3>2. QED
      BY <1>2, <2>1, <3>1
  <2>3. shown' = shown
    BY <1>6 DEF Schedule, Sched, Check, Reserve, TakeHead, Slot, Mark, Link,
                Exchange, Chain, flowHist
  <2>4. \A v \in HasUi : linkFl[v] > 0 => linkFl'[v] > 0
    <3>y. PICK y : y = Scheduled(t)
      OBVIOUS
    <3>1. linkFl' = linkFl \/ linkFl' = [linkFl EXCEPT ![y] = @ + 1]
      BY <1>6, <3>y DEF Schedule, Sched, Check, Reserve, TakeHead, Slot, Mark, Link,
                  Exchange, Chain, uiVars
    <3>2. \A v \in Vars : linkFl'[v] = linkFl[v] \/ linkFl'[v] = linkFl[v] + 1
      BY <1>1, <3>1
    <3>3. ASSUME NEW v \in HasUi, linkFl[v] > 0 PROVE linkFl'[v] > 0
      <4>1. linkFl[v] \in Int /\ (linkFl'[v] = linkFl[v] \/ linkFl'[v] = linkFl[v] + 1)
        BY <1>1, <3>2
      <4>2. QED
        BY <3>3, <4>1
    <3>4. QED
      BY <3>3
  <2>5. ASSUME NEW u \in FlowThreads, NEW v \in ToShow(u), v \in HasUi
        PROVE  v \in ToShow(u)' \/ linkFl'[v] > 0
    <3>1. CASE u = t
      <4>1. v \in ToShow(t)
        BY <2>5, <3>1
      <4>2. v \in ToShow(t)' \/ linkFl'[v] > 0
        BY <1>1, <1>6, <2>5, <4>1, ToShowMoves
      <4>3. QED
        BY <3>1, <4>2
    <3>2. CASE u # t
      BY <1>4, <2>1, <3>2, <2>5
    <3>3. QED
      BY <3>1, <3>2
  <2>6. QED
    BY <1>5, <2>1, <2>2, <2>3, <2>4, <2>5
<1>7. ASSUME NEW q \in Procs, ProcExec(q) PROVE ShownInv'
  <2>1. PICK l \in {"load", "exec", "left"} \cup Telling : place' = [place EXCEPT ![q] = l]
    BY <1>1, <1>7, ExecMoves
  <2>2. place[q] \in {"enter", "load", "exec"} \cup Telling /\ UNCHANGED <<val, work, flush, linkFl>>
    BY <1>1, <1>7, ExecMoves DEF uiVars
  <2>3. shown' = shown
    BY <1>7 DEF ProcExec, EnterProc, Load, TellVar, Unmark, Release, Leave, flowHist
  <2>4. q \in FlowThreads /\ place'[q] = l /\ \A u \in FlowThreads : u # q => place'[u] = place[u]
    BY <1>1, <2>1
  <2>5. \A y \in {"enter", "load", "exec", "left"} \cup Telling :
          y \notin SchedPcs \cup {"link"} /\ y \notin Linking /\ y # "idle"
    BY DEF Telling, SchedPcs, Linking
  <2>6. ToShow(q) = {} /\ place[q] # "idle"
    BY <2>2, <2>5 DEF ToShow
  <2>7. flush' = "no"
    BY <1>2, <2>2, <2>4, <2>6
  <2>8. \A u \in FlowThreads : \A v \in ToShow(u) : v \in ToShow(u)'
    <3>1. \A u \in FlowThreads : u # q => ToShow(u)' = ToShow(u)
      BY <1>4, <2>2, <2>4
    <3>2. QED
      BY <2>6, <3>1
  <2>9. QED
    BY <1>5, <2>2, <2>3, <2>7, <2>8
\* A variable is set: it and what it feeds are to be linked.
<1>8. ASSUME NEW t \in FlowThreads, NEW x \in Vars, VarSet(t, x), place[t] \in {"idle", "exec"},
             flush = "no"
      PROVE  ShownInv'
  <2>w. PICK w : w = Targets(t, x)
    OBVIOUS
  <2>1. /\ val' = [val EXCEPT ![x] = @ + 1] /\ work' = [work EXCEPT ![t] = w]
        /\ place' = [place EXCEPT ![t] = "link"] /\ UNCHANGED <<linkFl, shown, flush>>
    BY <1>8, <2>w DEF VarSet, MoveTo, uiVars, cycleVars, flowHist
  <2>2. place'[t] = "link" /\ work'[t] = w
        /\ \A u \in FlowThreads : u # t => place'[u] = place[u] /\ work'[u] = work[u]
    BY <1>1, <2>1
  <2>3. ToShow(t) = {} /\ ToShow(t)' = Elems(w) /\ \A u \in FlowThreads : u # t => ToShow(u)' = ToShow(u)
    <3>1. place[t] \notin SchedPcs \cup {"link"} /\ place[t] \notin Linking
      BY <1>8 DEF SchedPcs, Linking
    <3>2. ToShow(t) = {}
      BY <3>1 DEF ToShow
    <3>3. ToShow(t)' = Elems(w)
      BY <2>2 DEF ToShow
    <3>4. QED
      BY <1>4, <2>2, <3>2, <3>3
  <2>4. x \in Elems(w) /\ Elems(Dsts[x]) \subseteq Elems(w)
    <3>1. /\ w \in Seq(Vars) /\ w # <<>> /\ w[1] = x
          /\ Elems(Dsts[x]) \subseteq Elems(Tail(w))
      BY <1>1, <2>w, TargetsTyped
    <3>2. Elems(w) = {w[1]} \cup Elems(Tail(w))
      BY <3>1, WorkIs
    <3>3. QED
      BY <3>1, <3>2
  <2>5. ASSUME NEW v \in HasUi
        PROVE  shown'[v] = Value(v)' \/ linkFl'[v] > 0 \/ \E u \in FlowThreads : v \in ToShow(u)'
    <3>1. shown[v] = Value(v) \/ linkFl[v] > 0 \/ \E u \in FlowThreads : v \in ToShow(u)
      BY <1>1 DEF ShownInv
    <3>2. CASE Src(v) = x
      <4>1. v \in Elems(w)
        <5>1. CASE \E u \in Vars : v \in Elems(Dsts[u])
          BY <2>4, <3>2, <5>1 DEF Src
        <5>2. CASE ~ \E u \in Vars : v \in Elems(Dsts[u])
          BY <2>4, <3>2, <5>2 DEF Src
        <5>3. QED
          BY <5>1, <5>2
      <4>2. QED
        BY <2>3, <4>1
    <3>3. CASE Src(v) # x
      <4>1. Src(v) \in Vars
        BY <1>1, SourceIs
      <4>2. val'[Src(v)] = val[Src(v)]
        BY <1>1, <2>1, <3>3, <4>1
      <4>3. Value(v)' = Value(v)
        BY <4>2 DEF Value
      <4>4. QED
        BY <2>1, <2>3, <3>1, <4>3
    <3>4. QED
      BY <3>2, <3>3
  <2>6. QED
    BY <1>8, <2>1, <2>5 DEF ShownInv
<1>9. ASSUME NEW v \in UiSets, AppSet(v) PROVE ShownInv'
  <2>1. place[App] = "idle" /\ VarSet(App, v) /\ v \in Vars /\ flush = "no" /\ App \in FlowThreads
    BY <1>1, <1>9, NetIs DEF AppSet, InCycle
  <2>2. QED
    BY <1>8, <2>1
<1>10. ASSUME NEW q \in Procs, NEW v \in Outs, ProcSet(q, v) PROVE ShownInv'
  <2>1. place[q] = "exec" /\ VarSet(q, v) /\ v \in Vars /\ q \in FlowThreads
    BY <1>1, <1>10, NetIs DEF ProcSet
  <2>2. QED
    BY <1>2, <1>8, <2>1
<1>11. CASE BeginCycle \/ NextStage \/ EndCycle \/ SendUiUpdates
  <2>1. UNCHANGED <<val, shown, linkFl, work>> /\ flush' \notin {"unlink", "unflag"}
    <3>1. UNCHANGED <<val, shown, linkFl, work>>
      BY <1>11 DEF BeginCycle, NextStage, EndCycle, SendUiUpdates, uiVars, threadVars,
                   flowHist
    <3>2. flush' \in {flush, "first"} /\ (flush' = flush => flush = "no")
      <4>1. CASE BeginCycle \/ SendUiUpdates
        BY <4>1 DEF BeginCycle, SendUiUpdates, InCycle
      <4>2. CASE NextStage \/ EndCycle
        BY <1>1, <4>2 DEF NextStage, EndCycle, StageDone, ListInv
      <4>3. QED
        BY <1>11, <4>1, <4>2
    <3>3. QED
      BY <3>1, <3>2
  <2>2. \A u \in FlowThreads : \/ place'[u] = place[u]
                               \/ place[u] \in {"idle", "left"} /\ place'[u] \in {"idle", "enter"}
    BY <1>1, <1>11, CycleMoves DEF Cycle
  <2>3. \A y \in {"idle", "left"} : y \notin SchedPcs \cup {"link"} /\ y \notin Linking
    BY DEF SchedPcs, Linking
  <2>4. ASSUME NEW u \in FlowThreads PROVE \A v \in ToShow(u) : v \in ToShow(u)'
    <3>1. CASE place'[u] = place[u]
      BY <1>4, <2>1, <3>1
    <3>2. CASE place[u] \in {"idle", "left"}
      BY <2>3, <3>2 DEF ToShow
    <3>3. QED
      BY <2>2, <3>1, <3>2
  <2>5. QED
    BY <1>5, <2>1, <2>4
<1>12. CASE Flush
  <2>1. /\ flush # "no" /\ UNCHANGED <<val, place, work>>
    BY <1>12 DEF Flush, FlushFirst, FlushShow, FlushUnlink, FlushUnflag, FlushHead,
                 FlushStub, threadVars
  <2>2. \A u \in FlowThreads : ToShow(u) = {} /\ ToShow(u)' = {}
    <3>1. \A u \in FlowThreads : place[u] = "idle"
      BY <1>1, <2>1, FlushIdle
    <3>2. "idle" \notin SchedPcs \cup {"link"} /\ "idle" \notin Linking
      BY DEF SchedPcs, Linking
    <3>3. \A u \in FlowThreads : ToShow(u) = {}
      BY <3>1, <3>2 DEF ToShow
    <3>4. QED
      BY <1>4, <2>1, <3>3
  <2>m. PICK m : m = uiVar[1]
    OBVIOUS
  <2>3. CASE FlushShow
    <3>1. /\ shown' = [shown EXCEPT ![m] = Value(m)] /\ linkFl' = linkFl /\ flush = "show"
          /\ uiVar'[1] = m
      BY <2>m, <2>3 DEF FlushShow, FlushTo, uiVars
    <3>2. m \in Vars
      BY <1>1, <2>m, <3>1 DEF FlowTyped, CycleTyped
    <3>3. \A v \in HasUi : shown'[v] = Value(v) \/ linkFl'[v] > 0
      <4>1. \A v \in HasUi : shown'[v] = IF v = m THEN Value(v) ELSE shown[v]
        BY <1>1, <3>1
      <4>2. \A v \in HasUi : shown[v] = Value(v) \/ linkFl[v] > 0
        BY <1>1, <2>2 DEF ShownInv
      <4>3. QED
        BY <3>1, <4>1, <4>2
    <3>4. \A v : Value(v)' = Value(v)
      BY <1>3, <2>1
    <3>5. shown'[m] = Value(m)'
      BY <1>1, <3>1, <3>2, <3>4
    <3>6. QED
      BY <3>1, <3>3, <3>4, <3>5 DEF ShownInv
  <2>4. CASE FlushUnlink
    <3>1. /\ shown' = shown /\ linkFl' = linkFl /\ flush = "unlink" /\ uiVar' = uiVar
      BY <2>4 DEF FlushUnlink, FlushTo, flowHist
    <3>2. \A v : Value(v)' = Value(v)
      BY <1>3, <2>1
    <3>3. shown[uiVar[1]] = Value(uiVar[1]) /\ \A v \in HasUi : shown[v] = Value(v) \/ linkFl[v] > 0
      BY <1>1, <2>2, <3>1 DEF ShownInv
    <3>4. shown'[uiVar'[1]] = Value(uiVar[1])'
      BY <3>1, <3>2, <3>3
    <3>5. \A v \in HasUi : shown'[v] = Value(v)' \/ linkFl'[v] > 0
      BY <3>1, <3>2, <3>3
    <3>6. (shown[uiVar[1]] = Value(uiVar[1]))'
      BY <2>1, <3>1, <3>3 DEF Value
    <3>7. QED
      BY <3>5, <3>6 DEF ShownInv
  <2>5. CASE FlushUnflag
    <3>1. linkFl' = [linkFl EXCEPT ![m] = 0] /\ m \in Vars
      BY <1>1, <2>m, <2>5, UnflagUi
    <3>2. shown' = shown /\ flush = "unflag" /\ flush' \notin {"unlink", "unflag"}
      BY <2>5 DEF FlushUnflag, FlushTo, flowHist
    <3>3. shown[m] = Value(m) /\ \A v \in HasUi : shown[v] = Value(v) \/ linkFl[v] > 0
      BY <1>1, <2>m, <2>2, <3>2 DEF ShownInv
    <3>4. \A v : Value(v)' = Value(v)
      BY <1>3, <2>1
    <3>5. \A v \in Vars : v # m => linkFl'[v] = linkFl[v]
      BY <1>1, <3>1
    <3>6. \A v \in HasUi : shown'[v] = Value(v)' \/ linkFl'[v] > 0
      BY <1>1, <3>2, <3>3, <3>4, <3>5
    <3>7. QED
      BY <3>2, <3>6 DEF ShownInv
  <2>6. CASE FlushFirst \/ FlushHead \/ FlushStub
    <3>1. UNCHANGED <<shown, linkFl>> /\ flush' \notin {"unlink", "unflag"}
      BY <2>6 DEF FlushFirst, FlushHead, FlushStub, FlushTo, flowHist, uiVars
    <3>2. QED
      BY <1>5, <2>1, <2>2, <3>1
  <2>7. QED
    BY <1>12, <2>3, <2>4, <2>5, <2>6 DEF Flush
<1>13. CASE UNCHANGED flowVars
  <2>1. UNCHANGED <<val, shown, linkFl, work, place, flush, uiVar>>
    BY <1>13 DEF flowVars, uiVars, threadVars, cycleVars, flowHist
  <2>2. \A u \in FlowThreads : ToShow(u)' = ToShow(u)
    BY <1>4, <2>1
  <2>3. \A v : Value(v)' = Value(v)
    BY <1>3, <2>1
  <2>4. (shown[uiVar[1]] = Value(uiVar[1]))' <=> shown[uiVar[1]] = Value(uiVar[1])
    BY <2>1 DEF Value
  <2>5. \A v \in HasUi :
          shown'[v] = Value(v)' \/ linkFl'[v] > 0 \/ \E t \in FlowThreads : v \in ToShow(t)'
    BY <1>1, <2>1, <2>2, <2>3 DEF ShownInv
  <2>6. QED
    BY <1>1, <2>1, <2>4, <2>5 DEF ShownInv
<1>14. QED
  BY <1>6, <1>7, <1>9, <1>10, <1>11, <1>12, <1>13 DEF FlowNext, Cycle

LEMMA UiInit ==
  ASSUME FlowInit
  PROVE  UiInv
<1>1. /\ \A v \in Vars : linkFl[v] = 0 /\ link[v] = Nil
      /\ link[Stub] = Nil /\ uiHead = Stub /\ flush = "no" /\ shown = val
      /\ \A v \in Vars : val[v] = 0
      /\ \A t \in FlowThreads : place[t] = "idle"
  BY DEF FlowInit
<1>2. FlaggedInv
  BY <1>1 DEF FlaggedInv, Linking
<1>3. ListInv
  <2>1. <<>> \in Seq(Vars) /\ Len(<<>>) = 0 /\ \A i : i \notin 1 .. Len(<<>>)
    OBVIOUS
  <2>2. Elems(<<>>) = {}
    BY DEF Elems
  <2>3. Flagged = {}
    BY <1>1 DEF Flagged
  <2>4. Pred(<<>>, Len(<<>>) + 1) = Stub
    BY <2>1 DEF Pred
  <2>5. Once(<<>>)
    BY <2>1 DEF Once
  <2>6. PushList(<<>>)
    BY <1>1, <2>1, <2>2, <2>3, <2>4 DEF PushList
  <2>7. QED
    BY <1>1, <2>1, <2>5, <2>6 DEF ListInv, Pushing
<1>4. ShownInv
  <2>1. \A v \in HasUi : shown[v] = Value(v)
    BY <1>1, NetIs, SourceIs DEF Value
  <2>2. QED
    BY <1>1, <2>1 DEF ShownInv
<1>5. QED
  BY <1>2, <1>3, <1>4 DEF UiInv

\* The list that is linked from the stub is c, and so is what the recursive
\* definition of ListNode finds.
LEMMA ListNodeIs ==
  ASSUME FlowTyped, NEW c \in Seq(Vars), Once(c),
         uiHead = Pred(c, Len(c) + 1), link[uiHead] = Nil,
         \A i \in 1 .. Len(c) : link[Pred(c, i)] = c[i]
  PROVE  Listed = Elems(c) /\ ListNode[Cardinality(Listed)] = uiHead
<1>n. PICK N : N = Cardinality(Vars)
  OBVIOUS
<1> DEFINE n == Len(c)
<1>1. /\ Stub \notin Vars /\ Nil \notin Vars /\ Nil # Stub
      /\ n \in Nat /\ \A i \in 1 .. n : c[i] \in Vars
      /\ \A x : x \in Elems(c) <=> \E i \in 1 .. n : x = c[i]
      /\ Elems(c) \subseteq Vars
  BY UiIs, ListIs
<1>2. n <= N /\ N \in Nat /\ Cardinality(Elems(c)) = n
  <2>1. IsFiniteSet(Vars) /\ Elems(c) \subseteq Vars
    <3>1. IsFiniteSet(Vars)
      BY FlowAssumption
    <3>2. QED
      BY <1>1, <3>1
  <2>2. Cardinality(1 .. n) = n /\ IsFiniteSet(1 .. n)
    <3>1. 1 \in Int /\ n \in Int
      BY <1>1
    <3>2. IsFiniteSet(1 .. n) /\ Cardinality(1 .. n) = IF 1 > n THEN 0 ELSE n - 1 + 1
      BY <3>1, FS_Interval, Zenon
    <3>3. QED
      BY <1>1, <3>2
  <2> DEFINE f == [i \in 1 .. n |-> c[i]]
  <2>3. /\ \A i \in 1 .. n : f[i] = c[i] /\ f[i] \in Elems(c)
        /\ \A x \in Elems(c) : \E i \in 1 .. n : f[i] = x
        /\ f \in [1 .. n -> Elems(c)]
    BY <1>1
  <2>4. \A i, j \in 1 .. n : f[i] = f[j] => i = j
    BY <2>3 DEF Once
  <2> HIDE DEF f
  <2>5. f \in Bijection(1 .. n, Elems(c))
    <3>1. f \in Injection(1 .. n, Elems(c))
      BY <2>3, <2>4 DEF Injection, IsInjective
    <3>2. f \in Surjection(1 .. n, Elems(c))
      BY <2>3 DEF Surjection
    <3>3. QED
      BY <3>1, <3>2 DEF Bijection
  <2>6. Cardinality(Elems(c)) = n
    BY <2>2, <2>5, FS_Bijection DEF ExistsBijection
  <2>7. Cardinality(Elems(c)) <= Cardinality(Vars) /\ Cardinality(Vars) \in Nat
    BY <2>1, FS_Subset, FS_CardinalityType
  <2>8. QED
    BY <1>n, <2>6, <2>7
<1>f. PICK f : f = [i \in 0 .. N |-> IF i = 0 THEN Stub ELSE IF i <= n THEN c[i] ELSE Nil]
  OBVIOUS
<1>3. \A i \in 0 .. N : ListNode[i] = f[i]
  <2>1. ASSUME NEW i \in 0 .. N, i # 0
        PROVE  f[i] = IF f[i - 1] = Nil THEN Nil ELSE link[f[i - 1]]
    <3>1. i - 1 \in 0 .. N /\ (i - 1 # 0 /\ i - 1 <= n => i - 1 \in 1 .. n)
      BY <1>2, <2>1
    <3>2. CASE i <= n
      <4>1. f[i - 1] = Pred(c, i) /\ f[i] = c[i] /\ i \in 1 .. n
        BY <1>f, <1>1, <1>2, <2>1, <3>1, <3>2 DEF Pred
      <4>2. Pred(c, i) # Nil
        BY <1>1, <2>1, <3>1, <3>2 DEF Pred
      <4>3. QED
        BY <4>1, <4>2
    <3>3. CASE i = n + 1
      <4>1. f[i - 1] = uiHead /\ f[i] = Nil
        BY <1>f, <1>1, <1>2, <2>1, <3>1, <3>3 DEF Pred
      <4>2. QED
        BY <4>1
    <3>4. CASE i > n + 1
      <4>1. f[i - 1] = Nil /\ f[i] = Nil
        BY <1>f, <1>1, <1>2, <2>1, <3>1, <3>4
      <4>2. QED
        BY <4>1
    <3>5. i <= n \/ i = n + 1 \/ i > n + 1
      BY <1>1, <1>2
    <3>6. QED
      BY <3>2, <3>3, <3>4, <3>5
  <2>2. f[0] = Stub /\ \A i \in 1 .. N : i \in 0 .. N /\ i # 0
    BY <1>f, <1>2
  <2>3. \A i \in 1 .. N : f[i] = IF f[i - 1] = Nil THEN Nil ELSE link[f[i - 1]]
    BY <2>1, <2>2
  <2>4. N \in Nat /\ N = Cardinality(Vars) /\ f[0] = Stub
    BY <1>n, <1>2, <2>2
  <2>5. \A i \in 0 .. N : ListNode[i] = f[i]
    BY <2>3, <2>4, NodeIs, SMTT(30)
  <2>6. QED
    BY <2>5
<1>4. \A x : x \in Listed <=> x # Nil /\ \E i \in 1 .. N : x = f[i]
  <2>1. \A i \in 1 .. N : i \in 0 .. N
    BY <1>2
  <2>2. Listed = {ListNode[i] : i \in 1 .. N} \ {Nil}
    BY <1>n DEF Listed
  <2>3. \A x : x \in Listed <=> x # Nil /\ \E i \in 1 .. N : x = ListNode[i]
    BY <2>2
  <2>4. \A i \in 1 .. N : ListNode[i] = f[i]
    BY <1>3, <2>1
  <2>5. QED
    BY <2>3, <2>4
<1>5. Listed = Elems(c)
  <2>1. ASSUME NEW x \in Listed PROVE x \in Elems(c)
    <3>1. PICK i \in 1 .. N : x = f[i] /\ x # Nil
      BY <1>4
    <3>2. i \in 0 .. N /\ i # 0
      BY <1>2
    <3>3. i <= n /\ x = c[i]
      BY <1>f, <3>1, <3>2
    <3>4. i \in 1 .. n
      BY <1>1, <1>2, <3>3
    <3>5. QED
      BY <1>1, <3>3, <3>4
  <2>2. ASSUME NEW x \in Elems(c) PROVE x \in Listed
    <3>1. PICK i \in 1 .. n : x = c[i]
      BY <1>1
    <3>2. i \in 1 .. N /\ i \in 0 .. N /\ i # 0 /\ i <= n
      BY <1>1, <1>2
    <3>3. f[i] = x /\ x # Nil
      BY <1>f, <1>1, <3>1, <3>2
    <3>4. QED
      BY <1>4, <3>2, <3>3
  <2>3. QED
    BY <2>1, <2>2
<1>6. ListNode[n] = uiHead
  <2>1. n \in 0 .. N /\ (n # 0 => n + 1 # 1 /\ n + 1 - 1 = n) /\ (n = 0 => n + 1 = 1)
    BY <1>1, <1>2
  <2>2. f[n] = Pred(c, n + 1)
    BY <1>f, <1>1, <2>1 DEF Pred
  <2>3. QED
    BY <1>3, <2>1, <2>2
<1>7. QED
  BY <1>2, <1>5, <1>6

\* Between cycles nobody is at work on the list, or has something to link.
LEMMA UiListed ==
  ASSUME FlowSync, ChangeInv, UiInv
  PROVE  UiListSound
<1>1. SUFFICES ASSUME AllIdle
               PROVE  /\ Listed = {v \in HasUi : linkFl[v] > 0}
                      /\ \A v \in HasUi \ Listed : shown[v] = Value(v)
                      /\ ListNode[Cardinality(Listed)] = uiHead
  BY DEF UiListSound
<1>2. /\ FlowTyped /\ PhaseInv /\ FlaggedInv /\ ListInv /\ ShownInv
      /\ FlowThreads = Procs \cup {App} /\ HasUi \subseteq Vars
  BY NetIs DEF ChangeInv, FlowSync, UiInv
<1>3. /\ flush = "no" /\ \A t \in FlowThreads : place[t] = "idle"
  BY <1>1, <1>2 DEF AllIdle, InCycle, PhaseInv
<1>4. OnWay("exchange") = {} /\ OnWay("chain") = {}
  BY <1>2, <1>3, IdleList
<1>5. PICK c \in Seq(Vars) : Once(c) /\ PushList(c)
  BY <1>2, <1>3 DEF ListInv, Pushing
<1>6. Elems(c) = Flagged /\ uiHead = Pred(c, Len(c) + 1) /\ link[uiHead] = Nil
      /\ \A i \in 1 .. Len(c) : link[Pred(c, i)] = c[i]
  BY <1>4, <1>5 DEF PushList
<1>7. Listed = Elems(c) /\ ListNode[Cardinality(Listed)] = uiHead
  BY <1>2, <1>5, <1>6, ListNodeIs
<1>8. Flagged = {v \in HasUi : linkFl[v] > 0}
  BY <1>2 DEF Flagged, FlaggedInv
<1>9. \A v \in HasUi : shown[v] = Value(v) \/ linkFl[v] > 0
  <2>1. \A t \in FlowThreads : ToShow(t) = {}
    BY <1>3 DEF ToShow, SchedPcs, Linking
  <2>2. QED
    BY <1>2, <2>1 DEF ShownInv
<1>10. QED
  BY <1>6, <1>7, <1>8, <1>9

\* UiListAlwaysSound: between cycles, when nobody sets a variable, the list of
\* those to send to the UI (var_send_to_ui() of cwFlowTypes) runs from the stub
\* to its head over the variables that are flagged as listed, and the UI has
\* seen the value of all others; under the same conditions as above.
THEOREM UiListAlwaysSound ==
  FlowSync => (FlowSpec /\ [][Unwrapped]_flowVars => []UiListSound)
<1> SUFFICES ASSUME FlowSync
             PROVE  FlowSpec /\ [][Unwrapped]_flowVars => []UiListSound
  OBVIOUS
<1>1. FlowInit => ChangeInv /\ UiInv
  BY ChangeInit, UiInit DEF FlowSync
<1>2. ChangeInv /\ UiInv /\ [FlowNext]_flowVars /\ [Unwrapped]_flowVars => ChangeInv' /\ UiInv'
  <2>1. SUFFICES ASSUME ChangeInv, UiInv, [FlowNext]_flowVars, [Unwrapped]_flowVars
                 PROVE  ChangeInv' /\ UiInv'
    OBVIOUS
  <2>2. ChangeInv'
    BY <2>1, ChangeAlways
  <2>3. FlaggedInv' /\ ListInv' /\ ShownInv'
    BY <2>1, UiListStep, ShownStep DEF UiInv
  <2>4. QED
    BY <2>2, <2>3 DEF UiInv
<1>3. ChangeInv /\ UiInv => UiListSound
  BY UiListed
<1>4. QED
  BY <1>1, <1>2, <1>3, PTL DEF FlowSpec

=============================================================================
