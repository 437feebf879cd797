------------------------------ MODULE IoServer ------------------------------
(***************************************************************************)
(* cw::io: the threads that call the application, the mutex that lets one  *)
(* synchronous callback through at a time, and the calls that start, pause *)
(* and end these threads.  The application's own thread, Main, calls       *)
(* exec(), which calls back too, and the other functions, inside such a    *)
(* callback or outside.  Threads of the thread machine run one callback    *)
(* after the other while they are not paused; one of them may belong to a  *)
(* timer.  Drivers (MIDI, serial ports, sockets, audio groups) call when   *)
(* they like.  Jobs are the threads of threadRunOnce().                    *)
(***************************************************************************)
EXTENDS Integers, FiniteSets

CONSTANTS
  Main,        \* the application's thread
  Threads,     \* threads made by threadCreate()
  Timers,      \* bound: calls of timerCreate(), one thread each
  SlotN,       \* bound: length of timerA
  Drivers,     \* threads of device drivers
  Jobs,        \* bound: calls of threadRunOnce()
  MaxCalls,    \* bound: calls of the application's, those of exec() not counted
  Async        \* those that call without the mutex (asyncFl)

Slots == 1 .. SlotN
Mach == Threads \cup Timers         \* the thread machine's list, once made
Loops == Mach \cup Jobs             \* all that thread::create() makes
Callers == {Main} \cup Loops \cup Drivers
Nobody == "nobody"

ASSUME IoAssumption ==
  /\ SlotN \in Nat /\ MaxCalls \in Nat
  /\ Async \subseteq Callers \ {Main}
  /\ Nobody \notin Callers
  /\ {Main} \cap (Mach \cup Drivers \cup Jobs) = {} /\ Threads \cap Timers = {}
  /\ Mach \cap (Drivers \cup Jobs) = {} /\ Drivers \cap Jobs = {}

VARIABLES
  started,     \* io_t: startedFl
  holder,      \* io_t: cbMutexH
  listed,      \* io_t: threadOnceList
  pc,          \* where each caller is in its callback or its loop
  mode,        \* thread_t: stateId of the threads, "none" before creation
  req,         \* thread_t: doFlags of the threads
  doneFl,      \* thread_once_t
  slot,        \* the place in timerA of each timer that was created, 0 before
  slots,       \* timerN
  base, gen,   \* timerA as each timer thread knows it, and as it is
  deletedFl, startedFl,        \* timer_t
  api,         \* Main's call under way
  todo,        \* the threads it has still to look at
  cur,         \* the one it waits for
  ok,          \* its result
  calls,       \* how many calls the application made
  late, hasty  \* history, see below

callVars == <<holder, pc>>
machVars == <<mode, req>>
jobVars == <<listed, doneFl>>
timerVars == <<slot, slots, base, gen, deletedFl, startedFl>>
apiVars == <<api, todo, cur, ok>>
histVars == <<late, hasty>>
vars == <<started, callVars, machVars, jobVars, timerVars, apiVars, calls, histVars>>

(***************************************************************************)
(* History.  late: how often the timer in each slot called since it was    *)
(* stopped or destroyed, counted to two.  hasty: the threads that pause()  *)
(* or stop() took for paused while a request to run was still to be met.   *)
(***************************************************************************)

Exists == {t \in Mach : mode[t] # "none"}

\* create() and threadCreate(); timers and jobs come later.
Init ==
  /\ started = FALSE
  /\ holder = Nobody /\ listed = {}
  /\ pc = [c \in Callers |-> "out"]
  /\ mode = [t \in Loops |-> IF t \in Threads THEN "paused" ELSE "none"]
  /\ req = [t \in Loops |-> "none"]
  /\ doneFl = [j \in Jobs |-> FALSE]
  /\ slot = [t \in Timers |-> 0] /\ slots = 0
  /\ base = [t \in Timers |-> 0] /\ gen = 0
  /\ deletedFl = [s \in Slots |-> FALSE] /\ startedFl = [s \in Slots |-> FALSE]
  /\ api = "none" /\ todo = {} /\ cur = Nobody /\ ok = TRUE
  /\ calls = 0 /\ late = [s \in Slots |-> 0] /\ hasty = {}

Goto(c, l) == pc' = [pc EXCEPT ![c] = l]

------------------------------------------------------------------------------
(* _ioCallback() *)

IsLate(t) == ~startedFl[slot[t]] \/ deletedFl[slot[t]]

\* cbFunc() of the application is entered.
Enter(c) ==
  /\ Goto(c, "cb")
  /\ late' = IF c \in Timers /\ IsLate(c) /\ late[slot[c]] < 2
             THEN [late EXCEPT ![slot[c]] = @ + 1] ELSE late

\* Where a caller goes on.
After(c) == IF c \in Loops THEN "end" ELSE "out"

\* There is no callback.
Skip(c) == Goto(c, After(c)) /\ UNCHANGED late

AsksMutex(c) == c \notin Async

\* startedFl is read, and not again when the mutex has been taken.
Ask(c) ==
  IF ~started THEN Skip(c)
  ELSE IF AsksMutex(c) THEN Goto(c, "lock") /\ UNCHANGED late
  ELSE Enter(c)

Lock(c) ==
  /\ pc[c] = "lock"
  /\ holder = Nobody
  /\ holder' = c
  /\ Enter(c)
  /\ UNCHANGED <<started, machVars, jobVars, timerVars, apiVars, hasty>>

\* mutex::lock() gives up after callbackMutexTimeOutMs.
LockTimeOut(c) ==
  /\ pc[c] = "lock"
  /\ holder # Nobody
  /\ Skip(c)
  /\ UNCHANGED <<started, holder, machVars, jobVars, timerVars, apiVars, hasty>>

KeptHolder(c) == holder                \* mutant: the mutex is not unlocked
FreedHolder(c) == IF holder = c THEN Nobody ELSE holder

\* It returns.
Return(c) ==
  /\ pc[c] = "cb"
  /\ c = Main => api = "none"
  /\ holder' = FreedHolder(c)
  /\ Goto(c, After(c))
  /\ UNCHANGED <<started, machVars, jobVars, timerVars, apiVars, histVars>>

Callback(c) == Lock(c) \/ LockTimeOut(c) \/ Return(c)

------------------------------------------------------------------------------
(* The callers *)

\* _threadFunc(), called again and again by its thread, and _thread_once_func(),
\* when the function of the job has returned.
ThreadBegin(t) ==
  /\ t \in Threads \cup Jobs
  /\ mode[t] = "running" /\ pc[t] = "out"
  /\ Ask(t)
  /\ UNCHANGED <<started, holder, machVars, jobVars, timerVars, apiVars, hasty>>

FiresStopped(t) == {~deletedFl[slot[t]]}     \* mutant: startedFl is not looked at

\* What a timer thread reads in its record, which timerCreate() may have released.
Fires(t) == IF base[t] = gen THEN {startedFl[slot[t]] /\ ~deletedFl[slot[t]]} ELSE BOOLEAN
Ends(t) == IF base[t] = gen THEN {deletedFl[slot[t]]} ELSE BOOLEAN

\* _timerThreadCb(): the sleep is over.
TimerBegin(t) ==
  /\ t \in Timers
  /\ mode[t] = "running" /\ pc[t] = "out"
  /\ \E f \in Fires(t) : IF f THEN Ask(t) ELSE Skip(t)
  /\ UNCHANGED <<started, holder, machVars, jobVars, timerVars, apiVars, hasty>>

\* The callback has returned.  A thread whose callback returned false, or that was
\* asked to, ends; one that was asked to pauses.
ThreadEnd(t) ==
  /\ t \in Mach
  /\ pc[t] = "end"
  /\ \E e \in (IF t \in Timers THEN Ends(t) ELSE {FALSE}) :
       mode' = [mode EXCEPT ![t] = IF e \/ req[t] = "exit" THEN "exited"
                                   ELSE IF req[t] = "pause" THEN "paused" ELSE @]
  /\ Goto(t, IF mode'[t] = "paused" THEN "clear" ELSE "out")
  /\ UNCHANGED <<started, holder, req, jobVars, timerVars, apiVars, histVars>>

\* It forgets its request when its state is already stored; a request that came in
\* between is lost.
Clear(t) ==
  /\ t \in Mach
  /\ pc[t] = "clear"
  /\ req' = [req EXCEPT ![t] = "none"]
  /\ Goto(t, "out")
  /\ UNCHANGED <<started, holder, mode, jobVars, timerVars, apiVars, histVars>>

\* A thread in the pause state looks at its requests.
Unpause(t) ==
  /\ mode[t] = "paused" /\ pc[t] = "out" /\ req[t] \in {"run", "exit"}
  /\ mode' = [mode EXCEPT ![t] = IF req[t] = "run" THEN "running" ELSE "exited"]
  /\ UNCHANGED <<started, callVars, req, jobVars, timerVars, apiVars, histVars>>

\* _thread_once_func() sets doneFl ...
JobDone(j) ==
  /\ pc[j] = "end"
  /\ doneFl' = [doneFl EXCEPT ![j] = TRUE]
  /\ Goto(j, "done")
  /\ UNCHANGED <<started, holder, machVars, listed, timerVars, apiVars, histVars>>

\* ... and returns false.
JobExit(j) ==
  /\ pc[j] = "done"
  /\ mode' = [mode EXCEPT ![j] = "exited"]
  /\ Goto(j, "out")
  /\ UNCHANGED <<started, holder, req, jobVars, timerVars, apiVars, histVars>>

DriverBegin(d) ==
  /\ pc[d] = "out"
  /\ Ask(d)
  /\ UNCHANGED <<started, holder, machVars, jobVars, timerVars, apiVars, hasty>>

------------------------------------------------------------------------------
(* The application's thread *)

\* It may call any function outside its callbacks and inside.
Free == api = "none" /\ pc[Main] \in {"out", "cb"}

\* timerCreate(): the slot of a deleted timer is used as it is, otherwise the
\* array is allocated anew.  The thread begins with the next start().
NewTimer == CHOOSE t \in Timers : mode[t] = "none"

TimerCreate(t) ==
  /\ Free
  /\ mode[t] = "none" /\ t = NewTimer
  /\ IF \E s \in 1 .. slots : deletedFl[s]
     THEN /\ \E s \in 1 .. slots :
               /\ deletedFl[s] /\ \A r \in 1 .. (s - 1) : ~deletedFl[r]
               /\ slot' = [slot EXCEPT ![t] = s]
          /\ base' = [base EXCEPT ![t] = gen]
          /\ UNCHANGED <<slots, gen>>
     ELSE /\ slots < SlotN
          /\ slots' = slots + 1 /\ gen' = gen + 1
          /\ slot' = [slot EXCEPT ![t] = slots']
          /\ base' = [base EXCEPT ![t] = gen']
  /\ mode' = [mode EXCEPT ![t] = "paused"]
  /\ UNCHANGED <<started, callVars, req, jobVars, deletedFl, startedFl, apiVars, histVars>>

\* _timerIndexToPtr()
Valid(s) == s <= slots /\ ~deletedFl[s]

TimerStart(s) ==
  /\ Free /\ Valid(s)
  /\ startedFl' = [startedFl EXCEPT ![s] = TRUE]
  /\ late' = [late EXCEPT ![s] = 0]
  /\ UNCHANGED <<started, callVars, machVars, jobVars, slot, slots, base, gen, deletedFl,
                 apiVars, hasty>>

TimerStop(s) ==
  /\ Free /\ Valid(s)
  /\ startedFl' = [startedFl EXCEPT ![s] = FALSE]
  /\ UNCHANGED <<started, callVars, machVars, jobVars, slot, slots, base, gen, deletedFl,
                 apiVars, histVars>>

TimerDestroy(s) ==
  /\ Free /\ Valid(s)
  /\ startedFl' = [startedFl EXCEPT ![s] = FALSE]
  /\ deletedFl' = [deletedFl EXCEPT ![s] = TRUE]
  /\ UNCHANGED <<started, callVars, machVars, jobVars, slot, slots, base, gen, apiVars,
                 histVars>>

Timer == \/ \E t \in Timers : TimerCreate(t)
         \/ \E s \in Slots : TimerStart(s) \/ TimerStop(s) \/ TimerDestroy(s)

------------------------------------------------------------------------------
(* Calls that ask something of threads and wait for it, one thread after the    *)
(* other: start(), pause() and stop() of the machine's, destroy() first of the  *)
(* machine's and then ("force") of the jobs', exec() of the jobs that are done, *)
(* and threadRunOnce() ("once", and "unmake" when that failed) of its job.      *)

Begin(a, list) == api' = a /\ todo' = list /\ cur' = Nobody /\ ok' = TRUE

Api(a) ==
  /\ Free
  /\ Begin(a, Exists)
  /\ UNCHANGED <<started, callVars, machVars, jobVars, timerVars, histVars>>

\* destroy(); nothing is modelled after it has returned.
Destroy ==
  /\ api = "none" /\ pc[Main] = "out"
  /\ Begin("destroy", Exists)
  /\ UNCHANGED <<started, callVars, machVars, jobVars, timerVars, histVars>>

\* exec(): _thread_once_cleanup(), unless its list is empty ...
Exec ==
  /\ api = "none" /\ pc[Main] = "out"
  /\ listed # {}
  /\ Goto(Main, "exec")
  /\ Begin("exec", listed)
  /\ UNCHANGED <<started, holder, machVars, jobVars, timerVars, histVars>>

\* ... then the application is called.
ExecBegin ==
  /\ api = "none"
  /\ pc[Main] = "exec" \/ (pc[Main] = "out" /\ listed = {})
  /\ Ask(Main)
  /\ UNCHANGED <<started, holder, machVars, jobVars, timerVars, apiVars, hasty>>

\* threadRunOnce(): the record is put on the list, its thread created and unpaused.
RunOnce(j) ==
  /\ Free
  /\ mode[j] = "none"
  /\ listed' = listed \cup {j}
  /\ mode' = [mode EXCEPT ![j] = "paused"] /\ req' = [req EXCEPT ![j] = "run"]
  /\ api' = "once" /\ cur' = j /\ ok' = TRUE
  /\ UNCHANGED <<started, callVars, doneFl, timerVars, todo, histVars>>

Asks == CASE api = "start" -> "run" [] api = "stop" -> "pause" [] OTHER -> "exit"
Wanted == CASE api \in {"start", "once"} -> "running"
            [] api = "stop" -> "paused"
            [] OTHER -> "exited"

\* The next thread of the list, whose order is fixed.
NextThread == CHOOSE t \in todo : TRUE

Finished(j) == doneFl[j]

\* Is there anything to ask of it?  thread::pause() looks at its state.
Due(t) ==
  CASE api = "start" -> mode[t] = "paused"
    [] api = "stop" -> mode[t] # "paused"
    [] api = "exec" -> Finished(t)
    [] OTHER -> TRUE

\* start() gave up on it, and it will run after all.
WillRun(t) == mode[t] = "paused" /\ pc[t] = "out" /\ req[t] = "run"

\* thread::pause() and thread::destroy() store doFlags.  That they read the state
\* before is no step of its own: what a thread does in between, on an earlier
\* request, is what it is going to be asked for.
Request ==
  /\ cur = Nobody /\ todo # {}
  /\ todo' = todo \ {NextThread}
  /\ IF Due(NextThread)
     THEN /\ req' = [req EXCEPT ![NextThread] = Asks]
          /\ cur' = NextThread
          /\ listed' = listed \ {NextThread}
     ELSE UNCHANGED <<req, cur, listed>>
  /\ hasty' = IF api = "stop" /\ WillRun(NextThread)
              THEN hasty \cup {NextThread} ELSE hasty
  /\ UNCHANGED <<started, callVars, mode, doneFl, timerVars, api, ok, late>>

WaitOver == mode[cur] = Wanted           \* mutant: a thread that ended is waited for
WaitEnds == mode[cur] \in {Wanted, "exited"}

\* _waitForState(): a thread that has ended is an error, but not to threadRunOnce().
Arrived ==
  /\ cur # Nobody
  /\ WaitEnds
  /\ ok' = (ok /\ (mode[cur] = Wanted \/ api = "once"))
  /\ cur' = Nobody
  /\ UNCHANGED <<started, callVars, machVars, jobVars, timerVars, api, todo, histVars>>

\* The time limit, wherever the thread is, and even if it got there since the last
\* look.  thread_mach::destroy() leaves the rest of its threads alone then.
WaitTimeOut ==
  /\ cur # Nobody /\ api # "once"
  /\ ok' = FALSE /\ cur' = Nobody
  /\ todo' = IF api = "destroy" THEN {} ELSE todo
  /\ UNCHANGED <<started, callVars, machVars, jobVars, timerVars, api, histVars>>

\* threadRunOnce() takes its record off the list, asks the thread to end, and
\* releases it when that wait is over in one way or the other.
OnceTimeOut ==
  /\ cur # Nobody /\ api = "once"
  /\ api' = "unmake"
  /\ listed' = listed \ {cur}
  /\ req' = [req EXCEPT ![cur] = "exit"]
  /\ UNCHANGED <<started, callVars, mode, doneFl, timerVars, todo, cur, ok, histVars>>

AnyResult == TRUE                      \* mutant: thread_mach::stop()'s result is ignored
Result == ok

Ready(a) == api = a /\ cur = Nobody /\ todo = {}

\* startedFl changes if that went well; stop() follows a start() that did not.
FinishStart ==
  /\ Ready("start")
  /\ IF Result
     THEN started' = TRUE /\ hasty' = {} /\ api' = "none" /\ UNCHANGED <<todo, cur, ok>>
     ELSE Begin("stop", Exists) /\ UNCHANGED <<started, hasty>>
  /\ UNCHANGED <<callVars, machVars, jobVars, timerVars, late>>

FinishStop ==
  /\ Ready("stop")
  /\ started' = (started /\ ~Result)
  /\ api' = "none"
  /\ UNCHANGED <<callVars, machVars, jobVars, timerVars, todo, cur, ok, histVars>>

FinishJobs ==
  /\ Ready("exec") \/ Ready("once") \/ Ready("unmake")
  /\ api' = "none"
  /\ UNCHANGED <<started, callVars, machVars, jobVars, timerVars, todo, cur, ok, histVars>>

\* destroy() ends with an error, or ends the jobs too and releases all there is.
FinishDestroy ==
  /\ Ready("destroy") \/ Ready("force")
  /\ IF api = "destroy" /\ ok THEN Begin("force", listed)
     ELSE api' = "gone" /\ UNCHANGED <<todo, cur, ok>>
  /\ UNCHANGED <<started, callVars, machVars, jobVars, timerVars, histVars>>

ApiStep == \/ Request \/ Arrived
           \/ FinishStart \/ FinishStop \/ FinishJobs \/ FinishDestroy

Step(c) ==
  \/ Callback(c)
  \/ c \in Threads \cup Jobs /\ ThreadBegin(c)
  \/ c \in Timers /\ TimerBegin(c)
  \/ c \in Mach /\ (ThreadEnd(c) \/ Clear(c))
  \/ c \in Loops /\ Unpause(c)
  \/ c \in Jobs /\ (JobDone(c) \/ JobExit(c))
  \/ c = Main /\ (ApiStep \/ ExecBegin)

\* The calls the application is free to make.
Call ==
  \/ Timer \/ Destroy
  \/ \E j \in Jobs : RunOnce(j)
  \/ \E a \in {"start", "stop"} : Api(a)

Next ==
  /\ api # "gone"
  /\ \/ /\ \/ \E c \in Callers : Step(c)
           \/ \E d \in Drivers : DriverBegin(d)
           \/ Exec \/ WaitTimeOut \/ OnceTimeOut
        /\ UNCHANGED calls
     \/ Call /\ calls < MaxCalls /\ calls' = calls + 1

Spec == Init /\ [][Next]_vars

(***************************************************************************)
(* Threads are scheduled, callbacks and jobs return, the mutex is waited   *)
(* for no longer than its limit, and the application calls exec() in a     *)
(* loop.  No driver has to call, and no wait for a thread has to run out.  *)
(***************************************************************************)
Fairness ==
  /\ \A c \in Callers \ (Drivers \cap Async) :
       WF_vars(Step(c) /\ UNCHANGED calls /\ api # "gone")
  /\ SF_vars(Exec /\ UNCHANGED calls) /\ SF_vars(Return(Main) /\ UNCHANGED calls)

FairSpec == Spec /\ Fairness

------------------------------------------------------------------------------
(* Properties *)

InApp(c) == pc[c] = "cb"

Modes == {"none", "paused", "running", "exited"}
Requests == {"none", "run", "pause", "exit"}
Calls == {"none", "start", "stop", "exec", "once", "unmake", "destroy", "force",
          "gone"}

TypeOK ==
  /\ started \in BOOLEAN
  /\ holder \in {Nobody} \cup (Callers \ Async)
  /\ pc \in [Callers -> {"out", "exec", "lock", "cb", "end", "clear", "done"}]
  /\ mode \in [Loops -> Modes] /\ req \in [Loops -> Requests]
  /\ listed \subseteq Jobs /\ doneFl \in [Jobs -> BOOLEAN]
  /\ slot \in [Timers -> 0 .. SlotN] /\ slots \in 0 .. SlotN
  /\ base \in [Timers -> 0 .. SlotN] /\ gen \in 0 .. SlotN
  /\ deletedFl \in [Slots -> BOOLEAN] /\ startedFl \in [Slots -> BOOLEAN]
  /\ api \in Calls /\ todo \subseteq Loops
  /\ cur \in {Nobody} \cup Loops /\ ok \in BOOLEAN /\ calls \in 0 .. MaxCalls
  /\ late \in [Slots -> 0 .. 2] /\ hasty \subseteq Loops

\* OneAtATime: synchronous callbacks exclude one another, whichever threads make
\* them, and nobody keeps the mutex.
OneAtATime == \A c \in Callers \ Async : InApp(c) <=> holder = c

\* QuietWhenPaused: from the time pause() or stop() has succeeded until start()
\* succeeds, no thread of the machine is in the application: neither one that
\* read startedFl before, nor one that start() has only begun to unpause, whatever
\* waits ran out before.  Except one: a thread that a start() gave up on, and that
\* pause() or stop() then took for paused because it had not yet met its request.
QuietWhenPaused == ~started => \A t \in Mach \ hasty : ~InApp(t)

\* LateOnce: a timer that has been stopped or destroyed may call once more, if it
\* had read its flags, and no more; as long as timerCreate() has not moved the array
\* away from under the thread of a timer in that slot.
Moved(s) == \E t \in Timers : slot[t] = s /\ base[t] # gen
LateOnce == \A s \in Slots : ~Moved(s) => late[s] <= 1

\* What was asked of the thread that is waited for has been forgotten, or will be:
\* it came between the two stores with which the thread enters its pause.
Lost == /\ cur # Nobody /\ mode[cur] = "paused" /\ Wanted # "paused"
        /\ pc[cur] = "clear" \/ req[cur] = "none"

\* Nothing is under way, and no job is left on the list.
AtRest == api = "none" /\ listed = {}

\* CallsEnd: calls that wait for threads return without the help of their time limit,
\* also when they are made in a callback while the threads wait for its mutex; and
\* exec() releases the job of every threadRunOnce(), whether its callback was made or
\* dropped.  So there is a time when nothing is under way, again and again; except when
\* a request was lost, which nothing but the limit ends, and after destroy().
CallsEnd == []<>(AtRest \/ Lost \/ api = "gone")
=============================================================================
