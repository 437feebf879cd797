------------------------------ MODULE FlowVars ------------------------------
(***************************************************************************)
(* cw::flow: how the change of a variable reaches the processors and the   *)
(* user interface.  Setting a variable pushes it on the list of variables  *)
(* to send to the UI, and each variable it feeds into the map of modified  *)
(* variables of that one's processor, which is told of them when it is     *)
(* next executed.  The voices of a poly processor do so concurrently, and  *)
(* so does the application, which holds the callback mutex of io unless    *)
(* io is told to call asynchronously.  One action is one access to shared  *)
(* memory.  The variables here are those whose type can notify by itself.  *)
(***************************************************************************)
EXTENDS Integers, Sequences, FiniteSets

CONSTANTS
  Procs,       \* the processors of the network and its voices
  Stages,      \* exec_cycle(): sets of processors executed together, in order
  Vars,        \* the variables ...
  Owner,       \* ... the processor of each ...
  Dsts,        \* ... the list of variables each feeds (dst_head) ...
  NotifyVars,  \* ... of each processor, those it wants to be told of ...
  Outs,        \* ... those their processors set ...
  UiSets,      \* ... those the application sets ...
  HasUi,       \* ... and those shown by the UI
  ChN,         \* varMapChN: 1 + the number of channels of a processor
  Word,        \* 2^32, the range of modVarMapHeadIdx
  UiEvery,     \* uiUpdateCycleCount
  UiAsync,     \* the application does not hold the callback mutex
  MaxSets      \* bound: calls of var_set()

App == "app"                   \* the thread of the application
FlowThreads == Procs \cup {App}    \* a processor stands for the thread executing it
Stub == "stub"                 \* ui_var_stub
Nil == "nil"

Elems(s) == {s[i] : i \in DOMAIN s}
Notify(p) == Elems(NotifyVars[p])
MapN(p) == Len(NotifyVars[p]) * ChN          \* modVarMapN
MapSlots(p) == 0 .. (MapN(p) - 1)
NotifyAll == UNION { Notify(p) : p \in Procs }

\* src_var, the variable itself if it has none
Src(v) == IF \E u \in Vars : v \in Elems(Dsts[u])
          THEN CHOOSE u \in Vars : v \in Elems(Dsts[u]) ELSE v

ASSUME FlowAssumption ==
  /\ App \notin Procs /\ Stub \notin Vars /\ Nil \notin Vars
  /\ IsFiniteSet(Vars) /\ IsFiniteSet(Procs)
  /\ Owner \in [Vars -> Procs] /\ Dsts \in [Vars -> Seq(Vars)]
  /\ \A p \in Procs : NotifyVars[p] \in Seq({v \in Vars : Owner[v] = p})
  /\ \A p \in Procs : \A i, j \in DOMAIN NotifyVars[p] :
       i # j => NotifyVars[p][i] # NotifyVars[p][j]
  /\ Stages \in Seq(SUBSET Procs) /\ Stages # <<>>
  /\ Outs \subseteq Vars /\ UiSets \subseteq Vars /\ HasUi \subseteq Vars
  \* a variable has one source, and only one that has none is set
  /\ \A u, w \in Vars : u # w => Elems(Dsts[u]) \cap Elems(Dsts[w]) = {}
  /\ \A v \in Outs \cup UiSets : Src(v) = v
  /\ \A u \in Vars : \A i, j \in DOMAIN Dsts[u] : i # j => Dsts[u][i] # Dsts[u][j]
  \* what feeds a variable that notifies is executed before or after its
  \* processor, never together with it
  /\ \A i \in DOMAIN Stages, v \in Outs : \A d \in Elems(Dsts[v]) :
       ~ {Owner[v], Owner[d]} \subseteq Stages[i]
  /\ ChN \in Nat \ {0} /\ Word \in Nat \ {0} /\ UiEvery \in Nat
  /\ UiAsync \in BOOLEAN /\ MaxSets \in Nat

VARIABLES
  val,         \* my_value: how often each variable was set
  modN,        \* variable_t: modN
  fullCnt,     \* proc_t: modVarMapFullCnt
  headIdx,     \* proc_t: modVarMapHeadIdx
  tailIdx,     \* proc_t: modVarMapTailIdx
  mapA,        \* proc_t: modVarMapA
  recurse,     \* proc_t: modVarRecurseFl
  linkFl,      \* variable_t: ui_var_link_fl
  link,        \* variable_t: ui_var_link
  uiHead,      \* flow_t: ui_var_head (ui_var_tail is always the stub)
  place,       \* where each thread is
  work,        \* var_set(): the variables still to link or to schedule
  idx, prev,   \* locals of _mod_var_map_update() and var_send_to_ui()
  cnt, toldN,  \* proc_notify(): its modN, and how many were told
  stage,       \* exec_cycle(): the stage under way, 0 between cycles
  flush,       \* _make_flow_to_ui_callback(): where it is
  uiVar,       \* ... its variable and the one after
  uiIdx,       \* flow_t: uiUpdateCycleIndex
  sets,        \* calls of var_set() so far
  seen, shown  \* history: the values notify() and ui_callback() last saw

mapVars == <<modN, fullCnt, headIdx, tailIdx, mapA, recurse>>
uiVars == <<linkFl, link, uiHead>>
threadVars == <<place, work, idx, prev, cnt, toldN>>
cycleVars == <<stage, flush, uiVar, uiIdx>>
flowHist == <<seen, shown>>
flowVars == <<val, mapVars, uiVars, threadVars, cycleVars, sets, flowHist>>

Value(v) == val[Src(v)]

MoveTo(t, l) == place' = [place EXCEPT ![t] = l]

\* network_create(): all variables have been scheduled, and notified, once.
FlowInit ==
  /\ val = [v \in Vars |-> 0]
  /\ modN = [v \in Vars |-> 0]
  /\ fullCnt = [p \in Procs |-> 0]
  /\ headIdx = [p \in Procs |-> Len(NotifyVars[p]) % Word]
  /\ tailIdx = [p \in Procs |-> IF MapN(p) = 0 THEN 0 ELSE Len(NotifyVars[p]) % MapN(p)]
  /\ mapA = [p \in Procs |-> [i \in MapSlots(p) |->
               IF i < Len(NotifyVars[p]) THEN NotifyVars[p][i + 1] ELSE Nil]]
  /\ recurse = [p \in Procs |-> FALSE]
  /\ linkFl = [v \in Vars |-> 0]
  /\ link = [v \in Vars \cup {Stub} |-> Nil] /\ uiHead = Stub
  /\ place = [t \in FlowThreads |-> "idle"]
  /\ work = [t \in FlowThreads |-> <<>>]
  /\ idx = [t \in FlowThreads |-> 0] /\ prev = [t \in FlowThreads |-> Stub]
  /\ cnt = [p \in Procs |-> 0] /\ toldN = [p \in Procs |-> 0]
  /\ stage = 0 /\ flush = "no" /\ uiVar = <<Nil, Nil>> /\ uiIdx = 0
  /\ sets = 0
  /\ seen = val /\ shown = val

------------------------------------------------------------------------------
(* var_set() and set_variable_value() *)

\* Where a thread goes on when the call is over.
Home(t) == IF t = App THEN "idle" ELSE "exec"

\* var_set() links the variable and then schedules and links those it feeds;
\* the application schedules the variable itself after that.
Targets(t, v) == <<v>> \o Dsts[v] \o (IF t = App THEN <<v>> ELSE <<>>)

VarSet(t, v) ==
  /\ sets < MaxSets
  /\ sets' = sets + 1
  /\ val' = [val EXCEPT ![v] = @ + 1]
  /\ work' = [work EXCEPT ![t] = Targets(t, v)]
  /\ MoveTo(t, "link")
  /\ UNCHANGED <<mapVars, uiVars, idx, prev, cnt, toldN, cycleVars, flowHist>>

InCycle == stage # 0 \/ flush # "no"

\* The application, in a callback of io.
AppSet(v) ==
  /\ place[App] = "idle"
  /\ UiAsync \/ ~InCycle
  /\ VarSet(App, v)

\* A processor, from notify() or exec(): here always from exec().
ProcSet(p, v) ==
  /\ place[p] = "exec"
  /\ Owner[v] = p
  /\ VarSet(p, v)

\* The next of the variables, or the end of the call.
NextTarget(t) ==
  /\ work' = [work EXCEPT ![t] = Tail(@)]
  /\ MoveTo(t, IF Len(work[t]) > 1 THEN "sched" ELSE Home(t))

------------------------------------------------------------------------------
(* var_schedule_notification(): _mod_var_map_update(), then var_send_to_ui() *)

Scheduled(t) == work[t][1]
Target(t) == Owner[Scheduled(t)]

\* Is the processor of the variable being executed?
Sched(t) ==
  /\ place[t] = "sched"
  /\ MoveTo(t, IF Scheduled(t) \in NotifyAll /\ ~recurse[Target(t)]
               THEN "check" ELSE "link")
  /\ UNCHANGED <<val, mapVars, uiVars, work, idx, prev, cnt, toldN, cycleVars, sets, flowHist>>

MarkedNever(v) == FALSE                \* mutant: the map is not searched
Marked(v) == modN[v] > 0

\* modN.load(): is it in the map already?
Check(t) ==
  /\ place[t] = "check"
  /\ MoveTo(t, IF Marked(Scheduled(t)) THEN "link" ELSE "reserve")
  /\ UNCHANGED <<val, mapVars, uiVars, work, idx, prev, cnt, toldN, cycleVars, sets, flowHist>>

\* modVarMapFullCnt.fetch_add(1); if the map is full the rest of the call is
\* given up and the count stays.
Reserve(t) ==
  /\ place[t] = "reserve"
  /\ fullCnt' = [fullCnt EXCEPT ![Target(t)] = @ + 1]
  /\ IF fullCnt[Target(t)] >= MapN(Target(t))
     THEN work' = [work EXCEPT ![t] = <<>>] /\ MoveTo(t, Home(t))
     ELSE MoveTo(t, "head") /\ UNCHANGED work
  /\ UNCHANGED <<val, modN, headIdx, tailIdx, mapA, recurse, uiVars, idx, prev, cnt, toldN,
                 cycleVars, sets, flowHist>>

Index(t) == headIdx[Target(t)] % MapN(Target(t))

\* modVarMapHeadIdx.fetch_add(1)
TakeHead(t) ==
  /\ place[t] = "head"
  /\ idx' = [idx EXCEPT ![t] = Index(t)]
  /\ headIdx' = [headIdx EXCEPT ![Target(t)] = (@ + 1) % Word]
  /\ MoveTo(t, "slot")
  /\ UNCHANGED <<val, modN, fullCnt, tailIdx, mapA, recurse, uiVars, work, prev, cnt, toldN,
                 cycleVars, sets, flowHist>>

Slot(t) ==
  /\ place[t] = "slot"
  /\ mapA' = [mapA EXCEPT ![Target(t)][idx[t]] = Scheduled(t)]
  /\ MoveTo(t, "mark")
  /\ UNCHANGED <<val, modN, fullCnt, headIdx, tailIdx, recurse, uiVars, work, idx, prev,
                 cnt, toldN, cycleVars, sets, flowHist>>

\* modN.fetch_add(1)
Mark(t) ==
  /\ place[t] = "mark"
  /\ modN' = [modN EXCEPT ![Scheduled(t)] = @ + 1]
  /\ MoveTo(t, "link")
  /\ UNCHANGED <<val, fullCnt, headIdx, tailIdx, mapA, recurse, uiVars, work, idx, prev,
                 cnt, toldN, cycleVars, sets, flowHist>>

\* var_send_to_ui(): ui_var_link_fl.fetch_add(1) ...
Link(t) ==
  /\ place[t] = "link"
  /\ IF Scheduled(t) \in HasUi
     THEN /\ linkFl' = [linkFl EXCEPT ![Scheduled(t)] = @ + 1]
          /\ IF linkFl[Scheduled(t)] = 0
             THEN MoveTo(t, "exchange") /\ UNCHANGED work
             ELSE NextTarget(t)
     ELSE NextTarget(t) /\ UNCHANGED linkFl
  /\ UNCHANGED <<val, mapVars, link, uiHead, idx, prev, cnt, toldN, cycleVars, sets, flowHist>>

\* ... ui_var_head.exchange(var) ...
Exchange(t) ==
  /\ place[t] = "exchange"
  /\ prev' = [prev EXCEPT ![t] = uiHead]
  /\ uiHead' = Scheduled(t)
  /\ MoveTo(t, "chain")
  /\ UNCHANGED <<val, mapVars, linkFl, link, work, idx, cnt, toldN, cycleVars, sets, flowHist>>

\* ... prev->ui_var_link.store(var)
Chain(t) ==
  /\ place[t] = "chain"
  /\ link' = [link EXCEPT ![prev[t]] = Scheduled(t)]
  /\ NextTarget(t)
  /\ UNCHANGED <<val, mapVars, linkFl, uiHead, idx, prev, cnt, toldN, cycleVars, sets, flowHist>>

Schedule(t) ==
  \/ Sched(t) \/ Check(t) \/ Reserve(t) \/ TakeHead(t) \/ Slot(t) \/ Mark(t)
  \/ Link(t) \/ Exchange(t) \/ Chain(t)

------------------------------------------------------------------------------
(* proc_exec(): proc_notify(), then exec() of the processor *)

\* modVarRecurseFl = true
EnterProc(p) ==
  /\ place[p] = "enter"
  /\ recurse' = [recurse EXCEPT ![p] = TRUE]
  /\ MoveTo(p, "load")
  /\ UNCHANGED <<val, modN, fullCnt, headIdx, tailIdx, mapA, uiVars, work, idx, prev,
                 cnt, toldN, cycleVars, sets, flowHist>>

\* modVarMapFullCnt.load()
Load(p) ==
  /\ place[p] = "load"
  /\ cnt' = [cnt EXCEPT ![p] = fullCnt[p]]
  /\ toldN' = [toldN EXCEPT ![p] = 0]
  /\ MoveTo(p, IF fullCnt[p] = 0 THEN "exec" ELSE "tell")
  /\ UNCHANGED <<val, mapVars, uiVars, work, idx, prev, cycleVars, sets, flowHist>>

Modified(p) == mapA[p][tailIdx[p]]

\* notify( proc, var ) of the class of the processor
TellVar(p) ==
  /\ place[p] = "tell"
  /\ seen' = [seen EXCEPT ![Modified(p)] = Value(Modified(p))]
  /\ MoveTo(p, "unmark")
  /\ UNCHANGED <<val, mapVars, uiVars, work, idx, prev, cnt, toldN, cycleVars, sets, shown>>

Unmarked(p) == [modN EXCEPT ![Modified(p)] = 0]

\* modN.store(0), and the tail advances.
Unmark(p) ==
  /\ place[p] = "unmark"
  /\ modN' = Unmarked(p)
  /\ tailIdx' = [tailIdx EXCEPT ![p] = (@ + 1) % MapN(p)]
  /\ toldN' = [toldN EXCEPT ![p] = @ + 1]
  /\ MoveTo(p, IF toldN[p] + 1 = cnt[p] THEN "release" ELSE "tell")
  /\ UNCHANGED <<val, fullCnt, headIdx, mapA, recurse, uiVars, work, idx, prev, cnt,
                 cycleVars, sets, flowHist>>

Released(p) == fullCnt[p] - cnt[p]

\* modVarMapFullCnt.fetch_sub(modN)
Release(p) ==
  /\ place[p] = "release"
  /\ fullCnt' = [fullCnt EXCEPT ![p] = Released(p)]
  /\ MoveTo(p, "exec")
  /\ UNCHANGED <<val, modN, headIdx, tailIdx, mapA, recurse, uiVars, work, idx, prev,
                 cnt, toldN, cycleVars, sets, flowHist>>

\* modVarRecurseFl = false: the processor has set what it wanted to.
Leave(p) ==
  /\ place[p] = "exec"
  /\ recurse' = [recurse EXCEPT ![p] = FALSE]
  /\ MoveTo(p, "left")
  /\ UNCHANGED <<val, modN, fullCnt, headIdx, tailIdx, mapA, uiVars, work, idx, prev,
                 cnt, toldN, cycleVars, sets, flowHist>>

ProcExec(p) ==
  \/ EnterProc(p) \/ Load(p) \/ TellVar(p) \/ Unmark(p) \/ Release(p) \/ Leave(p)

------------------------------------------------------------------------------
(* exec_cycle(): the stages, and every so many cycles the UI *)

Starts(i, f) == [t \in FlowThreads |-> IF t \in Stages[i] THEN "enter" ELSE f[t]]

\* The mutex is held if the callback is synchronous.
BeginCycle ==
  /\ ~InCycle
  /\ UiAsync \/ place[App] = "idle"
  /\ stage' = 1
  /\ place' = Starts(1, place)
  /\ UNCHANGED <<val, mapVars, uiVars, work, idx, prev, cnt, toldN, flush, uiVar, uiIdx,
                 sets, flowHist>>

StageDone == stage # 0 /\ \A p \in Stages[stage] : place[p] = "left"

Rested == [t \in FlowThreads |-> IF t = App THEN place[t] ELSE "idle"]

NextStage ==
  /\ StageDone
  /\ stage < Len(Stages)
  /\ stage' = stage + 1
  /\ place' = Starts(stage + 1, Rested)
  /\ UNCHANGED <<val, mapVars, uiVars, work, idx, prev, cnt, toldN, flush, uiVar, uiIdx,
                 sets, flowHist>>

EndCycle ==
  /\ StageDone
  /\ stage = Len(Stages)
  /\ stage' = 0
  /\ place' = Rested
  /\ IF uiIdx >= UiEvery
     THEN flush' = "first" /\ uiIdx' = 1
     ELSE UNCHANGED flush /\ uiIdx' = uiIdx + 1
  /\ UNCHANGED <<val, mapVars, uiVars, work, idx, prev, cnt, toldN, uiVar, sets, flowHist>>

\* send_ui_updates(), by the application between two cycles.
SendUiUpdates ==
  /\ ~InCycle
  /\ place[App] = "idle"
  /\ flush' = "first"
  /\ UNCHANGED <<val, mapVars, uiVars, threadVars, stage, uiVar, uiIdx, sets, flowHist>>

------------------------------------------------------------------------------
(* _make_flow_to_ui_callback() *)

FlushTo(l, v) == flush' = l /\ uiVar' = v

\* ui_var_tail->ui_var_link
FlushFirst ==
  /\ flush = "first"
  /\ FlushTo(IF link[Stub] = Nil THEN "head" ELSE "show", <<link[Stub], Nil>>)
  /\ UNCHANGED <<val, mapVars, uiVars, threadVars, stage, uiIdx, sets, flowHist>>

\* ui_callback(), and the next of the list is read.
FlushShow ==
  /\ flush = "show"
  /\ shown' = [shown EXCEPT ![uiVar[1]] = Value(uiVar[1])]
  /\ FlushTo("unlink", <<uiVar[1], link[uiVar[1]]>>)
  /\ UNCHANGED <<val, mapVars, uiVars, threadVars, stage, uiIdx, sets, seen>>

FlushUnlink ==
  /\ flush = "unlink"
  /\ link' = [link EXCEPT ![uiVar[1]] = Nil]
  /\ FlushTo("unflag", uiVar)
  /\ UNCHANGED <<val, mapVars, linkFl, uiHead, threadVars, stage, uiIdx, sets, flowHist>>

FlagLess == [linkFl EXCEPT ![uiVar[1]] = @ - 1]      \* mutant: decremented
FlagZero == [linkFl EXCEPT ![uiVar[1]] = 0]

FlushUnflag ==
  /\ flush = "unflag"
  /\ linkFl' = FlagZero
  /\ FlushTo(IF uiVar[2] = Nil THEN "head" ELSE "show", <<uiVar[2], Nil>>)
  /\ UNCHANGED <<val, mapVars, link, uiHead, threadVars, stage, uiIdx, sets, flowHist>>

HeadKept == uiHead                     \* mutant: the head stays
HeadStub == Stub

\* The list is emptied: ui_var_head ...
FlushHead ==
  /\ flush = "head"
  /\ uiHead' = HeadStub
  /\ FlushTo("stub", <<Nil, Nil>>)
  /\ UNCHANGED <<val, mapVars, linkFl, link, threadVars, stage, uiIdx, sets, flowHist>>

\* ... and ui_var_stub.ui_var_link
FlushStub ==
  /\ flush = "stub"
  /\ link' = [link EXCEPT ![Stub] = Nil]
  /\ FlushTo("no", uiVar)
  /\ UNCHANGED <<val, mapVars, linkFl, uiHead, threadVars, stage, uiIdx, sets, flowHist>>

Flush ==
  \/ FlushFirst \/ FlushShow \/ FlushUnlink \/ FlushUnflag \/ FlushHead \/ FlushStub

------------------------------------------------------------------------------
Cycle == BeginCycle \/ NextStage \/ EndCycle \/ Flush

FlowNext ==
  \/ \E t \in FlowThreads : Schedule(t)
  \/ \E p \in Procs : ProcExec(p)
  \/ \E v \in UiSets : AppSet(v)
  \/ \E p \in Procs, v \in Outs : ProcSet(p, v)
  \/ SendUiUpdates
  \/ Cycle

FlowSpec == FlowInit /\ [][FlowNext]_flowVars

(***************************************************************************)
(* The driver of the network goes on executing cycles and every thread is  *)
(* scheduled; nobody has to set a variable.                                *)
(***************************************************************************)
FlowFairness ==
  /\ \A t \in FlowThreads : WF_flowVars(Schedule(t))
  /\ \A p \in Procs : WF_flowVars(ProcExec(p))
  /\ WF_flowVars(Cycle)

FlowFairSpec == FlowSpec /\ FlowFairness

------------------------------------------------------------------------------
(* Properties *)

TypeMaps ==
  /\ modN \in [Vars -> Nat]
  /\ fullCnt \in [Procs -> Int]
  /\ headIdx \in [Procs -> 0 .. (Word - 1)]
  /\ \A p \in Procs : /\ tailIdx[p] \in Nat
                      /\ mapA[p] \in [MapSlots(p) -> Vars \cup {Nil}]
  /\ recurse \in [Procs -> BOOLEAN]

TypeUi ==
  /\ linkFl \in [Vars -> Int]
  /\ link \in [Vars \cup {Stub} -> Vars \cup {Nil}]
  /\ uiHead \in Vars \cup {Stub}

TypeThreads ==
  /\ place \in [FlowThreads -> {"idle", "enter", "load", "tell", "unmark", "release", "exec",
                                "left", "sched", "check", "reserve", "head", "slot", "mark",
                                "link", "exchange", "chain"}]
  /\ work \in [FlowThreads -> Seq(Vars)]
  /\ \A t \in FlowThreads : place[t] = "slot" => idx[t] \in MapSlots(Target(t))
  /\ prev \in [FlowThreads -> Vars \cup {Stub}]
  /\ cnt \in [Procs -> Int] /\ toldN \in [Procs -> Nat]

TypeCycle ==
  /\ stage \in 0 .. Len(Stages)
  /\ flush \in {"no", "first", "show", "unlink", "unflag", "head", "stub"}
  /\ uiVar \in (Vars \cup {Nil}) \X (Vars \cup {Nil})
  /\ uiIdx \in Nat /\ sets \in 0 .. MaxSets

TypeHistory == val \in [Vars -> Nat] /\ seen \in [Vars -> Nat] /\ shown \in [Vars -> Nat]

\* FlowTypeOK: every variable has its type.
FlowTypeOK == TypeMaps /\ TypeUi /\ TypeThreads /\ TypeCycle /\ TypeHistory

\* ChangesToldInTime: when a processor executes, proc_notify() has told it the
\* value of each of its variables, whichever threads set them, in whatever
\* order and however often: no change is lost because the map of modified
\* variables is full, or because a slot is taken or released too early.
\* (modVarMapHeadIdx must not wrap past Word, unless modVarMapN divides it.)
ChangesToldInTime ==
  \A p \in Procs : place[p] = "exec" => \A v \in Notify(p) : seen[v] = Value(v)

\* The variables linked from the stub.
ListNode[n \in 0 .. Cardinality(Vars)] ==
  IF n = 0 THEN Stub
  ELSE IF ListNode[n - 1] = Nil THEN Nil ELSE link[ListNode[n - 1]]
Listed == {ListNode[n] : n \in 1 .. Cardinality(Vars)} \ {Nil}

AllIdle == ~InCycle /\ place[App] = "idle"

\* UiListSound: between cycles, when nobody is setting a variable, the list
\* holds each variable the UI has not seen the value of, and no variable is
\* counted as listed that is not: such a one would never be sent again.
UiListSound ==
  AllIdle => /\ Listed = {v \in HasUi : linkFl[v] > 0}
             /\ \A v \in HasUi \ Listed : shown[v] = Value(v)
             /\ ListNode[Cardinality(Listed)] = uiHead

\* UiCatchesUp: as long as cycles are executed, the UI is sent the last value
\* of every variable it shows.
UiCatchesUp == \A v \in HasUi : shown[v] # Value(v) ~> shown[v] = Value(v)
=============================================================================
