----------------------------- MODULE AudioGroup -----------------------------
(***************************************************************************)
(* An audio group of io, its devices and their drivers.                    *)
(*                                                                         *)
(* A driver thread (the ALSA polling thread, or the thread of the audio    *)
(* file driver) calls _audioDeviceCallback() with packets: the rings of    *)
(* audio::buf are updated, the ready counts of the group's device records  *)
(* are incremented, the group's condition variable is signalled if every   *)
(* count is positive, and the file devices that take their clock from the  *)
(* calling device are executed.  The group's thread waits on the condition *)
(* variable and, while every ring is ready, calls the application and      *)
(* advances the rings.  Nothing is protected by the group's mutex: the     *)
(* drivers never lock it, so a signal is lost on a thread that is busy.    *)
(*                                                                         *)
(* A ring is counted in DSP cycles (a packet is one cycle); AudioBuf has   *)
(* the rings in detail.  A ready count is only compared with zero and is   *)
(* kept up to ReadyMax.                                                    *)
(***************************************************************************)
EXTENDS Integers, Sequences, FiniteSets

CONSTANTS
  CfgL,        \* the cfg deviceL: a sequence of <<device, dir>> of the group
  FileDevs,    \* devices of the file driver, in the order of its list
  Internal,    \* those with kUseInternalClockFl: the driver's thread runs them
  Packets,     \* [device of FileDevs -> the packets of an update of it]
  ClockL,      \* clockInList, clockOutList: [<<device, dir>> -> devices of
               \* FileDevs that take its clock]
  Cap,         \* cycles a ring holds
  MaxUntold    \* bound: waits that end untold: by their time limit, or spuriously

ReadyMax == 2  \* bound: ready counts are not told apart from here on

RangeOf(s) == {s[i] : i \in DOMAIN s}
Ports == RangeOf(CfgL)
Hw == {p \in Ports : p[1] \notin RangeOf(FileDevs)}

ASSUME AudioGroupAssumption ==
  /\ CfgL \in Seq(Ports) /\ CfgL # <<>>
  /\ \A p \in Ports : p = <<p[1], p[2]>> /\ p[2] \in {"in", "out"}
  /\ FileDevs \in Seq(RangeOf(FileDevs)) /\ Internal \subseteq RangeOf(FileDevs)
  /\ Packets \in [RangeOf(FileDevs) -> Seq(Ports)]
  /\ ClockL \in [Ports -> Seq(RangeOf(FileDevs))]
  /\ Cap \in Nat \ {0}
  /\ MaxUntold \in Nat

Drivers == {"alsa", "file"}
GroupDirs == {"in", "out"}

VARIABLES
  cfgN,      \* entries of CfgL that are set up; the drivers then start
  devL,      \* audioGroup_t: msg.iDevL, msg.oDevL
  fill,      \* cycles of a ring that get() can give: input, or room for output
  readyCnt,  \* audio_group_dev_t
  gpc,       \* the group's thread
  dpc,       \* a driver thread: where it is in its callback
  pkts,      \* ... packets whose readiness is to be updated
  hit,       \* ... groupA[] holds the group
  decs,      \* ... records left in _audioGroupDecrReadyCount()
  todo,      \* ... devices left in _audioDevSync(), those of its last call first
  scan,      \* ... devices left in the file driver's _threadCbFunc()
  reg,       \* ... the value it loaded
  fReady,    \* file driver: dev_t.readyCnt
  owed,      \* history: executions of an internal device less its updates
  met,       \* history: devices whose count an execution stored anew after an
             \* update that it did not see
  early,     \* history: the file driver's thread woke untold
  outN       \* waits that ended untold

groupVars  == <<cfgN, devL>>
cbVars     == <<dpc, pkts, hit, decs, todo, scan, reg>>
fileVars   == <<fReady, owed, met, early>>
allVars == <<groupVars, fill, readyCnt, gpc, cbVars, fileVars, outN>>

Up(k) == IF k < ReadyMax THEN k + 1 ELSE k
Down(k) == IF k = 0 THEN ReadyMax ELSE k - 1  \* unsigned

GroupInit ==
  /\ cfgN = 0
  /\ devL = [r \in GroupDirs |-> <<>>]
  /\ fill = [p \in Ports |-> 0]
  /\ readyCnt = [p \in Ports |-> 0]
  /\ gpc = "end"
  /\ dpc = [t \in Drivers |-> IF t = "alsa" THEN "idle" ELSE "rest"]
  /\ pkts = [t \in Drivers |-> <<>>]
  /\ hit = [t \in Drivers |-> FALSE]
  /\ decs = [t \in Drivers |-> <<>>]
  /\ todo = [t \in Drivers |-> <<>>]
  /\ scan = [t \in Drivers |-> <<>>]
  /\ reg = [t \in Drivers |-> 0]
  /\ fReady = [d \in RangeOf(FileDevs) |-> 0]
  /\ owed = [d \in RangeOf(FileDevs) |-> 0]
  /\ met = {} /\ early = FALSE
  /\ outN = 0

------------------------------------------------------------------------------
(* Configuration *)

\* _audioGroupAddDevice(): the loop that looks for the end of the list moves
\* the head of the list, to which its variable is a reference.
AddDevice(l, d) ==
  IF Len(l) < 2 THEN Append(l, d) ELSE <<l[Len(l)], d>>

Configure ==
  /\ cfgN < Len(CfgL)
  /\ LET p == CfgL[cfgN + 1]
     IN  devL' = [devL EXCEPT ![p[2]] = AddDevice(@, p[1])]
  /\ cfgN' = cfgN + 1
  /\ UNCHANGED <<fill, readyCnt, gpc, cbVars, fileVars, outN>>

Started == cfgN = Len(CfgL)

\* The records of the group, in the order they are visited.
Listed(r) == [i \in DOMAIN devL[r] |-> <<devL[r][i], r>>]
Records == Listed("in") \o Listed("out")

------------------------------------------------------------------------------
(* A driver's callback: _audioDeviceCallback() *)

NoDevs == <<>>

Go(t, at) == dpc' = [dpc EXCEPT ![t] = at]

\* audio::buf::update(): a packet that does not fit, or that no samples are
\* left for, leaves its ring as it is (and counts as a fault).
Updated(ps) ==
  [p \in Ports |-> IF p \in RangeOf(ps) /\ fill[p] < Cap THEN fill[p] + 1 ELSE fill[p]]

\* The callback is entered with packets.
CallBack(t, ps) ==
  /\ fill' = Updated(ps)
  /\ pkts' = [pkts EXCEPT ![t] = ps]
  /\ Go(t, "ready")

\* ALSA: a device has a packet, or asks for one.
Packet(p) ==
  /\ Started /\ p \in Hw
  /\ dpc["alsa"] = "idle"
  /\ CallBack("alsa", <<p>>)
  /\ todo' = [todo EXCEPT !["alsa"] = <<NoDevs>> \o @]
  /\ UNCHANGED <<groupVars, readyCnt, gpc, hit, decs, scan, reg, fileVars, outN>>

ReadyOnce(m) == m = 1                       \* mutant: told of once
Ready(m) == m > 0                           \* isDeviceReady()

\* _audioDeviceUpdateReadiness(): the count of the next packet's record is
\* loaded if its ring is ready.
Load(t) ==
  /\ dpc[t] = "ready" /\ pkts[t] # <<>>
  /\ LET p == Head(pkts[t])
     IN  IF Ready(fill[p])
         THEN /\ reg' = [reg EXCEPT ![t] = readyCnt[p]]
              /\ Go(t, "store")
              /\ UNCHANGED pkts
         ELSE /\ pkts' = [pkts EXCEPT ![t] = Tail(@)]
              /\ UNCHANGED <<reg, dpc>>
  /\ UNCHANGED <<groupVars, fill, readyCnt, gpc, hit, decs, todo, scan,
                 fileVars, outN>>

\* ... and stored, one more; the devices clocked by the packet's are noted.
Store(t) ==
  /\ dpc[t] = "store"
  /\ LET p == Head(pkts[t])
     IN  /\ readyCnt' = [readyCnt EXCEPT ![p] = Up(reg[t])]
         /\ todo' = [todo EXCEPT ![t] = <<Head(@) \o ClockL[p]>> \o Tail(@)]
  /\ hit' = [hit EXCEPT ![t] = TRUE]
  /\ pkts' = [pkts EXCEPT ![t] = Tail(@)]
  /\ reg' = [reg EXCEPT ![t] = 0]
  /\ Go(t, "ready")
  /\ UNCHANGED <<groupVars, fill, gpc, decs, scan, fileVars, outN>>

\* _audioGroupNotifyIfReady(): is every count of the group positive?
Notify(t) ==
  LET now == hit[t] /\ \A i \in DOMAIN Records : readyCnt[Records[i]] > 0
  IN  /\ dpc[t] = "ready" /\ pkts[t] = <<>>
      /\ decs' = [decs EXCEPT ![t] = IF now THEN Records ELSE <<>>]
      /\ hit' = [hit EXCEPT ![t] = FALSE]
      /\ Go(t, IF now THEN "decr" ELSE "sync")
      /\ UNCHANGED <<groupVars, fill, readyCnt, gpc, pkts, todo, scan, reg,
                     fileVars, outN>>

\* _audioGroupDecrReadyCount(): the post-decrement of a count ...
Decr(t) ==
  /\ dpc[t] = "decr" /\ decs[t] # <<>>
  /\ reg' = [reg EXCEPT ![t] = readyCnt[Head(decs[t])]]
  /\ readyCnt' = [readyCnt EXCEPT ![Head(decs[t])] = Down(@)]
  /\ Go(t, "put")
  /\ UNCHANGED <<groupVars, fill, gpc, pkts, hit, decs, todo, scan, fileVars,
                 outN>>

\* ... and the store of its result, which is the value before.
PutBack(t) ==
  /\ dpc[t] = "put"
  /\ readyCnt' = [readyCnt EXCEPT ![Head(decs[t])] = reg[t]]
  /\ decs' = [decs EXCEPT ![t] = Tail(@)]
  /\ reg' = [reg EXCEPT ![t] = 0]
  /\ Go(t, "decr")
  /\ UNCHANGED <<groupVars, fill, gpc, pkts, hit, todo, scan, fileVars, outN>>

\* mutex::signalCondVar()
Signal(t) ==
  /\ dpc[t] = "decr" /\ decs[t] = <<>>
  /\ gpc' = IF gpc = "wait" THEN "check" ELSE gpc
  /\ Go(t, "sync")
  /\ UNCHANGED <<groupVars, fill, readyCnt, pkts, hit, decs, todo, scan, reg,
                 fileVars, outN>>

------------------------------------------------------------------------------
(* The file driver *)

\* After a callback: a device that called back inside _audioDevSync() returns to it,
\* the file driver's thread to its devices.
Rest(l) == IF l = <<>> THEN "rest" ELSE "scan"
Back(t) == IF Tail(todo[t]) # <<>> THEN "sync"
           ELSE IF t = "alsa" THEN "idle" ELSE Rest(scan[t])

\* _audioDevSync() and the callback end when no device is left.
Synced(t) ==
  /\ dpc[t] = "sync" /\ Head(todo[t]) = NoDevs
  /\ todo' = [todo EXCEPT ![t] = Tail(@)]
  /\ Go(t, Back(t))
  /\ UNCHANGED <<groupVars, fill, readyCnt, gpc, pkts, hit, decs, scan, reg,
                 fileVars, outN>>

\* file::deviceExecute(): the count of the next device is loaded ...
Sync(t) ==
  /\ dpc[t] = "sync" /\ Head(todo[t]) # NoDevs
  /\ reg' = [reg EXCEPT ![t] = fReady[Head(Head(todo[t]))]]
  /\ Go(t, "execute")
  /\ UNCHANGED <<groupVars, fill, readyCnt, gpc, pkts, hit, decs, todo, scan,
                 fileVars, outN>>

\* ... and stored, one more; a device with the driver's clock is left to the
\* driver's thread, another one is updated here, which calls back.  (No thread reads
\* both a count and a ring that are changed here or below, so the store and the
\* update are one step.)
Execute(t) ==
  /\ dpc[t] = "execute"
  /\ LET d == Head(Head(todo[t]))
     IN  /\ fReady' = [fReady EXCEPT ![d] = Up(reg[t])]
         /\ owed' = [owed EXCEPT ![d] = IF d \in Internal THEN Up(@) ELSE @]
         /\ met' = IF fReady[d] < reg[t] THEN met \cup {d} ELSE met
         /\ IF d \in Internal
            THEN /\ Go(t, "tell")
                 /\ todo' = [todo EXCEPT ![t] = <<Tail(Head(@))>> \o Tail(@)]
                 /\ UNCHANGED <<fill, pkts>>
            ELSE /\ CallBack(t, Packets[d])
                 /\ todo' = [todo EXCEPT ![t] = <<NoDevs, Tail(Head(@))>> \o Tail(@)]
  /\ reg' = [reg EXCEPT ![t] = 0]
  /\ UNCHANGED <<groupVars, readyCnt, gpc, hit, decs, scan, outN, early>>

Tell(t) ==
  /\ dpc[t] = "tell"
  /\ dpc' = [s \in Drivers |->
             IF s = t THEN "sync"
             ELSE IF dpc[s] = "fwait" THEN "scan" ELSE dpc[s]]
  /\ UNCHANGED <<groupVars, fill, readyCnt, gpc, pkts, hit, decs, todo, scan,
                 reg, fileVars, outN>>

\* _threadCbFunc(): the driver's thread waits, to look at all devices then; it starts
\* with start().
FileWait ==
  /\ Started /\ dpc["file"] = "rest"
  /\ Internal # {}
  /\ scan' = [scan EXCEPT !["file"] = FileDevs]
  /\ Go("file", "fwait")
  /\ UNCHANGED <<groupVars, fill, readyCnt, gpc, pkts, hit, decs, todo, reg,
                 fileVars, outN>>

\* The wait may time out; then nothing is looked at.
TimeOutRuns == "scan"                      \* mutant: rc is not looked at
TimeOutRests == "rest"
FileTimeOut ==
  /\ dpc["file"] = "fwait" /\ outN < MaxUntold
  /\ outN' = outN + 1
  /\ Go("file", TimeOutRests)
  /\ UNCHANGED <<groupVars, fill, readyCnt, gpc, pkts, hit, decs, todo, scan,
                 reg, fileVars>>

\* mutex::waitOnCondVar() makes nothing of a spurious wake: it returns as if told.
FileSpurious ==
  /\ dpc["file"] = "fwait" /\ outN < MaxUntold
  /\ outN' = outN + 1
  /\ Go("file", "scan")
  /\ early' = TRUE
  /\ UNCHANGED <<groupVars, fill, readyCnt, gpc, pkts, hit, decs, todo, scan,
                 reg, fReady, owed, met>>

\* The next device: is its count positive?
FileScan ==
  /\ dpc["file"] = "scan"
  /\ IF fReady[Head(scan["file"])] > 0
     THEN Go("file", "take") /\ UNCHANGED scan
     ELSE /\ scan' = [scan EXCEPT !["file"] = Tail(@)]
          /\ Go("file", Rest(Tail(scan["file"])))
  /\ UNCHANGED <<groupVars, fill, readyCnt, gpc, pkts, hit, decs, todo, reg,
                 fileVars, outN>>

FileTake ==
  /\ dpc["file"] = "take"
  /\ reg' = [reg EXCEPT !["file"] = fReady[Head(scan["file"])]]
  /\ Go("file", "less")
  /\ UNCHANGED <<groupVars, fill, readyCnt, gpc, pkts, hit, decs, todo, scan,
                 fileVars, outN>>

\* _update_device() in the thread: a device without the driver's clock has no
\* packets here.
FileRun ==
  /\ dpc["file"] = "less"
  /\ LET d == Head(scan["file"])
     IN  /\ fReady' = [fReady EXCEPT ![d] = Down(reg["file"])]
         /\ owed' = [owed EXCEPT ![d] = IF d \in Internal THEN @ - 1 ELSE @]
         /\ CallBack("file", IF d \in Internal THEN Packets[d] ELSE <<>>)
  /\ todo' = [todo EXCEPT !["file"] = <<NoDevs>> \o @]
  /\ scan' = [scan EXCEPT !["file"] = Tail(@)]
  /\ reg' = [reg EXCEPT !["file"] = 0]
  /\ UNCHANGED <<groupVars, readyCnt, gpc, hit, decs, outN, met, early>>

------------------------------------------------------------------------------
(* The group's thread: _audioGroupThreadFunc() *)

GroupWait ==
  /\ Started /\ gpc = "end"
  /\ gpc' = "wait"
  /\ UNCHANGED <<groupVars, fill, readyCnt, cbVars, fileVars, outN>>

GroupTimeOut ==
  /\ gpc = "wait" /\ outN < MaxUntold
  /\ outN' = outN + 1
  /\ gpc' = "end"
  /\ UNCHANGED <<groupVars, fill, readyCnt, cbVars, fileVars>>

GroupSpurious ==
  /\ gpc = "wait" /\ outN < MaxUntold
  /\ outN' = outN + 1
  /\ gpc' = "check"
  /\ UNCHANGED <<groupVars, fill, readyCnt, cbVars, fileVars>>

AllReady == \A i \in DOMAIN Records : Ready(fill[Records[i]])

\* Are all rings ready?  They are looked at one after the other, but only
\* this thread makes a ring that is ready not ready.
BufIsReady ==
  /\ gpc = "check"
  /\ gpc' = IF AllReady THEN "call" ELSE "end"
  /\ UNCHANGED <<groupVars, fill, readyCnt, cbVars, fileVars, outN>>

\* get() was followed by the application's callback, which has returned.
Advance ==
  /\ gpc = "call"
  /\ fill' = [p \in Ports |->
               IF p \in RangeOf(Records) THEN fill[p] - 1 ELSE fill[p]]
  /\ gpc' = "check"
  /\ UNCHANGED <<groupVars, readyCnt, cbVars, fileVars, outN>>

------------------------------------------------------------------------------
DriverStep(t) ==
  \/ Load(t) \/ Store(t) \/ Notify(t) \/ Decr(t) \/ PutBack(t)
  \/ Signal(t) \/ Synced(t) \/ Sync(t) \/ Execute(t) \/ Tell(t)

FileStep == FileWait \/ FileScan \/ FileTake \/ FileRun
GroupStep == GroupWait \/ BufIsReady \/ Advance

GroupNext ==
  \/ Configure
  \/ \E p \in Ports : Packet(p)
  \/ \E t \in Drivers : DriverStep(t)
  \/ FileStep \/ FileTimeOut \/ FileSpurious
  \/ GroupStep \/ GroupTimeOut \/ GroupSpurious

GroupSpec == GroupInit /\ [][GroupNext]_allVars

\* The threads run, and every hardware stream goes on.
GroupFairness ==
  /\ WF_allVars(Configure)
  /\ \A t \in Drivers : WF_allVars(DriverStep(t))
  /\ \A p \in Ports : SF_allVars(Packet(p))
  /\ WF_allVars(FileStep)
  /\ WF_allVars(GroupStep)

GroupFairSpec == GroupSpec /\ GroupFairness

------------------------------------------------------------------------------
(* Properties *)

DriverAt == {"idle", "rest", "fwait", "scan", "take", "less",
             "ready", "store", "decr", "put", "sync", "execute", "tell"}

\* Every variable has its type.
GroupTypeOK ==
  /\ cfgN \in 0 .. Len(CfgL)
  /\ devL \in [GroupDirs -> Seq({p[1] : p \in Ports})]
  /\ fill \in [Ports -> 0 .. Cap]
  /\ readyCnt \in [Ports -> 0 .. ReadyMax]
  /\ gpc \in {"end", "wait", "check", "call"}
  /\ dpc \in [Drivers -> DriverAt]
  /\ pkts \in [Drivers -> Seq(Ports)]
  /\ hit \in [Drivers -> BOOLEAN]
  /\ decs \in [Drivers -> Seq(Ports)]
  /\ todo \in [Drivers -> Seq(Seq(RangeOf(FileDevs)))]
  /\ scan \in [Drivers -> Seq(RangeOf(FileDevs))]
  /\ reg \in [Drivers -> 0 .. ReadyMax]
  /\ fReady \in [RangeOf(FileDevs) -> 0 .. ReadyMax]
  /\ owed \in [RangeOf(FileDevs) -> Int]
  /\ met \subseteq RangeOf(FileDevs) /\ early \in BOOLEAN
  /\ outN \in 0 .. MaxUntold

\* A file device that the driver's thread runs reads or writes no more cycles than
\* its clock ticked, although its count is loaded and stored by two threads; unless
\* both happened: an execution crossed an update, which leaves a tick too many in
\* the count, and the thread woke untold, which lets it find that one.
OnePerTick == \A d \in Internal : owed[d] >= 0 \/ (d \in met /\ early)

\* As long as the hardware streams go on the application is called, whatever
\* signals are lost on a busy thread.
GroupRuns == []<>(gpc = "call")
=============================================================================
